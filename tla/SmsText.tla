------------------------------ MODULE SmsText ------------------------------
(***************************************************************************)
(* What a short message goes through between the two ends: its number is   *)
(* swapped in pairs and back (sms.cc), and its text is converted from      *)
(* GB 2312 to Unicode and back (unicode.cc) with the searches of           *)
(* kUnicodeGB2312Table in the two directions.                              *)
(*                                                                         *)
(* A text is a sequence of codes: below 0x81 a byte of its own, otherwise  *)
(* the two bytes of a GB character.                                        *)
(*                                                                         *)
(*   phone, text   the message                                             *)
(*   pc            "encode", "decode", "search" (the loop of               *)
(*                 Unicode2GBcode), "emit", "done", or "refused"           *)
(*   i             the position in text, then in unicode                   *)
(*   unicode       the text as StrGB2Unicode leaves it                     *)
(*   low, high     as in Unicode2GBcode, from 0                            *)
(*   gb            what Unicode2GBcode returned                            *)
(*   out           the text as StrUnicode2GB leaves it                     *)
(***************************************************************************)
EXTENDS Integers, Sequences

CONSTANTS Phones, Texts,
          Table       \* kUnicodeGB2312Table, from 0: Table[n][1] is the
                      \* Unicode, Table[n][2] the GB code
CONSTANT Size         \* MSF_ARRAY_SIZE(kUnicodeGB2312Table)

ASSUME SizeAssumption == Size \in Nat \ {0}
ASSUME TableAssumption == Table \in [0 .. Size - 1 -> Nat \X Nat]

\* The table is in the order of Unicode; 0x9FA5 is there twice, with the same
\* code.
ASSUME SortedAssumption ==
  \A m, n \in 0 .. Size - 1 :
    /\ m < n => Table[m][1] <= Table[n][1]
    /\ Table[m][1] = Table[n][1] => Table[m][2] = Table[n][2]

ASSUME TextsAssumption == Texts \subseteq Seq(Nat)
ASSUME PhonesAssumption ==
  Phones \subseteq Seq({"0", "1", "2", "3", "4", "5", "6", "7", "8", "9"})

VARIABLES phone, text, pc, i, unicode, low, high, gb, out

vars == <<phone, text, pc, i, unicode, low, high, gb, out>>

----------------------------------------------------------------------------
(* Numbers.  The terminating \0 takes part in the last swap of an odd one. *)

Swapped(s, n) ==
  [k \in 1 .. n |-> LET other == IF k % 2 = 1 THEN k + 1 ELSE k - 1
                    IN IF other > Len(s) THEN "NUL" ELSE s[other]]

\* Faulty variant of InvetNumbers: no F is filled in.
InvetNumbersShort(s) == Swapped(s, Len(s))

InvetNumbers(s) ==
  IF Len(s) % 2 = 1
  THEN [Swapped(s, Len(s) + 1) EXCEPT ![Len(s)] = "F"]
  ELSE Swapped(s, Len(s))

SerializeNumbers(s) ==
  LET d == Swapped(s, Len(s))
  IN IF s # <<>> /\ d[Len(s)] = "F" THEN SubSeq(d, 1, Len(s) - 1) ELSE d

----------------------------------------------------------------------------
(* StrGB2Unicode.                                                          *)

Init ==
  /\ phone \in Phones /\ text \in Texts
  /\ pc = "encode" /\ i = 1 /\ unicode = <<>>
  /\ low = 0 /\ high = -1 /\ gb = 0 /\ out = <<>>

\* The search stops before the last row.
Rows(code) == {n \in 0 .. Size - 2 : Table[n][2] = code}
FirstRow(code) == CHOOSE n \in Rows(code) : \A m \in Rows(code) : n <= m

EncodeChar ==
  /\ pc = "encode" /\ i <= Len(text)
  /\ LET code == text[i]
     IN \/ /\ code < 129
           /\ unicode' = Append(unicode, code)
           /\ i' = i + 1 /\ pc' = pc
        \/ /\ code >= 129 /\ Rows(code) # {}
           /\ unicode' = Append(unicode, Table[FirstRow(code)][1])
           /\ i' = i + 1 /\ pc' = pc
        \/ /\ code >= 129 /\ Rows(code) = {}
           /\ pc' = "refused"
           /\ UNCHANGED <<unicode, i>>
  /\ UNCHANGED <<phone, text, low, high, gb, out>>

EncodeEnd ==
  /\ pc = "encode" /\ i > Len(text)
  /\ pc' = "decode" /\ i' = 1
  /\ UNCHANGED <<phone, text, unicode, low, high, gb, out>>

----------------------------------------------------------------------------
(* StrUnicode2GB, with Unicode2GBcode for each code.                       *)

\* The switch and the ASCII ranges of Unicode2GBcode.
Special == {2, 10, 13, 64}
Plain == 32 .. 90 \cup 97 .. 126
Direct(code) ==
  CASE code = 2 -> 36
    [] code = 64 -> 161
    [] OTHER -> code

Unicode2GBcode ==
  /\ pc = "decode" /\ i <= Len(unicode)
  /\ IF unicode[i] \in Special \cup Plain
     THEN /\ gb' = Direct(unicode[i]) /\ pc' = "emit"
          /\ UNCHANGED <<low, high>>
     ELSE /\ low' = 0 /\ high' = Size - 1 /\ pc' = "search"
          /\ UNCHANGED gb
  /\ UNCHANGED <<phone, text, i, unicode, out>>

mid == (low + high) \div 2

\* Faulty variant of Above: the middle row is kept.
AboveKept == mid

\* Faulty variant of Above: a row is skipped.
AboveSkipping == mid + 2

Above == mid + 1

\* Faulty variant of Below: a row is skipped.
BelowSkipping == mid - 2

Below == mid - 1

Search ==
  /\ pc = "search"
  /\ \/ /\ low > high
        /\ gb' = 0 /\ pc' = "emit"
        /\ UNCHANGED <<low, high>>
     \/ /\ low <= high /\ Table[mid][1] = unicode[i]
        /\ gb' = Table[mid][2] /\ pc' = "emit"
        /\ UNCHANGED <<low, high>>
     \/ /\ low <= high /\ Table[mid][1] < unicode[i]
        /\ low' = Above
        /\ UNCHANGED <<high, gb, pc>>
     \/ /\ low <= high /\ Table[mid][1] > unicode[i]
        /\ high' = Below
        /\ UNCHANGED <<low, gb, pc>>
  /\ UNCHANGED <<phone, text, i, unicode, out>>

\* Two dots for a code that is not there.
Emitted(code) == IF code = 0 \/ code \in 128 .. 254 THEN <<46, 46>> ELSE <<code>>

Emit ==
  /\ pc = "emit"
  /\ out' = out \o Emitted(gb)
  /\ i' = i + 1 /\ pc' = "decode"
  /\ UNCHANGED <<phone, text, unicode, low, high, gb>>

DecodeEnd ==
  /\ pc = "decode" /\ i > Len(unicode)
  /\ pc' = "done"
  /\ UNCHANGED <<phone, text, i, unicode, low, high, gb, out>>

Next == EncodeChar \/ EncodeEnd \/ Unicode2GBcode \/ Search \/ Emit \/ DecodeEnd

Spec == Init /\ [][Next]_vars
FairSpec == Spec /\ WF_vars(Next)

----------------------------------------------------------------------------
(* Properties.                                                             *)

TypeOK ==
  /\ phone \in Phones /\ text \in Texts
  /\ pc \in {"encode", "decode", "search", "emit", "done", "refused"}
  /\ i \in Nat \ {0} /\ gb \in Nat
  /\ low \in 0 .. Size /\ high \in -1 .. Size - 1
  /\ unicode \in Seq(Nat) /\ out \in Seq(Nat)

\* What Unicode2GBcode returns is what the table says: the code of a row with
\* this Unicode, or 0 if there is none, wherever the row is.
SearchAgrees ==
  pc = "emit" /\ unicode[i] \notin Special \cup Plain =>
    \/ \E n \in 0 .. Size - 1 : Table[n][1] = unicode[i] /\ Table[n][2] = gb
    \/ gb = 0 /\ \A n \in 0 .. Size - 1 : Table[n][1] # unicode[i]

\* Characters that come back: those of all rows but the last, unless their GB
\* code is taken for a byte, and the ASCII characters that Unicode2GBcode
\* returns as they are.
Exact(code) ==
  \/ code \in (Plain \cup {10, 13}) \ {64}
  \/ /\ code >= 255
     /\ Rows(code) # {}
     /\ Table[FirstRow(code)][1] \notin Special \cup Plain

\* A message of such characters comes back as it was, and so does the number.
RoundTrip ==
  /\ pc = "done" /\ (\A k \in DOMAIN text : Exact(text[k])) => out = text
  /\ SerializeNumbers(InvetNumbers(phone)) = phone

\* Both conversions end, whatever the text.
ConversionEnds == <>(pc \in {"done", "refused"})

=============================================================================
