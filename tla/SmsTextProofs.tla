--------------------------- MODULE SmsTextProofs ---------------------------
(***************************************************************************)
(* Proofs about module SmsText, for every table, text and number.          *)
(***************************************************************************)
EXTENDS SmsText, WellFoundedInduction, TLAPS

\* While Unicode2GBcode searches, every row with the code it looks for is
\* between low and high.
SearchInv ==
  /\ pc \in {"search", "emit"} => i <= Len(unicode)
  /\ pc = "search" =>
       \A n \in 0 .. Size - 1 : Table[n][1] = unicode[i] => low <= n /\ n <= high

Inv == TypeOK /\ SearchInv /\ SearchAgrees

\* The middle of a range is in the range.
LEMMA MidInRange ==
  ASSUME NEW a \in Nat, NEW b \in Nat, a <= b
  PROVE  /\ (a + b) \div 2 \in Nat
         /\ a <= (a + b) \div 2
         /\ (a + b) \div 2 <= b
  OBVIOUS

\* The parts of a row are numbers.
LEMMA RowType ==
  ASSUME NEW n \in 0 .. Size - 1
  PROVE  Table[n][1] \in Nat /\ Table[n][2] \in Nat
  BY TableAssumption

\* Inv holds in the first state.
LEMMA InitInv == Init => Inv
  BY SizeAssumption DEF Init, Inv, TypeOK, SearchInv, SearchAgrees

\* A set of numbers that is not empty has a least one.
LEMMA LeastNumber ==
  ASSUME NEW S, S \subseteq Nat, S # {}
  PROVE  \E x \in S : \A y \in S : x <= y
<1> DEFINE R == OpToRel(<, Nat)
<1>1. IsWellFoundedOn(R, Nat)
  BY NatLessThanWellFounded
<1> HIDE DEF R
<1>2. PICK x \in S : \A y \in S : ~ (<<y, x>> \in R)
  BY Zenon, <1>1, WFMin
<1>3. \A y \in S : ~ (y < x)
  BY Zenon, <1>2 DEF R, OpToRel
<1> QED
  BY <1>2, <1>3

\* The row StrGB2Unicode stops at is a row of the table with the GB code.
LEMMA FirstRowFound ==
  ASSUME NEW code, Rows(code) # {}
  PROVE  /\ FirstRow(code) \in 0 .. Size - 1
         /\ Table[FirstRow(code)][2] = code
<1>1. Rows(code) \subseteq 0 .. Size - 1 /\ Rows(code) \subseteq Nat
  BY SizeAssumption DEF Rows
<1>2. \E n \in Rows(code) : \A m \in Rows(code) : n <= m
  BY <1>1, LeastNumber
<1>3. FirstRow(code) \in Rows(code)
  BY <1>2 DEF FirstRow
<1> QED
  BY <1>1, <1>3 DEF Rows

\* EncodeChar appends a number to unicode and has nothing to do with the
\* search.
LEMMA EncodeCharInv == Inv /\ EncodeChar => Inv'
<1> SUFFICES ASSUME Inv, EncodeChar PROVE Inv'
  OBVIOUS
<1>1. text \in Seq(Nat) /\ i \in 1 .. Len(text)
  BY TextsAssumption DEF Inv, TypeOK, EncodeChar
<1>2. text[i] \in Nat
  BY <1>1
<1>3. unicode' \in Seq(Nat)
  <2>1. CASE /\ Rows(text[i]) # {}
             /\ unicode' = Append(unicode, Table[FirstRow(text[i])][1])
    <3>1. Table[FirstRow(text[i])][1] \in Nat
      BY <2>1, FirstRowFound, RowType
    <3> QED
      BY <2>1, <3>1 DEF Inv, TypeOK
  <2>2. CASE unicode' = Append(unicode, text[i])
    BY <1>2, <2>2 DEF Inv, TypeOK
  <2>3. CASE UNCHANGED unicode
    BY <2>3 DEF Inv, TypeOK
  <2> QED
    BY <2>1, <2>2, <2>3 DEF EncodeChar
<1>4. i' \in Nat \ {0} /\ pc' \in {"encode", "refused"}
  BY DEF EncodeChar, Inv, TypeOK
<1>5. UNCHANGED <<phone, text, low, high, gb, out>>
  BY DEF EncodeChar
<1> QED
  BY <1>3, <1>4, <1>5 DEF Inv, TypeOK, SearchInv, SearchAgrees

\* A turn of the loop of Unicode2GBcode leaves out no row with the code: the
\* rows on the other side of the middle are smaller, or greater.
LEMMA SearchStepInv == Inv /\ Search => Inv'
<1> SUFFICES ASSUME Inv, Search PROVE Inv'
  OBVIOUS
<1>1. /\ pc = "search" /\ i \in 1 .. Len(unicode) /\ unicode[i] \in Nat
      /\ UNCHANGED <<phone, text, i, unicode, out>>
  BY DEF Inv, TypeOK, SearchInv, Search
<1>2. low \in 0 .. Size /\ high \in -1 .. Size - 1
  BY DEF Inv, TypeOK
<1>3. \A n \in 0 .. Size - 1 : Table[n][1] = unicode[i] => low <= n /\ n <= high
  BY <1>1 DEF Inv, SearchInv
<1>4. CASE low > high /\ gb' = 0 /\ pc' = "emit" /\ UNCHANGED <<low, high>>
  <2>1. \A n \in 0 .. Size - 1 : Table[n][1] # unicode[i]
    BY <1>2, <1>3, <1>4
  <2> QED
    BY <1>1, <1>4, <2>1 DEF Inv, TypeOK, SearchInv, SearchAgrees
<1>5. CASE low <= high
  <2>1. mid \in 0 .. Size - 1 /\ low <= mid /\ mid <= high
    BY <1>2, <1>5, SizeAssumption, MidInRange DEF mid
  <2>2. Table[mid][1] \in Nat /\ Table[mid][2] \in Nat
    BY <2>1, RowType
  <2> HIDE DEF mid
  <2>3. CASE Table[mid][1] = unicode[i] /\ gb' = Table[mid][2] /\ pc' = "emit"
             /\ UNCHANGED <<low, high>>
    BY <1>1, <2>1, <2>2, <2>3 DEF Inv, TypeOK, SearchInv, SearchAgrees
  <2>4. CASE Table[mid][1] < unicode[i] /\ low' = Above /\ UNCHANGED <<high, gb, pc>>
    <3>1. \A n \in 0 .. Size - 1 : Table[n][1] = unicode[i] => mid + 1 <= n /\ n <= high
      <4> SUFFICES ASSUME NEW n \in 0 .. Size - 1, Table[n][1] = unicode[i]
                   PROVE  mid + 1 <= n /\ n <= high
        OBVIOUS
      <4>1. ~ (n < mid)
        BY <1>1, <2>1, <2>2, <2>4, SortedAssumption
      <4>2. n # mid
        BY <1>1, <2>2, <2>4
      <4> QED
        BY <1>3, <2>1, <4>1, <4>2
    <3> QED
      BY <1>1, <1>2, <2>1, <2>4, <3>1, SizeAssumption
      DEF Inv, TypeOK, SearchInv, SearchAgrees, Above
  <2>5. CASE Table[mid][1] > unicode[i] /\ high' = Below /\ UNCHANGED <<low, gb, pc>>
    <3>1. \A n \in 0 .. Size - 1 : Table[n][1] = unicode[i] => low <= n /\ n <= mid - 1
      <4> SUFFICES ASSUME NEW n \in 0 .. Size - 1, Table[n][1] = unicode[i]
                   PROVE  low <= n /\ n <= mid - 1
        OBVIOUS
      <4>1. ~ (mid < n)
        BY <1>1, <2>1, <2>2, <2>5, SortedAssumption
      <4>2. n # mid
        BY <1>1, <2>2, <2>5
      <4> QED
        BY <1>3, <2>1, <4>1, <4>2
    <3> QED
      BY <1>1, <1>2, <2>1, <2>5, <3>1, SizeAssumption
      DEF Inv, TypeOK, SearchInv, SearchAgrees, Below
  <2> QED
    BY <1>5, <1>2, <2>3, <2>4, <2>5 DEF Search
<1> QED
  BY <1>2, <1>4, <1>5 DEF Search

\* The other steps.
LEMMA OtherInv ==
  Inv /\ (EncodeEnd \/ Unicode2GBcode \/ Emit \/ DecodeEnd \/ UNCHANGED vars) => Inv'
<1> SUFFICES ASSUME Inv, EncodeEnd \/ Unicode2GBcode \/ Emit \/ DecodeEnd \/ UNCHANGED vars
             PROVE  Inv'
  OBVIOUS
<1> USE DEF Inv, TypeOK, SearchInv, SearchAgrees
<1>1. CASE EncodeEnd
  BY <1>1 DEF EncodeEnd
<1>2. CASE Unicode2GBcode
  <2>1. i \in 1 .. Len(unicode) /\ unicode[i] \in Nat
    BY <1>2 DEF Unicode2GBcode
  <2>2. Direct(unicode[i]) \in Nat
    BY <2>1 DEF Direct
  <2>3. CASE unicode[i] \in Special \cup Plain
    BY <1>2, <2>2, <2>3 DEF Unicode2GBcode
  <2>4. CASE unicode[i] \notin Special \cup Plain
    <3>1. /\ pc' = "search" /\ low' = 0 /\ high' = Size - 1
          /\ UNCHANGED <<phone, text, i, unicode, gb, out>>
      BY <1>2, <2>4 DEF Unicode2GBcode
    <3>2. low' \in 0 .. Size /\ high' \in -1 .. Size - 1
      BY <3>1, SizeAssumption
    <3>3. \A n \in 0 .. Size - 1 : low' <= n /\ n <= high'
      BY <3>1, SizeAssumption
    <3> QED
      BY <2>1, <3>1, <3>2, <3>3
  <2> QED
    BY <2>3, <2>4
<1>3. CASE Emit
  <2>1. Emitted(gb) \in Seq(Nat)
    BY DEF Emitted
  <2>2. out' \in Seq(Nat)
    BY <1>3, <2>1 DEF Emit
  <2> QED
    BY <1>3, <2>2 DEF Emit
<1>4. CASE DecodeEnd
  BY <1>4 DEF DecodeEnd
<1>5. CASE UNCHANGED vars
  BY <1>5 DEF vars
<1> QED
  BY <1>1, <1>2, <1>3, <1>4, <1>5

\* Inv is inductive.
LEMMA InvInductive == Spec => []Inv
<1>1. Inv /\ [Next]_vars => Inv'
  BY EncodeCharInv, SearchStepInv, OtherInv DEF Next
<1> QED
  BY InitInv, <1>1, PTL DEF Spec

\* The variables of both conversions keep their types; in particular the
\* search never leaves the table.
THEOREM SmsTypes == Spec => []TypeOK
<1>1. Inv => TypeOK
  BY DEF Inv
<1> QED
  BY InvInductive, <1>1, PTL

\* Unicode2GBcode returns what the table says, for every sorted table and
\* every code.
THEOREM SearchCorrect == Spec => []SearchAgrees
<1>1. Inv => SearchAgrees
  BY DEF Inv
<1> QED
  BY InvInductive, <1>1, PTL

----------------------------------------------------------------------------
(* The round trip.                                                         *)

Digits == {"0", "1", "2", "3", "4", "5", "6", "7", "8", "9"}

Other(k) == IF k % 2 = 1 THEN k + 1 ELSE k - 1

\* The places of a pair are each other's, and a number of even length is made
\* of whole pairs.
LEMMA Pairs ==
  ASSUME NEW n \in Nat, n % 2 = 0, NEW k \in 1 .. n
  PROVE  Other(k) \in 1 .. n /\ Other(Other(k)) = k
<1>1. CASE k % 2 = 1
  <2>1. k # n /\ (k + 1) % 2 # 1
    BY <1>1
  <2> QED
    BY <1>1, <2>1 DEF Other
<1>2. CASE k % 2 # 1
  <2>1. k # 1 /\ (k - 1) % 2 = 1
    BY <1>2
  <2> QED
    BY <1>2, <2>1 DEF Other
<1> QED
  BY <1>1, <1>2

\* What swapping leaves at each place.
LEMMA SwappedAt ==
  ASSUME NEW s, NEW n
  PROVE  /\ DOMAIN Swapped(s, n) = 1 .. n
         /\ Swapped(s, n) = [k \in 1 .. n |-> Swapped(s, n)[k]]
         /\ \A k \in 1 .. n :
              Swapped(s, n)[k] = IF Other(k) > Len(s) THEN "NUL" ELSE s[Other(k)]
  BY DEF Swapped, Other

\* The number of an even length: swapping twice changes nothing.
LEMMA EvenNumber ==
  ASSUME NEW s \in Seq(Digits), Len(s) % 2 = 0
  PROVE  SerializeNumbers(InvetNumbers(s)) = s
<1> DEFINE n == Len(s)
           r == Swapped(s, n)
           d == Swapped(r, n)
<1>1. n \in Nat /\ n % 2 = 0 /\ (\A k \in 1 .. n : s[k] \in Digits)
      /\ s = [k \in 1 .. n |-> s[k]]
  OBVIOUS
<1>2. InvetNumbers(s) = r
  BY <1>1 DEF InvetNumbers
<1>3. \A k \in 1 .. n : Other(k) \in 1 .. n /\ Other(Other(k)) = k
  BY <1>1, Pairs
<1>4. /\ r = [k \in 1 .. n |-> r[k]] /\ DOMAIN r = 1 .. n
      /\ \A k \in 1 .. n : r[k] = s[Other(k)]
  <2>1. \A k \in 1 .. n : ~ (Other(k) > Len(s))
    BY <1>1, <1>3
  <2> QED
    BY <2>1, SwappedAt
<1>5. Len(r) = n
  BY <1>1, <1>4
<1> HIDE DEF r
<1>6. d = [k \in 1 .. n |-> d[k]] /\ \A k \in 1 .. n : d[k] = s[k]
  <2>1. \A k \in 1 .. n : ~ (Other(k) > Len(r))
    BY <1>1, <1>3, <1>5
  <2>2. \A k \in 1 .. n : d[k] = r[Other(k)]
    BY <2>1, SwappedAt
  <2>3. d = [k \in 1 .. n |-> d[k]]
    BY SwappedAt
  <2> QED
    BY <1>3, <1>4, <2>2, <2>3
<1> HIDE DEF d
<1>7. d = s
  BY <1>1, <1>6
<1>8. r # <<>> => d[n] # "F"
  BY <1>1, <1>4, <1>7 DEF Digits
<1> QED
  BY <1>2, <1>5, <1>7, <1>8 DEF SerializeNumbers, d

\* The number of an odd length: the F that is filled in is taken off again.
LEMMA OddNumber ==
  ASSUME NEW s \in Seq(Digits), Len(s) % 2 = 1
  PROVE  SerializeNumbers(InvetNumbers(s)) = s
<1> DEFINE n == Len(s)
           w == Swapped(s, n + 1)
           r == InvetNumbers(s)
           d == Swapped(r, n + 1)
<1>1. /\ n \in Nat /\ n >= 1 /\ n % 2 = 1 /\ (n + 1) % 2 = 0
      /\ s = [k \in 1 .. n |-> s[k]]
  OBVIOUS
<1>2. /\ \A k \in 1 .. n + 1 : Other(k) \in 1 .. n + 1 /\ Other(Other(k)) = k
      /\ Other(n) = n + 1 /\ Other(n + 1) = n
  <2>1. Other(n) = n + 1
    BY <1>1 DEF Other
  <2>2. n + 1 \in Nat /\ (n + 1) % 2 # 1 /\ (n + 1) - 1 = n
    BY <1>1
  <2>3. Other(n + 1) = n
    BY <2>2 DEF Other
  <2> QED
    BY <1>1, <2>1, <2>2, <2>3, Pairs
<1>3. \A k \in 1 .. n + 1 : k # n => Other(k) # n + 1
  BY <1>1, <1>2
<1>4. DOMAIN w = 1 .. n + 1 /\ \A k \in 1 .. n + 1 : k # n => w[k] = s[Other(k)]
  <2>1. \A k \in 1 .. n + 1 : k # n => ~ (Other(k) > Len(s))
    BY <1>1, <1>2, <1>3
  <2> QED
    BY <2>1, SwappedAt
<1>5. r = [w EXCEPT ![n] = "F"]
  BY <1>1 DEF InvetNumbers
<1> HIDE DEF w, r
<1>6. /\ r = [k \in 1 .. n + 1 |-> r[k]] /\ DOMAIN r = 1 .. n + 1 /\ r[n] = "F"
      /\ \A k \in 1 .. n + 1 : k # n => r[k] = s[Other(k)]
  <2>1. r = [k \in 1 .. n + 1 |-> IF k = n THEN "F" ELSE w[k]]
    BY Zenon, <1>4, <1>5
  <2>2. n \in 1 .. n + 1
    BY <1>1
  <2> QED
    BY <1>4, <2>1, <2>2
<1>7. Len(r) = n + 1 /\ r # <<>>
  BY <1>1, <1>6
<1>8. /\ d = [k \in 1 .. n + 1 |-> d[k]] /\ DOMAIN d = 1 .. n + 1
      /\ \A k \in 1 .. n + 1 : d[k] = r[Other(k)]
  <2>1. \A k \in 1 .. n + 1 : ~ (Other(k) > Len(r))
    BY <1>1, <1>2, <1>7
  <2> QED
    BY <2>1, SwappedAt
<1>9. SerializeNumbers(r) = IF d[n + 1] = "F" THEN SubSeq(d, 1, n) ELSE d
  BY <1>1, <1>7 DEF SerializeNumbers
<1> HIDE DEF d
<1>10. d[n + 1] = "F"
  <2>1. n + 1 \in 1 .. n + 1
    BY <1>1
  <2> QED
    BY Zenon, <1>2, <1>6, <1>8, <2>1
<1>11. \A k \in 1 .. n : d[k] = s[k]
  <2> SUFFICES ASSUME NEW k \in 1 .. n PROVE d[k] = s[k]
    OBVIOUS
  <2>1. k \in 1 .. n + 1 /\ Other(k) \in 1 .. n + 1 /\ Other(k) # n
    BY <1>1, <1>2
  <2> QED
    BY Zenon, <1>2, <1>6, <1>8, <2>1
<1>12. SubSeq(d, 1, n) = [k \in 1 .. n |-> d[k]]
  BY <1>1, <1>8
<1> QED
  BY <1>1, <1>9, <1>10, <1>11, <1>12 DEF r

\* InvetNumbers and SerializeNumbers undo each other.
LEMMA NumberComesBack ==
  ASSUME NEW s \in Phones
  PROVE  SerializeNumbers(InvetNumbers(s)) = s
<1>1. s \in Seq(Digits)
  BY PhonesAssumption DEF Digits
<1>2. Len(s) % 2 = 0 \/ Len(s) % 2 = 1
  BY <1>1
<1> QED
  BY <1>1, <1>2, EvenNumber, OddNumber

\* What StrGB2Unicode makes of a code.
Enc(code) == IF code < 129 THEN code ELSE Table[FirstRow(code)][1]

AllExact(t) == \A k \in DOMAIN t : Exact(t[k])

\* The first n members of u are the Unicode of t; those of o are those of t.
Encodes(u, t, n) == \A k \in 1 .. n : u[k] = Enc(t[k])
Same(o, t, n) == \A k \in 1 .. n : o[k] = t[k]

\* How far the conversion has got: unicode and, of characters that come back,
\* out are made of the characters before i.
Progress ==
  /\ i <= Len(text) + 1
  /\ pc = "encode" =>
       Len(unicode) = i - 1 /\ out = <<>> /\ Encodes(unicode, text, i - 1)
  /\ pc \in {"decode", "search", "emit", "done"} =>
       /\ Len(unicode) = Len(text) /\ Encodes(unicode, text, Len(text))
       /\ AllExact(text) => Len(out) = i - 1 /\ Same(out, text, i - 1)
  /\ pc = "search" => unicode[i] \notin Special \cup Plain
  /\ pc = "emit" /\ unicode[i] \in Special \cup Plain => gb = Direct(unicode[i])
  /\ pc = "done" => i = Len(text) + 1

\* The text is a sequence of codes.
LEMMA TextType == TypeOK => text \in Seq(Nat) /\ Len(text) \in Nat
  BY TextsAssumption DEF TypeOK

\* While a code is searched or emitted, i is a place of the text.
LEMMA AtEmit ==
  ASSUME Inv, Progress, pc \in {"search", "emit"}
  PROVE  i \in 1 .. Len(text) /\ Len(text) \in Nat /\ Len(unicode) = Len(text)
<1>1. Len(unicode) = Len(text)
  BY DEF Progress
<1>2. i <= Len(unicode)
  BY DEF Inv, SearchInv
<1>3. i \in Nat \ {0} /\ Len(text) \in Nat
  BY TextType DEF Inv, TypeOK
<1> QED
  BY <1>1, <1>2, <1>3

\* At Emit, a character that comes back has been found again.
LEMMA GbExact ==
  ASSUME Inv, Progress, pc = "emit", AllExact(text)
  PROVE  gb = text[i] /\ Emitted(gb) = <<text[i]>>
<1>1. /\ i \in 1 .. Len(text) /\ i \in DOMAIN text /\ text[i] \in Nat
      /\ unicode[i] = Enc(text[i])
  <2>1. i \in 1 .. Len(text) /\ Encodes(unicode, text, Len(text))
    BY AtEmit DEF Progress
  <2>2. text \in Seq(Nat)
    BY TextType DEF Inv
  <2> QED
    BY <2>1, <2>2 DEF Encodes
<1>2. Exact(text[i])
  BY <1>1 DEF AllExact
<1>3. CASE text[i] \in (Plain \cup {10, 13}) \ {64}
  <2>1. text[i] < 129 /\ text[i] # 0 /\ text[i] # 2 /\ text[i] # 64
        /\ text[i] \notin 128 .. 254
    BY <1>3 DEF Plain
  <2>2. unicode[i] = text[i]
    BY <1>1, <2>1 DEF Enc
  <2>2a. unicode[i] \in Special \cup Plain
    BY <1>3, <2>2 DEF Special
  <2>3. gb = text[i]
    BY <2>1, <2>2, <2>2a DEF Progress, Direct
  <2> QED
    BY <2>1, <2>3 DEF Emitted
<1>4. CASE /\ text[i] >= 255 /\ Rows(text[i]) # {}
           /\ Table[FirstRow(text[i])][1] \notin Special \cup Plain
  <2> DEFINE f == FirstRow(text[i])
  <2>1. f \in 0 .. Size - 1 /\ Table[f][2] = text[i]
    BY <1>4, FirstRowFound
  <2> HIDE DEF f
  <2>2. unicode[i] = Table[f][1] /\ unicode[i] \notin Special \cup Plain
    BY <1>1, <1>4 DEF Enc, f
  <2>3. PICK n \in 0 .. Size - 1 : Table[n][1] = unicode[i] /\ Table[n][2] = gb
    BY <2>1, <2>2 DEF Inv, SearchAgrees
  <2>4. gb = text[i]
    BY <2>1, <2>2, <2>3, SortedAssumption
  <2>5. text[i] # 0 /\ text[i] \notin 128 .. 254
    <3>1. \A c \in Nat : c >= 255 => c # 0 /\ c \notin 128 .. 254
      OBVIOUS
    <3> QED
      BY Zenon, <1>1, <1>4, <3>1
  <2> QED
    BY <2>4, <2>5 DEF Emitted
<1> QED
  BY <1>2, <1>3, <1>4 DEF Exact

\* EncodeChar adds the Unicode of the next character.
LEMMA EncodeCharProgress == Inv /\ Progress /\ EncodeChar => Progress'
<1> SUFFICES ASSUME Inv, Progress, EncodeChar PROVE Progress'
  OBVIOUS
<1>1. /\ text \in Seq(Nat) /\ i \in 1 .. Len(text) /\ unicode \in Seq(Nat)
      /\ pc = "encode" /\ Len(unicode) = i - 1 /\ out = <<>>
      /\ Encodes(unicode, text, i - 1)
      /\ UNCHANGED <<text, out>> /\ text[i] \in Nat
  <2>1. pc = "encode" /\ i <= Len(text) /\ UNCHANGED <<text, out>>
    BY DEF EncodeChar
  <2>2. text \in Seq(Nat) /\ i \in Nat \ {0} /\ unicode \in Seq(Nat)
    BY TextType DEF Inv, TypeOK
  <2>3. Len(unicode) = i - 1 /\ out = <<>> /\ Encodes(unicode, text, i - 1)
    BY <2>1 DEF Progress
  <2>4. i \in 1 .. Len(text) /\ text[i] \in Nat
    BY <2>1, <2>2
  <2> QED
    BY <2>1, <2>2, <2>3, <2>4
<1>2. CASE pc' = "refused" /\ i' = i
  BY <1>1, <1>2 DEF Progress
<1>3. CASE /\ unicode' = Append(unicode, Enc(text[i])) /\ Enc(text[i]) \in Nat
           /\ i' = i + 1 /\ pc' = pc
  <2>1. Len(unicode') = i
    BY <1>1, <1>3
  <2>2. Encodes(unicode', text, i)
    <3> SUFFICES ASSUME NEW k \in 1 .. i PROVE unicode'[k] = Enc(text[k])
      BY DEF Encodes
    <3>1. CASE k = i
      BY <1>1, <1>3, <3>1
    <3>2. CASE k \in 1 .. i - 1
      BY <1>1, <1>3, <3>2 DEF Encodes
    <3> QED
      BY <1>1, <3>1, <3>2
  <2>3. i' - 1 = i /\ i' <= Len(text') + 1
    BY <1>1, <1>3
  <2>4. /\ pc' = "encode" /\ out' = <<>> /\ Len(unicode') = i' - 1
        /\ Encodes(unicode', text', i' - 1)
    BY <1>1, <1>3, <2>1, <2>2, <2>3
  <2> QED
    BY <2>3, <2>4 DEF Progress
<1>4. CASE text[i] < 129
  BY <1>1, <1>3, <1>4 DEF EncodeChar, Enc
<1>5. CASE ~ (text[i] < 129) /\ Rows(text[i]) # {}
  <2>1. Enc(text[i]) = Table[FirstRow(text[i])][1] /\ Enc(text[i]) \in Nat
    BY <1>5, FirstRowFound, RowType DEF Enc
  <2> QED
    BY <1>3, <1>5, <2>1 DEF EncodeChar
<1>6. CASE ~ (text[i] < 129) /\ Rows(text[i]) = {}
  BY <1>2, <1>6 DEF EncodeChar
<1> QED
  BY <1>4, <1>5, <1>6

\* Emit adds the next character of the text, if all of them come back.
LEMMA EmitProgress == Inv /\ Progress /\ Emit => Progress'
<1> SUFFICES ASSUME Inv, Progress, Emit PROVE Progress'
  OBVIOUS
<1>1. /\ i \in Nat /\ i >= 1 /\ i <= Len(text) /\ text \in Seq(Nat) /\ Len(text) \in Nat
      /\ pc = "emit" /\ pc' = "decode" /\ i' = i + 1
      /\ out \in Seq(Nat) /\ out' = out \o Emitted(gb)
      /\ UNCHANGED <<text, unicode>> /\ text[i] \in Nat
  <2>1. /\ pc = "emit" /\ pc' = "decode" /\ i' = i + 1
        /\ out' = out \o Emitted(gb) /\ UNCHANGED <<text, unicode>>
    BY DEF Emit
  <2>2. text \in Seq(Nat) /\ i \in Nat /\ i >= 1 /\ out \in Seq(Nat)
    BY TextType DEF Inv, TypeOK
  <2>3. Len(text) \in Nat /\ i <= Len(text)
    BY <2>1, <2>2, AtEmit
  <2>4. text[i] \in Nat
    BY <2>2, <2>3
  <2> QED
    BY <2>1, <2>2, <2>3, <2>4
<1>2. ASSUME AllExact(text)
      PROVE  Len(out') = i /\ Same(out', text, i)
  <2>1. out' = out \o <<text[i]>>
    BY Zenon, <1>1, <1>2, GbExact
  <2>2. Len(out) = i - 1 /\ Same(out, text, i - 1)
    BY <1>1, <1>2 DEF Progress
  <2>3. Len(out') = i
    BY <1>1, <2>1, <2>2
  <2>4. ASSUME NEW k \in 1 .. i PROVE out'[k] = text[k]
    <3>1. CASE k = i
      BY <1>1, <2>1, <2>2, <3>1
    <3>2. CASE k \in 1 .. i - 1
      BY <1>1, <2>1, <2>2, <3>2 DEF Same
    <3>3. i \in Nat
      BY <1>1
    <3>4. k = i \/ k \in 1 .. i - 1
      BY <3>3
    <3> QED
      BY <3>1, <3>2, <3>4
  <2> QED
    BY <2>3, <2>4 DEF Same
<1>3. i' - 1 = i /\ i' <= Len(text') + 1
  BY <1>1
<1>4. Len(unicode) = Len(text) /\ Encodes(unicode, text, Len(text))
  BY <1>1 DEF Progress
<1> QED
  BY <1>1, <1>2, <1>3, <1>4 DEF Progress

\* The other steps leave both sequences alone.
LEMMA OtherProgress ==
  Inv /\ Progress
    /\ (EncodeEnd \/ Unicode2GBcode \/ Search \/ DecodeEnd \/ UNCHANGED vars)
  => Progress'
<1> SUFFICES ASSUME Inv, Progress,
                    EncodeEnd \/ Unicode2GBcode \/ Search \/ DecodeEnd \/ UNCHANGED vars
             PROVE  Progress'
  OBVIOUS
<1>1. i \in Nat \ {0} /\ Len(text) \in Nat
  BY TextsAssumption DEF Inv, TypeOK
<1>2. CASE EncodeEnd
  <2>1. i - 1 = Len(text) /\ i' = 1
    BY <1>1, <1>2 DEF Progress, EncodeEnd
  <2>2. Len(<<>>) = i' - 1 /\ i' <= Len(text) + 1 /\ Same(<<>>, text, i' - 1)
    BY <1>1, <2>1 DEF Same
  <2> QED
    BY <1>2, <2>1, <2>2 DEF EncodeEnd, Progress
<1>3. CASE Unicode2GBcode
  BY <1>3 DEF Unicode2GBcode, Progress
<1>4. CASE Search
  BY <1>4 DEF Search, Progress
<1>5. CASE DecodeEnd
  BY <1>1, <1>5 DEF DecodeEnd, Progress
<1>6. CASE UNCHANGED vars
  BY <1>6 DEF vars, Progress
<1> QED
  BY <1>2, <1>3, <1>4, <1>5, <1>6

\* A message of characters that come back is the same at the other end, and
\* so is every number.
THEOREM RoundTripCorrect == Spec => []RoundTrip
<1>1. Init => Progress
  BY TextsAssumption DEF Init, Progress, Encodes
<1>2. Inv /\ Progress /\ [Next]_vars => Progress'
  BY EncodeCharProgress, EmitProgress, OtherProgress DEF Next
<1>3. Inv /\ Progress => RoundTrip
  <2> SUFFICES ASSUME Inv, Progress PROVE RoundTrip
    OBVIOUS
  <2>1. SerializeNumbers(InvetNumbers(phone)) = phone
    BY NumberComesBack DEF Inv, TypeOK
  <2>2. ASSUME pc = "done", AllExact(text) PROVE out = text
    <3>1. /\ out \in Seq(Nat) /\ text \in Seq(Nat) /\ Len(out) = Len(text)
          /\ \A k \in 1 .. Len(text) : out[k] = text[k]
      <4>1. out \in Seq(Nat) /\ text \in Seq(Nat) /\ Len(text) \in Nat
        BY TextType DEF Inv, TypeOK
      <4>2. i - 1 = Len(text) /\ Len(out) = i - 1 /\ Same(out, text, i - 1)
        BY <2>2, <4>1 DEF Progress
      <4> QED
        BY <4>1, <4>2 DEF Same
    <3> QED
      BY SMTT(30), <3>1
  <2> QED
    BY <2>1, <2>2 DEF RoundTrip, AllExact
<1> QED
  BY InvInductive, <1>1, <1>2, <1>3, PTL DEF Spec

=============================================================================
