------------------------ MODULE PendingCommandProofs ------------------------
(***************************************************************************)
(* Proofs about module PendingCommand, for any prefixes, any lines and any *)
(* number of commands.                                                     *)
(***************************************************************************)
EXTENDS PendingCommand, FiniteSetTheorems, TLAPS

(* The pending command with the lines received so far. *)
Command == [type |-> type_, prefix |-> rsp_prefix_, lines |-> received]

Descending(s) == \A i, j \in 1..Len(s) : i < j => s[i].n > s[j].n

(* Lines are numbered as they come. *)
Numbered == Ascending(received) /\ \A l \in Elements(received) : l.n <= nread

(***************************************************************************)
(* What the response under construction holds: what ResponseAsAsked says   *)
(* of the finished one, with the list still the wrong way round, and a     *)
(* one-line command that has no line yet has seen none it wanted.          *)
(***************************************************************************)
Building ==
  rsp_ # Null =>
    /\ rsp_prefix_ \in PrefixesOf(type_)
    /\ Descending(rsp_.intermediates_)
    /\ Elements(rsp_.intermediates_) = LinesAskedFor(Command)
    /\ Elements(rsp_.intermediates_) = {} /\ type_ # "NO_RESULT" => Wanted(Command) = {}
    /\ rsp_.final_resp_ # Null =>
         /\ rsp_.final_resp_ \in Finals(received)
         /\ rsp_.success_ = IsFinalResponseSuccess(rsp_.final_resp_)

(* The types, and the PDU written at most once. *)
Base == TypeOK /\ PduWrittenOnce

Inv == Base /\ Numbered /\ Building /\ ResponseAsAsked /\ NoLineLost

-----------------------------------------------------------------------------
(* A line is added to a response, or completes it. *)
LEMMA RoutedTypes ==
  ASSUME NEW r \in Response \cup {Null}, NEW l \in Line, NEW pdu \in BOOLEAN,
         NEW type \in ATCmdType, NEW prefix
  PROVE  LET route == Route(l, r, pdu, type, prefix)
         IN  /\ Routed(r, l, route) \in Response \cup {Null}
             /\ r # Null => Routed(r, l, route) # Null
             /\ route = "prompt" => pdu /\ r # Null
<1> DEFINE route == Route(l, r, pdu, type, prefix)
<1>1. CASE r = Null
  <2>1. route = "unsolicited" /\ Routed(r, l, "unsolicited") = r
    BY <1>1 DEF Route, Routed
  <2> QED
    BY <1>1, <2>1
<1>2. CASE r # Null
  <2>1. r \in Response
    BY <1>2
  <2>2. HandleFinalResponse(r, l) \in Response
    <3>1. IsFinalResponseSuccess(l) \in BOOLEAN
      BY DEF IsFinalResponseSuccess
    <3> QED
      BY Zenon, <2>1, <3>1 DEF HandleFinalResponse, Response
  <2>3. AddIntermediate(r, l) \in Response
    <3> DEFINE s == <<l>> \o r.intermediates_
    <3>1. <<l>> \in Seq(Line) /\ r.intermediates_ \in Seq(Line)
      BY <2>1 DEF Response
    <3>2. s \in Seq(Line)
      BY <3>1
    <3>3. AddIntermediate(r, l) = [r EXCEPT !.intermediates_ = s]
      BY DEF AddIntermediate
    <3> HIDE DEF s
    <3> QED
      BY <2>1, <3>2, <3>3 DEF Response
  <2>4. Routed(r, l, route) \in {r, HandleFinalResponse(r, l), AddIntermediate(r, l)}
    BY DEF Routed
  <2>5. Routed(r, l, route) \in Response
    BY <2>1, <2>2, <2>3, <2>4
  <2>6. Routed(r, l, route) # Null
    BY <2>5, NullAssumption
  <2>7. route = "prompt" => pdu
    BY <1>2 DEF Route
  <2> QED
    BY <1>2, <2>5, <2>6, <2>7
<1> QED
  BY <1>1, <1>2

(* The list turned round is a response. *)
LEMMA ReverseType ==
  ASSUME NEW r \in Response
  PROVE  ReverseIntermediates(r) \in Response
<1> DEFINE s == r.intermediates_
           t == [i \in 1..Len(s) |-> s[Len(s) + 1 - i]]
<1>1. s \in Seq(Line)
  BY DEF Response
<1>2. t \in Seq(Line)
  BY <1>1
<1>3. ReverseIntermediates(r) = [r EXCEPT !.intermediates_ = t]
  BY DEF ReverseIntermediates
<1> HIDE DEF t, s
<1> QED
  BY Zenon, <1>2, <1>3 DEF Response

-----------------------------------------------------------------------------

(* The constructor leaves no command pending. *)
LEMMA InitBase == Init => Base
<1> SUFFICES ASSUME Init PROVE Base
  OBVIOUS
<1>1. received \in Seq(Line) /\ unsol \in Seq(Line)
  BY DEF Init
<1>2. sms_pdu_ \in BOOLEAN /\ ~sms_pdu_
  BY Zenon DEF Init
<1> QED
  BY <1>1, <1>2 DEF Init, Base, TypeOK, PduWrittenOnce

(* SendCommandNoLock up to its wait: no prompt has been answered yet. *)
LEMMA BeginBase ==
  ASSUME Base, NEW type \in ATCmdType, NEW prefix \in PrefixesOf(type), NEW pdu \in BOOLEAN,
         Begin(type, prefix, pdu)
  PROVE  Base'
<1>1. /\ type_' = type /\ rsp_prefix_' = prefix /\ sms_pdu_' = pdu
      /\ commands' = commands + 1 /\ rsp_' = AllocResponce(commands')
      /\ received' = << >> /\ unsol' = << >> /\ prompts' = 0
      /\ result' = Null /\ asked' = Null /\ nread' = nread
  BY DEF Begin
<1>2. prefix \in Prefixes \cup {Null}
  BY DEF PrefixesOf
<1>3. commands' \in Nat
  BY <1>1 DEF Base, TypeOK
<1>4. rsp_' \in Response
  <2>1. << >> \in Seq(Line)
    OBVIOUS
  <2> QED
    BY <1>1, <1>3, <2>1 DEF AllocResponce, Response
<1>5. rsp_' # Null
  BY <1>4, NullAssumption
<1>6. TypeOK'
  BY <1>1, <1>2, <1>3, <1>4 DEF Base, TypeOK
<1>7. PduWrittenOnce'
  BY <1>1, <1>5 DEF PduWrittenOnce
<1> QED
  BY <1>6, <1>7 DEF Base

(* ProcessLine: the PDU is forgotten at the prompt it answers. *)
LEMMA ProcessLineBase ==
  ASSUME Base, NEW kind \in InputKinds, ProcessLine(kind)
  PROVE  Base'
<1> DEFINE line == [kind |-> kind, n |-> nread + 1]
           route == Route(line, rsp_, sms_pdu_, type_, rsp_prefix_)
<1>1. line \in Line
  BY InputAssumption DEF Line, Base, TypeOK
<1>2. /\ rsp_' = Routed(rsp_, line, route)
      /\ sms_pdu_' = RoutedPdu(sms_pdu_, route)
      /\ prompts' = IF route = "prompt" THEN prompts + 1 ELSE prompts
      /\ unsol' = IF route = "unsolicited" THEN Append(unsol, line) ELSE unsol
      /\ received' = Append(received, line)
      /\ nread' = nread + 1
      /\ UNCHANGED <<type_, rsp_prefix_, commands, result, asked>>
  BY DEF ProcessLine
<1>3. /\ Routed(rsp_, line, route) \in Response \cup {Null}
      /\ rsp_ # Null => Routed(rsp_, line, route) # Null
      /\ route = "prompt" => sms_pdu_ /\ rsp_ # Null
  <2>1. /\ rsp_ \in Response \cup {Null} /\ sms_pdu_ \in BOOLEAN /\ type_ \in ATCmdType
    BY DEF Base, TypeOK
  <2> HIDE DEF line
  <2> QED
    BY <1>1, <2>1, RoutedTypes
<1> HIDE DEF line, route
<1>4. received' \in Seq(Line) /\ unsol' \in Seq(Line)
  BY <1>1, <1>2 DEF Base, TypeOK
<1>5. sms_pdu_' \in BOOLEAN /\ (sms_pdu_' => sms_pdu_ /\ route # "prompt")
  BY Zenon, <1>2 DEF RoutedPdu
<1>6. TypeOK'
  <2>1. nread' \in Nat /\ prompts' \in Nat
    BY <1>2 DEF Base, TypeOK
  <2> QED
    BY <1>2, <1>3, <1>4, <1>5, <2>1 DEF Base, TypeOK
<1>7. PduWrittenOnce'
  <2>1. CASE route = "prompt"
    <3>1. prompts' = 1
      BY <1>2, <1>3, <2>1 DEF Base, TypeOK, PduWrittenOnce
    <3> QED
      BY <1>5, <2>1, <3>1 DEF PduWrittenOnce
  <2>2. CASE route # "prompt"
    BY <1>2, <1>3, <1>5, <2>2 DEF Base, PduWrittenOnce
  <2> QED
    BY <2>1, <2>2
<1> QED
  BY <1>6, <1>7 DEF Base

(* SendCommandNoLock after its wait. *)
LEMMA CollectBase == ASSUME Base, Collect PROVE Base'
<1>1. rsp_ \in Response
  BY DEF Collect, Base, TypeOK
<1>2. result' \in Response \cup {Null}
  <2>1. result' = Null \/ result' = ReverseIntermediates(rsp_)
    BY DEF Collect
  <2> QED
    BY <1>1, <2>1, ReverseType
<1>3. asked' \in [type : ATCmdType, prefix : Prefixes \cup {Null}, lines : Seq(Line)]
  BY DEF Collect, Base, TypeOK
<1>4. /\ rsp_' = Null /\ rsp_prefix_' = Null /\ sms_pdu_' = FALSE
      /\ UNCHANGED <<type_, commands, nread, received, unsol, prompts>>
  BY DEF Collect, ClearPendingCommand
<1> QED
  BY Zenon, <1>2, <1>3, <1>4 DEF Base, TypeOK, PduWrittenOnce

(* Every step keeps the invariant. *)
LEMMA NextBase == Base /\ [Next]_vars => Base'
<1> SUFFICES ASSUME Base, [Next]_vars PROVE Base'
  OBVIOUS
<1>1. CASE Timeout
  BY Zenon, <1>1 DEF Timeout, ClearPendingCommand, Base, TypeOK, PduWrittenOnce
<1>2. CASE UNCHANGED vars
  BY <1>2 DEF vars, Base, TypeOK, PduWrittenOnce
<1> QED
  BY <1>1, <1>2, BeginBase, ProcessLineBase, CollectBase DEF Next

-----------------------------------------------------------------------------
(* The lines of a list with one more line at its end, or at its head, and of *)
(* a list turned round.                                                      *)
LEMMA AppendElements ==
  ASSUME NEW s \in Seq(Line), NEW l \in Line
  PROVE  /\ Elements(Append(s, l)) = Elements(s) \cup {l}
         /\ Len(Append(s, l)) = Len(s) + 1
<1> DEFINE t == Append(s, l)
<1>1. /\ Len(t) = Len(s) + 1 /\ t[Len(s) + 1] = l
      /\ \A i \in 1..Len(s) : t[i] = s[i]
  OBVIOUS
<1> HIDE DEF t
<1>2. Len(s) \in Nat
  OBVIOUS
<1>3. ASSUME NEW x \in Elements(t) PROVE x \in Elements(s) \cup {l}
  <2>1. PICK i \in 1..Len(t) : x = t[i]
    BY DEF Elements
  <2>2. i \in 1..Len(s) \/ i = Len(s) + 1
    BY <1>1, <1>2, <2>1
  <2> QED
    BY <1>1, <2>1, <2>2 DEF Elements
<1>4. ASSUME NEW x \in Elements(s) PROVE x \in Elements(t)
  <2>1. PICK i \in 1..Len(s) : x = s[i]
    BY DEF Elements
  <2>2. i \in 1..Len(t)
    BY <1>1, <1>2, <2>1
  <2> QED
    BY <1>1, <2>1, <2>2 DEF Elements
<1>5. l \in Elements(t)
  <2>1. Len(s) + 1 \in 1..Len(t)
    BY <1>1, <1>2
  <2> QED
    BY <1>1, <2>1 DEF Elements
<1> QED
  BY <1>1, <1>3, <1>4, <1>5 DEF t

LEMMA ConsElements ==
  ASSUME NEW s \in Seq(Line), NEW l \in Line
  PROVE  /\ Elements(<<l>> \o s) = Elements(s) \cup {l}
         /\ Len(<<l>> \o s) = Len(s) + 1
         /\ (<<l>> \o s)[1] = l
         /\ \A i \in 1..Len(s) : (<<l>> \o s)[i + 1] = s[i]
<1> DEFINE t == <<l>> \o s
<1>1. /\ Len(t) = Len(s) + 1 /\ t[1] = l
      /\ \A i \in 1..Len(s) : t[i + 1] = s[i]
  OBVIOUS
<1> HIDE DEF t
<1>2. Len(s) \in Nat
  OBVIOUS
<1>3. ASSUME NEW x \in Elements(t) PROVE x \in Elements(s) \cup {l}
  <2>1. PICK i \in 1..Len(t) : x = t[i]
    BY DEF Elements
  <2>2. i = 1 \/ (i - 1 \in 1..Len(s) /\ i = (i - 1) + 1)
    BY <1>1, <1>2, <2>1
  <2>3. CASE i = 1
    BY <1>1, <2>1, <2>3
  <2>4. CASE i - 1 \in 1..Len(s) /\ i = (i - 1) + 1
    <3>1. t[i] = s[i - 1]
      BY <1>1, <2>4
    <3> QED
      BY <2>1, <2>4, <3>1 DEF Elements
  <2> QED
    BY <2>2, <2>3, <2>4
<1>4. ASSUME NEW x \in Elements(s) PROVE x \in Elements(t)
  <2>1. PICK i \in 1..Len(s) : x = s[i]
    BY DEF Elements
  <2>2. i + 1 \in 1..Len(t)
    BY <1>1, <1>2, <2>1
  <2> QED
    BY <1>1, <2>1, <2>2 DEF Elements
<1>5. l \in Elements(t)
  <2>1. 1 \in 1..Len(t)
    BY <1>1, <1>2
  <2> QED
    BY <1>1, <2>1 DEF Elements
<1> QED
  BY <1>1, <1>3, <1>4, <1>5 DEF t

LEMMA ReverseElements ==
  ASSUME NEW r \in Response, Descending(r.intermediates_)
  PROVE  LET q == ReverseIntermediates(r)
         IN  /\ Elements(q.intermediates_) = Elements(r.intermediates_)
             /\ Ascending(q.intermediates_)
             /\ q.final_resp_ = r.final_resp_ /\ q.success_ = r.success_
<1> DEFINE q == ReverseIntermediates(r)
           s == r.intermediates_
           t == [i \in 1..Len(s) |-> s[Len(s) + 1 - i]]
<1>1. s \in Seq(Line) /\ Len(s) \in Nat
  BY DEF Response
<1>2. q = [r EXCEPT !.intermediates_ = t]
  BY DEF ReverseIntermediates
<1>3. t \in Seq(Line) /\ Len(t) = Len(s)
  BY <1>1
<1>4. \A i \in 1..Len(s) : t[i] = s[Len(s) + 1 - i]
  OBVIOUS
<1>5. Descending(s)
  OBVIOUS
<1> HIDE DEF t, s
<1>6. q.intermediates_ = t /\ q.final_resp_ = r.final_resp_ /\ q.success_ = r.success_
  BY <1>2 DEF Response
<1>7. ASSUME NEW i \in 1..Len(s)
      PROVE  Len(s) + 1 - i \in 1..Len(s) /\ t[Len(s) + 1 - i] = s[i]
  <2> DEFINE j == Len(s) + 1 - i
  <2>1. j \in 1..Len(s) /\ Len(s) + 1 - j = i
    BY <1>1
  <2> HIDE DEF j
  <2>2. t[j] = s[i]
    BY <1>4, <2>1
  <2> QED
    BY Zenon, <2>1, <2>2 DEF j
<1>8. Elements(t) = Elements(s)
  <2>1. ASSUME NEW x \in Elements(t) PROVE x \in Elements(s)
    <3>1. PICK i \in 1..Len(s) : x = t[i]
      BY <1>3 DEF Elements
    <3>2. x = s[Len(s) + 1 - i] /\ Len(s) + 1 - i \in 1..Len(s)
      BY <1>4, <1>7, <3>1
    <3> QED
      BY Zenon, <3>2 DEF Elements
  <2>2. \A x \in Elements(s) : x \in Elements(t)
    BY <1>3, <1>7 DEF Elements
  <2> QED
    BY Zenon, <2>1, <2>2
<1>9. Ascending(t)
  <2> SUFFICES ASSUME NEW i \in 1..Len(s), NEW j \in 1..Len(s), i < j
               PROVE  t[i].n < t[j].n
    BY <1>3 DEF Ascending
  <2> DEFINE a == Len(s) + 1 - i
             b == Len(s) + 1 - j
  <2>1. a \in 1..Len(s) /\ b \in 1..Len(s) /\ b < a
    BY <1>1
  <2>2. t[i] = s[a] /\ t[j] = s[b]
    BY <1>4
  <2> HIDE DEF a, b
  <2>3. s[b].n > s[a].n
    BY <1>5, <2>1 DEF Descending
  <2>4. s[a].n \in Nat /\ s[b].n \in Nat
    <3>1. s[a] \in Line /\ s[b] \in Line
      BY <1>1, <2>1
    <3> QED
      BY <3>1 DEF Line
  <2> QED
    BY <2>2, <2>3, <2>4
<1> QED
  BY <1>6, <1>8, <1>9 DEF s

(* A line later than all before it keeps the lists in order. *)
LEMMA AppendAscending ==
  ASSUME NEW s \in Seq(Line), NEW l \in Line, Ascending(s),
         \A x \in Elements(s) : x.n < l.n
  PROVE  Ascending(Append(s, l))
<1> DEFINE t == Append(s, l)
<1>1. /\ Len(t) = Len(s) + 1 /\ t[Len(s) + 1] = l
      /\ \A i \in 1..Len(s) : t[i] = s[i]
  OBVIOUS
<1>2. Len(s) \in Nat
  OBVIOUS
<1> HIDE DEF t
<1> SUFFICES ASSUME NEW i \in 1..Len(t), NEW j \in 1..Len(t), i < j
             PROVE  t[i].n < t[j].n
  BY DEF Ascending, t
<1>3. i \in 1..Len(s) /\ (j \in 1..Len(s) \/ j = Len(s) + 1)
  BY <1>1, <1>2
<1>4. CASE j \in 1..Len(s)
  BY <1>1, <1>3, <1>4 DEF Ascending
<1>5. CASE j = Len(s) + 1
  <2>1. s[i] \in Elements(s)
    BY <1>3 DEF Elements
  <2> QED
    BY <1>1, <1>3, <1>5, <2>1
<1> QED
  BY <1>3, <1>4, <1>5

LEMMA ConsDescending ==
  ASSUME NEW s \in Seq(Line), NEW l \in Line, Descending(s),
         \A x \in Elements(s) : x.n < l.n
  PROVE  Descending(<<l>> \o s)
<1> DEFINE t == <<l>> \o s
<1>1. /\ Len(t) = Len(s) + 1 /\ t[1] = l
      /\ \A i \in 1..Len(s) : t[i + 1] = s[i]
  BY ConsElements
<1>2. Len(s) \in Nat
  OBVIOUS
<1> HIDE DEF t
<1> SUFFICES ASSUME NEW i \in 1..Len(t), NEW j \in 1..Len(t), i < j
             PROVE  t[i].n > t[j].n
  BY DEF Descending, t
<1>3. j - 1 \in 1..Len(s) /\ (j - 1) + 1 = j
      /\ (i = 1 \/ (i - 1 \in 1..Len(s) /\ (i - 1) + 1 = i /\ i - 1 < j - 1))
  BY <1>1, <1>2
<1>4. t[j] = s[j - 1] /\ s[j - 1] \in Elements(s) /\ s[j - 1] \in Line
  <2>1. t[(j - 1) + 1] = s[j - 1]
    BY <1>1, <1>3
  <2> QED
    BY <1>3, <2>1 DEF Elements
<1>5. CASE i = 1
  <2>1. s[j - 1].n \in Nat /\ l.n \in Nat
    BY <1>4 DEF Line
  <2> QED
    BY <1>1, <1>4, <1>5, <2>1
<1>6. CASE i - 1 \in 1..Len(s) /\ (i - 1) + 1 = i /\ i - 1 < j - 1
  <2>1. t[(i - 1) + 1] = s[i - 1]
    BY <1>1, <1>6
  <2>2. s[i - 1].n > s[j - 1].n
    BY <1>3, <1>6 DEF Descending
  <2> QED
    BY <1>4, <1>6, <2>1, <2>2
<1> QED
  BY <1>3, <1>5, <1>6

(***************************************************************************)
(* What the reference makes of one more line: it is asked for when it is   *)
(* of the wanted class and, for a one-line command, the first such line.   *)
(***************************************************************************)
Matches(c, l) == l.kind = IF c.type = "NUMERIC" THEN "digit" ELSE c.prefix
Takes(c, l) ==
  c.type # "NO_RESULT" /\ Matches(c, l) /\ (c.type = "MULTILINE" \/ Wanted(c) = {})

LEMMA AskedAppend ==
  ASSUME NEW c, NEW d, NEW l \in Line, c.type \in ATCmdType, c.lines \in Seq(Line),
         d.type = c.type, d.prefix = c.prefix, d.lines = Append(c.lines, l),
         \A x \in Elements(c.lines) : x.n < l.n
  PROVE  /\ Wanted(d) = Wanted(c) \cup (IF Matches(c, l) THEN {l} ELSE {})
         /\ LinesAskedFor(d) = LinesAskedFor(c) \cup (IF Takes(c, l) THEN {l} ELSE {})
<1> DEFINE s == c.lines
           t == c.type
           match == Matches(c, l)
           takes == Takes(c, l)
           W == Wanted(c)
           V == Wanted(d)
<1>1. /\ W = {x \in Elements(s) : Matches(c, x)}
      /\ V = {x \in Elements(s) \cup {l} : Matches(c, x)}
  <2>1. Elements(d.lines) = Elements(s) \cup {l}
    BY AppendElements
  <2> QED
    BY <2>1 DEF Wanted, Matches
<1>2. V = W \cup (IF match THEN {l} ELSE {})
  BY <1>1
<1>3. \A x \in W : x \in Line /\ x.n < l.n /\ x.n \in Nat /\ x # l
  <2>1. \A x \in Elements(s) : x \in Line
    BY DEF Elements
  <2>2. l.n \in Nat /\ \A x \in Line : x.n \in Nat
    BY DEF Line
  <2> QED
    BY <1>1, <2>1, <2>2
<1>4. l.n \in Nat
  BY DEF Line
<1>5. CASE t = "NO_RESULT"
  <2>1. LinesAskedFor(c) = {} /\ LinesAskedFor(d) = {}
    BY <1>5 DEF LinesAskedFor
  <2>2. ~takes
    BY <1>5 DEF Takes
  <2> HIDE DEF W, V, match, takes
  <2> QED
    BY <1>2, <2>1, <2>2 DEF W, V, match, takes
<1>6. CASE t = "MULTILINE"
  <2>1. LinesAskedFor(c) = W /\ LinesAskedFor(d) = V
    BY <1>6 DEF LinesAskedFor
  <2>2. takes <=> match
    BY <1>6 DEF Takes
  <2> HIDE DEF W, V, match, takes
  <2> QED
    BY <1>2, <2>1, <2>2 DEF W, V, match, takes
<1>7. CASE t \notin {"NO_RESULT", "MULTILINE"}
  <2>1. /\ LinesAskedFor(c) = {x \in W : \A m \in W : x.n <= m.n}
        /\ LinesAskedFor(d) = {x \in V : \A m \in V : x.n <= m.n}
    BY <1>7 DEF LinesAskedFor
  <2>2. takes <=> match /\ W = {}
    BY <1>7 DEF Takes
  <2>3. CASE ~match
    <3>1. V = W /\ ~takes
      BY <1>2, <2>2, <2>3
    <3> HIDE DEF W, V, match, takes
    <3>2. LinesAskedFor(d) = LinesAskedFor(c) \cup (IF takes THEN {l} ELSE {})
      BY <2>1, <3>1
    <3> QED
      BY <1>2, <3>2 DEF W, V, match, takes
  <2>4. CASE match /\ W = {}
    <3>1. takes /\ V = {l} /\ match
      BY <1>2, <2>2, <2>4
    <3> HIDE DEF W, V, match, takes
    <3>2. LinesAskedFor(c) = {} /\ LinesAskedFor(d) = {l}
      BY <1>4, <2>1, <2>4, <3>1
    <3>3. LinesAskedFor(d) = LinesAskedFor(c) \cup (IF takes THEN {l} ELSE {})
      BY <3>1, <3>2
    <3> QED
      BY <1>2, <3>3 DEF W, V, match, takes
  <2>5. CASE match /\ W # {}
    <3>1. ~takes /\ V = W \cup {l} /\ match
      BY <1>2, <2>2, <2>5
    <3> HIDE DEF W, V, match, takes
    <3>2. ASSUME NEW x
          PROVE  x \in LinesAskedFor(d) <=> x \in LinesAskedFor(c)
      <4>1. CASE x = l
        <5>1. PICK m \in W : TRUE
          BY <2>5
        <5>2. ~(l.n <= m.n)
          BY <1>3, <1>4, <5>1
        <5> QED
          BY <1>3, <2>1, <3>1, <4>1, <5>1, <5>2
      <4>2. CASE x # l
        <5>1. x \in V <=> x \in W
          BY <3>1, <4>2
        <5>2. x \in W => x.n <= l.n
          BY <1>3, <1>4
        <5> QED
          BY <2>1, <3>1, <5>1, <5>2
      <4> QED
        BY <4>1, <4>2
    <3>3. LinesAskedFor(d) \subseteq LinesAskedFor(c) /\ LinesAskedFor(c) \subseteq LinesAskedFor(d)
      BY <3>2
    <3>4. LinesAskedFor(d) = LinesAskedFor(c) \cup (IF takes THEN {l} ELSE {})
      BY <3>1, <3>3
    <3> QED
      BY <1>2, <3>4 DEF W, V, match, takes
  <2> QED
    BY <2>3, <2>4, <2>5
<1> QED
  BY <1>5, <1>6, <1>7

-----------------------------------------------------------------------------
(* ProcessLine takes a line into the response exactly when the reference asks *)
(* for it: the final responses and the prompt, tried first, are never lines   *)
(* a command asks for.                                                        *)
LEMMA RouteTakes ==
  ASSUME NEW r \in Response, NEW l \in Line, NEW pdu \in BOOLEAN,
         NEW t \in ATCmdType, NEW p \in PrefixesOf(t)
  PROVE  Route(l, r, pdu, t, p) = "intermediate"
           <=> /\ t # "NO_RESULT"
               /\ l.kind = IF t = "NUMERIC" THEN "digit" ELSE p
               /\ t = "MULTILINE" \/ r.intermediates_ = << >>
<1>1. r # Null
  BY NullAssumption
<1>2. IsIntermediate(l, r, t, p)
        <=> /\ t # "NO_RESULT"
            /\ l.kind = IF t = "NUMERIC" THEN "digit" ELSE p
            /\ t = "MULTILINE" \/ r.intermediates_ = << >>
  BY DEF IsIntermediate, AtStrStartWith, ATCmdType
<1>3. IsIntermediate(l, r, t, p)
        => ~IsFinalResponseSuccess(l) /\ ~IsFinalResponseError(l) /\ l.kind # "prompt"
  <2>1. ASSUME t \in {"SINGLELINE", "MULTILINE"}, l.kind = p
        PROVE  l.kind \notin {"success", "error", "prompt"}
    BY <2>1, PrefixesAssumption DEF PrefixesOf, TextKinds
  <2> QED
    BY <2>1 DEF IsIntermediate, AtStrStartWith, IsFinalResponseSuccess, IsFinalResponseError
<1> QED
  BY <1>1, <1>2, <1>3 DEF Route

(* The final responses among the lines, with one more line. *)
LEMMA FinalsAppend ==
  ASSUME NEW s \in Seq(Line), NEW l \in Line
  PROVE  Finals(Append(s, l))
           = Finals(s) \cup (IF IsFinalResponseSuccess(l) \/ IsFinalResponseError(l)
                               THEN {l} ELSE {})
BY AppendElements DEF Finals

(* The lines of a list, and the final ones among them, are finitely many. *)
LEMMA FinalsFinite ==
  ASSUME NEW s \in Seq(Line)
  PROVE  IsFiniteSet(Finals(s)) /\ Cardinality(Finals(s)) \in Nat
<1>1. IsFiniteSet(1..Len(s))
  <2>1. 1 \in Int /\ Len(s) \in Int
    OBVIOUS
  <2> QED
    BY Zenon, <2>1, FS_Interval
<1>2. IsFiniteSet(Elements(s))
  <2>1. s \in [1..Len(s) -> Elements(s)]
    BY DEF Elements
  <2>2. s \in Surjection(1..Len(s), Elements(s))
    BY Zenon, <2>1 DEF Surjection, Elements
  <2> QED
    BY Zenon, <1>1, <2>2, FS_Surjection
<1>3. Finals(s) \subseteq Elements(s)
  BY DEF Finals
<1> QED
  BY <1>2, <1>3, FS_Subset, FS_CardinalityType

(* A line that arrives is later than all lines before it. *)
LEMMA LineIsNew ==
  ASSUME Base, Numbered, NEW kind \in InputKinds
  PROVE  LET line == [kind |-> kind, n |-> nread + 1]
         IN  /\ line \in Line
             /\ \A x \in Elements(received) : x.n < line.n
             /\ line \notin Elements(received)
<1> DEFINE line == [kind |-> kind, n |-> nread + 1]
<1>1. line \in Line /\ nread \in Nat /\ line.n = nread + 1
  BY InputAssumption DEF Line, Base, TypeOK
<1> HIDE DEF line
<1>2. \A x \in Elements(received) : x \in Line
  BY DEF Elements, Base, TypeOK
<1>3. \A x \in Elements(received) : x.n \in Nat /\ x.n <= nread
  BY <1>2 DEF Numbered, Line
<1>4. \A x \in Elements(received) : x.n < line.n
  BY <1>1, <1>3
<1>5. line \notin Elements(received)
  BY <1>1, <1>3, <1>4
<1> QED
  BY <1>1, <1>4, <1>5 DEF line

-----------------------------------------------------------------------------
(* ProcessLine numbers the lines upwards. *)
LEMMA ProcessLineNumbered ==
  ASSUME Base, Numbered, NEW kind \in InputKinds, ProcessLine(kind)
  PROVE  Numbered'
<1> DEFINE line == [kind |-> kind, n |-> nread + 1]
<1>1. received' = Append(received, line) /\ nread' = nread + 1 /\ line.n = nread'
  BY DEF ProcessLine
<1>2. /\ line \in Line /\ received \in Seq(Line) /\ nread \in Nat
      /\ \A x \in Elements(received) : x.n < line.n
  BY LineIsNew DEF Base, TypeOK
<1> HIDE DEF line
<1>3. Ascending(received')
  BY <1>1, <1>2, AppendAscending DEF Numbered
<1>4. Elements(received') = Elements(received) \cup {line}
  BY <1>1, <1>2, AppendElements
<1>5. \A x \in Elements(received) : x.n <= nread'
  <2>1. \A x \in Elements(received) : x \in Line
    BY <1>2 DEF Elements
  <2>2. \A x \in Elements(received) : x.n \in Nat
    BY <2>1 DEF Line
  <2> QED
    BY <1>1, <1>2, <2>2 DEF Numbered
<1>6. line.n <= nread'
  <2>1. nread \in Nat
    BY DEF Base, TypeOK
  <2> QED
    BY <1>1, <2>1
<1> QED
  BY <1>3, <1>4, <1>5, <1>6 DEF Numbered

(***************************************************************************)
(* ProcessLine on a pending command: what becomes of the response and of   *)
(* the lines counted, by the route the line takes.                         *)
(***************************************************************************)
LEMMA ProcessLineEffect ==
  ASSUME Base, Numbered, Building, NEW kind \in InputKinds, ProcessLine(kind), rsp_ # Null
  PROVE  LET line == [kind |-> kind, n |-> nread + 1]
             route == Route(line, rsp_, sms_pdu_, type_, rsp_prefix_)
             final == IsFinalResponseSuccess(line) \/ IsFinalResponseError(line)
         IN  /\ route \in {"final", "prompt", "intermediate", "unsolicited"}
             /\ (route = "final" <=> final)
             /\ rsp_'.intermediates_
                  = IF route = "intermediate" THEN <<line>> \o rsp_.intermediates_
                                              ELSE rsp_.intermediates_
             /\ rsp_'.final_resp_ = IF final THEN line ELSE rsp_.final_resp_
             /\ rsp_'.success_ = IF final THEN IsFinalResponseSuccess(line) ELSE rsp_.success_
<1> DEFINE line == [kind |-> kind, n |-> nread + 1]
           route == Route(line, rsp_, sms_pdu_, type_, rsp_prefix_)
           final == IsFinalResponseSuccess(line) \/ IsFinalResponseError(line)
<1>1. rsp_' = Routed(rsp_, line, route)
  BY DEF ProcessLine
<1>2. rsp_ \in Response
  BY DEF Base, TypeOK
<1>3. route \in {"final", "prompt", "intermediate", "unsolicited"} /\ (route = "final" <=> final)
  <2> HIDE DEF line
  <2>1. CASE final
    <3>1. route = "final"
      BY <2>1 DEF Route
    <3> QED
      BY <2>1, <3>1
  <2>2. CASE ~final
    <3>1. route \in {"prompt", "intermediate", "unsolicited"}
      BY <2>2 DEF Route
    <3> QED
      BY <2>2, <3>1
  <2> QED
    BY <2>1, <2>2
<1> HIDE DEF line, route, final
<1>4. CASE route = "final"
  <2>1. rsp_' = [rsp_ EXCEPT !.success_ = IsFinalResponseSuccess(line), !.final_resp_ = line]
    BY <1>1, <1>4 DEF Routed, HandleFinalResponse
  <2>2. /\ rsp_'.intermediates_ = rsp_.intermediates_ /\ rsp_'.final_resp_ = line
        /\ rsp_'.success_ = IsFinalResponseSuccess(line)
    BY Zenon, <1>2, <2>1 DEF Response
  <2> QED
    BY <1>3, <1>4, <2>2 DEF line, route, final
<1>5. CASE route = "intermediate"
  <2> DEFINE s == <<line>> \o rsp_.intermediates_
  <2>1. rsp_' = [rsp_ EXCEPT !.intermediates_ = s]
    BY <1>1, <1>5 DEF Routed, AddIntermediate
  <2> HIDE DEF s
  <2>2. /\ rsp_'.intermediates_ = s /\ rsp_'.final_resp_ = rsp_.final_resp_
        /\ rsp_'.success_ = rsp_.success_
    BY <1>2, <2>1 DEF Response
  <2>3. ~final
    BY <1>3, <1>5
  <2> QED
    BY <1>3, <1>5, <2>2, <2>3 DEF line, route, final, s
<1>6. CASE route \in {"prompt", "unsolicited"}
  <2>1. rsp_' = rsp_ /\ ~final
    BY <1>1, <1>3, <1>6 DEF Routed
  <2> QED
    BY <1>3, <1>6, <2>1 DEF line, route, final
<1> QED
  BY <1>3, <1>4, <1>5, <1>6

(* ProcessLine keeps to the reference: the response holds what was asked for *)
(* among the lines so far.                                                   *)
LEMMA ProcessLineBuilding ==
  ASSUME Base, Numbered, Building, NEW kind \in InputKinds, ProcessLine(kind)
  PROVE  Building'
<1> SUFFICES ASSUME rsp_' # Null PROVE Building'
  BY DEF Building
<1> DEFINE line == [kind |-> kind, n |-> nread + 1]
           route == Route(line, rsp_, sms_pdu_, type_, rsp_prefix_)
           final == IsFinalResponseSuccess(line) \/ IsFinalResponseError(line)
           kept == rsp_.intermediates_
           match == Matches(Command, line)
           takes == Takes(Command, line)
<1>1. rsp_ # Null
  BY DEF ProcessLine, Route, Routed
<1>2. /\ received' = Append(received, line) /\ type_' = type_ /\ rsp_prefix_' = rsp_prefix_
  BY DEF ProcessLine
<1>3. /\ rsp_ \in Response /\ received \in Seq(Line) /\ type_ \in ATCmdType
      /\ sms_pdu_ \in BOOLEAN
  BY <1>1 DEF Base, TypeOK
<1>4. /\ line \in Line /\ \A x \in Elements(received) : x.n < line.n
  BY LineIsNew
<1>5. /\ route \in {"final", "prompt", "intermediate", "unsolicited"}
      /\ (route = "final" <=> final)
      /\ rsp_'.intermediates_ = IF route = "intermediate" THEN <<line>> \o kept ELSE kept
      /\ rsp_'.final_resp_ = IF final THEN line ELSE rsp_.final_resp_
      /\ rsp_'.success_ = IF final THEN IsFinalResponseSuccess(line) ELSE rsp_.success_
  BY <1>1, ProcessLineEffect
<1>6. /\ rsp_prefix_ \in PrefixesOf(type_)
      /\ Descending(kept) /\ Elements(kept) = LinesAskedFor(Command)
      /\ Elements(kept) = {} /\ type_ # "NO_RESULT" => Wanted(Command) = {}
      /\ rsp_.final_resp_ # Null =>
           /\ rsp_.final_resp_ \in Finals(received)
           /\ rsp_.success_ = IsFinalResponseSuccess(rsp_.final_resp_)
  BY <1>1 DEF Building
<1>7. kept \in Seq(Line) /\ (kept = << >> <=> Elements(kept) = {})
  <2>1. kept \in Seq(Line)
    BY <1>3 DEF Response
  <2> HIDE DEF kept
  <2>2. CASE kept = << >>
    <3>1. 1..Len(kept) = {}
      BY <2>2
    <3> QED
      BY <2>1, <2>2, <3>1 DEF Elements
  <2>3. CASE kept # << >>
    <3>1. 1 \in 1..Len(kept)
      BY <2>1, <2>3
    <3>2. kept[1] \in Elements(kept)
      BY <3>1 DEF Elements
    <3> QED
      BY <2>1, <2>3, <3>2
  <2> QED
    BY <2>2, <2>3
<1>8. Elements(kept) \subseteq Elements(received)
  BY <1>6 DEF LinesAskedFor, Wanted, Command
<1> HIDE DEF line
<1>9. /\ Wanted(Command)' = Wanted(Command) \cup (IF match THEN {line} ELSE {})
      /\ LinesAskedFor(Command)' = LinesAskedFor(Command) \cup (IF takes THEN {line} ELSE {})
  <2>1. /\ Command.type = type_ /\ Command.lines = received
        /\ Command'.type = Command.type /\ Command'.prefix = Command.prefix
        /\ Command'.lines = Append(Command.lines, line)
    BY <1>2 DEF Command
  <2>2. /\ Wanted(Command') = Wanted(Command) \cup (IF match THEN {line} ELSE {})
        /\ LinesAskedFor(Command') = LinesAskedFor(Command) \cup (IF takes THEN {line} ELSE {})
    BY Zenon, <1>3, <1>4, <2>1, AskedAppend
  <2> QED
    BY <2>2
<1>10. route = "intermediate"
         <=> type_ # "NO_RESULT" /\ match /\ (type_ = "MULTILINE" \/ kept = << >>)
  <2>1. match <=> line.kind = IF type_ = "NUMERIC" THEN "digit" ELSE rsp_prefix_
    BY DEF Matches, Command
  <2> QED
    BY <1>3, <1>4, <1>6, <2>1, RouteTakes
<1>11. Finals(received') = Finals(received) \cup (IF final THEN {line} ELSE {})
  BY <1>2, <1>3, <1>4, FinalsAppend
<1> HIDE DEF route, final, kept, match
<1>12. type_ # "NO_RESULT" => (Wanted(Command) = {} <=> Elements(kept) = {})
  <2>1. Wanted(Command) = {} => LinesAskedFor(Command) = {}
    BY DEF LinesAskedFor
  <2> QED
    BY <1>6, <2>1
<1>13. route = "intermediate" <=> takes
  <2>1. takes <=> type_ # "NO_RESULT" /\ match /\ (type_ = "MULTILINE" \/ Wanted(Command) = {})
    BY DEF Takes, Command, match
  <2> QED
    BY <1>7, <1>10, <1>12, <2>1
<1> HIDE DEF takes
<1>14. Elements(rsp_'.intermediates_) = LinesAskedFor(Command)'
  <2>1. CASE takes
    <3>1. Elements(<<line>> \o kept) = Elements(kept) \cup {line}
      BY <1>4, <1>7, ConsElements
    <3> QED
      BY <1>5, <1>6, <1>9, <1>13, <2>1, <3>1
  <2>2. CASE ~takes
    BY <1>5, <1>6, <1>9, <1>13, <2>2
  <2> QED
    BY <2>1, <2>2
<1>15. Descending(rsp_'.intermediates_)
  <2>1. Descending(<<line>> \o kept)
    BY <1>4, <1>6, <1>7, <1>8, ConsDescending
  <2> QED
    BY <1>5, <1>6, <2>1
<1>16. Elements(rsp_'.intermediates_) = {} /\ type_ # "NO_RESULT" => Wanted(Command)' = {}
  <2> SUFFICES ASSUME Elements(rsp_'.intermediates_) = {}, type_ # "NO_RESULT"
               PROVE  Wanted(Command)' = {}
    OBVIOUS
  <2>1. Elements(kept) = {} /\ ~takes
    BY <1>6, <1>9, <1>14
  <2>2. Wanted(Command) = {} /\ ~match
    BY <1>12, <2>1 DEF takes, Takes, match, Command
  <2> QED
    BY <1>9, <2>2
<1>17. rsp_'.final_resp_ # Null =>
         /\ rsp_'.final_resp_ \in Finals(received')
         /\ rsp_'.success_ = IsFinalResponseSuccess(rsp_'.final_resp_)
  <2>1. CASE final
    BY <1>5, <1>11, <2>1
  <2>2. CASE ~final
    BY <1>5, <1>6, <1>11, <2>2
  <2> QED
    BY <2>1, <2>2
<1> QED
  BY <1>2, <1>6, <1>14, <1>15, <1>16, <1>17 DEF Building

(* ProcessLine puts the line in exactly one place. *)
LEMMA ProcessLineLost ==
  ASSUME Base, Numbered, Building, NoLineLost, NEW kind \in InputKinds, ProcessLine(kind)
  PROVE  NoLineLost'
<1> SUFFICES ASSUME rsp_' # Null PROVE NoLineLost'
  BY DEF NoLineLost
<1> DEFINE line == [kind |-> kind, n |-> nread + 1]
           route == Route(line, rsp_, sms_pdu_, type_, rsp_prefix_)
           final == IsFinalResponseSuccess(line) \/ IsFinalResponseError(line)
           kept == rsp_.intermediates_
           E == Elements(received)
           F == Finals(received)
<1>1. rsp_ # Null
  BY DEF ProcessLine, Route, Routed
<1>2. /\ received' = Append(received, line)
      /\ prompts' = IF route = "prompt" THEN prompts + 1 ELSE prompts
      /\ unsol' = IF route = "unsolicited" THEN Append(unsol, line) ELSE unsol
  BY DEF ProcessLine
<1>3. /\ rsp_ \in Response /\ received \in Seq(Line) /\ unsol \in Seq(Line)
      /\ prompts \in Nat
  BY <1>1 DEF Base, TypeOK
<1>4. line \in Line /\ line \notin E
  BY LineIsNew
<1>5. /\ route \in {"final", "prompt", "intermediate", "unsolicited"}
      /\ (route = "final" <=> final)
      /\ rsp_'.intermediates_ = IF route = "intermediate" THEN <<line>> \o kept ELSE kept
  BY <1>1, ProcessLineEffect
<1>6. /\ Elements(kept) \cup Elements(unsol) \subseteq E
      /\ Elements(kept) \cap Elements(unsol) = {} /\ Elements(kept) \cap F = {}
      /\ Elements(unsol) \cap F = {}
      /\ Len(received) = Len(unsol) + Len(kept) + Cardinality(F) + prompts
  BY <1>1 DEF NoLineLost
<1>7. kept \in Seq(Line)
  BY <1>3 DEF Response
<1> HIDE DEF line
<1>8. /\ Elements(received') = E \cup {line} /\ Len(received') = Len(received) + 1
      /\ Elements(Append(unsol, line)) = Elements(unsol) \cup {line}
      /\ Len(Append(unsol, line)) = Len(unsol) + 1
      /\ Elements(<<line>> \o kept) = Elements(kept) \cup {line}
      /\ Len(<<line>> \o kept) = Len(kept) + 1
  BY <1>2, <1>3, <1>4, <1>7, AppendElements, ConsElements
<1>9. Finals(received') = F \cup (IF final THEN {line} ELSE {})
  BY <1>2, <1>3, <1>4, FinalsAppend
<1>10. IsFiniteSet(F) /\ Cardinality(F) \in Nat /\ F \subseteq E
  BY Zenon, <1>3, FinalsFinite DEF Finals
<1>11. Cardinality(F \cup {line}) = Cardinality(F) + 1
  BY Zenon, <1>4, <1>10, FS_AddElement
<1>12. Len(received) \in Nat /\ Len(unsol) \in Nat /\ Len(kept) \in Nat
  BY <1>3, <1>7
<1> DEFINE kept1 == Elements(rsp_'.intermediates_)
           passed1 == Elements(unsol')
           finals1 == Finals(received')
           Goal == /\ kept1 \cup passed1 \subseteq Elements(received')
                   /\ kept1 \cap passed1 = {} /\ kept1 \cap finals1 = {}
                   /\ passed1 \cap finals1 = {}
                   /\ Len(received') = Len(unsol') + Len(rsp_'.intermediates_)
                                        + Cardinality(finals1) + prompts'
<1>13. Goal => NoLineLost'
  BY DEF NoLineLost
<1> HIDE DEF route, final, kept, E, F, Goal
<1>14. CASE route = "final"
  <2>1. /\ finals1 = F \cup {line} /\ passed1 = Elements(unsol) /\ kept1 = Elements(kept)
        /\ unsol' = unsol /\ rsp_'.intermediates_ = kept /\ prompts' = prompts
    BY <1>2, <1>5, <1>9, <1>14
  <2>2. Len(received') = Len(unsol') + Len(rsp_'.intermediates_)
                         + Cardinality(finals1) + prompts'
    BY <1>3, <1>6, <1>8, <1>10, <1>11, <1>12, <2>1
  <2> HIDE DEF kept1, passed1, finals1
  <2> QED
    BY <1>4, <1>6, <1>8, <1>10, <1>13, <2>1, <2>2 DEF Goal
<1>15. CASE route = "prompt"
  <2>1. /\ finals1 = F /\ passed1 = Elements(unsol) /\ kept1 = Elements(kept)
        /\ unsol' = unsol /\ rsp_'.intermediates_ = kept /\ prompts' = prompts + 1
    BY <1>2, <1>5, <1>9, <1>15
  <2>2. Len(received') = Len(unsol') + Len(rsp_'.intermediates_)
                         + Cardinality(finals1) + prompts'
    BY <1>3, <1>6, <1>8, <1>10, <1>12, <2>1
  <2> HIDE DEF kept1, passed1, finals1
  <2> QED
    BY <1>6, <1>8, <1>13, <2>1, <2>2 DEF Goal
<1>16. CASE route = "intermediate"
  <2>1. /\ finals1 = F /\ passed1 = Elements(unsol) /\ kept1 = Elements(kept) \cup {line}
        /\ unsol' = unsol /\ rsp_'.intermediates_ = <<line>> \o kept /\ prompts' = prompts
    BY <1>2, <1>5, <1>8, <1>9, <1>16
  <2>2. Len(received') = Len(unsol') + Len(rsp_'.intermediates_)
                         + Cardinality(finals1) + prompts'
    BY <1>3, <1>6, <1>8, <1>10, <1>12, <2>1
  <2> HIDE DEF kept1, passed1, finals1
  <2> QED
    BY <1>4, <1>6, <1>8, <1>10, <1>13, <2>1, <2>2 DEF Goal
<1>17. CASE route = "unsolicited"
  <2>1. /\ finals1 = F /\ passed1 = Elements(unsol) \cup {line} /\ kept1 = Elements(kept)
        /\ unsol' = Append(unsol, line) /\ rsp_'.intermediates_ = kept
        /\ prompts' = prompts
    BY <1>2, <1>5, <1>8, <1>9, <1>17
  <2>2. Len(received') = Len(unsol') + Len(rsp_'.intermediates_)
                         + Cardinality(finals1) + prompts'
    BY <1>3, <1>6, <1>8, <1>10, <1>12, <2>1
  <2> HIDE DEF kept1, passed1, finals1
  <2> QED
    BY <1>4, <1>6, <1>8, <1>10, <1>13, <2>1, <2>2 DEF Goal
<1> QED
  BY <1>5, <1>14, <1>15, <1>16, <1>17

-----------------------------------------------------------------------------
(* SendCommandNoLock starts a response without lines. *)
LEMMA BeginRest ==
  ASSUME Base, NEW type \in ATCmdType, NEW prefix \in PrefixesOf(type), NEW pdu \in BOOLEAN,
         Begin(type, prefix, pdu)
  PROVE  Numbered' /\ Building' /\ ResponseAsAsked' /\ NoLineLost'
<1>1. /\ type_' = type /\ rsp_prefix_' = prefix
      /\ received' = << >> /\ unsol' = << >> /\ prompts' = 0
      /\ result' = Null
      /\ rsp_'.intermediates_ = << >> /\ rsp_'.final_resp_ = Null
  BY DEF Begin, AllocResponce
<1>2. Elements(<< >>) = {} /\ Len(<< >>) = 0
  BY DEF Elements
<1>3. Numbered'
  BY <1>1, <1>2 DEF Numbered, Ascending
<1>4. ResponseAsAsked'
  BY <1>1 DEF ResponseAsAsked
<1>5. Wanted(Command)' = {} /\ LinesAskedFor(Command)' = {} /\ Finals(received') = {}
  <2>1. Wanted(Command)' = {}
    BY <1>1, <1>2 DEF Wanted, Command
  <2> QED
    BY <1>1, <1>2, <2>1 DEF LinesAskedFor, Finals
<1>6. Building'
  <2>1. Descending(<< >>)
    BY DEF Descending
  <2>2. Descending(rsp_'.intermediates_) /\ Elements(rsp_'.intermediates_) = {}
    BY <1>1, <1>2, <2>1
  <2>3. rsp_prefix_' \in PrefixesOf(type_')
    BY <1>1
  <2>4. Elements(rsp_'.intermediates_) = LinesAskedFor(Command)'
    BY <1>5, <2>2
  <2> QED
    BY <1>1, <1>5, <2>2, <2>3, <2>4 DEF Building
<1>7. NoLineLost'
  <2>1. Cardinality(Finals(received')) = 0
    BY <1>5, FS_EmptySet
  <2>2. /\ Elements(rsp_'.intermediates_) = {} /\ Elements(unsol') = {}
        /\ Elements(received') = {}
    BY <1>1, <1>2
  <2>3. Len(received') = Len(unsol') + Len(rsp_'.intermediates_)
                         + Cardinality(Finals(received')) + prompts'
    BY <1>1, <1>2, <2>1
  <2> QED
    BY <2>2, <2>3 DEF NoLineLost
<1> QED
  BY <1>3, <1>4, <1>6, <1>7

(* SendCommandNoLock hands out the response, turned round. *)
LEMMA CollectRest ==
  ASSUME Base, Numbered, Building, Collect
  PROVE  Numbered' /\ Building' /\ ResponseAsAsked' /\ NoLineLost'
<1>1. /\ rsp_' = Null /\ UNCHANGED <<received, nread>>
      /\ rsp_ \in Response /\ rsp_ # Null /\ rsp_.final_resp_ # Null
      /\ asked' = Command
      /\ result' \in {Null, ReverseIntermediates(rsp_)}
  BY DEF Collect, ClearPendingCommand, Base, TypeOK, Command
<1>2. Numbered' /\ Building' /\ NoLineLost'
  BY <1>1 DEF Numbered, Building, NoLineLost
<1>3. ResponseAsAsked'
  <2> SUFFICES ASSUME result' # Null PROVE ResponseAsAsked'
    BY DEF ResponseAsAsked
  <2>1. result' = ReverseIntermediates(rsp_)
    BY <1>1
  <2>2. /\ Elements(result'.intermediates_) = Elements(rsp_.intermediates_)
        /\ Ascending(result'.intermediates_)
        /\ result'.final_resp_ = rsp_.final_resp_ /\ result'.success_ = rsp_.success_
    BY <1>1, <2>1, ReverseElements DEF Building
  <2>3. asked'.lines = received
    BY <1>1 DEF Command
  <2> QED
    BY <1>1, <2>2, <2>3 DEF Building, ResponseAsAsked
<1> QED
  BY <1>2, <1>3

(* Every step keeps the invariant. *)
LEMMA InvInductive == Spec => []Inv
<1>1. Init => Inv
  <2> SUFFICES ASSUME Init PROVE Inv
    OBVIOUS
  <2>1. Elements(<< >>) = {}
    BY DEF Elements
  <2>2. Numbered
    BY <2>1 DEF Init, Numbered, Ascending
  <2> QED
    BY <2>2, InitBase DEF Init, Inv, Building, ResponseAsAsked, NoLineLost
<1>2. Inv /\ [Next]_vars => Inv'
  <2> SUFFICES ASSUME Inv, [Next]_vars PROVE Inv'
    OBVIOUS
  <2>1. Base /\ Numbered /\ Building /\ ResponseAsAsked /\ NoLineLost
    BY DEF Inv
  <2>2. Base'
    BY <2>1, NextBase
  <2>3. CASE \E type \in ATCmdType : \E prefix \in PrefixesOf(type) : \E pdu \in BOOLEAN :
               (pdu => type = "SINGLELINE") /\ Begin(type, prefix, pdu)
    BY <2>1, <2>2, <2>3, BeginRest DEF Inv
  <2>4. CASE \E kind \in InputKinds : ProcessLine(kind)
    <3>1. PICK kind \in InputKinds : ProcessLine(kind)
      BY <2>4
    <3>2. Numbered' /\ Building' /\ NoLineLost'
      BY <2>1, <3>1, ProcessLineNumbered, ProcessLineBuilding, ProcessLineLost
    <3>3. ResponseAsAsked'
      BY <2>1, <3>1 DEF ProcessLine, ResponseAsAsked
    <3> QED
      BY <2>2, <3>2, <3>3 DEF Inv
  <2>5. CASE Collect
    BY <2>1, <2>2, <2>5, CollectRest DEF Inv
  <2>6. CASE Timeout
    <3>1. rsp_' = Null /\ UNCHANGED <<received, nread, result, asked>>
      BY <2>6 DEF Timeout, ClearPendingCommand
    <3> QED
      BY <2>1, <2>2, <3>1 DEF Inv, Numbered, Building, ResponseAsAsked, NoLineLost
  <2>7. CASE UNCHANGED vars
    <3>1. UNCHANGED <<rsp_, type_, rsp_prefix_, received, unsol, nread, prompts, result, asked>>
      BY <2>7 DEF vars
    <3> QED
      BY Zenon, <2>1, <2>2, <3>1
         DEF Inv, Numbered, Building, ResponseAsAsked, NoLineLost, Command
  <2> QED
    BY <2>3, <2>4, <2>5, <2>6, <2>7 DEF Next
<1> QED
  BY <1>1, <1>2, PTL DEF Spec

(* Whatever lines arrive in whatever order, the response under construction *)
(* stays one (ProcessLine, HandleFinalResponse, AddIntermediate).           *)
THEOREM PendingTypes == Spec => []TypeOK
<1>1. Inv => TypeOK
  BY DEF Inv, Base
<1> QED
  BY <1>1, InvInductive, PTL

(* SendCommandNoLock hands out exactly the lines the command asked for, in   *)
(* the order they arrived, with the flag of a final line that arrived while  *)
(* it was pending, for any lines, prefixes and number of commands.           *)
THEOREM ResponseCorrect == Spec => []ResponseAsAsked
<1>1. Inv => ResponseAsAsked
  BY DEF Inv
<1> QED
  BY <1>1, InvInductive, PTL

(* ProcessLine puts every line of a pending command in exactly one place. *)
THEOREM LinesAccounted == Spec => []NoLineLost
<1>1. Inv => NoLineLost
  BY DEF Inv
<1> QED
  BY <1>1, InvInductive, PTL

(* ProcessLine writes the PDU of a command at most once. *)
THEOREM PduCorrect == Spec => []PduWrittenOnce
<1>1. Inv => PduWrittenOnce
  BY DEF Inv, Base
<1> QED
  BY <1>1, InvInductive, PTL

=============================================================================
