-------------------------- MODULE LineReaderProofs --------------------------
(***************************************************************************)
(* Proofs about module LineReader, for a buffer of any size, any alphabet  *)
(* and any number of bytes.                                                *)
(***************************************************************************)
EXTENDS LineReader, WellFoundedInduction, SequenceTheorems, TLAPS

(***************************************************************************)
(* The last two cells are never written with anything but \0, the read     *)
(* loop always has its cursor in the data, and outside of it the cursor is *)
(* past the start of a buffer that holds something.                        *)
(***************************************************************************)
Inv ==
  /\ TypeOK
  /\ kATBuffer[MAX_AT_RESPONSE] = "nul" /\ kATBuffer[MAX_AT_RESPONSE + 1] = "nul"
  /\ state = "in" => kATBufferCur <= p_read /\ kATBuffer[p_read] = "nul"
  /\ state = "out" => kATBufferCur > 0 \/ kATBuffer[0] = "nul"
  /\ CursorInData
  /\ Len(spans) = Len(lines)

Buffers == [Cells -> Byte \cup {"nul"}]

-----------------------------------------------------------------------------
(* The helpers. *)

(* The cells are numbers, and None is not one of them. *)
LEMMA CellNumbers ==
  /\ MAX_AT_RESPONSE \in Nat /\ MAX_AT_RESPONSE > 0
  /\ Cells \subseteq Nat /\ None \notin Cells
  /\ MAX_AT_RESPONSE \in Cells /\ MAX_AT_RESPONSE + 1 \in Cells
  /\ \A c : c \in Cells <=> c \in Nat /\ c <= MAX_AT_RESPONSE + 1
BY BufferAssumption DEF Cells, None

(* FirstCell finds the first cell with a content in S when there is one. *)
LEMMA FirstCellFound ==
  ASSUME NEW buf, NEW i \in Nat, NEW S, NEW c \in Cells, i <= c, buf[c] \in S
  PROVE  /\ FirstCell(buf, i, S) \in Cells
         /\ i <= FirstCell(buf, i, S) /\ FirstCell(buf, i, S) <= c
         /\ buf[FirstCell(buf, i, S)] \in S
         /\ \A k \in Cells : i <= k /\ k < FirstCell(buf, i, S) => buf[k] \notin S
<1> DEFINE found == {j \in Cells : j >= i /\ buf[j] \in S}
           R == OpToRel(<, Nat)
<1>1. c \in found /\ found \subseteq Nat /\ found \subseteq Cells
  BY CellNumbers
<1>2. IsWellFoundedOn(R, Nat)
  BY NatLessThanWellFounded
<1>3. FirstCell(buf, i, S) = CHOOSE j \in found : \A k \in found : j <= k
  BY <1>1 DEF FirstCell
<1>4. \A k \in Cells : k \in found <=> k >= i /\ buf[k] \in S
  OBVIOUS
<1> HIDE DEF R, found
<1>5. PICK x \in found : \A y \in found : ~ (<<y, x>> \in R)
  BY Zenon, <1>1, <1>2, WFMin
<1>6. \A y \in found : ~ (y < x)
  BY Zenon, <1>1, <1>5 DEF R, OpToRel
<1>7. \A y \in found : x <= y
  BY <1>1, <1>6
<1>8. /\ FirstCell(buf, i, S) \in found
      /\ \A k \in found : FirstCell(buf, i, S) <= k
  BY <1>3, <1>5, <1>7
<1> DEFINE f == FirstCell(buf, i, S)
<1>9. f \in Cells /\ f \in Nat /\ f >= i /\ buf[f] \in S /\ f <= c
  BY Zenon, <1>1, <1>4, <1>8
<1>10. ASSUME NEW k \in Cells, i <= k, k < f PROVE buf[k] \notin S
  <2> HIDE DEF f
  <2>1. k \in Nat /\ ~ (f <= k)
    BY <1>9, <1>10, CellNumbers
  <2> QED
    BY <1>4, <1>8, <1>10, <2>1 DEF f
<1> QED
  BY <1>9, <1>10

(* SkipNewlines stops at the \0 that ends the data, or before. *)
LEMMA SkipStops ==
  ASSUME NEW buf \in Buffers, NEW i \in Nat, NEW c \in Cells, i <= c, buf[c] = "nul"
  PROVE  /\ SkipNewlines(buf, i) \in Cells
         /\ i <= SkipNewlines(buf, i) /\ SkipNewlines(buf, i) <= c
BY FirstCellFound DEF SkipNewlines

(* The characters that are not the end of anything. *)
LEMMA Characters ==
  ASSUME NEW b \in Byte \cup {"nul"}, b \notin {"nl", "nul"}
  PROVE  b \in Text /\ b \in Byte
BY DEF Byte

(* AtFindNextEOL returns a cell or None. *)
LEMMA EOLNumber ==
  ASSUME NEW buf \in Buffers, NEW i \in Nat, NEW c \in Cells, i <= c, buf[c] = "nul"
  PROVE  AtFindNextEOL(buf, i) \in Nat
<1> DEFINE f == FirstCell(buf, i, {"nl", "nul"})
<1>1. f \in Cells
  BY FirstCellFound
<1>2. f \in Nat /\ None \in Nat
  BY <1>1, CellNumbers DEF None
<1> HIDE DEF f
<1>3. AtFindNextEOL(buf, i) \in {i + 2, f, None}
  BY DEF AtFindNextEOL, f
<1> QED
  BY <1>2, <1>3

(***************************************************************************)
(* The end of line that AtFindNextEOL finds is before the \0 at c, or is   *)
(* the \0 after a prompt; nothing before it ends the line.                 *)
(***************************************************************************)
LEMMA EOLFound ==
  ASSUME NEW buf \in Buffers, NEW i \in Nat, NEW c \in Cells, i <= c, buf[c] = "nul",
         AtFindNextEOL(buf, i) # None
  PROVE  LET e == AtFindNextEOL(buf, i)
         IN  /\ e \in Cells /\ i <= e /\ e <= c
             /\ \A k \in Cells : i <= k /\ k < e => buf[k] \in Byte
             /\ e < c \/ (e = i + 2 /\ buf[i] = "gt" /\ buf[i + 1] = "sp")
<1> DEFINE e == AtFindNextEOL(buf, i)
<1> SUFFICES /\ e \in Cells /\ i <= e /\ e <= c
             /\ \A k \in Cells : i <= k /\ k < e => buf[k] \in Byte
             /\ e < c \/ (e = i + 2 /\ buf[i] = "gt" /\ buf[i + 1] = "sp")
  OBVIOUS
<1>1. CASE IsPrompt(buf, i)
  <2>1. e = i + 2
    BY <1>1 DEF AtFindNextEOL
  <2>2. i + 2 \in Cells /\ buf[i] = "gt" /\ buf[i + 1] = "sp"
    BY <1>1 DEF IsPrompt
  <2>3. i \in Cells /\ i + 1 \in Cells
    BY <2>2, BufferAssumption DEF Cells
  <2>4. c # i /\ c # i + 1
    BY <2>2
  <2>5. i + 2 <= c
    BY <2>4, CellNumbers
  <2>6. buf[i] \in Byte /\ buf[i + 1] \in Byte
    BY <2>2, <2>3, Characters DEF Buffers
  <2>7. \A k \in Cells : i <= k /\ k < i + 2 => k = i \/ k = i + 1
    BY CellNumbers
  <2> HIDE DEF e
  <2>8. \A k \in Cells : i <= k /\ k < e => buf[k] \in Byte
    BY <2>1, <2>6, <2>7
  <2> QED
    BY <2>1, <2>2, <2>5, <2>8
<1>2. CASE ~IsPrompt(buf, i)
  <2> DEFINE f == FirstCell(buf, i, {"nl", "nul"})
  <2>1. /\ f \in Cells /\ i <= f /\ f <= c
        /\ \A k \in Cells : i <= k /\ k < f => buf[k] \notin {"nl", "nul"}
    BY FirstCellFound
  <2>2. e = f /\ buf[f] = "nl"
    BY <1>2 DEF AtFindNextEOL
  <2> HIDE DEF f, e
  <2>3. f # c
    BY <2>2
  <2>4. f < c
    BY <2>1, <2>3, CellNumbers
  <2>5. \A k \in Cells : i <= k /\ k < f => buf[k] \in Byte
    BY <2>1, Characters DEF Buffers
  <2> QED
    BY <2>1, <2>2, <2>4, <2>5
<1> QED
  BY <1>1, <1>2

(***************************************************************************)
(* ReturnLine of a line that was found before the \0 at c, which is in the *)
(* array.                                                                  *)
(***************************************************************************)
LEMMA ReturnLineInv ==
  ASSUME TypeOK, Len(spans) = Len(lines), NEW origin \in Int, NEW buf \in Buffers, NEW i \in Nat, NEW c \in 0..MAX_AT_RESPONSE,
         i <= c, buf[c] = "nul",
         buf[MAX_AT_RESPONSE] = "nul", buf[MAX_AT_RESPONSE + 1] = "nul",
         AtFindNextEOL(buf, i) # None, ReturnLine(buf, i, AtFindNextEOL(buf, i), origin)
  PROVE  /\ kATBuffer' \in Buffers /\ kATBuffer'[c] = "nul"
         /\ kATBuffer'[MAX_AT_RESPONSE] = "nul" /\ kATBuffer'[MAX_AT_RESPONSE + 1] = "nul"
         /\ kATBufferCur' \in Cells /\ kATBufferCur' > 0
         /\ kATBufferCur' <= c \/ Prompted'
         /\ lines' \in Seq(Seq(Byte)) /\ (Prompted => Prompted')
         /\ spans' \in Seq([from : Int, to : Int]) /\ Len(spans') = Len(lines')
         /\ state' = "out"
<1> DEFINE e == AtFindNextEOL(buf, i)
           line == [k \in 1..e - i |-> buf[i + k - 1]]
<1>1. c \in Cells
  BY BufferAssumption DEF Cells
<1>2. /\ e \in Cells /\ i <= e /\ e <= c
      /\ \A k \in Cells : i <= k /\ k < e => buf[k] \in Byte
      /\ e < c \/ (e = i + 2 /\ buf[i] = "gt" /\ buf[i + 1] = "sp")
  BY <1>1, EOLFound
<1>3. /\ lines' = Append(lines, line) /\ kATBuffer' = [buf EXCEPT ![e] = "nul"]
      /\ kATBufferCur' = e + 1 /\ state' = "out"
  BY DEF ReturnLine, AfterEOL
<1> HIDE DEF e
<1>4. line \in Seq(Byte)
  <2>1. e - i \in Nat
    BY <1>2, CellNumbers
  <2>2. ASSUME NEW k \in 1..e - i PROVE buf[i + k - 1] \in Byte
    <3>1. i + k - 1 \in Nat /\ i <= i + k - 1 /\ i + k - 1 < e
      BY <1>2, CellNumbers
    <3>2. i + k - 1 \in Cells
      BY <1>2, <3>1, BufferAssumption DEF Cells
    <3> QED
      BY <1>2, <3>1, <3>2
  <2> QED
    BY <2>1, <2>2
<1>5. /\ lines' \in Seq(Seq(Byte)) /\ Len(lines') = Len(lines) + 1 /\ Len(lines) \in Nat
      /\ \A n \in 1..Len(lines) : lines'[n] = lines[n]
      /\ lines'[Len(lines) + 1] = line
  <2> HIDE DEF line
  <2> QED
    BY <1>3, <1>4 DEF TypeOK
<1>6. Prompted => Prompted'
  <2> SUFFICES ASSUME NEW n \in 1..Len(lines), lines[n] = <<"gt", "sp">>
               PROVE  Prompted'
    BY DEF Prompted
  <2>1. n \in 1..Len(lines') /\ lines'[n] = <<"gt", "sp">>
    BY <1>5
  <2> QED
    BY <2>1 DEF Prompted
<1>7. kATBufferCur' <= c \/ Prompted'
  <2>1. CASE e < c
    BY <1>1, <1>2, <1>3, <2>1, CellNumbers
  <2>2. CASE e = i + 2 /\ buf[i] = "gt" /\ buf[i + 1] = "sp"
    <3>1. e - i = 2
      BY <2>2
    <3>2. line = <<"gt", "sp">>
      <4>1. line = [k \in 1..2 |-> buf[i + k - 1]]
        BY <3>1
      <4>2. i + 1 - 1 = i /\ i + 2 - 1 = i + 1
        OBVIOUS
      <4>3. \A k \in 1..2 : k = 1 \/ k = 2
        OBVIOUS
      <4> QED
        BY <2>2, <4>1, <4>2, <4>3
    <3> HIDE DEF line
    <3>3. Len(lines) + 1 \in 1..Len(lines')
      BY <1>5
    <3>4. lines'[Len(lines) + 1] = <<"gt", "sp">>
      BY <1>5, <3>2
    <3> QED
      BY <3>3, <3>4 DEF Prompted
  <2> QED
    BY <1>2, <2>1, <2>2
<1>8. kATBuffer' \in Buffers
  BY <1>2, <1>3 DEF Buffers
<1>9. \A k \in Cells : buf[k] = "nul" => kATBuffer'[k] = "nul"
  BY <1>3 DEF Buffers
<1>10. kATBufferCur' \in Cells /\ kATBufferCur' > 0
  BY <1>2, <1>3, BufferAssumption DEF Cells
<1>11. spans' \in Seq([from : Int, to : Int]) /\ Len(spans') = Len(lines')
  <2> DEFINE sp == [from |-> origin + i + 1, to |-> origin + e]
  <2>1. sp \in [from : Int, to : Int]
    BY <1>2, CellNumbers
  <2>2. spans' = Append(spans, sp)
    BY DEF ReturnLine, e
  <2> HIDE DEF sp
  <2> QED
    BY <1>5, <2>1, <2>2 DEF TypeOK
<1> QED
  BY <1>1, <1>3, <1>5, <1>6, <1>7, <1>8, <1>9, <1>10, <1>11, CellNumbers

-----------------------------------------------------------------------------
(* The steps. *)

(* ReadLine up to its loop. *)
LEMMA EnterInv == ASSUME Inv, ReadLineEnter PROVE Inv'
<1>1. kATBuffer \in Buffers /\ kATBufferCur \in Nat /\ kATBufferCur \in Cells
  BY CellNumbers DEF Inv, TypeOK, Buffers
<1>2. state = "out" /\ bytes' = bytes /\ ditched' = ditched
  BY DEF ReadLineEnter
<1>2a. Len(bytes) - p_read \in Int
  BY DEF Inv, TypeOK
<1>3. CASE kATBuffer[kATBufferCur] = "nul"
  <2>1. /\ kATBufferCur' = 0 /\ p_read' = 0 /\ state' = "in" /\ lines' = lines
        /\ spans' = spans
        /\ kATBuffer' = [kATBuffer EXCEPT ![0] = "nul"]
    BY <1>3 DEF ReadLineEnter
  <2>2. 0 \in Cells /\ 0 \in 0..MAX_AT_RESPONSE
    BY BufferAssumption DEF Cells
  <2>3. /\ kATBuffer' \in Buffers /\ kATBuffer'[0] = "nul"
        /\ \A k \in Cells : kATBuffer[k] = "nul" => kATBuffer'[k] = "nul"
    BY <1>1, <2>1, <2>2 DEF Buffers
  <2>4. TypeOK'
    BY <1>2, <2>1, <2>2, <2>3 DEF Inv, TypeOK, Buffers
  <2> QED
    BY <2>1, <2>2, <2>3, <2>4, CellNumbers DEF Inv, CursorInData
<1>4. CASE kATBuffer[kATBufferCur] # "nul"
  <2> DEFINE i == SkipNewlines(kATBuffer, kATBufferCur)
             e == AtFindNextEOL(kATBuffer, i)
             c == IF kATBufferCur <= p_read /\ kATBuffer[p_read] = "nul"
                    THEN p_read ELSE MAX_AT_RESPONSE
  <2>1. kATBufferCur > 0 /\ kATBufferCur <= MAX_AT_RESPONSE
    <3>1. kATBufferCur # MAX_AT_RESPONSE + 1 /\ kATBufferCur # 0
      BY <1>2, <1>4 DEF Inv
    <3> QED
      BY <1>1, <3>1, BufferAssumption DEF Cells, Inv
  <2>2. /\ c \in 0..MAX_AT_RESPONSE /\ c \in Cells /\ c \in Nat /\ kATBufferCur <= c
        /\ kATBuffer[c] = "nul"
    BY <1>1, <2>1, BufferAssumption DEF Inv, TypeOK, Cells
  <2>3. c = p_read \/ Prompted
    BY DEF Inv, CursorInData
  <2> HIDE DEF c
  <2>4. i \in Cells /\ i \in Nat /\ kATBufferCur <= i /\ i <= c /\ i > 0
    BY <1>1, <2>1, <2>2, SkipStops, CellNumbers
  <2> HIDE DEF i
  <2>5. CASE e # None
    <3>1. ReturnLine(kATBuffer, i, e, Len(bytes) - p_read) /\ p_read' = p_read
      BY <1>4, <2>5 DEF ReadLineEnter, i
    <3>2. /\ kATBuffer' \in Buffers /\ kATBuffer'[c] = "nul"
          /\ kATBuffer'[MAX_AT_RESPONSE] = "nul" /\ kATBuffer'[MAX_AT_RESPONSE + 1] = "nul"
          /\ kATBufferCur' \in Cells /\ kATBufferCur' > 0
          /\ kATBufferCur' <= c \/ Prompted'
          /\ lines' \in Seq(Seq(Byte)) /\ (Prompted => Prompted')
          /\ spans' \in Seq([from : Int, to : Int]) /\ Len(spans') = Len(lines')
          /\ state' = "out"
      BY <1>1, <1>2a, <2>2, <2>4, <2>5, <3>1, ReturnLineInv DEF Inv
    <3>3. TypeOK'
      BY <1>2, <3>1, <3>2 DEF Inv, TypeOK, Buffers
    <3> QED
      BY <2>3, <3>1, <3>2, <3>3 DEF Inv, CursorInData
  <2>6. CASE e = None
    <3> DEFINE f == FirstCell(kATBuffer, i, {"nul"})
    <3>1. /\ kATBuffer' = [j \in Cells |-> IF j <= f - i THEN kATBuffer[i + j]
                                           ELSE kATBuffer[j]]
          /\ p_read' = f - i /\ kATBufferCur' = 0 /\ state' = "in" /\ lines' = lines
          /\ spans' = spans
      BY <1>4, <2>6 DEF ReadLineEnter, MoveUp, i
    <3>2. f \in Cells /\ i <= f /\ f <= c /\ kATBuffer[f] = "nul"
      BY <2>2, <2>4, FirstCellFound
    <3> HIDE DEF f
    <3>3. f - i \in 0..MAX_AT_RESPONSE - 1 /\ f - i \in Nat
      BY <2>2, <2>4, <3>2, CellNumbers
    <3>4. ASSUME NEW j \in Cells, j <= f - i PROVE i + j \in Cells
      BY <2>4, <3>2, <3>4, BufferAssumption DEF Cells
    <3>5. kATBuffer' \in Buffers
      BY Zenon, <1>1, <3>1, <3>4 DEF Buffers
    <3>6. /\ kATBuffer'[MAX_AT_RESPONSE] = "nul" /\ kATBuffer'[MAX_AT_RESPONSE + 1] = "nul"
      BY <3>1, <3>3, CellNumbers DEF Inv
    <3>7. kATBuffer'[p_read'] = "nul"
      <4>1. f - i \in Cells /\ i + (f - i) = f /\ f - i <= f - i
        BY <2>4, <3>2, <3>3, BufferAssumption DEF Cells
      <4> QED
        BY <3>1, <3>2, <4>1
    <3>8. TypeOK'
      <4>1. 0 \in Cells /\ p_read' \in 0..MAX_AT_RESPONSE
        BY <3>1, <3>3, BufferAssumption DEF Cells
      <4> QED
        BY <1>2, <3>1, <3>5, <4>1 DEF Inv, TypeOK, Buffers
    <3>9. kATBufferCur' <= p_read'
      BY <3>1, <3>3
    <3> QED
      BY <3>1, <3>6, <3>7, <3>8, <3>9 DEF Inv, CursorInData
  <2> QED
    BY <2>5, <2>6
<1> QED
  BY <1>3, <1>4

(* One read of the loop. *)
LEMMA ReadBytesInv ==
  ASSUME Inv, NEW count \in 1..MAX_AT_RESPONSE, ReadBytes(count)
  PROVE  Inv'
<1> DEFINE from == IF IsFull THEN 0 ELSE p_read
           cur == IF IsFull THEN 0 ELSE kATBufferCur
           end == from + count
<1>1. state = "in" /\ count <= MAX_AT_RESPONSE - from /\ ditched' = (ditched \/ IsFull)
  BY DEF ReadBytes, Room
<1>2. from \in 0..MAX_AT_RESPONSE /\ cur \in Nat /\ cur <= from
  BY <1>1, CellNumbers DEF Inv, TypeOK
<1>2a. Len(bytes) - from \in Int
  BY <1>2 DEF Inv, TypeOK
<1>3. PICK data \in [1..count -> Byte] :
        LET buf == [j \in Cells |-> IF j \in from..from + count - 1 THEN data[j - from + 1]
                                    ELSE IF j = from + count THEN "nul" ELSE kATBuffer[j]]
            i == SkipNewlines(buf, cur)
            e == AtFindNextEOL(buf, i)
        IN  /\ bytes' = bytes \o data
            /\ p_read' = from + count
            /\ IF e # None
                 THEN ReturnLine(buf, i, e, Len(bytes) - from)
                 ELSE /\ kATBuffer' = buf /\ kATBufferCur' = i
                      /\ UNCHANGED <<state, lines, spans>>
  BY Zenon DEF ReadBytes
<1> DEFINE buf == [j \in Cells |-> IF j \in from..from + count - 1 THEN data[j - from + 1]
                                   ELSE IF j = from + count THEN "nul" ELSE kATBuffer[j]]
           i == SkipNewlines(buf, cur)
           e == AtFindNextEOL(buf, i)
<1> HIDE DEF from, cur
<1>4. end \in 0..MAX_AT_RESPONSE /\ end \in Cells /\ from <= end
  BY <1>1, <1>2, BufferAssumption DEF Cells
<1>5. buf \in Buffers
  <2> SUFFICES ASSUME NEW j \in Cells
               PROVE  (IF j \in from..from + count - 1 THEN data[j - from + 1]
                       ELSE IF j = from + count THEN "nul" ELSE kATBuffer[j])
                      \in Byte \cup {"nul"}
    BY DEF Buffers
  <2>1. CASE j \in from..from + count - 1
    <3>1. j - from + 1 \in 1..count
      BY <1>2, <2>1
    <3> QED
      BY <2>1, <3>1
  <2>2. CASE j \notin from..from + count - 1
    BY <2>2 DEF Inv, TypeOK
  <2> QED
    BY <2>1, <2>2
<1>6. buf[end] = "nul"
  <2>1. end \notin from..from + count - 1
    BY <1>2
  <2> QED
    BY <1>4, <2>1
<1>7. buf[MAX_AT_RESPONSE] = "nul" /\ buf[MAX_AT_RESPONSE + 1] = "nul"
  <2>1. /\ MAX_AT_RESPONSE \notin from..from + count - 1
        /\ MAX_AT_RESPONSE + 1 \notin from..from + count - 1
    BY <1>1, <1>2, BufferAssumption
  <2> QED
    BY <2>1, CellNumbers DEF Inv
<1>8. bytes' = bytes \o data /\ p_read' = end
  BY <1>3
<1>9. bytes' \in Seq(Byte) /\ ditched' \in BOOLEAN
  <2>1. data \in Seq(Byte)
    OBVIOUS
  <2>2. bytes' \in Seq(Byte)
    BY <1>8, <2>1 DEF Inv, TypeOK
  <2>3. ditched' \in BOOLEAN
    BY <1>1, Zenon DEF Inv, TypeOK
  <2> QED
    BY <2>2, <2>3
<1>10. \/ e # None /\ ReturnLine(buf, i, e, Len(bytes) - from)
       \/ e = None /\ kATBuffer' = buf /\ kATBufferCur' = i /\ UNCHANGED <<state, lines, spans>>
  BY <1>3
<1> HIDE DEF buf, end
<1>11. i \in Cells /\ i \in Nat /\ i <= end
  BY <1>2, <1>4, <1>5, <1>6, SkipStops, CellNumbers
<1> HIDE DEF i
<1>12. CASE e # None /\ ReturnLine(buf, i, e, Len(bytes) - from)
  <2>1. /\ kATBuffer' \in Buffers /\ kATBuffer'[end] = "nul"
        /\ kATBuffer'[MAX_AT_RESPONSE] = "nul" /\ kATBuffer'[MAX_AT_RESPONSE + 1] = "nul"
        /\ kATBufferCur' \in Cells /\ kATBufferCur' > 0
        /\ kATBufferCur' <= end \/ Prompted'
        /\ lines' \in Seq(Seq(Byte))
        /\ spans' \in Seq([from : Int, to : Int]) /\ Len(spans') = Len(lines')
        /\ state' = "out"
    BY <1>2a, <1>4, <1>5, <1>6, <1>7, <1>11, <1>12, ReturnLineInv DEF Inv
  <2>2. TypeOK'
    BY <1>4, <1>8, <1>9, <2>1 DEF TypeOK, Buffers
  <2> QED
    BY <1>8, <2>1, <2>2 DEF Inv, CursorInData
<1>13. CASE e = None /\ kATBuffer' = buf /\ kATBufferCur' = i /\ UNCHANGED <<state, lines, spans>>
  <2>1. TypeOK'
    BY <1>1, <1>4, <1>5, <1>8, <1>9, <1>11, <1>13 DEF Inv, TypeOK, Buffers
  <2> QED
    BY <1>1, <1>6, <1>7, <1>8, <1>11, <1>13, <2>1 DEF Inv, CursorInData
<1> QED
  BY <1>10, <1>12, <1>13

(* A read that fails. *)
LEMMA ReadFailsInv == ASSUME Inv, ReadFails PROVE Inv'
<1>1. /\ state = "in" /\ state' = "closed" /\ bytes' = bytes /\ lines' = lines
      /\ spans' = spans
      /\ ditched' = (ditched \/ IsFull)
  BY DEF ReadFails
<1>2. ditched' \in BOOLEAN
  BY <1>1, Zenon DEF Inv, TypeOK
<1>3. 0 \in Cells /\ 0 \in 0..MAX_AT_RESPONSE
  BY BufferAssumption DEF Cells
<1>4. CASE IsFull
  <2>1. kATBufferCur' = 0 /\ p_read' = 0 /\ kATBuffer' = [kATBuffer EXCEPT ![0] = "nul"]
    BY <1>4 DEF ReadFails
  <2>2. /\ kATBuffer' \in Buffers /\ kATBuffer'[0] = "nul"
        /\ \A k \in Cells : kATBuffer[k] = "nul" => kATBuffer'[k] = "nul"
    BY <1>3, <2>1 DEF Buffers, Inv, TypeOK
  <2>3. TypeOK'
    BY <1>1, <1>2, <1>3, <2>1, <2>2 DEF Inv, TypeOK, Buffers
  <2> QED
    BY <1>1, <2>1, <2>2, <2>3, CellNumbers DEF Inv, CursorInData
<1>5. CASE ~IsFull
  <2>1. kATBufferCur' = kATBufferCur /\ p_read' = p_read /\ kATBuffer' = kATBuffer
    BY <1>5 DEF ReadFails
  <2>2. TypeOK'
    BY <1>1, <1>2, <2>1 DEF Inv, TypeOK
  <2> QED
    BY <1>1, <2>1, <2>2 DEF Inv, CursorInData
<1> QED
  BY <1>4, <1>5

-----------------------------------------------------------------------------
(***************************************************************************)
(* What ReadLine has made of the stream s up to position pos: the lines L  *)
(* from the places S are tails of lines of s before pos, in order, and     *)
(* while the buffer was not dropped (gone) they are whole lines, nothing   *)
(* but ends of line is left out, and a line starts after pos.              *)
(***************************************************************************)
Places == [from : Int, to : Int]

IsTail(s, l, p) ==
  /\ p.from >= 1 /\ p.from <= p.to /\ p.to < Len(s)
  /\ l = SubSeq(s, p.from, p.to)
  /\ s[p.to + 1] = "nl"
  /\ \A k \in p.from..p.to : s[k] # "nl"

Covered(S, k) == \E n \in 1..Len(S) : S[n].from <= k /\ k <= S[n].to

ReadUpTo(s, pos, L, S, gone) ==
  /\ \A n \in 1..Len(S) : IsTail(s, L[n], S[n]) /\ S[n].to < pos
  /\ \A m, n \in 1..Len(S) : m < n => S[m].to < S[n].from
  /\ ~gone =>
       /\ pos = 0 \/ s[pos] = "nl"
       /\ \A n \in 1..Len(S) : S[n].from = 1 \/ s[S[n].from - 1] = "nl"
       /\ \A k \in 1..pos : s[k] = "nl" \/ Covered(S, k)

(* The cells from cur up to c hold the end of the stream s. *)
HoldsEnd(buf, cur, c, s) ==
  /\ c <= Len(s)
  /\ \A j \in Cells : cur <= j /\ j < c => buf[j] = s[Len(s) - c + j + 1]

Pos == Len(bytes) - p_read + kATBufferCur

(***************************************************************************)
(* Until a prompt is returned the buffer holds the bytes after Pos, and in *)
(* the read loop there is no end of line among them.                       *)
(***************************************************************************)
Stream ==
  ~Prompted =>
    /\ HoldsEnd(kATBuffer, kATBufferCur, p_read, bytes)
    /\ ReadUpTo(bytes, Pos, lines, spans, ditched)
    /\ state = "in" => \A k \in Pos + 1..Len(bytes) : bytes[k] # "nl"

(* A part of a sequence, element by element. *)
LEMMA SubSeqIs ==
  ASSUME NEW s \in Seq(Byte), NEW l \in Seq(Byte), NEW a \in Int, NEW b \in Int,
         1 <= a, a <= b, b <= Len(s), Len(l) = b - a + 1,
         \A k \in 1..b - a + 1 : l[k] = s[a + k - 1]
  PROVE  l = SubSeq(s, a, b)
<1> DEFINE u == SubSeq(s, a, b)
<1>1. \A k \in a..b : s[k] \in Byte
  <2>1. \A k \in a..b : k \in 1..Len(s)
    OBVIOUS
  <2> QED
    BY <2>1
<1>2. /\ u \in Seq(Byte) /\ Len(u) = b - a + 1
      /\ \A k \in 1..b - a + 1 : u[k] = s[a + k - 1]
  BY <1>1, SubSeqProperties
<1> HIDE DEF u
<1>3. \A k \in 1..Len(l) : l[k] = u[k]
  BY <1>2
<1>4. l = u
  BY <1>2, <1>3, SeqEqual
<1> QED
  BY <1>4 DEF u

(* Bytes that arrive do not change what has been read. *)
LEMMA TailExtends ==
  ASSUME NEW s \in Seq(Byte), NEW d \in Seq(Byte), NEW p \in Places, NEW l, IsTail(s, l, p)
  PROVE  IsTail(s \o d, l, p)
<1> DEFINE t == s \o d
<1>1. /\ Len(t) \in Nat /\ Len(s) \in Nat /\ Len(s) <= Len(t)
      /\ \A k \in 1..Len(s) : t[k] = s[k]
  OBVIOUS
<1> HIDE DEF t
<1>2. /\ p.from \in Int /\ p.to \in Int /\ p.from >= 1 /\ p.from <= p.to /\ p.to < Len(s)
      /\ l = SubSeq(s, p.from, p.to) /\ s[p.to + 1] = "nl"
      /\ \A k \in p.from..p.to : s[k] # "nl"
  BY DEF IsTail, Places
<1>3. p.to < Len(t) /\ p.to + 1 \in 1..Len(s)
  BY <1>1, <1>2
<1>4. \A k \in p.from..p.to : k \in 1..Len(s)
  BY <1>1, <1>2
<1>5. SubSeq(t, p.from, p.to) = SubSeq(s, p.from, p.to)
  <2> DEFINE u == SubSeq(s, p.from, p.to)
  <2>1. \A k \in p.from..p.to : s[k] \in Byte
    BY <1>4
  <2>2. /\ u \in Seq(Byte) /\ Len(u) = p.to - p.from + 1
        /\ \A k \in 1..p.to - p.from + 1 : u[k] = s[p.from + k - 1]
    BY <1>2, <2>1, SubSeqProperties
  <2> HIDE DEF u
  <2>3. \A k \in 1..p.to - p.from + 1 : p.from + k - 1 \in 1..Len(s)
    BY <1>1, <1>2
  <2>4. \A k \in 1..p.to - p.from + 1 : u[k] = t[p.from + k - 1]
    BY Zenon, <1>1, <2>2, <2>3
  <2>5. t \in Seq(Byte) /\ p.to <= Len(t)
    <3>1. t \in Seq(Byte)
      BY DEF t
    <3> QED
      BY <1>1, <1>2, <1>3, <3>1
  <2>6. u = SubSeq(t, p.from, p.to)
    BY Zenon, <1>2, <2>2, <2>4, <2>5, SubSeqIs
  <2> QED
    BY <2>6 DEF u
<1>6. t[p.to + 1] = "nl" /\ \A k \in p.from..p.to : t[k] # "nl"
  BY Zenon, <1>1, <1>2, <1>3, <1>4
<1> QED
  BY <1>2, <1>3, <1>5, <1>6 DEF IsTail, t

LEMMA ReadExtends ==
  ASSUME NEW s \in Seq(Byte), NEW d \in Seq(Byte), NEW pos \in Nat, pos <= Len(s),
         NEW L, NEW S \in Seq(Places), NEW gone \in BOOLEAN, ReadUpTo(s, pos, L, S, gone)
  PROVE  ReadUpTo(s \o d, pos, L, S, gone)
<1> DEFINE t == s \o d
<1>1. /\ Len(s) \in Nat /\ \A k \in 1..Len(s) : t[k] = s[k]
  OBVIOUS
<1>2. \A n \in 1..Len(S) : S[n] \in Places /\ IsTail(s, L[n], S[n]) /\ S[n].to < pos
  BY DEF ReadUpTo
<1>3. \A n \in 1..Len(S) : IsTail(t, L[n], S[n])
  BY <1>2, TailExtends
<1> HIDE DEF t
<1>4. ASSUME ~gone
      PROVE  /\ pos = 0 \/ t[pos] = "nl"
             /\ \A n \in 1..Len(S) : S[n].from = 1 \/ t[S[n].from - 1] = "nl"
             /\ \A k \in 1..pos : t[k] = "nl" \/ Covered(S, k)
  <2>1. pos = 0 \/ t[pos] = "nl"
    BY <1>1, <1>4 DEF ReadUpTo
  <2>2. ASSUME NEW n \in 1..Len(S), S[n].from # 1 PROVE t[S[n].from - 1] = "nl"
    <3>1. S[n].from \in Int /\ S[n].to \in Int /\ S[n].from >= 1 /\ S[n].from < Len(s)
      BY <1>1, <1>2 DEF IsTail, Places
    <3>2. S[n].from - 1 \in 1..Len(s)
      BY <1>1, <2>2, <3>1
    <3>3. s[S[n].from - 1] = "nl"
      BY <1>4, <2>2 DEF ReadUpTo
    <3> QED
      BY <1>1, <3>2, <3>3
  <2>3. ASSUME NEW k \in 1..pos PROVE t[k] = "nl" \/ Covered(S, k)
    <3>1. k \in 1..Len(s)
      BY <1>1
    <3> QED
      BY <1>1, <1>4, <3>1 DEF ReadUpTo
  <2> QED
    BY <2>1, <2>2, <2>3
<1> QED
  BY Zenon, <1>2, <1>3, <1>4 DEF ReadUpTo, t

(* Stepping over ends of line leaves nothing out. *)
LEMMA ReadSkips ==
  ASSUME NEW s \in Seq(Byte), NEW pos \in Nat, NEW q \in Nat, pos <= q, q <= Len(s),
         NEW L, NEW S \in Seq(Places), NEW gone \in BOOLEAN, ReadUpTo(s, pos, L, S, gone),
         \A k \in pos + 1..q : s[k] = "nl"
  PROVE  ReadUpTo(s, q, L, S, gone)
<1>1. ASSUME NEW n \in 1..Len(S) PROVE IsTail(s, L[n], S[n]) /\ S[n].to < q
  <2>0. S[n] \in Places
    OBVIOUS
  <2>1. S[n].to \in Int
    BY <2>0 DEF Places
  <2> QED
    BY <2>1 DEF ReadUpTo
<1>2. ASSUME ~gone PROVE q = 0 \/ s[q] = "nl"
  <2>1. q = pos \/ q \in pos + 1..q
    OBVIOUS
  <2> QED
    BY <1>2, <2>1 DEF ReadUpTo
<1>3. ASSUME ~gone, NEW k \in 1..q PROVE s[k] = "nl" \/ Covered(S, k)
  <2>1. k \in 1..pos \/ k \in pos + 1..q
    OBVIOUS
  <2> QED
    BY <1>3, <2>1 DEF ReadUpTo
<1> QED
  BY <1>1, <1>2, <1>3 DEF ReadUpTo

(* Dropping the buffer leaves what was read before. *)
LEMMA ReadDrops ==
  ASSUME spans \in Seq(Places), Len(bytes) \in Nat, Pos \in Nat, Pos <= Len(bytes),
         ReadUpTo(bytes, Pos, lines, spans, ditched), NEW gone \in BOOLEAN, gone
  PROVE  ReadUpTo(bytes, Len(bytes), lines, spans, gone)
<1>1. ASSUME NEW n \in 1..Len(spans)
      PROVE  IsTail(bytes, lines[n], spans[n]) /\ spans[n].to < Len(bytes)
  <2>0. spans[n] \in Places
    OBVIOUS
  <2>1. spans[n].to \in Int
    BY <2>0 DEF Places
  <2> QED
    BY <2>1 DEF ReadUpTo
<1> QED
  BY <1>1 DEF ReadUpTo

(* The line l of the stream s from after pos to b. *)
LineAt(s, pos, b, l) ==
  /\ pos < b /\ b < Len(s) /\ l = SubSeq(s, pos + 1, b)
  /\ s[b + 1] = "nl" /\ \A k \in pos + 1..b : s[k] # "nl"

(* A line returned from pos on is one more tail, and whole when a line starts there. *)
LEMMA ReadReturns ==
  ASSUME NEW s \in Seq(Byte), NEW pos \in Nat, NEW b \in Nat, NEW l \in Seq(Byte),
         LineAt(s, pos, b, l),
         NEW L \in Seq(Seq(Byte)), NEW S \in Seq(Places), Len(L) = Len(S),
         NEW gone \in BOOLEAN, ReadUpTo(s, pos, L, S, gone)
  PROVE  ReadUpTo(s, b + 1, Append(L, l), Append(S, [from |-> pos + 1, to |-> b]), gone)
<1> DEFINE p == [from |-> pos + 1, to |-> b]
           M == Append(L, l)
           T == Append(S, p)
<1>1. p \in Places /\ p.from = pos + 1 /\ p.to = b
  BY DEF Places
<1> HIDE DEF p
<1>1a. pos < b /\ b < Len(s) /\ Len(s) \in Nat
  BY DEF LineAt
<1>2. /\ Len(T) = Len(S) + 1 /\ T[Len(S) + 1] = p /\ Len(S) \in Nat
      /\ \A n \in 1..Len(S) : T[n] = S[n]
  BY <1>1
<1>3. M[Len(S) + 1] = l /\ \A n \in 1..Len(S) : M[n] = L[n]
  <2>1. M[Len(L) + 1] = l /\ \A n \in 1..Len(L) : M[n] = L[n]
    BY AppendProperties
  <2> QED
    BY Zenon, <2>1
<1> HIDE DEF M, T
<1>4. /\ \A n \in 1..Len(T) : n \in 1..Len(S) \/ n = Len(S) + 1
      /\ \A n \in 1..Len(S) : n \in 1..Len(T)
  BY <1>2
<1>5. IsTail(s, l, p)
  BY <1>1, <1>1a DEF IsTail, LineAt
<1>6. \A n \in 1..Len(S) : /\ S[n].to \in Int /\ S[n].to < pos /\ S[n].to < b + 1
                           /\ IsTail(s, L[n], S[n])
  <2>1. \A n \in 1..Len(S) : S[n] \in Places
    OBVIOUS
  <2>2. \A n \in 1..Len(S) : S[n].to \in Int
    BY <2>1 DEF Places
  <2> QED
    BY <1>1a, <2>2 DEF ReadUpTo
<1>7. ASSUME NEW n \in 1..Len(T) PROVE IsTail(s, M[n], T[n]) /\ T[n].to < b + 1
  <2>1. CASE n \in 1..Len(S)
    BY Zenon, <1>2, <1>3, <1>6, <2>1
  <2>2. CASE n = Len(S) + 1
    <3>1. M[n] = l /\ T[n] = p
      BY Zenon, <1>2, <1>3, <2>2
    <3>2. p.to < b + 1
      BY <1>1
    <3> QED
      BY Zenon, <1>5, <3>1, <3>2
  <2> QED
    BY <1>4, <2>1, <2>2
<1>8. ASSUME NEW m \in 1..Len(T), NEW n \in 1..Len(T), m < n PROVE T[m].to < T[n].from
  <2>1. m \in 1..Len(S)
    BY <1>2, <1>8
  <2>2. CASE n \in 1..Len(S)
    BY <1>2, <1>8, <2>1, <2>2 DEF ReadUpTo
  <2>3. CASE n = Len(S) + 1
    <3>1. T[m].to < pos /\ T[m].to \in Int /\ T[n].from = pos + 1
      BY Zenon, <1>1, <1>2, <1>6, <2>1, <2>3
    <3> QED
      BY <3>1
  <2> QED
    BY <1>4, <2>2, <2>3
<1>9. ASSUME ~gone, NEW n \in 1..Len(T) PROVE T[n].from = 1 \/ s[T[n].from - 1] = "nl"
  <2>1. CASE n \in 1..Len(S)
    BY <1>2, <1>9, <2>1 DEF ReadUpTo
  <2>2. CASE n = Len(S) + 1
    <3>1. T[n].from = pos + 1 /\ pos + 1 - 1 = pos
      BY <1>1, <1>2, <2>2
    <3>2. pos = 0 \/ s[pos] = "nl"
      BY <1>9 DEF ReadUpTo
    <3> QED
      BY <3>1, <3>2
  <2> QED
    BY <1>4, <2>1, <2>2
<1>10. ASSUME ~gone, NEW k \in 1..b + 1 PROVE s[k] = "nl" \/ Covered(T, k)
  <2>1. k \in 1..pos \/ k \in pos + 1..b \/ k = b + 1
    BY <1>1a
  <2>2. CASE k \in 1..pos
    <3>1. s[k] = "nl" \/ Covered(S, k)
      BY <1>10, <2>2 DEF ReadUpTo
    <3>2. Covered(S, k) => Covered(T, k)
      <4> SUFFICES ASSUME NEW n \in 1..Len(S), S[n].from <= k, k <= S[n].to
                   PROVE  Covered(T, k)
        BY DEF Covered
      <4>1. n \in 1..Len(T) /\ T[n] = S[n]
        BY Zenon, <1>2, <1>4
      <4> QED
        BY <4>1 DEF Covered
    <3> QED
      BY <3>1, <3>2
  <2>3. CASE k \in pos + 1..b
    <3>1. Len(S) + 1 \in 1..Len(T) /\ T[Len(S) + 1].from <= k /\ k <= T[Len(S) + 1].to
      BY <1>1, <1>2, <2>3
    <3> QED
      BY <3>1 DEF Covered
  <2> QED
    BY <2>1, <2>2, <2>3 DEF LineAt
<1>11. s[b + 1] = "nl"
  BY DEF LineAt
<1> QED
  BY Zenon, <1>7, <1>8, <1>9, <1>10, <1>11 DEF ReadUpTo, M, T, p

(***************************************************************************)
(* The buffer holds the end of the stream s from cell cur to cell c, cell  *)
(* 0 standing for position o + 1, and ReadLine has looked for a line: it   *)
(* starts at cell i and ends at cell e.                                    *)
(***************************************************************************)
Frame(buf, cur, c, s, o, i, e) ==
  /\ buf \in Buffers /\ c \in 0..MAX_AT_RESPONSE /\ cur <= c /\ buf[c] = "nul"
  /\ HoldsEnd(buf, cur, c, s) /\ o = Len(s) - c
  /\ i = SkipNewlines(buf, cur) /\ e = AtFindNextEOL(buf, i)

(* What SkipNewlines and AtFindNextEOL have found, in terms of the stream. *)
Found(buf, cur, c, s, o, i, e) ==
  /\ o \in Nat /\ i \in Cells /\ cur <= i /\ i <= c
  /\ \A k \in o + cur + 1..o + i : s[k] = "nl"
  /\ e = None => \A k \in o + i + 1..Len(s) : s[k] # "nl"
  /\ e # None =>
       \/ e = i + 2 /\ buf[i] = "gt" /\ buf[i + 1] = "sp"
       \/ /\ i < e /\ e < c
          /\ s[o + e + 1] = "nl" /\ \A k \in o + i + 1..o + e : s[k] # "nl"
          /\ \A k \in 1..e - i : buf[i + k - 1] = s[o + i + k]

(* The cells before the line are ends of line, and it ends at the next one. *)
LEMMA Window ==
  ASSUME NEW buf, NEW cur \in Nat, NEW c \in Nat, NEW s \in Seq(Byte), NEW o \in Int,
         NEW i \in Nat, NEW e \in Nat, Frame(buf, cur, c, s, o, i, e)
  PROVE  Found(buf, cur, c, s, o, i, e)
<1> DEFINE f == FirstCell(buf, i, {"nl", "nul"})
<1>0. /\ buf \in Buffers /\ c \in 0..MAX_AT_RESPONSE /\ cur <= c /\ buf[c] = "nul"
      /\ Len(s) = o + c /\ c <= Len(s) /\ Len(s) \in Nat
  BY DEF Frame, HoldsEnd
<1>1. o \in Nat /\ c \in Cells /\ Len(s) = o + c
  BY <1>0, BufferAssumption DEF Cells
<1>2. \A j \in Cells : cur <= j /\ j < c => buf[j] = s[o + j + 1]
  <2>1. Len(s) - c = o
    BY <1>0
  <2> QED
    BY Zenon, <2>1 DEF Frame, HoldsEnd
<1>3. /\ i \in Cells /\ cur <= i /\ i <= c /\ buf[i] \in Text \cup {"nul"}
      /\ \A k \in Cells : cur <= k /\ k < i => buf[k] \notin Text \cup {"nul"}
  <2> DEFINE S == Text \cup {"nul"}
  <2>1. buf[c] \in S
    BY <1>0
  <2>2. FirstCell(buf, cur, S) = i
    BY DEF Frame, SkipNewlines
  <2> HIDE DEF S
  <2>3. /\ FirstCell(buf, cur, S) \in Cells
        /\ cur <= FirstCell(buf, cur, S) /\ FirstCell(buf, cur, S) <= c
        /\ buf[FirstCell(buf, cur, S)] \in S
        /\ \A k \in Cells : cur <= k /\ k < FirstCell(buf, cur, S) => buf[k] \notin S
    BY Zenon, <1>0, <1>1, <2>1, FirstCellFound
  <2> QED
    BY Zenon, <2>2, <2>3 DEF S
<1>4. /\ f \in Cells /\ f \in Nat /\ i <= f /\ f <= c /\ buf[f] \in {"nl", "nul"}
      /\ \A k \in Cells : i <= k /\ k < f => buf[k] \notin {"nl", "nul"}
  <2> DEFINE S == {"nl", "nul"}
  <2>1. buf[c] \in S /\ f = FirstCell(buf, i, S)
    BY <1>0
  <2> HIDE DEF S, f
  <2>2. /\ f \in Cells /\ i <= f /\ f <= c /\ buf[f] \in S
        /\ \A k \in Cells : i <= k /\ k < f => buf[k] \notin S
    BY Zenon, <1>0, <1>1, <1>3, <2>1, FirstCellFound
  <2> QED
    BY <2>2, CellNumbers DEF S
<1> HIDE DEF f
<1>5. ASSUME NEW k \in Int, o + cur + 1 <= k, k <= o + c
      PROVE  /\ k - o - 1 \in Cells /\ cur <= k - o - 1 /\ k - o - 1 < c
             /\ s[k] = buf[k - o - 1] /\ s[k] \in Byte
  <2>1. k - o - 1 \in Cells /\ cur <= k - o - 1 /\ k - o - 1 < c /\ o + (k - o - 1) + 1 = k
    <3>1. /\ k - o - 1 \in Nat /\ cur <= k - o - 1 /\ k - o - 1 < c
          /\ o + (k - o - 1) + 1 = k
      BY <1>1, <1>5
    <3>2. k - o - 1 <= MAX_AT_RESPONSE + 1
      BY <1>0, <3>1, BufferAssumption
    <3> QED
      BY Zenon, <3>1, <3>2, CellNumbers
  <2>2. k \in 1..Len(s)
    BY <1>1, <1>5
  <2> QED
    BY <1>2, <2>1, <2>2
<1>6. ASSUME NEW k \in o + cur + 1..o + i PROVE s[k] = "nl"
  <2>1. k \in Int /\ o + cur + 1 <= k /\ k <= o + c /\ k - o - 1 < i
    BY <1>1, <1>3
  <2>2. s[k] = buf[k - o - 1] /\ s[k] \in Byte /\ buf[k - o - 1] \notin Text \cup {"nul"}
    BY Zenon, <1>3, <1>5, <2>1
  <2> QED
    BY <2>2 DEF Byte
<1>7. ASSUME NEW k \in o + i + 1..o + f PROVE s[k] # "nl"
  <2>1. k \in Int /\ o + cur + 1 <= k /\ k <= o + c /\ k - o - 1 < f /\ i <= k - o - 1
    BY <1>1, <1>3, <1>4
  <2>2. s[k] = buf[k - o - 1] /\ buf[k - o - 1] \notin {"nl", "nul"}
    BY <1>4, <1>5, <2>1
  <2> QED
    BY <2>2
<1>8. e = IF IsPrompt(buf, i) THEN i + 2 ELSE IF buf[f] = "nl" THEN f ELSE None
  <2>1. f # None
    BY <1>4, CellNumbers
  <2> QED
    BY <2>1 DEF Frame, AtFindNextEOL, f
<1>9. CASE IsPrompt(buf, i)
  <2>1. e = i + 2 /\ e \in Cells /\ buf[i] = "gt" /\ buf[i + 1] = "sp"
    BY <1>8, <1>9 DEF IsPrompt
  <2>2. e # None
    BY <2>1, CellNumbers
  <2> QED
    BY <1>1, <1>3, <1>6, <2>1, <2>2 DEF Found
<1>10. CASE ~IsPrompt(buf, i) /\ buf[f] # "nl"
  <2>1. e = None /\ buf[f] = "nul"
    BY <1>4, <1>8, <1>10
  <2>2. f = c
    <3>1. ASSUME f < c PROVE FALSE
      <4>1. s[o + f + 1] = buf[f] /\ o + f + 1 \in 1..Len(s)
        BY <1>1, <1>2, <1>3, <1>4, <3>1
      <4>2. s[o + f + 1] \in Byte
        BY <4>1
      <4> QED
        BY <2>1, <4>1, <4>2, TextAssumption DEF Byte
    <3> QED
      BY <1>1, <1>4, <3>1
  <2>3. \A k \in o + i + 1..Len(s) : s[k] # "nl"
    <3>1. Len(s) = o + f
      BY <1>1, <2>2
    <3> QED
      BY <1>7, <3>1
  <2> QED
    BY <1>1, <1>3, <1>6, <2>1, <2>3 DEF Found
<1>11. CASE ~IsPrompt(buf, i) /\ buf[f] = "nl"
  <2>1. e = f
    BY <1>8, <1>11
  <2>2. f # c /\ f # i
    BY <1>0, <1>3, <1>11, TextAssumption
  <2>3. i < f /\ f < c
    BY <1>1, <1>3, <1>4, <2>2
  <2>4. s[o + f + 1] = "nl"
    BY <1>1, <1>2, <1>3, <1>4, <1>11, <2>3
  <2>5. ASSUME NEW k \in 1..f - i PROVE buf[i + k - 1] = s[o + i + k]
    <3>1. i + k - 1 \in Cells /\ cur <= i + k - 1 /\ i + k - 1 < c
          /\ o + (i + k - 1) + 1 = o + i + k
      <4>1. /\ i + k - 1 \in Nat /\ i <= i + k - 1 /\ i + k - 1 < f
            /\ o + (i + k - 1) + 1 = o + i + k
        BY <1>1, <1>3, <1>4
      <4>2. cur <= i + k - 1 /\ i + k - 1 < c /\ i + k - 1 <= MAX_AT_RESPONSE + 1
        BY <1>0, <1>1, <1>3, <1>4, <2>3, <4>1, BufferAssumption
      <4> QED
        BY Zenon, <4>1, <4>2, CellNumbers
    <3> QED
      BY Zenon, <1>2, <3>1
  <2>6. f # None
    BY <1>4, CellNumbers
  <2> QED
    BY <1>1, <1>3, <1>4, <1>6, <1>7, <2>1, <2>3, <2>4, <2>5, <2>6 DEF Found
<1> QED
  BY <1>9, <1>10, <1>11

(* A line returned is a prompt for good. *)
LEMMA PromptStays ==
  ASSUME TypeOK, NEW l, lines' = Append(lines, l)
  PROVE  /\ Prompted => Prompted'
         /\ l = <<"gt", "sp">> => Prompted'
<1>1. /\ Len(lines) \in Nat /\ Len(lines') = Len(lines) + 1
      /\ \A n \in 1..Len(lines) : lines'[n] = lines[n]
      /\ lines'[Len(lines) + 1] = l
  <2> DEFINE S == Seq(Byte) \cup {l}
  <2>1. lines \in Seq(S) /\ l \in S
    BY DEF TypeOK
  <2> HIDE DEF S
  <2> QED
    BY <2>1
<1>2. Prompted => Prompted'
  <2> SUFFICES ASSUME NEW n \in 1..Len(lines), lines[n] = <<"gt", "sp">>
               PROVE  Prompted'
    BY DEF Prompted
  <2>1. n \in 1..Len(lines') /\ lines'[n] = <<"gt", "sp">>
    BY <1>1
  <2> QED
    BY <2>1 DEF Prompted
<1>3. Len(lines) + 1 \in 1..Len(lines')
  BY <1>1
<1> QED
  BY <1>1, <1>2, <1>3 DEF Prompted

(***************************************************************************)
(* ReturnLine, with the buffer, cursor and end of data it works on, when   *)
(* they hold the end of the stream.                                        *)
(***************************************************************************)
Then(s, c, gone) == bytes' = s /\ p_read' = c /\ ditched' = gone

LEMMA ReturnStream ==
  ASSUME TypeOK, Len(spans) = Len(lines),
         NEW buf, NEW cur \in Nat, NEW c \in Nat, NEW s \in Seq(Byte), NEW o \in Int,
         NEW i \in Nat, NEW e \in Nat, Frame(buf, cur, c, s, o, i, e), e # None,
         NEW gone \in BOOLEAN, ReadUpTo(s, o + cur, lines, spans, gone),
         ReturnLine(buf, i, e, o), ~Prompted', Then(s, c, gone)
  PROVE  Stream'
<1> DEFINE line == [k \in 1..e - i |-> buf[i + k - 1]]
<1>v. Found(buf, cur, c, s, o, i, e)
  BY Window
<1>w. /\ o \in Nat /\ i \in Cells /\ cur <= i /\ i <= c
      /\ \A k \in o + cur + 1..o + i : s[k] = "nl"
      /\ \/ e = i + 2 /\ buf[i] = "gt" /\ buf[i + 1] = "sp"
         \/ /\ i < e /\ e < c
            /\ s[o + e + 1] = "nl" /\ \A k \in o + i + 1..o + e : s[k] # "nl"
            /\ \A k \in 1..e - i : buf[i + k - 1] = s[o + i + k]
  BY Zenon, <1>v DEF Found
<1>0. /\ buf \in Buffers /\ c \in 0..MAX_AT_RESPONSE /\ buf[c] = "nul"
      /\ HoldsEnd(buf, cur, c, s)
  BY DEF Frame
<1>1. /\ o \in Nat /\ i \in Cells /\ i \in Nat /\ cur <= i /\ i <= c /\ c \in Nat
      /\ Len(s) \in Nat /\ Len(s) = o + c
  <2>1. Len(s) \in Nat /\ o = Len(s) - c
    BY DEF Frame
  <2> QED
    BY <1>w, <2>1
<1>2. /\ lines' = Append(lines, line) /\ kATBuffer' = [buf EXCEPT ![e] = "nul"]
      /\ kATBufferCur' = e + 1 /\ state' = "out"
      /\ spans' = Append(spans, [from |-> o + i + 1, to |-> o + e])
  BY Zenon DEF ReturnLine, AfterEOL
<1>2a. /\ lines \in Seq(Seq(Byte)) /\ spans \in Seq(Places)
  BY DEF TypeOK, Places
<1>2b. ReadUpTo(s, o + cur, lines, spans, gone)
  OBVIOUS
<1>3. ~(e = i + 2 /\ buf[i] = "gt" /\ buf[i + 1] = "sp")
  <2> SUFFICES ASSUME e = i + 2, buf[i] = "gt", buf[i + 1] = "sp" PROVE FALSE
    OBVIOUS
  <2>1. e - i = 2 /\ i + 1 - 1 = i /\ i + 2 - 1 = i + 1
    BY <1>1
  <2>2. line = <<"gt", "sp">>
    <3>1. line = [k \in 1..2 |-> buf[i + k - 1]]
      BY <2>1
    <3>2. \A k \in 1..2 : k = 1 \/ k = 2
      OBVIOUS
    <3> QED
      BY <2>1, <3>1, <3>2
  <2>3. i # c
    BY <1>0
  <2>4. i + 1 \in Cells
    BY <1>0, <1>1, <2>3, BufferAssumption DEF Cells
  <2>5. buf[i] \in Byte \cup {"nul"} /\ buf[i + 1] \in Byte \cup {"nul"}
    BY <1>0, <1>1, <2>4 DEF Buffers
  <2>6. "gt" \in Byte /\ "sp" \in Byte
    BY <2>5, Characters
  <2>7. <<"gt", "sp">> \in Seq(Byte)
    BY <2>6
  <2> HIDE DEF line
  <2> QED
    BY Zenon, <1>2, <2>2, <2>7, PromptStays
<1>4. e \in Nat /\ i < e /\ e < c
  BY <1>w, <1>3
<1>4a. s[o + e + 1] = "nl" /\ \A k \in o + i + 1..o + e : s[k] # "nl"
  BY <1>w, <1>3
<1>4b. \A k \in 1..e - i : buf[i + k - 1] = s[o + i + k]
  BY Zenon, <1>w, <1>3
<1>4c. \A k \in o + cur + 1..o + i : s[k] = "nl"
  BY <1>w
<1>5. line \in Seq(Byte) /\ line = SubSeq(s, o + i + 1, o + e)
  <2> DEFINE x == o + i + 1
             y == o + e
  <2>1. /\ e - i \in Nat /\ y - x + 1 = e - i /\ 1 <= x
        /\ x <= y /\ y <= Len(s) /\ x \in Int /\ y \in Int
    BY <1>1, <1>4
  <2>2. \A k \in 1..e - i : x + k - 1 = o + i + k /\ o + i + k \in 1..Len(s)
    BY <1>1, <1>4
  <2>3. ASSUME NEW k \in 1..e - i PROVE line[k] = s[x + k - 1] /\ line[k] \in Byte
    <3>1. line[k] = buf[i + k - 1]
      OBVIOUS
    <3>2. line[k] = s[o + i + k]
      BY Zenon, <1>4b, <3>1
    <3> HIDE DEF line, x
    <3>3. o + i + k \in 1..Len(s)
      BY Zenon, <2>2
    <3>4. s[o + i + k] \in Byte
      BY <3>3
    <3> QED
      BY Zenon, <2>2, <3>2, <3>4
  <2>4. line = [k \in 1..e - i |-> line[k]]
    OBVIOUS
  <2> HIDE DEF line, x, y
  <2>5. Len(line) = e - i /\ line \in Seq(Byte)
    <3>1. line \in [1..e - i -> Byte]
      BY Zenon, <2>3, <2>4
    <3>2. e - i \in Nat
      BY <2>1
    <3> QED
      BY <3>1, <3>2
  <2>6. line = SubSeq(s, x, y)
    BY <2>1, <2>3, <2>5, SubSeqIs
  <2> QED
    BY <2>5, <2>6 DEF x, y
<1> HIDE DEF line
<1>6. ReadUpTo(s, o + i, lines, spans, gone)
  <2>1. o + cur \in Nat /\ o + i \in Nat /\ o + cur <= o + i /\ o + i <= Len(s)
    BY <1>1
  <2> QED
    BY <1>2a, <1>2b, <1>4c, <2>1, ReadSkips
<1>7. ReadUpTo(s, o + e + 1, lines', spans', gone)
  <2>1. o + i \in Nat /\ o + e \in Nat /\ o + i < o + e /\ o + e < Len(s)
    BY <1>1, <1>4
  <2>2. ReadUpTo(s, (o + e) + 1, Append(lines, line),
                 Append(spans, [from |-> (o + i) + 1, to |-> o + e]), gone)
    <3> DEFINE x == o + i
               y == o + e
    <3>1. /\ x \in Nat /\ y \in Nat /\ LineAt(s, x, y, line) /\ line \in Seq(Byte)
          /\ ReadUpTo(s, x, lines, spans, gone)
      BY <1>4a, <1>5, <1>6, <2>1 DEF LineAt
    <3>2. Len(lines) = Len(spans)
      OBVIOUS
    <3> HIDE DEF x, y
    <3>3. ReadUpTo(s, y + 1, Append(lines, line),
                   Append(spans, [from |-> x + 1, to |-> y]), gone)
      BY Zenon, <1>2a, <3>1, <3>2, ReadReturns
    <3> QED
      BY <3>3 DEF x, y
  <2> QED
    BY Zenon, <1>2, <2>2
<1>8. Pos' = o + e + 1
  <2>1. Pos' = Len(s) - c + (e + 1)
    BY <1>2 DEF Pos, Then
  <2> QED
    BY <1>1, <1>4, <2>1
<1>9. HoldsEnd(kATBuffer', kATBufferCur', c, s)
  <2>1. c <= Len(s)
    BY <1>1
  <2>2. ASSUME NEW j \in Cells, e + 1 <= j, j < c
        PROVE  kATBuffer'[j] = s[Len(s) - c + j + 1]
    <3>1. j # e /\ cur <= j
      <4>1. j \in Nat
        BY CellNumbers
      <4> QED
        BY <1>1, <1>4, <2>2, <4>1
    <3>2. kATBuffer'[j] = buf[j]
      BY <1>0, <1>2, <3>1 DEF Buffers
    <3> QED
      BY <1>0, <2>2, <3>1, <3>2 DEF HoldsEnd
  <2> QED
    BY Zenon, <1>2, <2>1, <2>2 DEF HoldsEnd
<1> QED
  BY Zenon, <1>2, <1>7, <1>8, <1>9 DEF Stream, Then

(* No complete line is left in the buffer. *)
Waiting(buf, i, c, s, o, gone) ==
  /\ ReadUpTo(s, o + i, lines, spans, gone)
  /\ \A k \in o + i + 1..Len(s) : s[k] # "nl"
  /\ HoldsEnd(buf, i, c, s)

(* The read loop goes on when the buffer holds no end of line. *)
LEMMA LoopStream ==
  ASSUME TypeOK, Len(spans) = Len(lines),
         NEW buf, NEW cur \in Nat, NEW c \in Nat, NEW s \in Seq(Byte), NEW o \in Int,
         NEW i \in Nat, NEW e \in Nat, Frame(buf, cur, c, s, o, i, e), e = None,
         NEW gone \in BOOLEAN, ReadUpTo(s, o + cur, lines, spans, gone)
  PROVE  Waiting(buf, i, c, s, o, gone)
<1>1. Found(buf, cur, c, s, o, i, e)
  BY Window
<1>2. /\ o \in Nat /\ cur <= i /\ i <= c
      /\ \A k \in o + cur + 1..o + i : s[k] = "nl"
  BY <1>1 DEF Found
<1>3. \A k \in o + i + 1..Len(s) : s[k] # "nl"
  BY <1>1 DEF Found
<1>4. HoldsEnd(buf, cur, c, s) /\ Len(s) \in Nat /\ o = Len(s) - c
  BY DEF Frame
<1>5. o + cur \in Nat /\ o + i \in Nat /\ o + cur <= o + i /\ o + i <= Len(s)
  BY <1>2, <1>4
<1>6. ReadUpTo(s, o + i, lines, spans, gone)
  <2>1. spans \in Seq(Places)
    BY DEF TypeOK, Places
  <2> QED
    BY <1>2, <1>5, <2>1, ReadSkips
<1>7. HoldsEnd(buf, i, c, s)
  <2>1. \A j \in Cells : i <= j => cur <= j
    BY <1>2, CellNumbers
  <2> QED
    BY <1>4, <2>1 DEF HoldsEnd
<1> QED
  BY <1>3, <1>6, <1>7 DEF Waiting

(* ReadLine up to its loop. *)
LEMMA EnterStream == ASSUME Inv, Stream, ReadLineEnter PROVE Stream'
<1>1. /\ kATBuffer \in Buffers /\ kATBufferCur \in Nat /\ p_read \in Nat
      /\ p_read \in 0..MAX_AT_RESPONSE /\ bytes \in Seq(Byte) /\ Len(bytes) \in Nat
      /\ TypeOK /\ Len(spans) = Len(lines) /\ p_read \in Cells /\ ditched \in BOOLEAN
  <2>1. TypeOK /\ Len(spans) = Len(lines)
    BY DEF Inv
  <2>2. /\ kATBuffer \in Buffers /\ kATBufferCur \in Cells /\ p_read \in 0..MAX_AT_RESPONSE
        /\ bytes \in Seq(Byte) /\ ditched \in BOOLEAN
    BY <2>1 DEF TypeOK, Buffers
  <2> QED
    BY <2>1, <2>2, CellNumbers
<1>2. bytes' = bytes /\ ditched' = ditched
  BY DEF ReadLineEnter
<1>3. ASSUME ~Prompted
      PROVE  /\ kATBufferCur <= p_read /\ kATBuffer[p_read] = "nul"
             /\ HoldsEnd(kATBuffer, kATBufferCur, p_read, bytes) /\ p_read <= Len(bytes)
             /\ ReadUpTo(bytes, Len(bytes) - p_read + kATBufferCur, lines, spans, ditched)
  BY <1>3 DEF Inv, CursorInData, Stream, Pos, HoldsEnd
<1>4. CASE kATBuffer[kATBufferCur] = "nul"
  <2>1. /\ kATBufferCur' = 0 /\ p_read' = 0 /\ state' = "in" /\ lines' = lines
        /\ spans' = spans
    BY <1>4 DEF ReadLineEnter
  <2> SUFFICES ASSUME ~Prompted PROVE Stream'
    BY <2>1 DEF Stream, Prompted
  <2>2. kATBufferCur = p_read
    <3>1. ASSUME kATBufferCur < p_read PROVE FALSE
      <4>1. kATBufferCur \in Cells
        BY DEF Inv, TypeOK
      <4>2. kATBuffer[kATBufferCur] = bytes[Len(bytes) - p_read + kATBufferCur + 1]
        BY <1>1, <1>3, <3>1, <4>1 DEF HoldsEnd
      <4>3. Len(bytes) - p_read + kATBufferCur + 1 \in 1..Len(bytes)
        BY <1>1, <1>3, <3>1
      <4>4. "nul" \in Byte
        BY <1>1, <1>4, <4>2, <4>3
      <4> QED
        BY <4>4, TextAssumption DEF Byte
    <3> QED
      BY <1>1, <1>3, <3>1
  <2>3. Pos' = Len(bytes) /\ Len(bytes) - p_read + kATBufferCur = Len(bytes)
    BY <1>1, <1>2, <2>1, <2>2 DEF Pos
  <2>4. ReadUpTo(bytes, Len(bytes), lines, spans, ditched)
    BY <1>3, <2>3
  <2>5. HoldsEnd(kATBuffer', 0, 0, bytes)
    <3>1. \A j \in Cells : ~ (j < 0)
      BY CellNumbers
    <3> QED
      BY <1>1, <3>1 DEF HoldsEnd
  <2>6. \A k \in Len(bytes) + 1..Len(bytes) : bytes[k] # "nl"
    BY <1>1
  <2> QED
    BY <1>2, <2>1, <2>3, <2>4, <2>5, <2>6 DEF Stream
<1>5. CASE kATBuffer[kATBufferCur] # "nul"
  <2> DEFINE i == SkipNewlines(kATBuffer, kATBufferCur)
             e == AtFindNextEOL(kATBuffer, i)
             o == Len(bytes) - p_read
  <2>1. ASSUME ~Prompted
        PROVE  /\ i \in Nat /\ i \in Cells /\ i <= p_read /\ e \in Nat /\ o \in Int
               /\ Frame(kATBuffer, kATBufferCur, p_read, bytes, o, i, e)
    <3>1. i \in Cells /\ i <= p_read
      BY <1>1, <1>3, <2>1, SkipStops
    <3>2. i \in Nat
      BY <3>1, CellNumbers
    <3>3. e \in Nat
      <4> HIDE DEF i
      <4> QED
        BY <1>1, <1>3, <2>1, <3>1, <3>2, EOLNumber
    <3>4. Frame(kATBuffer, kATBufferCur, p_read, bytes, o, i, e)
      BY Zenon, <1>1, <1>3, <2>1 DEF Frame
    <3>5. o \in Int
      BY <1>1
    <3> QED
      BY <3>1, <3>2, <3>3, <3>4, <3>5
  <2>2. /\ e # None => ReturnLine(kATBuffer, i, e, o) /\ p_read' = p_read
        /\ e = None =>
             /\ kATBuffer' = MoveUp(kATBuffer, i)
             /\ p_read' = FirstCell(kATBuffer, i, {"nul"}) - i
             /\ kATBufferCur' = 0 /\ state' = "in" /\ lines' = lines /\ spans' = spans
    BY <1>5 DEF ReadLineEnter
  <2>3. Len(bytes) = o + p_read
    BY <1>1
  <2>4. ASSUME ~Prompted PROVE ReadUpTo(bytes, o + kATBufferCur, lines, spans, ditched)
    BY <1>3, <2>4
  <2> HIDE DEF i, e, o
  <2>5. CASE e # None
    <3>1. ReturnLine(kATBuffer, i, e, o) /\ p_read' = p_read
      BY <2>2, <2>5
    <3>2. PICK l : lines' = Append(lines, l)
      BY <3>1 DEF ReturnLine
    <3>3. Prompted => Prompted'
      BY <1>1, <3>2, PromptStays
    <3> SUFFICES ASSUME ~Prompted' PROVE Stream'
      BY DEF Stream
    <3>4. Then(bytes, p_read, ditched)
      BY <1>2, <3>1 DEF Then
    <3> QED
      BY ZenonT(30), <1>1, <2>1, <2>4, <2>5, <3>1, <3>3, <3>4, ReturnStream
  <2>6. CASE e = None
    <3> DEFINE f == FirstCell(kATBuffer, i, {"nul"})
    <3>1. /\ kATBuffer' = [j \in Cells |-> IF j <= f - i THEN kATBuffer[i + j]
                                           ELSE kATBuffer[j]]
          /\ p_read' = f - i /\ kATBufferCur' = 0 /\ state' = "in" /\ lines' = lines
          /\ spans' = spans
      BY <2>2, <2>6 DEF MoveUp
    <3> SUFFICES ASSUME ~Prompted PROVE Stream'
      BY <3>1 DEF Stream, Prompted
    <3>2. /\ i \in Nat /\ i \in Cells /\ i <= p_read /\ e \in Nat /\ o \in Int
          /\ Frame(kATBuffer, kATBufferCur, p_read, bytes, o, i, e)
      BY <2>1
    <3>3. /\ ReadUpTo(bytes, o + i, lines, spans, ditched)
          /\ \A k \in o + i + 1..Len(bytes) : bytes[k] # "nl"
          /\ HoldsEnd(kATBuffer, i, p_read, bytes)
      <4>1. Waiting(kATBuffer, i, p_read, bytes, o, ditched)
        BY <1>1, <2>4, <2>6, <3>2, LoopStream
      <4> QED
        BY <4>1 DEF Waiting
    <3>4. /\ f \in Cells /\ f \in Nat /\ i <= f /\ f <= p_read /\ kATBuffer[f] = "nul"
      BY Zenon, <1>1, <1>3, <3>2, FirstCellFound, CellNumbers
    <3> HIDE DEF f
    <3>5. f = p_read
      <4>1. ASSUME f < p_read PROVE FALSE
        <5>1. kATBuffer[f] = bytes[Len(bytes) - p_read + f + 1]
          BY <3>3, <3>4, <4>1 DEF HoldsEnd
        <5>2. Len(bytes) - p_read + f + 1 \in 1..Len(bytes)
          BY <1>1, <1>3, <3>4, <4>1
        <5>3. "nul" \in Byte
          BY <1>1, <3>4, <5>1, <5>2
        <5> QED
          BY <5>3, TextAssumption DEF Byte
      <4> QED
        BY <1>1, <3>4, <4>1
    <3>6. p_read' \in Nat /\ Pos' = o + i /\ p_read' = p_read - i
      <4>1. Pos' = Len(bytes) - (p_read - i) + 0
        BY <1>2, <3>1, <3>5 DEF Pos
      <4> QED
        BY <1>1, <2>3, <3>1, <3>2, <3>5, <4>1
    <3>7. HoldsEnd(kATBuffer', 0, p_read', bytes)
      <4>1. p_read' <= Len(bytes)
        BY <1>1, <1>3, <3>2, <3>6
      <4>2. ASSUME NEW j \in Cells, j < p_read'
            PROVE  kATBuffer'[j] = bytes[Len(bytes) - p_read' + j + 1]
        <5>1. /\ j \in Nat /\ j <= f - i /\ i + j \in Nat /\ i <= i + j /\ i + j < p_read
              /\ Len(bytes) - p_read + (i + j) + 1 = Len(bytes) - p_read' + j + 1
          <6>1. j \in Nat
            BY CellNumbers
          <6> QED
            BY <1>1, <3>2, <3>5, <3>6, <4>2, <6>1
        <5>2. i + j \in Cells
          BY <1>1, <5>1, CellNumbers
        <5>3. kATBuffer'[j] = kATBuffer[i + j]
          BY Zenon, <3>1, <5>1
        <5>4. kATBuffer[i + j] = bytes[Len(bytes) - p_read + (i + j) + 1]
          BY Zenon, <3>3, <5>1, <5>2 DEF HoldsEnd
        <5> QED
          BY Zenon, <5>1, <5>3, <5>4
      <4> QED
        BY Zenon, <4>1, <4>2 DEF HoldsEnd
    <3> QED
      BY <1>2, <3>1, <3>3, <3>6, <3>7 DEF Stream
  <2> QED
    BY <2>5, <2>6
<1> QED
  BY <1>4, <1>5

(* The buffer with count bytes read into it from cell from on, and the \0 after them. *)
Filled(old, from, count, data) ==
  [j \in Cells |-> IF j \in from..from + count - 1 THEN data[j - from + 1]
                   ELSE IF j = from + count THEN "nul" ELSE old[j]]

(* What read() has put in the buffer ends the stream, as what was there did. *)
LEMMA FilledHolds ==
  ASSUME NEW old \in Buffers, NEW from \in Nat, NEW cur \in Nat, cur <= from,
         NEW count \in Nat, from + count <= MAX_AT_RESPONSE,
         NEW data \in [1..count -> Byte], NEW s \in Seq(Byte), HoldsEnd(old, cur, from, s)
  PROVE  /\ Filled(old, from, count, data) \in Buffers
         /\ Filled(old, from, count, data)[from + count] = "nul"
         /\ HoldsEnd(Filled(old, from, count, data), cur, from + count, s \o data)
<1> DEFINE t == s \o data
           new == Filled(old, from, count, data)
           end == from + count
<1>1. /\ data \in Seq(Byte) /\ Len(data) = count /\ Len(s) \in Nat
      /\ Len(t) = Len(s) + count
      /\ \A k \in 1..Len(s) : t[k] = s[k]
      /\ \A k \in 1..count : t[Len(s) + k] = data[k]
  <2>1. data \in Seq(Byte) /\ Len(data) = count
    OBVIOUS
  <2> QED
    BY <2>1
<1>2. end \in Nat /\ end \in Cells /\ end \notin from..from + count - 1
  BY CellNumbers
<1>3. new = [j \in Cells |-> IF j \in from..from + count - 1 THEN data[j - from + 1]
                             ELSE IF j = end THEN "nul" ELSE old[j]]
  BY DEF Filled
<1> HIDE DEF new, t
<1>4. new \in Buffers
  <2> SUFFICES ASSUME NEW j \in Cells
               PROVE  (IF j \in from..from + count - 1 THEN data[j - from + 1]
                       ELSE IF j = end THEN "nul" ELSE old[j]) \in Byte \cup {"nul"}
    BY <1>3 DEF Buffers
  <2>1. CASE j \in from..from + count - 1
    <3>1. j - from + 1 \in 1..count
      BY <2>1
    <3> QED
      BY <2>1, <3>1
  <2>2. CASE j \notin from..from + count - 1
    BY <2>2 DEF Buffers
  <2> QED
    BY <2>1, <2>2
<1>5. new[end] = "nul"
  BY <1>2, <1>3
<1>6. ASSUME NEW j \in Cells, cur <= j, j < end PROVE new[j] = t[Len(t) - end + j + 1]
  <2>1. j \in Nat /\ Len(t) - end + j + 1 = Len(s) - from + j + 1
    BY <1>1, CellNumbers
  <2>2. CASE j < from
    <3>1. /\ j \notin from..from + count - 1 /\ j # end
          /\ Len(s) - from + j + 1 \in 1..Len(s)
      BY <1>1, <2>1, <2>2 DEF HoldsEnd
    <3>2. new[j] = old[j]
      BY Zenon, <1>3, <3>1
    <3>3. old[j] = s[Len(s) - from + j + 1]
      BY Zenon, <1>6, <2>2 DEF HoldsEnd
    <3> QED
      BY Zenon, <1>1, <2>1, <3>1, <3>2, <3>3
  <2>3. CASE ~(j < from)
    <3>1. /\ j \in from..from + count - 1 /\ j - from + 1 \in 1..count
          /\ Len(s) - from + j + 1 = Len(s) + (j - from + 1)
      BY <1>1, <1>6, <2>1, <2>3
    <3>2. new[j] = data[j - from + 1]
      BY Zenon, <1>3, <3>1
    <3>3. t[Len(s) + (j - from + 1)] = data[j - from + 1]
      BY Zenon, <1>1, <3>1
    <3> QED
      BY Zenon, <2>1, <3>1, <3>2, <3>3
  <2> QED
    BY <2>2, <2>3
<1>7. end <= Len(t)
  BY <1>1 DEF HoldsEnd
<1>8. HoldsEnd(new, cur, end, t)
  BY Zenon, <1>6, <1>7 DEF HoldsEnd
<1> QED
  BY <1>4, <1>5, <1>8 DEF new, t

(* One read of the loop. *)
LEMMA ReadBytesStream ==
  ASSUME Inv, Stream, NEW count \in 1..MAX_AT_RESPONSE, ReadBytes(count)
  PROVE  Stream'
<1> DEFINE from == IF IsFull THEN 0 ELSE p_read
           cur == IF IsFull THEN 0 ELSE kATBufferCur
           gone == ditched \/ IsFull
           o == Len(bytes) - from
<1>1. state = "in" /\ count <= MAX_AT_RESPONSE - from /\ ditched' = gone
  BY DEF ReadBytes, Room
<1>2. PICK data \in [1..count -> Byte] :
        LET buf == [j \in Cells |-> IF j \in from..from + count - 1 THEN data[j - from + 1]
                                    ELSE IF j = from + count THEN "nul" ELSE kATBuffer[j]]
            i == SkipNewlines(buf, cur)
            e == AtFindNextEOL(buf, i)
        IN  /\ bytes' = bytes \o data
            /\ p_read' = from + count
            /\ IF e # None
                 THEN ReturnLine(buf, i, e, Len(bytes) - from)
                 ELSE /\ kATBuffer' = buf /\ kATBufferCur' = i
                      /\ UNCHANGED <<state, lines, spans>>
  BY Zenon DEF ReadBytes
<1> DEFINE buf == Filled(kATBuffer, from, count, data)
           s == bytes \o data
           end == from + count
           i == SkipNewlines(buf, cur)
           e == AtFindNextEOL(buf, i)
<1>3. /\ bytes' = s /\ p_read' = end
      /\ e # None => ReturnLine(buf, i, e, o)
      /\ e = None => /\ kATBuffer' = buf /\ kATBufferCur' = i
                     /\ state' = state /\ lines' = lines /\ spans' = spans
  BY Zenon, <1>2 DEF Filled
<1>4. TypeOK /\ Len(spans) = Len(lines)
  BY DEF Inv
<1>5. /\ kATBuffer \in Buffers /\ kATBufferCur \in Cells /\ p_read \in 0..MAX_AT_RESPONSE
      /\ bytes \in Seq(Byte) /\ ditched \in BOOLEAN /\ spans \in Seq(Places)
      /\ Len(bytes) \in Nat /\ kATBufferCur \in Nat /\ p_read \in Nat
  BY <1>4, CellNumbers DEF TypeOK, Buffers, Places
<1>6. kATBufferCur <= p_read
  BY <1>1 DEF Inv
<1>7. /\ from \in 0..MAX_AT_RESPONSE /\ from \in Nat /\ cur \in Nat /\ cur <= from
      /\ count \in Nat /\ from + count <= MAX_AT_RESPONSE /\ o \in Int
      /\ gone \in BOOLEAN
  BY <1>1, <1>5, <1>6, CellNumbers
<1>8. s \in Seq(Byte) /\ Len(s) \in Nat /\ Len(s) = Len(bytes) + count
  <2>1. data \in Seq(Byte) /\ Len(data) = count
    BY <1>7
  <2>2. s \in Seq(Byte) /\ Len(s) = Len(bytes) + Len(data)
    BY Zenon, <1>5, <2>1, ConcatProperties
  <2> HIDE DEF s
  <2> QED
    BY <2>1, <2>2, LenProperties
<1>9. Prompted => Prompted'
  <2>1. CASE e = None
    BY <1>3, <2>1 DEF Prompted
  <2>2. CASE e # None
    <3>1. ReturnLine(buf, i, e, o)
      BY <1>3, <2>2
    <3>2. PICK l : lines' = Append(lines, l)
      BY <3>1 DEF ReturnLine
    <3> QED
      BY <1>4, <3>2, PromptStays
  <2> QED
    BY <2>1, <2>2
<1> SUFFICES ASSUME ~Prompted, ~Prompted' PROVE Stream'
  BY <1>9 DEF Stream
<1>10. /\ HoldsEnd(kATBuffer, kATBufferCur, p_read, bytes) /\ p_read <= Len(bytes)
       /\ ReadUpTo(bytes, Pos, lines, spans, ditched)
  BY DEF Stream, HoldsEnd
<1>11. Pos \in Nat /\ Pos <= Len(bytes)
  BY <1>5, <1>6, <1>10 DEF Pos
<1>12. ReadUpTo(bytes, o + cur, lines, spans, gone) /\ o + cur \in Nat /\ o + cur <= Len(bytes)
  <2>1. CASE IsFull
    <3>1. o + cur = Len(bytes) /\ gone
      BY <1>5, <2>1
    <3> HIDE DEF o, cur, gone
    <3>2. ReadUpTo(bytes, Len(bytes), lines, spans, gone)
      BY Zenon, <1>5, <1>7, <1>10, <1>11, <3>1, ReadDrops
    <3>3. Len(bytes) <= Len(bytes)
      BY <1>5
    <3> QED
      BY Zenon, <1>5, <3>1, <3>2, <3>3
  <2>2. CASE ~IsFull
    <3>1. o + cur = Pos /\ gone = ditched
      BY <1>5, <2>2 DEF Pos
    <3> QED
      BY <1>10, <1>11, <3>1
  <2> QED
    BY <2>1, <2>2
<1>13. HoldsEnd(kATBuffer, cur, from, bytes)
  <2>1. CASE IsFull
    <3>1. \A j \in Cells : ~(j < 0)
      BY CellNumbers
    <3> QED
      BY <1>5, <2>1, <3>1 DEF HoldsEnd
  <2>2. CASE ~IsFull
    BY <1>10, <2>2
  <2> QED
    BY <2>1, <2>2
<1> HIDE DEF from, cur, gone, o
<1>15. buf \in Buffers /\ buf[end] = "nul" /\ HoldsEnd(buf, cur, end, s)
  BY <1>5, <1>7, <1>13, FilledHolds
<1>16. ReadUpTo(s, o + cur, lines, spans, gone)
  <2>1. data \in Seq(Byte)
    BY <1>7
  <2> QED
    BY <1>5, <1>7, <1>12, <2>1, ReadExtends
<1>17. /\ end \in Nat /\ end \in 0..MAX_AT_RESPONSE /\ end \in Cells /\ cur <= end
       /\ o = Len(s) - end
  BY <1>5, <1>7, <1>8, CellNumbers DEF o
<1> HIDE DEF buf, s, end
<1>18. i \in Nat /\ i <= end
  <2>1. i \in Cells /\ i <= end
    BY <1>7, <1>15, <1>17, SkipStops
  <2> QED
    BY <2>1, CellNumbers
<1>19. Frame(buf, cur, end, s, o, i, e)
  BY Zenon, <1>15, <1>17 DEF Frame
<1>20. e \in Nat
  <2> HIDE DEF i
  <2> QED
    BY <1>15, <1>17, <1>18, EOLNumber
<1> HIDE DEF i, e
<1>21. CASE e # None
  <2>1. ReturnLine(buf, i, e, o) /\ Then(s, end, gone)
    BY <1>1, <1>3, <1>21 DEF Then
  <2> QED
    BY ZenonT(30), <1>4, <1>7, <1>8, <1>16, <1>17, <1>18, <1>19, <1>20, <1>21, <2>1, ReturnStream
<1>22. CASE e = None
  <2>1. /\ ReadUpTo(s, o + i, lines, spans, gone)
        /\ \A k \in o + i + 1..Len(s) : s[k] # "nl"
        /\ HoldsEnd(buf, i, end, s)
    <3>1. Waiting(buf, i, end, s, o, gone)
      BY <1>4, <1>7, <1>8, <1>16, <1>17, <1>18, <1>19, <1>20, <1>22, LoopStream
    <3> QED
      BY <3>1 DEF Waiting
  <2>2. /\ kATBuffer' = buf /\ kATBufferCur' = i /\ lines' = lines /\ spans' = spans
        /\ bytes' = s /\ p_read' = end /\ ditched' = gone
    BY <1>1, <1>3, <1>22
  <2>3. Pos' = o + i
    BY <1>17, <2>2 DEF Pos
  <2> QED
    BY Zenon, <2>1, <2>2, <2>3 DEF Stream
<1> QED
  BY <1>21, <1>22

(* A read that fails. *)
LEMMA ReadFailsStream == ASSUME Inv, Stream, ReadFails PROVE Stream'
<1>1. /\ state' = "closed" /\ bytes' = bytes /\ lines' = lines /\ spans' = spans
      /\ ditched' = (ditched \/ IsFull) /\ state = "in"
  BY DEF ReadFails
<1>2. TypeOK /\ kATBufferCur <= p_read
  BY <1>1 DEF Inv
<1>3. /\ kATBufferCur \in Nat /\ p_read \in Nat /\ bytes \in Seq(Byte) /\ Len(bytes) \in Nat
      /\ ditched \in BOOLEAN /\ spans \in Seq(Places)
  BY <1>2, CellNumbers DEF TypeOK, Places
<1> SUFFICES ASSUME ~Prompted PROVE Stream'
  BY Zenon, <1>1 DEF Stream, Prompted
<1>4. /\ HoldsEnd(kATBuffer, kATBufferCur, p_read, bytes) /\ p_read <= Len(bytes)
      /\ ReadUpTo(bytes, Pos, lines, spans, ditched)
  BY DEF Stream, HoldsEnd
<1>5. Pos \in Nat /\ Pos <= Len(bytes)
  BY <1>2, <1>3, <1>4 DEF Pos
<1>6. CASE IsFull
  <2>1. kATBufferCur' = 0 /\ p_read' = 0 /\ ditched' /\ ditched' \in BOOLEAN
    BY Zenon, <1>1, <1>6 DEF ReadFails
  <2>2. Pos' = Len(bytes)
    BY <1>1, <1>3, <2>1 DEF Pos
  <2>3. ReadUpTo(bytes, Len(bytes), lines, spans, ditched')
    BY Zenon, <1>3, <1>4, <1>5, <2>1, ReadDrops
  <2>4. HoldsEnd(kATBuffer', 0, 0, bytes)
    <3>1. \A j \in Cells : ~ (j < 0)
      BY CellNumbers
    <3> QED
      BY <1>3, <3>1 DEF HoldsEnd
  <2> QED
    BY <1>1, <2>1, <2>2, <2>3, <2>4 DEF Stream
<1>7. CASE ~IsFull
  <2>1. /\ kATBufferCur' = kATBufferCur /\ p_read' = p_read /\ kATBuffer' = kATBuffer
        /\ ditched' = ditched
    BY <1>1, <1>3, <1>7 DEF ReadFails
  <2>2. Pos' = Pos
    BY <1>1, <2>1 DEF Pos
  <2> QED
    BY <1>1, <1>4, <2>1, <2>2 DEF Stream
<1> QED
  BY <1>6, <1>7

-----------------------------------------------------------------------------
(* The theorems. *)

(* The buffer starts empty. *)
LEMMA InitInv == Init => Inv
<1> SUFFICES ASSUME Init PROVE Inv
  OBVIOUS
<1>1. TypeOK
  BY BufferAssumption DEF Init, TypeOK, Cells
<1> QED
  BY <1>1, CellNumbers DEF Init, Inv, CursorInData, Cells

(* Every step keeps the invariant. *)
LEMMA NextInv == Inv /\ [Next]_vars => Inv'
<1> SUFFICES ASSUME Inv, [Next]_vars PROVE Inv'
  OBVIOUS
<1>1. CASE UNCHANGED vars
  BY <1>1 DEF vars, Inv, TypeOK, CursorInData, Prompted
<1> QED
  BY <1>1, EnterInv, ReadBytesInv, ReadFailsInv DEF Next

(* Nothing was read at the start. *)
LEMMA InitStream == Init => Stream
<1> SUFFICES ASSUME Init PROVE Stream
  OBVIOUS
<1>1. bytes = <<>> /\ lines = <<>> /\ spans = <<>> /\ p_read = 0 /\ kATBufferCur = 0
  BY DEF Init
<1>2. Len(bytes) = 0 /\ Len(spans) = 0 /\ Pos = 0
  BY <1>1 DEF Pos
<1>3. \A j \in Cells : ~(j < 0)
  BY CellNumbers
<1>4. HoldsEnd(kATBuffer, kATBufferCur, p_read, bytes)
  BY <1>1, <1>2, <1>3 DEF HoldsEnd
<1>5. ReadUpTo(bytes, Pos, lines, spans, ditched)
  BY <1>2 DEF ReadUpTo
<1>6. \A k \in Pos + 1..Len(bytes) : bytes[k] # "nl"
  BY <1>2
<1> QED
  BY <1>4, <1>5, <1>6 DEF Stream

(* Every step keeps what was made of the stream. *)
LEMMA NextStream == Inv /\ Stream /\ [Next]_vars => Stream'
<1> SUFFICES ASSUME Inv, Stream, [Next]_vars PROVE Stream'
  OBVIOUS
<1>1. CASE UNCHANGED vars
  BY <1>1 DEF vars, Stream, Prompted, Pos
<1> QED
  BY <1>1, EnterStream, ReadBytesStream, ReadFailsStream DEF Next

(* The invariant says of the lines returned what LinesAreTails says. *)
LEMMA StreamTails == ASSUME Inv, Stream PROVE LinesAreTails
<1> SUFFICES ASSUME ~Prompted
             PROVE  /\ \A n \in 1..Len(lines) :
                         /\ Span(n) # {} /\ Span(n) \subseteq 1..Len(bytes) - 1
                         /\ lines[n] = SubSeq(bytes, spans[n].from, spans[n].to)
                         /\ bytes[spans[n].to + 1] = "nl"
                         /\ \A k \in Span(n) : bytes[k] # "nl"
                    /\ \A m, n \in 1..Len(lines) : m < n => spans[m].to < spans[n].from
  BY DEF LinesAreTails
<1>1. ReadUpTo(bytes, Pos, lines, spans, ditched) /\ Len(spans) = Len(lines)
  BY DEF Stream, Inv
<1>2. spans \in Seq(Places) /\ Len(bytes) \in Nat
  BY DEF Inv, TypeOK, Places
<1>3. ASSUME NEW n \in 1..Len(lines)
      PROVE  /\ Span(n) # {} /\ Span(n) \subseteq 1..Len(bytes) - 1
             /\ lines[n] = SubSeq(bytes, spans[n].from, spans[n].to)
             /\ bytes[spans[n].to + 1] = "nl"
             /\ \A k \in Span(n) : bytes[k] # "nl"
  <2>1. IsTail(bytes, lines[n], spans[n])
    BY <1>1 DEF ReadUpTo
  <2>2. spans[n].from \in Int /\ spans[n].to \in Int
    <3>1. spans[n] \in Places
      BY <1>1, <1>2
    <3> QED
      BY <3>1 DEF Places
  <2>3. spans[n].from >= 1 /\ spans[n].from <= spans[n].to /\ spans[n].to < Len(bytes)
    BY <2>1 DEF IsTail
  <2>4. spans[n].from \in Span(n) /\ Span(n) \subseteq 1..Len(bytes) - 1
    BY <1>2, <2>2, <2>3 DEF Span
  <2> QED
    BY <2>1, <2>4 DEF IsTail, Span
<1>4. \A m, n \in 1..Len(lines) : m < n => spans[m].to < spans[n].from
  BY <1>1 DEF ReadUpTo
<1> QED
  BY <1>3, <1>4

(* And what LinesOfStream says. *)
LEMMA StreamLines == ASSUME Inv, Stream PROVE LinesOfStream
<1> SUFFICES ASSUME ~ditched, ~Prompted
             PROVE  /\ \A n \in 1..Len(lines) :
                         spans[n].from = 1 \/ bytes[spans[n].from - 1] = "nl"
                    /\ \A k \in 1..Len(bytes) :
                         \/ bytes[k] = "nl" \/ \E n \in 1..Len(lines) : k \in Span(n)
                         \/ /\ \A n \in 1..Len(lines) : spans[n].to < k
                            /\ state = "in" => \A j \in k..Len(bytes) : bytes[j] # "nl"
  BY DEF LinesOfStream
<1>1. ReadUpTo(bytes, Pos, lines, spans, ditched) /\ Len(spans) = Len(lines)
  BY DEF Stream, Inv
<1>2. spans \in Seq(Places) /\ Len(bytes) \in Nat /\ Pos \in Int
  BY CellNumbers DEF Inv, TypeOK, Places, Pos
<1>3. \A n \in 1..Len(lines) : spans[n].from \in Int /\ spans[n].to \in Int
  <2>1. \A n \in 1..Len(lines) : spans[n] \in Places
    BY <1>1, <1>2
  <2> QED
    BY <2>1 DEF Places
<1>4. \A n \in 1..Len(lines) : spans[n].from = 1 \/ bytes[spans[n].from - 1] = "nl"
  BY <1>1 DEF ReadUpTo
<1>5. ASSUME NEW k \in 1..Len(bytes), k <= Pos
      PROVE  bytes[k] = "nl" \/ \E n \in 1..Len(lines) : k \in Span(n)
  <2>1. k \in 1..Pos
    BY <1>2, <1>5
  <2>2. bytes[k] = "nl" \/ Covered(spans, k)
    BY <1>1, <2>1 DEF ReadUpTo
  <2> QED
    BY <1>1, <1>3, <2>2 DEF Covered, Span
<1>6. ASSUME NEW k \in 1..Len(bytes), ~(k <= Pos)
      PROVE  /\ \A n \in 1..Len(lines) : spans[n].to < k
             /\ state = "in" => \A j \in k..Len(bytes) : bytes[j] # "nl"
  <2>1. \A n \in 1..Len(lines) : spans[n].to < Pos
    BY <1>1 DEF ReadUpTo
  <2>2. \A n \in 1..Len(lines) : spans[n].to < k
    BY <1>2, <1>3, <1>6, <2>1
  <2>3. \A j \in k..Len(bytes) : j \in Pos + 1..Len(bytes)
    BY <1>2, <1>6
  <2> QED
    BY <2>2, <2>3 DEF Stream
<1> QED
  BY <1>4, <1>5, <1>6

(***************************************************************************)
(* The cursor of ReadLine is in kATBuffer or one past it, whatever bytes   *)
(* arrive and however they are split over read() calls.                    *)
(***************************************************************************)
THEOREM ReaderTypes == Spec => []TypeOK
<1>1. Inv => TypeOK
  BY DEF Inv
<1> QED
  BY <1>1, InitInv, NextInv, PTL DEF Spec

(***************************************************************************)
(* The comment at the end of ReadLine, that the cursor is at or before     *)
(* p_read and there is a \0 there, holds until it returns the prompt.      *)
(***************************************************************************)
THEOREM CursorCorrect == Spec => []CursorInData
<1>1. Inv => CursorInData
  BY DEF Inv
<1> QED
  BY <1>1, InitInv, NextInv, PTL DEF Spec

(***************************************************************************)
(* ReadLine returns tails of lines of the stream, in order and none twice, *)
(* also across a dropped buffer, until it returns the prompt.              *)
(***************************************************************************)
THEOREM TailsCorrect == Spec => []LinesAreTails
<1>1. Inv /\ Stream => LinesAreTails
  BY StreamTails
<1> QED
  BY <1>1, InitInv, InitStream, NextInv, NextStream, PTL DEF Spec

(***************************************************************************)
(* ReadLine returns the lines of the stream whole, in order and without    *)
(* leaving one out, however the bytes are split over read() calls, as long *)
(* as the buffer was never full and no prompt was returned.                *)
(***************************************************************************)
THEOREM StreamCorrect == Spec => []LinesOfStream
<1>1. Inv /\ Stream => LinesOfStream
  BY StreamLines
<1> QED
  BY <1>1, InitInv, InitStream, NextInv, NextStream, PTL DEF Spec

=============================================================================
