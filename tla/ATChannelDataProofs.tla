------------------------- MODULE ATChannelDataProofs -------------------------
(***************************************************************************)
(* Proofs about the data that pass through ATChannel: the responses, which *)
(* are allocated and freed, and the lines passed to unsol_handler_.  Both  *)
(* rest on the invariant Inv of ATChannelProofs.                           *)
(***************************************************************************)
EXTENDS ATChannelProofs

(***************************************************************************)
(* Who owns which response: the pending one and those handed out are       *)
(* different allocations, and a thread starts its next command only        *)
(* without a response in hand.                                             *)
(***************************************************************************)
HeapInv ==
  /\ ResponsesFreedOnce
  /\ rsp_ # Null => rsp_.id <= allocs /\ \A s \in Senders : out[s] # Null => out[s].id # rsp_.id
  /\ \A s \in Senders : out[s] # Null =>
       /\ out[s].id <= allocs
       /\ pc[s] \in {"idle", "return"}
       /\ pc[s] = "return" => cmd[s].out

(* The members of Referenced, one by one. *)
LEMMA ReferencedDef ==
  ASSUME NEW n
  PROVE  n \in Referenced <=> \/ rsp_ # Null /\ n = rsp_.id
                             \/ \E s \in Senders : out[s] # Null /\ n = out[s].id
BY DEF Referenced

(* Initially nothing is allocated. *)
LEMMA InitHeap == Init => HeapInv
BY DEF Init, HeapInv, ResponsesFreedOnce, Referenced

(* The types that the heap proofs use. *)
LEMMA HeapTypes ==
  ASSUME Inv
  PROVE  /\ allocs \in Nat /\ live \subseteq Nat
         /\ rsp_ # Null => rsp_ \in Response /\ rsp_.id \in Nat
         /\ \A s \in Senders : out[s] # Null => out[s] \in Response /\ out[s].id \in Nat
BY DEF Inv, TypeOK, Response

(* BeginCommand: the new response has a number of its own. *)
LEMMA BeginHeap == ASSUME Inv, HeapInv, NEW s \in Senders, Begin(s) PROVE HeapInv'
<1> USE DEF Inv, HeapInv, Begin, readerVars
<1>0. mutex_ = s
  BY OneInside DEF Inside
<1>1. rsp_ = Null
  BY <1>0 DEF RspInv, Pending
<1>2. BeginCommand(s)
  BY <1>1
<1>3. allocs' = allocs + 1 /\ rsp_' # Null /\ rsp_'.id = allocs + 1 /\ out' = out
  BY <1>2, AllocType, HeapTypes DEF BeginCommand
<1>4. live' = live \cup {allocs + 1} /\ misuse' = misuse
  BY <1>2 DEF BeginCommand
<1>5. \A t \in Senders : pc[t] \in {"idle", "return"} => pc'[t] = pc[t]
  BY <1>2 DEF BeginCommand, TypeOK
<1>6. live' = Referenced'
  BY <1>1, <1>3, <1>4 DEF ResponsesFreedOnce, Referenced
<1> QED
  BY <1>1, <1>3, <1>4, <1>5, <1>6, HeapTypes DEF ResponsesFreedOnce

(* Wake: the time-out frees the pending response and no other. *)
LEMMA WakeHeap == ASSUME Inv, HeapInv, NEW s \in Senders, Wake(s) PROVE HeapInv'
<1> USE DEF Inv, HeapInv, Wake, readerVars
<1>1. out' = out /\ allocs' = allocs /\ cmd' = cmd
  OBVIOUS
<1>2. \A t \in Senders : pc[t] \in {"idle", "return"} => pc'[t] = pc[t]
  BY DEF TypeOK
<1>3. CASE ~stale[s]
  BY <1>1, <1>2, <1>3 DEF ResponsesFreedOnce, Referenced
<1>4. CASE stale[s]
  <2>1. rsp_ # Null
    BY DEF RspInv, Pending
  <2>2. rsp_' = Null /\ live' = live \ {rsp_.id} /\ misuse' = (misuse \/ rsp_.id \notin live)
    BY <1>4, <2>1 DEF ClearPendingCommand, FreeResponce
  <2>3. rsp_.id \in live
    BY <2>1, ReferencedDef DEF ResponsesFreedOnce
  <2>4. ASSUME NEW n PROVE n \in live' <=> n \in Referenced'
    <3>1. n \in Referenced' <=> \E t \in Senders : out[t] # Null /\ n = out[t].id
      BY <1>1, <2>2 DEF Referenced
    <3>2. n \in live' <=> n \in Referenced /\ n # rsp_.id
      BY <2>2 DEF ResponsesFreedOnce
    <3> QED
      BY <2>1, <3>1, <3>2, ReferencedDef
  <2>5. ResponsesFreedOnce'
    BY ZenonT(30), <1>1, <2>2, <2>3, <2>4 DEF ResponsesFreedOnce
  <2> QED
    BY <1>1, <1>2, <2>2, <2>5
<1> QED
  BY <1>3, <1>4

(* Collect: the response changes hands or is freed. *)
LEMMA CollectHeap == ASSUME Inv, HeapInv, NEW s \in Senders, Collect(s) PROVE HeapInv'
<1> USE DEF Inv, HeapInv, Collect, readerVars
<1>1. rsp_ # Null /\ rsp_ \in Response
  BY DEF RspInv, Pending, TypeOK
<1>2. out[s] = Null
  OBVIOUS
<1>3. allocs' = allocs /\ cmd' = cmd /\ rsp_' = Null
  BY DEF HandOver
<1>4. \A t \in Senders : pc'[t] = IF t = s THEN "return" ELSE pc[t]
  BY DEF TypeOK
<1>5. CASE cmd[s].out
  <2> DEFINE r == ReverseIntermediates(rsp_)
  <2>1. r # Null /\ r.id = rsp_.id
    BY <1>1, ReverseType
  <2>2. live' = live /\ misuse' = misuse /\ out' = [out EXCEPT ![s] = r]
    BY <1>5 DEF HandOver
  <2>3. \A t \in Senders : out'[t] = IF t = s THEN r ELSE out[t]
    BY <2>2 DEF TypeOK
  <2> HIDE DEF r
  <2>4. ASSUME NEW n PROVE n \in live' <=> n \in Referenced'
    <3>1. n \in live' <=> n \in Referenced
      BY <2>2 DEF ResponsesFreedOnce
    <3>2. n \in Referenced' <=> \E t \in Senders : out'[t] # Null /\ n = out'[t].id
      BY <1>3 DEF Referenced
    <3>3. n \in Referenced' <=> \/ n = rsp_.id
                               \/ \E t \in Senders : out[t] # Null /\ n = out[t].id
      BY <1>2, <2>1, <2>3, <3>2
    <3> QED
      BY <1>1, <3>1, <3>3, ReferencedDef
  <2>5. \A t, u \in Senders :
          out'[t] # Null /\ out'[u] # Null /\ out'[t].id = out'[u].id => t = u
    BY <1>1, <2>1, <2>3 DEF ResponsesFreedOnce
  <2>6. ResponsesFreedOnce'
    BY Zenon, <2>2, <2>4, <2>5 DEF ResponsesFreedOnce
  <2>7. \A t \in Senders : out'[t] # Null =>
          /\ out'[t].id <= allocs' /\ pc'[t] \in {"idle", "return"}
          /\ pc'[t] = "return" => cmd'[t].out
    BY <1>1, <1>3, <1>4, <1>5, <2>1, <2>3
  <2> QED
    BY <1>3, <2>6, <2>7
<1>6. CASE ~cmd[s].out
  <2>1. out' = out /\ live' = live \ {rsp_.id} /\ misuse' = (misuse \/ rsp_.id \notin live)
    BY <1>1, <1>6 DEF HandOver, FreeResponce
  <2>2. rsp_.id \in live
    BY <1>1, ReferencedDef DEF ResponsesFreedOnce
  <2>3. live' = Referenced'
    BY <1>1, <1>3, <2>1 DEF ResponsesFreedOnce, Referenced
  <2>4. ResponsesFreedOnce'
    BY Zenon, <2>1, <2>2, <2>3 DEF ResponsesFreedOnce
  <2> QED
    BY <1>2, <1>3, <1>4, <2>1, <2>4
<1> QED
  BY <1>5, <1>6

(* Freeing the response that thread s holds, and forgetting it, is sound. *)
LEMMA FreeOut ==
  ASSUME Inv, HeapInv, NEW s \in Senders, out[s] # Null,
         FreeResponce(out[s]), out' = [out EXCEPT ![s] = Null], rsp_' = rsp_
  PROVE  /\ ResponsesFreedOnce'
         /\ \A t \in Senders : out'[t] = IF t = s THEN Null ELSE out[t]
<1> USE DEF Inv, HeapInv
<1>1. \A t \in Senders : out'[t] = IF t = s THEN Null ELSE out[t]
  BY DEF TypeOK
<1>2. live' = live \ {out[s].id} /\ misuse' = (misuse \/ out[s].id \notin live)
  BY DEF FreeResponce
<1>3. out[s].id \in live
  BY ReferencedDef DEF ResponsesFreedOnce
<1>4. ASSUME NEW n PROVE n \in live' <=> n \in Referenced'
  <2>1. n \in Referenced' <=> \/ rsp_ # Null /\ n = rsp_.id
                              \/ \E t \in Senders \ {s} : out[t] # Null /\ n = out[t].id
    BY <1>1 DEF Referenced
  <2>2. n \in live' <=> n \in Referenced /\ n # out[s].id
    BY <1>2 DEF ResponsesFreedOnce
  <2> QED
    BY <2>1, <2>2, ReferencedDef DEF ResponsesFreedOnce
<1>5. live' = Referenced'
  BY Zenon, <1>4
<1>6. ~misuse'
  BY Zenon, <1>2, <1>3 DEF ResponsesFreedOnce
<1>7. \A t, u \in Senders :
        out'[t] # Null /\ out'[u] # Null /\ out'[t].id = out'[u].id => t = u
  BY <1>1 DEF ResponsesFreedOnce
<1> QED
  BY <1>1, <1>5, <1>6, <1>7 DEF ResponsesFreedOnce

(* A thread with a response in hand does not try again. *)
LEMMA OutTriedOnce ==
  ASSUME Inv, NEW s \in Senders, pc[s] # "idle", cmd[s].out
  PROVE  ~ (attempt[s] < cmd[s].tries)
<1>1. cmd[s] \in Commands /\ attempt[s] \in Nat /\ attempt[s] > 0
  BY SenderTypes DEF Inv, CallInv
<1>2. cmd[s].tries = 1
  BY <1>1, RetryAssumption
<1> QED
  BY <1>1, <1>2

(* Return: a response without the intermediate line is freed; a thread that
   tries again has none. *)
LEMMA ReturnHeap == ASSUME Inv, HeapInv, NEW s \in Senders, Return(s) PROVE HeapInv'
<1> USE DEF Inv, HeapInv, Return
<1>1. allocs' = allocs /\ rsp_' = rsp_
  OBVIOUS
<1>2. \A t \in Senders \ {s} : pc'[t] = pc[t] /\ cmd'[t] = cmd[t]
  BY DEF LeaveScope, TypeOK
<1>3. out[s] # Null => pc'[s] = "idle"
  <2>1. out[s] # Null => ~ (attempt[s] < cmd[s].tries)
    BY Zenon, OutTriedOnce
  <2> QED
    BY Zenon, <2>1 DEF TypeOK
<1>4. CASE MissingIntermediate(s)
  <2>1. /\ ResponsesFreedOnce'
        /\ \A t \in Senders : out'[t] = IF t = s THEN Null ELSE out[t]
    BY <1>1, <1>4, FreeOut DEF MissingIntermediate
  <2> QED
    BY <1>1, <1>2, <2>1
<1>5. CASE ~MissingIntermediate(s)
  <2>1. live' = live /\ misuse' = misuse /\ out' = out
    BY <1>5
  <2>2. ResponsesFreedOnce'
    BY <1>1, <2>1 DEF ResponsesFreedOnce, Referenced
  <2> QED
    BY Zenon, <1>1, <1>2, <1>3, <2>1, <2>2
<1> QED
  BY <1>4, <1>5

(* Release: the caller frees what it was given. *)
LEMMA ReleaseHeap == ASSUME Inv, HeapInv, NEW s \in Senders, Release(s) PROVE HeapInv'
<1> USE DEF Inv, HeapInv, Release, channelVars
<1>1. /\ ResponsesFreedOnce'
      /\ \A t \in Senders : out'[t] = IF t = s THEN Null ELSE out[t]
  BY Zenon, FreeOut
<1> QED
  BY <1>1

(* ProcessLine finds no response pending. *)
LEMMA ProcessLineHeap == ASSUME Inv, HeapInv, ProcessLine PROVE HeapInv'
<1>1. rsp_ = Null /\ rsp_' = Null
  BY FreeMutex, RouteIdle DEF ProcessLine, ReaderMayLock
<1> QED
  BY <1>1 DEF ProcessLine, heapVars, senderVars, HeapInv, ResponsesFreedOnce, Referenced

(* The steps that touch neither a response nor a thread's hold on one. *)
LEMMA OtherHeap ==
  ASSUME Inv, HeapInv, UNCHANGED <<live, misuse, allocs, rsp_, out>>,
         \A s \in Senders : out[s] # Null => pc'[s] = pc[s] /\ cmd'[s] = cmd[s]
  PROVE  HeapInv'
BY DEF HeapInv, ResponsesFreedOnce, Referenced

(* Every step keeps HeapInv. *)
LEMMA StepHeap == Inv /\ HeapInv /\ [Next]_vars => HeapInv'
<1> SUFFICES ASSUME Inv, HeapInv, [Next]_vars PROVE HeapInv'
  OBVIOUS
<1>1. ASSUME NEW s \in Senders, SenderStep(s) PROVE HeapInv'
  <2>1. CASE Call(s)
    BY <2>1, OtherHeap DEF Call, channelVars, heapVars, Inv, TypeOK
  <2>2. CASE Lock(s)
    BY Zenon, <2>2, OtherHeap DEF Lock, heapVars, Inv, TypeOK, HeapInv
  <2>3. CASE Test(s)
    BY <2>3, OtherHeap DEF Test, heapVars, Inv, TypeOK, HeapInv
  <2> QED
    BY <1>1, <2>1, <2>2, <2>3, BeginHeap, WakeHeap, CollectHeap, ReturnHeap, ReleaseHeap
       DEF SenderStep
<1>2. CASE ReaderStep
  <2>1. CASE ~ProcessLine
    BY Zenon, <1>2, <2>1, OtherHeap
       DEF ReaderStep, ReaderLoop, ProcessUnsolLine, ReaderClose, NullLine, channelVars, heapVars,
           senderVars
  <2> QED
    BY <2>1, ProcessLineHeap
<1>3. CASE UNCHANGED vars
  BY Zenon, <1>3, OtherHeap DEF vars, channelVars, heapVars, senderVars
<1> QED
  BY <1>1, <1>2, <1>3 DEF Next

(* Every response is freed at most once and none is lost, whatever the order
   of answers, time-outs, closing and retries (SendCommandNoLock, FreeResponce). *)
THEOREM FreedOnce == Spec => []ResponsesFreedOnce
<1>1. HeapInv => ResponsesFreedOnce
  BY DEF HeapInv
<1> QED
  BY <1>1, InitHeap, StepHeap, InvHolds, PTL DEF Spec

-----------------------------------------------------------------------------
(* The deliveries to unsol_handler_. *)

Delivery == [line : Line, pdu : Line \cup {Null}]

(* A delivery is an SMS header with the next line, or another line alone. *)
WellPaired(d) ==
  IF IsSMSUnsolicited(d.line) THEN d.pdu # Null /\ d.pdu.n = d.line.n + 1 ELSE d.pdu = Null

(***************************************************************************)
(* Everything delivered was read before the line in hand, and the reader   *)
(* waits for a second line exactly when the one in hand is an SMS header.  *)
(***************************************************************************)
OrderInv ==
  /\ DeliveredInOrder
  /\ \A i \in 1..Len(delivered) : LastLine(delivered[i]) <= nread
  /\ rpc \in {"second", "process"} =>
       /\ line.n = nread
       /\ \A i \in 1..Len(delivered) : LastLine(delivered[i]) < line.n
       /\ rpc = "second" <=> IsSMSUnsolicited(line)

(* Nothing is delivered at the start. *)
LEMMA InitOrder == Init => OrderInv
<1> SUFFICES ASSUME Init PROVE OrderInv
  OBVIOUS
<1>1. Len(delivered) = 0 /\ rpc = "read"
  BY DEF Init
<1> QED
  BY <1>1 DEF OrderInv, DeliveredInOrder

(* The numbers of the lines are natural numbers. *)
LEMMA OrderTypes ==
  ASSUME Inv
  PROVE  /\ delivered \in Seq(Delivery) /\ nread \in Nat
         /\ \A i \in 1..Len(delivered) :
              delivered[i] \in Delivery /\ LastLine(delivered[i]) \in Nat
<1>1. delivered \in Seq(Delivery) /\ nread \in Nat
  BY DEF Inv, TypeOK, Delivery
<1>2. ASSUME NEW i \in 1..Len(delivered) PROVE delivered[i] \in Delivery
  BY <1>1
<1>3. ASSUME NEW d \in Delivery PROVE LastLine(d) \in Nat
  BY DEF Delivery, LastLine, Line
<1> QED
  BY <1>1, <1>2, <1>3

(* A well-paired delivery that begins after all others keeps the order. *)
LEMMA AppendOrder ==
  ASSUME Inv, DeliveredInOrder, NEW d \in Delivery, WellPaired(d),
         \A i \in 1..Len(delivered) : LastLine(delivered[i]) < d.line.n,
         delivered' = Append(delivered, d)
  PROVE  /\ DeliveredInOrder'
         /\ \A i \in 1..Len(delivered') : i \in 1..Len(delivered) \/ delivered'[i] = d
         /\ \A i \in 1..Len(delivered) : i \in 1..Len(delivered') /\ delivered'[i] = delivered[i]
<1>1. /\ Len(delivered) \in Nat /\ Len(delivered') = Len(delivered) + 1
      /\ \A i \in 1..Len(delivered) : delivered'[i] = delivered[i]
      /\ delivered'[Len(delivered) + 1] = d
  BY OrderTypes
<1>2. \A i \in 1..Len(delivered) : WellPaired(delivered[i])
  BY DEF DeliveredInOrder, WellPaired
<1>3. \A i \in 1..Len(delivered') : WellPaired(delivered'[i])
  BY <1>1, <1>2
<1>4. \A i \in 1..Len(delivered') - 1 : LastLine(delivered'[i]) < delivered'[i + 1].line.n
  <2> SUFFICES ASSUME NEW i \in 1..Len(delivered)
               PROVE  LastLine(delivered'[i]) < delivered'[i + 1].line.n
    BY <1>1
  <2>1. CASE i = Len(delivered)
    BY <1>1, <2>1
  <2>2. CASE i # Len(delivered)
    <3>1. i \in 1..Len(delivered) - 1 /\ i + 1 \in 1..Len(delivered)
      BY <1>1, <2>2
    <3> QED
      BY <1>1, <3>1 DEF DeliveredInOrder
  <2> QED
    BY <2>1, <2>2
<1>5. DeliveredInOrder'
  BY <1>3, <1>4 DEF DeliveredInOrder, WellPaired, LastLine, IsSMSUnsolicited
<1> QED
  BY <1>1, <1>5

(* ReaderLoop: the line in hand is the next one of the modem. *)
LEMMA ReaderLoopOrder == ASSUME Inv, OrderInv, ReaderLoop PROVE OrderInv'
<1> USE DEF ReaderLoop
<1>1. PICK l \in ReadLine :
        /\ line' = l
        /\ nread' = IF l = Null THEN nread ELSE l.n
        /\ rpc' = IF l = Null THEN "close"
                  ELSE IF IsSMSUnsolicited(l) THEN "second" ELSE "process"
  OBVIOUS
<1>2. DeliveredInOrder'
  BY DEF OrderInv, DeliveredInOrder, LastLine
<1>3. CASE l = Null
  BY <1>1, <1>2, <1>3 DEF OrderInv, LastLine
<1>4. CASE l # Null
  <2>1. nread' = nread + 1 /\ line' = l /\ l.n = nread + 1
    BY <1>1, <1>4, ReadLineType
  <2>2. \A i \in 1..Len(delivered) : LastLine(delivered[i]) < l.n
    BY <2>1, OrderTypes DEF OrderInv
  <2>3. \A i \in 1..Len(delivered') : LastLine(delivered[i])' < line'.n
    BY <2>1, <2>2 DEF LastLine
  <2>4. \A i \in 1..Len(delivered') : LastLine(delivered[i])' <= nread'
    BY <2>1, <2>2, OrderTypes DEF LastLine
  <2>5. rpc' = "second" <=> IsSMSUnsolicited(line)'
    BY <1>1, <1>4 DEF IsSMSUnsolicited
  <2> QED
    BY <1>2, <2>1, <2>3, <2>4, <2>5 DEF OrderInv
<1> QED
  BY <1>3, <1>4

(* ProcessUnsolLine: the header in hand goes out with the line after it. *)
LEMMA ProcessUnsolLineOrder == ASSUME Inv, OrderInv, ProcessUnsolLine PROVE OrderInv'
<1> USE DEF ProcessUnsolLine, FirstLine
<1>1. PICK l \in ReadLine :
        /\ nread' = IF l = Null THEN nread ELSE l.n
        /\ delivered' = IF l = Null THEN delivered
                        ELSE Append(delivered, [line |-> line, pdu |-> l])
        /\ rpc' = IF l = Null THEN "close2" ELSE "read"
  BY Zenon
<1>2. CASE l = Null
  BY Zenon, <1>1, <1>2 DEF OrderInv, DeliveredInOrder, LastLine, IsSMSUnsolicited
<1>3. CASE l # Null
  <2> DEFINE d == [line |-> line, pdu |-> l]
  <2>1. line \in Line /\ line.n = nread /\ IsSMSUnsolicited(line)
    BY DEF Inv, LineInv, OrderInv
  <2>2. l \in Line /\ l.n = nread + 1 /\ nread' = nread + 1
    BY <1>1, <1>3, ReadLineType
  <2>3. d \in Delivery /\ d.line = line /\ d.pdu = l
    BY <2>1, <2>2 DEF Delivery
  <2>4. WellPaired(d) /\ LastLine(d) = nread + 1
    BY <1>3, <2>1, <2>2, <2>3 DEF WellPaired, LastLine
  <2>5. delivered' = Append(delivered, d)
    BY <1>1, <1>3
  <2> HIDE DEF d
  <2>6. \A i \in 1..Len(delivered) : LastLine(delivered[i]) < d.line.n
    BY <2>3 DEF OrderInv
  <2>7. /\ DeliveredInOrder'
        /\ \A i \in 1..Len(delivered') : i \in 1..Len(delivered) \/ delivered'[i] = d
        /\ \A i \in 1..Len(delivered) : delivered'[i] = delivered[i]
    BY <2>3, <2>4, <2>5, <2>6, AppendOrder DEF OrderInv
  <2>8. \A i \in 1..Len(delivered') : LastLine(delivered'[i]) <= nread'
    BY <2>2, <2>4, <2>7, OrderTypes DEF OrderInv
  <2> QED
    BY Zenon, <1>1, <1>3, <2>7, <2>8 DEF OrderInv, LastLine
<1> QED
  BY <1>2, <1>3

(* ProcessLine: no command is pending, so the line in hand goes out alone. *)
LEMMA ProcessLineOrder == ASSUME Inv, OrderInv, ProcessLine PROVE OrderInv'
<1> DEFINE d == [line |-> line, pdu |-> Null]
<1>1. rsp_ = Null
  BY FreeMutex DEF ProcessLine, ReaderMayLock
<1>2. delivered' = Append(delivered, d) /\ rpc' = "read" /\ nread' = nread
  BY <1>1, RouteIdle DEF ProcessLine
<1>3. line \in Line /\ line.n = nread /\ ~IsSMSUnsolicited(line)
  BY DEF Inv, LineInv, OrderInv, ProcessLine
<1>4. d \in Delivery /\ d.line = line /\ d.pdu = Null
  BY <1>3 DEF Delivery
<1>5. WellPaired(d) /\ LastLine(d) = nread
  BY <1>3, <1>4 DEF WellPaired, LastLine
<1>6. \A i \in 1..Len(delivered) : LastLine(delivered[i]) < d.line.n
  BY Zenon, <1>4 DEF OrderInv, ProcessLine
<1> HIDE DEF d
<1>7. /\ DeliveredInOrder'
      /\ \A i \in 1..Len(delivered') : i \in 1..Len(delivered) \/ delivered'[i] = d
      /\ \A i \in 1..Len(delivered) : delivered'[i] = delivered[i]
  BY Zenon, <1>2, <1>4, <1>5, <1>6, AppendOrder DEF OrderInv
<1>8. \A i \in 1..Len(delivered') : LastLine(delivered'[i]) <= nread'
  BY <1>2, <1>5, <1>7, OrderTypes DEF OrderInv
<1> QED
  BY <1>2, <1>7, <1>8 DEF OrderInv, LastLine

(* Every step keeps OrderInv; the command threads deliver nothing. *)
LEMMA StepOrder == Inv /\ OrderInv /\ [Next]_vars => OrderInv'
<1> SUFFICES ASSUME Inv, OrderInv, [Next]_vars PROVE OrderInv'
  OBVIOUS
<1>1. CASE UNCHANGED <<delivered, nread, line, rpc>>
  BY Zenon, <1>1 DEF OrderInv, DeliveredInOrder, LastLine, IsSMSUnsolicited
<1>2. CASE ReaderStep
  <2>1. CASE ReaderClose
    BY <2>1 DEF ReaderClose, OrderInv, DeliveredInOrder, LastLine, IsSMSUnsolicited
  <2>2. CASE NullLine
    BY Zenon, <1>1, <2>2 DEF NullLine
  <2> QED
    BY <1>2, <2>1, <2>2, ReaderLoopOrder, ProcessUnsolLineOrder, ProcessLineOrder DEF ReaderStep
<1>3. ASSUME NEW s \in Senders, SenderStep(s) PROVE OrderInv'
  BY Zenon, <1>1, <1>3
     DEF SenderStep, Call, Lock, Begin, Test, Wake, Collect, Return, Release, readerVars
<1>4. CASE UNCHANGED vars
  BY <1>1, <1>4 DEF vars, readerVars
<1> QED
  BY Zenon, <1>2, <1>3, <1>4 DEF Next

(* unsol_handler_ sees the lines in the order the modem sent them, none twice,
   and SMS headers with their second line (ReaderLoop, ProcessUnsolLine). *)
THEOREM InOrder == Spec => []DeliveredInOrder
<1>1. OrderInv => DeliveredInOrder
  BY DEF OrderInv
<1> QED
  BY <1>1, InitOrder, StepOrder, InvHolds, PTL DEF Spec
=============================================================================
