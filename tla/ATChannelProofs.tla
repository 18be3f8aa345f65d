--------------------------- MODULE ATChannelProofs ---------------------------
(***************************************************************************)
(* Proofs about ATChannel, for any set of command threads, any commands    *)
(* and any number of calls and lines.                                      *)
(***************************************************************************)
EXTENDS ATChannel, TLAPS

(* The states in which a command is set up and not yet collected. *)
Pending == {"test", "wait", "collect"}

(***************************************************************************)
(* The inductive invariant.  LockInv ties mutex_ to the threads' program   *)
(* counters: it is what makes the rest inductive, because the reader's     *)
(* critical sections then find no thread Inside.                           *)
(***************************************************************************)
LockInv == \A s \in Senders : pc[s] \in Inside <=> mutex_ = s

RspInv ==
  /\ rsp_ # Null => \E s \in Senders : mutex_ = s /\ pc[s] \in Pending
  /\ \A s \in Senders : pc[s] \in Pending => rsp_ # Null
  /\ rsp_ # Null => rsp_.final_resp_ = Null

CallInv == \A s \in Senders :
  /\ pc[s] # "idle" => cmd[s] \in Commands /\ attempt[s] > 0
  /\ ret[s] # "AT_ERROR_COMMAND_PENDING"

LineInv == rpc \in {"second", "process"} => line \in Line

Inv == TypeOK /\ LockInv /\ RspInv /\ CallInv /\ LineInv /\ NoSleepAfterClose

-----------------------------------------------------------------------------
(* Lemmas about the operators of ATResponse. *)

(* A fresh response is a response without a final line. *)
LEMMA AllocType ==
  ASSUME NEW i \in Nat
  PROVE  /\ AllocResponce(i) \in Response /\ AllocResponce(i) # Null
         /\ AllocResponce(i).id = i /\ AllocResponce(i).final_resp_ = Null
<1>1. << >> \in Seq(Line)
  OBVIOUS
<1>2. AllocResponce(i) \in Response
  BY <1>1 DEF AllocResponce, Response
<1> QED
  BY Zenon, <1>2, NullAssumption DEF AllocResponce

(* Reversing the intermediate lines keeps a response a response, and the same one. *)
LEMMA ReverseType ==
  ASSUME NEW r \in Response
  PROVE  /\ ReverseIntermediates(r) \in Response /\ ReverseIntermediates(r) # Null
         /\ ReverseIntermediates(r).id = r.id
<1> DEFINE s == r.intermediates_
           t == [i \in 1..Len(s) |-> s[Len(s) + 1 - i]]
<1>1. s \in Seq(Line)
  BY DEF Response
<1>2. t \in Seq(Line)
  BY <1>1
<1>3. ReverseIntermediates(r) = [r EXCEPT !.intermediates_ = t]
  BY DEF ReverseIntermediates
<1> HIDE DEF t, s
<1> QED
  BY Zenon, <1>2, <1>3, NullAssumption DEF Response

(* With no command pending a line goes to the unsolicited handler and changes nothing. *)
LEMMA RouteIdle ==
  ASSUME NEW l, NEW p, NEW t, NEW x
  PROVE  Route(l, Null, p, t, x) = "unsolicited" /\ Routed(Null, l, "unsolicited") = Null
BY DEF Route, Routed

-----------------------------------------------------------------------------
(* The initial state satisfies the invariant. *)
LEMMA InitInv == Init => Inv
<1> SUFFICES ASSUME Init PROVE Inv
  OBVIOUS
<1> USE DEF Init
<1>0. delivered \in Seq([line : Line, pdu : Line \cup {Null}])
  OBVIOUS
<1>1. TypeOK
  BY Zenon, <1>0 DEF TypeOK, SenderStates, ReaderStates, ATErrno
<1>2. LockInv
  BY NoneAssumption DEF LockInv, Inside
<1>3. RspInv /\ CallInv /\ LineInv /\ NoSleepAfterClose
  BY DEF RspInv, CallInv, LineInv, NoSleepAfterClose, Pending
<1> QED
  BY <1>1, <1>2, <1>3 DEF Inv

(* What the invariant says when mutex_ is free: no thread is Inside and no
   command is pending. *)
LEMMA FreeMutex ==
  ASSUME Inv, mutex_ = None
  PROVE  rsp_ = Null /\ \A s \in Senders : pc[s] \notin Inside
BY NoneAssumption DEF Inv, LockInv, RspInv

(* What the invariant says of a thread Inside: it is the only one. *)
LEMMA OneInside ==
  ASSUME Inv, NEW s \in Senders, pc[s] \in Inside
  PROVE  mutex_ = s /\ \A t \in Senders \ {s} : pc[t] \notin Inside
BY DEF Inv, LockInv

(* The types of what the command threads hold. *)
LEMMA SenderTypes ==
  ASSUME Inv
  PROVE  /\ pc \in [Senders -> SenderStates] /\ ret \in [Senders -> ATErrno]
         /\ out \in [Senders -> Response \cup {Null}]
         /\ cmd \in [Senders -> Command \cup {Null}] /\ attempt \in [Senders -> Nat]
         /\ stale \in [Senders -> BOOLEAN] /\ written \in [Senders -> ATErrno]
BY DEF Inv, TypeOK

(* A thread that enters SendCommandFull only gets its own command. *)
LEMMA CallStep == ASSUME Inv, NEW s \in Senders, Call(s) PROVE Inv'
<1> USE DEF Inv, Call, channelVars, heapVars, readerVars
<1>1. TypeOK'
  BY CommandsAssumption DEF TypeOK, SenderStates
<1>2. LockInv' /\ RspInv'
  BY DEF LockInv, RspInv, TypeOK, Inside, Pending
<1>3. CallInv' /\ LineInv' /\ NoSleepAfterClose'
  BY DEF CallInv, LineInv, NoSleepAfterClose, TypeOK
<1> QED
  BY <1>1, <1>2, <1>3

(* mutex_ passes to a thread when nobody is inside. *)
LEMMA LockStep == ASSUME Inv, NEW s \in Senders, Lock(s) PROVE Inv'
<1> USE DEF Inv, Lock, heapVars, readerVars
<1>0. rsp_ = Null /\ \A t \in Senders : pc[t] \notin Inside
  BY FreeMutex
<1>1. TypeOK'
  BY DEF TypeOK, SenderStates, Inside
<1>2. LockInv' /\ RspInv'
  BY <1>0 DEF LockInv, RspInv, TypeOK, Inside, Pending
<1>3. CallInv' /\ LineInv' /\ NoSleepAfterClose'
  BY DEF CallInv, LineInv, NoSleepAfterClose, TypeOK
<1> QED
  BY <1>1, <1>2, <1>3

(* The pending response is set up by the holder of mutex_. *)
LEMMA BeginStep == ASSUME Inv, NEW s \in Senders, Begin(s) PROVE Inv'
<1> USE DEF Inv, Begin, readerVars
<1>0. mutex_ = s /\ \A t \in Senders \ {s} : pc[t] \notin Inside
  BY OneInside DEF Inside
<1>1. rsp_ = Null
  BY <1>0 DEF RspInv, Pending
<1>2. BeginCommand(s)
  BY <1>1
<1>3. cmd[s] \in Command /\ cmd[s] \in Commands
  BY CommandsAssumption DEF CallInv
<1>4. allocs' \in Nat /\ rsp_' = AllocResponce(allocs')
  BY <1>2 DEF BeginCommand, TypeOK
<1>5. rsp_' \in Response /\ rsp_' # Null /\ rsp_'.final_resp_ = Null
  BY <1>4, AllocType
<1>6. TypeOK'
  <2>1. type_' \in ATCmdType /\ rsp_prefix_' \in Prefixes \cup {Null} /\ sms_pdu_' \in BOOLEAN
    BY <1>2, <1>3 DEF BeginCommand, Command
  <2>2. written' \in [Senders -> ATErrno]
    BY <1>2 DEF BeginCommand, WriteLine, ATErrno, TypeOK
  <2>3. live' \subseteq Nat
    BY <1>2, <1>4 DEF BeginCommand, TypeOK
  <2> QED
    BY <1>2, <1>4, <1>5, <2>1, <2>2, <2>3 DEF BeginCommand, TypeOK, SenderStates, Inside
<1>7. LockInv' /\ RspInv'
  BY <1>0, <1>2, <1>5 DEF BeginCommand, LockInv, RspInv, TypeOK, Inside, Pending
<1>8. CallInv' /\ LineInv' /\ NoSleepAfterClose'
  BY <1>2, <1>3 DEF BeginCommand, CallInv, LineInv, NoSleepAfterClose, TypeOK
<1> QED
  BY <1>6, <1>7, <1>8

(* A thread goes to sleep, with mutex_ held, only on an open channel. *)
LEMMA TestStep == ASSUME Inv, NEW s \in Senders, Test(s) PROVE Inv'
<1> USE DEF Inv, Test, heapVars, readerVars, MutexInWait
<1>0. mutex_ = s /\ \A t \in Senders \ {s} : pc[t] \notin Inside
  BY OneInside DEF Inside
<1>1. TypeOK'
  BY Zenon DEF TypeOK, SenderStates, Inside
<1>2. LockInv' /\ RspInv'
  BY <1>0 DEF LockInv, RspInv, TypeOK, Inside, Pending
<1>3. CallInv' /\ LineInv' /\ NoSleepAfterClose'
  BY DEF CallInv, LineInv, NoSleepAfterClose, TypeOK, StillPending
<1> QED
  BY <1>1, <1>2, <1>3

(* A thread that wakes goes back to the loop test or drops its own response. *)
LEMMA WakeStep == ASSUME Inv, NEW s \in Senders, Wake(s) PROVE Inv'
<1> USE DEF Inv
<1>0. /\ pc[s] = "wait" /\ mutex_ = s
      /\ \A t \in Senders \ {s} : pc[t] \notin Inside
  BY OneInside DEF Wake, Inside
<1>1. /\ UNCHANGED <<mutex_, type_, read_closed_, read_fd_, allocs, calls>>
      /\ UNCHANGED <<cmd, attempt, stale, written, out, rpc, line, nread, delivered, crashed>>
  BY DEF Wake, readerVars
<1>2. notified' \subseteq Senders /\ mutex_cond_' \in Senders \cup {None}
  BY DEF Wake, TypeOK
<1>3. \/ /\ ret' = [ret EXCEPT ![s] = "AT_ERROR_TIMEOUT"]
         /\ pc' = [pc EXCEPT ![s] = "return"]
         /\ rsp_' = Null /\ rsp_prefix_' = Null /\ sms_pdu_' = FALSE
         /\ FreeResponce(rsp_)
      \/ /\ pc' = [pc EXCEPT ![s] = "test"]
         /\ UNCHANGED <<ret, rsp_, rsp_prefix_, sms_pdu_, live, misuse>>
  BY DEF Wake, ClearPendingCommand
<1>4. live' \subseteq Nat /\ misuse' \in BOOLEAN
  BY Zenon, <1>3 DEF FreeResponce, TypeOK
<1>5. pc' \in [Senders -> SenderStates] /\ ret' \in [Senders -> ATErrno]
  BY <1>3, SenderTypes DEF SenderStates, Inside, ATErrno
<1>6. TypeOK'
  BY Zenon, <1>1, <1>2, <1>3, <1>4, <1>5 DEF TypeOK
<1>7. \A t \in Senders : t # s => pc'[t] = pc[t] /\ ret'[t] = ret[t]
  BY <1>3, SenderTypes
<1>8. \/ pc'[s] = "return" /\ rsp_' = Null /\ ret'[s] = "AT_ERROR_TIMEOUT"
      \/ pc'[s] = "test" /\ rsp_' = rsp_ /\ ret'[s] = ret[s]
  BY <1>3, SenderTypes
<1>9. LockInv' /\ RspInv'
  BY <1>0, <1>1, <1>7, <1>8 DEF LockInv, RspInv, Inside, Pending
<1>10. CallInv' /\ LineInv' /\ NoSleepAfterClose'
  BY <1>0, <1>1, <1>7, <1>8 DEF CallInv, LineInv, NoSleepAfterClose
<1> QED
  BY <1>6, <1>9, <1>10

(* The response is handed over and rsp_ reset. *)
LEMMA CollectStep == ASSUME Inv, NEW s \in Senders, Collect(s) PROVE Inv'
<1> USE DEF Inv, Collect, readerVars, HandOver, FreeResponce
<1>0. mutex_ = s /\ \A t \in Senders \ {s} : pc[t] \notin Inside
  BY OneInside DEF Inside
<1>1. rsp_ \in Response
  BY DEF RspInv, Pending, TypeOK
<1>2. out' \in [Senders -> Response \cup {Null}]
  BY <1>1, ReverseType DEF TypeOK
<1>3. TypeOK'
  BY Zenon, <1>2 DEF TypeOK, SenderStates, Inside, ATErrno, FinalErrno
<1>4. LockInv' /\ RspInv'
  BY <1>0 DEF LockInv, RspInv, TypeOK, Inside, Pending
<1>5. CallInv' /\ LineInv' /\ NoSleepAfterClose'
  BY DEF CallInv, LineInv, NoSleepAfterClose, TypeOK, FinalErrno
<1> QED
  BY <1>3, <1>4, <1>5

(* mutex_ is given up with nothing pending. *)
LEMMA ReturnStep == ASSUME Inv, NEW s \in Senders, Return(s) PROVE Inv'
<1> USE DEF Inv
<1>0. /\ pc[s] = "return" /\ mutex_ = s
      /\ \A t \in Senders \ {s} : pc[t] \notin Inside
  BY OneInside DEF Return, Inside
<1>1. /\ mutex_' = None /\ UNCHANGED <<mutex_cond_, notified, rsp_, type_, rsp_prefix_, sms_pdu_>>
      /\ UNCHANGED <<read_closed_, read_fd_, allocs, calls>>
      /\ UNCHANGED <<rpc, line, nread, delivered, crashed>>
  BY DEF Return, readerVars
<1>2. \/ /\ FreeResponce(out[s])
         /\ out' = [out EXCEPT ![s] = Null]
         /\ ret' = [ret EXCEPT ![s] = "AT_ERROR_INVALID_RESPONSE"]
      \/ UNCHANGED <<live, misuse, out, ret>>
  BY DEF Return
<1>3. \/ /\ attempt' = [attempt EXCEPT ![s] = attempt[s] + 1]
         /\ pc' = [pc EXCEPT ![s] = "lock"]
         /\ UNCHANGED <<cmd, stale, written>>
      \/ /\ pc' = [pc EXCEPT ![s] = "idle"]
         /\ LeaveScope(s)
  BY DEF Return
<1>4. live' \subseteq Nat /\ misuse' \in BOOLEAN
  BY Zenon, <1>2 DEF FreeResponce, TypeOK
<1>5. out' \in [Senders -> Response \cup {Null}] /\ ret' \in [Senders -> ATErrno]
  BY <1>2, SenderTypes DEF ATErrno
<1>6. pc' \in [Senders -> SenderStates]
  BY <1>3, SenderTypes DEF SenderStates
<1>7. attempt' \in [Senders -> Nat]
  <2>1. attempt[s] + 1 \in Nat
    BY SenderTypes
  <2> QED
    BY <1>3, <2>1, SenderTypes DEF LeaveScope
<1>8. /\ cmd' \in [Senders -> Command \cup {Null}] /\ stale' \in [Senders -> BOOLEAN]
      /\ written' \in [Senders -> ATErrno]
  BY Zenon, <1>3, SenderTypes DEF LeaveScope, ATErrno
<1>9. TypeOK'
  BY <1>1, <1>4, <1>5, <1>6, <1>7, <1>8 DEF TypeOK
<1>10. \A t \in Senders : t # s => /\ pc'[t] = pc[t] /\ ret'[t] = ret[t]
                                  /\ cmd'[t] = cmd[t] /\ attempt'[t] = attempt[t]
  BY <1>2, <1>3, SenderTypes DEF LeaveScope
<1>11. ret'[s] # "AT_ERROR_COMMAND_PENDING"
  BY <1>2, SenderTypes DEF CallInv
<1>12. \/ pc'[s] = "lock" /\ cmd'[s] = cmd[s] /\ attempt'[s] = attempt[s] + 1
       \/ pc'[s] = "idle"
  BY <1>3, SenderTypes
<1>13. LockInv'
  BY Zenon, <1>0, <1>1, <1>10, <1>12, NoneAssumption DEF LockInv, Inside
<1>14. RspInv'
  BY <1>0, <1>1, <1>10, <1>12 DEF RspInv, Inside, Pending
<1>15. CallInv'
  <2>1. attempt[s] \in Nat /\ attempt[s] > 0 /\ cmd[s] \in Commands
    BY Zenon, <1>0, SenderTypes DEF CallInv
  <2> QED
    BY <1>10, <1>11, <1>12, <2>1 DEF CallInv
<1>16. LineInv' /\ NoSleepAfterClose'
  BY ZenonT(30), <1>0, <1>1, <1>10, <1>12 DEF LineInv, NoSleepAfterClose
<1> QED
  BY <1>9, <1>13, <1>14, <1>15, <1>16

(* The caller's free touches the heap only. *)
LEMMA ReleaseStep == ASSUME Inv, NEW s \in Senders, Release(s) PROVE Inv'
<1> USE DEF Inv, Release, channelVars, readerVars, FreeResponce
<1>1. TypeOK'
  BY Zenon DEF TypeOK
<1>2. LockInv' /\ RspInv'
  BY DEF LockInv, RspInv
<1>3. CallInv' /\ LineInv' /\ NoSleepAfterClose'
  BY DEF CallInv, LineInv, NoSleepAfterClose
<1> QED
  BY Zenon, <1>1, <1>2, <1>3

(* A delivery extends the list of deliveries. *)
LEMMA DeliveredType ==
  ASSUME Inv, NEW l \in Line, NEW p \in Line \cup {Null}
  PROVE  Append(delivered, [line |-> l, pdu |-> p]) \in Seq([line : Line, pdu : Line \cup {Null}])
<1> DEFINE D == [line : Line, pdu : Line \cup {Null}]
<1>1. [line |-> l, pdu |-> p] \in D
  OBVIOUS
<1>2. delivered \in Seq(D)
  BY DEF Inv, TypeOK
<1> HIDE DEF D
<1>3. Append(delivered, [line |-> l, pdu |-> p]) \in Seq(D)
  BY <1>1, <1>2
<1> QED
  BY <1>3 DEF D

(* What ReadLine returns is nullptr or a line. *)
LEMMA ReadLineType ==
  ASSUME Inv, NEW l \in ReadLine
  PROVE  /\ l \in Line \cup {Null}
         /\ l # Null => l \in Line /\ l.n = nread + 1
BY InputAssumption, NullAssumption DEF ReadLine, Inv, TypeOK, Line

(* Reading a line changes the reader only. *)
LEMMA ReaderLoopStep == ASSUME Inv, ReaderLoop PROVE Inv'
<1> USE DEF Inv, ReaderLoop, channelVars, heapVars, senderVars
<1>0. PICK l \in ReadLine :
        /\ line' = l
        /\ nread' = IF l = Null THEN nread ELSE l.n
        /\ rpc' = IF l = Null THEN "close"
                  ELSE IF IsSMSUnsolicited(l) THEN "second" ELSE "process"
  OBVIOUS
<1>1. TypeOK'
  <2>1. nread \in Nat /\ l \in Line \cup {Null} /\ (l # Null => l.n = nread + 1)
    BY Zenon, ReadLineType DEF TypeOK
  <2>2. line' \in Line \cup {Null} /\ nread' \in Nat
    BY <1>0, <2>1
  <2>3. rpc' \in ReaderStates
    BY Zenon, <1>0 DEF ReaderStates
  <2> QED
    BY <2>2, <2>3 DEF TypeOK
<1>2. LockInv' /\ RspInv'
  BY Zenon DEF LockInv, RspInv
<1>3. CallInv' /\ LineInv' /\ NoSleepAfterClose'
  BY <1>0, ReadLineType DEF CallInv, LineInv, NoSleepAfterClose
<1> QED
  BY <1>1, <1>2, <1>3

(* The second line of an SMS notification changes the reader only. *)
LEMMA ProcessUnsolLineStep == ASSUME Inv, ProcessUnsolLine PROVE Inv'
<1> USE DEF Inv, ProcessUnsolLine, channelVars, heapVars, senderVars, FirstLine
<1>0. PICK l \in ReadLine :
        /\ nread' = IF l = Null THEN nread ELSE l.n
        /\ delivered' = IF l = Null THEN delivered
                        ELSE Append(delivered, [line |-> line, pdu |-> l])
        /\ rpc' = IF l = Null THEN "close2" ELSE "read"
  OBVIOUS
<1>1. line \in Line
  BY DEF LineInv
<1>2. delivered' \in Seq([line : Line, pdu : Line \cup {Null}])
  BY Zenon, <1>0, <1>1, ReadLineType, DeliveredType DEF TypeOK
<1>3. TypeOK'
  <2>1. nread' \in Nat
    <3>1. nread \in Nat /\ (l # Null => l.n = nread + 1)
      BY Zenon, ReadLineType DEF TypeOK
    <3> QED
      BY <1>0, <3>1
  <2>2. rpc' \in ReaderStates
    BY Zenon, <1>0 DEF ReaderStates
  <2> QED
    BY <1>2, <2>1, <2>2 DEF TypeOK
<1>4. LockInv' /\ RspInv'
  BY Zenon DEF LockInv, RspInv
<1>5. CallInv' /\ LineInv' /\ NoSleepAfterClose'
  BY <1>0 DEF CallInv, LineInv, NoSleepAfterClose
<1> QED
  BY <1>3, <1>4, <1>5

(* With mutex_ free nothing is pending, so ProcessLine passes the line on. *)
LEMMA ProcessLineStep == ASSUME Inv, ProcessLine PROVE Inv'
<1> USE DEF Inv, ProcessLine, heapVars, senderVars
<1>0. rsp_ = Null
  BY FreeMutex DEF ReaderMayLock
<1>1. Route(line, rsp_, sms_pdu_, type_, rsp_prefix_) = "unsolicited"
  BY <1>0, RouteIdle
<1>2. /\ rsp_' = Null /\ notified' = notified
      /\ sms_pdu_' = RoutedPdu(sms_pdu_, "unsolicited")
      /\ delivered' = Append(delivered, [line |-> line, pdu |-> Null])
  BY <1>0, <1>1, RouteIdle
<1>3. line \in Line
  BY DEF LineInv
<1>4. delivered' \in Seq([line : Line, pdu : Line \cup {Null}])
  BY Zenon, <1>2, <1>3, DeliveredType
<1>5. TypeOK'
  BY <1>2, <1>4 DEF TypeOK, ReaderStates, RoutedPdu
<1>6. LockInv' /\ RspInv'
  BY <1>0, <1>2 DEF LockInv, RspInv
<1>7. CallInv' /\ LineInv' /\ NoSleepAfterClose'
  BY DEF CallInv, LineInv, NoSleepAfterClose
<1> QED
  BY <1>5, <1>6, <1>7

(* With mutex_ free nobody sleeps, so the close is not missed. *)
LEMMA ReaderCloseStep == ASSUME Inv, ReaderClose PROVE Inv'
<1> USE DEF Inv, ReaderClose, heapVars, senderVars
<1>0. rsp_ = Null /\ \A s \in Senders : pc[s] \notin Inside
  BY FreeMutex DEF ReaderMayLock
<1>1. notified' \subseteq Senders
  BY DEF NotifyOne, Sleeping, TypeOK
<1>2. TypeOK'
  BY <1>1 DEF TypeOK, ReaderStates
<1>3. LockInv' /\ RspInv'
  BY DEF LockInv, RspInv
<1>4. CallInv' /\ LineInv' /\ NoSleepAfterClose'
  BY <1>0 DEF CallInv, LineInv, NoSleepAfterClose, Inside
<1> QED
  BY <1>2, <1>3, <1>4

(* A step that changes none of the variables of Inv but crashed keeps it. *)
LEMMA IdleStep ==
  ASSUME Inv, UNCHANGED <<channelVars, heapVars, senderVars>>,
         UNCHANGED <<rpc, line, nread, delivered>>, crashed' \in BOOLEAN
  PROVE  Inv'
<1> USE DEF channelVars, heapVars, senderVars
<1>1. TypeOK'
  BY ZenonT(60) DEF Inv, TypeOK
<1>2. LockInv' /\ RspInv'
  BY Zenon DEF Inv, LockInv, RspInv
<1>3. CallInv' /\ LineInv' /\ NoSleepAfterClose'
  BY DEF Inv, CallInv, LineInv, NoSleepAfterClose
<1> QED
  BY <1>1, <1>2, <1>3 DEF Inv

(* The end of the process changes nothing else. *)
LEMMA NullLineStep == ASSUME Inv, NullLine PROVE Inv'
BY IdleStep DEF NullLine

(* The invariant is inductive. *)
LEMMA StepInv == Inv /\ [Next]_vars => Inv'
<1> SUFFICES ASSUME Inv, [Next]_vars PROVE Inv'
  OBVIOUS
<1>1. CASE ReaderStep
  BY <1>1, ReaderLoopStep, ProcessUnsolLineStep, ProcessLineStep, ReaderCloseStep, NullLineStep
     DEF ReaderStep
<1>2. ASSUME NEW s \in Senders, SenderStep(s) PROVE Inv'
  BY <1>2, CallStep, LockStep, BeginStep, TestStep, WakeStep, CollectStep, ReturnStep, ReleaseStep
     DEF SenderStep
<1>3. CASE UNCHANGED vars
  BY <1>3, IdleStep DEF vars, readerVars, Inv, TypeOK
<1> QED
  BY <1>1, <1>2, <1>3 DEF Next

(* The invariant holds in every reachable state. *)
LEMMA InvHolds == Spec => []Inv
BY InitInv, StepInv, PTL DEF Spec

-----------------------------------------------------------------------------
(* Every variable keeps its type, whatever the threads and the modem do. *)
THEOREM TypeCorrect == Spec => []TypeOK
<1>1. Inv => TypeOK
  BY DEF Inv
<1> QED
  BY <1>1, InvHolds, PTL

(* A pending response has one owner, the thread that holds mutex_, so
   SendCommandNoLock never returns AT_ERROR_COMMAND_PENDING. *)
THEOREM PendingIsOwned == Spec => []PendingOwned
<1>1. Inv => PendingOwned
  BY DEF Inv, RspInv, CallInv, PendingOwned, Pending
<1> QED
  BY <1>1, InvHolds, PTL

(* ReaderClose cannot lose its wake-up: no thread sleeps on a closed channel. *)
THEOREM NoLostClose == Spec => []NoSleepAfterClose
<1>1. Inv => NoSleepAfterClose
  BY DEF Inv
<1> QED
  BY <1>1, InvHolds, PTL

(* No final response ever reaches a pending command, whatever the modem sends:
   SendCommandFull holds mutex_ over the wait, and ProcessLine needs it. *)
THEOREM PendingUnanswered == Spec => [](rsp_ # Null => rsp_.final_resp_ = Null)
<1>1. Inv => (rsp_ # Null => rsp_.final_resp_ = Null)
  BY DEF Inv, RspInv
<1> QED
  BY <1>1, InvHolds, PTL

-----------------------------------------------------------------------------
(* The refinement.  What a step shows of the channel: who holds mutex_, who
   waits for it, the result each thread leaves with, and read_closed_. *)
Waiting == {s \in Senders : pc[s] = "lock"}
Reply == [s \in Senders |-> IF pc[s] = "return" THEN ret[s] ELSE "none"]

(* A step that moves no thread to or from "lock" and "return", and leaves
   mutex_ and read_closed_ alone, is invisible in CommandPort. *)
LEMMA Invisible ==
  ASSUME UNCHANGED <<mutex_, read_closed_, Waiting, Reply>>
  PROVE  UNCHANGED Port!vars
BY DEF Port!vars, Waiting, Reply

(* Entering a call is a request. *)
LEMMA CallPort == ASSUME Inv, NEW s \in Senders, Call(s) PROVE Port!Request(s)
<1> USE DEF Inv, Call, channelVars, heapVars, readerVars
<1>1. mutex_ # s
  BY DEF LockInv, Inside
<1>2. Waiting' = Waiting \cup {s}
  BY SenderTypes DEF Waiting
<1>3. Reply' = Reply
  BY SenderTypes DEF Reply
<1> QED
  BY <1>1, <1>2, <1>3 DEF Port!Request, Waiting, Reply

(* Locking mutex_ is being served. *)
LEMMA LockPort == ASSUME Inv, NEW s \in Senders, Lock(s) PROVE Port!Serve(s)
<1> USE DEF Inv, Lock, heapVars, readerVars
<1>1. Waiting' = Waiting \ {s}
  BY SenderTypes DEF Waiting
<1>2. Reply' = Reply
  BY SenderTypes DEF Reply
<1> QED
  BY <1>1, <1>2 DEF Port!Serve, Waiting, Reply

(* Setting up the command is not visible. *)
LEMMA BeginPort == ASSUME Inv, NEW s \in Senders, Begin(s) PROVE UNCHANGED Port!vars
<1> USE DEF Inv, Begin, readerVars
<1>1. mutex_ = s
  BY OneInside DEF Inside
<1>2. BeginCommand(s)
  BY <1>1 DEF RspInv, Pending
<1>3. Waiting' = Waiting /\ Reply' = Reply
  BY <1>2 DEF BeginCommand, Waiting, Reply, TypeOK
<1> QED
  BY <1>3, Invisible

(* The loop test is not visible. *)
LEMMA TestPort == ASSUME Inv, NEW s \in Senders, Test(s) PROVE UNCHANGED Port!vars
<1> USE DEF Inv, Test, MutexInWait
<1>1. Waiting' = Waiting /\ Reply' = Reply
  BY DEF Waiting, Reply, TypeOK
<1> QED
  BY <1>1, Invisible

(* A wake-up is not visible, or decides for a time-out. *)
LEMMA WakePort ==
  ASSUME Inv, NEW s \in Senders, Wake(s)
  PROVE  Port!Decide(s) \/ UNCHANGED Port!vars
<1> USE DEF Inv, Wake
<1>1. mutex_ = s /\ ~read_closed_
  BY OneInside DEF Inside, NoSleepAfterClose
<1>2. Waiting' = Waiting
  BY SenderTypes DEF Waiting
<1>3. CASE stale[s]
  <2>1. Reply[s] = "none" /\ Reply' = [Reply EXCEPT ![s] = "AT_ERROR_TIMEOUT"]
    BY Zenon, <1>3 DEF Reply, TypeOK
  <2> QED
    BY Zenon, <1>1, <1>2, <2>1 DEF Port!Decide, Port!Replies, Waiting, Reply
<1>4. CASE ~stale[s]
  <2>1. Reply' = Reply
    BY <1>4 DEF Reply, TypeOK
  <2> QED
    BY <1>2, <2>1, Invisible
<1> QED
  BY <1>3, <1>4

(* The collection decides the reply. *)
LEMMA CollectPort == ASSUME Inv, NEW s \in Senders, Collect(s) PROVE Port!Decide(s)
<1> USE DEF Inv, Collect
<1>1. mutex_ = s
  BY OneInside DEF Inside
<1>2. Waiting' = Waiting
  BY SenderTypes DEF Waiting
<1>3. Reply[s] = "none" /\ Reply' = [Reply EXCEPT ![s] = FinalErrno]
  BY Zenon, SenderTypes DEF Reply
<1> QED
  BY Zenon, <1>1, <1>2, <1>3 DEF Port!Decide, Port!Replies, FinalErrno, Waiting, Reply

(* Returning is leaving. *)
LEMMA ReturnPort == ASSUME Inv, NEW s \in Senders, Return(s) PROVE Port!Leave(s)
<1> USE DEF Inv, Return
<1>1. mutex_ = s
  BY OneInside DEF Inside
<1>2. Waiting' = Waiting \/ Waiting' = Waiting \cup {s}
  BY SenderTypes DEF Waiting
<1>3. Reply[s] # "none"
  BY Zenon DEF Reply, TypeOK, ATErrno
<1>4. Reply' = [Reply EXCEPT ![s] = "none"]
  BY ZenonT(30), SenderTypes DEF Reply
<1> QED
  BY Zenon, <1>1, <1>2, <1>3, <1>4 DEF Port!Leave, Waiting, Reply

(* The reader closes the port or does nothing visible. *)
LEMMA ReaderPort ==
  ASSUME Inv, ReaderStep
  PROVE  Port!Close \/ UNCHANGED Port!vars
<1>1. Waiting' = Waiting /\ Reply' = Reply /\ mutex_' = mutex_
  BY Zenon DEF ReaderStep, ReaderLoop, ProcessUnsolLine, ProcessLine, ReaderClose, NullLine,
         senderVars, channelVars, Waiting, Reply
<1>2. CASE ReaderClose
  <2>1. \A s \in Senders : Reply[s] = "none"
    BY Zenon, <1>2, FreeMutex DEF ReaderClose, ReaderMayLock, Inside, Reply
  <2> QED
    BY Zenon, <1>1, <1>2, <2>1 DEF ReaderClose, Port!Close, Waiting, Reply
<1>3. CASE ~ReaderClose
  <2>1. read_closed_' = read_closed_
    BY <1>3 DEF ReaderStep, ReaderLoop, ProcessUnsolLine, ProcessLine, NullLine, channelVars
  <2> QED
    BY <1>1, <2>1, Invisible
<1> QED
  BY <1>2, <1>3

(* Every step of the channel is a step of the port or none. *)
LEMMA PortStep == Inv /\ [Next]_vars => Port!Next \/ UNCHANGED Port!vars
<1> SUFFICES ASSUME Inv, [Next]_vars PROVE Port!Next \/ UNCHANGED Port!vars
  OBVIOUS
<1>1. CASE ReaderStep
  BY <1>1, ReaderPort DEF Port!Next
<1>2. ASSUME NEW s \in Senders, SenderStep(s) PROVE Port!Next \/ UNCHANGED Port!vars
  <2>1. CASE Release(s)
    BY Zenon, <2>1, Invisible DEF Release, channelVars, Waiting, Reply
  <2> QED
    BY Zenon, <1>2, <2>1, CallPort, LockPort, BeginPort, TestPort, WakePort, CollectPort, ReturnPort
       DEF SenderStep, Port!Next
<1>3. CASE UNCHANGED vars
  BY Zenon, <1>3, Invisible DEF vars, channelVars, senderVars, Waiting, Reply
<1> QED
  BY <1>1, <1>2, <1>3 DEF Next

(* The channel keeps the promise of CommandPort, with any number of threads:
   it serves one at a time, and AT_ERROR_CHANNEL_CLOSED is returned if and
   only if the channel is closed, and stays true until the thread has left. *)
THEOREM ChannelImplementsPort == Spec => ImplementsPort
<1>1. Init => Port!Init
  BY DEF Init, Port!Init
<1> QED
  BY <1>1, PortStep, InvHolds, PTL DEF Spec, ImplementsPort, Port!Spec
=============================================================================
