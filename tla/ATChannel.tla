------------------------------ MODULE ATChannel ------------------------------
(***************************************************************************)
(* The AT command channel (class ATChannel, src/src/channel.cc): command   *)
(* threads that send one command each under mutex_ and sleep on cond_ with *)
(* mutex_cond_, and the reader thread that runs ReaderLoop and needs       *)
(* mutex_ to hand over a line or to close the channel.                     *)
(*                                                                         *)
(* Critical sections of the reader are single steps.  A command thread     *)
(* keeps mutex_ over several steps, the ones between which the reader or   *)
(* the condition variable can act.                                         *)
(***************************************************************************)
EXTENDS ATResponse

CONSTANTS
  Senders,                \* the command threads
  None,                   \* owner of a free mutex
  Commands,               \* the calls the threads may make
  InputKinds,             \* classes of lines the modem may send
  MaxCalls,               \* bound on the number of calls
  MaxLines                \* bound on the number of lines read

ASSUME NoneAssumption == None \notin Senders
ASSUME InputAssumption == InputKinds \subseteq LineKinds
ASSUME BoundsAssumption == MaxCalls \in Nat /\ MaxLines \in Nat

(***************************************************************************)
(* A call of SendCommandFull, with the number of times its caller tries    *)
(* it.  pdu: an SMS body is passed; timed: timeoutMsec # 0; out: outRsp is *)
(* not nullptr.                                                            *)
(***************************************************************************)
Command == [type : ATCmdType, prefix : Prefixes \cup {Null}, pdu : BOOLEAN,
            timed : BOOLEAN, out : BOOLEAN, tries : Nat \ {0}]

ASSUME CommandsAssumption == Commands \subseteq Command
(* HandShake, the only caller that tries again, passes no outRsp. *)
ASSUME RetryAssumption == \A c \in Commands : c.out => c.tries = 1

SendCommand(o) ==
  [type |-> "NO_RESULT", prefix |-> Null, pdu |-> FALSE,
   timed |-> FALSE, out |-> o, tries |-> 1]

SendCommandSingleLine(p, o) ==
  [type |-> "SINGLELINE", prefix |-> p, pdu |-> FALSE,
   timed |-> FALSE, out |-> o, tries |-> 1]

SendCommandNumeric(o) ==
  [type |-> "NUMERIC", prefix |-> Null, pdu |-> FALSE,
   timed |-> FALSE, out |-> o, tries |-> 1]

SendCommandMultiLine(p, o) ==
  [type |-> "MULTILINE", prefix |-> p, pdu |-> FALSE,
   timed |-> FALSE, out |-> o, tries |-> 1]

SendCommandSms(p, o) ==
  [type |-> "SINGLELINE", prefix |-> p, pdu |-> TRUE,
   timed |-> FALSE, out |-> o, tries |-> 1]

(* HandShake: the same timed command up to HANDSHAKE_RETRY_COUNT times. *)
HandShake(retries) ==
  [type |-> "NO_RESULT", prefix |-> Null, pdu |-> FALSE,
   timed |-> TRUE, out |-> FALSE, tries |-> retries]

ATErrno == {"AT_SUCCESS", "AT_ERROR_GENERIC", "AT_ERROR_COMMAND_PENDING",
            "AT_ERROR_CHANNEL_CLOSED", "AT_ERROR_TIMEOUT", "AT_ERROR_INVALID_RESPONSE"}

VARIABLES
  mutex_, mutex_cond_,    \* owners of the two mutexes
  notified,               \* threads that notify_one has woken
  rsp_, type_, rsp_prefix_, sms_pdu_,   \* the pending command
  read_closed_, read_fd_, \* read_fd_: the descriptor is open
  live, misuse, allocs,   \* responses not yet freed; a bad free; allocations so far
  pc, cmd, attempt, stale, written, ret, out,  \* per command thread
  rpc, line, nread, delivered,   \* the reader; lines passed to unsol_handler_
  calls, crashed

channelVars == <<mutex_, mutex_cond_, notified, rsp_, type_, rsp_prefix_, sms_pdu_,
                 read_closed_, read_fd_>>
heapVars == <<live, misuse, allocs>>
senderVars == <<pc, cmd, attempt, stale, written, ret, out, calls>>
readerVars == <<rpc, line, nread, delivered, crashed>>
vars == <<channelVars, heapVars, senderVars, readerVars>>

(* The thread is between the lock of mutex_ and its release. *)
Inside == {"begin", "test", "wait", "collect", "return"}
SenderStates == {"idle", "lock"} \cup Inside
ReaderStates == {"read", "second", "process", "close", "close2", "null"}

Init ==
  /\ mutex_ = None /\ mutex_cond_ = None /\ notified = {}
  /\ rsp_ = Null /\ type_ \in ATCmdType /\ rsp_prefix_ = Null /\ sms_pdu_ = FALSE
  /\ read_closed_ = FALSE /\ read_fd_ \in BOOLEAN
  /\ live = {} /\ misuse = FALSE /\ allocs = 0
  /\ pc = [s \in Senders |-> "idle"]
  /\ cmd = [s \in Senders |-> Null]
  /\ attempt = [s \in Senders |-> 0]
  /\ stale = [s \in Senders |-> FALSE]
  /\ written = [s \in Senders |-> "AT_SUCCESS"]
  /\ ret = [s \in Senders |-> "AT_SUCCESS"]
  /\ out = [s \in Senders |-> Null]
  /\ rpc = "read" /\ line = Null /\ nread = 0 /\ delivered = << >>
  /\ calls = 0 /\ crashed = FALSE

-----------------------------------------------------------------------------
(* Memory. *)

(* FreeResponce: nothing for nullptr; freeing what is not live is an error. *)
FreeResponce(r) ==
  /\ live' = IF r = Null THEN live ELSE live \ {r.id}
  /\ misuse' = (misuse \/ (r # Null /\ r.id \notin live))

ClearPendingCommand(r) ==
  /\ FreeResponce(r)
  /\ rsp_' = Null /\ rsp_prefix_' = Null /\ sms_pdu_' = FALSE

-----------------------------------------------------------------------------
(* Command threads. *)

(* The outcomes of WriteLine on the descriptor in its present state. *)
WriteLine ==
  IF ~read_fd_ \/ read_closed_ THEN {"AT_ERROR_CHANNEL_CLOSED"}
  ELSE {"AT_SUCCESS", "AT_ERROR_GENERIC"}

(* A thread enters SendCommandFull or one of its wrappers. *)
Call(s) ==
  /\ ~crashed
  /\ pc[s] = "idle" /\ out[s] = Null /\ calls < MaxCalls
  /\ calls' = calls + 1
  /\ \E c \in Commands : cmd' = [cmd EXCEPT ![s] = c]
  /\ attempt' = [attempt EXCEPT ![s] = 1]
  /\ pc' = [pc EXCEPT ![s] = "lock"]
  /\ UNCHANGED <<channelVars, heapVars, readerVars, stale, written, ret, out>>

Lock(s) ==
  /\ ~crashed
  /\ pc[s] = "lock" /\ mutex_ = None
  /\ mutex_' = s
  /\ pc' = [pc EXCEPT ![s] = "begin"]
  /\ UNCHANGED <<mutex_cond_, notified, rsp_, type_, rsp_prefix_, sms_pdu_, read_closed_,
                 read_fd_, heapVars, readerVars, cmd, attempt, stale, written, ret, out, calls>>

(* SendCommandNoLock finds a response pending. *)
BeginPending(s) ==
  /\ ret' = [ret EXCEPT ![s] = "AT_ERROR_COMMAND_PENDING"]
  /\ ClearPendingCommand(rsp_)
  /\ pc' = [pc EXCEPT ![s] = "return"]
  /\ UNCHANGED <<mutex_cond_, type_, allocs, stale, written>>

(* Otherwise it writes the command, whose positive error codes the test
   ret < 0 lets pass, sets up the response and locks mutex_cond_.  errno is
   now what a failing system call left there, in this write or long before:
   ETIMEDOUT (stale) or something else. *)
BeginCommand(s) ==
  /\ mutex_cond_ = None
  /\ \E w \in WriteLine : written' = [written EXCEPT ![s] = w]
  /\ \E e \in BOOLEAN : stale' = [stale EXCEPT ![s] = e]
  /\ type_' = cmd[s].type
  /\ rsp_prefix_' = cmd[s].prefix
  /\ sms_pdu_' = cmd[s].pdu
  /\ allocs' = allocs + 1
  /\ rsp_' = AllocResponce(allocs')
  /\ live' = live \cup {allocs'}
  /\ mutex_cond_' = s
  /\ pc' = [pc EXCEPT ![s] = "test"]
  /\ UNCHANGED <<misuse, ret>>

Begin(s) ==
  /\ ~crashed
  /\ pc[s] = "begin"
  /\ IF rsp_ # Null THEN BeginPending(s) ELSE BeginCommand(s)
  /\ UNCHANGED <<mutex_, notified, read_closed_, read_fd_, readerVars,
                 cmd, attempt, out, calls>>

(* Faulty variant of StillPending: the loop does not look at read_closed_. *)
StillPendingIgnoringClose == rsp_.final_resp_ = Null

(* The condition of the wait loop. *)
StillPending == rsp_.final_resp_ = Null /\ ~read_closed_

(* Faulty variant of MutexInWait: cond_.wait gives up mutex_ as well. *)
MutexInWaitReleased == None

(* The owner of mutex_ during cond_.wait, which gives up mutex_cond_ only. *)
MutexInWait == mutex_

Test(s) ==
  /\ ~crashed
  /\ pc[s] = "test"
  /\ IF StillPending
       THEN /\ pc' = [pc EXCEPT ![s] = "wait"]
            /\ mutex_cond_' = None /\ mutex_' = MutexInWait
       ELSE /\ pc' = [pc EXCEPT ![s] = "collect"]
            /\ UNCHANGED <<mutex_, mutex_cond_>>
  /\ UNCHANGED <<notified, rsp_, type_, rsp_prefix_, sms_pdu_, read_closed_, read_fd_,
                 heapVars, readerVars, cmd, attempt, stale, written, ret, out, calls>>

(* cond_.wait or wait_for returns: notified, expired or spuriously.  The code
   then reads errno, which neither of them sets. *)
Wake(s) ==
  /\ ~crashed
  /\ pc[s] = "wait" /\ mutex_cond_ = None
  /\ notified' = notified \ {s}
  /\ IF stale[s]
       THEN /\ ret' = [ret EXCEPT ![s] = "AT_ERROR_TIMEOUT"]
            /\ ClearPendingCommand(rsp_)
            /\ pc' = [pc EXCEPT ![s] = "return"]
            /\ UNCHANGED mutex_cond_
       ELSE /\ pc' = [pc EXCEPT ![s] = "test"]
            /\ mutex_cond_' = s
            /\ UNCHANGED <<ret, rsp_, rsp_prefix_, sms_pdu_, live, misuse>>
  /\ UNCHANGED <<mutex_, type_, read_closed_, read_fd_, allocs, readerVars,
                 cmd, attempt, stale, written, out, calls>>

(* Faulty variant of HandOver: rsp_ is not reset before ClearPendingCommand,
   which then frees the response handed to the caller. *)
HandOverFreeing(s) ==
  /\ out' = IF cmd[s].out THEN [out EXCEPT ![s] = ReverseIntermediates(rsp_)] ELSE out
  /\ ClearPendingCommand(rsp_)

(* The response goes to the caller, or is freed when the caller wants none;
   rsp_ is nullptr by the time ClearPendingCommand runs. *)
HandOver(s) ==
  /\ IF cmd[s].out
       THEN /\ out' = [out EXCEPT ![s] = ReverseIntermediates(rsp_)]
            /\ UNCHANGED <<live, misuse>>
       ELSE /\ FreeResponce(rsp_)
            /\ UNCHANGED out
  /\ rsp_' = Null /\ rsp_prefix_' = Null /\ sms_pdu_' = FALSE

(* Faulty variant of FinalErrno: the second look at read_closed_ is missing. *)
FinalErrnoIgnoringClose == "AT_SUCCESS"

FinalErrno == IF read_closed_ THEN "AT_ERROR_CHANNEL_CLOSED" ELSE "AT_SUCCESS"

(* SendCommandNoLock after the loop. *)
Collect(s) ==
  /\ ~crashed
  /\ pc[s] = "collect"
  /\ HandOver(s)
  /\ ret' = [ret EXCEPT ![s] = FinalErrno]
  /\ mutex_cond_' = None
  /\ pc' = [pc EXCEPT ![s] = "return"]
  /\ UNCHANGED <<mutex_, notified, type_, read_closed_, read_fd_, allocs, readerVars,
                 cmd, attempt, stale, written, calls>>

(* A successful command that must have an intermediate line has none. *)
MissingIntermediate(s) ==
  /\ ret[s] = "AT_SUCCESS" /\ out[s] # Null
  /\ cmd[s].type \in {"SINGLELINE", "NUMERIC"}
  /\ out[s].success_ /\ out[s].intermediates_ = << >>

(* The arguments and locals of the call are gone. *)
LeaveScope(s) ==
  /\ cmd' = [cmd EXCEPT ![s] = Null]
  /\ attempt' = [attempt EXCEPT ![s] = 0]
  /\ stale' = [stale EXCEPT ![s] = FALSE]
  /\ written' = [written EXCEPT ![s] = "AT_SUCCESS"]

(* mutex_ is released and the wrapper looks at the result; HandShake tries
   again after a failure. *)
Return(s) ==
  /\ ~crashed
  /\ pc[s] = "return"
  /\ mutex_' = None
  /\ IF MissingIntermediate(s)
       THEN /\ FreeResponce(out[s])
            /\ out' = [out EXCEPT ![s] = Null]
            /\ ret' = [ret EXCEPT ![s] = "AT_ERROR_INVALID_RESPONSE"]
       ELSE UNCHANGED <<live, misuse, out, ret>>
  /\ IF ret[s] # "AT_SUCCESS" /\ attempt[s] < cmd[s].tries
       THEN /\ attempt' = [attempt EXCEPT ![s] = @ + 1]
            /\ pc' = [pc EXCEPT ![s] = "lock"]
            /\ UNCHANGED <<cmd, stale, written>>
       ELSE /\ pc' = [pc EXCEPT ![s] = "idle"]
            /\ LeaveScope(s)
  /\ UNCHANGED <<mutex_cond_, notified, rsp_, type_, rsp_prefix_, sms_pdu_, read_closed_,
                 read_fd_, allocs, readerVars, calls>>

(* The caller frees the response it was given. *)
Release(s) ==
  /\ ~crashed
  /\ pc[s] = "idle" /\ out[s] # Null
  /\ FreeResponce(out[s])
  /\ out' = [out EXCEPT ![s] = Null]
  /\ UNCHANGED <<channelVars, allocs, readerVars, pc, cmd, attempt, stale, written, ret, calls>>

-----------------------------------------------------------------------------
(* The reader thread. *)

(* What ReadLine may return: the next line, or nullptr on end of file or any
   read error, EAGAIN of the non-blocking descriptor included. *)
ReadLine ==
  {Null} \cup
  {[kind |-> k, n |-> nread + 1] : k \in IF read_fd_ /\ nread < MaxLines THEN InputKinds ELSE {}}

ReaderLoop ==
  /\ ~crashed
  /\ rpc = "read"
  /\ \E l \in ReadLine :
       /\ line' = l
       /\ nread' = IF l = Null THEN nread ELSE l.n
       /\ rpc' = IF l = Null THEN "close"
                 ELSE IF IsSMSUnsolicited(l) THEN "second" ELSE "process"
  /\ UNCHANGED <<channelVars, heapVars, senderVars, delivered, crashed>>

(* Faulty variant of FirstLine: the header is not copied before the buffer is
   read again. *)
FirstLineUncopied(second) == second

(* The header of an SMS notification when its second line has been read. *)
FirstLine(second) == line

(* The second line of an SMS notification; the handler runs without mutex_. *)
ProcessUnsolLine ==
  /\ ~crashed
  /\ rpc = "second"
  /\ \E l \in ReadLine :
       /\ nread' = IF l = Null THEN nread ELSE l.n
       /\ delivered' = IF l = Null THEN delivered
                       ELSE Append(delivered, [line |-> FirstLine(l), pdu |-> l])
       /\ rpc' = IF l = Null THEN "close2" ELSE "read"
  /\ UNCHANGED <<channelVars, heapVars, senderVars, line, crashed>>

(* cond_.notify_one: one sleeping thread, if there is any. *)
Sleeping == {s \in Senders : pc[s] = "wait"} \ notified
NotifyOne ==
  IF Sleeping = {} THEN UNCHANGED notified
  ELSE \E s \in Sleeping : notified' = notified \cup {s}

(* Faulty variant of ReaderMayLock: the reader does not take mutex_. *)
ReaderMayLockAlways == TRUE

(* The lock_guard of the reader's critical sections. *)
ReaderMayLock == mutex_ = None

ProcessLine ==
  /\ ~crashed
  /\ rpc = "process" /\ ReaderMayLock
  /\ LET route == Route(line, rsp_, sms_pdu_, type_, rsp_prefix_) IN
       /\ rsp_' = Routed(rsp_, line, route)
       /\ sms_pdu_' = RoutedPdu(sms_pdu_, route)
       /\ delivered' = IF route = "unsolicited"
                         THEN Append(delivered, [line |-> line, pdu |-> Null])
                         ELSE delivered
       /\ IF route = "final" THEN NotifyOne ELSE UNCHANGED notified
  /\ rpc' = "read"
  /\ UNCHANGED <<mutex_, mutex_cond_, type_, rsp_prefix_, read_closed_, read_fd_,
                 heapVars, senderVars, line, nread, crashed>>

(* After a nullptr line ReaderLoop goes on to classify it; ProcessUnsolLine
   returns. *)
ReaderClose ==
  /\ ~crashed
  /\ rpc \in {"close", "close2"} /\ ReaderMayLock
  /\ read_closed_' = TRUE
  /\ read_fd_' = (read_fd_ /\ read_closed_)
  /\ IF read_closed_ THEN UNCHANGED notified ELSE NotifyOne
  /\ rpc' = IF rpc = "close" THEN "null" ELSE "read"
  /\ UNCHANGED <<mutex_, mutex_cond_, rsp_, type_, rsp_prefix_, sms_pdu_,
                 heapVars, senderVars, line, nread, delivered, crashed>>

(* IsSMSUnsolicited(nullptr) dereferences the line: the process dies. *)
NullLine ==
  /\ ~crashed
  /\ rpc = "null"
  /\ crashed' = TRUE
  /\ UNCHANGED <<channelVars, heapVars, senderVars, rpc, line, nread, delivered>>

-----------------------------------------------------------------------------
SenderStep(s) ==
  \/ Call(s) \/ Lock(s) \/ Begin(s) \/ Test(s) \/ Wake(s) \/ Collect(s)
  \/ Return(s) \/ Release(s)

ReaderStep == ReaderLoop \/ ProcessUnsolLine \/ ProcessLine \/ ReaderClose \/ NullLine

Next == ReaderStep \/ \E s \in Senders : SenderStep(s)

Spec == Init /\ [][Next]_vars

(***************************************************************************)
(* Threads that can run do run.  Nothing obliges a thread to make a call,  *)
(* the modem to send a line, or cond_ to wake a thread spuriously; a       *)
(* notified thread and an expired wait_for do return.                      *)
(***************************************************************************)
Returns(s) == Wake(s) /\ (s \in notified \/ cmd[s].timed)

Fairness ==
  /\ \A s \in Senders :
       /\ WF_vars(Lock(s)) /\ WF_vars(Begin(s)) /\ WF_vars(Test(s))
       /\ WF_vars(Returns(s)) /\ WF_vars(Collect(s)) /\ WF_vars(Return(s))
  /\ WF_vars(ProcessLine) /\ WF_vars(ReaderClose)

FairSpec == Spec /\ Fairness

-----------------------------------------------------------------------------
(* Every variable of the channel has its type. *)
TypeOK ==
  /\ mutex_ \in Senders \cup {None} /\ mutex_cond_ \in Senders \cup {None}
  /\ notified \subseteq Senders
  /\ rsp_ \in Response \cup {Null} /\ type_ \in ATCmdType
  /\ rsp_prefix_ \in Prefixes \cup {Null} /\ sms_pdu_ \in BOOLEAN
  /\ read_closed_ \in BOOLEAN /\ read_fd_ \in BOOLEAN
  /\ live \subseteq Nat /\ misuse \in BOOLEAN /\ allocs \in Nat
  /\ pc \in [Senders -> SenderStates]
  /\ cmd \in [Senders -> Command \cup {Null}]
  /\ attempt \in [Senders -> Nat] /\ stale \in [Senders -> BOOLEAN]
  /\ written \in [Senders -> ATErrno] /\ ret \in [Senders -> ATErrno]
  /\ out \in [Senders -> Response \cup {Null}]
  /\ rpc \in ReaderStates /\ line \in Line \cup {Null} /\ nread \in Nat
  /\ delivered \in Seq([line : Line, pdu : Line \cup {Null}])
  /\ calls \in Nat /\ crashed \in BOOLEAN

(***************************************************************************)
(* A pending response belongs to the one thread that holds mutex_ and is   *)
(* past the set-up of its command, so AT_ERROR_COMMAND_PENDING, whose path *)
(* would free another thread's response, is never returned                 *)
(* (SendCommandNoLock).                                                    *)
(***************************************************************************)
PendingOwned ==
  /\ rsp_ # Null => \E s \in Senders : mutex_ = s /\ pc[s] \in {"test", "wait", "collect"}
  /\ \A s \in Senders : ret[s] # "AT_ERROR_COMMAND_PENDING"

(***************************************************************************)
(* No thread sleeps on cond_ once the channel is closed: the wake-up of    *)
(* ReaderClose cannot be lost between the loop test and the wait, although *)
(* ReaderClose does not take mutex_cond_.                                  *)
(***************************************************************************)
NoSleepAfterClose ==
  \A s \in Senders : pc[s] = "wait" => ~read_closed_

(***************************************************************************)
(* Responses are freed exactly once: no free of a freed response, and the  *)
(* responses not yet freed are the pending one and those handed to a       *)
(* caller (SendCommandNoLock, ClearPendingCommand, FreeResponce).          *)
(***************************************************************************)
Referenced == (IF rsp_ = Null THEN {} ELSE {rsp_.id})
              \cup {out[s].id : s \in {t \in Senders : out[t] # Null}}

ResponsesFreedOnce ==
  /\ ~misuse
  /\ live = Referenced
  /\ \A s, t \in Senders : out[s] # Null /\ out[t] # Null /\ out[s].id = out[t].id => s = t

(***************************************************************************)
(* unsol_handler_ sees the modem's lines in the order they were sent, each *)
(* at most once, and the header of an SMS notification together with the   *)
(* line that follows it (ReaderLoop, ProcessUnsolLine, ProcessLine).       *)
(***************************************************************************)
LastLine(d) == IF d.pdu = Null THEN d.line.n ELSE d.pdu.n

DeliveredInOrder ==
  /\ \A i \in 1..Len(delivered) :
       LET d == delivered[i] IN
       IF IsSMSUnsolicited(d.line) THEN d.pdu # Null /\ d.pdu.n = d.line.n + 1 ELSE d.pdu = Null
  /\ \A i \in 1..Len(delivered) - 1 : LastLine(delivered[i]) < delivered[i + 1].line.n

(***************************************************************************)
(* The channel keeps the promise of CommandPort: mutex_ serves one thread  *)
(* at a time, and what SendCommandNoLock returns agrees with read_closed_  *)
(* until the thread has left.                                              *)
(***************************************************************************)
Port == INSTANCE CommandPort WITH
  busy <- mutex_,
  waiting <- {s \in Senders : pc[s] = "lock"},
  reply <- [s \in Senders |-> IF pc[s] = "return" THEN ret[s] ELSE "none"],
  open <- ~read_closed_

ImplementsPort == Port!Spec

(***************************************************************************)
(* Once the channel is closed every call comes back, unless the process    *)
(* is gone (SendCommandFull after ReaderClose).                            *)
(***************************************************************************)
ClosedCallsReturn ==
  \A s \in Senders : read_closed_ /\ pc[s] # "idle" ~> pc[s] = "idle" \/ crashed

(***************************************************************************)
(* A call with a time-out comes back: "timeoutMsec == 0 means infinite     *)
(* timeout" for SendCommandNoLock, and HandShake relies on the others to   *)
(* end.                                                                    *)
(***************************************************************************)
TimedCallsReturn ==
  \A s \in Senders : pc[s] = "wait" /\ cmd[s].timed ~> pc[s] = "idle" \/ crashed

(***************************************************************************)
(* A command whose final response the reader has in hand is completed by   *)
(* it: the thread "wait[s] for a response".                                *)
(***************************************************************************)
AnsweredCallsReturn ==
  \A s \in Senders :
    pc[s] = "wait" /\ rpc = "process" /\ line.kind = "success" ~> pc[s] = "idle" \/ crashed

(***************************************************************************)
(* No thread waits for the answer to a command that WriteLine could not    *)
(* send: WriteLine "Returns AT_ERROR_* on error, 0 on success".            *)
(***************************************************************************)
FailedWriteReported ==
  \A s \in Senders : pc[s] = "wait" => written[s] = "AT_SUCCESS"
=============================================================================
