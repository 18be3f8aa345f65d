--------------------------- MODULE ATCommandProofs ---------------------------
(***************************************************************************)
(* Proofs about module ATCommand, for any lines and any number of calls.   *)
(***************************************************************************)
EXTENDS ATCommand, SequenceTheorems, TLAPS

Registered == {"send_command_numberic_", "send_command_singleline_", "send_command_mutiline_",
               "alloc_resp_", "free_resp_", "get_cme_error_"}

Codes == {AT_SUCCESS, AT_ERROR_CHANNEL_CLOSED, AT_ERROR_TIMEOUT, AT_ERROR_INVALID_RESPONSE}

Typed == TypeOK /\ allocs \in Nat

-----------------------------------------------------------------------------
(* What the channel answers. *)

(* A response that was not there before. *)
Fresh(r) ==
  /\ r \in Responses /\ r.id = allocs + 1 /\ Len(r.lines) <= MaxLines
  /\ r.success_ \/ r.lines = << >>

(* The channel hands out a new response, unless no line came or the time is up. *)
Answered(a) ==
  \/ Fresh(a.rsp) /\ a.ret \in {AT_SUCCESS, AT_ERROR_CHANNEL_CLOSED}
     /\ (closed => a.ret = AT_ERROR_CHANNEL_CLOSED)
  \/ ~closed /\ a.ret = AT_ERROR_INVALID_RESPONSE /\ a.rsp = Null
  \/ ~closed /\ a.ret = AT_ERROR_TIMEOUT /\ a.rsp = rsp

(* The line lists of a response are within the bound. *)
LEMMA LineListTypes ==
  ASSUME NEW cb, NEW l \in LineLists(cb) \cup {<< >>}
  PROVE  l \in Seq(Lines) /\ Len(l) <= MaxLines
<1>1. CASE l = << >>
  BY <1>1, BoundsAssumption
<1>2. CASE l # << >>
  <2>1. \E n \in 0..MaxLines : l \in [1..n -> Lines]
    <3>1. 1 \in 0..MaxLines
      BY BoundsAssumption
    <3> QED
      BY Zenon, <1>2, <3>1 DEF LineLists
  <2>2. PICK n \in 0..MaxLines : l \in [1..n -> Lines]
    BY <2>1
  <2> QED
    BY <2>2, BoundsAssumption
<1> QED
  BY <1>1, <1>2

(* Response makes a response that was not there before. *)
LEMMA ResponseFresh ==
  ASSUME allocs \in Nat, NEW success \in BOOLEAN, NEW e \in CmeErrors,
         NEW l \in Seq(Lines), Len(l) <= MaxLines, success \/ l = << >>
  PROVE  Fresh(Response(success, e, l))
BY DEF Fresh, Response, Responses

(* Every answer is of one of these kinds. *)
LEMMA AnswerKinds ==
  ASSUME allocs \in Nat, NEW cb, NEW a \in Answers(cb)
  PROVE  Answered(a)
<1> DEFINE cut == {[ret |-> AT_ERROR_CHANNEL_CLOSED, rsp |-> Response(FALSE, "none", << >>)]}
           closing == cut \cup
             {[ret |-> AT_ERROR_CHANNEL_CLOSED, rsp |-> Response(TRUE, "none", l)] :
                 l \in LineLists(cb) \cup {<< >>}}
           answered ==
             {[ret |-> AT_SUCCESS, rsp |-> Response(TRUE, "none", l)] : l \in LineLists(cb)}
             \cup {[ret |-> AT_SUCCESS, rsp |-> Response(FALSE, e, << >>)] : e \in CmeErrors}
           missing == IF cb = "send_command_mutiline_" THEN {}
                      ELSE {[ret |-> AT_ERROR_INVALID_RESPONSE, rsp |-> Null]}
           timeout == {[ret |-> AT_ERROR_TIMEOUT, rsp |-> rsp]}
<1>1. \/ a \in cut
      \/ ~closed /\ a \in closing \cup answered \cup missing \cup timeout
  BY Zenon DEF Answers
<1>2. CASE a \in cut
  <2>1. "none" \in CmeErrors /\ << >> \in Seq(Lines) /\ Len(<< >>) <= MaxLines
    BY BoundsAssumption DEF CmeErrors
  <2>2. Fresh(Response(FALSE, "none", << >>))
    BY Zenon, <2>1, ResponseFresh
  <2>3. /\ a.ret = AT_ERROR_CHANNEL_CLOSED
        /\ a.rsp = Response(FALSE, "none", << >>)
    <3> DEFINE r == Response(FALSE, "none", << >>)
    <3>1. a = [ret |-> AT_ERROR_CHANNEL_CLOSED, rsp |-> r]
      BY Zenon, <1>2
    <3> HIDE DEF r
    <3>2. a.ret = AT_ERROR_CHANNEL_CLOSED /\ a.rsp = r
      BY <3>1
    <3> QED
      BY <3>2 DEF r
  <2> QED
    BY Zenon, <2>2, <2>3 DEF Answered
<1>3. CASE ~closed /\ a \in closing \ cut
  <2>1. PICK l \in LineLists(cb) \cup {<< >>} :
          a = [ret |-> AT_ERROR_CHANNEL_CLOSED, rsp |-> Response(TRUE, "none", l)]
    BY Zenon, <1>3
  <2>2. Fresh(Response(TRUE, "none", l))
    BY Zenon, LineListTypes, ResponseFresh DEF CmeErrors
  <2> QED
    BY Zenon, <2>1, <2>2 DEF Answered
<1>4. CASE ~closed /\ a \in answered
  <2>1. CASE \E l \in LineLists(cb) : a = [ret |-> AT_SUCCESS, rsp |-> Response(TRUE, "none", l)]
    <3>1. PICK l \in LineLists(cb) : a = [ret |-> AT_SUCCESS, rsp |-> Response(TRUE, "none", l)]
      BY Zenon, <2>1
    <3>2. Fresh(Response(TRUE, "none", l))
      BY Zenon, LineListTypes, ResponseFresh DEF CmeErrors
    <3> QED
      BY Zenon, <1>4, <3>1, <3>2 DEF Answered
  <2>2. CASE \E e \in CmeErrors : a = [ret |-> AT_SUCCESS, rsp |-> Response(FALSE, e, << >>)]
    <3>1. PICK e \in CmeErrors : a = [ret |-> AT_SUCCESS, rsp |-> Response(FALSE, e, << >>)]
      BY Zenon, <2>2
    <3>2. << >> \in Seq(Lines) /\ Len(<< >>) <= MaxLines
      BY BoundsAssumption
    <3>3. Fresh(Response(FALSE, e, << >>))
      BY Zenon, <3>2, ResponseFresh
    <3> QED
      BY Zenon, <1>4, <3>1, <3>3 DEF Answered
  <2> QED
    BY Zenon, <1>4, <2>1, <2>2
<1>5. CASE ~closed /\ a \in missing \cup timeout
  BY <1>5 DEF Answered
<1> QED
  BY Zenon, <1>1, <1>2, <1>3, <1>4, <1>5

-----------------------------------------------------------------------------
(* Types. *)

(* free_resp_ takes at most the one response from the heap. *)
LEMMA FreeTypes ==
  ASSUME Typed, FreeRsp
  PROVE  live' \subseteq live /\ misuse' \in BOOLEAN
<1>1. misuse \in BOOLEAN
  BY DEF Typed, TypeOK
<1>2. CASE rsp \in {Null, Garbage}
  BY Zenon, <1>1, <1>2 DEF FreeRsp
<1>3. CASE rsp \notin {Null, Garbage}
  <2>1. live' = live \ {rsp.id} /\ misuse' = (misuse \/ rsp.id \notin live)
    BY Zenon, <1>3 DEF FreeRsp
  <2> QED
    BY <2>1
<1> QED
  BY <1>2, <1>3

(* An operation that returns. *)
LEMMA FinishTypes ==
  ASSUME Typed, NEW r \in SimResults \cup {"none"}, Finish(r),
         live' \subseteq live, misuse' \in BOOLEAN,
         UNCHANGED <<closed, allocs, reply, dead, calls>>
  PROVE  Typed'
<1>1. /\ op' = "none" /\ script' = << >> /\ rsp' = Null /\ ret' = AT_SUCCESS
      /\ result' \in SimResults \cup {"none"}
  BY DEF Finish
<1>2. reply' = Null \/ IsResponse(reply)'
  BY DEF Typed, TypeOK, IsResponse
<1>3. /\ live' \subseteq 1..allocs' /\ allocs' \in Nat /\ calls' \in 0..MaxCalls
      /\ closed' \in BOOLEAN /\ dead' \in BOOLEAN
  BY DEF Typed, TypeOK
<1> QED
  BY <1>1, <1>2, <1>3 DEF Typed, TypeOK

(* A step that leaves the locals, the heap and the channel alone. *)
LEMMA StillTypes ==
  ASSUME Typed, op # "none",
         UNCHANGED <<op, ret, rsp, closed, heap, reply, result, calls>>, dead' \in BOOLEAN
  PROVE  Typed'
<1>1. /\ op' \in Ops \cup {"none"} /\ op' # "none" /\ ret' \in Codes
      /\ live' \subseteq 1..allocs' /\ calls' \in 0..MaxCalls /\ allocs' \in Nat
      /\ closed' \in BOOLEAN /\ misuse' \in BOOLEAN /\ result' \in SimResults \cup {"none"}
  BY DEF Typed, TypeOK, heap, Codes
<1>2. (rsp \in {Null, Garbage} \/ IsResponse(rsp))' /\ (reply = Null \/ IsResponse(reply))'
  BY DEF Typed, TypeOK, IsResponse, heap
<1> QED
  BY <1>1, <1>2 DEF Typed, TypeOK, Codes

(* An instruction is left only while an operation runs. *)
LEMMA AtRuns == ASSUME Typed, NEW k, At(k) PROVE op # "none" /\ ~dead
BY DEF Typed, TypeOK, At

(* The callback answers. *)
LEMMA SendTypes == ASSUME Typed, DoSend PROVE Typed'
<1> DEFINE instr == Head(script)
<1>1. op # "none" /\ ~dead /\ calls' = calls
  BY AtRuns DEF DoSend
<1>2. \/ Die
      \/ UNCHANGED <<op, locals, closed, heap, reply, result, dead>>
      \/ \E a \in Answers(instr.cb) :
            /\ ret' = a.ret /\ closed' = (a.ret = AT_ERROR_CHANNEL_CLOSED)
            /\ rsp' = IF instr.out THEN a.rsp ELSE rsp
            /\ IF rsp' \in {Null, rsp}
                 THEN UNCHANGED <<allocs, live>>
                 ELSE allocs' = allocs + 1 /\ live' = live \cup {allocs'}
            /\ reply' = IF instr.out /\ a.ret = AT_SUCCESS THEN a.rsp ELSE Null
            /\ script' = Tail(script)
            /\ UNCHANGED <<op, cur, word, misuse, result, dead>>
  BY Zenon DEF DoSend
<1>3. CASE Die
  BY <1>1, <1>3, StillTypes DEF Die, locals
<1>4. CASE UNCHANGED <<op, locals, closed, heap, reply, result, dead>>
  <2>1. dead' \in BOOLEAN
    BY <1>4 DEF Typed, TypeOK
  <2> QED
    BY <1>1, <1>4, <2>1, StillTypes DEF locals
<1>5. ASSUME NEW a \in Answers(instr.cb),
             ret' = a.ret, closed' = (a.ret = AT_ERROR_CHANNEL_CLOSED),
             rsp' = IF instr.out THEN a.rsp ELSE rsp,
             IF rsp' \in {Null, rsp}
               THEN UNCHANGED <<allocs, live>>
               ELSE allocs' = allocs + 1 /\ live' = live \cup {allocs'},
             reply' = IF instr.out /\ a.ret = AT_SUCCESS THEN a.rsp ELSE Null,
             UNCHANGED <<op, cur, word, misuse, result, dead>>
      PROVE  Typed'
  <2>1. Answered(a) /\ allocs \in Nat
    BY AnswerKinds DEF Typed
  <2>2. rsp \in {Null, Garbage} \/ IsResponse(rsp)
    BY DEF Typed, TypeOK
  <2>3. Fresh(a.rsp) => a.rsp \notin {Null, Garbage, rsp}
    <3>1. ASSUME Fresh(a.rsp), a.rsp = rsp PROVE FALSE
      <4>1. IsResponse(rsp)
        BY <2>2, <3>1, NullAssumption DEF Fresh
      <4> QED
        BY <2>1, <3>1, <4>1 DEF Fresh, IsResponse
    <3> QED
      BY <3>1, NullAssumption DEF Fresh
  <2>4. CASE instr.out /\ Fresh(a.rsp)
    <3>1. rsp' = a.rsp /\ allocs' = allocs + 1 /\ live' = live \cup {allocs + 1}
      BY Zenon, <1>5, <2>3, <2>4
    <3>2. IsResponse(rsp)' /\ (reply' = Null \/ reply' = rsp')
      BY <1>5, <2>1, <2>4, <3>1 DEF IsResponse, Fresh
    <3>3. live' \subseteq 1..allocs' /\ allocs' \in Nat
      BY <2>1, <3>1 DEF Typed, TypeOK
    <3>4. ret' \in Codes
      BY <1>5, <2>1 DEF Answered, Codes
    <3>5. IsResponse(reply)' \/ reply' = Null
      BY <3>2 DEF IsResponse
    <3> QED
      BY <1>1, <1>5, <3>2, <3>3, <3>4, <3>5 DEF Typed, TypeOK, Codes
  <2>5. CASE ~(instr.out /\ Fresh(a.rsp))
    <3>1. rsp' \in {Null, rsp}
      BY <1>5, <2>1, <2>5 DEF Answered
    <3>2. allocs' = allocs /\ live' = live
      BY <1>5, <3>1
    <3>3. reply' = Null
      BY <1>5, <2>1, <2>5 DEF Answered, AT_SUCCESS, AT_ERROR_INVALID_RESPONSE, AT_ERROR_TIMEOUT
    <3>4. ret' \in Codes
      BY <1>5, <2>1 DEF Answered, Codes
    <3>5. (rsp \in {Null, Garbage} \/ IsResponse(rsp))'
      BY <2>2, <3>1, <3>2 DEF IsResponse
    <3> QED
      BY <1>1, <1>5, <3>2, <3>3, <3>4, <3>5 DEF Typed, TypeOK, Codes
  <2> QED
    BY <2>4, <2>5
<1> QED
  BY <1>2, <1>3, <1>4, <1>5

(* The results of getSIMStatus. *)
LEMMA StatusTypes == \A w : SimStatus(w) \in SimResults
BY DEF SimStatus, SimResults

(* A test of the last command. *)
LEMMA TestTypes == ASSUME Typed, DoTest PROVE Typed'
<1>1. op # "none" /\ calls' = calls
  BY AtRuns DEF DoTest
<1>2. \/ Die
      \/ FreeRsp /\ Finish("none") /\ UNCHANGED <<closed, allocs, reply, dead>>
      \/ UNCHANGED <<op, locals, closed, heap, reply, result, dead>>
      \/ (FreeRsp \/ UNCHANGED <<live, misuse>>) /\ Finish("SIM_NOT_READY")
         /\ UNCHANGED <<closed, allocs, reply, dead>>
  BY Zenon DEF DoTest
<1>3. CASE Die
  BY <1>1, <1>3, StillTypes DEF Die, locals
<1>4. CASE UNCHANGED <<op, locals, closed, heap, reply, result, dead>>
  BY <1>1, <1>4, StillTypes DEF locals, Typed, TypeOK
<1>5. ASSUME NEW r \in {"none", "SIM_NOT_READY"}, Finish(r),
             FreeRsp \/ UNCHANGED <<live, misuse>>, UNCHANGED <<closed, allocs, reply, dead>>
      PROVE  Typed'
  <2>1. live' \subseteq live /\ misuse' \in BOOLEAN
    BY <1>5, FreeTypes DEF Typed, TypeOK
  <2>2. r \in SimResults \cup {"none"}
    BY DEF SimResults
  <2> QED
    BY <1>1, <1>5, <2>1, <2>2, FinishTypes
<1> QED
  BY <1>2, <1>3, <1>4, <1>5

(* A token of a line. *)
LEMMA TokTypes == ASSUME Typed, DoTok PROVE Typed'
<1>1. op # "none" /\ calls' = calls
  BY AtRuns DEF DoTok
<1>2. \/ Die
      \/ UNCHANGED <<op, locals, closed, heap, reply, result, dead>>
      \/ UNCHANGED <<op, ret, rsp, closed, heap, reply, result, dead>>
      \/ FreeRsp /\ Finish("SIM_NOT_READY") /\ UNCHANGED <<closed, allocs, reply, dead>>
  BY Zenon DEF DoTok
<1>3. CASE Die
  BY <1>1, <1>3, StillTypes DEF Die, locals
<1>4. CASE UNCHANGED <<op, locals, closed, heap, reply, result, dead>>
  BY <1>1, <1>4, StillTypes DEF locals, Typed, TypeOK
<1>5. CASE UNCHANGED <<op, ret, rsp, closed, heap, reply, result, dead>>
  BY <1>1, <1>5, StillTypes DEF Typed, TypeOK
<1>6. CASE FreeRsp /\ Finish("SIM_NOT_READY") /\ UNCHANGED <<closed, allocs, reply, dead>>
  BY <1>1, <1>6, FreeTypes, FinishTypes DEF SimResults
<1> QED
  BY <1>2, <1>3, <1>4, <1>5, <1>6

(* The switch of getSIMStatus. *)
LEMMA CmeTypes == ASSUME Typed, DoCme PROVE Typed'
<1>1. op # "none" /\ UNCHANGED <<calls, closed, reply, dead>>
  BY AtRuns DEF DoCme
<1>2. CASE UNCHANGED <<op, locals, heap, result>>
  BY <1>1, <1>2, StillTypes DEF locals, Typed, TypeOK
<1>3. ASSUME NEW r \in {"SIM_ABSENT", "SIM_NOT_READY"}, Finish(r), FreeRsp, UNCHANGED allocs
      PROVE  Typed'
  <2>1. r \in SimResults \cup {"none"}
    BY DEF SimResults
  <2> QED
    BY <1>1, <1>3, <2>1, FreeTypes, FinishTypes
<1> QED
  BY <1>2, <1>3 DEF DoCme

(* free_resp_ *)
LEMMA FreeStepTypes == ASSUME Typed, DoFree PROVE Typed'
<1>1. op # "none" /\ UNCHANGED <<op, locals, closed, allocs, reply, result, calls, dead>>
  BY AtRuns DEF DoFree
<1>2. live' \subseteq live /\ misuse' \in BOOLEAN
  BY FreeTypes DEF DoFree
<1>3. (rsp \in {Null, Garbage} \/ IsResponse(rsp))' /\ (reply = Null \/ IsResponse(reply))'
  BY <1>1 DEF Typed, TypeOK, IsResponse, locals
<1> QED
  BY <1>1, <1>2, <1>3 DEF Typed, TypeOK, locals

(* The start and the end of an operation. *)
LEMMA CallTypes == ASSUME Typed, NEW o \in Ops, Call(o) PROVE Typed'
<1>1. o # "none"
  BY OpsAssumption DEF Operations
<1>2. /\ op' = o /\ rsp' \in {Null, Garbage} /\ ret' = AT_SUCCESS /\ reply' = Null
      /\ result' = "none" /\ calls' = calls + 1 /\ calls < MaxCalls
      /\ UNCHANGED <<closed, live, misuse, allocs, dead>>
  BY DEF Call, heap
<1>3. calls' \in 0..MaxCalls
  BY <1>2, BoundsAssumption DEF Typed, TypeOK
<1> QED
  BY <1>1, <1>2, <1>3 DEF Typed, TypeOK

LEMMA ReturnTypes == ASSUME Typed, Return PROVE Typed'
<1>1. /\ Finish(SimStatus(word)) /\ UNCHANGED <<closed, live, misuse, allocs, reply, calls, dead>>
  BY DEF Return, heap
<1>2. SimStatus(word) \in SimResults \cup {"none"} /\ misuse' \in BOOLEAN /\ live' \subseteq live
  BY <1>1, StatusTypes DEF Typed, TypeOK
<1> QED
  BY <1>1, <1>2, FinishTypes

LEMMA InitTypes == Init => Typed
<1> SUFFICES ASSUME Init PROVE Typed
  OBVIOUS
<1>1. calls \in 0..MaxCalls /\ allocs \in Nat /\ live \subseteq 1..allocs
  <2>1. calls = 0 /\ allocs = 0 /\ live = {}
    BY DEF Init
  <2>2. 0 \in 0..MaxCalls
    BY BoundsAssumption
  <2> QED
    BY <2>1, <2>2
<1> QED
  BY <1>1 DEF Init, Typed, TypeOK

LEMMA NextTypes == Typed /\ [Next]_vars => Typed'
<1> SUFFICES ASSUME Typed, [Next]_vars PROVE Typed'
  OBVIOUS
<1>1. CASE SetSendCommandCb \/ UNCHANGED vars
  <2>1. UNCHANGED <<op, script, locals, closed, heap, reply, result, calls, dead>>
    BY <1>1 DEF SetSendCommandCb, vars
  <2>2. (rsp \in {Null, Garbage} \/ IsResponse(rsp))' /\ (reply = Null \/ IsResponse(reply))'
    BY <2>1 DEF Typed, TypeOK, IsResponse, locals, heap
  <2> QED
    BY <2>1, <2>2 DEF Typed, TypeOK, locals, heap
<1> QED
  BY <1>1, CallTypes, SendTypes, TestTypes, TokTypes, CmeTypes, FreeStepTypes, ReturnTypes DEF Next

(***************************************************************************)
(* The locals of the operations, the heap and the channel keep their       *)
(* types: what an operation holds is nullptr, an uninitialised pointer or  *)
(* a response the channel has handed out.                                  *)
(***************************************************************************)
THEOREM CommandTypes == Spec => []TypeOK
<1>1. Typed => TypeOK
  BY DEF Typed
<1> QED
  BY <1>1, InitTypes, NextTypes, PTL DEF Spec

-----------------------------------------------------------------------------
(* What is left of the operations that get as far as a response. *)

Rest1 == <<Free>>
Rest2(k) == <<Tok(k, 1), Free>>
Rest3(k) == <<Test("unsuccessful", TRUE), Tok(k, 1), Free>>
Query(k) == <<SingleLine("always"), Test("unsuccessful", TRUE), Tok(k, 1), Free>>

Sim3 == <<Cme, Tok("str", 1), Free>>
Sim4 == <<Test("failed", TRUE), Cme, Tok("str", 1), Free>>
Sim5 == <<SingleLine("failed"), Test("failed", TRUE), Cme, Tok("str", 1), Free>>

(* The operations that send a command without a response first: send_command_
   is empty, and they get no further. *)
Plainly == {"initModem", "getNetMode", "setAudio", "clearAPNS", "setErrorLevel", "setPinCode",
            "setCall", "listOperators", "getNetStatus", "readSMS", "setAPNS", "getSIMLock",
            "setSignalNotify", "setSMSFormat"}
Queries == {"getModem", "getRadioState", "setRadioState"}
Silent == {"getOperator", "setNetSearchType", "setTTS"}

(* The operations that keep to the ownership of responses. *)
Owning == Plainly \cup Queries \cup Silent \cup {"getSIMStatus"}

(* Head and Tail of short sequences. *)
LEMMA OneOrTwo ==
  ASSUME NEW a, NEW b
  PROVE  /\ <<a>> # << >> /\ Head(<<a>>) = a
         /\ <<a, b>> # << >> /\ Head(<<a, b>>) = a
OBVIOUS

(* The first instruction of each and what is left after it. *)
LEMMA RestSteps ==
  /\ Rest1 # << >> /\ Head(Rest1) = Free /\ Tail(Rest1) = << >>
  /\ \A k : Rest2(k) # << >> /\ Head(Rest2(k)) = Tok(k, 1) /\ Tail(Rest2(k)) = Rest1
  /\ \A k : /\ Rest3(k) # << >> /\ Head(Rest3(k)) = Test("unsuccessful", TRUE)
            /\ Tail(Rest3(k)) = Rest2(k)
  /\ \A k : /\ Query(k) # << >> /\ Head(Query(k)) = SingleLine("always")
            /\ Tail(Query(k)) = Rest3(k)
<1>1. Rest1 # << >> /\ Head(Rest1) = Free /\ Tail(Rest1) = << >>
  BY DEF Rest1
<1>2. ASSUME NEW k
      PROVE  Rest2(k) # << >> /\ Head(Rest2(k)) = Tok(k, 1) /\ Tail(Rest2(k)) = Rest1
  BY DEF Rest1, Rest2
<1>3. ASSUME NEW k
      PROVE  /\ Rest3(k) # << >> /\ Head(Rest3(k)) = Test("unsuccessful", TRUE)
             /\ Tail(Rest3(k)) = Rest2(k)
  BY DEF Rest2, Rest3
<1>4. ASSUME NEW k
      PROVE  /\ Query(k) # << >> /\ Head(Query(k)) = SingleLine("always")
             /\ Tail(Query(k)) = Rest3(k)
  <2> DEFINE a == SingleLine("always")
             b == Test("unsuccessful", TRUE)
             c == Tok(k, 1)
  <2>1. Query(k) = <<a, b, c, Free>> /\ Rest3(k) = <<b, c, Free>>
    BY Zenon DEF Query, Rest3
  <2> HIDE DEF a, b, c
  <2>2. Query(k) # << >> /\ Head(Query(k)) = a /\ Tail(Query(k)) = Rest3(k)
    BY <2>1
  <2> QED
    BY <2>2 DEF a
<1> QED
  BY Zenon, <1>1, <1>2, <1>3, <1>4

LEMMA SimSteps ==
  /\ Sim3 # << >> /\ Head(Sim3) = Cme /\ Tail(Sim3) = Rest2("str")
  /\ Sim4 # << >> /\ Head(Sim4) = Test("failed", TRUE) /\ Tail(Sim4) = Sim3
  /\ Sim5 # << >> /\ Head(Sim5) = SingleLine("failed") /\ Tail(Sim5) = Sim4
  /\ getSIMStatus # << >> /\ Head(getSIMStatus) = SingleLine("always")
  /\ Tail(getSIMStatus) = Sim5
<1>1. Sim3 # << >> /\ Head(Sim3) = Cme /\ Tail(Sim3) = Rest2("str")
  BY DEF Rest2, Sim3
<1>2. Sim4 # << >> /\ Head(Sim4) = Test("failed", TRUE) /\ Tail(Sim4) = Sim3
  <2> DEFINE a == Test("failed", TRUE)
             c == Tok("str", 1)
  <2>1. Sim4 = <<a, Cme, c, Free>> /\ Sim3 = <<Cme, c, Free>>
    BY Zenon DEF Sim3, Sim4
  <2> HIDE DEF a, c
  <2>2. Sim4 # << >> /\ Head(Sim4) = a /\ Tail(Sim4) = Sim3
    BY <2>1
  <2> QED
    BY Zenon, <2>2 DEF a
<1>3. Sim5 # << >> /\ Head(Sim5) = SingleLine("failed") /\ Tail(Sim5) = Sim4
  <2> DEFINE a == SingleLine("failed")
             b == Test("failed", TRUE)
             c == Tok("str", 1)
  <2>1. Sim5 = <<a, b, Cme, c, Free>> /\ Sim4 = <<b, Cme, c, Free>>
    BY Zenon DEF Sim4, Sim5
  <2> HIDE DEF a, b, c
  <2>2. Sim5 # << >> /\ Head(Sim5) = a /\ Tail(Sim5) = Sim4
    BY <2>1
  <2> QED
    BY <2>2 DEF a
<1>4. /\ getSIMStatus # << >> /\ Head(getSIMStatus) = SingleLine("always")
      /\ Tail(getSIMStatus) = Sim5
  <2> DEFINE a == SingleLine("always")
             b == SingleLine("failed")
             c == Test("failed", TRUE)
             d == Tok("str", 1)
  <2>1. getSIMStatus = <<a, b, c, Cme, d, Free>> /\ Sim5 = <<b, c, Cme, d, Free>>
    BY Zenon DEF Sim5, getSIMStatus
  <2> HIDE DEF a, b, c, d
  <2>2. getSIMStatus # << >> /\ Head(getSIMStatus) = a /\ Tail(getSIMStatus) = Sim5
    BY <2>1
  <2> QED
    BY <2>2 DEF a
<1> QED
  BY Zenon, <1>1, <1>2, <1>3, <1>4

(* A repeated instruction comes first. *)
LEMMA Repeated ==
  ASSUME NEW i, NEW n \in Nat, n > 0
  PROVE  /\ Repeat(i, n) # << >> /\ Head(Repeat(i, n)) = i
         /\ Repeat(i, n) \in Seq({i}) /\ Len(Repeat(i, n)) = n /\ Repeat(i, n)[1] = i
BY DEF Repeat

(* What comes first stays first. *)
LEMMA HeadOfConcat ==
  ASSUME NEW S, NEW s \in Seq(S), NEW t \in Seq(S), Len(s) > 0
  PROVE  s \o t # << >> /\ Head(s \o t) = s[1]
<1> DEFINE u == s \o t
<1>1. u \in Seq(S) /\ Len(u) > 0 /\ u[1] = s[1]
  OBVIOUS
<1> HIDE DEF u
<1>2. u # << >> /\ Head(u) = s[1]
  BY <1>1
<1> QED
  BY <1>2 DEF u

(* The scripts of the operations that keep to the ownership. *)
LEMMA OwningScripts ==
  /\ \A o \in Plainly : Script(o) # << >> /\ Head(Script(o)) = Plain
  /\ \A o \in Queries : Script(o) \in {Query("str"), Query("bool")}
  /\ \A o \in Silent : Script(o) = << >>
  /\ Script("getSIMStatus") = getSIMStatus
<1>1. ASSUME NEW o \in Plainly PROVE Script(o) # << >> /\ Head(Script(o)) = Plain
  <2>1. CASE o = "initModem"
    <3> DEFINE S == {Plain, Send("send_command_", TRUE, "always"),
                     Send("send_command_", FALSE, "unsuccessful"), Free}
               x == Repeat(Plain, 5)
               y == <<Send("send_command_", TRUE, "always"),
                      Send("send_command_", FALSE, "unsuccessful"), Free>>
               z == Repeat(Plain, 8)
    <3>1. Script(o) = (x \o y) \o z
      BY <2>1 DEF Script, initModem
    <3>2. x \in Seq({Plain}) /\ Len(x) = 5 /\ x[1] = Plain /\ z \in Seq({Plain})
      <4>1. 5 \in Nat /\ 5 > 0 /\ 8 \in Nat /\ 8 > 0
        OBVIOUS
      <4> QED
        BY Zenon, <4>1, Repeated
    <3>3. y \in Seq(S) /\ {Plain} \subseteq S
      OBVIOUS
    <3> HIDE DEF x, y, z, S
    <3>4. x \in Seq(S) /\ z \in Seq(S)
      BY <3>2, <3>3
    <3>5. x \o y \in Seq(S) /\ Len(x \o y) > 0 /\ (x \o y)[1] = Plain
      <4>1. x \o y \in Seq(S) /\ Len(x \o y) = Len(x) + Len(y) /\ Len(y) \in Nat
        BY <3>3, <3>4, ConcatProperties, LenProperties
      <4>2. (x \o y)[1] = x[1]
        <5>1. 1 \in 1..Len(x) + Len(y) /\ 1 <= Len(x)
          BY <3>2, <4>1
        <5> QED
          BY <3>3, <3>4, <5>1, ConcatProperties
      <4> QED
        BY <3>2, <4>1, <4>2
    <3> QED
      BY <3>1, <3>4, <3>5, HeadOfConcat
  <2>2. CASE o \in {"getNetMode", "setAudio", "clearAPNS"}
    <3>1. Script(o) \in {Repeat(Plain, 2), Repeat(Plain, 3)}
      BY <2>2 DEF Script, getNetMode, setAudio, clearAPNS
    <3>2. ASSUME NEW n \in {2, 3} PROVE Repeat(Plain, n) # << >> /\ Head(Repeat(Plain, n)) = Plain
      <4>1. n \in Nat /\ n > 0
        OBVIOUS
      <4> QED
        BY Zenon, <4>1, Repeated
    <3> QED
      BY <3>1, <3>2
  <2>3. CASE o \in {"getSIMLock", "setSignalNotify", "setSMSFormat"}
    <3>1. Script(o) = <<Plain, PlainIfFailed>>
      BY <2>3 DEF Script, getSIMLock, setSignalNotify, setSMSFormat
    <3> QED
      BY Zenon, <3>1, OneOrTwo
  <2>4. CASE o \in {"setErrorLevel", "setPinCode", "setCall", "listOperators", "getNetStatus",
                    "readSMS", "setAPNS"}
    <3>1. Script(o) = <<Plain>>
      BY <2>4 DEF Script, setErrorLevel, setPinCode, setCall, listOperators, getNetStatus,
                  readSMS, setAPNS
    <3> QED
      BY Zenon, <3>1, OneOrTwo
  <2> QED
    BY <2>1, <2>2, <2>3, <2>4 DEF Plainly
<1>2. ASSUME NEW o \in Queries PROVE Script(o) \in {Query("str"), Query("bool")}
  BY Zenon DEF Queries, Script, getModem, getRadioState, setRadioState, Query
<1>3. ASSUME NEW o \in Silent PROVE Script(o) = << >>
  BY DEF Silent, Script, getOperator, setNetSearchType, setTTS
<1>4. Script("getSIMStatus") = getSIMStatus
  BY DEF Script
<1> QED
  BY <1>1, <1>2, <1>3, <1>4

-----------------------------------------------------------------------------
(* What an instruction does. *)

(* The kinds and operands of the instructions. *)
LEMMA Instructions ==
  /\ Cme.do = "cme" /\ Free.do = "free"
  /\ Plain.do = "send" /\ Plain.cb = "send_command_" /\ Plain.when = "always"
  /\ \A w : /\ SingleLine(w).do = "send" /\ SingleLine(w).cb = "send_command_singleline_"
            /\ SingleLine(w).out /\ SingleLine(w).when = w
  /\ \A t, f : Test(t, f).do = "test" /\ Test(t, f).test = t /\ Test(t, f).frees = f
  /\ \A k, i : Tok(k, i).do = "tok" /\ Tok(k, i).kind = k /\ Tok(k, i).i = i
BY DEF Cme, Free, Plain, SingleLine, Send, Test, Tok

(* Only a test for success reads the response. *)
LEMMA Reads ==
  /\ ~BadPointer("always") /\ ~BadPointer("failed")
  /\ Holds("always") /\ (Holds("failed") <=> ret # AT_SUCCESS)
BY DEF BadPointer, ReadsRsp, Holds

(* The answer a is handed to the operation. *)
Given(a) ==
  /\ Answered(a) /\ ret' = a.ret /\ closed' = (a.ret = AT_ERROR_CHANNEL_CLOSED)
  /\ rsp' = a.rsp
  /\ IF rsp' \in {Null, rsp}
       THEN UNCHANGED <<allocs, live>>
       ELSE allocs' = allocs + 1 /\ live' = live \cup {allocs'}
  /\ reply' = IF a.ret = AT_SUCCESS THEN a.rsp ELSE Null
  /\ script' = Tail(script)
  /\ UNCHANGED <<op, cur, word, misuse, result, dead>>

(* A command with a response. *)
LEMMA SingleLineSent ==
  ASSUME Typed, NEW w \in {"always", "failed"}, Head(script) = SingleLine(w), DoSend
  PROVE  \/ Die
         \/ w = "failed" /\ ret = AT_SUCCESS /\ script' = Tail(script)
            /\ UNCHANGED <<op, locals, closed, heap, reply, result, dead>>
         \/ (w = "failed" => ret # AT_SUCCESS) /\ \E a : Given(a)
<1>1. /\ Head(script).when = w /\ Head(script).out
      /\ Head(script).cb = "send_command_singleline_"
  <2>1. /\ SingleLine(w).when = w /\ SingleLine(w).out
        /\ SingleLine(w).cb = "send_command_singleline_"
    BY Zenon, Instructions
  <2> QED
    BY <2>1
<1>2. ~BadPointer(Head(script).when) /\ (Holds(Head(script).when) <=> (w = "failed" => ret # AT_SUCCESS))
  BY <1>1, Reads
<1>3. CASE ~Holds(Head(script).when)
  BY Zenon, <1>2, <1>3 DEF DoSend
<1>4. CASE Holds(Head(script).when) /\ Head(script).cb \notin callbacks
  BY Zenon, <1>2, <1>4 DEF DoSend
<1>5. CASE Holds(Head(script).when) /\ Head(script).cb \in callbacks
  <2>1. PICK a \in Answers(Head(script).cb) :
          /\ ret' = a.ret /\ closed' = (a.ret = AT_ERROR_CHANNEL_CLOSED)
          /\ rsp' = IF Head(script).out THEN a.rsp ELSE rsp
          /\ IF rsp' \in {Null, rsp}
               THEN UNCHANGED <<allocs, live>>
               ELSE allocs' = allocs + 1 /\ live' = live \cup {allocs'}
          /\ reply' = IF Head(script).out /\ a.ret = AT_SUCCESS THEN a.rsp ELSE Null
          /\ script' = Tail(script)
          /\ UNCHANGED <<op, cur, word, misuse, result, dead>>
    BY Zenon, <1>2, <1>5 DEF DoSend
  <2>2. Answered(a)
    BY AnswerKinds DEF Typed
  <2>3. rsp' = a.rsp /\ reply' = IF a.ret = AT_SUCCESS THEN a.rsp ELSE Null
    BY Zenon, <1>1, <2>1
  <2>4. Given(a)
    BY Zenon, <2>1, <2>2, <2>3 DEF Given
  <2> QED
    BY Zenon, <1>2, <1>5, <2>4
<1> QED
  BY Zenon, <1>3, <1>4, <1>5

-----------------------------------------------------------------------------
(* getSIMStatus. *)

(* The response of the last command is the one the operation holds. *)
Replied == reply = rsp /\ rsp \in Responses /\ (rsp.success_ \/ rsp.lines = << >>)

(* After the first command, or both. *)
Asked == IF ret = AT_SUCCESS THEN Replied ELSE reply = Null

(* The lock state was read from the response. *)
Read == /\ reply \in Responses /\ reply.success_ /\ reply.lines # << >>
        /\ word = reply.lines[1][1]

SimInv ==
  /\ op # "none" => result = "none"
  /\ op = "getSIMStatus" =>
       \/ script = getSIMStatus /\ cur.i # 1
       \/ script \in {Sim5, Sim4} /\ cur.i # 1 /\ Asked
       \/ script \in {Sim3, Rest2("str")} /\ cur.i # 1 /\ Replied
       \/ script \in {Rest1, << >>} /\ Read
  /\ SimStatusAsReported

(* Where getSIMStatus is when an instruction of kind k is next. *)
LEMMA SimAt ==
  ASSUME SimInv, op = "getSIMStatus", NEW k, At(k)
  PROVE  \/ k = "send" /\ script = getSIMStatus /\ cur.i # 1
         \/ k = "send" /\ script = Sim5 /\ cur.i # 1 /\ Asked
         \/ k = "test" /\ script = Sim4 /\ cur.i # 1 /\ Asked
         \/ k = "cme" /\ script = Sim3 /\ cur.i # 1 /\ Replied
         \/ k = "tok" /\ script = Rest2("str") /\ cur.i # 1 /\ Replied
         \/ k = "free" /\ script = Rest1 /\ Read
<1>1. script # << >> /\ Head(script).do = k
  BY DEF At
<1>2. \/ script = getSIMStatus /\ cur.i # 1
      \/ script \in {Sim5, Sim4} /\ cur.i # 1 /\ Asked
      \/ script \in {Sim3, Rest2("str")} /\ cur.i # 1 /\ Replied
      \/ script = Rest1 /\ Read
  BY Zenon, <1>1 DEF SimInv
<1>3. /\ Head(getSIMStatus).do = "send" /\ Head(Sim5).do = "send" /\ Head(Sim4).do = "test"
      /\ Head(Sim3).do = "cme" /\ Head(Rest2("str")).do = "tok" /\ Head(Rest1).do = "free"
  <2>1. /\ SingleLine("always").do = "send" /\ SingleLine("failed").do = "send"
        /\ Test("failed", TRUE).do = "test" /\ Cme.do = "cme" /\ Tok("str", 1).do = "tok"
        /\ Free.do = "free"
    BY DEF SingleLine, Send, Test, Cme, Tok, Free
  <2>2. Head(Rest2("str")) = Tok("str", 1) /\ Head(Rest1) = Free
    BY Zenon, RestSteps
  <2> QED
    BY Zenon, <2>1, <2>2, SimSteps
<1> QED
  BY Zenon, <1>1, <1>2, <1>3

(* A step that leaves the operation where it is. *)
LEMMA SimStays ==
  ASSUME SimInv, UNCHANGED <<op, script, ret, rsp, cur, word, reply, result>> PROVE SimInv'
<1>1. /\ op' = op /\ script' = script /\ ret' = ret /\ rsp' = rsp /\ cur' = cur
      /\ word' = word /\ reply' = reply /\ result' = result
  OBVIOUS
<1>2. (Replied <=> Replied') /\ (Read <=> Read')
  BY <1>1 DEF Replied, Read
<1>3. (Asked <=> Asked') /\ (SimStatusAsReported <=> SimStatusAsReported')
  BY Zenon, <1>1, <1>2 DEF Asked, SimStatusAsReported
<1> QED
  BY Zenon, <1>1, <1>2, <1>3 DEF SimInv

(* A step of another operation. *)
LEMMA SimOther ==
  ASSUME op' # "getSIMStatus", result' = "none" PROVE SimInv'
BY DEF SimInv, SimStatusAsReported

(* The steps of other operations, and those that end one. *)
LEMMA OtherSteps ==
  ASSUME SimInv, op \notin {"none", "getSIMStatus"}, DoSend \/ DoTest \/ DoTok \/ DoCme \/ DoFree
  PROVE  SimInv'
<1>1. result = "none"
  BY DEF SimInv
<1>2. \/ op' = op /\ result' = result
      \/ \E r : Finish(r)
  <2>1. CASE DoSend
    BY Zenon, <2>1 DEF DoSend, Die
  <2>2. CASE DoTest
    BY Zenon, <2>2 DEF DoTest, Die
  <2>3. CASE DoTok
    BY Zenon, <2>3 DEF DoTok, Die
  <2>4. CASE DoCme
    BY Zenon, <2>4 DEF DoCme
  <2>5. CASE DoFree
    BY Zenon, <2>5 DEF DoFree
  <2> QED
    BY <2>1, <2>2, <2>3, <2>4, <2>5
<1>3. ASSUME NEW r, Finish(r) PROVE op' # "getSIMStatus" /\ result' = "none"
  BY <1>3 DEF Finish
<1> QED
  BY <1>1, <1>2, <1>3, SimOther

(* The commands of getSIMStatus. *)
LEMMA SendSim == ASSUME Typed, SimInv, op = "getSIMStatus", DoSend PROVE SimInv'
<1>1. At("send")
  BY DEF DoSend
<1>2. result = "none" /\ op # "none"
  BY DEF SimInv
<1>3. \/ script = getSIMStatus /\ cur.i # 1
      \/ script = Sim5 /\ cur.i # 1 /\ Asked
  BY <1>1, SimAt
<1>4. PICK w \in {"always", "failed"} :
        /\ Head(script) = SingleLine(w) /\ Tail(script) \in {Sim5, Sim4}
        /\ w = "failed" => Asked
  BY Zenon, <1>3, SimSteps
<1>5. \/ Die
      \/ w = "failed" /\ ret = AT_SUCCESS /\ script' = Tail(script)
         /\ UNCHANGED <<op, locals, closed, heap, reply, result, dead>>
      \/ (w = "failed" => ret # AT_SUCCESS) /\ \E a : Given(a)
  BY Zenon, <1>4, SingleLineSent
<1>6. CASE Die
  BY <1>6, SimStays DEF Die, locals
<1>7. ASSUME op' = op, script' \in {Sim5, Sim4}, cur' = cur, result' = result, Asked'
      PROVE  SimInv'
  <2>1. cur'.i # 1
    BY <1>3, <1>7
  <2> QED
    BY Zenon, <1>2, <1>7, <2>1 DEF SimInv, SimStatusAsReported
<1>8. CASE w = "failed" /\ ret = AT_SUCCESS /\ script' = Tail(script)
           /\ UNCHANGED <<op, locals, closed, heap, reply, result, dead>>
  <2>1. Asked'
    BY <1>4, <1>8 DEF Asked, Replied, locals
  <2> QED
    BY <1>4, <1>7, <1>8, <2>1 DEF locals
<1>9. ASSUME NEW a, Given(a) PROVE SimInv'
  <2>1. /\ op' = op /\ script' = Tail(script) /\ cur' = cur /\ result' = result
        /\ ret' = a.ret /\ rsp' = a.rsp /\ Answered(a)
        /\ reply' = IF a.ret = AT_SUCCESS THEN a.rsp ELSE Null
    BY <1>9 DEF Given
  <2>2. CASE a.ret = AT_SUCCESS
    <3>1. Fresh(a.rsp)
      BY <2>1, <2>2 DEF Answered, AT_SUCCESS, AT_ERROR_TIMEOUT, AT_ERROR_INVALID_RESPONSE
    <3>2. Replied'
      BY <2>1, <2>2, <3>1 DEF Replied, Fresh
    <3> QED
      BY <1>4, <1>7, <2>1, <2>2, <3>2 DEF Asked
  <2>3. CASE a.ret # AT_SUCCESS
    BY <1>4, <1>7, <2>1, <2>3 DEF Asked
  <2> QED
    BY <2>2, <2>3
<1> QED
  BY Zenon, <1>5, <1>6, <1>8, <1>9

(* if (err != AT_SUCCESS) *)
LEMMA TestSim == ASSUME Typed, SimInv, op = "getSIMStatus", DoTest PROVE SimInv'
<1>1. At("test")
  BY DEF DoTest
<1>2. result = "none" /\ script = Sim4 /\ cur.i # 1 /\ Asked
  BY <1>1, SimAt DEF SimInv
<1>3. Head(script).test = "failed" /\ Tail(script) = Sim3
  <2>1. Test("failed", TRUE).test = "failed"
    BY DEF Test
  <2> QED
    BY Zenon, <1>2, <2>1, SimSteps
<1>4. ~BadPointer(Head(script).test) /\ (Holds(Head(script).test) <=> ret # AT_SUCCESS)
  BY <1>3, Reads
<1>5. CASE ret = AT_SUCCESS
  <2>1. script' = Sim3 /\ UNCHANGED <<op, locals, closed, heap, reply, result, dead>>
    BY Zenon, <1>3, <1>4, <1>5 DEF DoTest
  <2>2. Replied
    BY <1>2, <1>5 DEF Asked
  <2>3. Replied' /\ cur'.i # 1
    BY <1>2, <2>1, <2>2 DEF Replied, locals
  <2> QED
    BY Zenon, <1>2, <2>1, <2>3 DEF SimInv, SimStatusAsReported
<1>6. CASE ret # AT_SUCCESS
  <2>1. Finish("SIM_NOT_READY") /\ reply' = reply
    BY Zenon, <1>4, <1>6 DEF DoTest
  <2>2. reply' = Null
    BY <1>2, <1>6, <2>1 DEF Asked
  <2>3. op' = "none" /\ result' = "SIM_NOT_READY"
    BY <2>1 DEF Finish
  <2> QED
    BY <2>2, <2>3 DEF SimInv, SimStatusAsReported
<1> QED
  BY <1>5, <1>6

(* The switch on the CME error. *)
LEMMA CmeSim == ASSUME Typed, SimInv, op = "getSIMStatus", DoCme PROVE SimInv'
<1>1. At("cme") /\ reply' = reply
  BY DEF DoCme
<1>2. result = "none" /\ script = Sim3 /\ cur.i # 1 /\ Replied
  BY <1>1, SimAt DEF SimInv
<1>3. Tail(script) = Rest2("str")
  BY <1>2, SimSteps
<1>4. CASE CmeError(rsp) = "0"
  <2>1. script' = Rest2("str") /\ UNCHANGED <<op, locals, result>>
    BY Zenon, <1>3, <1>4 DEF DoCme
  <2>2. Replied' /\ cur'.i # 1
    BY <1>1, <1>2, <2>1 DEF Replied, locals
  <2> QED
    BY Zenon, <1>2, <2>1, <2>2 DEF SimInv, SimStatusAsReported
<1>5. CASE CmeError(rsp) # "0"
  <2>1. Finish(IF CmeError(rsp) = "10" THEN "SIM_ABSENT" ELSE "SIM_NOT_READY")
    BY Zenon, <1>5 DEF DoCme
  <2>2. ~rsp.success_ /\ CmeError(rsp) = rsp.cme
    BY <1>5 DEF CmeError
  <2>3. op' = "none" /\ result' = IF rsp.cme = "10" THEN "SIM_ABSENT" ELSE "SIM_NOT_READY"
    BY <2>1, <2>2 DEF Finish
  <2>4. reply' = rsp /\ rsp # Null
    BY <1>1, <1>2, NullAssumption DEF Replied
  <2> QED
    BY <2>2, <2>3, <2>4 DEF SimInv, SimStatusAsReported
<1> QED
  BY <1>4, <1>5

(* The first line of a response that has one starts with a token. *)
LEMMA FirstToken ==
  ASSUME NEW r \in Responses, r.lines # << >>
  PROVE  /\ Len(r.lines) \in Nat /\ 1 <= Len(r.lines) /\ r.lines[1] # << >>
         /\ Head(r.lines[1]) = r.lines[1][1]
<1>1. r.lines \in Seq(Lines)
  BY DEF Responses
<1>2. Len(r.lines) \in Nat /\ 1 <= Len(r.lines) /\ r.lines[1] \in Lines
  BY <1>1
<1>3. r.lines[1] \in Seq(STRING) /\ r.lines[1] # << >>
  BY <1>2, LinesAssumption
<1> QED
  BY <1>2, <1>3

(* The lock state is taken from the line. *)
LEMMA TokSim == ASSUME Typed, SimInv, op = "getSIMStatus", DoTok PROVE SimInv'
<1>1. At("tok")
  BY DEF DoTok
<1>2. result = "none" /\ script = Rest2("str") /\ cur.i # 1 /\ Replied
  BY <1>1, SimAt DEF SimInv
<1>3. Head(script).i = 1 /\ Head(script).kind = "str" /\ Tail(script) = Rest1
  <2>1. Tok("str", 1).i = 1 /\ Tok("str", 1).kind = "str"
    BY DEF Tok
  <2> QED
    BY <1>2, <2>1, RestSteps
<1>4. CASE 1 > Len(rsp.lines)
  <2>1. Die
    BY <1>3, <1>4 DEF DoTok
  <2> QED
    BY <2>1, SimStays DEF Die, locals
<1>5. CASE ~(1 > Len(rsp.lines))
  <2>1. rsp.lines # << >> /\ rsp \in Responses /\ rsp.success_ /\ reply = rsp
    BY <1>2, <1>5 DEF Replied
  <2>2. rsp.lines[1] # << >> /\ Head(rsp.lines[1]) = rsp.lines[1][1]
    BY <2>1, FirstToken
  <2>3. Accepts("str", Head(rsp.lines[1]))
    BY DEF Accepts
  <2>4. /\ word' = Head(rsp.lines[1]) /\ script' = Tail(script)
        /\ UNCHANGED <<op, reply, result>>
    <3> DEFINE left == IF cur.i = Head(script).i THEN cur.rest ELSE rsp.lines[Head(script).i]
    <3>1. left = rsp.lines[1]
      BY <1>2, <1>3
    <3>2. ~(Head(script).i > Len(rsp.lines))
      BY <1>3, <1>5
    <3>3. \/ left = << >> /\ Head(script).kind = "str"
          \/ ~(left # << >> /\ Accepts(Head(script).kind, Head(left)))
          \/ /\ word' = Head(left) /\ script' = Tail(script)
             /\ UNCHANGED <<op, reply, result>>
      BY Zenon, <3>2 DEF DoTok
    <3> HIDE DEF left
    <3>4. left # << >> /\ Accepts(Head(script).kind, Head(left))
      BY <1>3, <2>2, <2>3, <3>1
    <3> QED
      BY <3>1, <3>3, <3>4
  <2>5. Read'
    BY <2>1, <2>2, <2>4 DEF Read
  <2> QED
    BY Zenon, <1>2, <1>3, <2>4, <2>5 DEF SimInv, SimStatusAsReported
<1> QED
  BY <1>4, <1>5

(* The response is freed. *)
LEMMA FreeSim == ASSUME Typed, SimInv, op = "getSIMStatus", DoFree PROVE SimInv'
<1>1. At("free") /\ UNCHANGED <<op, locals, reply, result>>
  BY DEF DoFree
<1>2. result = "none" /\ script = Rest1 /\ Read
  BY <1>1, SimAt DEF SimInv
<1>3. script' = << >>
  BY <1>2, RestSteps DEF DoFree
<1>4. Read'
  BY <1>1, <1>2 DEF Read, locals
<1> QED
  BY Zenon, <1>1, <1>2, <1>3, <1>4 DEF SimInv, SimStatusAsReported

(* getSIMStatus returns the lock state. *)
LEMMA ReturnSim == ASSUME Typed, SimInv, Return PROVE SimInv'
<1>1. /\ script = << >> /\ reply' = reply /\ op' = "none"
      /\ result' = IF op = "getSIMStatus" THEN SimStatus(word) ELSE "none"
  BY DEF Return, Finish
<1>2. CASE op # "getSIMStatus"
  BY <1>1, <1>2, SimOther
<1>3. CASE op = "getSIMStatus"
  <2>1. Read
    BY Zenon, <1>1, <1>3, SimSteps, RestSteps DEF SimInv
  <2>2. /\ reply # Null /\ reply.success_ /\ result' = SimStatus(reply.lines[1][1])
    BY <1>1, <1>3, <2>1, NullAssumption DEF Read
  <2> QED
    BY <1>1, <2>2 DEF SimInv, SimStatusAsReported, SimStatus
<1> QED
  BY <1>2, <1>3

LEMMA CallSim == ASSUME SimInv, NEW o \in Ops, Call(o) PROVE SimInv'
<1>1. op' = o /\ script' = Script(o) /\ cur' = Line0 /\ result' = "none"
  BY DEF Call
<1>2. CASE o # "getSIMStatus"
  BY <1>1, <1>2, SimOther
<1>3. CASE o = "getSIMStatus"
  <2>1. script' = getSIMStatus /\ cur'.i # 1
    BY <1>1, <1>3, OwningScripts DEF Line0
  <2> QED
    BY <1>1, <2>1 DEF SimInv, SimStatusAsReported
<1> QED
  BY <1>2, <1>3

LEMMA NextSim == Typed /\ SimInv /\ [Next]_vars => SimInv'
<1> SUFFICES ASSUME Typed, SimInv, [Next]_vars PROVE SimInv'
  OBVIOUS
<1>1. CASE SetSendCommandCb \/ UNCHANGED vars
  BY <1>1, SimStays DEF SetSendCommandCb, vars, locals
<1>2. CASE DoSend \/ DoTest \/ DoTok \/ DoCme \/ DoFree
  <2>1. op # "none"
    BY Zenon, <1>2, AtRuns DEF DoSend, DoTest, DoTok, DoCme, DoFree
  <2> QED
    BY <1>2, <2>1, OtherSteps, SendSim, TestSim, TokSim, CmeSim, FreeSim
<1> QED
  BY <1>1, <1>2, CallSim, ReturnSim DEF Next

(***************************************************************************)
(* getSIMStatus returns what the last answer of the modem says, whatever   *)
(* the answers are and whichever operations are called before and after.   *)
(***************************************************************************)
THEOREM SimStatusCorrect == Spec => []SimStatusAsReported
<1>1. Init => SimInv
  BY DEF Init, SimInv, SimStatusAsReported
<1>2. SimInv => SimStatusAsReported
  BY DEF SimInv
<1> QED
  BY <1>1, <1>2, InitTypes, NextTypes, NextSim, PTL DEF Spec

-----------------------------------------------------------------------------
(* Ownership. *)

(* The operation holds the one response that is live, if any is; once the
   channel is closed there may be others. *)
Holding ==
  \/ rsp = Null /\ (~closed => live = {})
  \/ rsp \in Responses /\ rsp.id \in live /\ (~closed => live = {rsp.id})

OwnInv ==
  /\ ~misuse /\ (op # "none" => callbacks = Registered) /\ callbacks \in {{}, Registered}
  /\ \/ script = << >> /\ (~closed => live = {})
     \/ script # << >> /\ Head(script) = Plain /\ Holding
     \/ script \in {Query("str"), Query("bool"), getSIMStatus} /\ rsp = Null /\ Holding
     \/ script = Sim5 /\ Holding /\ (ret = AT_SUCCESS \/ closed \/ rsp = Null)
     \/ script \in {Rest3("str"), Rest3("bool"), Rest2("str"), Rest2("bool"), Rest1, Sim4, Sim3}
        /\ Holding

(* Where an operation is when an instruction of kind k is next. *)
LEMMA OwnAt ==
  ASSUME OwnInv, NEW k, At(k)
  PROVE  /\ Holding
         /\ \/ k = "send" /\ Head(script) = Plain
            \/ k = "send" /\ script \in {Query("str"), Query("bool"), getSIMStatus} /\ rsp = Null
            \/ k = "send" /\ script = Sim5 /\ (ret = AT_SUCCESS \/ closed \/ rsp = Null)
            \/ k = "test" /\ script \in {Rest3("str"), Rest3("bool"), Sim4}
            \/ k = "tok" /\ script \in {Rest2("str"), Rest2("bool")}
            \/ k = "cme" /\ script = Sim3
            \/ k = "free" /\ script = Rest1
<1>1. script # << >> /\ Head(script).do = k
  BY DEF At
<1>2. \/ Head(script) = Plain /\ Holding
      \/ script \in {Query("str"), Query("bool"), getSIMStatus} /\ rsp = Null /\ Holding
      \/ script = Sim5 /\ Holding /\ (ret = AT_SUCCESS \/ closed \/ rsp = Null)
      \/ script \in {Rest3("str"), Rest3("bool"), Rest2("str"), Rest2("bool"), Rest1, Sim4, Sim3}
         /\ Holding
  BY Zenon, <1>1 DEF OwnInv
<1>3. /\ Head(getSIMStatus).do = "send" /\ Head(Sim5).do = "send" /\ Head(Sim4).do = "test"
      /\ Head(Sim3).do = "cme" /\ Head(Rest1).do = "free" /\ Plain.do = "send"
  <2>1. /\ SingleLine("always").do = "send" /\ SingleLine("failed").do = "send"
        /\ Test("failed", TRUE).do = "test" /\ Cme.do = "cme" /\ Free.do = "free"
        /\ Plain.do = "send"
    BY DEF SingleLine, Send, Test, Cme, Free, Plain
  <2>2. Head(Rest1) = Free
    BY Zenon, RestSteps
  <2> QED
    BY Zenon, <2>1, <2>2, SimSteps
<1>4. ASSUME NEW t
      PROVE  /\ Head(Query(t)).do = "send" /\ Head(Rest3(t)).do = "test"
             /\ Head(Rest2(t)).do = "tok"
  <2>1. /\ SingleLine("always").do = "send" /\ Test("unsuccessful", TRUE).do = "test"
        /\ Tok(t, 1).do = "tok"
    BY DEF SingleLine, Send, Test, Tok
  <2>2. /\ Head(Query(t)) = SingleLine("always") /\ Head(Rest3(t)) = Test("unsuccessful", TRUE)
        /\ Head(Rest2(t)) = Tok(t, 1)
    BY Zenon, RestSteps
  <2> QED
    BY Zenon, <2>1, <2>2
<1> QED
  BY Zenon, <1>1, <1>2, <1>3, <1>4

(* A step that leaves the operation and the heap where they are. *)
LEMMA OwnStays ==
  ASSUME OwnInv, UNCHANGED <<op, script, ret, rsp, closed, live, misuse, callbacks>>
  PROVE  OwnInv'
<1>1. /\ op' = op /\ script' = script /\ ret' = ret /\ rsp' = rsp /\ closed' = closed
      /\ live' = live /\ misuse' = misuse /\ callbacks' = callbacks
  OBVIOUS
<1>2. Holding <=> Holding'
  BY <1>1 DEF Holding
<1> QED
  BY SMTT(30), <1>1, <1>2 DEF OwnInv

(* free_resp_ of the response the operation holds. *)
LEMMA HeldFreed ==
  ASSUME Holding, ~misuse, FreeRsp, closed' = closed
  PROVE  ~misuse' /\ (~closed' => live' = {})
<1>1. CASE rsp = Null /\ (~closed => live = {})
  BY <1>1 DEF FreeRsp
<1>2. CASE rsp \in Responses /\ rsp.id \in live /\ (~closed => live = {rsp.id})
  <2>1. rsp # Null /\ rsp # Garbage
    BY <1>2, NullAssumption
  <2>2. live' = live \ {rsp.id} /\ misuse' = (misuse \/ rsp.id \notin live)
    BY Zenon, <2>1 DEF FreeRsp
  <2> QED
    BY Zenon, <1>2, <2>2
<1> QED
  BY <1>1, <1>2 DEF Holding

(* The operation frees the response and returns. *)
LEMMA FinishOwn ==
  ASSUME OwnInv, Holding, FreeRsp, NEW r, Finish(r), UNCHANGED <<closed, callbacks>>
  PROVE  OwnInv'
<1>1. op' = "none" /\ script' = << >>
  BY DEF Finish
<1>2. ~misuse' /\ (~closed' => live' = {})
  BY HeldFreed DEF OwnInv
<1> QED
  BY <1>1, <1>2 DEF OwnInv

(* The operation goes on with the response it holds. *)
LEMMA OnwardsOwn ==
  ASSUME OwnInv, op # "none", Holding, UNCHANGED <<op, rsp, closed, live, misuse, callbacks>>,
         script' \in {Rest2("str"), Rest2("bool"), Rest1, Sim4, Sim3}
  PROVE  OwnInv'
<1>1. Holding'
  BY DEF Holding
<1> QED
  BY Zenon, <1>1 DEF OwnInv

(* A response handed to an operation that holds none, or after the channel was closed. *)
LEMMA GivenHolds ==
  ASSUME Typed, Holding, closed \/ rsp = Null, NEW a, Given(a)
  PROVE  Holding' /\ (rsp = Null => ret' = AT_SUCCESS \/ closed' \/ rsp' = Null)
<1>1. /\ Answered(a) /\ ret' = a.ret /\ closed' = (a.ret = AT_ERROR_CHANNEL_CLOSED)
      /\ rsp' = a.rsp
      /\ IF rsp' \in {Null, rsp}
           THEN UNCHANGED <<allocs, live>>
           ELSE allocs' = allocs + 1 /\ live' = live \cup {allocs'}
  BY DEF Given
<1>2. allocs \in Nat /\ live \subseteq 1..allocs
  BY DEF Typed, TypeOK
<1>3. rsp = Null => (~closed => live = {})
  BY NullAssumption DEF Holding
<1>4. CASE Fresh(a.rsp) /\ a.ret \in {AT_SUCCESS, AT_ERROR_CHANNEL_CLOSED}
           /\ (closed => a.ret = AT_ERROR_CHANNEL_CLOSED)
  <2>1. a.rsp \in Responses /\ a.rsp.id = allocs + 1
    BY <1>4 DEF Fresh
  <2>2. a.rsp # Null /\ a.rsp # rsp
    <3>1. ASSUME a.rsp = rsp PROVE FALSE
      <4>1. rsp.id \in live
        BY <2>1, <3>1, NullAssumption DEF Holding
      <4> QED
        BY <1>2, <2>1, <3>1, <4>1
    <3> QED
      BY <2>1, <3>1, NullAssumption
  <2>3. live' = live \cup {allocs + 1}
    BY Zenon, <1>1, <2>2
  <2>4. ~closed' => live = {}
    BY Zenon, <1>1, <1>3, <1>4
  <2>5. rsp' \in Responses /\ rsp'.id \in live' /\ (~closed' => live' = {rsp'.id})
    BY <1>1, <2>1, <2>3, <2>4
  <2>6. ret' = AT_SUCCESS \/ closed'
    BY Zenon, <1>1, <1>4
  <2> QED
    BY Zenon, <2>5, <2>6 DEF Holding
<1>5. CASE ~closed /\ (a.rsp = Null \/ a.rsp = rsp)
  <2>1. rsp = Null /\ live = {} /\ rsp' = Null
    BY <1>1, <1>3, <1>5
  <2>2. live' = {}
    BY Zenon, <1>1, <2>1
  <2> QED
    BY Zenon, <2>1, <2>2 DEF Holding
<1> QED
  BY Zenon, <1>1, <1>4, <1>5 DEF Answered

(* The commands. *)
LEMMA SendOwn == ASSUME Typed, OwnInv, DoSend PROVE OwnInv'
<1>1. At("send") /\ callbacks' = callbacks
  BY DEF DoSend
<1>2. op # "none" /\ Holding
  BY <1>1, AtRuns, OwnAt
<1>3. \/ Head(script) = Plain
      \/ script \in {Query("str"), Query("bool"), getSIMStatus} /\ rsp = Null
      \/ script = Sim5 /\ (ret = AT_SUCCESS \/ closed \/ rsp = Null)
  BY <1>1, OwnAt
<1>4. ASSUME Die PROVE OwnInv'
  BY <1>1, <1>4, OwnStays DEF Die, locals, heap
<1>5. CASE Head(script) = Plain
  <2>1. callbacks = Registered
    BY <1>2 DEF OwnInv
  <2>2. Head(script).when = "always" /\ Head(script).cb \notin callbacks
    BY <1>5, <2>1 DEF Registered, Plain, Send
  <2>3. ~BadPointer(Head(script).when) /\ Holds(Head(script).when)
    BY <2>2, Reads
  <2>4. Die
    BY Zenon, <2>2, <2>3 DEF DoSend
  <2> QED
    BY <1>4, <2>4
<1>6. CASE script \in {Query("str"), Query("bool"), getSIMStatus} /\ rsp = Null
  <2>1. /\ Head(script) = SingleLine("always")
        /\ Tail(script) \in {Rest3("str"), Rest3("bool"), Sim5}
    BY Zenon, <1>6, RestSteps, SimSteps
  <2>2. Die \/ \E a : Given(a)
    BY <2>1, SingleLineSent
  <2>3. ASSUME NEW a, Given(a) PROVE OwnInv'
    <3>1. Holding' /\ (ret' = AT_SUCCESS \/ closed' \/ rsp' = Null)
      BY <1>2, <1>6, <2>3, GivenHolds
    <3>2. script' = Tail(script) /\ op' = op /\ misuse' = misuse
      BY <2>3 DEF Given
    <3> QED
      BY <1>1, <2>1, <3>1, <3>2 DEF OwnInv
  <2> QED
    BY <1>4, <2>2, <2>3
<1>7. CASE script = Sim5 /\ (ret = AT_SUCCESS \/ closed \/ rsp = Null)
  <2>1. Head(script) = SingleLine("failed") /\ Tail(script) = Sim4
    BY <1>7, SimSteps
  <2>2. \/ Die
        \/ script' = Tail(script) /\ UNCHANGED <<op, locals, closed, heap, reply, result, dead>>
        \/ ret # AT_SUCCESS /\ \E a : Given(a)
    BY <2>1, SingleLineSent
  <2>3. CASE script' = Tail(script) /\ UNCHANGED <<op, locals, closed, heap, reply, result, dead>>
    BY <1>1, <1>2, <2>1, <2>3, OnwardsOwn DEF locals, heap
  <2>4. ASSUME ret # AT_SUCCESS, NEW a, Given(a) PROVE OwnInv'
    <3>1. Holding'
      BY <1>2, <1>7, <2>4, GivenHolds
    <3>2. script' = Sim4 /\ op' = op /\ misuse' = misuse
      BY <2>1, <2>4 DEF Given
    <3> QED
      BY <1>1, <3>1, <3>2 DEF OwnInv
  <2> QED
    BY <1>4, <2>2, <2>3, <2>4
<1> QED
  BY <1>3, <1>5, <1>6, <1>7

(* The tests: an operation that holds no response reads through nullptr and
   dies, the others free theirs on the way out. *)
LEMMA TestOwn == ASSUME Typed, OwnInv, DoTest PROVE OwnInv'
<1>1. At("test") /\ callbacks' = callbacks
  BY DEF DoTest
<1>2. op # "none" /\ Holding
  BY <1>1, AtRuns, OwnAt
<1>3. script \in {Rest3("str"), Rest3("bool"), Sim4}
  BY <1>1, OwnAt
<1>4. Head(script).frees /\ Tail(script) \in {Rest2("str"), Rest2("bool"), Sim3}
  <2>1. Test("unsuccessful", TRUE).frees /\ Test("failed", TRUE).frees
    BY DEF Test
  <2>2. /\ Head(script) \in {Test("unsuccessful", TRUE), Test("failed", TRUE)}
        /\ Tail(script) \in {Rest2("str"), Rest2("bool"), Sim3}
    BY Zenon, <1>3, RestSteps, SimSteps
  <2> QED
    BY Zenon, <2>1, <2>2
<1>5. rsp # Garbage
  BY <1>2, NullAssumption DEF Holding
<1>6. \/ Die
      \/ script' = Tail(script) /\ UNCHANGED <<op, locals, closed, heap, reply, result, dead>>
      \/ FreeRsp /\ Finish("SIM_NOT_READY") /\ UNCHANGED closed
  BY Zenon, <1>4, <1>5 DEF DoTest
<1>7. CASE Die
  BY <1>1, <1>7, OwnStays DEF Die, locals, heap
<1>8. CASE script' = Tail(script) /\ UNCHANGED <<op, locals, closed, heap, reply, result, dead>>
  BY <1>1, <1>2, <1>4, <1>8, OnwardsOwn DEF locals, heap
<1>9. CASE FreeRsp /\ Finish("SIM_NOT_READY") /\ UNCHANGED closed
  BY <1>1, <1>2, <1>9, FinishOwn
<1> QED
  BY <1>6, <1>7, <1>8, <1>9

(* The tokens. *)
LEMMA TokOwn == ASSUME Typed, OwnInv, op # "getAPNS", DoTok PROVE OwnInv'
<1>1. At("tok") /\ callbacks' = callbacks
  BY DEF DoTok
<1>2. op # "none" /\ Holding
  BY <1>1, AtRuns, OwnAt
<1>3. script \in {Rest2("str"), Rest2("bool")}
  BY <1>1, OwnAt
<1>4. Tail(script) = Rest1
  BY Zenon, <1>3, RestSteps
<1>5. \/ Die
      \/ script' = Tail(script) /\ UNCHANGED <<op, ret, rsp, closed, heap>>
      \/ FreeRsp /\ Finish("SIM_NOT_READY") /\ UNCHANGED closed
  BY Zenon DEF DoTok
<1>6. CASE Die
  BY <1>1, <1>6, OwnStays DEF Die, locals, heap
<1>7. CASE script' = Tail(script) /\ UNCHANGED <<op, ret, rsp, closed, heap>>
  BY <1>1, <1>2, <1>4, <1>7, OnwardsOwn DEF heap
<1>8. CASE FreeRsp /\ Finish("SIM_NOT_READY") /\ UNCHANGED closed
  BY <1>1, <1>2, <1>8, FinishOwn
<1> QED
  BY <1>5, <1>6, <1>7, <1>8

(* The switch of getSIMStatus. *)
LEMMA CmeOwn == ASSUME Typed, OwnInv, DoCme PROVE OwnInv'
<1>1. At("cme") /\ callbacks' = callbacks /\ closed' = closed
  BY DEF DoCme
<1>2. op # "none" /\ Holding /\ script = Sim3
  BY <1>1, AtRuns, OwnAt
<1>3. Tail(script) = Rest2("str")
  BY <1>2, SimSteps
<1>4. \/ script' = Tail(script) /\ UNCHANGED <<op, locals, heap>>
      \/ FreeRsp /\ \E r : Finish(r)
  BY Zenon DEF DoCme
<1>5. CASE script' = Tail(script) /\ UNCHANGED <<op, locals, heap>>
  BY <1>1, <1>2, <1>3, <1>5, OnwardsOwn DEF locals, heap
<1>6. CASE FreeRsp /\ \E r : Finish(r)
  BY <1>1, <1>2, <1>6, FinishOwn
<1> QED
  BY <1>4, <1>5, <1>6

(* The last free_resp_. *)
LEMMA FreeOwn == ASSUME Typed, OwnInv, DoFree PROVE OwnInv'
<1>1. At("free") /\ callbacks' = callbacks /\ closed' = closed /\ op' = op /\ FreeRsp
  BY DEF DoFree
<1>2. Holding /\ script = Rest1
  BY <1>1, OwnAt
<1>3. script' = << >>
  BY <1>2, RestSteps DEF DoFree
<1>4. ~misuse' /\ (~closed' => live' = {})
  BY <1>1, <1>2, HeldFreed DEF OwnInv
<1> QED
  BY <1>1, <1>3, <1>4 DEF OwnInv

(* The start and the end of an operation, and the registration. *)
LEMMA CallOwn ==
  ASSUME Typed, OwnInv, Ops \subseteq Owning, NEW o \in Ops, Call(o)
  PROVE  OwnInv'
<1>1. /\ op = "none" /\ callbacks # {} /\ op' = o /\ script' = Script(o)
      /\ rsp' = (IF o \in Uninitialised THEN Garbage ELSE Null)
      /\ UNCHANGED <<callbacks, closed, live, misuse>>
  BY DEF Call, heap
<1>2. o \in Owning /\ o \notin Uninitialised
  BY DEF Owning, Plainly, Queries, Silent, Uninitialised
<1>3. ~closed => live = {}
  <2>1. script = << >>
    BY <1>1 DEF Typed, TypeOK
  <2> QED
    BY Zenon, <2>1, RestSteps, SimSteps DEF OwnInv
<1>4. Holding' /\ rsp' = Null
  BY <1>1, <1>2, <1>3 DEF Holding
<1>5. \/ script' = << >>
      \/ script' # << >> /\ Head(script') = Plain
      \/ script' \in {Query("str"), Query("bool"), getSIMStatus}
  BY Zenon, <1>1, <1>2, OwningScripts DEF Owning
<1> QED
  BY <1>1, <1>3, <1>4, <1>5 DEF OwnInv

LEMMA ReturnOwn == ASSUME OwnInv, Return PROVE OwnInv'
<1>1. /\ script = << >> /\ script' = << >> /\ op' = "none"
      /\ UNCHANGED <<callbacks, closed, live, misuse>>
  BY DEF Return, Finish, heap
<1>2. ~closed => live = {}
  BY Zenon, <1>1, RestSteps, SimSteps DEF OwnInv
<1> QED
  BY <1>1, <1>2 DEF OwnInv

LEMMA RegisterOwn == ASSUME Typed, OwnInv, SetSendCommandCb PROVE OwnInv'
<1>1. callbacks' = Registered /\ UNCHANGED <<op, script, locals, closed, heap>>
  BY DEF SetSendCommandCb, Registered
<1>2. Holding <=> Holding'
  BY <1>1 DEF Holding, locals, heap
<1> QED
  BY <1>1, <1>2 DEF OwnInv, locals, heap

LEMMA NextOwn ==
  ASSUME Ops \subseteq Owning PROVE Typed /\ OwnInv /\ [Next]_vars => OwnInv'
<1> SUFFICES ASSUME Typed, OwnInv, [Next]_vars PROVE OwnInv'
  OBVIOUS
<1>1. CASE UNCHANGED vars
  BY <1>1, OwnStays DEF vars, locals, heap
<1>2. op # "getAPNS"
  BY DEF Typed, TypeOK, Owning, Plainly, Queries, Silent
<1> QED
  BY <1>1, <1>2, CallOwn, SendOwn, TestOwn, TokOwn, CmeOwn, FreeOwn, ReturnOwn, RegisterOwn
     DEF Next

(***************************************************************************)
(* The operations but setEhrpd, getNet3GPP and getAPNS free each response  *)
(* they are given, once and on every way out, as long as the channel is    *)
(* open, whatever it answers and however the calls follow each other.      *)
(***************************************************************************)
THEOREM OwnershipCorrect ==
  ASSUME Ops \subseteq Owning PROVE Spec => []ResponsesFreedWhileOpen
<1>1. Init => OwnInv
  BY DEF Init, OwnInv
<1>2. Typed /\ OwnInv => ResponsesFreedWhileOpen
  <2> SUFFICES ASSUME Typed, OwnInv PROVE ResponsesFreedWhileOpen
    OBVIOUS
  <2>1. op = "none" => script = << >>
    BY DEF Typed, TypeOK
  <2>2. script = << >> => (~closed => live = {})
    BY Zenon, RestSteps, SimSteps DEF OwnInv
  <2> QED
    BY <2>1, <2>2 DEF OwnInv, ResponsesFreedWhileOpen
<1> QED
  BY <1>1, <1>2, InitTypes, NextTypes, NextOwn, PTL DEF Spec

=============================================================================
