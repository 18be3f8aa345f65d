------------------------------ MODULE ATCommand ------------------------------
(***************************************************************************)
(* The AT command manager (class ATCommandManager, src/src/command.cc): a  *)
(* thread calls its operations one after the other.  What is kept of an    *)
(* operation is what it does with the channel's callbacks and with the     *)
(* response it is given: the commands it sends, the tests on their result, *)
(* the tokens it takes from the response, and where it frees it.  The text *)
(* of the commands is left out.                                            *)
(*                                                                         *)
(* An operation is a sequence of instructions, one per statement, and each *)
(* kind of instruction is an action.  A test or a token that fails ends    *)
(* the operation.                                                          *)
(***************************************************************************)
EXTENDS Naturals, Sequences

CONSTANTS
  Ops,          \* the operations called
  Lines,        \* response lines after their prefix, as sequences of tokens
  MaxLines,     \* bound on the intermediate lines of a response
  MaxCalls,     \* bound on the number of calls
  Null,         \* nullptr
  Garbage       \* an uninitialised pointer

(* strsep finds a token in any line. *)
ASSUME LinesAssumption == Lines \subseteq Seq(STRING) /\ << >> \notin Lines
ASSUME BoundsAssumption == MaxLines \in Nat \ {0} /\ MaxCalls \in Nat

-----------------------------------------------------------------------------
(* Instructions. *)

(* Call the callback cb, with &rsp or nullptr as out; when: always, if the
   last command failed, or if the last response is not a success. *)
Send(cb, out, when) == [do |-> "send", cb |-> cb, out |-> out, when |-> when]

(* Return if the test holds, after free_resp_ if frees. *)
Test(test, frees) == [do |-> "test", test |-> test, frees |-> frees]

(* Take a token of the i-th line; return, with free_resp_, if it is not there
   or of another kind. *)
Tok(kind, i) == [do |-> "tok", kind |-> kind, i |-> i]

Cme == [do |-> "cme"]
Free == [do |-> "free"]

Plain == Send("send_command_", FALSE, "always")
PlainIfFailed == Send("send_command_", FALSE, "failed")
SingleLine(when) == Send("send_command_singleline_", TRUE, when)
MultiLine == Send("send_command_mutiline_", TRUE, "always")

Repeat(instr, n) == [k \in 1..n |-> instr]

-----------------------------------------------------------------------------
(* Operations. *)

initModem ==
  Repeat(Plain, 5)
  \o <<Send("send_command_", TRUE, "always"), Send("send_command_", FALSE, "unsuccessful"), Free>>
  \o Repeat(Plain, 8)

(* Faulty variant: the response is kept on the way out. *)
getModemKept == <<SingleLine("always"), Test("unsuccessful", TRUE), Tok("str", 1)>>

getModem == <<SingleLine("always"), Test("unsuccessful", TRUE), Tok("str", 1), Free>>
getRadioState == <<SingleLine("always"), Test("unsuccessful", TRUE), Tok("bool", 1), Free>>

(* setRadioState: the loop that sends the command has the condition count-- < 0
   and is never entered. *)
setRadioState == getRadioState

getSIMStatus ==
  <<SingleLine("always"), SingleLine("failed"), Test("failed", TRUE), Cme, Tok("str", 1), Free>>

setEhrpd ==
  <<SingleLine("always"), Test("unsuccessful", TRUE), Tok("bool", 1), Free, Test("zero", TRUE),
    Send("send_command_", TRUE, "always"), Test("unsuccessful", TRUE), Free>>

getNet3GPP == <<SingleLine("always"), Test("unsuccessful", TRUE), Tok("int", 1), Free>>

(* The tokens of one line of getAPNS. *)
apnLine(i) == <<Tok("int", i), Tok("str", i), Tok("str", i), Tok("str", i)>>

getAPNS ==
  LET apnLines[i \in 0..MaxLines] == IF i = 0 THEN << >> ELSE apnLines[i - 1] \o apnLine(i)
  IN  <<MultiLine, Test("failed or unsuccessful", FALSE)>> \o apnLines[MaxLines] \o <<Free>>

(* One command, its result ignored or returned. *)
setErrorLevel == <<Plain>>      \* setChipErrorLevel, resetModem
setPinCode == <<Plain>>         \* setSIMUnlockPinCode, setNewPinCode
setCall == <<Plain>>            \* getSignal, setWapen, ..., setDtmf; answerCall, ..., getCallInfo
listOperators == <<Plain>>      \* listAllOperators, listOperatorByNumberic, setAutoRegister
getNetStatus == <<Plain>>       \* getNetStatus, setCallerId, ..., setSMSStorageArea
readSMS == <<Plain>>            \* readSMS, clearSMS
setAPNS == <<Plain>>            \* setAPNS, setAuthInfo, setPDPStatus, setQosRequestBrief

(* A second command, for other networks, is sent when the first one fails. *)
getSIMLock == <<Plain, PlainIfFailed>>
setSignalNotify == <<Plain, PlainIfFailed>>
setSMSFormat == <<Plain, PlainIfFailed>>   \* setSMSFormat, hasSMS

getNetMode == Repeat(Plain, 3)
setAudio == Repeat(Plain, 2)
clearAPNS == Repeat(Plain, 2)

(* Nothing is sent: the body is disabled or only prepares the text. *)
getOperator == << >>
setNetSearchType == << >>       \* getNetSearchType, setNetSearchType
setTTS == << >>

Operations ==
  {"initModem", "getModem", "getRadioState", "setRadioState", "getSIMStatus", "setEhrpd",
   "getNet3GPP", "getAPNS", "getNetMode", "setAudio", "clearAPNS", "setErrorLevel", "setPinCode",
   "setCall", "listOperators", "getNetStatus", "readSMS", "setAPNS", "getSIMLock",
   "setSignalNotify", "setSMSFormat", "getOperator", "setNetSearchType", "setTTS"}

ASSUME OpsAssumption == Ops \subseteq Operations

Script(o) ==
  CASE o = "initModem" -> initModem
    [] o = "getModem" -> getModem
    [] o = "getRadioState" -> getRadioState
    [] o = "setRadioState" -> setRadioState
    [] o = "getSIMStatus" -> getSIMStatus
    [] o = "setEhrpd" -> setEhrpd
    [] o = "getNet3GPP" -> getNet3GPP
    [] o = "getAPNS" -> getAPNS
    [] o = "getNetMode" -> getNetMode
    [] o = "setAudio" -> setAudio
    [] o = "clearAPNS" -> clearAPNS
    [] o = "setErrorLevel" -> setErrorLevel
    [] o = "setPinCode" -> setPinCode
    [] o = "setCall" -> setCall
    [] o = "listOperators" -> listOperators
    [] o = "getNetStatus" -> getNetStatus
    [] o = "readSMS" -> readSMS
    [] o = "setAPNS" -> setAPNS
    [] o = "getSIMLock" -> getSIMLock
    [] o = "setSignalNotify" -> setSignalNotify
    [] o = "setSMSFormat" -> setSMSFormat
    [] o = "getOperator" -> getOperator
    [] o = "setNetSearchType" -> setNetSearchType
    [] o = "setTTS" -> setTTS

-----------------------------------------------------------------------------
(* The final line of a response: not a CME error, or "+CME ERROR:" and its number. *)
CmeErrors == {"none", "0", "10", "other"}

(* What the operations see of a struct ATResponse; id names the allocation. *)
Responses == [id : Nat, success_ : BOOLEAN, cme : CmeErrors, lines : Seq(Lines)]

ASSUME NullAssumption == Null # Garbage /\ {Null, Garbage} \cap Responses = {}

VARIABLES
  callbacks,            \* the callbacks that hold a function
  op, script,           \* the operation that runs, "none" between calls; its instructions left
  ret, rsp, cur, word,  \* its locals: result, response, position in a line, last token
  closed,               \* the channel has reported AT_ERROR_CHANNEL_CLOSED
  live, misuse, allocs, \* responses not yet freed; a bad free; responses handed out
  reply,                \* the answer to the last command, Null when it failed
  result,               \* what getSIMStatus returned
  calls, dead           \* calls so far; an exception or a bad pointer ended the process

locals == <<ret, rsp, cur, word>>
heap == <<live, misuse, allocs>>
vars == <<callbacks, op, script, locals, closed, heap, reply, result, calls, dead>>

AT_SUCCESS == 0
AT_ERROR_CHANNEL_CLOSED == 3
AT_ERROR_TIMEOUT == 4
AT_ERROR_INVALID_RESPONSE == 6

Line0 == [i |-> 0, rest |-> << >>]

Init ==
  /\ callbacks = {} /\ op = "none" /\ script = << >>
  /\ ret = AT_SUCCESS /\ rsp = Null /\ cur = Line0 /\ word = ""
  /\ closed = FALSE /\ live = {} /\ misuse = FALSE /\ allocs = 0
  /\ reply = Null /\ result = "none" /\ calls = 0 /\ dead = FALSE

(* RegisterATCommandCb; send_command_ is not among the callbacks it sets. *)
SetSendCommandCb ==
  /\ ~dead /\ callbacks = {}
  /\ callbacks' = {"send_command_numberic_", "send_command_singleline_", "send_command_mutiline_",
                   "alloc_resp_", "free_resp_", "get_cme_error_"}
  /\ UNCHANGED <<op, script, locals, closed, heap, reply, result, calls, dead>>

(* The operations that leave rsp uninitialised. *)
Uninitialised == {"getNet3GPP", "getAPNS"}

Call(o) ==
  /\ ~dead /\ callbacks # {} /\ op = "none" /\ calls < MaxCalls
  /\ op' = o /\ script' = Script(o)
  /\ rsp' = IF o \in Uninitialised THEN Garbage ELSE Null
  /\ ret' = AT_SUCCESS /\ cur' = Line0 /\ word' = ""
  /\ reply' = Null /\ result' = "none"
  /\ calls' = calls + 1
  /\ UNCHANGED <<callbacks, closed, heap, dead>>

(* The instruction of kind k is next. *)
At(k) == ~dead /\ script # << >> /\ Head(script).do = k

(* free_resp_(rsp) *)
FreeRsp ==
  IF rsp = Null THEN UNCHANGED <<live, misuse>>
  ELSE IF rsp = Garbage THEN misuse' = TRUE /\ UNCHANGED live
  ELSE live' = live \ {rsp.id} /\ misuse' = (misuse \/ rsp.id \notin live)

(* The operation returns; r is the result of getSIMStatus. *)
Finish(r) ==
  /\ op' = "none" /\ script' = << >>
  /\ rsp' = Null /\ ret' = AT_SUCCESS /\ cur' = Line0 /\ word' = ""
  /\ result' = IF op = "getSIMStatus" THEN r ELSE "none"

Die == dead' = TRUE /\ UNCHANGED <<op, script, locals, closed, heap, reply, result>>

-----------------------------------------------------------------------------
(* What a callback of the channel may answer, as its interface promises
   (PendingCommand): a response that is a success, with its lines, or an
   error; a channel closed while the command waits, which hands over the
   response complete or not, and is not tested for a missing line; a
   time-out, which leaves rsp alone; or, for a single line that did not come,
   nullptr. *)
Response(success, cme, lines) ==
  [id |-> allocs + 1, success_ |-> success, cme |-> cme, lines |-> lines]

(* Faulty variant: a stale line list, longer than the command collects. *)
LineListsUnbounded(cb) == [1..(MaxLines + 1) -> Lines]

LineLists(cb) ==
  IF cb = "send_command_mutiline_" THEN UNION {[1..n -> Lines] : n \in 0..MaxLines}
  ELSE [1..1 -> Lines]

Answers(cb) ==
  LET cut == {[ret |-> AT_ERROR_CHANNEL_CLOSED, rsp |-> Response(FALSE, "none", << >>)]}
      closing == cut \cup
        {[ret |-> AT_ERROR_CHANNEL_CLOSED, rsp |-> Response(TRUE, "none", l)] :
            l \in LineLists(cb) \cup {<< >>}}
      answered == {[ret |-> AT_SUCCESS, rsp |-> Response(TRUE, "none", l)] : l \in LineLists(cb)}
        \cup {[ret |-> AT_SUCCESS, rsp |-> Response(FALSE, e, << >>)] : e \in CmeErrors}
      missing == IF cb = "send_command_mutiline_" THEN {}
                 ELSE {[ret |-> AT_ERROR_INVALID_RESPONSE, rsp |-> Null]}
      timeout == {[ret |-> AT_ERROR_TIMEOUT, rsp |-> rsp]}
  IN  IF closed THEN cut ELSE closing \cup answered \cup missing \cup timeout

(* The operation reads rsp->success_ in this test. *)
ReadsRsp(test) ==
  \/ test = "unsuccessful" /\ ~(ret < 0)
  \/ test = "failed or unsuccessful" /\ ret = AT_SUCCESS

Holds(test) ==
  CASE test = "always" -> TRUE
    [] test = "failed" -> ret # AT_SUCCESS
    [] test = "zero" -> word = "0"
    [] test = "unsuccessful" -> ret < 0 \/ ~rsp.success_
    [] test = "failed or unsuccessful" -> ret # AT_SUCCESS \/ ~rsp.success_

BadPointer(test) == ReadsRsp(test) /\ rsp \in {Null, Garbage}

(* An empty std::function throws, which nothing catches.  Without an out
   parameter the channel frees the response itself. *)
DoSend ==
  LET instr == Head(script) IN
  /\ At("send")
  /\ IF BadPointer(instr.when) \/ (Holds(instr.when) /\ instr.cb \notin callbacks)
       THEN Die
     ELSE IF ~Holds(instr.when)
       THEN script' = Tail(script) /\ UNCHANGED <<op, locals, closed, heap, reply, result, dead>>
     ELSE \E a \in Answers(instr.cb) :
            /\ ret' = a.ret /\ closed' = (a.ret = AT_ERROR_CHANNEL_CLOSED)
            /\ rsp' = IF instr.out THEN a.rsp ELSE rsp
            /\ IF rsp' \in {Null, rsp}
                 THEN UNCHANGED <<allocs, live>>
                 ELSE allocs' = allocs + 1 /\ live' = live \cup {allocs'}
            /\ reply' = IF instr.out /\ a.ret = AT_SUCCESS THEN a.rsp ELSE Null
            /\ script' = Tail(script)
            /\ UNCHANGED <<op, cur, word, misuse, result, dead>>
  /\ UNCHANGED <<callbacks, calls>>

(* A pointer that was never set may also lead to a failed test, and a free. *)
DoTest ==
  LET instr == Head(script) IN
  /\ At("test")
  /\ IF BadPointer(instr.test)
       THEN \/ Die
            \/ rsp = Garbage /\ FreeRsp /\ Finish("none") /\ UNCHANGED <<closed, allocs, reply, dead>>
     ELSE IF ~Holds(instr.test)
       THEN script' = Tail(script) /\ UNCHANGED <<op, locals, closed, heap, reply, result, dead>>
     ELSE /\ IF instr.frees THEN FreeRsp ELSE UNCHANGED <<live, misuse>>
          /\ Finish("SIM_NOT_READY")
          /\ UNCHANGED <<closed, allocs, reply, dead>>
  /\ UNCHANGED <<callbacks, calls>>

(* The tokens each function of token.cc accepts. *)
Accepts(kind, t) ==
  CASE kind = "str" -> TRUE
    [] kind = "int" -> t \in {"0", "1", "2"}
    [] kind = "bool" -> t \in {"0", "1"}

(* AtTokStart at the first token of a line, then AtTokNext...; AtTokNextStr
   reads past the end of a line that has no token left.  getAPNS loops over
   the lines there are, the others read the first line without a test. *)
DoTok ==
  LET instr == Head(script)
      skip == script' = Tail(script) /\ UNCHANGED <<op, locals, closed, heap, reply, result, dead>>
      left == IF cur.i = instr.i THEN cur.rest ELSE rsp.lines[instr.i]
  IN
  /\ At("tok")
  /\ IF instr.i > Len(rsp.lines)
       THEN IF op = "getAPNS" THEN skip ELSE Die
     ELSE IF left = << >> /\ instr.kind = "str"
       THEN Die
     ELSE IF left # << >> /\ Accepts(instr.kind, Head(left))
       THEN /\ word' = Head(left) /\ cur' = [i |-> instr.i, rest |-> Tail(left)]
            /\ script' = Tail(script)
            /\ UNCHANGED <<op, ret, rsp, closed, heap, reply, result, dead>>
     ELSE FreeRsp /\ Finish("SIM_NOT_READY") /\ UNCHANGED <<closed, allocs, reply, dead>>
  /\ UNCHANGED <<callbacks, calls>>

(* GetCmeError: the number of the error, "0" being CME_SUCCESS. *)
CmeError(r) == IF r.success_ THEN "0" ELSE r.cme

(* The switch of getSIMStatus. *)
DoCme ==
  /\ At("cme")
  /\ IF CmeError(rsp) = "0"
       THEN script' = Tail(script) /\ UNCHANGED <<op, locals, heap, result>>
       ELSE /\ FreeRsp
            /\ Finish(IF CmeError(rsp) = "10" THEN "SIM_ABSENT" ELSE "SIM_NOT_READY")
            /\ UNCHANGED allocs
  /\ UNCHANGED <<callbacks, calls, closed, reply, dead>>

DoFree ==
  /\ At("free")
  /\ FreeRsp
  /\ script' = Tail(script)
  /\ UNCHANGED <<callbacks, op, locals, closed, allocs, reply, result, calls, dead>>

(* Faulty variant: an unsupported lock type taken for no lock. *)
SimStatusUnlocked(w) ==
  CASE w = "SIM PIN" -> "SIM_PIN"
    [] w = "SIM PUK" -> "SIM_PUK"
    [] w = "PH-NET PIN" -> "SIM_NETWORK_PERSONALIZATION"
    [] OTHER -> "SIM_READY"

SimStatus(w) ==
  CASE w = "SIM PIN" -> "SIM_PIN"
    [] w = "SIM PUK" -> "SIM_PUK"
    [] w = "PH-NET PIN" -> "SIM_NETWORK_PERSONALIZATION"
    [] w = "READY" -> "SIM_READY"
    [] OTHER -> "SIM_ABSENT"

Return ==
  /\ ~dead /\ op # "none" /\ script = << >>
  /\ Finish(SimStatus(word))
  /\ UNCHANGED <<callbacks, closed, heap, reply, calls, dead>>

Next ==
  \/ SetSendCommandCb
  \/ \E o \in Ops : Call(o)
  \/ DoSend \/ DoTest \/ DoTok \/ DoCme \/ DoFree
  \/ Return

Spec == Init /\ [][Next]_vars

-----------------------------------------------------------------------------
(* Properties. *)

SimResults == {"SIM_ABSENT", "SIM_NOT_READY", "SIM_READY", "SIM_PIN", "SIM_PUK",
               "SIM_NETWORK_PERSONALIZATION"}

IsResponse(r) ==
  r \in Responses /\ r.id \in 1..allocs /\ Len(r.lines) <= MaxLines

(* The locals of an operation, the heap and the channel's state keep their
   types; every response held was handed out by the channel. *)
TypeOK ==
  /\ op \in Ops \cup {"none"} /\ (op = "none" => script = << >>)
  /\ ret \in {AT_SUCCESS, AT_ERROR_CHANNEL_CLOSED, AT_ERROR_TIMEOUT, AT_ERROR_INVALID_RESPONSE}
  /\ rsp \in {Null, Garbage} \/ IsResponse(rsp)
  /\ reply = Null \/ IsResponse(reply)
  /\ live \subseteq 1..allocs /\ calls \in 0..MaxCalls
  /\ closed \in BOOLEAN /\ misuse \in BOOLEAN /\ dead \in BOOLEAN
  /\ result \in SimResults \cup {"none"}

(* While the channel is open, whatever its answers (errors, time-outs, missing
   lines, tokens of the wrong kind), the operations free each response they
   are given, once and on every way out.  Once it is closed getSIMStatus sends
   its second command over the response of the first. *)
ResponsesFreedWhileOpen ==
  /\ ~misuse
  /\ op = "none" /\ ~closed => live = {}

(* getSIMStatus says what the last answer of the modem says: a status of the
   card only from a successful answer to +CPIN or, when that failed, +QCPIN;
   "absent" for error 10 or an unknown lock; "not ready" for any other error
   and when no answer came at all. *)
SimStatusAsReported ==
  result # "none" =>
    result = IF reply = Null THEN "SIM_NOT_READY"
             ELSE IF reply.success_
               THEN CASE reply.lines[1][1] = "READY" -> "SIM_READY"
                      [] reply.lines[1][1] = "SIM PIN" -> "SIM_PIN"
                      [] reply.lines[1][1] = "SIM PUK" -> "SIM_PUK"
                      [] reply.lines[1][1] = "PH-NET PIN" -> "SIM_NETWORK_PERSONALIZATION"
                      [] OTHER -> "SIM_ABSENT"
             ELSE IF reply.cme = "10" THEN "SIM_ABSENT" ELSE "SIM_NOT_READY"

(* Every response an operation is given is freed, and freed once, by the time
   the operation is back: "if non-NULL, the resulting ATResponse * must be
   eventually freed with at_response_free" (channel.cc). *)
ResponsesFreed ==
  /\ ~misuse
  /\ op = "none" => live = {}
=============================================================================
