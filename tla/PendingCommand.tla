--------------------------- MODULE PendingCommand ---------------------------
(***************************************************************************)
(* The life of one pending command at the granularity of the critical      *)
(* sections of src/src/channel.cc: SendCommandNoLock sets it up, the       *)
(* reader passes lines through ProcessLine, and SendCommandNoLock collects *)
(* the response or drops it on a time-out.  No threads and no locks here:  *)
(* ATChannel says which of these steps the locking lets happen.            *)
(*                                                                         *)
(* Lines may still arrive between the final response and the collection:   *)
(* notify_one only makes the command thread runnable.                      *)
(***************************************************************************)
EXTENDS ATResponse, FiniteSets

CONSTANTS
  InputKinds,     \* classes of lines the modem may send
  MaxCommands,    \* bound on the number of commands
  MaxLines        \* bound on the number of lines

ASSUME InputAssumption == InputKinds \subseteq LineKinds
ASSUME BoundsAssumption == MaxCommands \in Nat /\ MaxLines \in Nat

VARIABLES
  rsp_, type_, rsp_prefix_, sms_pdu_,
  commands, nread,      \* commands started, lines processed
  received, unsol,      \* lines since the command began; those passed to unsol_handler_
  prompts,              \* how often the PDU was written for this command
  result, asked         \* the response handed out; the command it answers and its lines

vars == <<rsp_, type_, rsp_prefix_, sms_pdu_, commands, nread, received, unsol, prompts,
          result, asked>>

Init ==
  /\ rsp_ = Null /\ type_ \in ATCmdType /\ rsp_prefix_ = Null /\ sms_pdu_ = FALSE
  /\ commands = 0 /\ nread = 0
  /\ received = << >> /\ unsol = << >> /\ prompts = 0
  /\ result = Null /\ asked = Null

(* A prefix goes with the line types only. *)
PrefixesOf(type) == IF type \in {"SINGLELINE", "MULTILINE"} THEN Prefixes ELSE {Null}

(* SendCommandNoLock up to the wait. *)
Begin(type, prefix, pdu) ==
  /\ rsp_ = Null /\ commands < MaxCommands
  /\ type_' = type /\ rsp_prefix_' = prefix /\ sms_pdu_' = pdu
  /\ commands' = commands + 1
  /\ rsp_' = AllocResponce(commands')
  /\ received' = << >> /\ unsol' = << >> /\ prompts' = 0
  /\ result' = Null /\ asked' = Null
  /\ UNCHANGED nread

ProcessLine(kind) ==
  /\ nread < MaxLines
  /\ nread' = nread + 1
  /\ LET line == [kind |-> kind, n |-> nread']
         route == Route(line, rsp_, sms_pdu_, type_, rsp_prefix_)
     IN  /\ rsp_' = Routed(rsp_, line, route)
         /\ sms_pdu_' = RoutedPdu(sms_pdu_, route)
         /\ prompts' = IF route = "prompt" THEN prompts + 1 ELSE prompts
         /\ unsol' = IF route = "unsolicited" THEN Append(unsol, line) ELSE unsol
         /\ received' = Append(received, line)
  /\ UNCHANGED <<type_, rsp_prefix_, commands, result, asked>>

ClearPendingCommand ==
  /\ rsp_' = Null /\ rsp_prefix_' = Null /\ sms_pdu_' = FALSE

(* SendCommandNoLock after the wait; the wrappers of the one-line commands
   turn a success without an intermediate line into no response. *)
Collect ==
  /\ rsp_ # Null /\ rsp_.final_resp_ # Null
  /\ result' = IF /\ type_ \in {"SINGLELINE", "NUMERIC"}
                  /\ rsp_.success_ /\ rsp_.intermediates_ = << >>
                 THEN Null ELSE ReverseIntermediates(rsp_)
  /\ asked' = [type |-> type_, prefix |-> rsp_prefix_, lines |-> received]
  /\ ClearPendingCommand
  /\ UNCHANGED <<type_, commands, nread, received, unsol, prompts>>

(* SendCommandNoLock gives up. *)
Timeout ==
  /\ rsp_ # Null
  /\ ClearPendingCommand
  /\ UNCHANGED <<type_, commands, nread, received, unsol, prompts, result, asked>>

Next ==
  \/ \E type \in ATCmdType : \E prefix \in PrefixesOf(type) : \E pdu \in BOOLEAN :
       /\ pdu => type = "SINGLELINE"
       /\ Begin(type, prefix, pdu)
  \/ \E kind \in InputKinds : ProcessLine(kind)
  \/ Collect
  \/ Timeout

Spec == Init /\ [][Next]_vars

-----------------------------------------------------------------------------
(* Every variable of the pending command has its type. *)
TypeOK ==
  /\ rsp_ \in Response \cup {Null} /\ type_ \in ATCmdType
  /\ rsp_prefix_ \in Prefixes \cup {Null} /\ sms_pdu_ \in BOOLEAN
  /\ commands \in Nat /\ nread \in Nat /\ prompts \in Nat
  /\ received \in Seq(Line) /\ unsol \in Seq(Line)
  /\ result \in Response \cup {Null}
  /\ asked \in [type : ATCmdType, prefix : Prefixes \cup {Null}, lines : Seq(Line)] \cup {Null}

Elements(s) == {s[i] : i \in 1..Len(s)}
Ascending(s) == \A i, j \in 1..Len(s) : i < j => s[i].n < s[j].n

(***************************************************************************)
(* Reference: the lines a command of this type asks for among the ones     *)
(* received, as a set read off the whole list at once (comments of enum    *)
(* ATCmdType).                                                             *)
(***************************************************************************)
Wanted(c) ==
  {l \in Elements(c.lines) : l.kind = IF c.type = "NUMERIC" THEN "digit" ELSE c.prefix}

LinesAskedFor(c) ==
  CASE c.type = "NO_RESULT" -> {}
    [] c.type = "MULTILINE" -> Wanted(c)
    [] OTHER -> {l \in Wanted(c) : \A m \in Wanted(c) : l.n <= m.n}

Finals(lines) ==
  {l \in Elements(lines) : IsFinalResponseSuccess(l) \/ IsFinalResponseError(l)}

(***************************************************************************)
(* The response a caller gets holds exactly the lines its command asked    *)
(* for, in the order they arrived, however they were mixed with other      *)
(* lines and although the list is built backwards (AddIntermediate,        *)
(* ReverseIntermediates), and its success flag is that of a final line     *)
(* that arrived while the command was pending.                             *)
(***************************************************************************)
ResponseAsAsked ==
  result # Null =>
    /\ Elements(result.intermediates_) = LinesAskedFor(asked)
    /\ Ascending(result.intermediates_)
    /\ result.final_resp_ \in Finals(asked.lines)
    /\ result.success_ = IsFinalResponseSuccess(result.final_resp_)

(***************************************************************************)
(* ProcessLine loses no line and uses none twice: while a command is       *)
(* pending every line received since it began is in the response, went to  *)
(* unsol_handler_, is a final response, or was the prompt answered with    *)
(* the PDU.                                                                *)
(***************************************************************************)
NoLineLost ==
  rsp_ # Null =>
    LET kept == Elements(rsp_.intermediates_)  passed == Elements(unsol)
        finals == Finals(received)
    IN  /\ kept \cup passed \subseteq Elements(received)
        /\ kept \cap passed = {} /\ kept \cap finals = {} /\ passed \cap finals = {}
        /\ Len(received)
             = Len(unsol) + Len(rsp_.intermediates_) + Cardinality(finals) + prompts

(***************************************************************************)
(* The PDU of an SMS command is written at most once however many prompts  *)
(* the modem sends, and never for a command without one (ProcessLine,      *)
(* sms_pdu_).                                                              *)
(***************************************************************************)
PduWrittenOnce ==
  /\ prompts <= 1
  /\ sms_pdu_ => prompts = 0 /\ rsp_ # Null
=============================================================================
