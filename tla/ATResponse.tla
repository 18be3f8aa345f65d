----------------------------- MODULE ATResponse -----------------------------
(***************************************************************************)
(* Response lines of the modem and the response under construction         *)
(* (src/src/channel.cc, struct ATResponse of src/src/channel.h).           *)
(*                                                                         *)
(* A line is its class and its position n in the modem's output.  The      *)
(* class stands for the text the code compares with AtStrStartWith: a      *)
(* final response, the "> " prompt, a line that starts with a digit, the   *)
(* header of a two-line SMS notification, a line that starts with one of   *)
(* Prefixes, or any other text.                                            *)
(***************************************************************************)
EXTENDS Naturals, Sequences

CONSTANTS
  Prefixes,   \* response prefixes the commands ask for, as "+CREG:"
  Null        \* nullptr

TextKinds == {"success", "error", "prompt", "digit", "sms", "other"}
LineKinds == TextKinds \cup Prefixes
Line == [kind : LineKinds, n : Nat]

ASSUME PrefixesAssumption == Prefixes \cap TextKinds = {}

(* The values of enum ATCmdType. *)
ATCmdType == {"NO_RESULT", "NUMERIC", "SINGLELINE", "MULTILINE"}

IsFinalResponseSuccess(line) == line.kind = "success"
IsFinalResponseError(line) == line.kind = "error"
IsSMSUnsolicited(line) == line.kind = "sms"
AtStrStartWith(line, prefix) == line.kind = prefix

(* Faulty variant of AllocResponce: malloc, which leaves success_ undefined. *)
AllocResponceUncleared(i) ==
  [id |-> i, success_ |-> Null, final_resp_ |-> Null, intermediates_ |-> << >>]

(* A response as calloc leaves it; id names the allocation. *)
AllocResponce(i) ==
  [id |-> i, success_ |-> FALSE, final_resp_ |-> Null, intermediates_ |-> << >>]

Response == [id : Nat, success_ : BOOLEAN, final_resp_ : Line \cup {Null},
             intermediates_ : Seq(Line)]

ASSUME NullAssumption == Null \notin (Prefixes \cup Line \cup Response)

AddIntermediate(rsp, line) ==
  [rsp EXCEPT !.intermediates_ = <<line>> \o @]

HandleFinalResponse(rsp, line) ==
  [rsp EXCEPT !.success_ = IsFinalResponseSuccess(line), !.final_resp_ = line]

(* Faulty variant of ReverseIntermediates: the list is left as it was built. *)
ReverseIntermediatesOmitted(rsp) == rsp

ReverseIntermediates(rsp) ==
  LET s == rsp.intermediates_
  IN  [rsp EXCEPT !.intermediates_ = [i \in 1..Len(s) |-> s[Len(s) + 1 - i]]]

(* The line is one the pending command of this type asked for. *)
IsIntermediate(line, rsp, type, prefix) ==
  \/ type = "NUMERIC" /\ rsp.intermediates_ = << >> /\ line.kind = "digit"
  \/ type = "SINGLELINE" /\ rsp.intermediates_ = << >> /\ AtStrStartWith(line, prefix)
  \/ type = "MULTILINE" /\ AtStrStartWith(line, prefix)

(* Faulty variant of Route: a line the command did not ask for is dropped. *)
RouteDropping(line, rsp, pdu, type, prefix) ==
  IF rsp = Null THEN "unsolicited"
  ELSE IF IsFinalResponseSuccess(line) \/ IsFinalResponseError(line) THEN "final"
  ELSE IF pdu /\ line.kind = "prompt" THEN "prompt"
  ELSE IF IsIntermediate(line, rsp, type, prefix) THEN "intermediate"
  ELSE "dropped"

(***************************************************************************)
(* What ProcessLine does with a line: it completes the pending response,   *)
(* triggers the PDU, extends the response, or goes to the unsolicited      *)
(* handler.  The cases are tried in this order.                            *)
(***************************************************************************)
Route(line, rsp, pdu, type, prefix) ==
  IF rsp = Null THEN "unsolicited"
  ELSE IF IsFinalResponseSuccess(line) \/ IsFinalResponseError(line) THEN "final"
  ELSE IF pdu /\ line.kind = "prompt" THEN "prompt"
  ELSE IF IsIntermediate(line, rsp, type, prefix) THEN "intermediate"
  ELSE "unsolicited"

(* The response after ProcessLine has routed the line. *)
Routed(rsp, line, route) ==
  CASE route = "final" -> HandleFinalResponse(rsp, line)
    [] route = "intermediate" -> AddIntermediate(rsp, line)
    [] OTHER -> rsp

(* Faulty variant of RoutedPdu: the PDU is kept after the prompt. *)
RoutedPduKept(pdu, route) == pdu

(* The PDU is written, and forgotten, at the prompt. *)
RoutedPdu(pdu, route) == pdu /\ route # "prompt"
=============================================================================
