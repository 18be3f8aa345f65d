-------------------------------- MODULE Lcp --------------------------------
(***************************************************************************)
(* The link control automaton of pppd, the program that Dial::DialPPP      *)
(* executes: fsm.c, with the callbacks lcp.c gives it and the part of      *)
(* auth.c that they call.  Each operator is one C function.  It takes the  *)
(* state p of one pppd process and returns the state the function leaves.  *)
(*                                                                         *)
(* Of the configuration options only their number is kept: a request       *)
(* carries the options still wanted, and lcp_rejci gives one up.  What the *)
(* option callbacks (lcp_reqci, lcp_ackci, lcp_nakci, lcp_rejci) return is *)
(* an argument.  nakloops and rnakloops, which only tell the callbacks     *)
(* when to be stricter, are left out.                                      *)
(*                                                                         *)
(*   state .. retransmits  the members of struct fsm with these names      *)
(*   delayed_up            DELAYED_UP is set in the flags of the fsm       *)
(*   wantoptions, options  how many options a negotiation starts with, and *)
(*                         how many the next request asks for              *)
(*   passive, silent       the options lcp_open copies into the flags      *)
(*   fsm_timeouts, echo_timeouts, up_timeouts                              *)
(*                         how many callouts of fsm_timeout, of            *)
(*                         LcpEchoTimeout and of lcp_delayed_up are        *)
(*                         pending: timeout() does not look for an         *)
(*                         earlier one of the same function                *)
(*   upper                 up callbacks made, less down callbacks made     *)
(*   out                   the packets sent since the event began          *)
(*   acked                 history: the id of the last Configure-Request   *)
(*                         this process answered with a Configure-Ack      *)
(***************************************************************************)
EXTENDS Integers, Sequences

CONSTANTS
  IdMod,                 \* number of packet ids: 256, id is a u_char
  maxconfreqtransmits,   \* DEFMAXCONFREQS
  maxtermtransmits       \* DEFMAXTERMREQS

ASSUME IdModAssumption == IdMod \in Nat \ {0}
ASSUME ConfreqAssumption == maxconfreqtransmits \in Nat \ {0}
ASSUME TermAssumption == maxtermtransmits \in Nat

States == {"INITIAL", "STARTING", "CLOSED", "STOPPED", "CLOSING", "STOPPING",
           "REQSENT", "ACKRCVD", "ACKSENT", "OPENED"}
Codes == {"CONFREQ", "CONFACK", "CONFNAK", "CONFREJ", "TERMREQ", "TERMACK",
          "CODEREJ", "PROTREJ", "ECHOREQ", "ECHOREP"}
Phases == {"DEAD", "ESTABLISH", "AUTHENTICATE", "TERMINATE", "DISCONNECT"}
Ids == 0 .. IdMod - 1
Packets == [code : Codes, id : Ids, options : Nat]

LcpState ==
  [state : States, id : Ids, reqid : Ids, seen_ack : BOOLEAN,
   retransmits : Nat, wantoptions : Nat, options : Nat,
   delayed_up : BOOLEAN,
   passive : BOOLEAN, silent : BOOLEAN, listen_time : BOOLEAN,
   echo_interval : BOOLEAN, echo_fails : Nat,
   fsm_timeouts : Nat, echo_timeouts : Nat, up_timeouts : Nat,
   echo_timer_running : BOOLEAN, echos_pending : Nat,
   upper : Int, phase : Phases, hungup : BOOLEAN,
   out : Seq(Packets), acked : Ids \cup {-1}]

\* The states that wait for an answer.
Timed == {"CLOSING", "STOPPING", "REQSENT", "ACKRCVD", "ACKSENT"}

----------------------------------------------------------------------------
(* main.c: timeout, untimeout and the callouts of this automaton.          *)

Less(n) == IF n > 0 THEN n - 1 ELSE 0

TIMEOUT_fsm(p) == [p EXCEPT !.fsm_timeouts = @ + 1]

\* Faulty variant of UNTIMEOUT_fsm: untimeout looks for another argument.
UNTIMEOUT_fsmOther(p) == p

UNTIMEOUT_fsm(p) == [p EXCEPT !.fsm_timeouts = Less(@)]

SendPacket(p, code, id, options) ==
  [p EXCEPT !.out = Append(@, [code |-> code, id |-> id, options |-> options])]

\* A packet that is not a request carries nothing the automaton looks at.
fsm_sdata(p, code, id) == SendPacket(p, code, id, 0)

\* Faulty variant of NextId: an id wider than a u_char.
NextIdWide(p) == p.id + 1

\* Faulty variant of NextId: an id of one bit.
NextIdNarrow(p) == (p.id + 1) % 2

NextId(p) == (p.id + 1) % IdMod

\* A negotiation starts with all the options.  A new request takes a new id
\* and all its transmissions.
fsm_sconfreq(p, retransmit) ==
  LET c == IF p.state \in {"REQSENT", "ACKRCVD", "ACKSENT"}
           THEN p
           ELSE [p EXCEPT !.options = p.wantoptions]
      q == IF retransmit
           THEN c
           ELSE [c EXCEPT !.retransmits = maxconfreqtransmits,
                          !.id = NextId(p),
                          !.reqid = NextId(p)]
      s == SendPacket([q EXCEPT !.seen_ack = FALSE], "CONFREQ", q.reqid, q.options)
  IN TIMEOUT_fsm([s EXCEPT !.retransmits = @ - 1])

----------------------------------------------------------------------------
(* The down callback, and fsm_lowerdown with the callers below it.         *)

\* Faulty variant of lcp_echo_lowerdown: the callout is not cancelled.
lcp_echo_lowerdownKept(p) == [p EXCEPT !.echo_timer_running = FALSE]

lcp_echo_lowerdown(p) ==
  IF p.echo_timer_running
  THEN [p EXCEPT !.echo_timeouts = Less(@), !.echo_timer_running = FALSE]
  ELSE p

link_down(p) ==
  [p EXCEPT !.upper = @ - 1,
            !.phase = IF @ = "DEAD" THEN @ ELSE "ESTABLISH"]

lcp_down(p) == link_down(lcp_echo_lowerdown(p))

fsm_lowerdown(p) ==
  CASE p.state = "CLOSED" -> [p EXCEPT !.state = "INITIAL"]
    [] p.state = "STOPPED" -> [p EXCEPT !.state = "STARTING"]
    [] p.state = "CLOSING" -> [UNTIMEOUT_fsm(p) EXCEPT !.state = "INITIAL"]
    [] p.state \in {"STOPPING", "REQSENT", "ACKRCVD", "ACKSENT"} ->
         [UNTIMEOUT_fsm(p) EXCEPT !.state = "STARTING"]
    [] p.state = "OPENED" -> [lcp_down(p) EXCEPT !.state = "STARTING"]
    [] OTHER -> p

\* Faulty variant of lcp_lowerdown: a delayed lcp_lowerup is forgotten.
lcp_lowerdownDelayed(p) == fsm_lowerdown(p)

lcp_lowerdown(p) ==
  IF p.delayed_up
  THEN [p EXCEPT !.delayed_up = FALSE, !.up_timeouts = Less(@)]
  ELSE fsm_lowerdown(p)

link_terminated(p) ==
  IF p.phase = "DEAD"
  THEN p
  ELSE LET q == [p EXCEPT !.phase = "DISCONNECT"]
       IN [(IF p.hungup THEN q ELSE lcp_lowerdown(q)) EXCEPT !.phase = "DEAD"]

lcp_finished(p) == link_terminated(p)

----------------------------------------------------------------------------
(* Closing.                                                                *)

terminate_layer(p, nextstate) ==
  LET d == IF p.state # "OPENED" THEN UNTIMEOUT_fsm(p) ELSE lcp_down(p)
      r == [d EXCEPT !.retransmits = maxtermtransmits,
                     !.id = NextId(d),
                     !.reqid = NextId(d)]
      s == fsm_sdata(r, "TERMREQ", r.reqid)
  IN IF s.retransmits = 0
     THEN lcp_finished([s EXCEPT !.state = IF nextstate = "CLOSING"
                                           THEN "CLOSED" ELSE "STOPPED"])
     ELSE [TIMEOUT_fsm(s) EXCEPT !.retransmits = @ - 1, !.state = nextstate]

fsm_close(p) ==
  CASE p.state = "STARTING" -> [p EXCEPT !.state = "INITIAL"]
    [] p.state = "STOPPED" -> [p EXCEPT !.state = "CLOSED"]
    [] p.state = "STOPPING" -> [p EXCEPT !.state = "CLOSING"]
    [] p.state \in {"REQSENT", "ACKRCVD", "ACKSENT", "OPENED"} ->
         terminate_layer(p, "CLOSING")
    [] OTHER -> p

\* Faulty variant of NothingToTerminate: the delayed case is forgotten.
NothingToTerminateDelayed(p) == p.state = "STOPPED" /\ (p.passive \/ p.silent)

\* "Pass the finished event": the peer has not been heard of yet.
NothingToTerminate(p) ==
  p.state = "STOPPED" /\ (p.passive \/ p.silent \/ p.delayed_up)

lcp_close(p) ==
  LET t == [p EXCEPT !.phase = IF @ = "DEAD" THEN @ ELSE "TERMINATE"]
      o == IF t.delayed_up
           THEN [t EXCEPT !.up_timeouts = Less(@), !.state = "STOPPED"]
           ELSE t
      c == fsm_close(o)
  IN IF NothingToTerminate(o)
     THEN lcp_finished([c EXCEPT !.delayed_up = FALSE])
     ELSE c

----------------------------------------------------------------------------
(* Echo requests, and the up callback.                                     *)

LcpLinkFailure(p) == IF p.state = "OPENED" THEN lcp_close(p) ELSE p

\* Faulty variant of LcpSendEchoRequest: requests are not counted.
LcpSendEchoRequestUncounted(p) ==
  IF p.state = "OPENED" THEN fsm_sdata(p, "ECHOREQ", 0) ELSE p

LcpSendEchoRequest(p) ==
  LET q == IF p.echo_fails # 0 /\ p.echos_pending >= p.echo_fails
           THEN [LcpLinkFailure(p) EXCEPT !.echos_pending = 0]
           ELSE p
  IN IF q.state = "OPENED"
     THEN [fsm_sdata(q, "ECHOREQ", 0) EXCEPT !.echos_pending = @ + 1]
     ELSE q

LcpEchoCheck(p) ==
  LET q == LcpSendEchoRequest(p)
  IN IF q.state # "OPENED"
     THEN q
     ELSE [q EXCEPT !.echo_timeouts = @ + 1, !.echo_timer_running = TRUE]

\* The callout that fired is off the list.
LcpEchoTimeout(p) ==
  LET q == [p EXCEPT !.echo_timeouts = @ - 1]
  IN IF q.echo_timer_running
     THEN LcpEchoCheck([q EXCEPT !.echo_timer_running = FALSE])
     ELSE q

lcp_echo_lowerup(p) ==
  LET q == [p EXCEPT !.echos_pending = 0, !.echo_timer_running = FALSE]
  IN IF q.echo_interval THEN LcpEchoCheck(q) ELSE q

\* refuse: this side requires authentication and the peer did not agree.
link_established(p, refuse) ==
  LET q == [p EXCEPT !.upper = @ + 1]
  IN IF refuse THEN lcp_close(q) ELSE [q EXCEPT !.phase = "AUTHENTICATE"]

lcp_up(p, refuse) == link_established(lcp_echo_lowerup(p), refuse)

----------------------------------------------------------------------------
(* Opening, and the lower layer coming up.                                 *)

fsm_lowerup(p) ==
  CASE p.state = "INITIAL" -> [p EXCEPT !.state = "CLOSED"]
    [] p.state = "STARTING" /\ p.silent -> [p EXCEPT !.state = "STOPPED"]
    [] p.state = "STARTING" /\ ~p.silent ->
         [fsm_sconfreq(p, FALSE) EXCEPT !.state = "REQSENT"]
    [] OTHER -> p

\* fsm_open; OPT_RESTART is never set for LCP.
fsm_open(p) ==
  CASE p.state = "INITIAL" -> [p EXCEPT !.state = "STARTING"]
    [] p.state = "CLOSED" /\ p.silent -> [p EXCEPT !.state = "STOPPED"]
    [] p.state = "CLOSED" /\ ~p.silent ->
         [fsm_sconfreq(p, FALSE) EXCEPT !.state = "REQSENT"]
    [] p.state = "CLOSING" -> [p EXCEPT !.state = "STOPPING"]
    [] OTHER -> p

lcp_open(p) == fsm_open(p)

\* config: ppp_send_config and ppp_recv_config succeeded.
lcp_lowerup(p, config) ==
  CASE ~config -> p
    [] config /\ p.listen_time ->
         [p EXCEPT !.delayed_up = TRUE, !.up_timeouts = @ + 1]
    [] OTHER -> fsm_lowerup(p)

lcp_delayed_up(p) ==
  LET q == [p EXCEPT !.up_timeouts = @ - 1]
  IN IF q.delayed_up THEN fsm_lowerup([q EXCEPT !.delayed_up = FALSE]) ELSE q

----------------------------------------------------------------------------
(* The retransmission timer.                                               *)

\* calltimeout: the callout that fired is off the list when its function runs.
Fired(p) == [p EXCEPT !.fsm_timeouts = @ - 1]

fsm_timeout(p) ==
  CASE p.state \in {"CLOSING", "STOPPING"} /\ p.retransmits <= 0 ->
         lcp_finished([p EXCEPT !.state = IF @ = "CLOSING"
                                          THEN "CLOSED" ELSE "STOPPED"])
    [] p.state \in {"CLOSING", "STOPPING"} /\ p.retransmits > 0 ->
         LET r == [p EXCEPT !.id = NextId(p), !.reqid = NextId(p)]
         IN [TIMEOUT_fsm(fsm_sdata(r, "TERMREQ", r.reqid))
               EXCEPT !.retransmits = @ - 1]
    [] p.state \in {"REQSENT", "ACKRCVD", "ACKSENT"} /\ p.retransmits <= 0 ->
         LET q == [p EXCEPT !.state = "STOPPED"]
         IN IF p.passive THEN q ELSE lcp_finished(q)
    [] p.state \in {"REQSENT", "ACKRCVD", "ACKSENT"} /\ p.retransmits > 0 ->
         [fsm_sconfreq(p, TRUE)
            EXCEPT !.state = IF @ = "ACKRCVD" THEN "REQSENT" ELSE @]
    [] OTHER -> p

----------------------------------------------------------------------------
(* Received packets.  code is what lcp_reqci answers to a request, ret     *)
(* what lcp_ackci, lcp_nakci or lcp_rejci returns.                         *)

fsm_rconfreq(p, id, code, refuse) ==
  IF p.state = "CLOSED" THEN fsm_sdata(p, "TERMACK", id)
  ELSE IF p.state \in {"CLOSING", "STOPPING"} THEN p
  ELSE
    LET b == IF p.state = "OPENED" THEN lcp_down(p) ELSE p
        n == IF p.state \in {"OPENED", "STOPPED"}
             THEN [fsm_sconfreq(b, FALSE) EXCEPT !.state = "REQSENT"]
             ELSE p
        s == fsm_sdata(n, code, id)
    IN CASE code = "CONFACK" /\ n.state = "ACKRCVD" ->
              lcp_up([UNTIMEOUT_fsm(s) EXCEPT !.state = "OPENED",
                                              !.acked = id], refuse)
         [] code = "CONFACK" /\ n.state # "ACKRCVD" ->
              [s EXCEPT !.state = "ACKSENT", !.acked = id]
         [] OTHER ->
              [s EXCEPT !.state = IF @ = "ACKRCVD" THEN @ ELSE "REQSENT"]

\* Faulty variant of ExpectedId: the id is not compared.
ExpectedIdAny(p, id) == ~p.seen_ack

\* "expected id": the first answer to the last request.
ExpectedId(p, id) == id = p.reqid /\ ~p.seen_ack

fsm_rconfack(p, id, ret, refuse) ==
  IF ~ExpectedId(p, id) \/ ret = 0 THEN p
  ELSE
    LET a == [p EXCEPT !.seen_ack = TRUE]
    IN CASE a.state \in {"CLOSED", "STOPPED"} -> fsm_sdata(a, "TERMACK", id)
         [] a.state = "REQSENT" ->
              [a EXCEPT !.state = "ACKRCVD", !.retransmits = maxconfreqtransmits]
         [] a.state = "ACKRCVD" ->
              [fsm_sconfreq(UNTIMEOUT_fsm(a), FALSE) EXCEPT !.state = "REQSENT"]
         [] a.state = "ACKSENT" ->
              lcp_up([UNTIMEOUT_fsm(a)
                        EXCEPT !.state = "OPENED",
                               !.retransmits = maxconfreqtransmits], refuse)
         [] a.state = "OPENED" ->
              [fsm_sconfreq(lcp_down(a), FALSE) EXCEPT !.state = "REQSENT"]
         [] OTHER -> a

fsm_rconfnakrej(p, code, id, ret) ==
  IF ~ExpectedId(p, id) \/ ret = 0 THEN p
  ELSE
    LET a == [p EXCEPT !.seen_ack = TRUE,
                       !.options = IF code = "CONFREJ" THEN Less(@) ELSE @]
    IN CASE a.state \in {"CLOSED", "STOPPED"} -> fsm_sdata(a, "TERMACK", id)
         [] a.state \in {"REQSENT", "ACKSENT"} ->
              IF ret < 0
              THEN [UNTIMEOUT_fsm(a) EXCEPT !.state = "STOPPED"]
              ELSE fsm_sconfreq(UNTIMEOUT_fsm(a), FALSE)
         [] a.state = "ACKRCVD" ->
              [fsm_sconfreq(UNTIMEOUT_fsm(a), FALSE) EXCEPT !.state = "REQSENT"]
         [] a.state = "OPENED" ->
              [fsm_sconfreq(lcp_down(a), FALSE) EXCEPT !.state = "REQSENT"]
         [] OTHER -> a

fsm_rtermreq(p, id) ==
  LET q == CASE p.state \in {"ACKRCVD", "ACKSENT"} ->
                  [p EXCEPT !.state = "REQSENT"]
             [] p.state = "OPENED" ->
                  TIMEOUT_fsm(lcp_down([p EXCEPT !.retransmits = 0,
                                                 !.state = "STOPPING"]))
             [] OTHER -> p
  IN fsm_sdata(q, "TERMACK", id)

\* Faulty variant of fsm_rtermack: OPENED is left without the down callback.
fsm_rtermackSilent(p) ==
  IF p.state = "OPENED"
  THEN [fsm_sconfreq(p, FALSE) EXCEPT !.state = "REQSENT"]
  ELSE p

fsm_rtermack(p) ==
  CASE p.state = "CLOSING" ->
         lcp_finished([UNTIMEOUT_fsm(p) EXCEPT !.state = "CLOSED"])
    [] p.state = "STOPPING" ->
         lcp_finished([UNTIMEOUT_fsm(p) EXCEPT !.state = "STOPPED"])
    [] p.state = "ACKRCVD" -> [p EXCEPT !.state = "REQSENT"]
    [] p.state = "OPENED" ->
         [fsm_sconfreq(lcp_down(p), FALSE) EXCEPT !.state = "REQSENT"]
    [] OTHER -> p

fsm_rcoderej(p) ==
  IF p.state = "ACKRCVD" THEN [p EXCEPT !.state = "REQSENT"] ELSE p

fsm_protreject(p) ==
  CASE p.state = "CLOSING" ->
         lcp_finished([UNTIMEOUT_fsm(p) EXCEPT !.state = "CLOSED"])
    [] p.state = "CLOSED" -> lcp_finished(p)
    [] p.state \in {"STOPPING", "REQSENT", "ACKRCVD", "ACKSENT"} ->
         lcp_finished([UNTIMEOUT_fsm(p) EXCEPT !.state = "STOPPED"])
    [] p.state = "STOPPED" -> lcp_finished(p)
    [] p.state = "OPENED" -> terminate_layer(p, "STOPPING")
    [] OTHER -> p

\* lcp_extcode, with lcp_rprotrej for a rejection of LCP itself.
lcp_extcode(p, pkt) ==
  CASE pkt.code = "PROTREJ" /\ p.state = "OPENED" -> fsm_protreject(p)
    [] pkt.code = "ECHOREQ" /\ p.state = "OPENED" ->
         fsm_sdata(p, "ECHOREP", pkt.id)
    [] pkt.code = "ECHOREP" -> [p EXCEPT !.echos_pending = 0]
    [] OTHER -> p

fsm_input(p, pkt, code, ret, refuse) ==
  IF p.state \in {"INITIAL", "STARTING"} THEN p
  ELSE CASE pkt.code = "CONFREQ" -> fsm_rconfreq(p, pkt.id, code, refuse)
         [] pkt.code = "CONFACK" -> fsm_rconfack(p, pkt.id, ret, refuse)
         [] pkt.code \in {"CONFNAK", "CONFREJ"} ->
              fsm_rconfnakrej(p, pkt.code, pkt.id, ret)
         [] pkt.code = "TERMREQ" -> fsm_rtermreq(p, pkt.id)
         [] pkt.code = "TERMACK" -> fsm_rtermack(p)
         [] pkt.code = "CODEREJ" -> fsm_rcoderej(p)
         [] OTHER -> lcp_extcode(p, pkt)

lcp_input(p, pkt, code, ret, refuse) ==
  LET q == IF p.delayed_up
           THEN fsm_lowerup([p EXCEPT !.delayed_up = FALSE,
                                      !.up_timeouts = Less(@)])
           ELSE p
  IN fsm_input(q, pkt, code, ret, refuse)

=============================================================================
