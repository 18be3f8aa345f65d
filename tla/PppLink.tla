------------------------------ MODULE PppLink ------------------------------
(***************************************************************************)
(* Two pppd processes at the ends of a serial link: the one Dial::DialPPP  *)
(* started and its peer, each with the automaton of module Lcp and the     *)
(* main loop of main.c.  The link keeps the order of packets and may lose  *)
(* any of them.  The upper protocols (authentication, IPCP) are            *)
(* represented by what they do to the link once it is up: they come up or  *)
(* close it.                                                               *)
(*                                                                         *)
(*   lcp[p]            the state of LCP and of the link phase              *)
(*   main[p]           where main() is: about to connect, in its event     *)
(*                     loop, in the hold-off wait, or past die()           *)
(*   link[p]           the packets on their way to p, oldest first         *)
(*   got[p]            signals caught and not yet handled                  *)
(*   asked_to_quit[p]  a SIGTERM was handled                               *)
(*   unsuccess[p]      connection attempts since the network was last up,  *)
(*                     counted as far as maxfail                           *)
(***************************************************************************)
EXTENDS Lcp

CONSTANTS
  Peers,          \* the two processes
  Options,        \* Options[p]: the command line of p
  Answers,        \* what lcp_reqci may answer to a request
  LinkCapacity,   \* bound: packets on their way to one process
  Faults          \* Faults[p]: what may happen to p, of FaultKinds

FaultKinds == {"connect", "config", "refuse", "hangup", "reject",
               "SIGHUP", "SIGTERM"}

ASSUME PeersAssumption == \E p, q \in Peers : p # q /\ Peers = {p, q}
ASSUME CapacityAssumption == LinkCapacity \in Nat
ASSUME FaultsAssumption == Faults \in [Peers -> SUBSET FaultKinds]
ASSUME OptionsAssumption ==
  Options \in [Peers -> [passive : BOOLEAN, silent : BOOLEAN,
                         listen_time : BOOLEAN, echo_interval : BOOLEAN,
                         echo_fails : Nat, wantoptions : Nat,
                         persist : BOOLEAN, maxfail : Nat]]
ASSUME AnswersAssumption == Answers \subseteq {"CONFACK", "CONFNAK", "CONFREJ"}

VARIABLES lcp, main, link, got, asked_to_quit, unsuccess

vars == <<lcp, main, link, got, asked_to_quit, unsuccess>>

Peer(p) == CHOOSE q \in Peers : q # p

lcp_init(o) ==
  [state |-> "INITIAL", id |-> 0, reqid |-> 0, seen_ack |-> FALSE,
   retransmits |-> 0, wantoptions |-> o.wantoptions, options |-> 0,
   delayed_up |-> FALSE,
   passive |-> o.passive, silent |-> o.silent, listen_time |-> o.listen_time,
   echo_interval |-> o.echo_interval, echo_fails |-> o.echo_fails,
   fsm_timeouts |-> 0, echo_timeouts |-> 0, up_timeouts |-> 0,
   echo_timer_running |-> FALSE, echos_pending |-> 0,
   upper |-> 0, phase |-> "DEAD", hungup |-> FALSE,
   out |-> <<>>, acked |-> -1]

Init ==
  /\ lcp = [p \in Peers |-> lcp_init(Options[p])]
  /\ main = [p \in Peers |-> "connect"]
  /\ link = [p \in Peers |-> <<>>]
  /\ got = [p \in Peers |-> {}]
  /\ asked_to_quit = [p \in Peers |-> FALSE]
  /\ unsuccess = [p \in Peers |-> 0]

\* p leaves an event in state s: what it sent is on link l, as far as there
\* is room and the peer is connected.  Disconnecting p drops the line, and
\* what is on it either way is lost.
Sent(l, p, s) ==
  LET q == Peer(p)
      all == l[q] \o s.out
  IN IF s.phase = "DEAD" \/ lcp[q].phase = "DEAD"
     THEN [r \in Peers |-> <<>>]
     ELSE [l EXCEPT ![q] = IF Len(all) <= LinkCapacity THEN all
                           ELSE SubSeq(all, 1, LinkCapacity)]

Step(p, s) ==
  /\ lcp' = [lcp EXCEPT ![p] = [s EXCEPT !.out = <<>>]]
  /\ link' = Sent(link, p, s)

----------------------------------------------------------------------------
(* main(): one turn of its outer loop is Connect, events, Leave, Holdoff.  *)

\* lcp_open and start_link, which may fail to connect.
Connect(p) ==
  /\ main[p] = "connect"
  /\ main' = [main EXCEPT ![p] = "loop"]
  /\ unsuccess' = [unsuccess EXCEPT ![p] = IF @ < Options[p].maxfail
                                           THEN @ + 1 ELSE @]
  /\ LET o == [lcp_open(lcp[p]) EXCEPT !.hungup = FALSE]
     IN \/ /\ "connect" \in Faults[p]
           /\ Step(p, o)
        \/ \E config \in {TRUE} \cup {c \in {FALSE} : "config" \in Faults[p]} :
             Step(p, lcp_lowerup([o EXCEPT !.phase = "ESTABLISH"], config))
  /\ UNCHANGED <<got, asked_to_quit>>

\* The end of the inner loop: "restore FSMs to original state".
Leave(p) ==
  /\ main[p] = "loop"
  /\ lcp[p].phase = "DEAD"
  /\ Step(p, lcp_close(lcp[p]))
  /\ main' = [main EXCEPT ![p] =
                IF \/ ~Options[p].persist
                   \/ asked_to_quit[p]
                   \/ Options[p].maxfail > 0 /\ unsuccess[p] >= Options[p].maxfail
                THEN "exit" ELSE "holdoff"]
  /\ UNCHANGED <<got, asked_to_quit, unsuccess>>

\* The hold-off ends by its timer or by a signal; SIGTERM also ends main().
Holdoff(p) ==
  /\ main[p] = "holdoff"
  /\ asked_to_quit' = [asked_to_quit EXCEPT ![p] = @ \/ "SIGTERM" \in got[p]]
  /\ got' = [got EXCEPT ![p] = {}]
  /\ main' = [main EXCEPT ![p] = IF asked_to_quit'[p] THEN "exit" ELSE "connect"]
  /\ UNCHANGED <<lcp, link, unsuccess>>

----------------------------------------------------------------------------
(* Events of the inner loop.                                               *)

Event(p, s) ==
  /\ Step(p, s)
  /\ UNCHANGED <<main, got, asked_to_quit, unsuccess>>

\* calltimeout: one pending callout is due.
FsmTimeout(p) ==
  /\ main[p] \in {"loop", "holdoff"}
  /\ lcp[p].fsm_timeouts > 0
  /\ Event(p, fsm_timeout(Fired(lcp[p])))

EchoTimeout(p) ==
  /\ main[p] \in {"loop", "holdoff"}
  /\ lcp[p].echo_timeouts > 0
  /\ Event(p, LcpEchoTimeout(lcp[p]))

DelayedUp(p) ==
  /\ main[p] \in {"loop", "holdoff"}
  /\ lcp[p].up_timeouts > 0
  /\ Event(p, lcp_delayed_up(lcp[p]))

\* get_input: a packet for LCP.  Only an option that is there is rejected.
GetInput(p) ==
  /\ main[p] = "loop"
  /\ lcp[p].phase # "DEAD"
  /\ link[p] # <<>>
  /\ \E code \in {c \in Answers : c = "CONFREJ" => Head(link[p]).options > 0},
        ret \in {0, 1},
        refuse \in {FALSE} \cup {r \in {TRUE} : "refuse" \in Faults[p]} :
       LET s == lcp_input(lcp[p], Head(link[p]), code, ret, refuse)
       IN /\ lcp' = [lcp EXCEPT ![p] = [s EXCEPT !.out = <<>>]]
          /\ link' = Sent([link EXCEPT ![p] = Tail(@)], p, s)
  /\ UNCHANGED <<main, got, asked_to_quit, unsuccess>>

\* get_input: end of file, "Modem hangup".
Hangup(p) ==
  /\ "hangup" \in Faults[p]
  /\ main[p] = "loop"
  /\ lcp[p].phase # "DEAD"
  /\ Event(p, link_terminated(lcp_lowerdown([lcp[p] EXCEPT !.hungup = TRUE])))

\* handle_events and lcp_close(0, "User request").
HandleSignals(p) ==
  /\ main[p] = "loop"
  /\ lcp[p].phase # "DEAD"
  /\ got[p] # {}
  /\ Step(p, lcp_close(lcp[p]))
  /\ asked_to_quit' = [asked_to_quit EXCEPT ![p] = @ \/ "SIGTERM" \in got[p]]
  /\ got' = [got EXCEPT ![p] = {}]
  /\ UNCHANGED <<main, unsuccess>>

\* auth_peer_fail, auth_withpeer_fail, np_finished, check_idle and
\* connect_time_expired: an upper protocol closes the link.
UpperClose(p) ==
  /\ main[p] = "loop"
  /\ lcp[p].phase = "AUTHENTICATE"
  /\ Event(p, lcp_close(lcp[p]))

\* np_up: the link "has come up successfully".
NetworkUp(p) ==
  /\ main[p] = "loop"
  /\ lcp[p].phase = "AUTHENTICATE"
  /\ unsuccess' = [unsuccess EXCEPT ![p] = 0]
  /\ UNCHANGED <<lcp, main, link, got, asked_to_quit>>

----------------------------------------------------------------------------
(* The environment.                                                        *)

Signal(p) ==
  /\ main[p] # "exit"
  /\ \E s \in {"SIGHUP", "SIGTERM"} \cap Faults[p] : got' = [got EXCEPT ![p] = @ \cup {s}]
  /\ UNCHANGED <<lcp, main, link, asked_to_quit, unsuccess>>

Lose(p) ==
  /\ link[p] # <<>>
  /\ link' = [link EXCEPT ![p] = Tail(@)]
  /\ UNCHANGED <<lcp, main, got, asked_to_quit, unsuccess>>

\* A peer that does not understand a packet of p rejects its code or LCP.
Reject(p) ==
  /\ "reject" \in Faults[p]
  /\ link[Peer(p)] # <<>>
  /\ link[p] = <<>>
  /\ lcp[p].phase # "DEAD"
  /\ \E code \in {"CODEREJ", "PROTREJ"} :
       link' = [link EXCEPT ![Peer(p)] = Tail(@),
                            ![p] = <<[code |-> code, id |-> 0, options |-> 0]>>]
  /\ UNCHANGED <<lcp, main, got, asked_to_quit, unsuccess>>

\* What main() does by itself, and what calltimeout makes it do.
MainLoop(p) == Connect(p) \/ Leave(p) \/ Holdoff(p) \/ HandleSignals(p)
Callout(p) == FsmTimeout(p) \/ EchoTimeout(p) \/ DelayedUp(p)

Next ==
  \E p \in Peers :
    \/ MainLoop(p) \/ Callout(p)
    \/ GetInput(p) \/ Hangup(p) \/ NetworkUp(p) \/ UpperClose(p)
    \/ Signal(p) \/ Lose(p) \/ Reject(p)

Spec == Init /\ [][Next]_vars

\* The main loop runs the callouts that are due and looks at the signals in
\* every turn; nothing is assumed of the packets or of the upper protocols.
Fairness == \A p \in Peers : WF_vars(MainLoop(p)) /\ WF_vars(Callout(p))

FairSpec == Spec /\ Fairness

----------------------------------------------------------------------------
(* Properties.                                                             *)

TypeOK ==
  /\ lcp \in [Peers -> LcpState]
  /\ main \in [Peers -> {"connect", "loop", "holdoff", "exit"}]
  /\ link \in [Peers -> Seq(Packets)]
  /\ got \in [Peers -> SUBSET {"SIGHUP", "SIGTERM"}]
  /\ asked_to_quit \in [Peers -> BOOLEAN]
  /\ unsuccess \in [Peers -> Nat]

\* The automaton has exactly one retransmission callout pending while it
\* waits for an answer and none otherwise, although timeout() does not
\* replace an earlier callout and untimeout() removes one only.
OneTimer ==
  \A p \in Peers :
    lcp[p].fsm_timeouts = IF lcp[p].state \in Timed THEN 1 ELSE 0

\* The upper protocols have been told that the link is up, once, exactly
\* while LCP is OPENED: every way into and out of OPENED makes its callback.
UpperLayerTold ==
  \A p \in Peers : lcp[p].upper = IF lcp[p].state = "OPENED" THEN 1 ELSE 0

\* One echo callout is pending while LCP is OPENED with echo requests
\* configured, and none at any other time; lcp_echo_timer_running agrees.
EchoTimerMatches ==
  \A p \in Peers :
    /\ lcp[p].echo_timer_running <=>
         lcp[p].state = "OPENED" /\ lcp[p].echo_interval
    /\ lcp[p].echo_timeouts = IF lcp[p].echo_timer_running THEN 1 ELSE 0

\* LCP is OPENED only while the last request it sent is the last one its peer
\* acknowledged: an answer to an earlier request never opens it.
OpenedIsAcked ==
  \A p \in Peers :
    lcp[p].state = "OPENED" => lcp[Peer(p)].acked = lcp[p].reqid

\* A request with this id, or an answer to one, is still on the line.
Underway(p, id) ==
  \/ \E n \in 1 .. Len(link[Peer(p)]) :
       link[Peer(p)][n].code = "CONFREQ" /\ link[Peer(p)][n].id = id
  \/ \E n \in 1 .. Len(link[p]) :
       link[p][n].code \in {"CONFACK", "CONFNAK", "CONFREJ"} /\ link[p][n].id = id

NewIdFresh ==
  \A p \in Peers :
    lcp'[p].reqid # lcp[p].reqid => ~Underway(p, NextId(lcp[p]))

\* A new request never takes an id that is still under way: ids wrap around,
\* but not before the line has forgotten the request that had the id.
FreshIds == [][NewIdFresh]_vars

\* Past the inner loop of main() nothing of the connection is left: LCP is in
\* its initial state and none of its callouts is pending.
FsmRestored ==
  \A p \in Peers :
    main[p] # "loop" =>
      /\ lcp[p].state = "INITIAL"
      /\ ~lcp[p].delayed_up
      /\ lcp[p].fsm_timeouts + lcp[p].echo_timeouts + lcp[p].up_timeouts = 0

\* The lower layer could not be configured, and lcp_lowerup returned early.
NeverUp(p) ==
  /\ main[p] = "loop"
  /\ lcp[p].phase # "DEAD"
  /\ lcp[p].state \in {"INITIAL", "STARTING"}
  /\ ~lcp[p].delayed_up

\* A process that got a SIGTERM exits, whatever its peer does or fails to do,
\* unless the lower layer never came up.
QuitTerminates ==
  \A p \in Peers :
    "SIGTERM" \in got[p] \/ asked_to_quit[p] ~> main[p] = "exit" \/ NeverUp(p)

\* A process that sends echo requests notices that its peer is gone.
DeadPeerNoticed ==
  \A p \in Peers :
    /\ main[Peer(p)] = "exit"
    /\ lcp[p].state = "OPENED"
    /\ lcp[p].echo_interval /\ lcp[p].echo_fails > 0
    ~> lcp[p].state # "OPENED"

=============================================================================
