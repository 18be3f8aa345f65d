--------------------------- MODULE PppLinkProofs ---------------------------
(***************************************************************************)
(* Proofs about modules Lcp and PppLink, for all options, faults and       *)
(* bounds.  First, what the functions of fsm.c and lcp.c do to the         *)
(* callouts, to the upper protocols and to the state of LCP; then the      *)
(* invariants of the link, which rest on it.                               *)
(*                                                                         *)
(* Idle and Opened describe the states between two events.  Resting is     *)
(* what holds in the middle of a function, after the down callback and     *)
(* before the callout and the state agree again.                           *)
(*                                                                         *)
(* The last part is about ids and acknowledgements: first what the same    *)
(* functions do to them, then the lines, then the invariant AckInv.        *)
(***************************************************************************)
EXTENDS PppLink, TLAPS

\* The members that the callbacks and the line change.
Kept(p, q) ==
  /\ q.upper = p.upper
  /\ q.echo_timer_running = p.echo_timer_running
  /\ q.echo_timeouts = p.echo_timeouts
  /\ q.up_timeouts = p.up_timeouts /\ q.delayed_up = p.delayed_up
  /\ q.phase = p.phase /\ q.hungup = p.hungup
  /\ q.echo_interval = p.echo_interval

\* q differs from p in nothing that matters here.
Alike(p, q) ==
  /\ q \in LcpState
  /\ q.state = p.state /\ q.fsm_timeouts = p.fsm_timeouts
  /\ Kept(p, q)

Resting(p) ==
  /\ p \in LcpState
  /\ p.upper = 0
  /\ ~p.echo_timer_running /\ p.echo_timeouts = 0
  /\ p.up_timeouts = 0 /\ ~p.delayed_up
  /\ p.phase # "DEAD" /\ ~p.hungup

\* One callout of fsm_timeout in the states that wait for an answer.
OneCallout(p) == p.fsm_timeouts = IF p.state \in Timed THEN 1 ELSE 0

Idle(p) ==
  /\ p \in LcpState
  /\ p.state # "OPENED"
  /\ p.upper = 0
  /\ ~p.echo_timer_running /\ p.echo_timeouts = 0
  /\ OneCallout(p)
  /\ p.up_timeouts = IF p.delayed_up THEN 1 ELSE 0
  /\ p.delayed_up => p.state = "STARTING"
  /\ p.phase = "DEAD" => p.state \in {"INITIAL", "STARTING"} /\ ~p.delayed_up
  /\ p.hungup => p.phase = "DEAD"

Opened(p) ==
  /\ p \in LcpState
  /\ p.state = "OPENED"
  /\ p.upper = 1
  /\ p.echo_timeouts = IF p.echo_timer_running THEN 1 ELSE 0
  /\ p.fsm_timeouts = 0
  /\ p.up_timeouts = 0 /\ ~p.delayed_up
  /\ p.phase # "DEAD" /\ ~p.hungup

Good(p) ==
  \/ Idle(p)
  \/ Opened(p) /\ (p.echo_timer_running <=> p.echo_interval)

----------------------------------------------------------------------------
(* Assignments.                                                            *)

\* Setting the state changes nothing else.
LEMMA SetState ==
  ASSUME NEW p \in LcpState, NEW s \in States
  PROVE  LET q == [p EXCEPT !.state = s]
         IN /\ q \in LcpState /\ q.state = s
            /\ q.fsm_timeouts = p.fsm_timeouts /\ Kept(p, q)
  BY Zenon DEF LcpState, Kept

\* Alike is reflexive, and goes through a sequence of assignments.
LEMMA AlikeTrans ==
  ASSUME NEW p, NEW q, NEW r, Alike(p, q), Alike(q, r)
  PROVE  Alike(p, r)
  BY DEF Alike, Kept

\* The members that only the negotiation looks at.
LEMMA SetQuiet ==
  ASSUME NEW p \in LcpState
  PROVE  /\ \A n \in Nat : Alike(p, [p EXCEPT !.retransmits = n])
         /\ \A n \in Nat : Alike(p, [p EXCEPT !.options = n])
         /\ \A n \in Nat : Alike(p, [p EXCEPT !.echos_pending = n])
         /\ \A n \in Ids : Alike(p, [p EXCEPT !.id = n, !.reqid = n])
         /\ \A b \in BOOLEAN : Alike(p, [p EXCEPT !.seen_ack = b])
         /\ \A n \in Ids : Alike(p, [p EXCEPT !.acked = n])
         /\ Alike(p, [p EXCEPT !.out = <<>>])
<1>1. \A n \in Nat : Alike(p, [p EXCEPT !.retransmits = n])
  BY Zenon DEF LcpState, Alike, Kept
<1>2. \A n \in Nat : Alike(p, [p EXCEPT !.options = n])
  BY Zenon DEF LcpState, Alike, Kept
<1>3. \A n \in Nat : Alike(p, [p EXCEPT !.echos_pending = n])
  BY Zenon DEF LcpState, Alike, Kept
<1>4. \A n \in Ids : Alike(p, [p EXCEPT !.id = n, !.reqid = n])
  BY Zenon DEF LcpState, Alike, Kept
<1>5. \A b \in BOOLEAN : Alike(p, [p EXCEPT !.seen_ack = b])
  BY Zenon DEF LcpState, Alike, Kept
<1>6. \A n \in Ids : Alike(p, [p EXCEPT !.acked = n])
  BY Zenon DEF LcpState, Alike, Kept
<1>7. \A o \in Seq(Packets) : Alike(p, [p EXCEPT !.out = o])
  BY Zenon DEF LcpState, Alike, Kept
<1>8. <<>> \in Seq(Packets)
  OBVIOUS
<1> QED
  BY Zenon, <1>1, <1>2, <1>3, <1>4, <1>5, <1>6, <1>7, <1>8

\* The next id is a u_char.
LEMMA NextIdType ==
  ASSUME NEW p \in LcpState
  PROVE  NextId(p) \in Ids
<1>1. p.id \in Nat
  BY IdModAssumption DEF LcpState, Ids
<1> QED
  BY <1>1, IdModAssumption DEF NextId, Ids

\* Sending a packet only adds it to out.
LEMMA Sending ==
  ASSUME NEW p \in LcpState, NEW code \in Codes, NEW id \in Ids, NEW n \in Nat
  PROVE  /\ Alike(p, SendPacket(p, code, id, n))
         /\ SendPacket(p, code, id, n).retransmits = p.retransmits
         /\ SendPacket(p, code, id, n).reqid = p.reqid
<1> DEFINE pkt == [code |-> code, id |-> id, options |-> n]
<1>1. pkt \in Packets
  BY DEF Packets
<1> HIDE DEF pkt
<1>2. p.out \in Seq(Packets)
  BY DEF LcpState
<1>3. Append(p.out, pkt) \in Seq(Packets)
  BY <1>1, <1>2
<1> DEFINE o == Append(p.out, pkt)
<1> HIDE DEF o
<1>4. o \in Seq(Packets)
  BY <1>3 DEF o
<1>5. LET q == [p EXCEPT !.out = o]
      IN Alike(p, q) /\ q.retransmits = p.retransmits /\ q.reqid = p.reqid
  BY Zenon, <1>4 DEF LcpState, Alike, Kept
<1>6. SendPacket(p, code, id, n) = [p EXCEPT !.out = o]
  BY DEF SendPacket, o, pkt
<1> QED
  BY <1>5, <1>6

\* timeout and untimeout change the number of callouts.
LEMMA Callouts ==
  ASSUME NEW p \in LcpState
  PROVE  /\ TIMEOUT_fsm(p) \in LcpState /\ UNTIMEOUT_fsm(p) \in LcpState
         /\ TIMEOUT_fsm(p).state = p.state /\ UNTIMEOUT_fsm(p).state = p.state
         /\ TIMEOUT_fsm(p).fsm_timeouts = p.fsm_timeouts + 1
         /\ UNTIMEOUT_fsm(p).fsm_timeouts = Less(p.fsm_timeouts)
         /\ TIMEOUT_fsm(p).retransmits = p.retransmits
         /\ Kept(p, TIMEOUT_fsm(p)) /\ Kept(p, UNTIMEOUT_fsm(p))
<1>1. p.fsm_timeouts \in Nat
  BY DEF LcpState
<1>2. p.fsm_timeouts + 1 \in Nat /\ Less(p.fsm_timeouts) \in Nat
  BY <1>1 DEF Less
<1>3. \A n \in Nat : LET q == [p EXCEPT !.fsm_timeouts = n]
                     IN /\ q \in LcpState /\ q.state = p.state /\ q.fsm_timeouts = n
                        /\ q.retransmits = p.retransmits /\ Kept(p, q)
  BY ZenonT(30) DEF LcpState, Kept
<1>4. /\ TIMEOUT_fsm(p) = [p EXCEPT !.fsm_timeouts = p.fsm_timeouts + 1]
      /\ UNTIMEOUT_fsm(p) = [p EXCEPT !.fsm_timeouts = Less(p.fsm_timeouts)]
  BY DEF TIMEOUT_fsm, UNTIMEOUT_fsm
<1> QED
  BY <1>2, <1>3, <1>4

\* A number of retransmissions that is left can be counted down.
LEMMA CountDown ==
  ASSUME NEW p \in LcpState, p.retransmits > 0
  PROVE  Alike(p, [p EXCEPT !.retransmits = @ - 1])
<1>1. p.retransmits \in Nat
  BY DEF LcpState
<1>2. p.retransmits - 1 \in Nat
  BY <1>1
<1> QED
  BY Zenon, <1>2, SetQuiet

\* fsm_sconfreq sends a request and leaves one callout more.
LEMMA ConfReq ==
  ASSUME NEW p \in LcpState, NEW retransmit \in BOOLEAN,
         retransmit => p.retransmits > 0
  PROVE  LET q == fsm_sconfreq(p, retransmit)
         IN /\ q \in LcpState /\ q.state = p.state
            /\ q.fsm_timeouts = p.fsm_timeouts + 1
            /\ Kept(p, q)
<1> DEFINE c == IF p.state \in {"REQSENT", "ACKRCVD", "ACKSENT"}
                THEN p ELSE [p EXCEPT !.options = p.wantoptions]
           q == IF retransmit
                THEN c
                ELSE [c EXCEPT !.retransmits = maxconfreqtransmits,
                               !.id = NextId(p),
                               !.reqid = NextId(p)]
           a == [q EXCEPT !.seen_ack = FALSE]
           s == SendPacket(a, "CONFREQ", q.reqid, q.options)
           r == [s EXCEPT !.retransmits = @ - 1]
<1>1. Alike(p, c) /\ c.retransmits = p.retransmits
  <2>1. p.wantoptions \in Nat /\ Alike(p, p)
    BY DEF LcpState, Alike, Kept
  <2>2. [p EXCEPT !.options = p.wantoptions].retransmits = p.retransmits
    BY DEF LcpState
  <2> QED
    BY Zenon, <2>1, <2>2, SetQuiet
<1> HIDE DEF c
<1>2. Alike(c, q) /\ q.retransmits > 0
  <2>1. CASE retransmit
    BY <1>1, <2>1 DEF Alike, Kept
  <2>2. CASE ~retransmit
    <3>1. c \in LcpState /\ NextId(p) \in Ids /\ maxconfreqtransmits \in Nat
          /\ maxconfreqtransmits > 0
      BY <1>1, NextIdType, ConfreqAssumption DEF Alike
    <3> QED
      BY Zenon, <2>2, <3>1 DEF LcpState, Alike, Kept
  <2> QED
    BY <2>1, <2>2
<1> HIDE DEF q
<1>3. Alike(q, a) /\ a.retransmits = q.retransmits
  <2>1. q \in LcpState
    BY <1>2 DEF Alike
  <2> QED
    BY Zenon, <2>1 DEF LcpState, Alike, Kept
<1>4. q.reqid \in Ids /\ q.options \in Nat
  BY <1>2 DEF Alike, LcpState
<1> HIDE DEF a
<1>5. Alike(a, s) /\ s.retransmits = a.retransmits
  BY ZenonT(30), <1>3, <1>4, Sending DEF Alike, Codes
<1> HIDE DEF s
<1>6. Alike(s, r)
  BY <1>2, <1>3, <1>5, CountDown DEF Alike
<1> HIDE DEF r
<1>7. Alike(p, r)
  BY <1>1, <1>2, <1>3, <1>5, <1>6, AlikeTrans
<1>8. fsm_sconfreq(p, retransmit) = TIMEOUT_fsm(r)
  BY DEF fsm_sconfreq, r, s, a, q, c
<1> QED
  BY <1>7, <1>8, Callouts DEF Alike, Kept

\* The same, followed by the assignment of the state.
LEMMA ConfReqState ==
  ASSUME NEW p \in LcpState, NEW s \in States
  PROVE  LET q == [fsm_sconfreq(p, FALSE) EXCEPT !.state = s]
         IN /\ q \in LcpState /\ q.state = s
            /\ q.fsm_timeouts = p.fsm_timeouts + 1
            /\ Kept(p, q)
<1> DEFINE c == fsm_sconfreq(p, FALSE)
<1>1. /\ c \in LcpState /\ c.fsm_timeouts = p.fsm_timeouts + 1
      /\ Kept(p, c)
  BY Zenon, ConfReq
<1> HIDE DEF c
<1> QED
  BY Zenon, <1>1, SetState DEF Kept, c

\* fsm_sdata only sends.
LEMMA Sdata ==
  ASSUME NEW p \in LcpState, NEW code \in Codes, NEW id \in Ids
  PROVE  /\ Alike(p, fsm_sdata(p, code, id))
         /\ fsm_sdata(p, code, id).retransmits = p.retransmits
  BY Sending DEF fsm_sdata

----------------------------------------------------------------------------
(* Idle, Opened and Resting.                                               *)

\* The three depend only on what Alike keeps.
LEMMA AlikeStates ==
  ASSUME NEW p, NEW q, Alike(p, q)
  PROVE  /\ Idle(p) => Idle(q)
         /\ Opened(p) => Opened(q)
         /\ Resting(p) => Resting(q)
         /\ Good(p) => Good(q)
  BY DEF Alike, Kept, Idle, Opened, Resting, OneCallout, Good

\* Resting, with the callout and the state in agreement, is Idle.
LEMMA RestingIdle ==
  ASSUME NEW p, Resting(p), p.state # "OPENED", OneCallout(p)
  PROVE  Idle(p)
  BY DEF Resting, Idle

\* An automaton that has heard of its peer is Resting.
LEMMA IdleResting ==
  ASSUME NEW p, Idle(p), p.state \notin {"INITIAL", "STARTING"}
  PROVE  Resting(p)
  BY DEF Resting, Idle

\* The down callback stops the echo requests and tells the upper protocols.
LEMMA DownFrom ==
  ASSUME NEW p \in LcpState, p.upper = 1,
         p.echo_timeouts = IF p.echo_timer_running THEN 1 ELSE 0,
         p.phase # "DEAD"
  PROVE  LET d == lcp_down(p)
         IN /\ d \in LcpState /\ d.state = p.state /\ d.fsm_timeouts = p.fsm_timeouts
            /\ d.upper = 0 /\ ~d.echo_timer_running /\ d.echo_timeouts = 0
            /\ d.up_timeouts = p.up_timeouts /\ d.delayed_up = p.delayed_up
            /\ d.phase = "ESTABLISH" /\ d.hungup = p.hungup
<1> DEFINE e == lcp_echo_lowerdown(p)
<1>1. /\ e \in LcpState /\ e.state = p.state /\ e.upper = 1
      /\ ~e.echo_timer_running /\ e.echo_timeouts = 0 /\ e.fsm_timeouts = p.fsm_timeouts
      /\ e.up_timeouts = p.up_timeouts /\ e.delayed_up = p.delayed_up
      /\ e.phase # "DEAD" /\ e.hungup = p.hungup
  <2>1. CASE p.echo_timer_running
    <3>1. e = [p EXCEPT !.echo_timeouts = 0, !.echo_timer_running = FALSE]
      BY <2>1 DEF lcp_echo_lowerdown, Less
    <3> HIDE DEF e
    <3> QED
      BY Zenon, <3>1 DEF LcpState
  <2>2. CASE ~p.echo_timer_running
    BY <2>2 DEF lcp_echo_lowerdown
  <2> QED
    BY <2>1, <2>2
<1>2. lcp_down(p) = [e EXCEPT !.upper = 0, !.phase = "ESTABLISH"]
  BY <1>1 DEF lcp_down, link_down
<1> HIDE DEF e
<1>3. [e EXCEPT !.upper = 0, !.phase = "ESTABLISH"] \in LcpState
  <2>1. e \in LcpState /\ 0 \in Int /\ "ESTABLISH" \in Phases
    BY <1>1 DEF Phases
  <2> QED
    BY Zenon, <2>1 DEF LcpState
<1> QED
  BY <1>1, <1>2, <1>3 DEF LcpState

\* The same, between two events.
LEMMA Down ==
  ASSUME NEW p, Opened(p)
  PROVE  /\ Resting(lcp_down(p))
         /\ lcp_down(p).state = "OPENED" /\ lcp_down(p).fsm_timeouts = 0
  BY DownFrom DEF Opened, Resting

\* fsm_lowerdown takes the automaton to one of the two states without a lower
\* layer and cancels the callout.
LEMMA LowerDown ==
  ASSUME NEW p \in LcpState, OneCallout(p), p.state # "OPENED"
  PROVE  LET d == fsm_lowerdown(p)
         IN /\ d \in LcpState /\ Kept(p, d)
            /\ d.state \in {"INITIAL", "STARTING"} /\ d.fsm_timeouts = 0
<1>1. p.state \in States
  BY DEF LcpState
<1>2. CASE p.state \in {"INITIAL", "STARTING"}
  BY <1>2 DEF fsm_lowerdown, OneCallout, Timed, Kept
<1>3. CASE p.state \in {"CLOSED", "STOPPED"}
  <2>1. p.fsm_timeouts = 0
    BY <1>3 DEF OneCallout, Timed
  <2>2. \E s \in {"INITIAL", "STARTING"} : fsm_lowerdown(p) = [p EXCEPT !.state = s]
    BY <1>3 DEF fsm_lowerdown
  <2> QED
    BY SMTT(30), <2>1, <2>2 DEF States, LcpState, Kept
<1>4. CASE p.state \in Timed
  <2>1. UNTIMEOUT_fsm(p) \in LcpState /\ UNTIMEOUT_fsm(p).fsm_timeouts = 0
        /\ Kept(p, UNTIMEOUT_fsm(p))
    BY <1>4, Callouts DEF OneCallout, Less
  <2>2. \E s \in {"INITIAL", "STARTING"} :
          fsm_lowerdown(p) = [UNTIMEOUT_fsm(p) EXCEPT !.state = s]
    BY <1>4 DEF fsm_lowerdown, Timed
  <2> DEFINE u == UNTIMEOUT_fsm(p)
  <2> HIDE DEF u
  <2>3. \A s \in States : LET d == [u EXCEPT !.state = s]
                          IN /\ d \in LcpState /\ Kept(u, d)
                             /\ d.state = s /\ d.fsm_timeouts = u.fsm_timeouts
    BY ZenonT(30), <2>1 DEF LcpState, Kept, u
  <2> QED
    BY <2>1, <2>2, <2>3 DEF States, Kept, u
<1> QED
  BY <1>1, <1>2, <1>3, <1>4 DEF States, Timed

\* link_terminated of a link that has been up: the line is gone and nothing
\* is pending.
LEMMA Finished ==
  ASSUME NEW p, Resting(p), p.state # "OPENED", OneCallout(p)
  PROVE  Idle(lcp_finished(p)) /\ lcp_finished(p).phase = "DEAD"
<1> DEFINE q == [p EXCEPT !.phase = "DISCONNECT"]
           d == fsm_lowerdown(q)
           f == [d EXCEPT !.phase = "DEAD"]
<1>1. /\ q \in LcpState /\ q.state = p.state /\ q.fsm_timeouts = p.fsm_timeouts
      /\ q.upper = p.upper /\ q.echo_timer_running = p.echo_timer_running
      /\ q.echo_timeouts = p.echo_timeouts /\ q.up_timeouts = p.up_timeouts
      /\ q.delayed_up = p.delayed_up /\ q.hungup = p.hungup
  BY DEF Resting, LcpState, Phases
<1>2. lcp_finished(p) = f
  BY <1>1 DEF lcp_finished, link_terminated, lcp_lowerdown, Resting
<1> HIDE DEF q
<1>3. d \in LcpState /\ Kept(q, d) /\ d.state \in {"INITIAL", "STARTING"}
      /\ d.fsm_timeouts = 0
  BY <1>1, LowerDown DEF OneCallout
<1> HIDE DEF d
<1>4. /\ f \in LcpState /\ f.state = d.state /\ f.fsm_timeouts = d.fsm_timeouts
      /\ f.upper = d.upper /\ f.echo_timer_running = d.echo_timer_running
      /\ f.echo_timeouts = d.echo_timeouts /\ f.up_timeouts = d.up_timeouts
      /\ f.delayed_up = d.delayed_up /\ f.phase = "DEAD"
  BY Zenon, <1>3 DEF LcpState, Phases
<1> HIDE DEF f
<1> QED
  BY <1>1, <1>2, <1>3, <1>4 DEF Idle, Resting, Kept, OneCallout, Timed

\* terminate_layer, from OPENED or from a state that waits for an answer.
LEMMA Terminate ==
  ASSUME NEW p, NEW nextstate \in {"CLOSING", "STOPPING"},
         Opened(p) \/ (Resting(p) /\ p.state \in Timed /\ OneCallout(p))
  PROVE  Idle(terminate_layer(p, nextstate))
<1> DEFINE d == IF p.state # "OPENED" THEN UNTIMEOUT_fsm(p) ELSE lcp_down(p)
           r == [d EXCEPT !.retransmits = maxtermtransmits,
                          !.id = NextId(d),
                          !.reqid = NextId(d)]
           s == fsm_sdata(r, "TERMREQ", r.reqid)
           e == IF nextstate = "CLOSING" THEN "CLOSED" ELSE "STOPPED"
<1>1. Resting(d) /\ d.fsm_timeouts = 0
  <2>1. CASE Opened(p)
    BY <2>1, Down DEF Opened
  <2>2. CASE Resting(p) /\ p.state \in Timed /\ OneCallout(p)
    <3>1. p.state # "OPENED" /\ p \in LcpState /\ p.fsm_timeouts = 1
      BY <2>2 DEF Timed, OneCallout, Resting
    <3> QED
      BY <2>2, <3>1, Callouts DEF Resting, Kept, Less
  <2> QED
    BY <2>1, <2>2
<1> HIDE DEF d
<1>2. Alike(d, r) /\ r.reqid \in Ids /\ r.retransmits = maxtermtransmits
  <2>1. d \in LcpState /\ NextId(d) \in Ids /\ maxtermtransmits \in Nat
    BY <1>1, NextIdType, TermAssumption DEF Resting
  <2> QED
    BY Zenon, <2>1 DEF LcpState, Alike, Kept
<1> HIDE DEF r
<1>3. Alike(r, s) /\ s.retransmits = maxtermtransmits
  BY Zenon, <1>2, Sdata DEF Alike, Codes
<1> HIDE DEF s
<1>4. s \in LcpState /\ Resting(s) /\ s.fsm_timeouts = 0
  BY <1>1, <1>2, <1>3, AlikeTrans, AlikeStates DEF Alike
<1>5. CASE maxtermtransmits = 0
  <2> DEFINE t == [s EXCEPT !.state = e]
  <2>1. terminate_layer(p, nextstate) = lcp_finished(t)
    BY <1>3, <1>5 DEF terminate_layer, d, r, s
  <2>2. t \in LcpState /\ t.state = e /\ t.fsm_timeouts = 0 /\ Kept(s, t)
    <3>1. e \in States
      BY DEF States
    <3> QED
      BY ZenonT(30), <1>4, <3>1 DEF LcpState, Kept
  <2> HIDE DEF t
  <2>3. Resting(t) /\ t.state # "OPENED" /\ OneCallout(t)
    BY <1>4, <2>2 DEF Resting, Kept, OneCallout, Timed
  <2> QED
    BY <2>1, <2>3, Finished
<1>6. CASE maxtermtransmits # 0
  <2> DEFINE c == TIMEOUT_fsm(s)
             n == [c EXCEPT !.retransmits = @ - 1]
             t == [n EXCEPT !.state = nextstate]
  <2>1. c \in LcpState /\ Resting(c) /\ c.fsm_timeouts = 1 /\ c.retransmits > 0
    BY <1>3, <1>4, <1>6, Callouts, TermAssumption DEF Resting, Kept
  <2>2. terminate_layer(p, nextstate) = [c EXCEPT !.retransmits = @ - 1, !.state = nextstate]
    BY <1>3, <1>6 DEF terminate_layer, d, r, s
  <2> HIDE DEF c
  <2>3. [c EXCEPT !.retransmits = @ - 1, !.state = nextstate] = t
    BY <2>1 DEF LcpState
  <2>4. Alike(c, n)
    BY <2>1, CountDown
  <2> HIDE DEF n
  <2>5. t \in LcpState /\ t.state = nextstate /\ t.fsm_timeouts = 1 /\ Kept(n, t)
    <3>1. nextstate \in States /\ n \in LcpState /\ n.fsm_timeouts = 1
      BY <2>1, <2>4 DEF Alike, States
    <3> QED
      BY <3>1 DEF LcpState, Kept
  <2> HIDE DEF t
  <2>6. Resting(t) /\ t.state # "OPENED" /\ OneCallout(t)
    BY <2>1, <2>4, <2>5, AlikeStates DEF Resting, Kept, OneCallout, Timed
  <2> QED
    BY Zenon, <2>2, <2>3, <2>6, RestingIdle
<1> QED
  BY <1>5, <1>6

\* Another state with the same callouts, while Resting.
LEMMA RestingState ==
  ASSUME NEW p, Resting(p), NEW s \in States \ {"OPENED"},
         p.fsm_timeouts = IF s \in Timed THEN 1 ELSE 0
  PROVE  LET q == [p EXCEPT !.state = s]
         IN Resting(q) /\ q.state = s /\ OneCallout(q) /\ Idle(q)
<1> DEFINE q == [p EXCEPT !.state = s]
<1>1. q \in LcpState /\ q.state = s /\ q.fsm_timeouts = p.fsm_timeouts /\ Kept(p, q)
  BY DEF Resting, LcpState, Kept
<1> HIDE DEF q
<1>2. Resting(q) /\ q.state # "OPENED" /\ OneCallout(q)
  BY <1>1 DEF Resting, Kept, OneCallout
<1> QED
  BY Zenon, <1>1, <1>2, RestingIdle DEF q

\* lcp_close ends what was OPENED, and a closed link stays closed.
LEMMA Close ==
  ASSUME NEW p, Idle(p) \/ Opened(p)
  PROVE  /\ Idle(lcp_close(p))
         /\ p.phase = "DEAD" => lcp_close(p).state = "INITIAL"
                                /\ lcp_close(p).phase = "DEAD"
<1> DEFINE t == [p EXCEPT !.phase = IF @ = "DEAD" THEN @ ELSE "TERMINATE"]
           h == IF p.phase = "DEAD" THEN "DEAD" ELSE "TERMINATE"
<1>1. /\ t \in LcpState /\ t.state = p.state /\ t.fsm_timeouts = p.fsm_timeouts
      /\ t.upper = p.upper /\ t.echo_timer_running = p.echo_timer_running
      /\ t.echo_timeouts = p.echo_timeouts /\ t.up_timeouts = p.up_timeouts
      /\ t.delayed_up = p.delayed_up /\ t.hungup = p.hungup /\ t.phase = h
  <2>1. h \in Phases /\ p \in LcpState
    BY DEF Phases, Idle, Opened
  <2>2. t = [p EXCEPT !.phase = h]
    BY <2>1
  <2> HIDE DEF t, h
  <2> QED
    BY Zenon, <2>1, <2>2 DEF LcpState
<1> HIDE DEF t
<1>2. (Idle(p) => Idle(t)) /\ (Opened(p) => Opened(t)) /\ (t.phase = "DEAD" <=> p.phase = "DEAD")
  BY <1>1 DEF Idle, Opened, OneCallout
<1>3. t.state \in States
  BY <1>1 DEF LcpState
<1>4. CASE p.delayed_up
  <2> DEFINE o == [t EXCEPT !.up_timeouts = Less(@), !.state = "STOPPED"]
             c == [o EXCEPT !.state = "CLOSED"]
             x == [c EXCEPT !.delayed_up = FALSE]
  <2>1. /\ t.delayed_up /\ Idle(t) /\ t.state = "STARTING" /\ t.up_timeouts = 1
        /\ t.fsm_timeouts = 0 /\ t.phase # "DEAD"
    BY <1>1, <1>2, <1>4 DEF Idle, Opened, OneCallout, Timed
  <2>2. o = [t EXCEPT !.up_timeouts = 0, !.state = "STOPPED"]
    BY <2>1 DEF Less
  <2>3. o.state = "STOPPED" /\ o.delayed_up = TRUE
    BY <1>1, <2>1, <2>2 DEF LcpState
  <2>4. lcp_close(p) = lcp_finished(x)
    <3>1. fsm_close(o) = c /\ NothingToTerminate(o)
      BY <2>3 DEF fsm_close, NothingToTerminate
    <3> HIDE DEF c
    <3> QED
      BY Zenon, <2>1, <3>1 DEF lcp_close, t
  <2>5. x = [t EXCEPT !.up_timeouts = 0, !.state = "CLOSED", !.delayed_up = FALSE]
    BY Zenon, <1>1, <2>2 DEF LcpState
  <2> HIDE DEF x
  <2>6. Resting(x) /\ x.state # "OPENED" /\ OneCallout(x)
    <3>1. "CLOSED" \in States /\ "CLOSED" \notin Timed
      BY DEF States, Timed
    <3>2. /\ x \in LcpState /\ x.state = "CLOSED" /\ x.fsm_timeouts = t.fsm_timeouts
          /\ x.upper = t.upper /\ x.echo_timer_running = t.echo_timer_running
          /\ x.echo_timeouts = t.echo_timeouts /\ x.up_timeouts = 0
          /\ x.delayed_up = FALSE /\ x.hungup = t.hungup /\ x.phase = t.phase
      BY Zenon, <1>1, <2>5, <3>1 DEF LcpState
    <3> QED
      BY <2>1, <3>1, <3>2 DEF Resting, Idle, OneCallout
  <2> QED
    BY <1>2, <2>1, <2>4, <2>6, Finished
<1>5. CASE ~p.delayed_up
  <2>1. ~t.delayed_up
    BY <1>1, <1>5
  <2>2. lcp_close(p) = IF t.state = "STOPPED" /\ (t.passive \/ t.silent)
                       THEN lcp_finished([fsm_close(t) EXCEPT !.delayed_up = FALSE])
                       ELSE fsm_close(t)
    BY <2>1 DEF lcp_close, NothingToTerminate, t
  <2>3. CASE t.state \in {"INITIAL", "CLOSED", "CLOSING"}
    <3>1. lcp_close(p) = t /\ Idle(t)
      BY <1>1, <1>2, <2>2, <2>3 DEF fsm_close, Opened
    <3> QED
      BY <1>2, <2>3, <3>1 DEF Idle
  <2>4. CASE t.state = "STARTING"
    <3>1. lcp_close(p) = [t EXCEPT !.state = "INITIAL"] /\ Idle(t)
      BY <1>1, <1>2, <2>2, <2>4 DEF fsm_close, Opened
    <3> DEFINE q == [t EXCEPT !.state = "INITIAL"]
    <3>2. q \in LcpState /\ q.state = "INITIAL" /\ q.fsm_timeouts = t.fsm_timeouts
          /\ Kept(t, q)
      <4>1. "INITIAL" \in States
        BY DEF States
      <4> QED
        BY Zenon, <1>1, <4>1 DEF LcpState, Kept
    <3> HIDE DEF q
    <3> QED
      BY <1>2, <2>1, <2>4, <3>1, <3>2 DEF Idle, OneCallout, Timed, Kept, q
  <2>5. CASE t.state = "STOPPED"
    <3> DEFINE c == [t EXCEPT !.state = "CLOSED"]
               x == [c EXCEPT !.delayed_up = FALSE]
    <3>1. fsm_close(t) = c
      BY <2>5 DEF fsm_close
    <3>2. Resting(t) /\ t.fsm_timeouts = 0 /\ t.phase # "DEAD"
      BY <1>1, <1>2, <2>5, IdleResting DEF Opened, Idle, OneCallout, Timed
    <3>3. "CLOSED" \in States \ {"OPENED"} /\ "CLOSED" \notin Timed
      BY DEF States, Timed
    <3>4. Resting(c) /\ c.state = "CLOSED" /\ OneCallout(c) /\ Idle(c)
      BY <3>2, <3>3, RestingState
    <3> HIDE DEF c
    <3>5. x = c
      BY <3>4 DEF Resting, LcpState
    <3> QED
      BY Zenon, <1>2, <2>2, <3>1, <3>2, <3>4, <3>5, Finished
  <2>6. CASE t.state = "STOPPING"
    <3>1. lcp_close(p) = [t EXCEPT !.state = "CLOSING"]
      BY <2>2, <2>6 DEF fsm_close
    <3>2. Resting(t) /\ t.fsm_timeouts = 1 /\ t.phase # "DEAD"
      BY <1>1, <1>2, <2>6, IdleResting DEF Opened, Idle, OneCallout, Timed
    <3>3. "CLOSING" \in States \ {"OPENED"} /\ "CLOSING" \in Timed
      BY DEF States, Timed
    <3> QED
      BY <1>2, <3>1, <3>2, <3>3, RestingState
  <2>7. CASE t.state \in {"REQSENT", "ACKRCVD", "ACKSENT", "OPENED"}
    <3>1. lcp_close(p) = terminate_layer(t, "CLOSING")
      BY <2>2, <2>7 DEF fsm_close
    <3>2. t.phase # "DEAD" /\ (Opened(t) \/ (Resting(t) /\ t.state \in Timed /\ OneCallout(t)))
      BY <1>2, <2>7, IdleResting DEF Opened, Idle, Timed
    <3> QED
      BY <1>2, <3>1, <3>2, Terminate
  <2> QED
    BY <1>3, <2>3, <2>4, <2>5, <2>6, <2>7 DEF States
<1> QED
  BY <1>4, <1>5

----------------------------------------------------------------------------
(* Echo requests and the up callback.                                      *)

\* Sending an echo request: one more is pending.
LEMMA EchoSent ==
  ASSUME NEW p \in LcpState
  PROVE  Alike(p, [fsm_sdata(p, "ECHOREQ", 0) EXCEPT !.echos_pending = @ + 1])
<1> DEFINE s == fsm_sdata(p, "ECHOREQ", 0)
<1>1. Alike(p, s)
  <2>1. "ECHOREQ" \in Codes /\ 0 \in Ids
    BY IdModAssumption DEF Codes, Ids
  <2> QED
    BY <2>1, Sdata
<1> HIDE DEF s
<1>2. s \in LcpState
  BY <1>1 DEF Alike
<1>4. s.echos_pending \in Nat
  BY <1>2 DEF LcpState
<1>5. s.echos_pending + 1 \in Nat
  BY SMTT(30), <1>4
<1>3. Alike(s, [s EXCEPT !.echos_pending = @ + 1])
  BY Zenon, <1>2, <1>5, SetQuiet
<1> QED
  BY <1>1, <1>3, AlikeTrans DEF s

\* The echo callout is set, and lcp_echo_timer_running with it.
LEMMA EchoSet ==
  ASSUME NEW p \in LcpState, p.echo_timeouts = 0
  PROVE  LET q == [p EXCEPT !.echo_timeouts = @ + 1, !.echo_timer_running = TRUE]
         IN /\ q \in LcpState /\ q.state = p.state /\ q.fsm_timeouts = p.fsm_timeouts
            /\ q.upper = p.upper /\ q.up_timeouts = p.up_timeouts
            /\ q.delayed_up = p.delayed_up /\ q.phase = p.phase
            /\ q.hungup = p.hungup /\ q.echo_interval = p.echo_interval
            /\ q.echo_timer_running = TRUE /\ q.echo_timeouts = 1
<1> DEFINE q == [p EXCEPT !.echo_timeouts = @ + 1, !.echo_timer_running = TRUE]
<1>1. q = [p EXCEPT !.echo_timeouts = 1, !.echo_timer_running = TRUE]
  OBVIOUS
<1> HIDE DEF q
<1>2. /\ q \in LcpState /\ q.state = p.state /\ q.fsm_timeouts = p.fsm_timeouts
      /\ q.upper = p.upper /\ q.up_timeouts = p.up_timeouts
      /\ q.delayed_up = p.delayed_up /\ q.phase = p.phase
      /\ q.hungup = p.hungup /\ q.echo_interval = p.echo_interval
      /\ q.echo_timer_running = TRUE /\ q.echo_timeouts = 1
  BY ZenonT(30), <1>1 DEF LcpState
<1> QED
  BY <1>2 DEF q

\* LcpEchoTimeout goes on with the requests or closes a link that does not
\* answer them.
LEMMA EchoTimeoutGood ==
  ASSUME NEW p, Good(p), p.echo_timeouts > 0
  PROVE  Good(LcpEchoTimeout(p))
<1>1. Opened(p) /\ p.echo_timer_running /\ p.echo_interval /\ p.echo_timeouts = 1
  BY DEF Good, Idle, Opened
<1> DEFINE e == [p EXCEPT !.echo_timeouts = @ - 1]
           f == [e EXCEPT !.echo_timer_running = FALSE]
           c == [lcp_close(f) EXCEPT !.echos_pending = 0]
           s == [fsm_sdata(f, "ECHOREQ", 0) EXCEPT !.echos_pending = @ + 1]
           r == [s EXCEPT !.echo_timeouts = @ + 1, !.echo_timer_running = TRUE]
<1>2. e = [p EXCEPT !.echo_timeouts = 0] /\ e.echo_timer_running = p.echo_timer_running
  <2>1. e = [p EXCEPT !.echo_timeouts = 0]
    BY <1>1
  <2> HIDE DEF e
  <2> QED
    BY Zenon, <1>1, <2>1 DEF Opened, LcpState
<1>3. f = [p EXCEPT !.echo_timeouts = 0, !.echo_timer_running = FALSE]
  BY <1>1, <1>2 DEF Opened, LcpState
<1>4. LcpEchoTimeout(p) = LcpEchoCheck(f)
  BY <1>1, <1>2 DEF LcpEchoTimeout
<1> HIDE DEF e, f
<1>5. Opened(f) /\ f.echo_timeouts = 0 /\ f.echo_interval
  BY Zenon, <1>1, <1>3 DEF Opened, LcpState
<1>6. CASE f.echo_fails # 0 /\ f.echos_pending >= f.echo_fails
  <2>1. Idle(lcp_close(f))
    BY <1>5, Close
  <2>2. Idle(c)
    <3> DEFINE z == lcp_close(f)
    <3> HIDE DEF z
    <3>1. Idle(z) /\ z \in LcpState /\ 0 \in Nat
      BY <2>1 DEF Idle, z
    <3>2. Alike(z, [z EXCEPT !.echos_pending = 0])
      BY Zenon, <3>1, SetQuiet
    <3> QED
      BY <3>1, <3>2, AlikeStates DEF z
  <2>3. LcpSendEchoRequest(f) = c
    BY <1>5, <1>6, <2>2 DEF LcpSendEchoRequest, LcpLinkFailure, Opened, Idle
  <2> HIDE DEF c
  <2> QED
    BY <1>4, <2>2, <2>3 DEF LcpEchoCheck, Good, Idle
<1>7. CASE ~(f.echo_fails # 0 /\ f.echos_pending >= f.echo_fails)
  <2>1. LcpSendEchoRequest(f) = s
    BY <1>5, <1>7 DEF LcpSendEchoRequest, Opened
  <2>2. Alike(f, s)
    BY <1>5, EchoSent DEF Opened
  <2> HIDE DEF s
  <2>3. Opened(s) /\ s.echo_timeouts = 0 /\ s.echo_interval
    BY Zenon, <1>5, <2>2, AlikeStates DEF Alike, Kept
  <2>4. LcpEchoTimeout(p) = r
    BY <1>4, <2>1, <2>3 DEF LcpEchoCheck, Opened
  <2>5. Opened(r) /\ r.echo_timer_running = TRUE /\ r.echo_interval
    <3>1. /\ r \in LcpState /\ r.state = s.state /\ r.fsm_timeouts = s.fsm_timeouts
          /\ r.upper = s.upper /\ r.up_timeouts = s.up_timeouts
          /\ r.delayed_up = s.delayed_up /\ r.phase = s.phase
          /\ r.hungup = s.hungup /\ r.echo_interval = s.echo_interval
          /\ r.echo_timer_running = TRUE /\ r.echo_timeouts = 1
      BY Zenon, <2>3, EchoSet DEF Opened
    <3> HIDE DEF r
    <3> QED
      BY <2>3, <3>1 DEF Opened
  <2> HIDE DEF r
  <2> QED
    BY <2>4, <2>5 DEF Good
<1> QED
  BY <1>6, <1>7

\* The up callback starts the echo requests and tells the upper protocols;
\* link_established may close the link at once.
LEMMA Up ==
  ASSUME NEW p, NEW refuse \in BOOLEAN,
         Resting(p), p.state = "OPENED", p.fsm_timeouts = 0
  PROVE  Good(lcp_up(p, refuse))
<1> DEFINE q == [p EXCEPT !.echos_pending = 0, !.echo_timer_running = FALSE]
           s == [fsm_sdata(q, "ECHOREQ", 0) EXCEPT !.echos_pending = @ + 1]
           r == [s EXCEPT !.echo_timeouts = @ + 1, !.echo_timer_running = TRUE]
           e == lcp_echo_lowerup(p)
           u == [e EXCEPT !.upper = @ + 1]
           a == [u EXCEPT !.phase = "AUTHENTICATE"]
<1>1. Resting(q) /\ q.state = "OPENED" /\ q.fsm_timeouts = 0 /\ q.echos_pending = 0
      /\ q.echo_fails \in Nat /\ q.echo_interval \in BOOLEAN
  BY Zenon DEF Resting, LcpState
<1>2. e = IF q.echo_interval THEN LcpEchoCheck(q) ELSE q
  BY DEF lcp_echo_lowerup
<1> HIDE DEF q
<1>3. /\ e \in LcpState /\ e.state = "OPENED" /\ e.upper = 0 /\ e.fsm_timeouts = 0
      /\ e.echo_timer_running = e.echo_interval
      /\ e.echo_timeouts = IF e.echo_timer_running THEN 1 ELSE 0
      /\ e.up_timeouts = 0 /\ ~e.delayed_up /\ e.phase # "DEAD" /\ ~e.hungup
  <2>1. CASE q.echo_interval
    <3>1. Alike(q, s)
      BY <1>1, EchoSent DEF Resting
    <3>2. LcpSendEchoRequest(q) = s
      BY <1>1 DEF LcpSendEchoRequest
    <3> HIDE DEF s
    <3>3. Resting(s) /\ s.state = "OPENED" /\ s.fsm_timeouts = 0 /\ s.echo_interval = TRUE
      BY Zenon, <1>1, <2>1, <3>1, AlikeStates DEF Alike, Kept
    <3>4. e = r
      BY <1>2, <2>1, <3>2, <3>3 DEF LcpEchoCheck
    <3>5. /\ r \in LcpState /\ r.state = s.state /\ r.fsm_timeouts = s.fsm_timeouts
          /\ r.upper = s.upper /\ r.up_timeouts = s.up_timeouts
          /\ r.delayed_up = s.delayed_up /\ r.phase = s.phase
          /\ r.hungup = s.hungup /\ r.echo_interval = s.echo_interval
          /\ r.echo_timer_running = TRUE /\ r.echo_timeouts = 1
      BY Zenon, <3>3, EchoSet DEF Resting
    <3> HIDE DEF r, e
    <3> QED
      BY Zenon, <3>3, <3>4, <3>5 DEF Resting
  <2>2. CASE ~q.echo_interval
    <3>1. e = q /\ q.echo_interval = FALSE /\ q.echo_timer_running = FALSE
      <4>1. q.echo_timer_running \in BOOLEAN
        BY <1>1 DEF Resting, LcpState
      <4> QED
        BY <1>1, <1>2, <2>2, <4>1 DEF Resting
    <3> HIDE DEF e
    <3> QED
      BY Zenon, <1>1, <3>1 DEF Resting
  <2> QED
    BY <2>1, <2>2
<1>4. lcp_up(p, refuse) = IF refuse THEN lcp_close(u) ELSE a
  BY DEF lcp_up, link_established
<1> HIDE DEF e
<1>5. u = [e EXCEPT !.upper = 1]
  BY <1>3
<1> HIDE DEF u
<1>6. Opened(u) /\ (u.echo_timer_running <=> u.echo_interval)
  BY <1>3, <1>5 DEF Opened, LcpState
<1>7. Good(lcp_close(u))
  BY <1>6, Close DEF Good
<1>8. Good(a)
  <2>1. "AUTHENTICATE" \in Phases
    BY DEF Phases
  <2>2. Opened(a) /\ (a.echo_timer_running <=> a.echo_interval)
    BY Zenon, <1>6, <2>1 DEF Opened, LcpState
  <2> QED
    BY <2>2 DEF Good
<1> QED
  BY <1>4, <1>7, <1>8

----------------------------------------------------------------------------
(* The lower layer comes up, and the callouts.                             *)

\* A request sent from a state without a callout, with the state it leads to.
LEMMA Requested ==
  ASSUME NEW p, Resting(p), p.fsm_timeouts = 0
  PROVE  LET q == [fsm_sconfreq(p, FALSE) EXCEPT !.state = "REQSENT"]
         IN Idle(q) /\ q.state = "REQSENT"
<1> DEFINE q == [fsm_sconfreq(p, FALSE) EXCEPT !.state = "REQSENT"]
<1>1. q \in LcpState /\ q.state = "REQSENT" /\ q.fsm_timeouts = 1 /\ Kept(p, q)
  <2>1. p \in LcpState /\ "REQSENT" \in States
    BY DEF Resting, States
  <2>2. q \in LcpState /\ q.state = "REQSENT" /\ q.fsm_timeouts = p.fsm_timeouts + 1
        /\ Kept(p, q)
    BY Zenon, <2>1, ConfReqState
  <2> HIDE DEF q
  <2> QED
    BY <2>2
<1> HIDE DEF q
<1>2. Resting(q) /\ q.state # "OPENED" /\ OneCallout(q)
  BY <1>1 DEF Resting, Kept, OneCallout, Timed
<1> QED
  BY Zenon, <1>1, <1>2, RestingIdle DEF q

\* fsm_lowerup on a line that is up.
LEMMA LowerUp ==
  ASSUME NEW p, Resting(p), p.state # "OPENED", OneCallout(p)
  PROVE  Idle(fsm_lowerup(p)) /\ fsm_lowerup(p).phase # "DEAD"
<1>1. "CLOSED" \in States \ {"OPENED"} /\ "STOPPED" \in States \ {"OPENED"}
      /\ "CLOSED" \notin Timed /\ "STOPPED" \notin Timed
  BY DEF States, Timed
<1>2. CASE p.state = "INITIAL"
  <2>1. p.fsm_timeouts = 0 /\ fsm_lowerup(p) = [p EXCEPT !.state = "CLOSED"]
    BY <1>2 DEF OneCallout, Timed, fsm_lowerup
  <2> QED
    BY <1>1, <2>1, RestingState DEF Resting
<1>3. CASE p.state = "STARTING" /\ p.silent
  <2>1. p.fsm_timeouts = 0 /\ fsm_lowerup(p) = [p EXCEPT !.state = "STOPPED"]
    BY <1>3 DEF OneCallout, Timed, fsm_lowerup
  <2> QED
    BY <1>1, <2>1, RestingState DEF Resting
<1>4. CASE p.state = "STARTING" /\ ~p.silent
  <2>1. p.fsm_timeouts = 0
        /\ fsm_lowerup(p) = [fsm_sconfreq(p, FALSE) EXCEPT !.state = "REQSENT"]
    BY <1>4 DEF OneCallout, Timed, fsm_lowerup
  <2>2. Idle(fsm_lowerup(p))
    BY Zenon, <2>1, Requested
  <2> QED
    BY Zenon, <2>1, <2>2, ConfReqState DEF Idle, Resting, Kept, States
<1>5. CASE p.state \notin {"INITIAL", "STARTING"}
  BY Zenon, <1>5, RestingIdle DEF fsm_lowerup, Resting
<1> QED
  BY <1>2, <1>3, <1>4, <1>5

\* The callout of lcp_delayed_up, or the packet that comes before it, ends the
\* delay: what is left is Resting.
LEMMA DelayEnds ==
  ASSUME NEW p, Idle(p), p.delayed_up
  PROVE  LET q == [p EXCEPT !.delayed_up = FALSE, !.up_timeouts = 0]
         IN Resting(q) /\ q.state # "OPENED" /\ OneCallout(q)
<1> DEFINE q == [p EXCEPT !.delayed_up = FALSE, !.up_timeouts = 0]
<1>1. /\ q \in LcpState /\ q.state = p.state /\ q.fsm_timeouts = p.fsm_timeouts
      /\ q.upper = p.upper /\ q.echo_timer_running = p.echo_timer_running
      /\ q.echo_timeouts = p.echo_timeouts /\ q.up_timeouts = 0
      /\ q.delayed_up = FALSE /\ q.hungup = p.hungup /\ q.phase = p.phase
  BY Zenon DEF Idle, LcpState
<1> HIDE DEF q
<1>2. Resting(q) /\ q.state # "OPENED" /\ OneCallout(q)
  BY <1>1 DEF Idle, Resting, OneCallout
<1> QED
  BY <1>2 DEF q

\* lcp_delayed_up starts the automaton once.
LEMMA DelayedUpGood ==
  ASSUME NEW p, Good(p), p.up_timeouts > 0
  PROVE  Good(lcp_delayed_up(p)) /\ lcp_delayed_up(p).phase # "DEAD"
<1>1. Idle(p) /\ p.delayed_up /\ p.up_timeouts = 1 /\ p \in LcpState
  BY DEF Good, Idle, Opened
<1> DEFINE e == [p EXCEPT !.up_timeouts = @ - 1]
           q == [p EXCEPT !.delayed_up = FALSE, !.up_timeouts = 0]
<1>2. e = [p EXCEPT !.up_timeouts = 0]
  BY <1>1
<1>3. e.delayed_up = p.delayed_up /\ [e EXCEPT !.delayed_up = FALSE] = q
  <2> HIDE DEF e
  <2> QED
    BY Zenon, <1>1, <1>2 DEF LcpState
<1>4. lcp_delayed_up(p) = fsm_lowerup(q)
  BY <1>1, <1>3 DEF lcp_delayed_up
<1> QED
  BY Zenon, <1>1, <1>4, DelayEnds, LowerUp DEF Good

\* fsm_open and lcp_lowerup, as Connect makes them: the line may not come up.
LEMMA OpenGood ==
  ASSUME NEW p, Idle(p), p.state = "INITIAL", p.phase = "DEAD"
  PROVE  LET o == [lcp_open(p) EXCEPT !.hungup = FALSE]
         IN /\ Good(o)
            /\ \A config \in BOOLEAN :
                 Good(lcp_lowerup([o EXCEPT !.phase = "ESTABLISH"], config))
<1> DEFINE o == [lcp_open(p) EXCEPT !.hungup = FALSE]
           u == [o EXCEPT !.phase = "ESTABLISH"]
<1>1. lcp_open(p) = [p EXCEPT !.state = "STARTING"]
  BY DEF lcp_open, fsm_open
<1>2. o = [p EXCEPT !.state = "STARTING", !.hungup = FALSE] /\ p \in LcpState
  BY <1>1 DEF Idle
<1> HIDE DEF o
<1>3. /\ o \in LcpState /\ o.state = "STARTING" /\ o.fsm_timeouts = p.fsm_timeouts
      /\ o.upper = p.upper /\ o.echo_timer_running = p.echo_timer_running
      /\ o.echo_timeouts = p.echo_timeouts /\ o.up_timeouts = p.up_timeouts
      /\ o.delayed_up = p.delayed_up /\ o.hungup = FALSE /\ o.phase = p.phase
  <2>1. "STARTING" \in States
    BY DEF States
  <2> QED
    BY Zenon, <1>2, <2>1 DEF LcpState
<1>4. Idle(o)
  BY <1>3 DEF Idle, OneCallout, Timed
<1>5. /\ u \in LcpState /\ u.state = "STARTING" /\ u.fsm_timeouts = o.fsm_timeouts
      /\ u.upper = o.upper /\ u.echo_timer_running = o.echo_timer_running
      /\ u.echo_timeouts = o.echo_timeouts /\ u.up_timeouts = o.up_timeouts
      /\ u.delayed_up = o.delayed_up /\ u.hungup = FALSE /\ u.phase = "ESTABLISH"
  <2>1. "ESTABLISH" \in Phases
    BY DEF Phases
  <2> QED
    BY Zenon, <1>3, <2>1 DEF LcpState
<1> HIDE DEF u
<1>6. Resting(u) /\ u.state # "OPENED" /\ OneCallout(u) /\ Idle(u)
  <2>1. Resting(u) /\ u.state # "OPENED" /\ OneCallout(u)
    BY <1>3, <1>4, <1>5 DEF Idle, Resting, OneCallout, Timed
  <2> QED
    BY <2>1, RestingIdle
<1>7. ASSUME NEW config \in BOOLEAN PROVE Good(lcp_lowerup(u, config))
  <2>1. CASE ~config
    BY <1>6, <2>1 DEF lcp_lowerup, Good
  <2>2. CASE config /\ u.listen_time
    <3> DEFINE d == [u EXCEPT !.delayed_up = TRUE, !.up_timeouts = @ + 1]
    <3>1. lcp_lowerup(u, config) = d
      BY <2>2 DEF lcp_lowerup
    <3>2. d = [u EXCEPT !.delayed_up = TRUE, !.up_timeouts = 1]
      BY <1>6 DEF Resting
    <3> HIDE DEF d
    <3>3. Idle(d)
      <4>1. /\ d \in LcpState /\ d.state = u.state /\ d.fsm_timeouts = u.fsm_timeouts
            /\ d.upper = u.upper /\ d.echo_timer_running = u.echo_timer_running
            /\ d.echo_timeouts = u.echo_timeouts /\ d.up_timeouts = 1
            /\ d.delayed_up = TRUE /\ d.hungup = u.hungup /\ d.phase = u.phase
        BY Zenon, <1>5, <3>2 DEF LcpState
      <4> QED
        BY <1>5, <1>6, <4>1 DEF Idle, OneCallout
    <3> QED
      BY <3>1, <3>3 DEF Good
  <2>3. CASE config /\ ~u.listen_time
    BY <1>6, <2>3, LowerUp DEF lcp_lowerup, Good
  <2> QED
    BY <2>1, <2>2, <2>3
<1> QED
  BY <1>4, <1>7 DEF Good, o, u

\* fsm_timeout retransmits, or gives up.
LEMMA FsmTimeoutGood ==
  ASSUME NEW arg, Good(arg), arg.fsm_timeouts > 0
  PROVE  Good(fsm_timeout(Fired(arg)))
<1>1. Idle(arg) /\ arg.state \in Timed /\ arg.fsm_timeouts = 1
  BY DEF Good, Idle, Opened, OneCallout
<1>2. Resting(arg)
  BY <1>1, IdleResting DEF Timed
<1> DEFINE p == Fired(arg)
<1>3. p = [arg EXCEPT !.fsm_timeouts = 0]
  BY <1>1 DEF Fired
<1> SUFFICES Good(fsm_timeout(p))
  OBVIOUS
<1> HIDE DEF p
<1>4. Resting(p) /\ p.state = arg.state /\ p.fsm_timeouts = 0 /\ p.retransmits \in Nat
  BY <1>2, <1>3 DEF Resting, LcpState
<1>5. CASE p.state \in {"CLOSING", "STOPPING"} /\ p.retransmits <= 0
  <2> DEFINE e == IF p.state = "CLOSING" THEN "CLOSED" ELSE "STOPPED"
             t == [p EXCEPT !.state = e]
  <2>1. fsm_timeout(p) = lcp_finished(t)
    BY <1>4, <1>5 DEF fsm_timeout
  <2>2. e \in States \ {"OPENED"} /\ e \notin Timed
    BY DEF States, Timed
  <2> HIDE DEF e
  <2>3. Resting(t) /\ t.state = e /\ OneCallout(t)
    BY <1>4, <2>2, RestingState
  <2> QED
    BY Zenon, <2>1, <2>2, <2>3, Finished DEF Good
<1>6. CASE p.state \in {"CLOSING", "STOPPING"} /\ p.retransmits > 0
  <2> DEFINE r == [p EXCEPT !.id = NextId(p), !.reqid = NextId(p)]
             s == fsm_sdata(r, "TERMREQ", r.reqid)
             c == TIMEOUT_fsm(s)
             n == [c EXCEPT !.retransmits = @ - 1]
  <2>1. fsm_timeout(p) = n
    BY <1>6 DEF fsm_timeout
  <2>2. Alike(p, r) /\ r.reqid \in Ids /\ r.retransmits = p.retransmits
    <3>1. NextId(p) \in Ids /\ p \in LcpState
      BY <1>4, NextIdType DEF Resting
    <3> QED
      BY Zenon, <3>1 DEF LcpState, Alike, Kept
  <2> HIDE DEF r
  <2>3. Alike(r, s) /\ s.retransmits = p.retransmits
    BY Zenon, <2>2, Sdata DEF Alike, Codes
  <2> HIDE DEF s
  <2>4. Resting(s) /\ s.state = p.state /\ s.fsm_timeouts = 0 /\ s \in LcpState
    BY <1>4, <2>2, <2>3, AlikeTrans, AlikeStates DEF Alike
  <2>5. Resting(c) /\ c.state = p.state /\ c.fsm_timeouts = 1 /\ c.retransmits > 0
    BY <1>6, <2>3, <2>4, Callouts DEF Resting, Kept
  <2> HIDE DEF c
  <2>6. Alike(c, n)
    BY <2>5, CountDown DEF Resting
  <2> HIDE DEF n
  <2>7. Resting(n) /\ n.state # "OPENED" /\ OneCallout(n)
    BY <1>6, <2>5, <2>6, AlikeStates DEF Alike, OneCallout, Timed
  <2> QED
    BY <2>1, <2>7, RestingIdle DEF Good
<1>7. CASE p.state \in {"REQSENT", "ACKRCVD", "ACKSENT"} /\ p.retransmits <= 0
  <2> DEFINE t == [p EXCEPT !.state = "STOPPED"]
  <2>1. fsm_timeout(p) = IF p.passive THEN t ELSE lcp_finished(t)
    BY <1>4, <1>7 DEF fsm_timeout
  <2>2. "STOPPED" \in States \ {"OPENED"} /\ "STOPPED" \notin Timed
    BY DEF States, Timed
  <2>3. Resting(t) /\ t.state = "STOPPED" /\ OneCallout(t) /\ Idle(t)
    BY <1>4, <2>2, RestingState
  <2> QED
    BY Zenon, <2>1, <2>3, Finished DEF Good
<1>8. CASE p.state \in {"REQSENT", "ACKRCVD", "ACKSENT"} /\ p.retransmits > 0
  <2> DEFINE c == fsm_sconfreq(p, TRUE)
             e == IF p.state = "ACKRCVD" THEN "REQSENT" ELSE p.state
             t == [c EXCEPT !.state = e]
  <2>1. c \in LcpState /\ c.state = p.state /\ c.fsm_timeouts = 1 /\ Kept(p, c)
    <3>1. p \in LcpState /\ TRUE \in BOOLEAN /\ p.retransmits > 0
      BY <1>4, <1>8 DEF Resting
    <3>2. c \in LcpState /\ c.state = p.state /\ c.fsm_timeouts = p.fsm_timeouts + 1
          /\ Kept(p, c)
      BY Zenon, <3>1, ConfReq
    <3> HIDE DEF c
    <3> QED
      BY <1>4, <3>2
  <2>2. fsm_timeout(p) = [c EXCEPT !.state = IF @ = "ACKRCVD" THEN "REQSENT" ELSE @]
    BY <1>8 DEF fsm_timeout
  <2> HIDE DEF c
  <2>3. fsm_timeout(p) = t
    BY <2>1, <2>2
  <2>4. e \in States \ {"OPENED"} /\ e \in Timed
    BY <1>8 DEF States, Timed
  <2> HIDE DEF e
  <2>5. Resting(c)
    BY <1>4, <2>1 DEF Resting, Kept
  <2> QED
    BY <2>1, <2>3, <2>4, <2>5, RestingState DEF Good
<1> QED
  BY <1>1, <1>4, <1>5, <1>6, <1>7, <1>8 DEF Timed

----------------------------------------------------------------------------
(* Received packets.                                                       *)

\* Cancelling the callout of a state that waits for an answer.
LEMMA Cancelled ==
  ASSUME NEW p, Idle(p), p.state \in Timed
  PROVE  /\ Resting(UNTIMEOUT_fsm(p))
         /\ UNTIMEOUT_fsm(p).fsm_timeouts = 0
         /\ UNTIMEOUT_fsm(p).state = p.state
<1>1. Resting(p) /\ p.fsm_timeouts = 1 /\ p \in LcpState
  BY IdleResting DEF Timed, Idle, OneCallout
<1> QED
  BY <1>1, Callouts DEF Resting, Kept, Less

\* The automaton gets to OPENED.
LEMMA Reached ==
  ASSUME NEW p, Resting(p), p.fsm_timeouts = 0, NEW refuse \in BOOLEAN
  PROVE  /\ \A id \in Ids :
              Good(lcp_up([p EXCEPT !.state = "OPENED", !.acked = id], refuse))
         /\ \A n \in Nat :
              Good(lcp_up([p EXCEPT !.state = "OPENED", !.retransmits = n], refuse))
<1>1. "OPENED" \in States
  BY DEF States
<1>2. ASSUME NEW id \in Ids
      PROVE  Good(lcp_up([p EXCEPT !.state = "OPENED", !.acked = id], refuse))
  <2> DEFINE x == [p EXCEPT !.state = "OPENED", !.acked = id]
  <2>1. Resting(x) /\ x.state = "OPENED" /\ x.fsm_timeouts = 0
    BY Zenon, <1>1 DEF Resting, LcpState
  <2> HIDE DEF x
  <2>2. Good(lcp_up(x, refuse))
    BY <2>1, Up
  <2> QED
    BY <2>2 DEF x
<1>3. ASSUME NEW n \in Nat
      PROVE  Good(lcp_up([p EXCEPT !.state = "OPENED", !.retransmits = n], refuse))
  <2> DEFINE x == [p EXCEPT !.state = "OPENED", !.retransmits = n]
  <2>1. Resting(x) /\ x.state = "OPENED" /\ x.fsm_timeouts = 0
    BY Zenon, <1>1 DEF Resting, LcpState
  <2> HIDE DEF x
  <2>2. Good(lcp_up(x, refuse))
    BY <2>1, Up
  <2> QED
    BY <2>2 DEF x
<1> QED
  BY Zenon, <1>2, <1>3

\* A Configure-Request.
LEMMA RconfreqGood ==
  ASSUME NEW p, Good(p), p.state \notin {"INITIAL", "STARTING"},
         NEW id \in Ids, NEW code \in {"CONFACK", "CONFNAK", "CONFREJ"},
         NEW refuse \in BOOLEAN
  PROVE  Good(fsm_rconfreq(p, id, code, refuse))
<1>1. p \in LcpState /\ p.state \in States
  BY DEF Good, Idle, Opened, LcpState
<1>2. code \in Codes /\ "TERMACK" \in Codes
  BY DEF Codes
<1>3. CASE p.state = "CLOSED"
  BY <1>1, <1>2, <1>3, Sdata, AlikeStates DEF fsm_rconfreq
<1>4. CASE p.state \in {"CLOSING", "STOPPING"}
  BY <1>4 DEF fsm_rconfreq
<1>5. CASE p.state \in {"STOPPED", "REQSENT", "ACKRCVD", "ACKSENT", "OPENED"}
  <2> DEFINE b == IF p.state = "OPENED" THEN lcp_down(p) ELSE p
             n == IF p.state \in {"OPENED", "STOPPED"}
                  THEN [fsm_sconfreq(b, FALSE) EXCEPT !.state = "REQSENT"]
                  ELSE p
             s == fsm_sdata(n, code, id)
             e == IF s.state = "ACKRCVD" THEN "ACKRCVD" ELSE "REQSENT"
  <2>1. Idle(n) /\ n.state \in {"REQSENT", "ACKRCVD", "ACKSENT"}
    <3>1. CASE p.state = "OPENED"
      <4>1. Resting(lcp_down(p)) /\ lcp_down(p).fsm_timeouts = 0
        BY <3>1, Down DEF Good, Idle
      <4> QED
        BY Zenon, <3>1, <4>1, Requested
    <3>2. CASE p.state = "STOPPED"
      <4>1. Resting(p) /\ p.fsm_timeouts = 0
        BY <3>2, IdleResting DEF Good, Opened, Idle, OneCallout, Timed
      <4> QED
        BY Zenon, <3>2, <4>1, Requested
    <3>3. CASE p.state \in {"REQSENT", "ACKRCVD", "ACKSENT"}
      BY <3>3 DEF Good, Opened
    <3> QED
      BY <1>5, <3>1, <3>2, <3>3
  <2>2. fsm_rconfreq(p, id, code, refuse) =
          IF code = "CONFACK"
          THEN IF n.state = "ACKRCVD"
               THEN lcp_up([UNTIMEOUT_fsm(s) EXCEPT !.state = "OPENED",
                                                    !.acked = id], refuse)
               ELSE [s EXCEPT !.state = "ACKSENT", !.acked = id]
          ELSE [s EXCEPT !.state = IF @ = "ACKRCVD" THEN @ ELSE "REQSENT"]
    BY <1>5 DEF fsm_rconfreq
  <2> HIDE DEF n
  <2>3. Alike(n, s)
    BY <1>2, <2>1, Sdata DEF Idle
  <2> HIDE DEF s
  <2>4. /\ Idle(s) /\ s.state = n.state /\ s.state \in Timed
        /\ Resting(s) /\ s.fsm_timeouts = 1 /\ s \in LcpState
    <3>1. Idle(s) /\ s.state = n.state
      BY Zenon, <2>1, <2>3, AlikeStates DEF Alike
    <3> QED
      BY <2>1, <3>1, IdleResting DEF Idle, OneCallout, Timed
  <2>5. CASE code = "CONFACK" /\ n.state = "ACKRCVD"
    BY Zenon, <2>2, <2>4, <2>5, Cancelled, Reached
  <2>6. CASE code = "CONFACK" /\ n.state # "ACKRCVD"
    <3> DEFINE x == [s EXCEPT !.state = "ACKSENT", !.acked = id]
    <3>1. "ACKSENT" \in States /\ "ACKSENT" \in Timed
      BY DEF States, Timed
    <3>2. Resting(x) /\ x.state = "ACKSENT" /\ x.fsm_timeouts = 1
      BY Zenon, <2>4, <3>1 DEF Resting, LcpState
    <3> HIDE DEF x
    <3>3. Idle(x)
      BY <3>1, <3>2, RestingIdle DEF OneCallout
    <3> QED
      BY <2>2, <2>6, <3>3 DEF Good, x
  <2>7. CASE code # "CONFACK"
    <3>1. [s EXCEPT !.state = IF @ = "ACKRCVD" THEN @ ELSE "REQSENT"]
            = [s EXCEPT !.state = e]
      BY <2>4
    <3>2. e \in States \ {"OPENED"} /\ e \in Timed
      BY DEF States, Timed
    <3> HIDE DEF e
    <3> QED
      BY <2>2, <2>4, <2>7, <3>1, <3>2, RestingState DEF Good
  <2> QED
    BY <2>5, <2>6, <2>7
<1> QED
  BY <1>1, <1>3, <1>4, <1>5 DEF States

\* Every negotiation that starts over sends a request from REQSENT.
LEMMA StartOver ==
  ASSUME NEW p, Good(p)
  PROVE  /\ p.state = "OPENED" =>
              Good([fsm_sconfreq(lcp_down(p), FALSE) EXCEPT !.state = "REQSENT"])
         /\ p.state = "ACKRCVD" =>
              Good([fsm_sconfreq(UNTIMEOUT_fsm(p), FALSE) EXCEPT !.state = "REQSENT"])
<1>1. ASSUME p.state = "OPENED"
      PROVE  Good([fsm_sconfreq(lcp_down(p), FALSE) EXCEPT !.state = "REQSENT"])
  <2>1. Resting(lcp_down(p)) /\ lcp_down(p).fsm_timeouts = 0
    BY <1>1, Down DEF Good, Idle
  <2> QED
    BY Zenon, <2>1, Requested DEF Good
<1>2. ASSUME p.state = "ACKRCVD"
      PROVE  Good([fsm_sconfreq(UNTIMEOUT_fsm(p), FALSE) EXCEPT !.state = "REQSENT"])
  <2>1. Idle(p) /\ p.state \in Timed
    BY <1>2 DEF Good, Opened, Timed
  <2>2. Resting(UNTIMEOUT_fsm(p)) /\ UNTIMEOUT_fsm(p).fsm_timeouts = 0
    BY <2>1, Cancelled
  <2> QED
    BY Zenon, <2>2, Requested DEF Good
<1> QED
  BY <1>1, <1>2

\* A Configure-Ack.
LEMMA RconfackGood ==
  ASSUME NEW p, Good(p), p.state \notin {"INITIAL", "STARTING"},
         NEW id \in Ids, NEW ret, NEW refuse \in BOOLEAN
  PROVE  Good(fsm_rconfack(p, id, ret, refuse))
<1>1. CASE ~ExpectedId(p, id) \/ ret = 0
  BY <1>1 DEF fsm_rconfack
<1>2. CASE ~(~ExpectedId(p, id) \/ ret = 0)
  <2> DEFINE a == [p EXCEPT !.seen_ack = TRUE]
  <2>1. Good(a) /\ a \in LcpState
    <3>1. Alike(p, a)
      BY Zenon, SetQuiet DEF Good, Idle, Opened
    <3> QED
      BY Zenon, <3>1, AlikeStates DEF Alike
  <2> HIDE DEF a
  <2>2. fsm_rconfack(p, id, ret, refuse) =
          CASE a.state \in {"CLOSED", "STOPPED"} -> fsm_sdata(a, "TERMACK", id)
            [] a.state = "REQSENT" ->
                 [a EXCEPT !.state = "ACKRCVD", !.retransmits = maxconfreqtransmits]
            [] a.state = "ACKRCVD" ->
                 [fsm_sconfreq(UNTIMEOUT_fsm(a), FALSE) EXCEPT !.state = "REQSENT"]
            [] a.state = "ACKSENT" ->
                 lcp_up([UNTIMEOUT_fsm(a)
                           EXCEPT !.state = "OPENED",
                                  !.retransmits = maxconfreqtransmits], refuse)
            [] a.state = "OPENED" ->
                 [fsm_sconfreq(lcp_down(a), FALSE) EXCEPT !.state = "REQSENT"]
            [] OTHER -> a
    BY <1>2 DEF fsm_rconfack, a
  <2>3. CASE a.state \in {"CLOSED", "STOPPED"}
    <3>1. "TERMACK" \in Codes
      BY DEF Codes
    <3> QED
      BY <2>1, <2>2, <2>3, <3>1, Sdata, AlikeStates
  <2>4. CASE a.state = "REQSENT"
    <3> DEFINE x == [a EXCEPT !.state = "ACKRCVD", !.retransmits = maxconfreqtransmits]
    <3>1. Resting(a) /\ a.fsm_timeouts = 1
      BY <2>1, <2>4, IdleResting DEF Good, Opened, Idle, OneCallout, Timed
    <3>2. "ACKRCVD" \in States /\ "ACKRCVD" \in Timed /\ maxconfreqtransmits \in Nat
      BY ConfreqAssumption DEF States, Timed
    <3>3. Resting(x) /\ x.state = "ACKRCVD" /\ x.fsm_timeouts = 1
      BY ZenonT(30), <3>1, <3>2 DEF Resting, LcpState
    <3> HIDE DEF x
    <3>4. Good(x)
      BY <3>2, <3>3, RestingIdle DEF OneCallout, Good
    <3> QED
      BY <2>2, <2>4, <3>4 DEF x
  <2>5. CASE a.state \in {"ACKRCVD", "OPENED"}
    BY Zenon, <2>1, <2>2, <2>5, StartOver
  <2>6. CASE a.state = "ACKSENT"
    <3>1. Idle(a) /\ a.state \in Timed /\ maxconfreqtransmits \in Nat
      BY <2>1, <2>6, ConfreqAssumption DEF Good, Opened, Timed
    <3> QED
      BY Zenon, <2>2, <2>6, <3>1, Cancelled, Reached
  <2>7. CASE a.state \notin {"CLOSED", "STOPPED", "REQSENT", "ACKRCVD", "ACKSENT", "OPENED"}
    BY <2>1, <2>2, <2>7
  <2> QED
    BY <2>3, <2>4, <2>5, <2>6, <2>7
<1> QED
  BY <1>1, <1>2

\* A Configure-Nak or a Configure-Reject.
LEMMA RconfnakrejGood ==
  ASSUME NEW p, Good(p), p.state \notin {"INITIAL", "STARTING"},
         NEW code, NEW id \in Ids, NEW ret \in Int
  PROVE  Good(fsm_rconfnakrej(p, code, id, ret))
<1>1. CASE ~ExpectedId(p, id) \/ ret = 0
  BY Zenon, <1>1 DEF fsm_rconfnakrej
<1>2. CASE ~(~ExpectedId(p, id) \/ ret = 0)
  <2> DEFINE n == IF code = "CONFREJ" THEN Less(p.options) ELSE p.options
             a == [p EXCEPT !.seen_ack = TRUE,
                            !.options = IF code = "CONFREJ" THEN Less(@) ELSE @]
  <2>1. Good(a) /\ a \in LcpState
    <3>1. p \in LcpState /\ p.options \in Nat
      BY DEF Good, Idle, Opened, LcpState
    <3>2. n \in Nat
      BY <3>1 DEF Less
    <3>3. a = [p EXCEPT !.seen_ack = TRUE, !.options = n]
      BY <3>1
    <3> HIDE DEF a, n
    <3>4. Alike(p, a)
      BY Zenon, <3>1, <3>2, <3>3 DEF LcpState, Alike, Kept
    <3> QED
      BY <3>4, AlikeStates DEF Alike
  <2> HIDE DEF a
  <2>2. fsm_rconfnakrej(p, code, id, ret) =
          CASE a.state \in {"CLOSED", "STOPPED"} -> fsm_sdata(a, "TERMACK", id)
            [] a.state \in {"REQSENT", "ACKSENT"} ->
                 IF ret < 0
                 THEN [UNTIMEOUT_fsm(a) EXCEPT !.state = "STOPPED"]
                 ELSE fsm_sconfreq(UNTIMEOUT_fsm(a), FALSE)
            [] a.state = "ACKRCVD" ->
                 [fsm_sconfreq(UNTIMEOUT_fsm(a), FALSE) EXCEPT !.state = "REQSENT"]
            [] a.state = "OPENED" ->
                 [fsm_sconfreq(lcp_down(a), FALSE) EXCEPT !.state = "REQSENT"]
            [] OTHER -> a
    BY <1>2 DEF fsm_rconfnakrej, a
  <2>3. CASE a.state \in {"CLOSED", "STOPPED"}
    <3>1. "TERMACK" \in Codes
      BY DEF Codes
    <3> QED
      BY Zenon, <2>1, <2>2, <2>3, <3>1, Sdata, AlikeStates
  <2>4. CASE a.state \in {"REQSENT", "ACKSENT"}
    <3> DEFINE u == UNTIMEOUT_fsm(a)
               x == fsm_sconfreq(u, FALSE)
    <3>1. Resting(u) /\ u.fsm_timeouts = 0 /\ u.state = a.state
      <4>1. Idle(a) /\ a.state \in Timed
        BY <2>1, <2>4 DEF Good, Opened, Timed
      <4> QED
        BY <4>1, Cancelled
    <3> HIDE DEF u
    <3>2. "STOPPED" \in States \ {"OPENED"} /\ "STOPPED" \notin Timed
      BY DEF States, Timed
    <3>3. Idle([u EXCEPT !.state = "STOPPED"])
      BY <3>1, <3>2, RestingState
    <3>4. x \in LcpState /\ x.state = a.state /\ x.fsm_timeouts = 0 + 1 /\ Kept(u, x)
      <4>1. u \in LcpState /\ FALSE \in BOOLEAN
        BY <3>1 DEF Resting
      <4> QED
        BY Zenon, <3>1, <4>1, ConfReq
    <3> HIDE DEF x
    <3>5. Idle(x)
      <4>1. Resting(x) /\ x.state # "OPENED" /\ OneCallout(x)
        BY <2>4, <3>1, <3>4 DEF Resting, Kept, OneCallout, Timed
      <4> QED
        BY <4>1, RestingIdle
    <3> QED
      BY Zenon, <2>2, <2>4, <3>3, <3>5 DEF Good, u, x
  <2>5. CASE a.state \in {"ACKRCVD", "OPENED"}
    BY Zenon, <2>1, <2>2, <2>5, StartOver
  <2>6. CASE a.state \notin {"CLOSED", "STOPPED", "REQSENT", "ACKRCVD", "ACKSENT", "OPENED"}
    BY Zenon, <2>1, <2>2, <2>6
  <2> QED
    BY <2>3, <2>4, <2>5, <2>6
<1> QED
  BY <1>1, <1>2

\* ACKRCVD and ACKSENT fall back to REQSENT with their callout.
LEMMA FallBack ==
  ASSUME NEW p, Good(p), p.state \in {"ACKRCVD", "ACKSENT"}
  PROVE  Good([p EXCEPT !.state = "REQSENT"])
<1>1. Resting(p) /\ p.fsm_timeouts = 1
  BY IdleResting DEF Good, Opened, Idle, OneCallout, Timed
<1>2. "REQSENT" \in States \ {"OPENED"} /\ "REQSENT" \in Timed
  BY DEF States, Timed
<1> QED
  BY <1>1, <1>2, RestingState DEF Good

\* The callout is cancelled, and the link is finished.
LEMMA CancelledFinished ==
  ASSUME NEW p, Good(p), p.state \in Timed, NEW s \in {"CLOSED", "STOPPED"}
  PROVE  Good(lcp_finished([UNTIMEOUT_fsm(p) EXCEPT !.state = s]))
<1> DEFINE u == UNTIMEOUT_fsm(p)
           x == [u EXCEPT !.state = s]
<1>1. Resting(u) /\ u.fsm_timeouts = 0
  BY Cancelled DEF Good, Opened, Timed
<1> HIDE DEF u
<1>2. s \in States \ {"OPENED"} /\ s \notin Timed
  BY DEF States, Timed
<1>3. Resting(x) /\ x.state = s /\ OneCallout(x)
  BY <1>1, <1>2, RestingState
<1> QED
  BY Zenon, <1>2, <1>3, Finished DEF Good, u

\* A Terminate-Request: an OPENED link waits in STOPPING for the peer to go.
LEMMA RtermreqGood ==
  ASSUME NEW p, Good(p), NEW id \in Ids
  PROVE  Good(fsm_rtermreq(p, id))
<1> DEFINE x == [p EXCEPT !.retransmits = 0, !.state = "STOPPING"]
           d == lcp_down(x)
           q == CASE p.state \in {"ACKRCVD", "ACKSENT"} -> [p EXCEPT !.state = "REQSENT"]
                  [] p.state = "OPENED" -> TIMEOUT_fsm(d)
                  [] OTHER -> p
<1>1. Good(q)
  <2>1. CASE p.state \in {"ACKRCVD", "ACKSENT"}
    BY <2>1, FallBack
  <2>2. CASE p.state = "OPENED"
    <3>1. Opened(p)
      BY <2>2 DEF Good, Idle
    <3>2. "STOPPING" \in States /\ "STOPPING" \in Timed
      BY DEF States, Timed
    <3>3. /\ x \in LcpState /\ x.state = "STOPPING" /\ x.upper = 1
          /\ x.echo_timeouts = (IF x.echo_timer_running THEN 1 ELSE 0)
          /\ x.fsm_timeouts = 0 /\ x.up_timeouts = 0 /\ ~x.delayed_up
          /\ x.phase # "DEAD" /\ ~x.hungup
      BY Zenon, <3>1, <3>2 DEF Opened, LcpState
    <3> HIDE DEF x
    <3>4. Resting(d) /\ d.state = "STOPPING" /\ d.fsm_timeouts = 0
      BY <3>3, DownFrom DEF Resting
    <3> HIDE DEF d
    <3>5. Resting(TIMEOUT_fsm(d)) /\ TIMEOUT_fsm(d).state = "STOPPING"
          /\ TIMEOUT_fsm(d).fsm_timeouts = 1
      BY <3>4, Callouts DEF Resting, Kept
    <3>6. Good(TIMEOUT_fsm(d))
      BY <3>2, <3>5, RestingIdle DEF OneCallout, Good
    <3> QED
      BY <2>2, <3>6
  <2>3. CASE p.state \notin {"ACKRCVD", "ACKSENT", "OPENED"}
    BY <2>3
  <2> QED
    BY <2>1, <2>2, <2>3
<1>2. fsm_rtermreq(p, id) = fsm_sdata(q, "TERMACK", id)
  BY DEF fsm_rtermreq
<1> HIDE DEF q
<1>3. q \in LcpState /\ "TERMACK" \in Codes
  BY <1>1 DEF Good, Idle, Opened, Codes
<1> QED
  BY <1>1, <1>2, <1>3, Sdata, AlikeStates

\* A Terminate-Ack.
LEMMA RtermackGood ==
  ASSUME NEW p, Good(p)
  PROVE  Good(fsm_rtermack(p))
<1>1. CASE p.state = "CLOSING"
  <2>1. p.state \in Timed /\ fsm_rtermack(p) =
          lcp_finished([UNTIMEOUT_fsm(p) EXCEPT !.state = "CLOSED"])
    BY <1>1 DEF Timed, fsm_rtermack
  <2> QED
    BY Zenon, <2>1, CancelledFinished
<1>2. CASE p.state = "STOPPING"
  <2>1. p.state \in Timed /\ fsm_rtermack(p) =
          lcp_finished([UNTIMEOUT_fsm(p) EXCEPT !.state = "STOPPED"])
    BY <1>2 DEF Timed, fsm_rtermack
  <2> QED
    BY Zenon, <2>1, CancelledFinished
<1>3. CASE p.state = "ACKRCVD"
  BY <1>3, FallBack DEF fsm_rtermack
<1>4. CASE p.state = "OPENED"
  BY Zenon, <1>4, StartOver DEF fsm_rtermack
<1>5. CASE p.state \notin {"CLOSING", "STOPPING", "ACKRCVD", "OPENED"}
  BY <1>5 DEF fsm_rtermack
<1> QED
  BY <1>1, <1>2, <1>3, <1>4, <1>5

\* The other codes, in OPENED or ignored.
LEMMA ExtcodeGood ==
  ASSUME NEW p, Good(p), NEW pkt \in Packets
  PROVE  Good(lcp_extcode(p, pkt)) /\ Good(fsm_rcoderej(p))
<1>1. p \in LcpState /\ "ECHOREP" \in Codes /\ pkt.id \in Ids
  BY DEF Good, Idle, Opened, Codes, Packets
<1>2. Good(fsm_rcoderej(p))
  BY FallBack DEF fsm_rcoderej
<1>3. CASE pkt.code = "PROTREJ" /\ p.state = "OPENED"
  <2>1. lcp_extcode(p, pkt) = terminate_layer(p, "STOPPING")
    BY <1>3 DEF lcp_extcode, fsm_protreject
  <2>2. Opened(p)
    BY <1>3 DEF Good, Idle
  <2> QED
    BY <1>2, <2>1, <2>2, Terminate DEF Good
<1>4. CASE pkt.code = "ECHOREQ" /\ p.state = "OPENED"
  <2>1. lcp_extcode(p, pkt) = fsm_sdata(p, "ECHOREP", pkt.id)
    BY <1>4 DEF lcp_extcode
  <2> QED
    BY <1>1, <1>2, <2>1, Sdata, AlikeStates
<1>5. CASE pkt.code = "ECHOREP"
  <2>1. lcp_extcode(p, pkt) = [p EXCEPT !.echos_pending = 0]
    BY <1>5 DEF lcp_extcode
  <2>2. Alike(p, [p EXCEPT !.echos_pending = 0])
    BY Zenon, <1>1, SetQuiet
  <2> QED
    BY <1>2, <2>1, <2>2, AlikeStates
<1>6. CASE /\ ~(pkt.code = "PROTREJ" /\ p.state = "OPENED")
           /\ ~(pkt.code = "ECHOREQ" /\ p.state = "OPENED")
           /\ pkt.code # "ECHOREP"
  BY <1>2, <1>6 DEF lcp_extcode
<1> QED
  BY <1>3, <1>4, <1>5, <1>6

\* Any packet for LCP.
LEMMA InputGood ==
  ASSUME NEW p, Good(p), NEW pkt \in Packets,
         NEW code \in {"CONFACK", "CONFNAK", "CONFREJ"}, NEW ret \in Int,
         NEW refuse \in BOOLEAN
  PROVE  Good(lcp_input(p, pkt, code, ret, refuse))
<1> DEFINE u == [p EXCEPT !.delayed_up = FALSE, !.up_timeouts = Less(@)]
           q == IF p.delayed_up THEN fsm_lowerup(u) ELSE p
<1>1. lcp_input(p, pkt, code, ret, refuse) = fsm_input(q, pkt, code, ret, refuse)
  BY DEF lcp_input
<1>2. Good(q)
  <2>1. CASE p.delayed_up
    <3>1. Idle(p) /\ p.up_timeouts = 1
      BY <2>1 DEF Good, Opened, Idle
    <3>2. u = [p EXCEPT !.delayed_up = FALSE, !.up_timeouts = 0]
      BY <3>1 DEF Less
    <3> HIDE DEF u
    <3> QED
      BY Zenon, <2>1, <3>1, <3>2, DelayEnds, LowerUp DEF Good
  <2>2. CASE ~p.delayed_up
    BY <2>2
  <2> QED
    BY Zenon, <2>1, <2>2
<1> HIDE DEF q
<1>3. pkt.id \in Ids
  BY DEF Packets
<1>4. CASE q.state \in {"INITIAL", "STARTING"}
  BY <1>1, <1>2, <1>4 DEF fsm_input
<1>5. CASE q.state \notin {"INITIAL", "STARTING"}
  <2>1. CASE pkt.code = "CONFREQ"
    BY <1>1, <1>2, <1>3, <1>5, <2>1, RconfreqGood DEF fsm_input
  <2>2. CASE pkt.code = "CONFACK"
    BY <1>1, <1>2, <1>3, <1>5, <2>2, RconfackGood DEF fsm_input
  <2>3. CASE pkt.code \in {"CONFNAK", "CONFREJ"}
    BY <1>1, <1>2, <1>3, <1>5, <2>3, RconfnakrejGood DEF fsm_input
  <2>4. CASE pkt.code = "TERMREQ"
    BY <1>1, <1>2, <1>3, <1>5, <2>4, RtermreqGood DEF fsm_input
  <2>5. CASE pkt.code = "TERMACK"
    BY <1>1, <1>2, <1>5, <2>5, RtermackGood DEF fsm_input
  <2>6. CASE pkt.code = "CODEREJ"
    BY <1>1, <1>2, <1>5, <2>6, ExtcodeGood DEF fsm_input
  <2>7. CASE pkt.code \notin {"CONFREQ", "CONFACK", "CONFNAK", "CONFREJ", "TERMREQ",
                             "TERMACK", "CODEREJ"}
    BY <1>1, <1>2, <1>5, <2>7, ExtcodeGood DEF fsm_input
  <2> QED
    BY <2>1, <2>2, <2>3, <2>4, <2>5, <2>6, <2>7
<1> QED
  BY <1>4, <1>5

\* The modem hangs up: the line is gone and nothing is pending.
LEMMA HangupGood ==
  ASSUME NEW p, Good(p), p.phase # "DEAD"
  PROVE  Good(link_terminated(lcp_lowerdown([p EXCEPT !.hungup = TRUE])))
<1> DEFINE h == [p EXCEPT !.hungup = TRUE]
           w == lcp_lowerdown(h)
           f == [[w EXCEPT !.phase = "DISCONNECT"] EXCEPT !.phase = "DEAD"]
<1>1. p \in LcpState
  BY DEF Good, Idle, Opened
<1>2. /\ h \in LcpState /\ h.state = p.state /\ h.fsm_timeouts = p.fsm_timeouts
      /\ h.upper = p.upper /\ h.echo_timer_running = p.echo_timer_running
      /\ h.echo_timeouts = p.echo_timeouts /\ h.up_timeouts = p.up_timeouts
      /\ h.delayed_up = p.delayed_up /\ h.hungup = TRUE /\ h.phase = p.phase
  BY Zenon, <1>1 DEF LcpState
<1> HIDE DEF h
<1>3. /\ w \in LcpState /\ w.state \in {"INITIAL", "STARTING"} /\ w.fsm_timeouts = 0
      /\ w.upper = 0 /\ ~w.echo_timer_running /\ w.echo_timeouts = 0
      /\ w.up_timeouts = 0 /\ ~w.delayed_up /\ w.hungup = TRUE /\ w.phase # "DEAD"
  <2>1. CASE h.delayed_up
    <3>1. Idle(p) /\ p.up_timeouts = 1
      BY <1>2, <2>1 DEF Good, Opened, Idle
    <3>2. w = [h EXCEPT !.delayed_up = FALSE, !.up_timeouts = 0]
      BY <1>2, <2>1, <3>1 DEF lcp_lowerdown, Less
    <3> HIDE DEF w
    <3> QED
      BY ZenonT(30), <1>2, <2>1, <3>1, <3>2 DEF LcpState, Idle, OneCallout, Timed
  <2>2. CASE ~h.delayed_up /\ h.state # "OPENED"
    <3>1. Idle(p) /\ w = fsm_lowerdown(h)
      BY <1>2, <2>2 DEF Good, Opened, lcp_lowerdown
    <3>2. OneCallout(h)
      BY <1>2, <3>1 DEF Idle, OneCallout
    <3>3. /\ w \in LcpState /\ Kept(h, w) /\ w.fsm_timeouts = 0
          /\ w.state \in {"INITIAL", "STARTING"}
      BY <1>2, <2>2, <3>1, <3>2, LowerDown
    <3> HIDE DEF w
    <3> QED
      BY <1>2, <2>2, <3>1, <3>3 DEF Idle, Kept
  <2>3. CASE ~h.delayed_up /\ h.state = "OPENED"
    <3>1. Opened(p) /\ w = [lcp_down(h) EXCEPT !.state = "STARTING"]
      BY <1>2, <2>3 DEF Good, Idle, lcp_lowerdown, fsm_lowerdown
    <3> DEFINE d == lcp_down(h)
    <3>2. /\ d \in LcpState /\ d.fsm_timeouts = h.fsm_timeouts
          /\ d.upper = 0 /\ ~d.echo_timer_running /\ d.echo_timeouts = 0
          /\ d.up_timeouts = h.up_timeouts /\ d.delayed_up = h.delayed_up
          /\ d.phase = "ESTABLISH" /\ d.hungup = h.hungup
      BY <1>2, <3>1, DownFrom DEF Opened
    <3>3. "STARTING" \in States
      BY DEF States
    <3>4. w = [d EXCEPT !.state = "STARTING"]
      BY <3>1
    <3> HIDE DEF d, w
    <3>5. /\ w \in LcpState /\ w.state = "STARTING" /\ w.fsm_timeouts = d.fsm_timeouts
          /\ w.upper = d.upper /\ w.echo_timer_running = d.echo_timer_running
          /\ w.echo_timeouts = d.echo_timeouts /\ w.up_timeouts = d.up_timeouts
          /\ w.delayed_up = d.delayed_up /\ w.hungup = d.hungup /\ w.phase = d.phase
      BY <3>2, <3>3, <3>4 DEF LcpState
    <3> QED
      BY <1>2, <3>1, <3>2, <3>5 DEF Opened
  <2> QED
    BY Zenon, <2>1, <2>2, <2>3
<1>4. link_terminated(w) = f
  BY Zenon, <1>3 DEF link_terminated
<1> HIDE DEF w
<1>5. f = [w EXCEPT !.phase = "DEAD"]
  BY Zenon, <1>3 DEF LcpState
<1> HIDE DEF f
<1>6. Idle(f)
  <2>1. "DEAD" \in Phases
    BY DEF Phases
  <2>2. /\ f \in LcpState /\ f.state = w.state /\ f.fsm_timeouts = w.fsm_timeouts
        /\ f.upper = w.upper /\ f.echo_timer_running = w.echo_timer_running
        /\ f.echo_timeouts = w.echo_timeouts /\ f.up_timeouts = w.up_timeouts
        /\ f.delayed_up = w.delayed_up /\ f.hungup = w.hungup /\ f.phase = "DEAD"
    BY <1>3, <1>5, <2>1 DEF LcpState
  <2> QED
    BY <1>3, <2>2 DEF Idle, OneCallout, Timed
<1> QED
  BY <1>4, <1>6 DEF Good, w, h

----------------------------------------------------------------------------
(* The link. *)

\* Between two events LCP is Idle or Opened at both ends, and outside the
\* inner loop of main() it is back where it started.
LcpInv ==
  \A p \in Peers :
    /\ Good(lcp[p])
    /\ main[p] # "loop" => lcp[p].state = "INITIAL" /\ lcp[p].phase = "DEAD"

Inv == TypeOK /\ LcpInv

\* Each process has the other one as its peer.
LEMMA PeerType ==
  ASSUME NEW p \in Peers
  PROVE  Peer(p) \in Peers
<1>1. \E q \in Peers : q # p
  BY PeersAssumption
<1> QED
  BY <1>1 DEF Peer

\* Good is about states of LCP.
LEMMA GoodType ==
  ASSUME NEW s, Good(s)
  PROVE  s \in LcpState
  BY DEF Good, Idle, Opened

\* What is on the line stays a sequence of packets.
LEMMA SentType ==
  ASSUME NEW l \in [Peers -> Seq(Packets)], NEW p \in Peers, NEW s \in LcpState
  PROVE  Sent(l, p, s) \in [Peers -> Seq(Packets)]
<1> DEFINE q == Peer(p)
           all == l[q] \o s.out
           kept == IF Len(all) <= LinkCapacity THEN all ELSE SubSeq(all, 1, LinkCapacity)
<1>1. q \in Peers /\ l[q] \in Seq(Packets) /\ s.out \in Seq(Packets)
  BY PeerType DEF LcpState
<1> HIDE DEF q
<1>2. all \in Seq(Packets)
  BY <1>1
<1> HIDE DEF all
<1>3. kept \in Seq(Packets)
  <2>1. CASE Len(all) <= LinkCapacity
    BY <1>2, <2>1
  <2>2. CASE ~(Len(all) <= LinkCapacity)
    <3>1. SubSeq(all, 1, LinkCapacity) \in Seq(Packets)
      BY <1>2, <2>2, CapacityAssumption
    <3> QED
      BY <2>2, <3>1
  <2> QED
    BY <2>1, <2>2
<1> HIDE DEF kept
<1>4. [l EXCEPT ![q] = kept] \in [Peers -> Seq(Packets)]
  BY <1>1, <1>3
<1>5. [r \in Peers |-> <<>>] \in [Peers -> Seq(Packets)]
  OBVIOUS
<1> QED
  BY <1>4, <1>5 DEF Sent, q, all, kept

\* An event of p that leaves it in a good state.
LEMMA StepInv ==
  ASSUME Inv, NEW p \in Peers, NEW s, Good(s),
         NEW l \in [Peers -> Seq(Packets)],
         lcp' = [lcp EXCEPT ![p] = [s EXCEPT !.out = <<>>]],
         link' = Sent(l, p, s)
  PROVE  /\ lcp' \in [Peers -> LcpState]
         /\ link' \in [Peers -> Seq(Packets)]
         /\ \A r \in Peers : Good(lcp'[r])
         /\ lcp'[p].state = s.state /\ lcp'[p].phase = s.phase
         /\ \A r \in Peers : r # p => lcp'[r] = lcp[r]
<1> DEFINE t == [s EXCEPT !.out = <<>>]
<1>1. s \in LcpState /\ lcp \in [Peers -> LcpState]
  BY GoodType DEF Inv, TypeOK
<1>2. Alike(s, t)
  BY Zenon, <1>1, SetQuiet
<1>3. Good(t) /\ t \in LcpState /\ t.state = s.state /\ t.phase = s.phase
  BY Zenon, <1>2, AlikeStates DEF Alike, Kept
<1> HIDE DEF t
<1>4. lcp' = [lcp EXCEPT ![p] = t]
  BY DEF t
<1>5. link' \in [Peers -> Seq(Packets)]
  BY <1>1, SentType
<1>6. \A r \in Peers : Good(lcp[r])
  BY DEF Inv, LcpInv
<1> QED
  BY Zenon, <1>1, <1>3, <1>4, <1>5, <1>6

----------------------------------------------------------------------------
(* The actions.                                                            *)

\* A turn of the outer loop of main().
LEMMA ConnectInv ==
  ASSUME Inv, NEW p \in Peers, Connect(p)
  PROVE  Inv'
<1> DEFINE o == [lcp_open(lcp[p]) EXCEPT !.hungup = FALSE]
<1>1. link \in [Peers -> Seq(Packets)]
  BY DEF Inv, TypeOK
<1>2. /\ Good(o)
      /\ \A config \in BOOLEAN :
           Good(lcp_lowerup([o EXCEPT !.phase = "ESTABLISH"], config))
  <2>1. Idle(lcp[p]) /\ lcp[p].state = "INITIAL" /\ lcp[p].phase = "DEAD"
    BY DEF Inv, LcpInv, Connect, Good, Opened
  <2> QED
    BY Zenon, <2>1, OpenGood
<1> HIDE DEF o
<1>3. PICK s : Good(s) /\ Step(p, s)
  <2>1. CASE "connect" \in Faults[p] /\ Step(p, o)
    BY <1>2, <2>1
  <2>2. CASE \E config \in BOOLEAN :
               Step(p, lcp_lowerup([o EXCEPT !.phase = "ESTABLISH"], config))
    BY <1>2, <2>2
  <2> QED
    BY Zenon, <2>1, <2>2 DEF Connect, o
<1>4. /\ lcp' \in [Peers -> LcpState] /\ link' \in [Peers -> Seq(Packets)]
      /\ \A r \in Peers : Good(lcp'[r])
      /\ \A r \in Peers : r # p => lcp'[r] = lcp[r]
  BY Zenon, <1>1, <1>3, StepInv DEF Step
<1>5. /\ main' \in [Peers -> {"connect", "loop", "holdoff", "exit"}]
      /\ main'[p] = "loop" /\ \A r \in Peers : r # p => main'[r] = main[r]
  BY DEF Connect, Inv, TypeOK
<1>6. unsuccess' \in [Peers -> Nat]
  BY DEF Connect, Inv, TypeOK
<1>7. UNCHANGED <<got, asked_to_quit>>
  BY DEF Connect
<1> QED
  BY Zenon, <1>4, <1>5, <1>6, <1>7 DEF Inv, TypeOK, LcpInv

\* The inner loop ends only on a dead link, and lcp_close then restores LCP.
LEMMA LeaveInv ==
  ASSUME Inv, NEW p \in Peers, Leave(p)
  PROVE  Inv'
<1> DEFINE s == lcp_close(lcp[p])
<1>1. link \in [Peers -> Seq(Packets)]
  BY DEF Inv, TypeOK
<1>2. Good(s) /\ s.state = "INITIAL" /\ s.phase = "DEAD"
  BY Close DEF Leave, Inv, LcpInv, Good
<1>3. Step(p, s)
  BY DEF Leave
<1> HIDE DEF s
<1>4. /\ lcp' \in [Peers -> LcpState] /\ link' \in [Peers -> Seq(Packets)]
      /\ \A r \in Peers : Good(lcp'[r])
      /\ lcp'[p].state = "INITIAL" /\ lcp'[p].phase = "DEAD"
      /\ \A r \in Peers : r # p => lcp'[r] = lcp[r]
  BY Zenon, <1>1, <1>2, <1>3, StepInv DEF Step
<1>5. /\ main' \in [Peers -> {"connect", "loop", "holdoff", "exit"}]
      /\ \A r \in Peers : r # p => main'[r] = main[r]
  BY DEF Leave, Inv, TypeOK
<1>6. UNCHANGED <<got, asked_to_quit, unsuccess>>
  BY DEF Leave
<1> QED
  BY Zenon, <1>4, <1>5, <1>6 DEF Inv, TypeOK, LcpInv

\* Steps that do not run LCP.
LEMMA OutsideInv ==
  ASSUME Inv, NEW p \in Peers, Holdoff(p) \/ NetworkUp(p) \/ Signal(p) \/ Lose(p) \/ Reject(p)
  PROVE  Inv'
<1>1. CASE Holdoff(p)
  <2>1. /\ main' \in [Peers -> {"connect", "loop", "holdoff", "exit"}]
        /\ main[p] # "loop" /\ \A r \in Peers : r # p => main'[r] = main[r]
    BY <1>1 DEF Holdoff, Inv, TypeOK
  <2>2. got' \in [Peers -> SUBSET {"SIGHUP", "SIGTERM"}]
    BY <1>1 DEF Holdoff, Inv, TypeOK
  <2>3. asked_to_quit' \in [Peers -> BOOLEAN]
    BY <1>1 DEF Holdoff, Inv, TypeOK
  <2>4. UNCHANGED <<lcp, link, unsuccess>>
    BY <1>1 DEF Holdoff
  <2> QED
    BY <2>1, <2>2, <2>3, <2>4 DEF Inv, TypeOK, LcpInv
<1>2. CASE Signal(p)
  <2>1. got' \in [Peers -> SUBSET {"SIGHUP", "SIGTERM"}]
    BY <1>2 DEF Signal, Inv, TypeOK
  <2> QED
    BY <1>2, <2>1 DEF Signal, Inv, TypeOK, LcpInv
<1>3. CASE Lose(p)
  <2>1. link' \in [Peers -> Seq(Packets)]
    BY <1>3 DEF Lose, Inv, TypeOK
  <2> QED
    BY <1>3, <2>1 DEF Lose, Inv, TypeOK, LcpInv
<1>4. CASE Reject(p)
  <2>1. PICK code \in {"CODEREJ", "PROTREJ"} :
          link' = [link EXCEPT ![Peer(p)] = Tail(@),
                               ![p] = <<[code |-> code, id |-> 0, options |-> 0]>>]
    BY Zenon, <1>4 DEF Reject
  <2> DEFINE pkt == [code |-> code, id |-> 0, options |-> 0]
  <2>2. pkt \in Packets
    BY IdModAssumption DEF Packets, Codes, Ids
  <2> HIDE DEF pkt
  <2>3. /\ link \in [Peers -> Seq(Packets)] /\ Peer(p) \in Peers
        /\ link[Peer(p)] # <<>>
    BY <1>4, PeerType DEF Inv, TypeOK, Reject
  <2>4. Tail(link[Peer(p)]) \in Seq(Packets) /\ <<pkt>> \in Seq(Packets)
    BY <2>2, <2>3
  <2>5. link' = [link EXCEPT ![Peer(p)] = Tail(@), ![p] = <<pkt>>]
    BY <2>1 DEF pkt
  <2>6. link' \in [Peers -> Seq(Packets)]
    BY Zenon, <2>3, <2>4, <2>5
  <2> QED
    BY Zenon, <1>4, <2>6 DEF Reject, Inv, TypeOK, LcpInv
<1>5. CASE NetworkUp(p)
  <2>1. unsuccess' \in [Peers -> Nat]
    BY <1>5 DEF NetworkUp, Inv, TypeOK
  <2> QED
    BY <1>5, <2>1 DEF NetworkUp, Inv, TypeOK, LcpInv
<1> QED
  BY <1>1, <1>2, <1>3, <1>4, <1>5

\* An event of the inner loop that leaves a good state.
LEMMA EventInv ==
  ASSUME Inv, NEW p \in Peers, main[p] = "loop", NEW s, Good(s),
         NEW l \in [Peers -> Seq(Packets)],
         lcp' = [lcp EXCEPT ![p] = [s EXCEPT !.out = <<>>]],
         link' = Sent(l, p, s), UNCHANGED <<main, unsuccess>>,
         got' \in [Peers -> SUBSET {"SIGHUP", "SIGTERM"}],
         asked_to_quit' \in [Peers -> BOOLEAN]
  PROVE  Inv'
<1>1. /\ lcp' \in [Peers -> LcpState] /\ link' \in [Peers -> Seq(Packets)]
      /\ \A r \in Peers : Good(lcp'[r])
      /\ \A r \in Peers : r # p => lcp'[r] = lcp[r]
  BY Zenon, StepInv
<1> QED
  BY Zenon, <1>1 DEF Inv, TypeOK, LcpInv

\* Callouts are pending only in the inner loop.
LEMMA CalloutInv ==
  ASSUME Inv, NEW p \in Peers, Callout(p)
  PROVE  Inv'
<1>1. /\ link \in [Peers -> Seq(Packets)]
      /\ got \in [Peers -> SUBSET {"SIGHUP", "SIGTERM"}]
      /\ asked_to_quit \in [Peers -> BOOLEAN]
      /\ Good(lcp[p])
      /\ main[p] # "loop" => lcp[p].state = "INITIAL" /\ lcp[p].phase = "DEAD"
  BY DEF Inv, TypeOK, LcpInv
<1>2. CASE FsmTimeout(p)
  <2>1. lcp[p].fsm_timeouts > 0 /\ Event(p, fsm_timeout(Fired(lcp[p])))
    BY <1>2 DEF FsmTimeout
  <2>2. main[p] = "loop"
    BY <1>1, <2>1 DEF Good, Idle, Opened, OneCallout, Timed
  <2>3. Good(fsm_timeout(Fired(lcp[p])))
    BY <1>1, <2>1, FsmTimeoutGood
  <2> QED
    BY Zenon, <1>1, <2>1, <2>2, <2>3, EventInv DEF Event, Step
<1>3. CASE EchoTimeout(p)
  <2>1. lcp[p].echo_timeouts > 0 /\ Event(p, LcpEchoTimeout(lcp[p]))
    BY <1>3 DEF EchoTimeout
  <2>2. main[p] = "loop"
    BY SMTT(30), <1>1, <2>1 DEF Good, Idle, Opened
  <2>3. Good(LcpEchoTimeout(lcp[p]))
    BY <1>1, <2>1, EchoTimeoutGood
  <2> QED
    BY Zenon, <1>1, <2>1, <2>2, <2>3, EventInv DEF Event, Step
<1>4. CASE DelayedUp(p)
  <2>1. lcp[p].up_timeouts > 0 /\ Event(p, lcp_delayed_up(lcp[p]))
    BY <1>4 DEF DelayedUp
  <2>2. main[p] = "loop"
    BY SMTT(30), <1>1, <2>1 DEF Good, Idle, Opened
  <2>3. Good(lcp_delayed_up(lcp[p]))
    BY <1>1, <2>1, DelayedUpGood
  <2> QED
    BY Zenon, <1>1, <2>1, <2>2, <2>3, EventInv DEF Event, Step
<1> QED
  BY <1>2, <1>3, <1>4 DEF Callout

\* Packets, the hangup of the modem, signals and the upper protocols.
LEMMA LoopInv ==
  ASSUME Inv, NEW p \in Peers,
         GetInput(p) \/ Hangup(p) \/ HandleSignals(p) \/ UpperClose(p)
  PROVE  Inv'
<1>1. /\ link \in [Peers -> Seq(Packets)]
      /\ got \in [Peers -> SUBSET {"SIGHUP", "SIGTERM"}]
      /\ asked_to_quit \in [Peers -> BOOLEAN]
      /\ Good(lcp[p])
  BY DEF Inv, TypeOK, LcpInv
<1>2. Good(lcp_close(lcp[p]))
  BY <1>1, Close DEF Good
<1>3. CASE GetInput(p)
  <2>1. link[p] \in Seq(Packets) /\ link[p] # <<>>
    BY <1>1, <1>3 DEF GetInput
  <2>2. Head(link[p]) \in Packets /\ Tail(link[p]) \in Seq(Packets)
    BY <2>1
  <2> DEFINE l == [link EXCEPT ![p] = Tail(@)]
             S(code, ret, refuse) == lcp_input(lcp[p], Head(link[p]), code, ret, refuse)
  <2>3. PICK code \in Answers, ret \in {0, 1}, refuse \in BOOLEAN :
          /\ lcp' = [lcp EXCEPT ![p] = [S(code, ret, refuse) EXCEPT !.out = <<>>]]
          /\ link' = Sent(l, p, S(code, ret, refuse))
    BY Zenon, <1>3 DEF GetInput
  <2>4. code \in {"CONFACK", "CONFNAK", "CONFREJ"} /\ ret \in Int
    BY AnswersAssumption
  <2>5. Good(S(code, ret, refuse))
    BY <1>1, <2>2, <2>4, InputGood
  <2>6. l \in [Peers -> Seq(Packets)]
    BY <1>1, <2>2
  <2>7. main[p] = "loop" /\ UNCHANGED <<main, got, asked_to_quit, unsuccess>>
    BY <1>3 DEF GetInput
  <2> HIDE DEF S, l
  <2> QED
    BY Zenon, <1>1, <2>3, <2>5, <2>6, <2>7, EventInv
<1>4. CASE Hangup(p)
  <2>1. /\ main[p] = "loop" /\ lcp[p].phase # "DEAD"
        /\ Event(p, link_terminated(lcp_lowerdown([lcp[p] EXCEPT !.hungup = TRUE])))
    BY <1>4 DEF Hangup
  <2>2. Good(link_terminated(lcp_lowerdown([lcp[p] EXCEPT !.hungup = TRUE])))
    BY <1>1, <2>1, HangupGood
  <2> QED
    BY Zenon, <1>1, <2>1, <2>2, EventInv DEF Event, Step
<1>5. CASE HandleSignals(p)
  <2>1. /\ got' \in [Peers -> SUBSET {"SIGHUP", "SIGTERM"}]
        /\ asked_to_quit' \in [Peers -> BOOLEAN]
    BY <1>1, <1>5 DEF HandleSignals
  <2>2. main[p] = "loop" /\ Step(p, lcp_close(lcp[p])) /\ UNCHANGED <<main, unsuccess>>
    BY <1>5 DEF HandleSignals
  <2> QED
    BY Zenon, <1>1, <1>2, <2>1, <2>2, EventInv DEF Step
<1>6. CASE UpperClose(p)
  <2>1. main[p] = "loop" /\ Event(p, lcp_close(lcp[p]))
    BY <1>6 DEF UpperClose
  <2> QED
    BY Zenon, <1>1, <1>2, <2>1, EventInv DEF Event, Step
<1> QED
  BY <1>3, <1>4, <1>5, <1>6

\* Both ends start in a good state.
LEMMA InitInv == Init => Inv
<1> SUFFICES ASSUME Init PROVE Inv
  OBVIOUS
<1>1. ASSUME NEW p \in Peers
      PROVE  /\ Good(lcp_init(Options[p])) /\ lcp_init(Options[p]) \in LcpState
             /\ lcp_init(Options[p]).state = "INITIAL"
             /\ lcp_init(Options[p]).phase = "DEAD"
  <2> DEFINE o == Options[p]
             s == lcp_init(o)
  <2>1. o \in [passive : BOOLEAN, silent : BOOLEAN, listen_time : BOOLEAN,
               echo_interval : BOOLEAN, echo_fails : Nat, wantoptions : Nat,
               persist : BOOLEAN, maxfail : Nat]
    BY OptionsAssumption
  <2> HIDE DEF o
  <2>2. /\ "INITIAL" \in States /\ 0 \in Ids /\ "DEAD" \in Phases
        /\ <<>> \in Seq(Packets) /\ -1 \in Ids \cup {-1}
    BY IdModAssumption DEF States, Ids, Phases
  <2>5. /\ o.passive \in BOOLEAN /\ o.silent \in BOOLEAN
        /\ o.listen_time \in BOOLEAN /\ o.echo_interval \in BOOLEAN
        /\ o.echo_fails \in Nat /\ o.wantoptions \in Nat
    BY <2>1
  <2>3. s \in LcpState
    BY SMTT(90), <2>2, <2>5 DEF lcp_init, LcpState
  <2>4. Idle(s)
    BY <2>3 DEF lcp_init, Idle, OneCallout, Timed
  <2> QED
    BY <2>3, <2>4 DEF lcp_init, Good, o
<1>2. lcp \in [Peers -> LcpState]
  BY <1>1 DEF Init
<1>3. LcpInv
  BY <1>1 DEF Init, LcpInv
<1>4. /\ main \in [Peers -> {"connect", "loop", "holdoff", "exit"}]
      /\ link \in [Peers -> Seq(Packets)]
      /\ got \in [Peers -> SUBSET {"SIGHUP", "SIGTERM"}]
      /\ asked_to_quit \in [Peers -> BOOLEAN]
      /\ unsuccess \in [Peers -> Nat]
  BY DEF Init
<1> QED
  BY <1>2, <1>3, <1>4 DEF Inv, TypeOK

\* Inv is inductive.
LEMMA NextInv == Inv /\ [Next]_vars => Inv'
<1> SUFFICES ASSUME Inv, [Next]_vars PROVE Inv'
  OBVIOUS
<1>1. CASE UNCHANGED vars
  BY <1>1 DEF vars, Inv, TypeOK, LcpInv
<1>2. CASE Next
  <2>1. PICK p \in Peers :
          \/ MainLoop(p) \/ Callout(p)
          \/ GetInput(p) \/ Hangup(p) \/ NetworkUp(p) \/ UpperClose(p)
          \/ Signal(p) \/ Lose(p) \/ Reject(p)
    BY <1>2 DEF Next
  <2> QED
    BY <2>1, ConnectInv, LeaveInv, OutsideInv, CalloutInv, LoopInv DEF MainLoop
<1> QED
  BY <1>1, <1>2

----------------------------------------------------------------------------
(* The properties.                                                         *)

\* Inv implies the properties of PppLink.
LEMMA InvProperties ==
  Inv => TypeOK /\ OneTimer /\ UpperLayerTold /\ EchoTimerMatches /\ FsmRestored
<1> SUFFICES ASSUME Inv
             PROVE  OneTimer /\ UpperLayerTold /\ EchoTimerMatches /\ FsmRestored
  BY DEF Inv
<1>1. OneTimer
  BY DEF Inv, LcpInv, Good, Idle, Opened, OneCallout, OneTimer, Timed
<1>2. UpperLayerTold
  BY DEF Inv, LcpInv, Good, Idle, Opened, UpperLayerTold
<1>3. EchoTimerMatches
  BY DEF Inv, LcpInv, Good, Idle, Opened, EchoTimerMatches
<1>4. FsmRestored
  BY DEF Inv, LcpInv, Good, Idle, Opened, OneCallout, Timed, FsmRestored
<1> QED
  BY <1>1, <1>2, <1>3, <1>4

\* The variables have their types: ids stay in a u_char and counters of
\* callouts and of retransmissions never go below zero.
THEOREM PppTypes == Spec => []TypeOK
  BY InitInv, NextInv, InvProperties, PTL DEF Spec

\* There is one retransmission callout in the states that wait for an answer
\* and none in the others, for all options, faults and orders of events.
THEOREM TimersCorrect == Spec => []OneTimer
  BY InitInv, NextInv, InvProperties, PTL DEF Spec

\* Up and down callbacks alternate: the upper protocols know that the link is
\* up exactly while LCP is OPENED.
THEOREM CallbacksCorrect == Spec => []UpperLayerTold
  BY InitInv, NextInv, InvProperties, PTL DEF Spec

\* The echo callout exists exactly while LCP is OPENED and sends requests.
THEOREM EchoCorrect == Spec => []EchoTimerMatches
  BY InitInv, NextInv, InvProperties, PTL DEF Spec

\* Nothing of a connection is left once main() is out of its inner loop.
THEOREM RestoreCorrect == Spec => []FsmRestored
  BY InitInv, NextInv, InvProperties, PTL DEF Spec

----------------------------------------------------------------------------
(* Ids.  What the functions do to the ids and to the packets that carry    *)
(* them does not depend on the types of the other members.                 *)

Members == {"state", "id", "reqid", "seen_ack", "retransmits", "wantoptions", "options",
            "delayed_up", "passive", "silent", "listen_time", "echo_interval", "echo_fails",
            "fsm_timeouts", "echo_timeouts", "up_timeouts", "echo_timer_running",
            "echos_pending", "upper", "phase", "hungup", "out", "acked"}

IsLcp(p) == p = [f \in Members |-> p[f]]

\* The states in which the peer has acknowledged the last request.
Agreed == {"ACKRCVD", "OPENED"}

IsSequence(o) == \E S : o \in Seq(S)

\* The requests in o have id i, and the acknowledgements have id a.
Says(o, i, a) ==
  /\ IsSequence(o)
  /\ \A n \in 1..Len(o) : /\ o[n].code = "CONFREQ" => o[n].id = i
                          /\ o[n].code = "CONFACK" => o[n].id = a

\* r goes on with the request of p and sends none, nor an acknowledgement.
Keeps(p, r) ==
  /\ IsLcp(r)
  /\ r.id = p.id /\ r.reqid = p.reqid /\ r.acked = p.acked
  /\ r.echo_fails = p.echo_fails
  /\ r.state \in Agreed => p.state \in Agreed
  /\ \A i, a : Says(p.out, i, a) => Says(r.out, i, a)

\* r goes on with the request of p, which it may have sent again.
Repeats(p, r) ==
  /\ IsLcp(r)
  /\ r.id = p.id /\ r.reqid = p.reqid /\ r.acked = p.acked
  /\ r.echo_fails = p.echo_fails
  /\ r.state \in Agreed => p.state \in Agreed
  /\ \A a : Says(p.out, p.reqid, a) => Says(r.out, p.reqid, a)

\* r has taken the next id for a request.
Takes(p, r) ==
  /\ IsLcp(r)
  /\ r.id = NextId(p) /\ r.reqid = NextId(p) /\ r.acked = p.acked
  /\ r.echo_fails = p.echo_fails
  /\ \A a : Says(p.out, NextId(p), a) => Says(r.out, NextId(p), a)

Renews(p, r) == Takes(p, r) /\ r.state \notin Agreed

Moves(p, r) == Repeats(p, r) \/ Renews(p, r)

\* A state of LCP has the members of LcpState and no others.
LEMMA LcpMembers ==
  ASSUME NEW p \in LcpState
  PROVE  IsLcp(p)
  BY DEF LcpState, IsLcp, Members

\* Keeping the request goes through a sequence of assignments and calls.
LEMMA KeepsTrans ==
  ASSUME NEW p, NEW q, NEW r, Keeps(p, q), Keeps(q, r)
  PROVE  Keeps(p, r)
  BY DEF Keeps

\* What keeps the request may come before anything.
LEMMA KeepsMoves ==
  ASSUME NEW p, NEW q, Keeps(p, q)
  PROVE  /\ IsLcp(q) /\ Repeats(p, q) /\ Moves(p, q)
         /\ \A r : Renews(q, r) => Renews(p, r)
         /\ \A r : Repeats(q, r) => Repeats(p, r)
         /\ \A r : Takes(q, r) => Takes(p, r)
         /\ \A r : Moves(q, r) => Moves(p, r)
  BY DEF Keeps, Repeats, Renews, Takes, Moves, NextId

\* What keeps the request may come after anything.
LEMMA MovesKeeps ==
  ASSUME NEW p, NEW q, NEW r, Keeps(q, r)
  PROVE  /\ Renews(p, q) => Renews(p, r)
         /\ Repeats(p, q) => Repeats(p, r)
         /\ Takes(p, q) => Takes(p, r)
         /\ Moves(p, q) => Moves(p, r)
  BY DEF Keeps, Repeats, Renews, Takes, Moves

Others == Members \ {"state", "id", "reqid", "out", "acked", "echo_fails"}

\* An assignment to one member leaves the others alone.
LEMMA SetMember ==
  ASSUME NEW p, IsLcp(p), NEW f \in Members, NEW v
  PROVE  LET q == [p EXCEPT ![f] = v]
         IN IsLcp(q) /\ q[f] = v /\ \A g \in Members : g # f => q[g] = p[g]
  BY DEF IsLcp

\* Assignments to members that say nothing of ids or packets keep the request.
LEMMA SetOther ==
  ASSUME NEW p, IsLcp(p), NEW f \in Others, NEW v
  PROVE  LET q == [p EXCEPT ![f] = v] IN Keeps(p, q) /\ q.state = p.state
<1> DEFINE q == [p EXCEPT ![f] = v]
           Ids0 == {"state", "id", "reqid", "out", "acked", "echo_fails"}
<1>1. f \in Members /\ f \notin Ids0 /\ Ids0 \subseteq Members
  BY DEF Others, Members
<1>2. IsLcp(q) /\ \A g \in Members : g # f => q[g] = p[g]
  BY <1>1, SetMember
<1> HIDE DEF q
<1> QED
  BY <1>1, <1>2 DEF Keeps, q

\* An assignment of a state that is not Agreed keeps the request.
LEMMA SetOtherState ==
  ASSUME NEW p, IsLcp(p), NEW s
  PROVE  LET q == [p EXCEPT !.state = s]
         IN /\ IsLcp(q) /\ q.state = s /\ q.out = p.out
            /\ s \notin Agreed \/ p.state \in Agreed => Keeps(p, q)
  BY DEF IsLcp, Members, Keeps

\* A packet that has the ids asked for may be sent after the others.
LEMMA SaysAppend ==
  ASSUME NEW o, NEW e, NEW i, NEW a, Says(o, i, a),
         e.code = "CONFREQ" => e.id = i, e.code = "CONFACK" => e.id = a
  PROVE  Says(Append(o, e), i, a)
<1>1. PICK S : o \in Seq(S)
  BY DEF Says, IsSequence
<1>2. o \in Seq(S \cup {e}) /\ e \in S \cup {e}
  BY <1>1
<1> DEFINE x == Append(o, e)
<1>3. /\ x \in Seq(S \cup {e}) /\ Len(x) = Len(o) + 1 /\ x[Len(o) + 1] = e
      /\ \A n \in 1..Len(o) : x[n] = o[n]
  BY <1>2
<1> HIDE DEF x
<1> QED
  BY <1>3 DEF Says, IsSequence, x

\* SendPacket sends one packet and does nothing else.
LEMMA SendIds ==
  ASSUME NEW p, IsLcp(p), NEW code, NEW id, NEW n
  PROVE  LET q == SendPacket(p, code, id, n)
         IN /\ IsLcp(q) /\ q.state = p.state /\ q.id = p.id /\ q.reqid = p.reqid
            /\ q.acked = p.acked /\ q.echo_fails = p.echo_fails
            /\ \A i, a : Says(p.out, i, a) /\ (code = "CONFREQ" => id = i)
                         /\ (code = "CONFACK" => id = a)
                         => Says(q.out, i, a)
<1> DEFINE e == [code |-> code, id |-> id, options |-> n]
           q == [p EXCEPT !.out = Append(@, e)]
<1>1. /\ IsLcp(q) /\ q.state = p.state /\ q.id = p.id /\ q.reqid = p.reqid
      /\ q.acked = p.acked /\ q.echo_fails = p.echo_fails /\ q.out = Append(p.out, e)
  BY Zenon DEF IsLcp, Members
<1>2. e.code = code /\ e.id = id
  OBVIOUS
<1>3. SendPacket(p, code, id, n) = q
  BY DEF SendPacket
<1> HIDE DEF q, e
<1>4. ASSUME NEW i, NEW a, Says(p.out, i, a), code = "CONFREQ" => id = i, code = "CONFACK" => id = a
      PROVE  Says(q.out, i, a)
  BY <1>1, <1>2, <1>4, SaysAppend
<1> QED
  BY Zenon, <1>1, <1>3, <1>4

\* fsm_sdata with a code that is neither a request nor an acknowledgement.
LEMMA SdataIds ==
  ASSUME NEW p, IsLcp(p), NEW code, NEW id, code \notin {"CONFREQ", "CONFACK"}
  PROVE  Keeps(p, fsm_sdata(p, code, id)) /\ fsm_sdata(p, code, id).state = p.state
<1>1. fsm_sdata(p, code, id) = SendPacket(p, code, id, 0)
  BY DEF fsm_sdata
<1> QED
  BY <1>1, SendIds DEF Keeps

\* timeout, untimeout and calltimeout keep the request.
LEMMA CalloutIds ==
  ASSUME NEW p, IsLcp(p)
  PROVE  /\ Keeps(p, TIMEOUT_fsm(p)) /\ TIMEOUT_fsm(p).state = p.state
         /\ Keeps(p, UNTIMEOUT_fsm(p)) /\ UNTIMEOUT_fsm(p).state = p.state
         /\ Keeps(p, Fired(p)) /\ Fired(p).state = p.state
  BY SetOther DEF TIMEOUT_fsm, UNTIMEOUT_fsm, Fired, Others, Members

\* The down callback keeps the request.
LEMMA DownIds ==
  ASSUME NEW p, IsLcp(p)
  PROVE  Keeps(p, lcp_down(p)) /\ lcp_down(p).state = p.state
<1> DEFINE e == lcp_echo_lowerdown(p)
<1>1. Keeps(p, e) /\ e.state = p.state
  BY Zenon DEF Keeps, IsLcp, Members, lcp_echo_lowerdown
<1>2. IsLcp(e)
  BY <1>1 DEF Keeps
<1> HIDE DEF e
<1>3. Keeps(e, link_down(e)) /\ link_down(e).state = e.state
  BY Zenon, <1>2 DEF Keeps, IsLcp, Members, link_down
<1> QED
  BY <1>1, <1>3, KeepsTrans DEF lcp_down, e

\* fsm_lowerdown keeps the request and gives up the agreement.
LEMMA LowerdownIds ==
  ASSUME NEW p, IsLcp(p)
  PROVE  Keeps(p, fsm_lowerdown(p))
<1>1. Keeps(p, p)
  BY DEF Keeps
<1>2. CASE p.state \in {"CLOSED", "STOPPED"}
  BY <1>2, SetOtherState DEF fsm_lowerdown, Agreed
<1>3. CASE p.state \in {"CLOSING", "STOPPING", "REQSENT", "ACKRCVD", "ACKSENT"}
  <2>1. Keeps(p, UNTIMEOUT_fsm(p)) /\ IsLcp(UNTIMEOUT_fsm(p))
    BY CalloutIds DEF Keeps
  <2>2. \E s \in {"INITIAL", "STARTING"} : fsm_lowerdown(p) = [UNTIMEOUT_fsm(p) EXCEPT !.state = s]
    BY <1>3 DEF fsm_lowerdown
  <2> QED
    BY <2>1, <2>2, SetOtherState, KeepsTrans DEF Agreed
<1>4. CASE p.state = "OPENED"
  <2>1. Keeps(p, lcp_down(p)) /\ IsLcp(lcp_down(p))
    BY DownIds DEF Keeps
  <2>2. fsm_lowerdown(p) = [lcp_down(p) EXCEPT !.state = "STARTING"]
    BY <1>4 DEF fsm_lowerdown
  <2> QED
    BY <2>1, <2>2, SetOtherState, KeepsTrans DEF Agreed
<1> QED
  BY <1>1, <1>2, <1>3, <1>4 DEF fsm_lowerdown

\* The same for lcp_lowerdown, which may only cancel a delayed lcp_lowerup.
LEMMA LcpLowerdownIds ==
  ASSUME NEW p, IsLcp(p)
  PROVE  Keeps(p, lcp_lowerdown(p))
<1>1. Keeps(p, [p EXCEPT !.delayed_up = FALSE, !.up_timeouts = Less(@)])
  BY Zenon DEF Keeps, IsLcp, Members
<1> QED
  BY <1>1, LowerdownIds DEF lcp_lowerdown

\* The finished callback keeps the request.
LEMMA FinishedIds ==
  ASSUME NEW p, IsLcp(p)
  PROVE  Keeps(p, link_terminated(p)) /\ Keeps(p, lcp_finished(p))
<1> DEFINE q == [p EXCEPT !.phase = "DISCONNECT"]
           w == IF p.hungup THEN q ELSE lcp_lowerdown(q)
<1>1. Keeps(p, p)
  BY DEF Keeps
<1>2. Keeps(p, q) /\ IsLcp(q)
  BY SetOther DEF Keeps, Others, Members
<1> HIDE DEF q
<1>3. Keeps(p, w) /\ IsLcp(w)
  BY <1>2, LcpLowerdownIds, KeepsTrans DEF Keeps
<1>4. link_terminated(p) = IF p.phase = "DEAD" THEN p ELSE [w EXCEPT !.phase = "DEAD"]
  BY DEF link_terminated, w, q
<1> HIDE DEF w
<1>5. Keeps(w, [w EXCEPT !.phase = "DEAD"])
  BY <1>3, SetOther DEF Others, Members
<1> QED
  BY <1>1, <1>3, <1>4, <1>5, KeepsTrans DEF lcp_finished

\* fsm_sconfreq repeats the request or takes the next id for a new one.
LEMMA SconfreqIds ==
  ASSUME NEW p, IsLcp(p)
  PROVE  /\ Repeats(p, fsm_sconfreq(p, TRUE)) /\ fsm_sconfreq(p, TRUE).state = p.state
         /\ Takes(p, fsm_sconfreq(p, FALSE)) /\ fsm_sconfreq(p, FALSE).state = p.state
<1> DEFINE c == IF p.state \in {"REQSENT", "ACKRCVD", "ACKSENT"}
                THEN p ELSE [p EXCEPT !.options = p.wantoptions]
           n == [c EXCEPT !.retransmits = maxconfreqtransmits,
                          !.id = NextId(p),
                          !.reqid = NextId(p)]
           Sent1(q) == SendPacket([q EXCEPT !.seen_ack = FALSE], "CONFREQ", q.reqid, q.options)
           Done(q) == TIMEOUT_fsm([Sent1(q) EXCEPT !.retransmits = @ - 1])
<1>1. Keeps(p, c) /\ c.state = p.state /\ IsLcp(c)
  BY SetOther DEF Keeps, Others, Members
<1>2. fsm_sconfreq(p, TRUE) = Done(c) /\ fsm_sconfreq(p, FALSE) = Done(n)
  BY DEF fsm_sconfreq
<1> HIDE DEF c
<1>3. Takes(c, n) /\ n.state = c.state /\ IsLcp(n)
  BY Zenon, <1>1 DEF Takes, IsLcp, Members, NextId, Keeps
<1> HIDE DEF n
<1>4. ASSUME NEW q, IsLcp(q)
      PROVE  Repeats(q, Done(q)) /\ Done(q).state = q.state
  <2> DEFINE a == [q EXCEPT !.seen_ack = FALSE]
             s == Sent1(q)
             t == [s EXCEPT !.retransmits = @ - 1]
  <2>1. Keeps(q, a) /\ a.state = q.state /\ IsLcp(a)
    BY <1>4, SetOther DEF Keeps, Others, Members
  <2>6. s = SendPacket(a, "CONFREQ", a.reqid, q.options)
    BY <2>1 DEF Keeps
  <2> HIDE DEF a, s
  <2>2. Repeats(a, s) /\ s.state = a.state /\ IsLcp(s)
    BY <2>1, <2>6, SendIds DEF Repeats
  <2>3. Keeps(s, t) /\ t.state = s.state /\ IsLcp(t)
    BY <2>2, SetOther DEF Keeps, Others, Members
  <2>4. Done(q) = TIMEOUT_fsm(t)
    BY DEF s
  <2> HIDE DEF t, Done
  <2>5. Keeps(t, Done(q)) /\ Done(q).state = t.state
    BY <2>3, <2>4, CalloutIds
  <2> QED
    BY <2>1, <2>2, <2>3, <2>5, KeepsMoves, MovesKeeps, KeepsTrans
<1> HIDE DEF Done
<1>5. Repeats(p, Done(c)) /\ Done(c).state = p.state
  BY <1>1, <1>4, KeepsMoves
<1>6. Takes(p, Done(n)) /\ Done(n).state = p.state
  <2>1. Takes(p, n) /\ Repeats(n, Done(n)) /\ Done(n).state = p.state
    BY <1>1, <1>3, <1>4, KeepsMoves
  <2> QED
    BY <2>1 DEF Takes, Repeats
<1> QED
  BY Zenon, <1>2, <1>5, <1>6

\* The same, followed by the assignment of the state.
LEMMA RequestIds ==
  ASSUME NEW p, IsLcp(p), NEW s, s \notin Agreed
  PROVE  Renews(p, [fsm_sconfreq(p, FALSE) EXCEPT !.state = s])
<1> DEFINE c == fsm_sconfreq(p, FALSE)
<1>1. Takes(p, c) /\ IsLcp(c)
  BY Zenon, SconfreqIds DEF Takes
<1> HIDE DEF c
<1>2. Keeps(c, [c EXCEPT !.state = s]) /\ [c EXCEPT !.state = s].state = s
  BY <1>1, SetOtherState
<1> QED
  BY Zenon, <1>1, <1>2, MovesKeeps DEF Renews, c

\* terminate_layer takes an id for its request.
LEMMA TerminateIds ==
  ASSUME NEW p, IsLcp(p), NEW nextstate \in {"CLOSING", "STOPPING"}
  PROVE  Renews(p, terminate_layer(p, nextstate))
<1> DEFINE d == IF p.state # "OPENED" THEN UNTIMEOUT_fsm(p) ELSE lcp_down(p)
           r == [d EXCEPT !.retransmits = maxtermtransmits,
                          !.id = NextId(d),
                          !.reqid = NextId(d)]
           s == fsm_sdata(r, "TERMREQ", r.reqid)
           e == IF nextstate = "CLOSING" THEN "CLOSED" ELSE "STOPPED"
           x == [s EXCEPT !.state = e]
           t == TIMEOUT_fsm(s)
           u == [t EXCEPT !.retransmits = @ - 1]
           y == [u EXCEPT !.state = nextstate]
<1>1. Keeps(p, d) /\ IsLcp(d)
  BY CalloutIds, DownIds DEF Keeps
<1> HIDE DEF d
<1>2. Takes(d, r) /\ IsLcp(r)
  BY Zenon, <1>1 DEF Takes, IsLcp, Members, NextId
<1> HIDE DEF r
<1>3. Keeps(r, s) /\ IsLcp(s)
  BY <1>2, SdataIds DEF Keeps
<1> HIDE DEF s
<1>4. Takes(p, s)
  BY <1>1, <1>2, <1>3, KeepsMoves, MovesKeeps
<1>5. Keeps(s, x) /\ x.state \notin Agreed /\ IsLcp(x)
  BY <1>3, SetOtherState DEF Agreed
<1> HIDE DEF x
<1>6. Renews(p, lcp_finished(x))
  <2>1. Renews(p, x)
    BY <1>4, <1>5, MovesKeeps DEF Renews
  <2> QED
    BY <1>5, <2>1, FinishedIds, MovesKeeps
<1>7. Keeps(s, t) /\ IsLcp(t)
  BY Zenon, <1>3, CalloutIds DEF Keeps
<1> HIDE DEF t
<1>8. Keeps(t, u) /\ IsLcp(u)
  BY <1>7, SetOther DEF Keeps, Others, Members
<1>9. [t EXCEPT !.retransmits = @ - 1, !.state = nextstate] = y
  BY <1>7 DEF IsLcp, Members
<1>10. terminate_layer(p, nextstate) = IF s.retransmits = 0 THEN lcp_finished(x) ELSE y
  BY <1>9 DEF terminate_layer, d, r, s, x, t
<1> HIDE DEF u
<1>11. Keeps(u, y) /\ y.state \notin Agreed
  BY <1>8, SetOtherState DEF Agreed
<1> HIDE DEF y
<1>12. Renews(p, y)
  BY <1>4, <1>7, <1>8, <1>11, MovesKeeps, KeepsTrans DEF Renews
<1> QED
  BY <1>6, <1>10, <1>12

\* fsm_close takes an id at most once, for its Terminate-Request.
LEMMA CloseIds ==
  ASSUME NEW p, IsLcp(p)
  PROVE  Moves(p, fsm_close(p)) /\ IsLcp(fsm_close(p))
<1>1. Moves(p, p)
  BY DEF Moves, Repeats
<1>2. CASE p.state \in {"STARTING", "STOPPED", "STOPPING"}
  <2>1. \E s \in {"INITIAL", "CLOSED", "CLOSING"} : fsm_close(p) = [p EXCEPT !.state = s]
    BY <1>2 DEF fsm_close
  <2> QED
    BY <2>1, SetOtherState, KeepsMoves DEF Agreed
<1>3. CASE p.state \in {"REQSENT", "ACKRCVD", "ACKSENT", "OPENED"}
  BY <1>3, TerminateIds DEF fsm_close, Moves, Renews, Takes
<1> QED
  BY <1>1, <1>2, <1>3 DEF fsm_close

\* The same for lcp_close.
LEMMA LcpCloseIds ==
  ASSUME NEW p, IsLcp(p)
  PROVE  Moves(p, lcp_close(p)) /\ IsLcp(lcp_close(p))
<1> DEFINE t == [p EXCEPT !.phase = IF @ = "DEAD" THEN @ ELSE "TERMINATE"]
           w == [t EXCEPT !.up_timeouts = Less(@)]
           o == IF t.delayed_up THEN [t EXCEPT !.up_timeouts = Less(@), !.state = "STOPPED"] ELSE t
           c == fsm_close(o)
           v == [c EXCEPT !.delayed_up = FALSE]
<1>1. Keeps(p, t) /\ IsLcp(t)
  BY SetOther DEF Keeps, Others, Members
<1>2. lcp_close(p) = IF NothingToTerminate(o) THEN lcp_finished(v) ELSE c
  BY DEF lcp_close
<1> HIDE DEF t
<1>3. Keeps(t, o) /\ IsLcp(o)
  BY Zenon, <1>1 DEF Keeps, IsLcp, Members, Agreed
<1> HIDE DEF o
<1>4. Moves(p, c) /\ IsLcp(c)
  BY <1>1, <1>3, CloseIds, KeepsMoves
<1> HIDE DEF c
<1>5. Keeps(c, v) /\ IsLcp(v)
  BY <1>4, SetOther DEF Keeps, Others, Members
<1> HIDE DEF v
<1>6. Keeps(c, lcp_finished(v)) /\ IsLcp(lcp_finished(v))
  BY <1>5, FinishedIds, KeepsTrans DEF Keeps
<1> QED
  BY <1>2, <1>4, <1>6, MovesKeeps

----------------------------------------------------------------------------
(* Ids: echo requests, the up callback, opening and the callouts.          *)

\* A failed link is closed, which takes an id at most.
LEMMA EchoRequestIds ==
  ASSUME NEW p, IsLcp(p)
  PROVE  /\ Moves(p, LcpSendEchoRequest(p)) /\ IsLcp(LcpSendEchoRequest(p))
         /\ p.echo_fails \in Nat /\ p.echos_pending = 0 =>
              Keeps(p, LcpSendEchoRequest(p)) /\ LcpSendEchoRequest(p).state = p.state
<1> DEFINE f == LcpLinkFailure(p)
           g == [f EXCEPT !.echos_pending = 0]
           b == p.echo_fails # 0 /\ p.echos_pending >= p.echo_fails
           q == IF b THEN g ELSE p
           s == fsm_sdata(q, "ECHOREQ", 0)
           t == [s EXCEPT !.echos_pending = @ + 1]
<1>1. Moves(p, f) /\ IsLcp(f)
  <2>1. Moves(p, p)
    BY DEF Moves, Repeats
  <2> QED
    BY <2>1, LcpCloseIds DEF LcpLinkFailure
<1> HIDE DEF f
<1>2. Keeps(f, g) /\ IsLcp(g)
  BY <1>1, SetOther DEF Keeps, Others, Members
<1>3. Keeps(p, p) /\ Moves(p, p)
  BY DEF Moves, Repeats, Keeps
<1>4. Moves(p, g)
  BY <1>1, <1>2, MovesKeeps
<1>5. LcpSendEchoRequest(p) = IF q.state = "OPENED" THEN t ELSE q
  BY DEF LcpSendEchoRequest, f
<1> HIDE DEF g
<1>6. p.echo_fails \in Nat /\ p.echos_pending = 0 => ~b
  OBVIOUS
<1>7. /\ Moves(p, q) /\ IsLcp(q)
      /\ p.echo_fails \in Nat /\ p.echos_pending = 0 => q = p
  BY <1>2, <1>3, <1>4, <1>6
<1> HIDE DEF q, b
<1>8. Keeps(q, s) /\ s.state = q.state /\ IsLcp(s)
  BY <1>7, SdataIds DEF Keeps
<1> HIDE DEF s
<1>9. Keeps(s, t) /\ t.state = s.state /\ IsLcp(t)
  BY <1>8, SetOther DEF Keeps, Others, Members
<1> HIDE DEF t
<1>10. Keeps(q, t) /\ Moves(p, t)
  BY <1>7, <1>8, <1>9, KeepsTrans, MovesKeeps
<1> QED
  BY <1>3, <1>5, <1>7, <1>8, <1>9, <1>10

\* LcpEchoCheck takes an id only where LcpSendEchoRequest closes the link.
LEMMA EchoCheckIds ==
  ASSUME NEW p, IsLcp(p)
  PROVE  /\ Moves(p, LcpEchoCheck(p)) /\ IsLcp(LcpEchoCheck(p))
         /\ p.echo_fails \in Nat /\ p.echos_pending = 0 =>
              Keeps(p, LcpEchoCheck(p)) /\ LcpEchoCheck(p).state = p.state
<1> DEFINE q == LcpSendEchoRequest(p)
           t == [q EXCEPT !.echo_timeouts = @ + 1, !.echo_timer_running = TRUE]
<1>1. /\ Moves(p, q) /\ IsLcp(q)
      /\ p.echo_fails \in Nat /\ p.echos_pending = 0 => Keeps(p, q) /\ q.state = p.state
  BY EchoRequestIds
<1>2. LcpEchoCheck(p) = IF q.state # "OPENED" THEN q ELSE t
  BY DEF LcpEchoCheck
<1> HIDE DEF q
<1>3. Keeps(q, t) /\ t.state = q.state /\ IsLcp(t)
  BY Zenon, <1>1 DEF Keeps, IsLcp, Members
<1> HIDE DEF t
<1> QED
  BY <1>1, <1>2, <1>3, MovesKeeps, KeepsTrans

\* The same for the callout of LcpEchoTimeout.
LEMMA EchoTimeoutIds ==
  ASSUME NEW p, IsLcp(p)
  PROVE  Moves(p, LcpEchoTimeout(p))
<1> DEFINE q == [p EXCEPT !.echo_timeouts = @ - 1]
           s == [q EXCEPT !.echo_timer_running = FALSE]
<1>1. Keeps(p, q) /\ IsLcp(q)
  BY SetOther DEF Keeps, Others, Members
<1>2. LcpEchoTimeout(p) = IF q.echo_timer_running THEN LcpEchoCheck(s) ELSE q
  BY DEF LcpEchoTimeout
<1> HIDE DEF q
<1>3. Keeps(q, s) /\ IsLcp(s)
  BY <1>1, SetOther DEF Keeps, Others, Members
<1> HIDE DEF s
<1> QED
  BY <1>1, <1>2, <1>3, EchoCheckIds, KeepsMoves, KeepsTrans

\* The up callback, which closes the link again if the peer is refused.
LEMMA UpIds ==
  ASSUME NEW p, IsLcp(p), p.echo_fails \in Nat, NEW refuse \in BOOLEAN
  PROVE  Moves(p, lcp_up(p, refuse))
<1> DEFINE q == [p EXCEPT !.echos_pending = 0, !.echo_timer_running = FALSE]
           e == lcp_echo_lowerup(p)
           u == [e EXCEPT !.upper = @ + 1]
           a == [u EXCEPT !.phase = "AUTHENTICATE"]
<1>1. Keeps(p, q) /\ IsLcp(q) /\ q.echo_fails \in Nat /\ q.echos_pending = 0
  BY Zenon DEF Keeps, IsLcp, Members
<1>2. e = IF q.echo_interval THEN LcpEchoCheck(q) ELSE q
  BY DEF lcp_echo_lowerup
<1>3. lcp_up(p, refuse) = IF refuse THEN lcp_close(u) ELSE a
  BY DEF lcp_up, link_established
<1> HIDE DEF q, e
<1>4. Keeps(p, e) /\ IsLcp(e)
  <2>1. Keeps(q, LcpEchoCheck(q)) /\ IsLcp(LcpEchoCheck(q))
    BY <1>1, EchoCheckIds
  <2>2. Keeps(p, LcpEchoCheck(q))
    BY <1>1, <2>1, KeepsTrans
  <2> QED
    BY <1>1, <1>2, <2>1, <2>2
<1>5. Keeps(e, u) /\ IsLcp(u)
  <2>1. Keeps(e, u)
    BY Zenon, <1>4, SetOther DEF Others, Members
  <2> HIDE DEF u
  <2> QED
    BY <2>1 DEF Keeps
<1> HIDE DEF u
<1>6. Keeps(u, a)
  BY <1>5, SetOther DEF Others, Members
<1> HIDE DEF a
<1> QED
  BY <1>3, <1>4, <1>5, <1>6, LcpCloseIds, KeepsMoves, KeepsTrans

\* fsm_lowerup takes an id only to send the first request.
LEMMA LowerupIds ==
  ASSUME NEW p, IsLcp(p)
  PROVE  \/ Keeps(p, fsm_lowerup(p))
         \/ Renews(p, fsm_lowerup(p)) /\ fsm_lowerup(p).state = "REQSENT"
<1>1. Keeps(p, p)
  BY DEF Keeps
<1>2. Keeps(p, [p EXCEPT !.state = "CLOSED"]) /\ Keeps(p, [p EXCEPT !.state = "STOPPED"])
  BY SetOtherState DEF Agreed
<1> DEFINE c == fsm_sconfreq(p, FALSE)
           r == [c EXCEPT !.state = "REQSENT"]
<1>3. Renews(p, r)
  BY Zenon, RequestIds DEF Agreed
<1>4. r.state = "REQSENT"
  <2>1. IsLcp(c)
    BY Zenon, SconfreqIds DEF Takes
  <2> HIDE DEF c
  <2> QED
    BY <2>1, SetOtherState
<1> QED
  BY <1>1, <1>2, <1>3, <1>4 DEF fsm_lowerup

\* lcp_open, then start_link that fails or comes to lcp_lowerup.
LEMMA ConnectIds ==
  ASSUME NEW p, IsLcp(p), p.state = "INITIAL", NEW config \in BOOLEAN
  PROVE  LET o == [lcp_open(p) EXCEPT !.hungup = FALSE]
         IN Moves(p, o) /\ Moves(p, lcp_lowerup([o EXCEPT !.phase = "ESTABLISH"], config))
<1> DEFINE s == [p EXCEPT !.state = "STARTING"]
           o == [s EXCEPT !.hungup = FALSE]
           e == [o EXCEPT !.phase = "ESTABLISH"]
           d == [e EXCEPT !.delayed_up = TRUE, !.up_timeouts = @ + 1]
<1>1. lcp_open(p) = s
  BY DEF lcp_open, fsm_open
<1>2. Keeps(p, s) /\ IsLcp(s)
  BY SetOtherState DEF Agreed
<1> HIDE DEF s
<1>3. Keeps(s, o) /\ IsLcp(o)
  BY <1>2, SetOther DEF Keeps, Others, Members
<1> HIDE DEF o
<1>4. Keeps(o, e) /\ IsLcp(e)
  BY <1>3, SetOther DEF Keeps, Others, Members
<1> HIDE DEF e
<1>5. Keeps(e, d)
  BY Zenon, <1>4 DEF Keeps, IsLcp, Members
<1>6. lcp_lowerup(e, config) \in {e, d, fsm_lowerup(e)}
  BY DEF lcp_lowerup
<1> HIDE DEF d
<1>7. Keeps(p, o) /\ Keeps(p, e)
  BY <1>2, <1>3, <1>4, KeepsTrans
<1>8. Moves(p, d) /\ Moves(p, e) /\ Moves(p, fsm_lowerup(e))
  BY <1>4, <1>5, <1>7, LowerupIds, KeepsMoves, KeepsTrans DEF Moves
<1> QED
  BY <1>1, <1>6, <1>7, <1>8, KeepsMoves DEF o, e

\* The callout of lcp_delayed_up.
LEMMA DelayedUpIds ==
  ASSUME NEW p, IsLcp(p)
  PROVE  Moves(p, lcp_delayed_up(p))
<1> DEFINE q == [p EXCEPT !.up_timeouts = @ - 1]
           u == [q EXCEPT !.delayed_up = FALSE]
<1>1. Keeps(p, q) /\ IsLcp(q)
  BY SMTT(30), SetOther DEF Keeps, Others, Members
<1>2. lcp_delayed_up(p) = IF q.delayed_up THEN fsm_lowerup(u) ELSE q
  BY DEF lcp_delayed_up
<1> HIDE DEF q
<1>3. Keeps(q, u) /\ IsLcp(u)
  BY <1>1, SetOther DEF Keeps, Others, Members
<1> HIDE DEF u
<1> QED
  BY <1>1, <1>2, <1>3, LowerupIds, KeepsMoves, KeepsTrans DEF Moves

\* The retransmission callout repeats the request, or takes the next id for
\* another Terminate-Request.
LEMMA TimeoutIds ==
  ASSUME NEW p, IsLcp(p), p.retransmits \in Int
  PROVE  Moves(p, fsm_timeout(p))
<1> DEFINE Set(s) == [p EXCEPT !.state = s]
           r == [p EXCEPT !.id = NextId(p), !.reqid = NextId(p)]
           d == fsm_sdata(r, "TERMREQ", r.reqid)
           t == TIMEOUT_fsm(d)
           u == [t EXCEPT !.retransmits = @ - 1]
           c == fsm_sconfreq(p, TRUE)
           v == [c EXCEPT !.state = IF @ = "ACKRCVD" THEN "REQSENT" ELSE @]
<1>1. Moves(p, p)
  BY DEF Moves, Repeats
<1>2. ASSUME NEW s \in {"CLOSED", "STOPPED"}
      PROVE  Moves(p, Set(s)) /\ Moves(p, lcp_finished(Set(s)))
  <2>1. Keeps(p, Set(s)) /\ IsLcp(Set(s))
    BY SetOtherState DEF Agreed
  <2> HIDE DEF Set
  <2> QED
    BY <2>1, FinishedIds, KeepsMoves, KeepsTrans
<1>3. p.state \in {"CLOSING", "STOPPING"} => Renews(p, u)
  <2>1. Takes(p, r) /\ IsLcp(r) /\ r.state = p.state
    BY Zenon DEF Takes, IsLcp, Members, NextId
  <2> HIDE DEF r
  <2>2. Keeps(r, d) /\ IsLcp(d) /\ d.state = r.state
    BY <2>1, SdataIds DEF Keeps
  <2> HIDE DEF d
  <2>3. Keeps(d, t) /\ IsLcp(t) /\ t.state = d.state
    BY <2>2, CalloutIds DEF Keeps
  <2> HIDE DEF t
  <2>4. Keeps(t, u) /\ u.state = t.state
    BY <2>3, SetOther DEF Others, Members
  <2> HIDE DEF u
  <2>5. Takes(p, u) /\ u.state = p.state
    BY <2>1, <2>2, <2>3, <2>4, MovesKeeps
  <2> QED
    BY <2>5 DEF Renews, Agreed
<1>4. p.state \in {"REQSENT", "ACKRCVD", "ACKSENT"} => Repeats(p, v)
  <2>1. Repeats(p, c) /\ IsLcp(c) /\ c.state = p.state
    BY Zenon, SconfreqIds DEF Repeats
  <2> HIDE DEF c
  <2>2. p.state \in {"REQSENT", "ACKRCVD", "ACKSENT"} => Keeps(c, v)
    BY <2>1, SetOtherState DEF Agreed
  <2> QED
    BY <2>1, <2>2, MovesKeeps
<1>5. \/ fsm_timeout(p) = p
      \/ \E s \in {"CLOSED", "STOPPED"} :
           fsm_timeout(p) = Set(s) \/ fsm_timeout(p) = lcp_finished(Set(s))
      \/ p.state \in {"CLOSING", "STOPPING"} /\ fsm_timeout(p) = u
      \/ p.state \in {"REQSENT", "ACKRCVD", "ACKSENT"} /\ fsm_timeout(p) = v
  <2>1. CASE p.state = "CLOSING"
    BY <2>1 DEF fsm_timeout
  <2>2. CASE p.state = "STOPPING"
    BY <2>2 DEF fsm_timeout
  <2>3. CASE p.state \in {"REQSENT", "ACKRCVD", "ACKSENT"}
    <3>1. p.state \notin {"CLOSING", "STOPPING"}
      BY <2>3
    <3>2. CASE p.retransmits <= 0
      <4>1. fsm_timeout(p) = IF p.passive THEN Set("STOPPED") ELSE lcp_finished(Set("STOPPED"))
        BY <2>3, <3>1, <3>2 DEF fsm_timeout
      <4> QED
        BY <4>1
    <3>3. CASE ~(p.retransmits <= 0)
      <4>1. fsm_timeout(p) \in {p, v}
        BY <2>3, <3>1, <3>3 DEF fsm_timeout
      <4> QED
        BY Zenon, <2>3, <4>1
    <3> QED
      BY Zenon, <3>2, <3>3
  <2>4. CASE p.state \notin {"CLOSING", "STOPPING", "REQSENT", "ACKRCVD", "ACKSENT"}
    BY Zenon, <2>4 DEF fsm_timeout
  <2> QED
    BY Zenon, <2>1, <2>2, <2>3, <2>4
<1> HIDE DEF Set, u, v
<1> QED
  BY <1>1, <1>2, <1>3, <1>4, <1>5 DEF Moves

\* The hangup of the modem keeps the request.
LEMMA HangupIds ==
  ASSUME NEW p, IsLcp(p)
  PROVE  Moves(p, link_terminated(lcp_lowerdown([p EXCEPT !.hungup = TRUE])))
<1> DEFINE h == [p EXCEPT !.hungup = TRUE]
           w == lcp_lowerdown(h)
<1>1. Keeps(p, h) /\ IsLcp(h)
  BY SetOther DEF Keeps, Others, Members
<1> HIDE DEF h
<1>2. Keeps(h, w) /\ IsLcp(w)
  BY <1>1, LcpLowerdownIds DEF Keeps
<1> HIDE DEF w
<1>3. Moves(p, link_terminated(w))
  BY <1>1, <1>2, FinishedIds, KeepsTrans, KeepsMoves
<1> QED
  BY <1>3 DEF w, h

----------------------------------------------------------------------------
(* Ids: received packets.                                                  *)

\* r answers the request with this id with an acknowledgement.
Grants(p, id, r) ==
  /\ IsLcp(r) /\ r.acked = id
  /\ \/ /\ r.id = p.id /\ r.reqid = p.reqid
        /\ r.state \in Agreed => p.state \in Agreed
        /\ Says(p.out, p.reqid, id) => Says(r.out, p.reqid, id)
     \/ /\ r.id = NextId(p) /\ r.reqid = NextId(p)
        /\ r.state \notin Agreed
        /\ Says(p.out, NextId(p), id) => Says(r.out, NextId(p), id)

\* The state that agrees with the peer, all else being as in p.
Agreeing(p) == [p EXCEPT !.state = "OPENED"]

\* What keeps the request may come after an acknowledgement.
LEMMA GrantsKeeps ==
  ASSUME NEW p, NEW id, NEW q, NEW r, Grants(p, id, q), Keeps(q, r)
  PROVE  Grants(p, id, r)
  BY DEF Grants, Keeps

\* Agreeing changes the state only, and allows whatever p allows.
LEMMA AgreeingMoves ==
  ASSUME NEW p, IsLcp(p)
  PROVE  /\ IsLcp(Agreeing(p)) /\ Agreeing(p).state = "OPENED"
         /\ Agreeing(p).id = p.id /\ Agreeing(p).reqid = p.reqid
         /\ Agreeing(p).acked = p.acked /\ Agreeing(p).out = p.out
         /\ Agreeing(p).echo_fails = p.echo_fails
         /\ \A r : Moves(p, r) => Moves(Agreeing(p), r)
<1>1. /\ IsLcp(Agreeing(p)) /\ Agreeing(p).state = "OPENED"
      /\ Agreeing(p).id = p.id /\ Agreeing(p).reqid = p.reqid
      /\ Agreeing(p).acked = p.acked /\ Agreeing(p).out = p.out
      /\ Agreeing(p).echo_fails = p.echo_fails
  BY DEF Agreeing, IsLcp, Members
<1> QED
  BY <1>1 DEF Moves, Repeats, Renews, Takes, Agreed, NextId

\* fsm_rconfack: only an acknowledgement of the last request has an effect,
\* and only it leads to a state that is Agreed.
LEMMA RconfackIds ==
  ASSUME NEW p, IsLcp(p), p.echo_fails \in Nat, NEW id, NEW ret, NEW refuse \in BOOLEAN
  PROVE  LET r == fsm_rconfack(p, id, ret, refuse)
         IN (id # p.reqid => r = p) /\ Moves(Agreeing(p), r)
<1> DEFINE r == fsm_rconfack(p, id, ret, refuse)
           a == [p EXCEPT !.seen_ack = TRUE]
           h == [a EXCEPT !.state = "ACKRCVD", !.retransmits = maxconfreqtransmits]
           u == UNTIMEOUT_fsm(a)
           o == [u EXCEPT !.state = "OPENED", !.retransmits = maxconfreqtransmits]
           d == lcp_down(a)
           Req(q) == [fsm_sconfreq(q, FALSE) EXCEPT !.state = "REQSENT"]
<1>1. id # p.reqid => r = p
  BY Zenon DEF fsm_rconfack, ExpectedId
<1>2. r \in {p, a, fsm_sdata(a, "TERMACK", id), h, Req(u), lcp_up(o, refuse), Req(d)}
  BY DEF fsm_rconfack
<1>3. Keeps(p, a) /\ IsLcp(a) /\ a.echo_fails \in Nat
  BY SMTT(30), SetOther DEF Keeps, Others, Members
<1> HIDE DEF a
<1>4. Keeps(p, u) /\ IsLcp(u) /\ u.echo_fails \in Nat /\ Keeps(p, d) /\ IsLcp(d)
  <2>1. Keeps(a, u) /\ Keeps(a, d)
    BY Zenon, <1>3, CalloutIds, DownIds
  <2> HIDE DEF u, d
  <2> QED
    BY <1>3, <2>1, KeepsTrans DEF Keeps
<1> HIDE DEF u, d
<1>5. Moves(p, p) /\ Moves(p, a)
  BY <1>3, KeepsMoves DEF Moves, Repeats
<1>6. Moves(p, fsm_sdata(a, "TERMACK", id))
  BY Zenon, <1>3, SdataIds, KeepsTrans, KeepsMoves
<1>7. Moves(p, Req(u)) /\ Moves(p, Req(d))
  <2>1. Renews(u, Req(u)) /\ Renews(d, Req(d))
    BY Zenon, <1>4, RequestIds DEF Agreed
  <2> HIDE DEF Req
  <2> QED
    BY <1>4, <2>1, KeepsMoves DEF Moves
<1> HIDE DEF Req
<1>8. Moves(Agreeing(p), h)
  <2>1. /\ IsLcp(h) /\ h.id = a.id /\ h.reqid = a.reqid /\ h.acked = a.acked /\ h.out = a.out
        /\ h.echo_fails = a.echo_fails
    BY Zenon, <1>3 DEF IsLcp, Members
  <2> HIDE DEF h
  <2> QED
    BY <1>3, <2>1, AgreeingMoves DEF Moves, Repeats, Keeps, Agreed
<1>9. Moves(Agreeing(p), lcp_up(o, refuse))
  <2>1. /\ IsLcp(o) /\ o.id = u.id /\ o.reqid = u.reqid /\ o.acked = u.acked /\ o.out = u.out
        /\ o.echo_fails = u.echo_fails
    BY Zenon, <1>4 DEF IsLcp, Members
  <2> HIDE DEF o
  <2>2. Keeps(Agreeing(p), o)
    BY <1>4, <2>1, AgreeingMoves DEF Keeps, Agreed
  <2>3. Moves(o, lcp_up(o, refuse))
    BY <1>4, <2>1, UpIds
  <2> QED
    BY <2>2, <2>3, KeepsMoves
<1> HIDE DEF r, h, o
<1>10. Moves(Agreeing(p), r)
  BY <1>2, <1>5, <1>6, <1>7, <1>8, <1>9, AgreeingMoves
<1> QED
  BY <1>1, <1>10 DEF r

\* fsm_rconfnakrej: only an answer to the last request has an effect.
LEMMA RconfnakrejIds ==
  ASSUME NEW p, IsLcp(p), NEW code, NEW id, NEW ret
  PROVE  LET r == fsm_rconfnakrej(p, code, id, ret)
         IN (id # p.reqid => r = p) /\ Moves(p, r)
<1> DEFINE r == fsm_rconfnakrej(p, code, id, ret)
           a == [p EXCEPT !.seen_ack = TRUE,
                          !.options = IF code = "CONFREJ" THEN Less(@) ELSE @]
           u == UNTIMEOUT_fsm(a)
           x == [u EXCEPT !.state = "STOPPED"]
           c == fsm_sconfreq(u, FALSE)
           d == lcp_down(a)
           Req(q) == [fsm_sconfreq(q, FALSE) EXCEPT !.state = "REQSENT"]
<1>1. id # p.reqid => r = p
  BY Zenon DEF fsm_rconfnakrej, ExpectedId
<1>2. \/ r \in {p, a, fsm_sdata(a, "TERMACK", id), x, Req(u), Req(d)}
      \/ a.state \in {"REQSENT", "ACKSENT"} /\ r = c
  BY Zenon DEF fsm_rconfnakrej
<1>3. Keeps(p, a) /\ IsLcp(a)
  BY Zenon DEF Keeps, IsLcp, Members
<1> HIDE DEF a
<1>4. Keeps(p, u) /\ IsLcp(u) /\ u.state = a.state /\ Keeps(p, d) /\ IsLcp(d)
  <2>1. Keeps(a, u) /\ u.state = a.state /\ Keeps(a, d)
    BY <1>3, CalloutIds, DownIds
  <2> HIDE DEF u, d
  <2> QED
    BY <1>3, <2>1, KeepsTrans DEF Keeps
<1> HIDE DEF u, d
<1>5. Moves(p, p) /\ Moves(p, a)
  BY <1>3, KeepsMoves DEF Moves, Repeats
<1>6. Moves(p, fsm_sdata(a, "TERMACK", id))
  BY <1>3, SdataIds, KeepsTrans, KeepsMoves
<1>7. Moves(p, Req(u)) /\ Moves(p, Req(d))
  <2>1. Renews(u, Req(u)) /\ Renews(d, Req(d))
    BY Zenon, <1>4, RequestIds DEF Agreed
  <2> HIDE DEF Req
  <2> QED
    BY <1>4, <2>1, KeepsMoves DEF Moves
<1> HIDE DEF Req
<1>8. Moves(p, x)
  <2>1. Keeps(u, x)
    BY <1>4, SetOtherState DEF Agreed
  <2> QED
    BY <1>4, <2>1, KeepsTrans, KeepsMoves
<1>9. a.state \in {"REQSENT", "ACKSENT"} => Moves(p, c)
  <2>1. Takes(u, c) /\ c.state = a.state
    BY Zenon, <1>4, SconfreqIds
  <2> HIDE DEF c
  <2>2. Takes(p, c)
    BY <1>4, <2>1, KeepsMoves
  <2> QED
    BY <2>1, <2>2 DEF Moves, Renews, Agreed
<1> HIDE DEF r, x, c
<1>10. Moves(p, r)
  BY <1>2, <1>5, <1>6, <1>7, <1>8, <1>9
<1> QED
  BY <1>1, <1>10 DEF r

\* fsm_rtermreq keeps the request.
LEMMA RtermreqIds ==
  ASSUME NEW p, IsLcp(p), NEW id
  PROVE  Keeps(p, fsm_rtermreq(p, id))
<1> DEFINE b == [p EXCEPT !.state = "REQSENT"]
           e == [p EXCEPT !.retransmits = 0, !.state = "STOPPING"]
           d == lcp_down(e)
           t == TIMEOUT_fsm(d)
           q == CASE p.state \in {"ACKRCVD", "ACKSENT"} -> b
                  [] p.state = "OPENED" -> t
                  [] OTHER -> p
<1>1. Keeps(p, p) /\ Keeps(p, b)
  BY SetOtherState DEF Keeps, Agreed
<1>2. Keeps(p, e) /\ IsLcp(e)
  BY Zenon DEF Keeps, IsLcp, Members, Agreed
<1>3. fsm_rtermreq(p, id) = fsm_sdata(q, "TERMACK", id)
  BY DEF fsm_rtermreq
<1> HIDE DEF b, e
<1>4. Keeps(e, d) /\ IsLcp(d)
  BY <1>2, DownIds DEF Keeps
<1> HIDE DEF d
<1>5. Keeps(d, t)
  BY <1>4, CalloutIds
<1> HIDE DEF t
<1>6. Keeps(p, t)
  BY <1>2, <1>4, <1>5, KeepsTrans
<1>7. q \in {p, b, t}
  OBVIOUS
<1> HIDE DEF q
<1>8. Keeps(p, q) /\ IsLcp(q)
  BY <1>1, <1>6, <1>7, KeepsMoves
<1> QED
  BY <1>3, <1>8, SdataIds, KeepsTrans

\* Cancelling the callout and the finished callback keep the request.
LEMMA EndIds ==
  ASSUME NEW p, IsLcp(p), NEW s, s \notin Agreed
  PROVE  Keeps(p, lcp_finished([UNTIMEOUT_fsm(p) EXCEPT !.state = s]))
<1> DEFINE u == UNTIMEOUT_fsm(p)
           e == [u EXCEPT !.state = s]
<1>1. Keeps(p, u) /\ IsLcp(u)
  BY CalloutIds DEF Keeps
<1> HIDE DEF u
<1>2. Keeps(u, e) /\ IsLcp(e)
  BY <1>1, SetOtherState
<1> HIDE DEF e
<1>3. Keeps(p, lcp_finished(e))
  BY <1>1, <1>2, FinishedIds, KeepsTrans
<1> QED
  BY <1>3 DEF e, u

\* fsm_rtermack starts a new request only where LCP was OPENED.
LEMMA RtermackIds ==
  ASSUME NEW p, IsLcp(p)
  PROVE  Moves(p, fsm_rtermack(p)) /\ (p.state = "REQSENT" => fsm_rtermack(p) = p)
<1> DEFINE End(s) == lcp_finished([UNTIMEOUT_fsm(p) EXCEPT !.state = s])
           b == [p EXCEPT !.state = "REQSENT"]
           d == lcp_down(p)
           r == [fsm_sconfreq(d, FALSE) EXCEPT !.state = "REQSENT"]
<1>1. fsm_rtermack(p) \in {p, b, r, End("CLOSED"), End("STOPPED")}
  BY DEF fsm_rtermack
<1>2. Keeps(p, p) /\ Keeps(p, b)
  BY SetOtherState DEF Keeps, Agreed
<1>3. Keeps(p, End("CLOSED")) /\ Keeps(p, End("STOPPED"))
  BY EndIds DEF Agreed
<1>4. Keeps(p, d) /\ IsLcp(d)
  BY DownIds DEF Keeps
<1> HIDE DEF d
<1>5. Renews(d, r)
  BY Zenon, <1>4, RequestIds DEF Agreed
<1> HIDE DEF r, b, End
<1>6. Moves(p, r)
  BY <1>4, <1>5, KeepsMoves DEF Moves
<1>7. p.state = "REQSENT" => fsm_rtermack(p) = p
  BY DEF fsm_rtermack
<1> QED
  BY Zenon, <1>1, <1>2, <1>3, <1>6, <1>7, KeepsMoves

\* lcp_extcode and fsm_rcoderej take an id only to close an open link.
LEMMA ExtcodeIds ==
  ASSUME NEW p, IsLcp(p), NEW pkt
  PROVE  /\ Moves(p, lcp_extcode(p, pkt)) /\ Moves(p, fsm_rcoderej(p))
         /\ p.state = "REQSENT" => Keeps(p, lcp_extcode(p, pkt)) /\ Keeps(p, fsm_rcoderej(p))
<1> DEFINE e == [p EXCEPT !.echos_pending = 0]
           b == [p EXCEPT !.state = "REQSENT"]
           d == fsm_sdata(p, "ECHOREP", pkt.id)
           t == terminate_layer(p, "STOPPING")
<1>1. Keeps(p, p) /\ Keeps(p, e) /\ Keeps(p, b)
  BY SMTT(30), SetOther, SetOtherState DEF Keeps, Agreed, Others, Members
<1>2. Keeps(p, d)
  BY SdataIds
<1>3. Moves(p, t)
  BY TerminateIds DEF Moves
<1>4. p.state = "OPENED" => fsm_protreject(p) = t
  BY DEF fsm_protreject
<1>5. lcp_extcode(p, pkt) \in {p, e, d} \/ (p.state = "OPENED" /\ lcp_extcode(p, pkt) = t)
  <2>1. \/ lcp_extcode(p, pkt) \in {p, e, d}
        \/ p.state = "OPENED" /\ lcp_extcode(p, pkt) = fsm_protreject(p)
    BY DEF lcp_extcode
  <2> HIDE DEF e, d, t
  <2> QED
    BY <1>4, <2>1
<1>6. fsm_rcoderej(p) \in {p, b}
  BY DEF fsm_rcoderej
<1> HIDE DEF e, b, d, t
<1> QED
  BY <1>1, <1>2, <1>3, <1>5, <1>6, KeepsMoves

\* A request is answered: with an acknowledgement, or otherwise.
LEMMA RconfreqIds ==
  ASSUME NEW p, IsLcp(p), p.echo_fails \in Nat, NEW id,
         NEW code \in {"CONFACK", "CONFNAK", "CONFREJ"}, NEW refuse \in BOOLEAN
  PROVE  LET r == fsm_rconfreq(p, id, code, refuse)
         IN /\ Moves(p, r) \/ Grants(p, id, r)
            /\ p.state = "REQSENT" => r.id = p.id
<1> DEFINE r == fsm_rconfreq(p, id, code, refuse)
           b == IF p.state = "OPENED" THEN lcp_down(p) ELSE p
           q == [fsm_sconfreq(b, FALSE) EXCEPT !.state = "REQSENT"]
           n == IF p.state \in {"OPENED", "STOPPED"} THEN q ELSE p
           s == fsm_sdata(n, code, id)
           u == UNTIMEOUT_fsm(s)
           o == [u EXCEPT !.state = "OPENED", !.acked = id]
           k == [s EXCEPT !.state = "ACKSENT", !.acked = id]
           j == [s EXCEPT !.state = IF @ = "ACKRCVD" THEN @ ELSE "REQSENT"]
           d == fsm_sdata(p, "TERMACK", id)
<1>1. \/ r \in {p, d}
      \/ code = "CONFACK" /\ n.state = "ACKRCVD" /\ r = lcp_up(o, refuse)
      \/ code = "CONFACK" /\ n.state # "ACKRCVD" /\ r = k
      \/ code # "CONFACK" /\ r = j
  BY DEF fsm_rconfreq
<1>2. Keeps(p, p) /\ Keeps(p, d)
  BY SdataIds DEF Keeps
<1> HIDE DEF d
<1>3. Keeps(p, b) /\ IsLcp(b)
  BY <1>2, DownIds DEF Keeps
<1> HIDE DEF b
<1>4. Renews(b, q) /\ q.state = "REQSENT"
  <2> DEFINE c == fsm_sconfreq(b, FALSE)
  <2>1. IsLcp(c)
    BY Zenon, <1>3, SconfreqIds DEF Takes
  <2> HIDE DEF c
  <2>2. [c EXCEPT !.state = "REQSENT"].state = "REQSENT"
    BY SMTT(30), <2>1, SetOtherState
  <2> QED
    BY Zenon, <1>3, <2>2, RequestIds DEF Agreed, c
<1> HIDE DEF q
<1>5. /\ Moves(p, n) /\ IsLcp(n)
      /\ n.state = "ACKRCVD" \/ p.state = "REQSENT" => n = p
  <2>1. Moves(p, p)
    BY Zenon, <1>2, KeepsMoves
  <2>2. Moves(p, q) /\ IsLcp(q)
    <3>1. IsLcp(q)
      BY Zenon, <1>4 DEF Renews, Takes
    <3>2. Moves(b, q)
      BY Zenon, <1>4 DEF Moves
    <3> QED
      BY Zenon, <1>3, <3>1, <3>2, KeepsMoves
  <2>3. n = p \/ (n = q /\ p.state # "REQSENT")
    BY SMTT(30)
  <2> HIDE DEF n
  <2> QED
    BY SMTT(30), <1>4, <2>1, <2>2, <2>3
<1> HIDE DEF n
<1>6. /\ IsLcp(s) /\ s.state = n.state /\ s.id = n.id /\ s.reqid = n.reqid
      /\ s.acked = n.acked /\ s.echo_fails = n.echo_fails
      /\ code # "CONFACK" => Keeps(n, s)
      /\ \A i : Says(n.out, i, id) => Says(s.out, i, id)
  <2>1. s = SendPacket(n, code, id, 0)
    BY DEF fsm_sdata
  <2> HIDE DEF s
  <2> QED
    BY <1>5, <2>1, SendIds DEF Keeps
<1> HIDE DEF s
<1>7. code # "CONFACK" => Keeps(n, j)
  <2>1. code # "CONFACK" => Keeps(s, j)
    BY <1>6, SetOtherState DEF Agreed
  <2> HIDE DEF j
  <2> QED
    BY <1>6, <2>1, KeepsTrans
<1>8. j.id = n.id
  BY <1>6 DEF IsLcp, Members
<1> HIDE DEF j
<1>9. Grants(p, id, k) /\ k.id = n.id
  <2>1. /\ IsLcp(k) /\ k.state = "ACKSENT" /\ k.id = s.id /\ k.reqid = s.reqid
        /\ k.acked = id /\ k.out = s.out
    BY Zenon, <1>6 DEF IsLcp, Members
  <2> HIDE DEF k
  <2> QED
    BY <1>5, <1>6, <2>1 DEF Grants, Moves, Repeats, Renews, Takes, Agreed
<1> HIDE DEF k
<1>10. n.state = "ACKRCVD" => Grants(p, id, lcp_up(o, refuse))
  <2> SUFFICES ASSUME n.state = "ACKRCVD" PROVE Grants(p, id, lcp_up(o, refuse))
    OBVIOUS
  <2>1. n = p
    BY <1>5
  <2>2. Keeps(s, u) /\ IsLcp(u)
    BY Zenon, <1>6, CalloutIds DEF Keeps
  <2> HIDE DEF u
  <2>3. /\ IsLcp(o) /\ o.state = "OPENED" /\ o.id = u.id /\ o.reqid = u.reqid
        /\ o.acked = id /\ o.out = u.out /\ o.echo_fails = u.echo_fails
    BY Zenon, <2>2 DEF IsLcp, Members
  <2> HIDE DEF o
  <2>4. /\ o.id = p.id /\ o.reqid = p.reqid /\ o.echo_fails \in Nat
        /\ \A i : Says(p.out, i, id) => Says(o.out, i, id)
    BY <1>6, <2>1, <2>2, <2>3 DEF Keeps
  <2>5. Moves(o, lcp_up(o, refuse)) /\ p.state \in Agreed
    BY Zenon, <2>1, <2>3, <2>4, UpIds DEF Agreed
  <2> QED
    BY <2>3, <2>4, <2>5 DEF Moves, Repeats, Renews, Takes, Grants, NextId
<1> HIDE DEF r, o
<1>11. Moves(p, r) \/ Grants(p, id, r)
  BY <1>1, <1>2, <1>5, <1>7, <1>9, <1>10, KeepsMoves, MovesKeeps
<1>12. p.state = "REQSENT" => r.id = p.id
  BY Zenon, <1>1, <1>2, <1>5, <1>8, <1>9 DEF Keeps
<1> QED
  BY Zenon, <1>11, <1>12 DEF r

\* What an event makes of p: its request stays or takes the next id, its
\* requests have the new id, an acknowledgement answers pkt, and the peer has
\* agreed only if it had before or pkt says so.
Outcome(p, pkt, r) ==
  /\ IsLcp(r)
  /\ r.id = r.reqid /\ r.reqid \in {p.reqid, NextId(p)}
  /\ \/ r.acked = p.acked /\ \A a : Says(r.out, r.reqid, a)
     \/ pkt.code = "CONFREQ" /\ r.acked = pkt.id /\ Says(r.out, r.reqid, pkt.id)
  /\ r.state \in Agreed =>
       /\ r.reqid = p.reqid
       /\ p.state \in Agreed \/ (pkt.code = "CONFACK" /\ pkt.id = p.reqid)

\* The relations above are outcomes of an event that begins with nothing sent.
LEMMA MovesOutcome ==
  ASSUME NEW p, IsLcp(p), p.out = <<>>, p.id = p.reqid, NEW pkt, NEW r
  PROVE  /\ Moves(p, r) => Outcome(p, pkt, r)
         /\ Grants(p, pkt.id, r) /\ pkt.code = "CONFREQ" => Outcome(p, pkt, r)
         /\ Moves(Agreeing(p), r) /\ pkt.code = "CONFACK" /\ pkt.id = p.reqid
              => Outcome(p, pkt, r)
<1>1. \A i, a : Says(p.out, i, a)
  <2>1. p.out \in Seq({}) /\ Len(p.out) = 0
    OBVIOUS
  <2> QED
    BY <2>1 DEF Says, IsSequence
<1>2. /\ Agreeing(p).id = p.id /\ Agreeing(p).reqid = p.reqid
      /\ Agreeing(p).acked = p.acked /\ Agreeing(p).out = p.out
  BY Zenon, AgreeingMoves
<1>3. Moves(p, r) => Outcome(p, pkt, r)
  <2>1. Repeats(p, r) => Outcome(p, pkt, r)
    BY Zenon, <1>1 DEF Repeats, Outcome
  <2>2. Renews(p, r) => Outcome(p, pkt, r)
    BY Zenon, <1>1 DEF Renews, Takes, Outcome
  <2> QED
    BY Zenon, <2>1, <2>2 DEF Moves
<1>4. Grants(p, pkt.id, r) /\ pkt.code = "CONFREQ" => Outcome(p, pkt, r)
  BY Zenon, <1>1 DEF Grants, Outcome
<1>5. Moves(Agreeing(p), r) /\ pkt.code = "CONFACK" /\ pkt.id = p.reqid
        => Outcome(p, pkt, r)
  <2>1. Repeats(Agreeing(p), r) /\ pkt.code = "CONFACK" /\ pkt.id = p.reqid
          => Outcome(p, pkt, r)
    BY <1>1, <1>2 DEF Repeats, Outcome
  <2>2. NextId(Agreeing(p)) = NextId(p)
    BY Zenon, <1>2 DEF NextId
  <2>3. Renews(Agreeing(p), r) => Outcome(p, pkt, r)
    BY Zenon, <1>1, <1>2, <2>2 DEF Renews, Takes, Outcome
  <2> QED
    BY Zenon, <2>1, <2>3 DEF Moves
<1> QED
  BY <1>3, <1>4, <1>5

\* fsm_input, for a packet that is not an answer to the last request when
\* the request has just been renewed.
LEMMA InputIds ==
  ASSUME NEW p, IsLcp(p), p.echo_fails \in Nat, NEW pkt,
         NEW code \in {"CONFACK", "CONFNAK", "CONFREJ"}, NEW ret, NEW refuse \in BOOLEAN
  PROVE  LET r == fsm_input(p, pkt, code, ret, refuse)
         IN /\ \/ Moves(p, r)
               \/ pkt.code = "CONFREQ" /\ Grants(p, pkt.id, r)
               \/ pkt.code = "CONFACK" /\ pkt.id = p.reqid /\ Moves(Agreeing(p), r)
            /\ p.state = "REQSENT"
                 => \/ pkt.code \in {"CONFACK", "CONFNAK", "CONFREJ"} /\ pkt.id = p.reqid
                    \/ Keeps(p, r)
                    \/ pkt.code = "CONFREQ" /\ r.id = p.id
<1> DEFINE r == fsm_input(p, pkt, code, ret, refuse)
           Goal == /\ \/ Moves(p, r)
                      \/ pkt.code = "CONFREQ" /\ Grants(p, pkt.id, r)
                      \/ pkt.code = "CONFACK" /\ pkt.id = p.reqid /\ Moves(Agreeing(p), r)
                   /\ p.state = "REQSENT"
                        => \/ pkt.code \in {"CONFACK", "CONFNAK", "CONFREJ"} /\ pkt.id = p.reqid
                           \/ Keeps(p, r)
                           \/ pkt.code = "CONFREQ" /\ r.id = p.id
<1> SUFFICES Goal
  OBVIOUS
<1>1. Keeps(p, p) /\ Moves(p, p)
  BY Zenon DEF Keeps, Moves, Repeats
<1>2. CASE p.state \in {"INITIAL", "STARTING"}
  <2>1. r = p
    BY Zenon, <1>2 DEF fsm_input
  <2> HIDE DEF r
  <2> QED
    BY <1>1, <2>1
<1>3. CASE p.state \notin {"INITIAL", "STARTING"}
  <2>1. CASE pkt.code = "CONFREQ"
    <3>1. r = fsm_rconfreq(p, pkt.id, code, refuse)
      BY Zenon, <1>3, <2>1 DEF fsm_input
    <3> HIDE DEF r
    <3> QED
      BY Zenon, <2>1, <3>1, RconfreqIds
  <2>2. CASE pkt.code = "CONFACK"
    <3>1. r = fsm_rconfack(p, pkt.id, ret, refuse)
      BY Zenon, <1>3, <2>2 DEF fsm_input
    <3> HIDE DEF r
    <3>2. (pkt.id # p.reqid => r = p) /\ Moves(Agreeing(p), r)
      BY <3>1, RconfackIds
    <3> QED
      BY <1>1, <2>2, <3>2
  <2>3. CASE pkt.code \in {"CONFNAK", "CONFREJ"}
    <3>1. r = fsm_rconfnakrej(p, pkt.code, pkt.id, ret)
      BY <1>3, <2>3 DEF fsm_input
    <3> HIDE DEF r
    <3>2. (pkt.id # p.reqid => r = p) /\ Moves(p, r)
      BY Zenon, <3>1, RconfnakrejIds
    <3> QED
      BY <1>1, <2>3, <3>2
  <2>4. CASE pkt.code = "TERMREQ"
    <3>1. r = fsm_rtermreq(p, pkt.id)
      BY Zenon, <1>3, <2>4 DEF fsm_input
    <3> HIDE DEF r
    <3> QED
      BY <3>1, RtermreqIds, KeepsMoves
  <2>5. CASE pkt.code = "TERMACK"
    <3>1. r = fsm_rtermack(p)
      BY Zenon, <1>3, <2>5 DEF fsm_input
    <3> HIDE DEF r
    <3> QED
      BY <1>1, <3>1, RtermackIds
  <2>6. CASE pkt.code \notin {"CONFREQ", "CONFACK", "CONFNAK", "CONFREJ", "TERMREQ", "TERMACK"}
    <3>1. r \in {fsm_rcoderej(p), lcp_extcode(p, pkt)}
      BY <1>3, <2>6 DEF fsm_input
    <3> HIDE DEF r
    <3> QED
      BY <3>1, ExtcodeIds
  <2> QED
    BY Zenon, <2>1, <2>2, <2>3, <2>4, <2>5, <2>6
<1> QED
  BY Zenon, <1>2, <1>3

\* The next id, without the remainder.
LEMMA NextIdValue ==
  ASSUME NEW p, p.id \in Ids
  PROVE  NextId(p) = IF p.id = IdMod - 1 THEN 0 ELSE p.id + 1
  BY IdModAssumption DEF NextId, Ids

\* lcp_input.  When it also makes up for a delayed lcp_lowerup, the id that
\* this takes must not be the id of the packet it answers.
LEMMA LcpInputIds ==
  ASSUME NEW p, IsLcp(p), p.echo_fails \in Nat, p.out = <<>>, p.id = p.reqid, NEW pkt,
         NEW code \in {"CONFACK", "CONFNAK", "CONFREJ"}, NEW ret, NEW refuse \in BOOLEAN,
         LET r == lcp_input(p, pkt, code, ret, refuse)
         IN r.reqid # p.reqid /\ pkt.code \in {"CONFACK", "CONFNAK", "CONFREJ"}
              => pkt.id # NextId(p),
         IdMod > 2, p.id \in Ids
  PROVE  Outcome(p, pkt, lcp_input(p, pkt, code, ret, refuse))
<1> DEFINE r == lcp_input(p, pkt, code, ret, refuse)
           d == [p EXCEPT !.delayed_up = FALSE, !.up_timeouts = Less(@)]
           f == fsm_lowerup(d)
           q == IF p.delayed_up THEN f ELSE p
<1>1. r = fsm_input(q, pkt, code, ret, refuse)
  BY DEF lcp_input
<1>2. Keeps(p, d) /\ IsLcp(d)
  BY Zenon DEF Keeps, IsLcp, Members
<1> HIDE DEF d
<1>3. Keeps(d, f) \/ (Renews(d, f) /\ f.state = "REQSENT")
  BY SMTT(30), <1>2, LowerupIds
<1> HIDE DEF f
<1>4. Keeps(p, q) \/ (Renews(p, q) /\ q.state = "REQSENT")
  <2>1. Keeps(p, p)
    BY Zenon DEF Keeps
  <2> QED
    BY Zenon, <1>2, <1>3, <2>1, KeepsTrans, KeepsMoves
<1> HIDE DEF q, r
<1>5. CASE Keeps(p, q)
  <2>1. IsLcp(q) /\ q.echo_fails \in Nat /\ q.reqid = p.reqid
    BY Zenon, <1>5 DEF Keeps
  <2>2. \/ Moves(q, r)
        \/ pkt.code = "CONFREQ" /\ Grants(q, pkt.id, r)
        \/ pkt.code = "CONFACK" /\ pkt.id = p.reqid /\ Moves(Agreeing(q), r)
    BY Zenon, <1>1, <2>1, InputIds
  <2>3. Grants(q, pkt.id, r) => Grants(p, pkt.id, r)
    BY Zenon, <1>5 DEF Keeps, Grants, NextId
  <2>4. Keeps(Agreeing(p), Agreeing(q))
    BY Zenon, <1>5, <2>1, AgreeingMoves DEF Keeps, Agreed
  <2>5. \/ Moves(p, r)
        \/ pkt.code = "CONFREQ" /\ Grants(p, pkt.id, r)
        \/ pkt.code = "CONFACK" /\ pkt.id = p.reqid /\ Moves(Agreeing(p), r)
    BY Zenon, <1>5, <2>2, <2>3, <2>4, KeepsMoves
  <2>6. Outcome(p, pkt, r)
    BY Zenon, <2>5, MovesOutcome
  <2> QED
    BY Zenon, <2>6 DEF r
<1>6. CASE Renews(p, q) /\ q.state = "REQSENT"
  <2>1. /\ IsLcp(q) /\ q.echo_fails \in Nat
        /\ q.id = NextId(p) /\ q.reqid = NextId(p)
    BY Zenon, <1>6 DEF Renews, Takes
  <2>2. /\ \/ Moves(q, r)
           \/ pkt.code = "CONFREQ" /\ Grants(q, pkt.id, r)
           \/ pkt.code = "CONFACK" /\ pkt.id = q.reqid /\ Moves(Agreeing(q), r)
        /\ \/ pkt.code \in {"CONFACK", "CONFNAK", "CONFREJ"} /\ pkt.id = q.reqid
           \/ Keeps(q, r)
           \/ pkt.code = "CONFREQ" /\ r.id = q.id
    BY ZenonT(30), <1>1, <1>6, <2>1, InputIds
  <2>3. /\ NextId(p) # p.id /\ NextId(q) # p.id /\ NextId(q) # NextId(p)
    <3>1. NextId(p) = (p.id + 1) % IdMod /\ NextId(q) = (NextId(p) + 1) % IdMod
      BY <2>1 DEF NextId
    <3>2. p.id \in 0 .. IdMod - 1 /\ IdMod \in Nat
      BY Zenon, IdModAssumption DEF Ids
    <3> HIDE DEF NextId
    <3>3. NextId(p) = IF p.id = IdMod - 1 THEN 0 ELSE p.id + 1
      BY Zenon, <3>1, <3>2, NextIdValue DEF NextId
    <3>4. NextId(p) \in 0 .. IdMod - 1
      BY <3>2, <3>3
    <3>5. NextId(q) = IF NextId(p) = IdMod - 1 THEN 0 ELSE NextId(p) + 1
      BY Zenon, <2>1, <3>4, NextIdValue DEF Ids
    <3> QED
      BY <3>2, <3>3, <3>5
  <2>4. CASE pkt.code \in {"CONFACK", "CONFNAK", "CONFREJ"} /\ pkt.id = q.reqid
    <3>1. r.reqid = p.reqid
      BY Zenon, <2>1, <2>4 DEF r
    <3>2. r.reqid \in {q.reqid, NextId(q)}
      <4>1. Agreeing(q).reqid = q.reqid /\ NextId(Agreeing(q)) = NextId(q)
        BY Zenon, <2>1, AgreeingMoves DEF NextId
      <4> QED
        BY Zenon, <2>2, <2>4, <4>1 DEF Moves, Repeats, Renews, Takes
    <3> QED
      BY Zenon, <2>1, <2>3, <3>1, <3>2
  <2>5. CASE Keeps(q, r)
    <3>1. Moves(p, r)
      BY Zenon, <1>6, <2>5, MovesKeeps DEF Moves
    <3> QED
      BY Zenon, <3>1, MovesOutcome DEF r
  <2>6. CASE pkt.code = "CONFREQ" /\ r.id = q.id
    <3>1. ~Renews(q, r)
      BY Zenon, <2>1, <2>3, <2>6 DEF Renews, Takes
    <3>2. Repeats(q, r) => Moves(p, r)
      BY Zenon, <1>6, <2>1 DEF Moves, Repeats, Renews, Takes, Agreed
    <3>3. Grants(q, pkt.id, r) => Grants(p, pkt.id, r)
      BY Zenon, <1>6, <2>1, <2>3, <2>6 DEF Grants, Renews, Takes, Agreed
    <3>4. Moves(p, r) \/ Grants(p, pkt.id, r)
      BY Zenon, <2>2, <2>6, <3>1, <3>2, <3>3 DEF Moves
    <3> QED
      BY Zenon, <2>6, <3>4, MovesOutcome DEF r
  <2> QED
    BY Zenon, <2>2, <2>4, <2>5, <2>6
<1> QED
  BY <1>4, <1>5, <1>6

----------------------------------------------------------------------------
(* The lines.                                                              *)

\* All requests on line l have id i.
Requests(l, i) == \A n \in 1 .. Len(l) : l[n].code = "CONFREQ" => l[n].id = i

\* An acknowledgement of request i is on line l.
Acks(l, i) == \E n \in 1 .. Len(l) : l[n].code = "CONFACK" /\ l[n].id = i

\* Behind a request with id i there are no others on line l.
Ordered(l, i) ==
  \A m, n \in 1 .. Len(l) :
    /\ m < n
    /\ l[m].code = "CONFREQ" /\ l[m].id = i
    /\ l[n].code = "CONFREQ"
    => l[n].id = i

\* m is l with the first k packets gone, and maybe some of the last.
Part(l, k, m) == \A n \in 1 .. Len(m) : n + k \in 1 .. Len(l) /\ m[n] = l[n + k]

\* m is l with x behind it, as far as there is room.
Grows(l, x, m) ==
  \A n \in 1 .. Len(m) :
    \/ n \in 1 .. Len(l) /\ m[n] = l[n]
    \/ n > Len(l) /\ n - Len(l) \in 1 .. Len(x) /\ m[n] = x[n - Len(l)]

\* Losing packets at the ends of a line disturbs nothing that is said of it.
LEMMA PartLine ==
  ASSUME NEW l, NEW m, NEW k \in Nat, NEW i, Len(l) \in Nat, Len(m) \in Nat, Part(l, k, m)
  PROVE  /\ Ordered(l, i) => Ordered(m, i)
         /\ Requests(l, i) => Requests(m, i)
         /\ Acks(m, i) => Acks(l, i)
<1>1. \A n \in 1 .. Len(m) : n + k \in 1 .. Len(l) /\ m[n] = l[n + k]
  BY DEF Part
<1>2. Ordered(l, i) => Ordered(m, i)
  <2> SUFFICES ASSUME Ordered(l, i), NEW a \in 1 .. Len(m), NEW b \in 1 .. Len(m), a < b,
                      m[a].code = "CONFREQ", m[a].id = i, m[b].code = "CONFREQ"
               PROVE  m[b].id = i
    BY DEF Ordered
  <2>1. a + k \in 1 .. Len(l) /\ b + k \in 1 .. Len(l) /\ a + k < b + k
    BY <1>1
  <2> QED
    BY Zenon, <1>1, <2>1 DEF Ordered
<1>3. Requests(l, i) => Requests(m, i)
  BY <1>1 DEF Requests
<1>4. Acks(m, i) => Acks(l, i)
  BY Zenon, <1>1 DEF Acks
<1> QED
  BY Zenon, <1>2, <1>3, <1>4

\* Nor does adding packets whose requests have the id in question.
LEMMA GrowsLine ==
  ASSUME NEW l, NEW x, NEW m, NEW i, Len(l) \in Nat, Len(x) \in Nat, Len(m) \in Nat,
         Grows(l, x, m)
  PROVE  /\ Ordered(l, i) /\ Requests(x, i) => Ordered(m, i)
         /\ Requests(l, i) /\ Requests(x, i) => Requests(m, i)
         /\ Acks(m, i) => Acks(l, i) \/ Acks(x, i)
<1>1. \A n \in 1 .. Len(m) :
        \/ n \in 1 .. Len(l) /\ m[n] = l[n]
        \/ n > Len(l) /\ n - Len(l) \in 1 .. Len(x) /\ m[n] = x[n - Len(l)]
  BY Zenon DEF Grows
<1>2. Ordered(l, i) /\ Requests(x, i) => Ordered(m, i)
  <2> SUFFICES ASSUME Ordered(l, i), Requests(x, i),
                      NEW a \in 1 .. Len(m), NEW b \in 1 .. Len(m), a < b,
                      m[a].code = "CONFREQ", m[a].id = i, m[b].code = "CONFREQ"
               PROVE  m[b].id = i
    BY Zenon DEF Ordered
  <2>1. CASE b \in 1 .. Len(l) /\ m[b] = l[b]
    <3>1. a \in 1 .. Len(l) /\ m[a] = l[a]
      BY <1>1, <2>1
    <3> QED
      BY Zenon, <2>1, <3>1 DEF Ordered
  <2>2. CASE b - Len(l) \in 1 .. Len(x) /\ m[b] = x[b - Len(l)]
    BY Zenon, <2>2 DEF Requests
  <2> QED
    BY Zenon, <1>1, <2>1, <2>2
<1>3. Requests(l, i) /\ Requests(x, i) => Requests(m, i)
  <2> SUFFICES ASSUME Requests(l, i), Requests(x, i), NEW b \in 1 .. Len(m),
                      m[b].code = "CONFREQ"
               PROVE  m[b].id = i
    BY DEF Requests
  <2> QED
    BY Zenon, <1>1 DEF Requests
<1>4. Acks(m, i) => Acks(l, i) \/ Acks(x, i)
  BY <1>1 DEF Acks
<1> QED
  BY <1>2, <1>3, <1>4

\* There are two processes, each the peer of the other.
LEMMA PeerOther ==
  ASSUME NEW p \in Peers
  PROVE  /\ Peer(p) # p /\ Peer(Peer(p)) = p
         /\ \A r \in Peers : r = p \/ r = Peer(p)
<1>1. PICK a, b \in Peers : a # b /\ Peers = {a, b}
  BY PeersAssumption
<1>2. \E q \in Peers : q # p
  BY <1>1
<1>3. Peer(p) \in Peers /\ Peer(p) # p
  BY <1>2 DEF Peer
<1>4. Peer(Peer(p)) \in Peers /\ Peer(Peer(p)) # Peer(p)
  <2> DEFINE q == Peer(p)
  <2>1. q \in Peers /\ \E r \in Peers : r # q
    BY <1>3
  <2> HIDE DEF q
  <2>2. Peer(q) \in Peers /\ Peer(q) # q
    BY <2>1 DEF Peer
  <2> QED
    BY <2>2 DEF q
<1> QED
  BY <1>1, <1>3, <1>4

\* Appending packets, all of them or as many as there is room for.
LEMMA ConcatGrows ==
  ASSUME NEW S, NEW l \in Seq(S), NEW x \in Seq(S)
  PROVE  LET all == l \o x
         IN /\ Grows(l, x, all)
            /\ \A c \in Nat : c < Len(all) => Grows(l, x, SubSeq(all, 1, c))
<1> DEFINE all == l \o x
<1>1. all \in Seq(S) /\ Len(l) \in Nat /\ Len(x) \in Nat
  OBVIOUS
<1>2. Len(all) = Len(l) + Len(x)
  OBVIOUS
<1>3. \A n \in 1 .. Len(l) + Len(x) : all[n] = IF n <= Len(l) THEN l[n] ELSE x[n - Len(l)]
  OBVIOUS
<1> HIDE DEF all
<1>4. Grows(l, x, all)
  <2> SUFFICES ASSUME NEW n \in 1 .. Len(l) + Len(x)
               PROVE  \/ n \in 1 .. Len(l) /\ all[n] = l[n]
                      \/ n > Len(l) /\ n - Len(l) \in 1 .. Len(x) /\ all[n] = x[n - Len(l)]
    BY <1>2 DEF Grows
  <2> QED
    BY <1>1, <1>3
<1>5. ASSUME NEW c \in Nat, c < Len(all)
      PROVE  Grows(l, x, SubSeq(all, 1, c))
  <2> DEFINE u == SubSeq(all, 1, c)
  <2>1. Len(u) = c
    BY <1>1, <1>5
  <2>2. \A n \in 1 .. c : u[n] = all[n]
    BY <1>1, <1>5
  <2>3. \A n \in 1 .. c : n \in 1 .. Len(all)
    BY <1>1, <1>2, <1>5
  <2> HIDE DEF u
  <2>4. Grows(l, x, u)
    BY Zenon, <1>4, <2>1, <2>2, <2>3 DEF Grows
  <2> QED
    BY <2>4 DEF u
<1> QED
  BY <1>4, <1>5 DEF all

\* What an event of p does to the two lines.
LEMMA SentLines ==
  ASSUME NEW l \in [Peers -> Seq(Packets)], NEW p \in Peers, NEW s \in LcpState
  PROVE  /\ Grows(l[Peer(p)], s.out, Sent(l, p, s)[Peer(p)])
         /\ Part(l[p], 0, Sent(l, p, s)[p])
<1> DEFINE q == Peer(p)
           a == l[q]
           x == s.out
           all == a \o x
           cut == SubSeq(all, 1, LinkCapacity)
           kept == IF Len(all) <= LinkCapacity THEN all ELSE cut
<1>1. /\ q \in Peers /\ q # p
      /\ a \in Seq(Packets) /\ x \in Seq(Packets) /\ l[p] \in Seq(Packets)
  BY PeerType, PeerOther DEF LcpState
<1>2. \/ Sent(l, p, s) = [r \in Peers |-> <<>>]
      \/ Sent(l, p, s) = [l EXCEPT ![q] = kept]
  BY DEF Sent
<1>3. /\ Grows(a, x, all)
      /\ LinkCapacity \in Nat /\ (LinkCapacity < Len(all) => Grows(a, x, cut))
  <2> HIDE DEF a, x
  <2> QED
    BY <1>1, ConcatGrows, CapacityAssumption
<1>4. Len(all) \in Nat
  <2> HIDE DEF a, x
  <2> QED
    BY <1>1
<1> HIDE DEF q, all, cut
<1>5. Grows(a, x, kept)
  BY <1>3, <1>4
<1> HIDE DEF kept
<1>6. Grows(a, x, <<>>) /\ Part(l[p], 0, <<>>)
  BY DEF Grows, Part
<1>7. Part(l[p], 0, l[p])
  <2> DEFINE b == l[p]
  <2>1. b \in Seq(Packets)
    BY <1>1
  <2> HIDE DEF b
  <2>2. Part(b, 0, b)
    BY <2>1 DEF Part
  <2> QED
    BY <2>2 DEF b
<1>8. CASE Sent(l, p, s) = [r \in Peers |-> <<>>]
  BY Zenon, <1>1, <1>6, <1>8 DEF q
<1>9. CASE Sent(l, p, s) = [l EXCEPT ![q] = kept]
  <2>1. Sent(l, p, s)[q] = kept /\ Sent(l, p, s)[p] = l[p]
    BY Zenon, <1>1, <1>9
  <2> QED
    BY Zenon, <1>5, <1>7, <2>1 DEF q
<1> QED
  BY <1>2, <1>8, <1>9

----------------------------------------------------------------------------
(* Acknowledgements: the invariant and the actions.                        *)

\* The process o has peer that last acknowledged a; to is the line to the
\* peer, from the line from it.
Sound(o, a, to, from) ==
  /\ o.out = <<>> /\ o.id = o.reqid
  /\ Ordered(to, o.reqid)
  /\ o.state \in Agreed \/ Acks(from, o.reqid) => a = o.reqid /\ Requests(to, o.reqid)

AckInv == \A p \in Peers : Sound(lcp[p], lcp[Peer(p)].acked, link[Peer(p)], link[p])

\* What the packets sent in an event are when they are on a line.
LEMMA SaysLine ==
  ASSUME NEW o, NEW i, NEW a, Says(o, i, a)
  PROVE  Requests(o, i) /\ Len(o) \in Nat /\ \A j : Acks(o, j) => j = a
<1>1. Len(o) \in Nat
  <2>1. PICK S : o \in Seq(S)
    BY DEF Says, IsSequence
  <2> QED
    BY <2>1
<1> QED
  BY <1>1 DEF Says, Requests, Acks

\* An event of the process itself: a new request makes the old answers void,
\* and without one it agrees only on what was acknowledged already.
LEMMA OwnStep ==
  ASSUME NEW o, NEW a, NEW to, NEW from, Sound(o, a, to, from),
         NEW pkt, NEW s, Outcome(o, pkt, s),
         NEW to2, NEW from2, NEW k \in Nat,
         Len(to) \in Nat, Len(from) \in Nat, Len(to2) \in Nat, Len(from2) \in Nat,
         Grows(to, s.out, to2), Part(from, k, from2),
         s.reqid # o.reqid =>
           /\ ~ \E n \in 1 .. Len(to) : to[n].code = "CONFREQ" /\ to[n].id = NextId(o)
           /\ ~Acks(from, NextId(o)),
         pkt.code = "CONFACK" => Acks(from, pkt.id)
  PROVE  Sound([s EXCEPT !.out = <<>>], a, to2, from2)
<1> DEFINE t == [s EXCEPT !.out = <<>>]
<1>1. t.out = <<>> /\ t.id = s.id /\ t.reqid = s.reqid /\ t.state = s.state
  BY ZenonT(30) DEF Outcome, IsLcp, Members
<1> HIDE DEF t
<1>2. Requests(s.out, s.reqid) /\ Len(s.out) \in Nat
  BY SaysLine DEF Outcome
<1>3. CASE s.reqid = o.reqid
  <2>1. Ordered(to2, s.reqid)
    <3>1. Ordered(to, s.reqid)
      BY Zenon, <1>3 DEF Sound
    <3> QED
      BY Zenon, <1>2, <3>1, GrowsLine
  <2>2. s.state \in Agreed \/ Acks(from2, s.reqid) => o.state \in Agreed \/ Acks(from, o.reqid)
    BY Zenon, <1>3, PartLine DEF Outcome
  <2>3. Requests(to, o.reqid) => Requests(to2, s.reqid)
    BY Zenon, <1>2, <1>3, GrowsLine
  <2> QED
    BY ZenonT(30), <1>1, <1>3, <2>1, <2>2, <2>3 DEF Sound, Outcome, t
<1>4. CASE s.reqid # o.reqid
  <2>1. s.reqid = NextId(o) /\ s.state \notin Agreed /\ s.id = s.reqid
    BY Zenon, <1>4 DEF Outcome
  <2>2. ~Acks(from2, s.reqid)
    BY Zenon, <1>4, <2>1, PartLine
  <2>3. Ordered(to, s.reqid)
    BY Zenon, <1>4, <2>1 DEF Ordered
  <2>4. Ordered(to2, s.reqid)
    BY Zenon, <1>2, <2>3, GrowsLine
  <2> QED
    BY <1>1, <2>1, <2>2, <2>4 DEF Sound, t
<1> QED
  BY <1>3, <1>4

\* An event of the peer: a new acknowledgement answers the packet it took off
\* the line, and behind that packet there are no other requests.
LEMMA PeerStep ==
  ASSUME NEW o, NEW q, NEW to, NEW from, Sound(o, q.acked, to, from),
         NEW pkt, NEW s, Outcome(q, pkt, s),
         NEW to2, NEW from2, NEW k \in Nat,
         Len(to) \in Nat, Len(from) \in Nat, Len(to2) \in Nat, Len(from2) \in Nat,
         Part(to, k, to2), Grows(from, s.out, from2),
         pkt.code = "CONFREQ" => k = 1 /\ 1 <= Len(to) /\ to[1] = pkt
  PROVE  Sound(o, s.acked, to2, from2)
<1>1. Ordered(to2, o.reqid) /\ (Requests(to, o.reqid) => Requests(to2, o.reqid))
  BY Zenon, PartLine DEF Sound
<1>2. Len(s.out) \in Nat
  BY Zenon, SaysLine DEF Outcome
<1>3. Acks(from2, o.reqid) => Acks(from, o.reqid) \/ Acks(s.out, o.reqid)
  BY ZenonT(30), <1>2, GrowsLine
<1>4. CASE o.state \in Agreed \/ Acks(from, o.reqid)
  <2>1. q.acked = o.reqid /\ Requests(to, o.reqid)
    BY Zenon, <1>4 DEF Sound
  <2>2. pkt.code = "CONFREQ" => pkt.id = o.reqid
    BY SMTT(30), <2>1 DEF Requests
  <2>3. s.acked = o.reqid
    BY Zenon, <2>1, <2>2 DEF Outcome
  <2> QED
    BY <1>1, <2>1, <2>3 DEF Sound
<1>5. CASE ~(o.state \in Agreed \/ Acks(from, o.reqid)) /\ Acks(s.out, o.reqid)
  <2>1. pkt.code = "CONFREQ" /\ s.acked = pkt.id /\ pkt.id = o.reqid
    <3>1. ~ \A a : Says(s.out, s.reqid, a)
      <4>1. ~(o.reqid = 0 /\ o.reqid = 1)
        BY SMTT(30)
      <4>2. Says(s.out, s.reqid, 0) => o.reqid = 0
        BY Zenon, <1>5, SaysLine
      <4>3. Says(s.out, s.reqid, 1) => o.reqid = 1
        BY Zenon, <1>5, SaysLine
      <4> QED
        BY Zenon, <4>1, <4>2, <4>3
    <3>2. pkt.code = "CONFREQ" /\ s.acked = pkt.id /\ Says(s.out, s.reqid, pkt.id)
      BY Zenon, <3>1 DEF Outcome
    <3> QED
      BY Zenon, <1>5, <3>2, SaysLine
  <2>2. Requests(to2, o.reqid)
    <3>1. k = 1 /\ 1 \in 1 .. Len(to) /\ to[1].code = "CONFREQ" /\ to[1].id = o.reqid
      BY <2>1
    <3>2. \A n \in 1 .. Len(to2) : n + 1 \in 1 .. Len(to) /\ 1 < n + 1 /\ to2[n] = to[n + 1]
      BY SMTT(30), <3>1 DEF Part
    <3> QED
      BY Zenon, <3>1, <3>2 DEF Requests, Sound, Ordered
  <2> QED
    BY Zenon, <1>1, <2>1, <2>2 DEF Sound
<1>6. CASE ~(o.state \in Agreed \/ Acks(from, o.reqid)) /\ ~Acks(s.out, o.reqid)
  BY Zenon, <1>1, <1>3, <1>6 DEF Sound
<1> QED
  BY Zenon, <1>4, <1>5, <1>6

\* Packets are lost in the event and again when the line is dropped.
LEMMA PartTrans ==
  ASSUME NEW l, NEW m, NEW r, NEW k \in Nat, Part(l, k, m), Part(m, 0, r), Len(r) \in Nat
  PROVE  Part(l, k, r)
<1>1. \A n \in 1 .. Len(r) : n + 0 = n
  OBVIOUS
<1> QED
  BY <1>1 DEF Part

\* An event with this outcome preserves AckInv.
LEMMA StepAck ==
  ASSUME Inv, AckInv, NewIdFresh, NEW p \in Peers,
         NEW pkt, NEW s \in LcpState, Outcome(lcp[p], pkt, s),
         NEW l \in [Peers -> Seq(Packets)], l[Peer(p)] = link[Peer(p)],
         NEW k \in Nat, Part(link[p], k, l[p]),
         pkt.code \in {"CONFREQ", "CONFACK"} =>
           k = 1 /\ 1 <= Len(link[p]) /\ link[p][1] = pkt,
         lcp' = [lcp EXCEPT ![p] = [s EXCEPT !.out = <<>>]],
         link' = Sent(l, p, s)
  PROVE  AckInv'
<1> DEFINE q == Peer(p)
           t == [s EXCEPT !.out = <<>>]
<1>1. /\ q \in Peers /\ q # p /\ Peer(q) = p
      /\ \A r \in Peers : r = p \/ r = q
  BY PeerType, PeerOther
<1>2. /\ lcp \in [Peers -> LcpState] /\ link \in [Peers -> Seq(Packets)]
  BY DEF Inv, TypeOK
<1>3. link' \in [Peers -> Seq(Packets)]
  BY Zenon, SentType
<1>4. Grows(link[q], s.out, link'[q]) /\ Part(l[p], 0, link'[p])
  BY SentLines
<1>5. lcp'[p] = t /\ lcp'[q] = lcp[q] /\ t.acked = s.acked /\ t.reqid = s.reqid
  <2>1. lcp'[p] = t /\ lcp'[q] = lcp[q]
    BY <1>1, <1>2
  <2>2. t.acked = s.acked /\ t.reqid = s.reqid
    BY DEF Outcome, IsLcp, Members
  <2> QED
    BY <2>1, <2>2
<1> HIDE DEF q, t
<1>6. /\ Len(link[p]) \in Nat /\ Len(link[q]) \in Nat
      /\ Len(link'[p]) \in Nat /\ Len(link'[q]) \in Nat
  BY <1>1, <1>2, <1>3
<1>7. Part(link[p], k, link'[p])
  BY Zenon, <1>4, <1>6, PartTrans
<1>8. Sound(lcp[p], lcp[q].acked, link[q], link[p]) /\ Sound(lcp[q], lcp[p].acked, link[p], link[q])
  BY Zenon, <1>1 DEF AckInv, q
<1>9. Sound(t, lcp[q].acked, link'[q], link'[p])
  <2>1. s.reqid # lcp[p].reqid =>
          /\ ~ \E n \in 1 .. Len(link[q]) :
                 link[q][n].code = "CONFREQ" /\ link[q][n].id = NextId(lcp[p])
          /\ ~Acks(link[p], NextId(lcp[p]))
    <3> SUFFICES ASSUME s.reqid # lcp[p].reqid
                 PROVE  /\ ~ \E n \in 1 .. Len(link[q]) :
                              link[q][n].code = "CONFREQ" /\ link[q][n].id = NextId(lcp[p])
                        /\ ~Acks(link[p], NextId(lcp[p]))
      OBVIOUS
    <3>1. ~Underway(p, NextId(lcp[p]))
      BY <1>5 DEF NewIdFresh
    <3> QED
      BY <3>1 DEF Underway, Acks, q
  <2>2. pkt.code = "CONFACK" => Acks(link[p], pkt.id)
    <3>1. pkt.code = "CONFACK" => 1 \in 1 .. Len(link[p]) /\ link[p][1] = pkt
      BY <1>6
    <3> QED
      BY Zenon, <3>1 DEF Acks
  <2> QED
    BY Zenon, <1>4, <1>6, <1>7, <1>8, <2>1, <2>2, OwnStep DEF t
<1>10. Sound(lcp[q], s.acked, link'[p], link'[q])
  BY ZenonT(60), <1>4, <1>6, <1>7, <1>8, PeerStep
<1>11. ASSUME NEW r \in Peers
       PROVE  Sound(lcp'[r], lcp'[Peer(r)].acked, link'[Peer(r)], link'[r])
  <2>1. CASE r = p
    BY Zenon, <1>5, <1>9, <2>1 DEF q
  <2>2. CASE r = q
    BY <1>1, <1>5, <1>10, <2>2
  <2> QED
    BY <1>1, <2>1, <2>2
<1> QED
  BY Zenon, <1>11 DEF AckInv, Peer

\* An event without a packet.
NoPacket == [code |-> "NONE", id |-> 0]

\* The same for an event that reads no packet.
LEMMA EventAck ==
  ASSUME Inv, AckInv, NewIdFresh, NEW p \in Peers,
         NEW s \in LcpState, Moves(lcp[p], s), Step(p, s)
  PROVE  AckInv'
<1>1. /\ lcp \in [Peers -> LcpState] /\ link \in [Peers -> Seq(Packets)]
  BY DEF Inv, TypeOK
<1>2. IsLcp(lcp[p]) /\ lcp[p].out = <<>> /\ lcp[p].id = lcp[p].reqid
  <2>1. lcp[p] \in LcpState
    BY Zenon, <1>1
  <2> QED
    BY <2>1, LcpMembers DEF AckInv, Sound
<1>3. Outcome(lcp[p], NoPacket, s)
  BY Zenon, <1>2, MovesOutcome
<1>4. Part(link[p], 0, link[p])
  <2> DEFINE b == link[p]
  <2>1. b \in Seq(Packets)
    BY <1>1
  <2> HIDE DEF b
  <2>2. Part(b, 0, b)
    BY <2>1 DEF Part
  <2> QED
    BY <2>2 DEF b
<1>5. NoPacket.code \notin {"CONFREQ", "CONFACK"}
  BY DEF NoPacket
<1> QED
  BY Zenon, <1>1, <1>3, <1>4, <1>5, StepAck DEF Step

\* The actions that run LCP without a packet.
LEMMA LoopAck ==
  ASSUME Inv, AckInv, NewIdFresh, NEW p \in Peers,
         \/ Connect(p) \/ Leave(p) \/ HandleSignals(p) \/ Callout(p)
         \/ Hangup(p) \/ UpperClose(p)
  PROVE  AckInv'
<1>1. lcp[p] \in LcpState /\ Good(lcp[p]) /\ IsLcp(lcp[p])
  BY Zenon, LcpMembers DEF Inv, TypeOK, LcpInv
<1>2. Good(lcp_close(lcp[p])) /\ Moves(lcp[p], lcp_close(lcp[p]))
  BY Zenon, <1>1, Close, LcpCloseIds DEF Good
<1>3. CASE Connect(p)
  <2> DEFINE o == [lcp_open(lcp[p]) EXCEPT !.hungup = FALSE]
             L(config) == lcp_lowerup([o EXCEPT !.phase = "ESTABLISH"], config)
  <2>1. Idle(lcp[p]) /\ lcp[p].state = "INITIAL" /\ lcp[p].phase = "DEAD"
    BY <1>3 DEF Inv, LcpInv, Connect, Good, Opened
  <2>2. Good(o) /\ \A config \in BOOLEAN : Good(L(config))
    BY Zenon, <2>1, OpenGood
  <2>3. Moves(lcp[p], o) /\ \A config \in BOOLEAN : Moves(lcp[p], L(config))
    BY Zenon, <1>1, <2>1, ConnectIds
  <2>4. Step(p, o) \/ \E config \in BOOLEAN : Step(p, L(config))
    BY Zenon, <1>3 DEF Connect
  <2> HIDE DEF o, L
  <2> QED
    BY Zenon, <2>2, <2>3, <2>4, GoodType, EventAck
<1>4. CASE Leave(p) \/ HandleSignals(p) \/ UpperClose(p)
  <2>1. Step(p, lcp_close(lcp[p]))
    BY Zenon, <1>4 DEF Leave, HandleSignals, UpperClose, Event
  <2> QED
    BY Zenon, <1>2, <2>1, GoodType, EventAck
<1>5. CASE FsmTimeout(p)
  <2>1. lcp[p].fsm_timeouts > 0 /\ Step(p, fsm_timeout(Fired(lcp[p])))
    BY Zenon, <1>5 DEF FsmTimeout, Event
  <2>2. Good(fsm_timeout(Fired(lcp[p])))
    BY Zenon, <1>1, <2>1, FsmTimeoutGood
  <2>3. Keeps(lcp[p], Fired(lcp[p])) /\ IsLcp(Fired(lcp[p]))
    BY Zenon, <1>1, CalloutIds DEF Keeps
  <2>4. Fired(lcp[p]).retransmits \in Int
    BY SMTT(30), <1>1 DEF Fired, LcpState
  <2>5. Moves(lcp[p], fsm_timeout(Fired(lcp[p])))
    BY Zenon, <2>3, <2>4, TimeoutIds, KeepsMoves
  <2> QED
    BY Zenon, <2>1, <2>2, <2>5, GoodType, EventAck
<1>6. CASE EchoTimeout(p)
  <2>1. lcp[p].echo_timeouts > 0 /\ Step(p, LcpEchoTimeout(lcp[p]))
    BY Zenon, <1>6 DEF EchoTimeout, Event
  <2>2. Good(LcpEchoTimeout(lcp[p]))
    BY Zenon, <1>1, <2>1, EchoTimeoutGood
  <2> QED
    BY Zenon, <1>1, <2>1, <2>2, EchoTimeoutIds, GoodType, EventAck
<1>7. CASE DelayedUp(p)
  <2>1. lcp[p].up_timeouts > 0 /\ Step(p, lcp_delayed_up(lcp[p]))
    BY Zenon, <1>7 DEF DelayedUp, Event
  <2>2. Good(lcp_delayed_up(lcp[p]))
    BY Zenon, <1>1, <2>1, DelayedUpGood
  <2> QED
    BY Zenon, <1>1, <2>1, <2>2, DelayedUpIds, GoodType, EventAck
<1>8. CASE Hangup(p)
  <2> DEFINE h == link_terminated(lcp_lowerdown([lcp[p] EXCEPT !.hungup = TRUE]))
  <2>1. lcp[p].phase # "DEAD" /\ Step(p, h)
    BY <1>8 DEF Hangup, Event
  <2>2. Good(h)
    BY <1>1, <2>1, HangupGood
  <2>3. Moves(lcp[p], h)
    BY <1>1, HangupIds
  <2> HIDE DEF h
  <2> QED
    BY Zenon, <2>1, <2>2, <2>3, GoodType, EventAck
<1> QED
  BY Zenon, <1>3, <1>4, <1>5, <1>6, <1>7, <1>8 DEF Callout

\* get_input.  That new ids are fresh is needed for the id of the packet when
\* lcp_input first makes up for a delayed lcp_lowerup, and for the lines.
LEMMA InputAck ==
  ASSUME IdMod > 2, Inv, AckInv, NewIdFresh, NEW p \in Peers, GetInput(p)
  PROVE  AckInv'
<1> DEFINE pkt == Head(link[p])
           l == [link EXCEPT ![p] = Tail(@)]
           S(code, ret, refuse) == lcp_input(lcp[p], pkt, code, ret, refuse)
<1>1. /\ lcp \in [Peers -> LcpState] /\ link \in [Peers -> Seq(Packets)]
      /\ lcp[p] \in LcpState /\ Good(lcp[p])
  BY DEF Inv, TypeOK, LcpInv
<1>2. link[p] \in Seq(Packets) /\ link[p] # <<>>
  BY <1>1 DEF GetInput
<1>3. PICK code \in Answers, ret \in {0, 1}, refuse \in BOOLEAN :
        /\ lcp' = [lcp EXCEPT ![p] = [S(code, ret, refuse) EXCEPT !.out = <<>>]]
        /\ link' = Sent(l, p, S(code, ret, refuse))
  BY Zenon DEF GetInput
<1>4. code \in {"CONFACK", "CONFNAK", "CONFREJ"} /\ ret \in Int
  BY AnswersAssumption
<1>5. /\ pkt \in Packets /\ Tail(link[p]) \in Seq(Packets)
      /\ Len(link[p]) \in Nat /\ 1 <= Len(link[p]) /\ link[p][1] = pkt
      /\ Part(link[p], 1, Tail(link[p]))
  <2> DEFINE b == link[p]
  <2>1. b \in Seq(Packets) /\ b # <<>>
    BY <1>2
  <2> HIDE DEF b
  <2>2. /\ Head(b) \in Packets /\ Tail(b) \in Seq(Packets)
        /\ Len(b) \in Nat /\ 1 <= Len(b) /\ b[1] = Head(b)
    BY <2>1
  <2>3. Len(Tail(b)) = Len(b) - 1 /\ \A n \in 1 .. Len(b) - 1 : Tail(b)[n] = b[n + 1]
    BY <2>1, <2>2
  <2>4. Part(b, 1, Tail(b))
    BY <2>2, <2>3 DEF Part
  <2> QED
    BY Zenon, <2>2, <2>4 DEF b
<1>6. /\ l \in [Peers -> Seq(Packets)] /\ l[p] = Tail(link[p])
      /\ l[Peer(p)] = link[Peer(p)]
  BY Zenon, <1>1, <1>5, PeerType, PeerOther
<1> DEFINE s == S(code, ret, refuse)
<1>7. s \in LcpState
  BY Zenon, <1>1, <1>4, <1>5, InputGood, GoodType
<1>8. lcp'[p].reqid = s.reqid
  <2> HIDE DEF s
  <2>1. lcp'[p] = [s EXCEPT !.out = <<>>]
    BY ZenonT(30), <1>1, <1>3 DEF s
  <2> QED
    BY <1>7, <2>1 DEF LcpState
<1>9. s.reqid # lcp[p].reqid /\ pkt.code \in {"CONFACK", "CONFNAK", "CONFREJ"}
        => pkt.id # NextId(lcp[p])
  <2> HIDE DEF s, pkt
  <2> QED
    BY SMTT(30), <1>5, <1>8 DEF NewIdFresh, Underway
<1>10. /\ IsLcp(lcp[p]) /\ lcp[p].echo_fails \in Nat /\ lcp[p].id \in Ids
       /\ lcp[p].out = <<>> /\ lcp[p].id = lcp[p].reqid
  <2>1. lcp[p].echo_fails \in Nat /\ lcp[p].id \in Ids
    BY Zenon, <1>1 DEF LcpState
  <2> QED
    BY Zenon, <1>1, <2>1, LcpMembers DEF AckInv, Sound
<1>11. Outcome(lcp[p], pkt, s)
  <2> HIDE DEF pkt
  <2> QED
    BY Zenon, <1>4, <1>9, <1>10, LcpInputIds
<1> HIDE DEF S, s, pkt, l
<1> QED
  BY Zenon, <1>3, <1>5, <1>6, <1>7, <1>11, StepAck DEF s

\* The actions that do not run LCP; Lose and Reject change the lines.
LEMMA OutsideAck ==
  ASSUME Inv, AckInv, NEW p \in Peers,
         Holdoff(p) \/ NetworkUp(p) \/ Signal(p) \/ Lose(p) \/ Reject(p)
  PROVE  AckInv'
<1>1. CASE Holdoff(p) \/ NetworkUp(p) \/ Signal(p)
  BY Zenon, <1>1 DEF Holdoff, NetworkUp, Signal, AckInv
<1>2. ASSUME NEW l \in Seq(Packets), l # <<>>, NEW i
      PROVE  /\ Ordered(l, i) => Ordered(Tail(l), i)
             /\ Requests(l, i) => Requests(Tail(l), i)
             /\ Acks(Tail(l), i) => Acks(l, i)
  <2>1. Len(l) \in Nat /\ Tail(l) \in Seq(Packets)
    BY <1>2
  <2>2. Len(Tail(l)) = Len(l) - 1 /\ \A n \in 1 .. Len(l) - 1 : Tail(l)[n] = l[n + 1]
    BY SMTT(30), <1>2, <2>1
  <2>3. Part(l, 1, Tail(l))
    BY <2>1, <2>2 DEF Part
  <2>4. Len(Tail(l)) \in Nat
    BY SMTT(30), <2>1
  <2> QED
    BY Zenon, <2>1, <2>3, <2>4, PartLine
<1>3. link \in [Peers -> Seq(Packets)]
  BY Zenon DEF Inv, TypeOK
<1>4. CASE Lose(p)
  <2>1. /\ lcp' = lcp /\ link[p] \in Seq(Packets) /\ link[p] # <<>>
        /\ link'[p] = Tail(link[p]) /\ \A r \in Peers : r # p => link'[r] = link[r]
    BY Zenon, <1>3, <1>4 DEF Lose
  <2>2. ASSUME NEW r \in Peers, NEW i
        PROVE  /\ Ordered(link[r], i) => Ordered(link'[r], i)
               /\ Requests(link[r], i) => Requests(link'[r], i)
               /\ Acks(link'[r], i) => Acks(link[r], i)
    BY Zenon, <1>2, <2>1
  <2> QED
    BY Zenon, <2>1, <2>2, PeerType DEF AckInv, Sound, Peer
<1>5. CASE Reject(p)
  <2>1. PICK code \in {"CODEREJ", "PROTREJ"} :
          link' = [link EXCEPT ![Peer(p)] = Tail(@),
                               ![p] = <<[code |-> code, id |-> 0, options |-> 0]>>]
    BY Zenon, <1>5 DEF Reject
  <2> DEFINE x == <<[code |-> code, id |-> 0, options |-> 0]>>
             q == Peer(p)
  <2>2. /\ q \in Peers /\ q # p /\ \A r \in Peers : r = p \/ r = q
    BY Zenon, PeerType, PeerOther
  <2>3. \A i : Ordered(x, i) /\ Requests(x, i) /\ ~Acks(x, i)
    BY SMTT(30) DEF Ordered, Requests, Acks
  <2> HIDE DEF x
  <2>4. /\ lcp' = lcp /\ link[q] \in Seq(Packets) /\ link[q] # <<>>
        /\ link'[q] = Tail(link[q]) /\ link'[p] = x
    BY ZenonT(30), <1>3, <1>5, <2>1, <2>2 DEF Reject, x
  <2>5. ASSUME NEW r \in Peers, NEW i
        PROVE  /\ Ordered(link[r], i) => Ordered(link'[r], i)
               /\ Requests(link[r], i) => Requests(link'[r], i)
               /\ Acks(link'[r], i) => Acks(link[r], i)
    <3> HIDE DEF q
    <3>1. CASE r = q
      BY Zenon, <1>2, <2>4, <3>1
    <3>2. CASE r = p
      BY Zenon, <2>3, <2>4, <3>2
    <3> QED
      BY Zenon, <2>2, <3>1, <3>2
  <2> QED
    BY Zenon, <2>4, <2>5, PeerType DEF AckInv, Sound, Peer
<1> QED
  BY Zenon, <1>1, <1>4, <1>5

\* At the start there is nothing on the lines.
LEMMA InitAck == Init => AckInv
<1> SUFFICES ASSUME Init, NEW p \in Peers
             PROVE  Sound(lcp[p], lcp[Peer(p)].acked, link[Peer(p)], link[p])
  BY DEF AckInv
<1>1. lcp[p] = lcp_init(Options[p]) /\ link[p] = <<>> /\ link[Peer(p)] = <<>>
  BY ZenonT(30), PeerType DEF Init
<1>2. /\ lcp[p].state = "INITIAL" /\ lcp[p].out = <<>> /\ lcp[p].id = lcp[p].reqid
  <2> DEFINE s == lcp_init(Options[p])
  <2>1. s.state = "INITIAL" /\ s.out = <<>> /\ s.id = 0 /\ s.reqid = 0
    BY SMTT(30) DEF lcp_init
  <2> QED
    BY Zenon, <1>1, <2>1
<1> QED
  BY SMTT(30), <1>1, <1>2 DEF Sound, Ordered, Acks, Agreed

\* AckInv is inductive if new ids are fresh.  With three ids or more, two
\* requests of one event cannot end with the id it began with.
LEMMA NextAck ==
  ASSUME IdMod > 2
  PROVE  Inv /\ AckInv /\ [Next]_vars /\ [NewIdFresh]_vars => AckInv'
<1> SUFFICES ASSUME Inv, AckInv, [Next]_vars, [NewIdFresh]_vars PROVE AckInv'
  BY Zenon
<1>1. CASE UNCHANGED vars
  BY Zenon, <1>1 DEF vars, AckInv
<1>2. CASE Next /\ NewIdFresh
  <2>1. PICK p \in Peers :
          \/ MainLoop(p) \/ Callout(p)
          \/ GetInput(p) \/ Hangup(p) \/ NetworkUp(p) \/ UpperClose(p)
          \/ Signal(p) \/ Lose(p) \/ Reject(p)
    BY Zenon, <1>2 DEF Next
  <2> QED
    BY Zenon, <1>2, <2>1, LoopAck, InputAck, OutsideAck DEF MainLoop
<1> QED
  BY <1>1, <1>2

\* AckInv implies the property of PppLink.
LEMMA AckProperty == AckInv => OpenedIsAcked
  BY DEF AckInv, Sound, Agreed, OpenedIsAcked

\* A process is OPENED only while its peer's last acknowledgement is of its
\* last request, whatever is lost, repeated, refused or closed, as long as a
\* new request never takes an id that is still under way.
THEOREM AcksCorrect ==
  ASSUME IdMod > 2
  PROVE  Spec /\ FreshIds => []OpenedIsAcked
  BY InitInv, NextInv, InitAck, NextAck, AckProperty, PTL DEF Spec, FreshIds

=============================================================================
