----------------------------- MODULE CommandPort -----------------------------
(***************************************************************************)
(* What the AT channel promises to the threads that send commands: they    *)
(* are served one at a time, each service ends with one reply, and the     *)
(* reply agrees with the channel: AT_ERROR_CHANNEL_CLOSED if and only if   *)
(* it is closed, which is for good.                                        *)
(***************************************************************************)
CONSTANTS
  Senders,     \* the threads
  None         \* not a thread

VARIABLES
  busy,        \* the thread being served, or None
  waiting,     \* the threads that wait to be served
  reply,       \* the reply of each thread, "none" until it is decided
  open         \* the channel is open

vars == <<busy, waiting, reply, open>>

Replies == IF open THEN {"AT_SUCCESS", "AT_ERROR_TIMEOUT"} ELSE {"AT_ERROR_CHANNEL_CLOSED"}

Init ==
  /\ busy = None /\ waiting = {} /\ open = TRUE
  /\ reply = [s \in Senders |-> "none"]

Request(s) ==
  /\ s \notin waiting /\ busy # s
  /\ waiting' = waiting \cup {s}
  /\ UNCHANGED <<busy, reply, open>>

Serve(s) ==
  /\ s \in waiting /\ busy = None
  /\ waiting' = waiting \ {s}
  /\ busy' = s
  /\ UNCHANGED <<reply, open>>

Decide(s) ==
  /\ busy = s /\ reply[s] = "none"
  /\ \E r \in Replies : reply' = [reply EXCEPT ![s] = r]
  /\ UNCHANGED <<busy, waiting, open>>

(* The thread leaves with its reply; it may ask again at once. *)
Leave(s) ==
  /\ busy = s /\ reply[s] # "none"
  /\ busy' = None
  /\ reply' = [reply EXCEPT ![s] = "none"]
  /\ waiting' \in {waiting, waiting \cup {s}}
  /\ UNCHANGED open

(* The input stream ends; no reply is outstanding that says otherwise. *)
Close ==
  /\ \A s \in Senders : reply[s] = "none"
  /\ open' = FALSE
  /\ UNCHANGED <<busy, waiting, reply>>

Next ==
  \/ \E s \in Senders : Request(s) \/ Serve(s) \/ Decide(s) \/ Leave(s)
  \/ Close

Spec == Init /\ [][Next]_vars
=============================================================================
