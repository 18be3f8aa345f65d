----------------------------- MODULE MCPppLink -----------------------------
(***************************************************************************)
(* Module PppLink on a small instance: the caller negotiates actively and  *)
(* sends echo requests, the answering side waits silently for it.          *)
(***************************************************************************)
EXTENDS PppLink, TLC

CONSTANTS caller, answerer

MCPeers == {caller, answerer}

MCOptions ==
  (caller :> [passive |-> FALSE, silent |-> FALSE, listen_time |-> TRUE,
              echo_interval |-> TRUE, echo_fails |-> 1, wantoptions |-> 1,
              persist |-> TRUE, maxfail |-> 0])
  @@
  (answerer :> [passive |-> TRUE, silent |-> TRUE, listen_time |-> FALSE,
                echo_interval |-> FALSE, echo_fails |-> 0, wantoptions |-> 0,
                persist |-> TRUE, maxfail |-> 1])

MCFaults ==
  (caller :> FaultKinds \ {"SIGHUP", "SIGTERM"}) @@ (answerer :> {})

\* For the liveness properties.
MCQuitFaults ==
  (caller :> {"connect", "config", "SIGTERM"}) @@ (answerer :> {"hangup"})

=============================================================================
