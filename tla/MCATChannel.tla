----------------------------- MODULE MCATChannel -----------------------------
(* Instances of ATChannel for TLC. *)
EXTENDS ATChannel

CREG == "+CREG:"
MCPrefixes == {CREG}

(* A plain command, a command that expects an intermediate line, and the
   hand-shake, the only timed and repeated one. *)
MCCommands == {SendCommand(TRUE), SendCommandSms(CREG, TRUE), HandShake(2)}

(* A timed and an untimed command, for the liveness properties. *)
MCFewCommands == {SendCommand(TRUE), HandShake(2)}
=============================================================================
