-------------------------- MODULE MCPendingCommand --------------------------
(* Instance of PendingCommand for TLC. *)
EXTENDS PendingCommand

MCPrefixes == {"+CREG:", "+CSQ:"}
MCInputKinds == LineKinds \ {"sms"}
=============================================================================
