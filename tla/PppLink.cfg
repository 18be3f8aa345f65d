\* Four ids outlast the packets on the line; one request is repeated.
SPECIFICATION Spec
CONSTANTS
  IdMod = 4
  maxconfreqtransmits = 2
  maxtermtransmits = 1
  Answers = {"CONFACK", "CONFREJ"}
  LinkCapacity = 1
  Faults <- MCFaults
  caller = caller
  answerer = answerer
  Peers <- MCPeers
  Options <- MCOptions
INVARIANTS
  TypeOK
  OneTimer
  UpperLayerTold
  EchoTimerMatches
  OpenedIsAcked
  FsmRestored
PROPERTIES
  FreshIds
CHECK_DEADLOCK FALSE
