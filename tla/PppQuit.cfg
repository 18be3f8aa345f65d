\* Two packets fit on the line: the answerer sends its request with its answer.
SPECIFICATION FairSpec
CONSTANTS
  IdMod = 2
  maxconfreqtransmits = 1
  maxtermtransmits = 2
  Answers = {"CONFACK"}
  LinkCapacity = 2
  Faults <- MCQuitFaults
  caller = caller
  answerer = answerer
  Peers <- MCPeers
  Options <- MCOptions
CHECK_DEADLOCK FALSE
PROPERTIES
  
  DeadPeerNoticed
