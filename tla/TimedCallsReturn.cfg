CONSTANTS
  Senders = {s1}
  None = None
  Null = Null
  Prefixes <- MCPrefixes
  Commands <- MCFewCommands
  InputKinds = {"success", "other"}
  MaxCalls = 1
  MaxLines = 1
SPECIFICATION FairSpec
PROPERTY TimedCallsReturn
CHECK_DEADLOCK FALSE
