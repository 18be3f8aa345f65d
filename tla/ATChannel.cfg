\* Two command threads, two calls (a hand-shake is up to two commands), three lines.
CONSTANTS
  Senders = {s1, s2}
  None = None
  Null = Null
  Prefixes <- MCPrefixes
  Commands <- MCCommands
  InputKinds = {"success", "sms"}
  MaxCalls = 2
  MaxLines = 3
SPECIFICATION FairSpec
INVARIANTS TypeOK PendingOwned NoSleepAfterClose ResponsesFreedOnce DeliveredInOrder
PROPERTIES ImplementsPort ClosedCallsReturn
\* The process may die on a nullptr line.
CHECK_DEADLOCK FALSE
