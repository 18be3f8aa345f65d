\* The operations that lose, or free twice, a response.
CONSTANTS
  Null = Null
  Garbage = Garbage
  Lines <- MCFewLines
  MaxLines = 2
  MaxCalls = 2
  Ops = {"setEhrpd", "getAPNS", "getNet3GPP", "getSIMStatus"}
SPECIFICATION Spec
INVARIANT ResponsesFreed
CHECK_DEADLOCK FALSE
