\* Three calls of any of the operations that keep to the ownership of responses.
CONSTANTS
  Null = Null
  Garbage = Garbage
  Lines <- MCLines
  MaxLines = 1
  MaxCalls = 3
  Ops = {"initModem", "getModem", "getRadioState", "setRadioState", "getSIMStatus",
         "setErrorLevel", "setPinCode", "setCall", "listOperators", "getNetStatus",
         "readSMS", "setAPNS", "getSIMLock", "setSignalNotify", "setSMSFormat",
         "getNetMode", "setAudio", "clearAPNS", "getOperator", "setNetSearchType", "setTTS"}
SPECIFICATION Spec
INVARIANTS TypeOK ResponsesFreedWhileOpen 
\* The calls are bounded, and an empty callback or a bad pointer ends the process.
CHECK_DEADLOCK FALSE
