\* A buffer of four characters and streams of up to eight bytes, prompts among them.
CONSTANTS
  MAX_AT_RESPONSE = 4
  Text = {"a", "gt", "sp"}
  MaxBytes = 8
SPECIFICATION Spec
INVARIANTS TypeOK CursorInData LinesOfStream LinesAreTails
\* The channel is closed after a failed read.
CHECK_DEADLOCK FALSE
