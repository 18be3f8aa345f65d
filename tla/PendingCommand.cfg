\* Two commands of every type, four lines of any class but the SMS header,
\* which never reaches ProcessLine.
CONSTANTS
  Null = Null
  Prefixes <- MCPrefixes
  InputKinds <- MCInputKinds
  MaxCommands = 2
  MaxLines = 4
SPECIFICATION Spec
INVARIANTS TypeOK  NoLineLost PduWrittenOnce
\* Ends when the lines and commands are used up.
CHECK_DEADLOCK FALSE
