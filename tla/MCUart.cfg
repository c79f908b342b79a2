CONSTANTS
  Chars <- MCChars
  Text <- MCText
  Panic <- MCPanic
  Lines <- MCLines
  Dump <- MCDump
  DEPTH = 2
SPECIFICATION Spec
INVARIANTS
  IrqLinesWhole
  LossBounded
  LastWords
PROPERTIES
  AllPrinted
