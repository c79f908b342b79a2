CONSTANTS
  NULL = NULL
  Chars <- MCChars
  BUF_CAP = 8
  Cases <- MCUnknown
SPECIFICATION Spec
INVARIANTS
  Formatted
