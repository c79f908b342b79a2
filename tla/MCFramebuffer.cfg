CONSTANTS
  FBCHAN = 8
  ANOTHER = 1
  BUFFER_ADDRESS = 4096
  CAP = 1
  NULL = NULL
SPECIFICATION Spec
INVARIANTS
  TypeOK
  ErrorHonest
PROPERTIES
  RequestIntact
  Returns
