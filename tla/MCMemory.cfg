CONSTANTS
  mem = 1
  mem_size = 44
  ALIGN = 2
  HEADER_SIZE = 4
  MIN_SIZE = 2
  NUM_SIZES = 6
  SIZE_MOD = 64
  NULL = NULL
  Data = Data
  Sizes <- MCSizes
  Arrays <- MCArrays
VIEW LiveState
SPECIFICATION Spec
INVARIANTS
  TypeOK
  AllListInOrder
  FreeListsExact
  Coalesced
  OwnersAgree
  CountersMatch
PROPERTIES
  OthersUntouched
  HeapPromise
