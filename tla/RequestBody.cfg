CONSTANTS
  Chunk = {a, b}
  MaxChunks = 3
  Failure = failure
SPECIFICATION Spec
CHECK_DEADLOCK FALSE
INVARIANTS
  InOrder
PROPERTIES
  ImplementsTransfer
  BodySettles
