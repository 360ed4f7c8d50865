SPECIFICATION Spec
CONSTANTS
  Body <- MCBody
  MaxChunk = 2
  MaxCount = 2
  MaxOffered = 0
  Modes <- Downloads
  Goals = {0}
  MaxResponses = 2
CHECK_DEADLOCK FALSE
INVARIANTS
  TypeOK
  DeliveredInOrder
  EofOnlyAtTheEnd
  ReadCountHonest
  SingleByteIsNext
