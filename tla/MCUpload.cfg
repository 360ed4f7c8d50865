SPECIFICATION Spec
CONSTANTS
  Body <- ShortBody
  MaxChunk = 2
  MaxCount = 2
  MaxOffered = 2
  Modes <- BothWays
  Goals = {1, 9}
  MaxResponses = 1
CHECK_DEADLOCK FALSE
INVARIANTS
  SentInOrder
  ShortWriteOnlyAtTheEnd
  NeedFlagsMatchCall
  PausesAreFlagged
  NoWaitOnPausedTransfer
