SPECIFICATION Spec
CONSTANTS
  Spellings = {"Via", "via", "x-ts", "x-v5"}
  Statuses = {"200"}
  Folded <- FoldCase
  Hash <- HashByName
  HEADER_BUF_SIZE_DEFAULT = 2
  MaxLines = 6
CHECK_DEADLOCK FALSE
INVARIANTS
  InOrder
  LastValueByName
  NothingFreedReachable
  FieldsComplete
