SPECIFICATION FairSpec
CONSTANTS
  Body <- ShortBody
  MaxChunk = 1
  MaxCount = 1
  MaxOffered = 1
  Modes <- BothWays
  Goals = {9}
  MaxResponses = 1
CHECK_DEADLOCK FALSE
PROPERTY CallsReturn
