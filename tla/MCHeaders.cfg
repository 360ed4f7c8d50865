SPECIFICATION Spec
CONSTANTS
  Keys = {"accept", "accept-charset", "host"}
  Values = {v1, v2}
  Extends <- Prefixes
  Disabled = Disabled
  Nothing = Nothing
  Nulls = {"accept", "accept-charset", "host"}
  MaxLen = 4
  MaxDrift = 4
CHECK_DEADLOCK FALSE
INVARIANTS
  WalkIsSafe
  ReadersAgree
PROPERTIES
  ImplementsContract
