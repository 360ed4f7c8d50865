SPECIFICATION Spec
CONSTANTS
  Keys <- MCKeys
  Values = {v1}
  NULL = NULL
  NameText <- MCNameText
  Hash <- MCHash
  Equals <- MCEquals
  Capacities = {0, 2}
CHECK_DEADLOCK FALSE
INVARIANTS
  LookupComplete
  Accounted
  FoundInAnySpelling
PROPERTIES
  ImplementsDictionary
