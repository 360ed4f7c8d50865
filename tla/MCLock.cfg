SPECIFICATION Spec
CONSTANTS
  Threads = {t1, t2, t3}
  Stale = Stale
  MaxCount = 2
  Goals = {0, 2}
INVARIANTS
  Exclusive
  CallbacksUseOwnPointers
  LockAccounted
  WriteCountHonest
