SPECIFICATION FairSpec
CONSTANTS
    Refs = {r1, r2, r3}
    Users = {u}
    NULL = NULL
INVARIANTS
  DoublyLinked
  DisposedOnce
PROPERTIES
  ImplementsRegistry
  Reclaimed
