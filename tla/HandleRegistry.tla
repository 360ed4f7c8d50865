--------------------------- MODULE HandleRegistry ---------------------------
(***************************************************************************)
(* What CleanerRef promises: it keeps a set of native handles, takes a     *)
(* handle out once, and disposes of it once after that.                    *)
(***************************************************************************)
EXTENDS Naturals

CONSTANT Refs

VARIABLES members, released, disposals

vars == <<members, released, disposals>>

Init == members = {} /\ released = {} /\ disposals = [r \in Refs |-> 0]

Register(r) ==
    /\ r \notin members \union released /\ disposals[r] = 0
    /\ members' = members \union {r}
    /\ UNCHANGED <<released, disposals>>

Release(r) ==
    /\ r \in members
    /\ members' = members \ {r} /\ released' = released \union {r}
    /\ UNCHANGED disposals

Dispose(r) ==
    /\ r \in released
    /\ released' = released \ {r}
    /\ disposals' = [disposals EXCEPT ![r] = @ + 1]
    /\ UNCHANGED members

Next == \E r \in Refs : Register(r) \/ Release(r) \/ Dispose(r)

Spec == Init /\ [][Next]_vars
=============================================================================
