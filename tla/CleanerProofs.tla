--------------------------- MODULE CleanerProofs ---------------------------
(***************************************************************************)
(* Proofs, for any set of handles and any threads that close them, that    *)
(* the static list of CleanerRef stays doubly linked, that no handle is    *)
(* disposed of twice, and that the list implements a set of handles.       *)
(***************************************************************************)
EXTENDS CleanerRegistry, TLAPS

(* The inductive invariant, in parts. *)

\* A reference that was not added yet has no part in the list.
FreshInv ==
    \A r \in Refs : scope[r] \in {"none", "creating"} =>
        next[r] = NULL /\ prev[r] = NULL /\ first # r /\ disposals[r] = 0

\* next and prev are inverse on all references, removed ones included: these
\* point to themselves, so nothing else points to them.
LinkInv ==
    /\ first # NULL => prev[first] = NULL
    /\ \A r \in Refs : next[r] # NULL => prev[next[r]] = r
    /\ \A r \in Refs : prev[r] # NULL => next[prev[r]] = r

\* Only references that were added are enqueued and closed.
ClosingInv ==
    /\ \A r \in queue : scope[r] = "dropped"
    /\ \A t \in Threads : at[t] # "idle" => scope[held[t]] \in {"held", "dropped"}

\* Between remove and nativeDispose a handle belongs to one thread.
OwnerInv ==
    /\ \A t \in Threads : at[t] = "dispose" => Removed(held[t]) /\ disposals[held[t]] = 0
    /\ \A t, u \in Threads :
          at[t] = "dispose" /\ at[u] = "dispose" /\ held[t] = held[u] => t = u
    /\ \A r \in Refs : disposals[r] # 0 => Removed(r)

IInv == TypeOK /\ FreshInv /\ LinkInv /\ ClosingInv /\ OwnerInv /\ DisposedOnce

\* A reference that was added and not removed is reached from the head.
LiveInv ==
    \A r \in Refs : scope[r] \in {"held", "dropped"} /\ ~Removed(r) => r \in Listed

-----------------------------------------------------------------------------
\* The static initialiser leaves an empty list.
LEMMA InitInv == Init => IInv
  <1> SUFFICES ASSUME Init PROVE IInv
    OBVIOUS
  <1>1. TypeOK
    BY DEF Init, TypeOK
  <1>2. FreshInv /\ LinkInv
    BY RegistryAssumption DEF Init, FreshInv, LinkInv
  <1>3. ClosingInv /\ OwnerInv /\ DisposedOnce
    BY DEF Init, ClosingInv, OwnerInv, DisposedOnce
  <1> QED
    BY <1>1, <1>2, <1>3 DEF IInv

\* A CurlHttp and its CleanerRef are made.
LEMMA ConstructStep == ASSUME IInv, NEW r \in Refs, Construct(r) PROVE IInv'
  <1> USE DEF IInv
  <1>1. TypeOK'
    BY DEF TypeOK, Construct
  <1>2. FreshInv'
    BY DEF TypeOK, FreshInv, Construct
  <1>3. LinkInv' /\ DisposedOnce'
    BY DEF LinkInv, DisposedOnce, Construct
  <1>4. ClosingInv'
    BY DEF TypeOK, ClosingInv, Construct
  <1>5. OwnerInv'
    BY DEF OwnerInv, Removed, Construct
  <1> QED
    BY <1>1, <1>2, <1>3, <1>4, <1>5

\* add: no link names the new reference, and nothing precedes the old head.
LEMMA AddStep == ASSUME IInv, NEW r \in Refs, Add(r) PROVE IInv'
  <1> USE DEF IInv
  <1>0. next[r] = NULL /\ prev[r] = NULL /\ first # r /\ disposals[r] = 0
    BY DEF FreshInv, Add
  <1>1. TypeOK'
    BY DEF TypeOK, Add, Linked
  <1>2. FreshInv'
    BY <1>0 DEF TypeOK, FreshInv, Add, Linked
  <1>3. LinkInv'
    BY <1>0, RegistryAssumption DEF TypeOK, LinkInv, Add, Linked
  <1>4. ClosingInv'
    BY DEF TypeOK, ClosingInv, Add
  <1>5. OwnerInv'
    <2>1. \A s \in Refs : Removed(s) => Removed(s)'
      BY <1>0, RegistryAssumption DEF TypeOK, Removed, Add, Linked
    <2> QED
      BY <2>1 DEF TypeOK, OwnerInv, Add
  <1>6. DisposedOnce'
    BY DEF DisposedOnce, Add
  <1> QED
    BY <1>1, <1>2, <1>3, <1>4, <1>5, <1>6

\* The application drops a scope.
LEMMA DropStep == ASSUME IInv, NEW r \in Refs, Drop(r) PROVE IInv'
  <1> USE DEF IInv
  <1>1. TypeOK'
    BY DEF TypeOK, Drop
  <1>2. FreshInv'
    BY DEF TypeOK, FreshInv, Drop
  <1>3. LinkInv' /\ DisposedOnce'
    BY DEF LinkInv, DisposedOnce, Drop
  <1>4. ClosingInv'
    BY DEF TypeOK, ClosingInv, Drop
  <1>5. OwnerInv'
    BY DEF OwnerInv, Removed, Drop
  <1> QED
    BY <1>1, <1>2, <1>3, <1>4, <1>5

\* The collector enqueues a reference.
LEMMA EnqueueStep == ASSUME IInv, NEW r \in Refs, Enqueue(r) PROVE IInv'
  <1> USE DEF IInv
  <1>1. TypeOK'
    BY DEF TypeOK, Enqueue
  <1>2. FreshInv' /\ LinkInv' /\ DisposedOnce'
    BY DEF FreshInv, LinkInv, DisposedOnce, Enqueue
  <1>3. ClosingInv'
    BY DEF TypeOK, ClosingInv, Enqueue
  <1>4. OwnerInv'
    BY DEF OwnerInv, Removed, Enqueue
  <1> QED
    BY <1>1, <1>2, <1>3, <1>4

\* The reaper takes a reference, or a user's thread calls close().
LEMMA CallStep ==
    ASSUME IInv, NEW r \in Refs, NEW t \in Threads,
           (Take(r) /\ t = "reaper") \/ CallClose(t, r)
    PROVE  IInv'
  <1> USE DEF IInv
  <1>1. /\ at[t] = "idle" /\ scope[r] \in {"held", "dropped"}
        /\ at' = [at EXCEPT ![t] = "close"] /\ held' = [held EXCEPT ![t] = r]
        /\ queue' \subseteq queue
        /\ UNCHANGED <<first, next, prev, scope, armed, disposals>>
    BY DEF Take, CallClose, ClosingInv
  <1>2. TypeOK'
    BY <1>1, RegistryAssumption DEF TypeOK
  <1>3. FreshInv' /\ LinkInv' /\ DisposedOnce'
    BY <1>1 DEF FreshInv, LinkInv, DisposedOnce
  <1>4. ClosingInv'
    BY <1>1 DEF TypeOK, ClosingInv
  <1>5. OwnerInv'
    BY <1>1 DEF TypeOK, OwnerInv, Removed
  <1> QED
    BY <1>2, <1>3, <1>4, <1>5

\* close() of a reference that is gone.
LEMMA RemoveAgainStep == ASSUME IInv, NEW t \in Threads, RemoveAgain(t) PROVE IInv'
  <1> USE DEF IInv
  <1>1. TypeOK'
    BY DEF TypeOK, RemoveAgain
  <1>2. FreshInv' /\ LinkInv' /\ DisposedOnce'
    BY DEF FreshInv, LinkInv, DisposedOnce, RemoveAgain
  <1>3. ClosingInv'
    BY DEF TypeOK, ClosingInv, RemoveAgain
  <1>4. OwnerInv'
    BY DEF TypeOK, OwnerInv, Removed, RemoveAgain
  <1> QED
    BY <1>1, <1>2, <1>3, <1>4

\* remove: both neighbours are taken from the links of the one removed, which no
\* other reference shares, and references removed before keep pointing to
\* themselves.
LEMMA RemoveStep == ASSUME IInv, NEW t \in Threads, Remove(t) PROVE IInv'
  <1> USE DEF IInv
  <1> DEFINE c == held[t]
  <1>0. /\ c \in Refs /\ next[c] # c /\ prev[c] # c /\ scope[c] \in {"held", "dropped"}
        /\ disposals[c] = 0
    <2>1. c \in Refs /\ next[c] # c /\ scope[c] \in {"held", "dropped"}
      BY DEF TypeOK, ClosingInv, Remove, Removed
    <2>2. prev[c] # c
      BY <2>1, RegistryAssumption DEF LinkInv
    <2>3. disposals[c] = 0
      BY <2>1 DEF OwnerInv, Removed
    <2> QED
      BY <2>1, <2>2, <2>3
  <1>1. TypeOK'
    <2>1. first' \in Refs \union {NULL}
      BY <1>0 DEF TypeOK, Remove, Unlinked
    <2>2. next' \in [Refs -> Refs \union {NULL}] /\ prev' \in [Refs -> Refs \union {NULL}]
      BY <1>0 DEF TypeOK, Remove, Unlinked
    <2>3. /\ at' \in [Threads -> {"idle", "close", "dispose"}]
          /\ \A u \in Threads : at'[u] = "idle" <=> held'[u] = NULL
      BY <1>0 DEF TypeOK, Remove
    <2> QED
      BY <2>1, <2>2, <2>3 DEF TypeOK, Remove
  <1>2. FreshInv'
    <2> SUFFICES ASSUME NEW r \in Refs, scope[r] \in {"none", "creating"}
                 PROVE  next'[r] = NULL /\ prev'[r] = NULL /\ first' # r /\ disposals[r] = 0
      BY DEF FreshInv, Remove
    <2>1. r # c /\ next[r] = NULL /\ prev[r] = NULL /\ first # r /\ disposals[r] = 0
      BY <1>0 DEF FreshInv
    <2>2. r # prev[c] /\ r # next[c]
      BY <1>0, <2>1, RegistryAssumption DEF LinkInv
    <2> QED
      BY <2>1, <2>2 DEF Remove, Unlinked
  <1>3. LinkInv'
    <2>1. first' # NULL => prev'[first'] = NULL
      BY <1>0, RegistryAssumption DEF TypeOK, LinkInv, Remove, Unlinked
    <2>2. \A r \in Refs : next'[r] # NULL => prev'[next'[r]] = r
      BY <1>0, RegistryAssumption DEF TypeOK, LinkInv, Remove, Unlinked
    <2>3. \A r \in Refs : prev'[r] # NULL => next'[prev'[r]] = r
      BY <1>0, RegistryAssumption DEF TypeOK, LinkInv, Remove, Unlinked
    <2> QED
      BY <2>1, <2>2, <2>3 DEF LinkInv
  <1>4. ClosingInv'
    BY DEF TypeOK, ClosingInv, Remove
  <1>5. OwnerInv'
    <2>1. \A r \in Refs : Removed(r) => Removed(r)'
      BY <1>0, RegistryAssumption DEF TypeOK, LinkInv, Removed, Remove, Unlinked
    <2>2. Removed(c)'
      BY <1>0 DEF Removed, Remove, Unlinked
    <2>3. \A u \in Threads : at[u] = "dispose" => held[u] # c
      BY <1>0 DEF OwnerInv, Removed
    <2> QED
      BY <1>0, <2>1, <2>2, <2>3 DEF TypeOK, OwnerInv, Remove
  <1>6. DisposedOnce'
    BY DEF DisposedOnce, Remove
  <1> QED
    BY <1>1, <1>2, <1>3, <1>4, <1>5, <1>6

\* nativeDispose of a handle that its thread alone has taken out.
LEMMA DisposeStep == ASSUME IInv, NEW t \in Threads, Dispose(t) PROVE IInv'
  <1> USE DEF IInv
  <1>0. held[t] \in Refs /\ Removed(held[t]) /\ disposals[held[t]] = 0
    BY DEF TypeOK, OwnerInv, Dispose
  <1>1. TypeOK'
    BY <1>0 DEF TypeOK, Dispose
  <1>2. FreshInv'
    BY <1>0, RegistryAssumption DEF TypeOK, FreshInv, Removed, Dispose
  <1>3. LinkInv'
    BY DEF LinkInv, Dispose
  <1>4. ClosingInv'
    BY DEF TypeOK, ClosingInv, Dispose
  <1>5. OwnerInv'
    BY <1>0 DEF TypeOK, OwnerInv, Removed, Dispose
  <1>6. DisposedOnce'
    BY <1>0 DEF TypeOK, DisposedOnce, Dispose
  <1> QED
    BY <1>1, <1>2, <1>3, <1>4, <1>5, <1>6

-----------------------------------------------------------------------------
\* Every step keeps the invariant.
LEMMA NextInv == IInv /\ [Next]_vars => IInv'
  <1> SUFFICES ASSUME IInv, [Next]_vars PROVE IInv'
    OBVIOUS
  <1>1. CASE UNCHANGED vars
    BY <1>1 DEF IInv, vars, TypeOK, FreshInv, LinkInv, ClosingInv, OwnerInv, Removed,
                DisposedOnce
  <1>2. CASE \E r \in Refs : Construct(r) \/ Add(r) \/ Drop(r) \/ Enqueue(r)
    BY <1>2, ConstructStep, AddStep, DropStep, EnqueueStep
  <1>3. CASE \E r \in Refs : Take(r)
    BY <1>3, CallStep DEF Threads
  <1>4. CASE \E t \in Users, r \in Refs : CallClose(t, r)
    BY <1>4, CallStep DEF Threads
  <1>5. CASE \E t \in Threads : RemoveAgain(t) \/ Remove(t) \/ Dispose(t)
    BY <1>5, RemoveAgainStep, RemoveStep, DisposeStep
  <1> QED
    BY <1>1, <1>2, <1>3, <1>4, <1>5 DEF Next

\* The inductive invariant holds throughout.
LEMMA Invariance == Spec => []IInv
  BY InitInv, NextInv, PTL DEF Spec

\* CleanerRef's links name references, and a thread inside close() holds one, for
\* any number of handles and threads.
THEOREM RegistryTypeCorrect == Spec => []TypeOK
  <1>1. IInv => TypeOK
    BY DEF IInv
  <1> QED
    BY <1>1, Invariance, PTL

\* add and remove keep next and prev inverse along the static list, in any order
\* of additions and removals.
THEOREM ListSound == Spec => []DoublyLinked
  <1>1. IInv => DoublyLinked
    BY DEF IInv, LinkInv, DoublyLinked, Listed, Reached
  <1> QED
    BY <1>1, Invariance, PTL

\* close() calls nativeDispose at most once for a handle, whichever threads call
\* it and however often.
THEOREM DisposeOnce == Spec => []DisposedOnce
  <1>1. IInv => DisposedOnce
    BY DEF IInv
  <1> QED
    BY <1>1, Invariance, PTL

-----------------------------------------------------------------------------
(* The list as a set.  Listed is the least set that holds the head and is      *)
(* closed under next, so what is in it is shown by induction: a set that holds *)
(* the head and is closed under next holds all of Listed.                      *)

\* S holds the head h and is closed under the links n
HoldsList(S, h, n) ==
    /\ S \subseteq Refs
    /\ h # NULL => h \in S
    /\ \A s \in S : n[s] # NULL => n[s] \in S

\* What is reached is in each such set, and is such a set.
LEMMA ListedLeast == ASSUME NEW S, HoldsList(S, first, next) PROVE Listed \subseteq S
  BY RegistryAssumption DEF HoldsList, Listed, Reached

LEMMA ListedCloses == ASSUME TypeOK PROVE HoldsList(Listed, first, next)
  <1>1. ASSUME first # NULL PROVE first \in Listed
    BY <1>1 DEF TypeOK, Listed, Reached
  <1>2. ASSUME NEW r \in Listed, next[r] # NULL PROVE next[r] \in Listed
    <2>1. r \in Refs /\ next[r] \in Refs
      BY <1>2 DEF TypeOK, Listed, Reached
    <2> QED
      BY <1>2, <2>1 DEF Listed, Reached
  <1> QED
    BY <1>1, <1>2 DEF HoldsList, Listed, Reached

LEMMA ListedLeastNext ==
    ASSUME NEW S, HoldsList(S, first', next') PROVE Listed' \subseteq S
  BY RegistryAssumption DEF HoldsList, Listed, Reached

LEMMA ListedClosesNext == ASSUME TypeOK' PROVE HoldsList(Listed', first', next')
  <1>1. ASSUME first' # NULL PROVE first' \in Listed'
    BY <1>1 DEF TypeOK, Listed, Reached
  <1>2. ASSUME NEW r \in Listed', next'[r] # NULL PROVE next'[r] \in Listed'
    <2>1. r \in Refs /\ next'[r] \in Refs
      BY <1>2 DEF TypeOK, Listed, Reached
    <2> QED
      BY <1>2, <2>1 DEF Listed, Reached
  <1> QED
    BY <1>1, <1>2 DEF HoldsList, Listed, Reached

\* No removed reference is on the list.
LEMMA ListedLives == ASSUME TypeOK, LinkInv PROVE \A r \in Listed : ~Removed(r)
  <1> DEFINE S == {r \in Refs : ~Removed(r)}
  <1>1. HoldsList(S, first, next)
    BY RegistryAssumption DEF HoldsList, Removed, TypeOK, LinkInv
  <1> QED
    BY <1>1, ListedLeast

\* Only the head has nothing before it.
LEMMA ListedHead == ASSUME TypeOK, LinkInv PROVE \A r \in Listed : prev[r] = NULL => r = first
  <1> DEFINE S == {r \in Refs : prev[r] = NULL => r = first}
  <1>1. HoldsList(S, first, next)
    BY RegistryAssumption DEF HoldsList, TypeOK, LinkInv
  <1> QED
    BY <1>1, ListedLeast

\* A reference that was not added yet is not on the list.
LEMMA FreshUnlisted ==
    ASSUME IInv, NEW r \in Refs, scope[r] \in {"none", "creating"} PROVE r \notin Listed
  <1> DEFINE S == Refs \ {r}
  <1>1. HoldsList(S, first, next)
    BY RegistryAssumption DEF HoldsList, IInv, TypeOK, LinkInv, FreshInv
  <1> QED
    BY <1>1, ListedLeast

\* add puts in the reference it is called for.
LEMMA AddListed == ASSUME IInv, NEW r \in Refs, Add(r) PROVE Listed' = Listed \union {r}
  <1>0. r \notin Listed /\ next[r] = NULL /\ prev[r] = NULL /\ first # r /\ TypeOK'
    BY FreshUnlisted, AddStep DEF IInv, FreshInv, Add
  <1>1. HoldsList(Listed \union {r}, first', next')
    BY <1>0, ListedCloses, RegistryAssumption DEF IInv, TypeOK, HoldsList, Add, Linked
  <1>2. HoldsList(Listed', first, next)
    BY <1>0, ListedClosesNext, RegistryAssumption DEF IInv, TypeOK, HoldsList, Add, Linked
  <1>3. r \in Listed'
    BY <1>0, ListedClosesNext, RegistryAssumption DEF HoldsList, Add, Linked
  <1> QED
    BY <1>1, <1>2, <1>3, ListedLeast, ListedLeastNext

\* remove takes out the one it is called for: what follows it is reached from what
\* precedes it, or is the new head.
LEMMA RemoveListed ==
    ASSUME IInv, NEW t \in Threads, Remove(t), held[t] \in Listed
    PROVE  Listed' = Listed \ {held[t]}
  <1> DEFINE c == held[t]
  <1>0. c \in Refs /\ next[c] # c /\ prev[c] # c /\ TypeOK' /\ TypeOK /\ LinkInv
    <2>1. c \in Refs /\ next[c] # c
      BY DEF Remove, Removed, Listed, Reached
    <2>2. prev[c] # c
      BY <2>1, RegistryAssumption DEF IInv, LinkInv
    <2> QED
      BY <2>1, <2>2, RemoveStep DEF IInv
  <1>1. HoldsList(Listed \ {c}, first', next')
    <2>1. first = c => prev[c] = NULL
      BY <1>0, RegistryAssumption DEF LinkInv
    <2>2. first' # NULL => first' \in Listed \ {c}
      BY <1>0, <2>1, ListedCloses DEF HoldsList, Remove, Unlinked
    <2>3. ASSUME NEW s \in Listed \ {c}, next'[s] # NULL PROVE next'[s] \in Listed \ {c}
      <3>1. s \in Refs /\ next'[s] = IF s = prev[c] THEN next[c] ELSE next[s]
        BY <1>0 DEF Remove, Unlinked, Listed, Reached
      <3>2. s # prev[c] => next[s] # c
        BY <1>0, <3>1, RegistryAssumption DEF LinkInv
      <3> QED
        BY <1>0, <2>3, <3>1, <3>2, ListedCloses DEF HoldsList
    <2> QED
      BY <2>2, <2>3 DEF HoldsList, Listed, Reached
  <1>2. ASSUME NEW s \in Listed, s # c PROVE s \in Listed'
    <2> DEFINE S == {r \in Refs : IF r = c THEN first = c \/ prev[c] \in Listed'
                                          ELSE r \in Listed'}
    <2>0. HoldsList(Listed', first', next')
      BY <1>0, ListedClosesNext
    <2>1. first # NULL => first \in S
      BY <1>0, <2>0 DEF TypeOK, HoldsList, Remove, Unlinked
    <2>2. ASSUME NEW r \in S, next[r] # NULL PROVE next[r] \in S
      <3>1. next[r] \in Refs
        BY <2>2 DEF TypeOK, IInv
      <3>2. CASE r = c
        <4>1. first = c => first' = next[c]
          BY <2>2, <3>2 DEF Remove, Unlinked
        <4>2. prev[c] \in Listed' => prev[c] \in Refs /\ next'[prev[c]] = next[c]
          BY <1>0 DEF Remove, Unlinked, Listed, Reached
        <4> QED
          BY <1>0, <2>0, <2>2, <3>1, <3>2, <4>1, <4>2 DEF HoldsList
      <3>3. CASE r # c /\ r = prev[c]
        <4>1. next[r] = c
          BY <1>0, <3>3, RegistryAssumption DEF LinkInv
        <4> QED
          BY <1>0, <2>2, <3>3, <4>1
      <3>4. CASE r # c /\ r # prev[c]
        <4>1. next'[r] = next[r] /\ next[r] # c
          BY <1>0, <2>2, <3>4, RegistryAssumption DEF LinkInv, Remove, Unlinked
        <4> QED
          BY <2>0, <2>2, <3>1, <3>4, <4>1 DEF HoldsList
      <3> QED
        BY <3>2, <3>3, <3>4
    <2>3. HoldsList(S, first, next)
      BY <2>1, <2>2 DEF HoldsList
    <2> QED
      BY <1>2, <2>3, ListedLeast
  <1>3. Listed \subseteq Refs /\ Listed' \subseteq Listed \ {c}
    BY <1>1, ListedLeastNext DEF Listed, Reached
  <1> QED
    BY <1>2, <1>3

\* A reference stays removed.
LEMMA StaysRemoved ==
    ASSUME IInv, NEW t \in Threads, Remove(t), NEW r \in Refs PROVE Removed(r) => Removed(r)'
  <1>1. held[t] \in Refs /\ next[held[t]] # held[t]
    BY DEF IInv, TypeOK, Remove, Removed
  <1> QED
    BY <1>1, RegistryAssumption DEF IInv, TypeOK, LinkInv, Removed, Remove, Unlinked

\* The list is a function of the head and the links.
LEMMA SameList == ASSUME first' = first, next' = next PROVE Listed' = Listed
  BY DEF Listed, Reached

\* What was added stays listed until it is removed.
LEMMA LiveStep == IInv /\ LiveInv /\ [Next]_vars => LiveInv'
  <1> SUFFICES ASSUME IInv, LiveInv, [Next]_vars PROVE LiveInv'
    OBVIOUS
  <1>1. ASSUME NEW r \in Refs, Add(r) PROVE LiveInv'
    <2>1. \A s \in Refs : ~Removed(s)' /\ s # r => ~Removed(s)
      BY <1>1, RegistryAssumption DEF IInv, TypeOK, FreshInv, Removed, Add, Linked
    <2> QED
      BY <1>1, <2>1, AddListed DEF LiveInv, IInv, TypeOK, Add
  <1>2. ASSUME NEW t \in Threads, Remove(t) PROVE LiveInv'
    <2>1. held[t] \in Listed /\ Removed(held[t])'
      BY <1>2, RegistryAssumption DEF IInv, TypeOK, ClosingInv, LiveInv, Remove, Removed, Unlinked
    <2>2. \A s \in Refs : Removed(s) => Removed(s)'
      BY <1>2, StaysRemoved
    <2> QED
      BY <1>2, <2>1, <2>2, RemoveListed DEF LiveInv, Remove
  <1>3. ASSUME UNCHANGED <<first, next>>,
               \A r \in Refs : scope'[r] \in {"held", "dropped"} => scope[r] \in {"held", "dropped"}
        PROVE  LiveInv'
    BY <1>3, SameList DEF LiveInv, Removed
  <1>4. CASE UNCHANGED vars
    BY <1>3, <1>4 DEF vars
  <1>5. ASSUME NEW r \in Refs, Construct(r) \/ Drop(r) \/ Enqueue(r) \/ Take(r)
        PROVE  LiveInv'
    BY <1>3, <1>5 DEF IInv, TypeOK, Construct, Drop, Enqueue, Take
  <1>6. ASSUME NEW t \in Threads, RemoveAgain(t) \/ Dispose(t) PROVE LiveInv'
    BY <1>3, <1>6 DEF RemoveAgain, Dispose
  <1>7. ASSUME NEW t \in Users, NEW r \in Refs, CallClose(t, r) PROVE LiveInv'
    BY <1>3, <1>7 DEF CallClose
  <1> QED
    BY <1>1, <1>2, <1>4, <1>5, <1>6, <1>7 DEF Next

-----------------------------------------------------------------------------
(* The list implements HandleRegistry. *)

\* the handles that were taken out and not disposed of yet
Released == {held[t] : t \in {u \in Threads : at[u] = "dispose"}}

\* The static initialiser leaves the empty set.
LEMMA InitRegistry == Init => Registry!Init
  <1> SUFFICES ASSUME Init PROVE Registry!Init
    OBVIOUS
  <1>1. HoldsList({}, first, next)
    BY DEF Init, HoldsList
  <1> QED
    BY <1>1, ListedLeast DEF Init, Registry!Init

\* A step outside the list and outside dispose is none of the set.
LEMMA RegistryStutters ==
    ASSUME UNCHANGED <<first, next, disposals>>, Released' = Released
    PROVE  UNCHANGED Registry!vars
  BY SameList DEF Registry!vars, Released

\* add registers, remove releases, nativeDispose disposes, and no other step is
\* seen.
LEMMA StepRegistry ==
    IInv /\ LiveInv /\ [Next]_vars => [Registry!Next]_(Registry!vars)
  <1> SUFFICES ASSUME IInv, LiveInv, [Next]_vars PROVE [Registry!Next]_(Registry!vars)
    OBVIOUS
  <1>1. ASSUME NEW r \in Refs, Add(r) PROVE Registry!Register(r)
    <2>1. r \notin Listed /\ r \notin Released /\ disposals[r] = 0
      <3>1. r \notin Listed
        BY <1>1, FreshUnlisted DEF Add
      <3>2. r \notin Released
        BY <1>1 DEF IInv, ClosingInv, Released, Add
      <3> QED
        BY <1>1, <3>1, <3>2 DEF IInv, FreshInv, Add
    <2>2. Released' = Released
      BY <1>1 DEF Released, Add
    <2> QED
      BY <1>1, <2>1, <2>2, AddListed DEF Registry!Register, Released, Add
  <1>2. ASSUME NEW t \in Threads, Remove(t) PROVE \E r \in Refs : Registry!Release(r)
    <2>1. held[t] \in Refs /\ held[t] \in Listed
      BY <1>2, RegistryAssumption DEF IInv, TypeOK, ClosingInv, LiveInv, Remove
    <2>2. Released' = Released \union {held[t]}
      BY <1>2 DEF IInv, TypeOK, Released, Remove
    <2>3. \A r \in Refs : r = held[t] => Registry!Release(r)
      BY <1>2, <2>1, <2>2, RemoveListed DEF Registry!Release, Released, Remove
    <2> QED
      BY <2>1, <2>3
  <1>3. ASSUME NEW t \in Threads, Dispose(t) PROVE \E r \in Refs : Registry!Dispose(r)
    <2>1. held[t] \in Refs /\ held[t] \in Released
      BY <1>3, RegistryAssumption DEF IInv, TypeOK, Released, Dispose
    <2>2. Released' = Released \ {held[t]}
      BY <1>3 DEF IInv, TypeOK, OwnerInv, Released, Dispose
    <2>3. Listed' = Listed
      BY <1>3, SameList DEF Dispose
    <2>4. \A r \in Refs : r = held[t] => Registry!Dispose(r)
      BY <1>3, <2>1, <2>2, <2>3 DEF Registry!Dispose, Released, Dispose
    <2> QED
      BY <2>1, <2>4
  <1>4. CASE UNCHANGED vars
    BY <1>4, RegistryStutters DEF vars, Released
  <1>5. ASSUME NEW r \in Refs, Construct(r) \/ Drop(r) \/ Enqueue(r)
        PROVE  UNCHANGED Registry!vars
    BY <1>5, RegistryStutters DEF Released, Construct, Drop, Enqueue
  <1>6. ASSUME NEW r \in Refs, NEW t \in Threads, (Take(r) /\ t = "reaper") \/ CallClose(t, r)
        PROVE  UNCHANGED Registry!vars
    <2>1. \A u \in Threads : /\ (at'[u] = "dispose") <=> (at[u] = "dispose")
                             /\ at[u] = "dispose" => held'[u] = held[u]
      BY <1>6 DEF IInv, TypeOK, Take, CallClose
    <2> QED
      BY <1>6, <2>1, RegistryStutters DEF Released, Take, CallClose
  <1>7. ASSUME NEW t \in Threads, RemoveAgain(t) PROVE UNCHANGED Registry!vars
    <2>1. \A u \in Threads : /\ (at'[u] = "dispose") <=> (at[u] = "dispose")
                             /\ at[u] = "dispose" => held'[u] = held[u]
      BY <1>7 DEF IInv, TypeOK, RemoveAgain
    <2> QED
      BY <1>7, <2>1, RegistryStutters DEF Released, RemoveAgain
  <1>8. CASE \E r \in Refs : Construct(r) \/ Add(r) \/ Drop(r) \/ Enqueue(r) \/ Take(r)
    BY <1>1, <1>5, <1>6, <1>8 DEF Threads, Registry!Next
  <1>9. CASE \E t \in Users, r \in Refs : CallClose(t, r)
    BY <1>6, <1>9 DEF Threads
  <1>10. CASE \E t \in Threads : RemoveAgain(t) \/ Remove(t) \/ Dispose(t)
    <2> PICK t \in Threads : RemoveAgain(t) \/ Remove(t) \/ Dispose(t)
      BY <1>10
    <2>1. CASE RemoveAgain(t)
      BY <1>7, <2>1
    <2>2. CASE Remove(t)
      BY <1>2, <2>2 DEF Registry!Next
    <2>3. CASE Dispose(t)
      BY <1>3, <2>3 DEF Registry!Next
    <2> QED
      BY <2>1, <2>2, <2>3
  <1> QED
    BY <1>4, <1>8, <1>9, <1>10 DEF Next

\* CleanerRef's list is a set of handles, for any number of them and any threads
\* that close them: add puts one in that was never in before, remove takes out
\* the one it is called for, and nativeDispose is called for what was taken out.
THEOREM ListIsSet == Spec => ImplementsRegistry
  <1>1. Init => LiveInv
    BY DEF Init, LiveInv
  <1>2. Spec => []LiveInv
    BY <1>1, LiveStep, Invariance, PTL DEF Spec
  <1>3. Spec => Registry!Init /\ [][Registry!Next]_(Registry!vars)
    BY <1>2, Invariance, InitRegistry, StepRegistry, PTL DEF Spec
  <1> QED
    BY <1>3 DEF ImplementsRegistry, Registry!Spec
=============================================================================
