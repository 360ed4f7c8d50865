-------------------------- MODULE CleanerRegistry --------------------------
(***************************************************************************)
(* Reclaiming the native handles.  A CleanerRef is a phantom reference to  *)
(* its scope, the CurlHttp that owns the handle; the static list           *)
(* first/next/prev keeps the CleanerRefs themselves from being collected.  *)
(* The collector enqueues the reference of a dropped scope, the reaper     *)
(* thread takes it from the queue and closes it.  close() is public, so a  *)
(* user's thread may call it too, at any time and again.                   *)
(***************************************************************************)
EXTENDS Naturals, FiniteSets

CONSTANTS Refs, Users, NULL

ASSUME RegistryAssumption ==
    /\ NULL \notin Refs /\ "reaper" \notin Users /\ IsFiniteSet(Refs)

Threads == Users \union {"reaper"}

VARIABLES
    first, next, prev,   \* the list
    scope,       \* per reference: "none", "creating", "held" or "dropped"
    armed,       \* the references the collector may still enqueue
    queue,       \* the reaper's ReferenceQueue
    at, held,    \* per thread: where in close() it is, and of which reference
    disposals    \* history: how often nativeDispose was called for the handle

vars == <<first, next, prev, scope, armed, queue, at, held, disposals>>

Init ==
    /\ first = NULL
    /\ next = [r \in Refs |-> NULL] /\ prev = [r \in Refs |-> NULL]
    /\ scope = [r \in Refs |-> "none"]
    /\ armed = {} /\ queue = {}
    /\ at = [t \in Threads |-> "idle"] /\ held = [t \in Threads |-> NULL]
    /\ disposals = [r \in Refs |-> 0]

-----------------------------------------------------------------------------
\* the least set that holds roots and is closed under the given links
Reached(roots, links) ==
    {r \in Refs : \A S \in SUBSET Refs :
        /\ roots \cap Refs \subseteq S
        /\ \A s \in S, f \in links : f[s] \in S \union {NULL}
        => r \in S}

\* the references on the list
Listed == Reached({first}, {next})

\* the references the collector finds alive: from the static field, the queue,
\* the threads inside create() and close()
Alive ==
    Reached({first} \union queue \union {held[t] : t \in Threads}
              \union {r \in Refs : scope[r] = "creating"}, {next, prev})

-----------------------------------------------------------------------------
\* the CurlHttp is made with its handle, and the CleanerRef for it; its creator
\* keeps the scope until create() has returned
Construct(r) ==
    /\ scope[r] = "none"
    /\ scope' = [scope EXCEPT ![r] = "creating"]
    /\ armed' = armed \union {r}
    /\ UNCHANGED <<first, next, prev, queue, at, held, disposals>>

\* mutant: the new head is not chained to the old one
LinkedAlone(cl) == first' = cl /\ UNCHANGED <<next, prev>>

\* the body of add
Linked(cl) ==
    /\ IF first # NULL
         THEN next' = [next EXCEPT ![cl] = first] /\ prev' = [prev EXCEPT ![first] = cl]
         ELSE UNCHANGED <<next, prev>>
    /\ first' = cl

\* add, static synchronized
Add(r) ==
    /\ scope[r] = "creating"
    /\ Linked(r)
    /\ scope' = [scope EXCEPT ![r] = "held"]
    /\ UNCHANGED <<armed, queue, at, held, disposals>>

\* the application lets go of the CurlHttp
Drop(r) ==
    /\ scope[r] = "held"
    /\ scope' = [scope EXCEPT ![r] = "dropped"]
    /\ UNCHANGED <<first, next, prev, armed, queue, at, held, disposals>>

\* the collector finds the scope gone, and the reference still there
Enqueue(r) ==
    /\ scope[r] = "dropped" /\ r \in armed /\ r \in Alive
    /\ armed' = armed \ {r}
    /\ queue' = queue \union {r}
    /\ UNCHANGED <<first, next, prev, scope, at, held, disposals>>

\* the reaper's queue.remove(), and the call of close()
Take(r) ==
    /\ at["reaper"] = "idle" /\ r \in queue
    /\ queue' = queue \ {r}
    /\ at' = [at EXCEPT !["reaper"] = "close"]
    /\ held' = [held EXCEPT !["reaper"] = r]
    /\ UNCHANGED <<first, next, prev, scope, armed, disposals>>

\* a user's call of close() on a reference that create() returned
CallClose(t, r) ==
    /\ at[t] = "idle" /\ scope[r] \in {"held", "dropped"}
    /\ at' = [at EXCEPT ![t] = "close"]
    /\ held' = [held EXCEPT ![t] = r]
    /\ UNCHANGED <<first, next, prev, scope, armed, queue, disposals>>

\* mutant: never taken for removed
NeverRemoved(cl) == FALSE

\* removed references point to themselves
Removed(cl) == next[cl] = cl

\* mutant: the link back from the next one is left
UnlinkedForward(cl) ==
    /\ first' = IF first = cl THEN (IF next[cl] # NULL THEN next[cl] ELSE prev[cl]) ELSE first
    /\ next' = [r \in Refs |-> IF r = cl THEN cl
                               ELSE IF r = prev[cl] THEN next[cl] ELSE next[r]]
    /\ prev' = [prev EXCEPT ![cl] = cl]

\* the updates of the list in remove
Unlinked(cl) ==
    /\ first' = IF first = cl THEN (IF next[cl] # NULL THEN next[cl] ELSE prev[cl]) ELSE first
    /\ next' = [r \in Refs |-> IF r = cl THEN cl
                               ELSE IF r = prev[cl] THEN next[cl] ELSE next[r]]
    /\ prev' = [r \in Refs |-> IF r = cl THEN cl
                               ELSE IF r = next[cl] THEN prev[cl] ELSE prev[r]]

\* close() of a reference that is gone already returns; in the reaper ref.clear()
\* follows
RemoveAgain(t) ==
    /\ at[t] = "close" /\ Removed(held[t])
    /\ armed' = IF t = "reaper" THEN armed \ {held[t]} ELSE armed
    /\ at' = [at EXCEPT ![t] = "idle"] /\ held' = [held EXCEPT ![t] = NULL]
    /\ UNCHANGED <<first, next, prev, scope, queue, disposals>>

\* remove, static synchronized; it clears the reference
Remove(t) ==
    /\ at[t] = "close" /\ ~Removed(held[t])
    /\ armed' = armed \ {held[t]}
    /\ Unlinked(held[t])
    /\ at' = [at EXCEPT ![t] = "dispose"]
    /\ UNCHANGED <<scope, queue, held, disposals>>

\* nativeDispose, outside the lock; in the reaper ref.clear() follows, of a
\* reference that remove has cleared
Dispose(t) ==
    /\ at[t] = "dispose"
    /\ disposals' = [disposals EXCEPT ![held[t]] = @ + 1]
    /\ at' = [at EXCEPT ![t] = "idle"] /\ held' = [held EXCEPT ![t] = NULL]
    /\ UNCHANGED <<first, next, prev, scope, armed, queue>>

Close(t) == RemoveAgain(t) \/ Remove(t) \/ Dispose(t)

Next ==
    \/ \E r \in Refs : Construct(r) \/ Add(r) \/ Drop(r) \/ Enqueue(r) \/ Take(r)
    \/ \E t \in Users, r \in Refs : CallClose(t, r)
    \/ \E t \in Threads : RemoveAgain(t) \/ Remove(t) \/ Dispose(t)

Spec == Init /\ [][Next]_vars

\* the collector runs, the reaper's loop runs, and no thread stops inside close()
FairSpec ==
    /\ Spec
    /\ \A r \in Refs : WF_vars(Enqueue(r))
    /\ WF_vars(\E r \in Refs : Take(r))
    /\ \A t \in Threads : WF_vars(Close(t))

-----------------------------------------------------------------------------
(* Properties *)

\* The links name references, and a thread holds one while it is inside close().
TypeOK ==
    /\ first \in Refs \union {NULL}
    /\ next \in [Refs -> Refs \union {NULL}] /\ prev \in [Refs -> Refs \union {NULL}]
    /\ scope \in [Refs -> {"none", "creating", "held", "dropped"}]
    /\ armed \subseteq Refs /\ queue \subseteq Refs
    /\ at \in [Threads -> {"idle", "close", "dispose"}]
    /\ held \in [Threads -> Refs \union {NULL}]
    /\ \A t \in Threads : at[t] = "idle" <=> held[t] = NULL
    /\ disposals \in [Refs -> Nat]

\* Along the list next and prev are each other's inverse and nothing precedes
\* the head, whatever order references are added in and removed from the middle:
\* remove takes both neighbours from the links of the one it removes.
DoublyLinked ==
    /\ first # NULL => prev[first] = NULL
    /\ \A r \in Listed :
          /\ next[r] # NULL => prev[next[r]] = r
          /\ prev[r] # NULL => next[prev[r]] = r

\* No handle is disposed of twice, when the reaper and a user's thread close the
\* same reference at the same time and when one of them closes it again.
DisposedOnce == \A r \in Refs : disposals[r] <= 1

\* What the list stands for: the set of handles that are in it, and those that a
\* thread has taken out and not disposed of yet.
Registry == INSTANCE HandleRegistry
    WITH members <- Listed, released <- {held[t] : t \in {u \in Threads : at[u] = "dispose"}}

\* The linked list is a set of handles: add and remove put in and take out the
\* one they are called for and no other, and only what was taken out is disposed
\* of.
ImplementsRegistry == Registry!Spec

\* The handle of a CurlHttp that the application has dropped is disposed of in
\* the end: its CleanerRef is not collected before it is enqueued.
Reclaimed == \A r \in Refs : (scope[r] = "dropped") ~> (disposals[r] = 1)
=============================================================================
