--------------------------- MODULE HashmapContract ---------------------------
(***************************************************************************)
(* What hashmap.h promises: a dictionary from keys to values in which a    *)
(* key stands for all the keys that are the same to the map.  `result' is  *)
(* what the last call returned.                                            *)
(***************************************************************************)
CONSTANTS
    Keys, Values, NULL,
    Same           \* Same[a, b]: the two keys are one to the map

VARIABLES dict, result

vars == <<dict, result>>

Holder(k) == {o \in DOMAIN dict : Same[o, k]}

Without(o) == [k \in DOMAIN dict \ {o} |-> dict[k]]

With(k, v) == [o \in DOMAIN dict \union {k} |-> IF o = k THEN v ELSE dict[o]]

Init == dict = [k \in {} |-> NULL] /\ result = NULL

\* "Puts value for the given key in the map. Returns pre-existing value if any.
\* If memory allocation fails, this function returns NULL, the map's size does
\* not increase"
Put(k, v) ==
    \/ \E o \in Holder(k) : dict' = With(o, v) /\ result' = dict[o]
    \/ Holder(k) = {} /\ dict' = With(k, v) /\ result' = NULL
    \/ Holder(k) = {} /\ dict' = dict /\ result' = NULL

\* "Gets the value for a key. If a value is not found, this function gets a
\* value and creates an entry using the given callback."
Memoize(k, v) ==
    \/ \E o \in Holder(k) : dict' = dict /\ result' = dict[o]
    \/ Holder(k) = {} /\ dict' = With(k, v) /\ result' = v
    \/ Holder(k) = {} /\ dict' = dict /\ result' = NULL

\* "Removes an entry from the map. Returns the removed value or NULL if no
\* entry was present."
Remove(k) ==
    \/ \E o \in Holder(k) : dict' = Without(o) /\ result' = dict[o]
    \/ Holder(k) = {} /\ dict' = dict /\ result' = NULL

\* a caller changes the value of the entry that entryGet gave it
Assign(k, v) == \E o \in Holder(k) : dict' = With(o, v) /\ result' = result

Clear == dict' = [k \in {} |-> NULL] /\ result' = result

Next ==
    \/ \E k \in Keys, v \in Values \union {NULL} :
          Put(k, v) \/ Memoize(k, v) \/ Assign(k, v)
    \/ \E k \in Keys : Remove(k)
    \/ Clear

Spec == Init /\ [][Next]_vars
=============================================================================
