------------------------------- MODULE Hashmap -------------------------------
(***************************************************************************)
(* The hash map of hashmap.c: an array of chains of entries, doubled when  *)
(* it fills up.  The doubling relinks every entry, one step per entry;     *)
(* every other call is one step, as the map is only used under the lock of *)
(* its handle.  A key is an address: two keys may hold the same text.      *)
(***************************************************************************)
EXTENDS Integers, Sequences, FiniteSets

CONSTANTS
    Keys, Values, NULL,
    Hash,            \* Hash[k]: hashKey, an int
    Equals,          \* pairs of addresses whose texts the map's comparison accepts
    Capacities       \* initial capacities a map is made with

\* whether the map takes two keys for one
Same == [p \in Keys \X Keys |->
            p[1] = p[2] \/ (Hash[p[1]] = Hash[p[2]] /\ p \in Equals)]

ASSUME KeyAssumption ==
    /\ Hash \in [Keys -> Int]
    /\ \A a, b \in Keys : Same[a, b] => Same[b, a]
    /\ \A a, b, c \in Keys : Same[a, b] /\ Same[b, c] => Same[a, c]

ASSUME CapacityAssumption == Capacities \subseteq Nat /\ NULL \notin Values

VARIABLES
    buckets,        \* index -> chain
    bucketCount,
    size,
    newBuckets,     \* the array being filled by expandIfNecessary, else empty
    pc,             \* "idle", "moving" inside expandIfNecessary, "freed"
    ret,            \* what the last call returned
    live,           \* history: the keys of the entries allocated and not freed
    starved         \* history: an expansion was given up for want of memory

vars == <<buckets, bucketCount, size, newBuckets, pc, ret, live, starved>>

Entry == [key : Keys, hash : {Hash[k] : k \in Keys}, value : Values \union {NULL}]

\* a power of two: 1 is its only odd divisor
IsPower(n) == \A d, q \in 1..n : n = d * q => d = 1 \/ d % 2 = 0

NoBuckets == [i \in {} |-> <<>>]

Empty(n) == [i \in 0..(n - 1) |-> <<>>]

\* hashmapCreate: the first power of two above 4/3 of the capacity, which doubling
\* reaches before it is more than twice that
BucketsFor(cap) ==
    LET minimum == (cap * 4) \div 3
    IN  CHOOSE p \in (minimum + 1)..(2 * minimum + 1) : IsPower(p)

Init ==
    /\ \E cap \in Capacities : bucketCount = BucketsFor(cap)
    /\ buckets = Empty(bucketCount)
    /\ size = 0
    /\ newBuckets = NoBuckets
    /\ pc = "idle"
    /\ ret = NULL
    /\ live = {}
    /\ starved = FALSE

-----------------------------------------------------------------------------
\* calculateIndex: the low bits of the hash, as the count is a power of two
calculateIndex(count, hash) == hash % count

\* equalKeys of an entry and a key sought
equalKeys(e, k) ==
    \/ e.key = k
    \/ e.hash = Hash[k] /\ <<e.key, k>> \in Equals

Home(k) == calculateIndex(bucketCount, Hash[k])

Chain(k) == buckets[Home(k)]

\* where the walk along the chain of k stops
Hits(k) == {i \in 1..Len(Chain(k)) : equalKeys(Chain(k)[i], k)}

Hit(k) == CHOOSE i \in Hits(k) : \A j \in Hits(k) : i <= j

\* hashmapContainsKey
ContainsKey(k) == Hits(k) # {}

\* entryGet
entryGet(k) == Chain(k)[Hit(k)]

\* hashmapGet
Get(k) == IF ContainsKey(k) THEN entryGet(k).value ELSE NULL

\* hashmapForEach: the entries in the order of the walk, up to bucket n
ForEach[n \in 0..bucketCount] == IF n = 0 THEN <<>> ELSE ForEach[n - 1] \o buckets[n - 1]

\* hashmapCurrentCapacity
CurrentCapacity == (bucketCount * 3) \div 4

\* hashmapCountCollisions: the entries that have a next one
CountCollisions ==
    Cardinality(UNION {{i} \X (1..(Len(buckets[i]) - 1)) : i \in DOMAIN buckets})

-----------------------------------------------------------------------------
\* the test of expandIfNecessary, for the size n that it finds
Overloaded(n) == n > (bucketCount * 3) \div 4

\* expandIfNecessary up to its loop: calloc may fail
Expand(n) ==
    \/ /\ Overloaded(n)
       /\ newBuckets' = Empty(2 * bucketCount)
       /\ pc' = "moving"
       /\ UNCHANGED starved
    \/ /\ Overloaded(n)
       /\ starved' = TRUE
       /\ UNCHANGED <<newBuckets, pc>>
    \/ /\ ~Overloaded(n)
       /\ UNCHANGED <<newBuckets, pc, starved>>

\* mutant: the room that a failed allocation leaves is counted
AddCounted(k, v) ==
    \/ /\ buckets' = [buckets EXCEPT ![Home(k)] =
                         Append(@, [key |-> k, hash |-> Hash[k], value |-> v])]
       /\ size' = size + 1
       /\ live' = live \union {k}
       /\ Expand(size')
    \/ /\ size' = size + 1
       /\ UNCHANGED <<buckets, live, newBuckets, pc, starved>>

\* an entry at the end of its chain, if createEntry finds memory
Add(k, v) ==
    \/ /\ buckets' = [buckets EXCEPT ![Home(k)] =
                         Append(@, [key |-> k, hash |-> Hash[k], value |-> v])]
       /\ size' = size + 1
       /\ live' = live \union {k}
       /\ Expand(size')
    \/ UNCHANGED <<buckets, size, live, newBuckets, pc, starved>>

Assigned(k, v) == [buckets EXCEPT ![Home(k)][Hit(k)].value = v]

\* hashmapPut
Put(k, v) ==
    /\ pc = "idle"
    /\ ret' = Get(k)
    /\ UNCHANGED bucketCount
    /\ \/ ~ContainsKey(k) /\ Add(k, v)
       \/ /\ ContainsKey(k)
          /\ buckets' = Assigned(k, v)
          /\ UNCHANGED <<size, newBuckets, pc, live, starved>>

\* mutant: the value is computed although there is one
MemoizeAnew(k, v) ==
    /\ pc = "idle"
    /\ UNCHANGED bucketCount
    /\ ret' = v
    /\ \/ ~ContainsKey(k) /\ Add(k, v)
       \/ /\ ContainsKey(k)
          /\ buckets' = Assigned(k, v)
          /\ UNCHANGED <<size, newBuckets, pc, live, starved>>

\* hashmapMemoize, with a callback that gives v
Memoize(k, v) ==
    /\ pc = "idle"
    /\ UNCHANGED bucketCount
    /\ \/ /\ ~ContainsKey(k)
          /\ Add(k, v)
          /\ ret' = IF k \in live' THEN v ELSE NULL
       \/ /\ ContainsKey(k)
          /\ ret' = Get(k)
          /\ UNCHANGED <<buckets, size, newBuckets, pc, live, starved>>

\* header_callback writes through the entry it got from entryGet
Assign(k, v) ==
    /\ pc = "idle"
    /\ ContainsKey(k)
    /\ buckets' = Assigned(k, v)
    /\ UNCHANGED <<bucketCount, size, newBuckets, pc, ret, live, starved>>

\* hashmapRemove
Remove(k) ==
    /\ pc = "idle"
    /\ ret' = Get(k)
    /\ \/ /\ ContainsKey(k)
          /\ buckets' = [buckets EXCEPT ![Home(k)] =
                            SubSeq(@, 1, Hit(k) - 1) \o SubSeq(@, Hit(k) + 1, Len(@))]
          /\ size' = size - 1
          /\ live' = live \ {entryGet(k).key}
       \/ ~ContainsKey(k) /\ UNCHANGED <<buckets, size, live>>
    /\ UNCHANGED <<bucketCount, newBuckets, pc, starved>>

\* the entries of one chain, and those in some chain of an array
In(chain) == {chain[j] : j \in 1..Len(chain)}

EntriesIn(array) == UNION {In(array[i]) : i \in DOMAIN array}

KeysIn(array) == {e.key : e \in EntriesIn(array)}

\* the loops of hashmapClear
Cleared == live \ KeysIn(buckets)

\* hashmapClear
Clear ==
    /\ pc = "idle"
    /\ buckets' = Empty(bucketCount)
    /\ size' = 0
    /\ live' = Cleared
    /\ UNCHANGED <<bucketCount, newBuckets, pc, ret, starved>>

\* hashmapFree, when the handle is disposed of
Free ==
    /\ pc = "idle"
    /\ live' = Cleared
    /\ pc' = "freed"
    /\ buckets' = NoBuckets
    /\ size' = 0
    /\ UNCHANGED <<bucketCount, newBuckets, ret, starved>>

-----------------------------------------------------------------------------
\* mutant: the place of an entry is computed with the old count
NewHomeOld(e) == calculateIndex(bucketCount, e.hash)

NewHome(e) == calculateIndex(2 * bucketCount, e.hash)

\* one turn of the inner loop: the head of chain i is linked in at the front
\* of its new chain
Move(i) ==
    /\ newBuckets' = [newBuckets EXCEPT ![NewHome(Head(buckets[i]))] = <<Head(buckets[i])>> \o @]
    /\ buckets' = [buckets EXCEPT ![i] = Tail(@)]

Relink ==
    /\ pc = "moving"
    /\ \E i \in DOMAIN buckets :
          /\ buckets[i] # <<>>
          /\ \A j \in 0..(i - 1) : buckets[j] = <<>>
          /\ Move(i)
    /\ UNCHANGED <<bucketCount, size, pc, ret, live, starved>>

\* "Copy over internals"
Swap == buckets' = newBuckets /\ bucketCount' = 2 * bucketCount

Expanded ==
    /\ pc = "moving"
    /\ \A i \in DOMAIN buckets : buckets[i] = <<>>
    /\ Swap
    /\ newBuckets' = NoBuckets
    /\ pc' = "idle"
    /\ UNCHANGED <<size, ret, live, starved>>

Next ==
    \/ \E k \in Keys, v \in Values : Put(k, v) \/ Assign(k, v)
    \/ \E k \in Keys, v \in Values \union {NULL} : Memoize(k, v)
    \/ \E k \in Keys : Remove(k)
    \/ Clear \/ Free \/ Relink \/ Expanded

Spec == Init /\ [][Next]_vars

-----------------------------------------------------------------------------
(* Properties *)

\* The array has bucketCount chains, a power of two; the other array exists
\* while entries are moved.
TypeOK ==
    /\ bucketCount \in Nat \ {0} /\ IsPower(bucketCount)
    /\ pc \in {"idle", "moving", "freed"}
    /\ buckets \in [IF pc = "freed" THEN {} ELSE 0..(bucketCount - 1) -> Seq(Entry)]
    /\ newBuckets \in [IF pc = "moving" THEN 0..(2 * bucketCount - 1) ELSE {} -> Seq(Entry)]
    /\ size \in Nat
    /\ ret \in Values \union {NULL}
    /\ live \subseteq Keys
    /\ starved \in BOOLEAN

\* Whatever has been moved, replaced and removed before, the walk along one chain
\* finds an entry that is in the map under the same key, also one that was put
\* in when there were fewer chains (entryGet, hashmapGet, hashmapContainsKey).
LookupComplete ==
    pc = "idle" =>
        \A k \in Keys : (\E o \in live : Same[o, k]) => ContainsKey(k)

\* Every entry allocated and not freed is in a chain, in the middle of an
\* expansion too, and none is left after hashmapFree; size is their number, and
\* unless memory was short, the load factor holds between calls.
EntriesCounted ==
    /\ live = KeysIn(buckets) \union KeysIn(newBuckets)
    /\ size = Cardinality(live)
    /\ pc = "idle" => starved \/ size <= CurrentCapacity

\* The walks over the whole map (hashmapForEach, hashmapCountCollisions) agree with that.
Accounted ==
    /\ TypeOK
    /\ EntriesCounted
    /\ pc = "idle" =>
         /\ Len(ForEach[bucketCount]) = size
         /\ CountCollisions = size - Cardinality({i \in DOMAIN buckets : buckets[i] # <<>>})

\* The entries wherever they are, as the dictionary that a caller sees
Entries == EntriesIn(buckets) \union EntriesIn(newBuckets)

Contents ==
    [k \in {e.key : e \in Entries} |-> (CHOOSE e \in Entries : e.key = k).value]

Contract == INSTANCE HashmapContract WITH dict <- Contents, result <- ret

\* The chains, their doubling and the failures of malloc and calloc implement the
\* dictionary that hashmap.h documents, results of the calls included.
ImplementsDictionary == Contract!Spec
=============================================================================
