---------------------------- MODULE HashmapProofs ----------------------------
(***************************************************************************)
(* Proofs about the hash map of hashmap.c, for any keys, hashes, values    *)
(* and capacities.  Every operation is first shown to do one thing to the  *)
(* set of the entries (Entries), whatever it does to the chains; what a    *)
(* lookup finds, the count and the dictionary of hashmap.h follow.         *)
(***************************************************************************)
EXTENDS HeaderNames, FiniteSetTheorems, SequenceTheorems, TLAPS

USE DEF calculateIndex

-----------------------------------------------------------------------------
(* The inductive invariant *)

\* An entry knows the hash of its key, and lies in the chain of that hash.
Filed(array, count) ==
    \A i \in DOMAIN array : \A e \in In(array[i]) :
        e.hash = Hash[e.key] /\ e.hash % count = i

\* No entry is twice in a chain.
Simple(chain) == \A i, j \in 1..Len(chain) : chain[i] = chain[j] => i = j

SimpleChains(array) == \A i \in DOMAIN array : Simple(array[i])

TypeInv ==
    /\ bucketCount \in Nat \ {0}
    /\ pc \in {"idle", "moving", "freed"}
    /\ buckets \in [IF pc = "freed" THEN {} ELSE 0..(bucketCount - 1) -> Seq(Entry)]
    /\ newBuckets \in [IF pc = "moving" THEN 0..(2 * bucketCount - 1) ELSE {} -> Seq(Entry)]
    /\ size \in Nat
    /\ ret \in Values \union {NULL}
    /\ live \subseteq Keys
    /\ starved \in BOOLEAN

ChainInv ==
    /\ Filed(buckets, bucketCount) /\ SimpleChains(buckets)
    /\ Filed(newBuckets, 2 * bucketCount) /\ SimpleChains(newBuckets)

\* One entry for all the keys that are the same, in one of the arrays.
UniqueInv ==
    /\ \A e, f \in Entries : Same[e.key, f.key] => e = f
    /\ EntriesIn(buckets) \intersect EntriesIn(newBuckets) = {}

CountInv ==
    /\ live = {e.key : e \in Entries}
    /\ IsFiniteSet(live)
    /\ size = Cardinality(live)

\* Unless memory was short, the entries fit the array that they are in, or the
\* one that they are moved to.
LoadInv ==
    starved \/ size <= ((IF pc = "moving" THEN 2 * bucketCount ELSE bucketCount) * 3) \div 4

IInv == TypeInv /\ ChainInv /\ UniqueInv /\ CountInv /\ LoadInv

-----------------------------------------------------------------------------
(* Chains *)

\* An entry at the end of a chain (Add).
LEMMA Appended ==
    ASSUME NEW S, NEW c \in Seq(S), NEW e \in S
    PROVE  /\ Append(c, e) \in Seq(S)
           /\ In(Append(c, e)) = In(c) \union {e}
           /\ Simple(c) /\ e \notin In(c) => Simple(Append(c, e))
<1>1. /\ Append(c, e) \in Seq(S) /\ Len(Append(c, e)) = Len(c) + 1 /\ Len(c) \in Nat
      /\ \A j \in 1..Len(c) : Append(c, e)[j] = c[j]
      /\ Append(c, e)[Len(c) + 1] = e
  OBVIOUS
<1>2. In(Append(c, e)) = In(c) \union {e}  BY <1>1 DEF In
<1>3. Simple(c) /\ e \notin In(c) => Simple(Append(c, e))  BY <1>1 DEF In, Simple
<1> QED  BY <1>1, <1>2, <1>3

\* An entry at the front of a chain (Move).
LEMMA Prepended ==
    ASSUME NEW S, NEW c \in Seq(S), NEW e \in S
    PROVE  /\ <<e>> \o c \in Seq(S)
           /\ In(<<e>> \o c) = In(c) \union {e}
           /\ Simple(c) /\ e \notin In(c) => Simple(<<e>> \o c)
<1> DEFINE d == <<e>> \o c
<1>1. /\ d \in Seq(S) /\ Len(d) = Len(c) + 1 /\ Len(c) \in Nat
      /\ d[1] = e
      /\ \A j \in 2..Len(d) : d[j] = c[j - 1]
  <2>1. <<e>> \in Seq(S) /\ Len(<<e>>) = 1 /\ <<e>>[1] = e /\ Len(c) \in Nat  OBVIOUS
  <2>2. /\ d \in Seq(S) /\ Len(d) = 1 + Len(c)
        /\ \A j \in 1..(1 + Len(c)) : d[j] = IF j <= 1 THEN <<e>>[j] ELSE c[j - 1]
    BY <2>1, ConcatProperties
  <2> QED  BY <2>1, <2>2
<1>2. \A j \in 1..Len(c) : d[j + 1] = c[j] /\ j + 1 \in 1..Len(d)  BY <1>1
<1>3. \A j \in 1..Len(d) : j = 1 \/ (j \in 2..Len(d) /\ j - 1 \in 1..Len(c))  BY <1>1
<1> HIDE DEF d
<1>4. In(d) = In(c) \union {e}
  <2>1. In(d) \subseteq In(c) \union {e}  BY <1>1, <1>3 DEF In
  <2>2. In(c) \subseteq In(d)  BY <1>2 DEF In
  <2>3. e \in In(d)  BY <1>1 DEF In
  <2> QED  BY <2>1, <2>2, <2>3
<1>5. Simple(c) /\ e \notin In(c) => Simple(d)
  <2> SUFFICES ASSUME Simple(c), e \notin In(c),
                      NEW i \in 1..Len(d), NEW j \in 1..Len(d), d[i] = d[j]
               PROVE  i = j
    BY DEF Simple
  <2>1. \A l \in 2..Len(d) : l - 1 \in 1..Len(c) /\ d[l] = c[l - 1] /\ d[l] # e
    BY <1>1 DEF In
  <2>2. CASE i = 1 \/ j = 1  BY <1>1, <1>3, <2>1, <2>2
  <2>3. CASE i \in 2..Len(d) /\ j \in 2..Len(d)
    <3>1. i - 1 = j - 1  BY <2>1, <2>3 DEF Simple
    <3> QED  BY <3>1
  <2> QED  BY <1>3, <2>2, <2>3
<1> QED  BY <1>1, <1>4, <1>5 DEF d

\* A chain without its first entry (Move).
LEMMA Headless ==
    ASSUME NEW S, NEW c \in Seq(S), c # <<>>, Simple(c)
    PROVE  /\ Head(c) \in In(c) /\ Head(c) \in S
           /\ Tail(c) \in Seq(S)
           /\ In(Tail(c)) = In(c) \ {Head(c)}
           /\ Simple(Tail(c))
<1>1. /\ Tail(c) \in Seq(S) /\ Len(c) \in Nat /\ Len(c) > 0 /\ Len(Tail(c)) = Len(c) - 1
      /\ Head(c) = c[1] /\ c[1] \in S
      /\ \A j \in 1..Len(Tail(c)) : Tail(c)[j] = c[j + 1]
  OBVIOUS
<1>2. In(Tail(c)) = In(c) \ {c[1]}
  <2>1. In(Tail(c)) \subseteq In(c) \ {c[1]}  BY <1>1 DEF In, Simple
  <2>2. ASSUME NEW j \in 1..Len(c), c[j] # c[1]
        PROVE  c[j] \in In(Tail(c))
    <3>1. j - 1 \in 1..Len(Tail(c)) /\ Tail(c)[j - 1] = c[j]  BY <1>1, <2>2
    <3> QED  BY <3>1 DEF In
  <2> QED  BY <2>1, <2>2 DEF In
<1>3. Simple(Tail(c))
  <2>1. \A i, j \in 1..Len(Tail(c)) : i + 1 \in 1..Len(c) /\ j + 1 \in 1..Len(c)  BY <1>1
  <2> QED  BY <1>1, <2>1 DEF Simple
<1>4. c[1] \in In(c)  BY <1>1 DEF In
<1> QED  BY <1>1, <1>2, <1>3, <1>4

\* A chain from which one entry is unlinked (Remove).
LEMMA Unlinked ==
    ASSUME NEW S, NEW c \in Seq(S), NEW h \in 1..Len(c), Simple(c)
    PROVE  /\ SubSeq(c, 1, h - 1) \o SubSeq(c, h + 1, Len(c)) \in Seq(S)
           /\ In(SubSeq(c, 1, h - 1) \o SubSeq(c, h + 1, Len(c))) = In(c) \ {c[h]}
           /\ Simple(SubSeq(c, 1, h - 1) \o SubSeq(c, h + 1, Len(c)))
<1> DEFINE a == SubSeq(c, 1, h - 1)
           b == SubSeq(c, h + 1, Len(c))
           d == a \o b
<1>1. Len(c) \in Nat /\ \A j \in 1..Len(c) : c[j] \in S  OBVIOUS
<1>2. a \in Seq(S) /\ Len(a) = h - 1 /\ \A j \in 1..(h - 1) : a[j] = c[j]
  BY <1>1
<1>3. b \in Seq(S) /\ Len(b) = Len(c) - h /\ \A j \in 1..(Len(c) - h) : b[j] = c[h + j]
  BY <1>1
<1> HIDE DEF a, b
<1>4. /\ d \in Seq(S) /\ Len(d) = Len(c) - 1
      /\ \A j \in 1..Len(d) : d[j] = IF j < h THEN c[j] ELSE c[j + 1]
  <2>1. /\ d \in Seq(S) /\ Len(d) = Len(a) + Len(b)
        /\ \A j \in 1..(Len(a) + Len(b)) : d[j] = IF j <= Len(a) THEN a[j] ELSE b[j - Len(a)]
    BY <1>2, <1>3, ConcatProperties
  <2>2. Len(d) = Len(c) - 1  BY <1>1, <1>2, <1>3, <2>1
  <2>3. ASSUME NEW j \in 1..Len(d)
        PROVE  d[j] = IF j < h THEN c[j] ELSE c[j + 1]
    <3>1. CASE j < h  BY <1>1, <1>2, <2>1, <2>2, <3>1
    <3>2. CASE j >= h
      <4>1. d[j] = b[j - (h - 1)] /\ j - (h - 1) \in 1..(Len(c) - h)
        BY <1>1, <1>2, <1>3, <2>1, <2>2, <3>2
      <4>2. h + (j - (h - 1)) = j + 1  BY <1>1, <2>2
      <4> QED  BY <1>3, <3>2, <4>1, <4>2
    <3> QED  BY <1>1, <2>2, <3>1, <3>2
  <2> QED  BY <2>1, <2>2, <2>3
<1> HIDE DEF d
<1>5. In(d) = In(c) \ {c[h]}
  <2>1. In(d) \subseteq In(c) \ {c[h]}  BY <1>1, <1>4 DEF In, Simple
  <2>2. ASSUME NEW j \in 1..Len(c), c[j] # c[h]
        PROVE  c[j] \in In(d)
    <3>1. CASE j < h
      <4>1. j \in 1..Len(d) /\ d[j] = c[j]  BY <1>1, <1>4, <3>1
      <4> QED  BY <4>1 DEF In
    <3>2. CASE j > h
      <4>1. j - 1 \in 1..Len(d) /\ d[j - 1] = c[j]  BY <1>1, <1>4, <3>2
      <4> QED  BY <4>1 DEF In
    <3> QED  BY <1>1, <2>2, <3>1, <3>2
  <2> QED  BY <2>1, <2>2 DEF In
<1>6. Simple(d)  BY <1>1, <1>4 DEF Simple
<1> QED  BY <1>4, <1>5, <1>6 DEF a, b, d

\* A chain in which one entry gives way to another (Assigned).
LEMMA Replaced ==
    ASSUME NEW S, NEW c \in Seq(S), NEW h \in 1..Len(c), NEW e \in S, Simple(c)
    PROVE  /\ [c EXCEPT ![h] = e] \in Seq(S)
           /\ In([c EXCEPT ![h] = e]) = (In(c) \ {c[h]}) \union {e}
           /\ e \notin In(c) \ {c[h]} => Simple([c EXCEPT ![h] = e])
<1> DEFINE d == [c EXCEPT ![h] = e]
<1>1. /\ d \in Seq(S) /\ Len(d) = Len(c) /\ Len(c) \in Nat
      /\ \A j \in 1..Len(c) : d[j] = IF j = h THEN e ELSE c[j]
  <2>1. Len(c) \in Nat /\ c \in [1..Len(c) -> S] /\ DOMAIN c = 1..Len(c)
    BY LenProperties
  <2>2. d \in [1..Len(c) -> S] /\ \A j \in 1..Len(c) : d[j] = IF j = h THEN e ELSE c[j]
    BY <2>1
  <2>3. d \in Seq(S)  BY <2>1, <2>2
  <2>4. DOMAIN d = 1..Len(c)  BY <2>2
  <2>5. Len(d) = Len(c)  BY <2>1, <2>3, <2>4
  <2> QED  BY <2>1, <2>2, <2>3, <2>5
<1> HIDE DEF d
<1>2. In(d) = (In(c) \ {c[h]}) \union {e}
  <2>1. In(d) \subseteq (In(c) \ {c[h]}) \union {e}  BY <1>1 DEF In, Simple
  <2>2. In(c) \ {c[h]} \subseteq In(d)  BY <1>1 DEF In
  <2>3. e \in In(d)  BY <1>1 DEF In
  <2> QED  BY <2>1, <2>2, <2>3
<1>3. e \notin In(c) \ {c[h]} => Simple(d)  BY <1>1 DEF In, Simple
<1> QED  BY <1>1, <1>2, <1>3 DEF d

-----------------------------------------------------------------------------
(* Arrays *)

Good(array, n) ==
    array \in [0..(n - 1) -> Seq(Entry)] /\ Filed(array, n) /\ SimpleChains(array)

\* The entries of an array are those of its chains.
LEMMA EntryIn ==
    ASSUME NEW A
    PROVE  \A e : e \in EntriesIn(A) <=> \E i \in DOMAIN A : e \in In(A[i])
  BY DEF EntriesIn

\* The entries of typed chains are entries.
LEMMA EntryType ==
    ASSUME NEW D, NEW A \in [D -> Seq(Entry)]
    PROVE  EntriesIn(A) \subseteq Entry
<1> SUFFICES ASSUME NEW i \in D, NEW j \in 1..Len(A[i]) PROVE A[i][j] \in Entry
  BY DEF EntriesIn, In
<1>1. A[i] \in Seq(Entry)  OBVIOUS
<1> QED  BY <1>1, ElementOfSeq

\* As an entry is filed in one chain only, a change of a chain changes nothing else.
LEMMA ChainChanged ==
    ASSUME NEW n \in Nat \ {0}, NEW A, Good(A, n),
           NEW h \in 0..(n - 1), NEW c \in Seq(Entry), Simple(c),
           \A e \in In(c) : e.hash = Hash[e.key] /\ e.hash % n = h
    PROVE  /\ Good([A EXCEPT ![h] = c], n)
           /\ EntriesIn([A EXCEPT ![h] = c]) = (EntriesIn(A) \ In(A[h])) \union In(c)
           /\ In(A[h]) \subseteq EntriesIn(A)
<1> DEFINE B == [A EXCEPT ![h] = c]
<1>1. /\ A \in [0..(n - 1) -> Seq(Entry)]
      /\ B \in [0..(n - 1) -> Seq(Entry)]
      /\ \A i \in 0..(n - 1) : B[i] = IF i = h THEN c ELSE A[i]
      /\ DOMAIN A = 0..(n - 1) /\ DOMAIN B = 0..(n - 1)
  BY DEF Good
<1> HIDE DEF B
<1>2. Filed(B, n) /\ SimpleChains(B)  BY <1>1 DEF Good, Filed, SimpleChains
<1>3. EntriesIn(B) = (EntriesIn(A) \ In(A[h])) \union In(c)
  <2>1. \A i \in 0..(n - 1) : i # h => In(A[i]) \intersect In(A[h]) = {}
    BY <1>1 DEF Good, Filed
  <2>2. \A e : e \in EntriesIn(B) <=> e \in In(c) \/ \E i \in (0..(n - 1)) \ {h} : e \in In(A[i])
    <3>1. \A e : e \in EntriesIn(B) <=> \E i \in 0..(n - 1) : e \in In(B[i])  BY <1>1, EntryIn
    <3>2. B[h] = c /\ \A i \in (0..(n - 1)) \ {h} : B[i] = A[i]  BY <1>1
    <3> QED  BY <3>1, <3>2
  <2>3. \A e : e \in EntriesIn(A) <=> e \in In(A[h]) \/ \E i \in (0..(n - 1)) \ {h} : e \in In(A[i])
    BY <1>1, EntryIn
  <2> QED  BY <2>1, <2>2, <2>3
<1>4. In(A[h]) \subseteq EntriesIn(A)  BY <1>1 DEF EntriesIn
<1> QED  BY <1>1, <1>2, <1>3, <1>4 DEF B, Good

\* A new array of n buckets is well formed and holds nothing (hashmapCreate,
\* expandIfNecessary).
LEMMA EmptyIsGood ==
    ASSUME NEW n \in Nat \ {0}
    PROVE  Good(Empty(n), n) /\ EntriesIn(Empty(n)) = {}
<1>1. /\ <<>> \in Seq(Entry) /\ In(<<>>) = {} /\ Simple(<<>>)  BY DEF In, Simple
<1>2. /\ Empty(n) \in [0..(n - 1) -> Seq(Entry)]
      /\ \A i \in 0..(n - 1) : Empty(n)[i] = <<>>
      /\ DOMAIN Empty(n) = 0..(n - 1)
  BY <1>1 DEF Empty
<1> QED  BY <1>1, <1>2 DEF Good, Filed, SimpleChains, EntriesIn

\* Outside a rehash there is no second array.
LEMMA NoneInNoBuckets == NoBuckets \in [{} -> Seq(Entry)] /\ EntriesIn(NoBuckets) = {}
  BY DEF NoBuckets, EntriesIn

\* A set of numbers has a least one.
LEMMA Least ==
    ASSUME NEW S \in SUBSET Nat, S # {}
    PROVE  \E i \in S : \A j \in S : i <= j
<1> DEFINE R == OpToRel(<, Nat)
<1>1. IsWellFoundedOn(R, Nat)  BY NatLessThanWellFounded, Zenon
<1>2. \A x, y \in Nat : x < y => <<x, y>> \in R  BY DEF OpToRel
<1> HIDE DEF R
<1>3. \E i \in S : \A j \in S : ~(<<j, i>> \in R)  BY <1>1, WFMin, Zenon
<1>4. PICK i \in S : \A j \in S : ~(<<j, i>> \in R)  BY <1>3, Zenon
<1>5. ASSUME NEW j \in S PROVE ~(j < i)
  <2>1. j \in Nat /\ i \in Nat  OBVIOUS
  <2> QED  BY <1>2, <1>4, <2>1, Zenon
<1>6. ASSUME NEW j \in S PROVE i <= j  BY <1>5
<1> QED  BY <1>6

-----------------------------------------------------------------------------
(* Powers of two *)

\* A number is even or odd.
LEMMA Halved ==
    ASSUME NEW x \in Int
    PROVE  /\ x % 2 = 0 => \E a \in Int : x = 2 * a
           /\ x % 2 = 1 => \E a \in Int : x = 2 * a + 1
           /\ x % 2 = 0 \/ x % 2 = 1
<1>1. x = 2 * (x \div 2) + (x % 2) /\ x \div 2 \in Int /\ (x % 2 = 0 \/ x % 2 = 1)
  OBVIOUS
<1> QED  BY <1>1

\* Twice a power of two is one (hashmapCreate, expandIfNecessary).
LEMMA Doubled ==
    ASSUME NEW n \in Nat \ {0}, IsPower(n)
    PROVE  IsPower(2 * n)
<1> SUFFICES ASSUME NEW d \in 1..(2 * n), NEW q \in 1..(2 * n), 2 * n = d * q, d % 2 = 1
             PROVE  d = 1
  BY DEF IsPower
<1>0. d \in Int /\ q \in Int  OBVIOUS
<1>1. PICK a \in Int : d = 2 * a + 1  BY <1>0, Halved
<1>2. PICK b \in Int : q = 2 * b
  <2>1. q % 2 = 0 \/ q % 2 = 1  BY <1>0, Halved, Zenon
  <2>3. CASE q % 2 = 0  BY <1>0, <2>3, Halved
  <2>4. CASE q % 2 = 1
    <3>1. PICK c \in Int : q = 2 * c + 1  BY <1>0, <2>4, Halved
    <3>2. d * q = 2 * (2 * (a * c) + a + c) + 1 /\ a * c \in Int  BY <1>1, <3>1
    <3>3. PICK t \in Int : d * q = 2 * t + 1  BY <3>2
    <3> QED  BY <3>3
  <2> QED  BY <2>1, <2>3, <2>4
<1>3. d * q = 2 * (d * b) /\ d * b \in Int  BY <1>2
<1>4. n = d * b  BY <1>3
<1>5. b \in 1..n  BY <1>2
<1>6. d <= n
  <2>1. d * b >= d  BY <1>5
  <2> QED  BY <1>4, <2>1
<1> QED  BY <1>4, <1>5, <1>6 DEF IsPower

\* Doubling from one goes past any number before it is more than twice that.
LEMMA PowerAbove == \A m \in Nat : \E p \in (m + 1)..(2 * m + 1) : IsPower(p)
<1> DEFINE B == {m \in Nat : ~ \E p \in (m + 1)..(2 * m + 1) : IsPower(p)}
<1>1. SUFFICES ASSUME B # {} PROVE FALSE  OBVIOUS
<1>2. PICK m \in B : \A j \in B : m <= j
  <2>1. B \in SUBSET Nat  OBVIOUS
  <2> HIDE DEF B
  <2> QED  BY <1>1, <2>1, Least
<1>3. m # 0
  <2>1. IsPower(1)  BY DEF IsPower
  <2> QED  BY <2>1
<1>4. m \in Nat /\ m - 1 \in Nat /\ m - 1 \notin B  BY <1>2, <1>3
<1>5. PICK p \in m..(2 * m - 1) : IsPower(p)
  <2>1. PICK p \in ((m - 1) + 1)..(2 * (m - 1) + 1) : IsPower(p)  BY <1>4
  <2> QED  BY <1>4, <2>1
<1>6. CASE p = m
  <2>1. IsPower(2 * m)  BY <1>3, <1>4, <1>5, <1>6, Doubled
  <2> QED  BY <1>2, <1>3, <1>4, <2>1
<1>7. CASE p # m  BY <1>2, <1>4, <1>5, <1>7
<1> QED  BY <1>6, <1>7

\* hashmapCreate makes a power of two of buckets, as calculateIndex needs.
LEMMA SomeBuckets ==
    \A cap \in Capacities : BucketsFor(cap) \in Nat \ {0} /\ IsPower(BucketsFor(cap))
<1> SUFFICES ASSUME NEW cap \in Capacities
             PROVE  BucketsFor(cap) \in Nat \ {0} /\ IsPower(BucketsFor(cap))
  OBVIOUS
<1> DEFINE m == (cap * 4) \div 3
<1>1. m \in Nat
  <2>1. cap \in Nat  BY CapacityAssumption
  <2> QED  BY <2>1
<1>2. BucketsFor(cap) = CHOOSE p \in (m + 1)..(2 * m + 1) : IsPower(p)  BY DEF BucketsFor
<1> HIDE DEF m
<1>3. \E p \in (m + 1)..(2 * m + 1) : IsPower(p)  BY <1>1, PowerAbove
<1>4. BucketsFor(cap) \in (m + 1)..(2 * m + 1) /\ IsPower(BucketsFor(cap))
  BY <1>2, <1>3, Zenon
<1> QED  BY <1>1, <1>4

-----------------------------------------------------------------------------
(* Lookups between calls *)

Idle == TypeInv /\ ChainInv /\ pc = "idle"

\* Between calls all the entries lie in buckets.
LEMMA IdleArray ==
    ASSUME Idle
    PROVE  /\ bucketCount \in Nat \ {0}
           /\ Good(buckets, bucketCount)
           /\ newBuckets \in [{} -> Seq(Entry)]
           /\ EntriesIn(newBuckets) = {}
           /\ Entries = EntriesIn(buckets)
           /\ Entries \subseteq Entry
<1>1. /\ bucketCount \in Nat \ {0} /\ buckets \in [0..(bucketCount - 1) -> Seq(Entry)]
      /\ newBuckets \in [{} -> Seq(Entry)]
  BY DEF Idle, TypeInv
<1>2. EntriesIn(newBuckets) = {}  BY <1>1 DEF EntriesIn
<1>3. Entries = EntriesIn(buckets)  BY <1>2 DEF Entries
<1> QED  BY <1>1, <1>2, <1>3, EntryType DEF Idle, ChainInv, Good

\* The comparison of an entry with a key is Same, as the entry keeps the hash.
LEMMA EqualIsSame ==
    ASSUME NEW e \in Entry, e.hash = Hash[e.key], NEW k \in Keys
    PROVE  equalKeys(e, k) <=> Same[e.key, k]
<1>1. e.key \in Keys  BY DEF Entry
<1>2. Same[e.key, k] = (e.key = k \/ (Hash[e.key] = Hash[k] /\ <<e.key, k>> \in Equals))
  BY <1>1 DEF Same
<1> QED  BY <1>2, Zenon DEF equalKeys

\* The same keys have one hash, so one chain.
LEMMA SameHash ==
    ASSUME NEW a \in Keys, NEW b \in Keys, Same[a, b]
    PROVE  Hash[a] = Hash[b] /\ Hash[a] \in Int
  BY ZenonT(30), KeyAssumption DEF Same

\* The chain that a key is looked for in is simple and holds entries filed under its
\* index (hashmapGet, hashmapPut).
LEMMA HomeIn ==
    ASSUME Idle, NEW k \in Keys
    PROVE  /\ Home(k) \in 0..(bucketCount - 1)
           /\ Chain(k) = buckets[Home(k)] /\ Chain(k) \in Seq(Entry) /\ Simple(Chain(k))
           /\ \A e \in In(Chain(k)) : e \in Entries /\ e.hash = Hash[e.key]
                                      /\ e.hash % bucketCount = Home(k)
           /\ Hash[k] % bucketCount = Home(k)
<1>1. Hash[k] \in Int  BY KeyAssumption
<1>2. Home(k) = Hash[k] % bucketCount /\ Home(k) \in 0..(bucketCount - 1)
  BY <1>1, IdleArray DEF Home
<1>3. buckets \in [0..(bucketCount - 1) -> Seq(Entry)]  BY IdleArray DEF Good
<1>4. In(buckets[Home(k)]) \subseteq Entries  BY <1>2, <1>3, IdleArray, EntryIn
<1> QED  BY <1>2, <1>3, <1>4, IdleArray DEF Chain, Good, Filed, SimpleChains

\* A change of one chain, to entries that belong there, changes the entries by that
\* chain alone.
LEMMA HomeChanged ==
    ASSUME Idle, NEW k \in Keys, NEW c \in Seq(Entry), Simple(c),
           \A f \in In(c) : f.hash = Hash[f.key] /\ f.hash % bucketCount = Home(k)
    PROVE  /\ Good([buckets EXCEPT ![Home(k)] = c], bucketCount)
           /\ EntriesIn([buckets EXCEPT ![Home(k)] = c])
                = (EntriesIn(buckets) \ In(Chain(k))) \union In(c)
           /\ In(Chain(k)) \subseteq EntriesIn(buckets)
<1>1. /\ bucketCount \in Nat \ {0} /\ Good(buckets, bucketCount)
      /\ Home(k) \in 0..(bucketCount - 1) /\ Chain(k) = buckets[Home(k)]
  BY IdleArray, HomeIn
<1> DEFINE h == Home(k)
<1>2. h = Home(k)  OBVIOUS
<1> HIDE DEF h
<1>3. h \in 0..(bucketCount - 1)  BY <1>1, <1>2
<1>4. \A f \in In(c) : f.hash = Hash[f.key] /\ f.hash % bucketCount = h  BY <1>2
<1>5. /\ Good([buckets EXCEPT ![h] = c], bucketCount)
      /\ EntriesIn([buckets EXCEPT ![h] = c]) = (EntriesIn(buckets) \ In(buckets[h])) \union In(c)
      /\ In(buckets[h]) \subseteq EntriesIn(buckets)
  BY <1>1, <1>3, <1>4, ChainChanged
<1> QED  BY <1>1, <1>2, <1>5

\* The walk along the chain stops at the one entry for the key, if there is one.
LEMMA LookupFinds ==
    ASSUME Idle, UniqueInv, NEW k \in Keys
    PROVE  /\ ContainsKey(k) =>
                 /\ Hit(k) \in 1..Len(Chain(k))
                 /\ entryGet(k) \in In(Chain(k))
                 /\ entryGet(k) \in Entries
                 /\ Same[entryGet(k).key, k]
           /\ ~ContainsKey(k) => \A e \in Entries : ~Same[e.key, k]
<1>1. ASSUME ContainsKey(k)
      PROVE  /\ Hit(k) \in 1..Len(Chain(k)) /\ entryGet(k) \in In(Chain(k))
             /\ entryGet(k) \in Entries /\ Same[entryGet(k).key, k]
  <2>1. Len(Chain(k)) \in Nat  BY HomeIn
  <2>2. Hits(k) \in SUBSET Nat /\ Hits(k) # {}  BY <1>1, <2>1 DEF Hits, ContainsKey
  <2>3. \E i \in Hits(k) : \A j \in Hits(k) : i <= j  BY <2>2, Least
  <2>4. Hit(k) \in Hits(k)  BY <2>3 DEF Hit
  <2>5. Hit(k) \in 1..Len(Chain(k)) /\ equalKeys(entryGet(k), k)
    BY <2>4 DEF Hits, entryGet
  <2>6. entryGet(k) \in In(Chain(k))  BY <2>5 DEF In, entryGet
  <2>7. /\ entryGet(k) \in Entries /\ entryGet(k) \in Entry
        /\ entryGet(k).hash = Hash[entryGet(k).key]
    BY <2>6, HomeIn, IdleArray
  <2>8. Same[entryGet(k).key, k]  BY <2>5, <2>7, EqualIsSame
  <2> QED  BY <2>5, <2>6, <2>7, <2>8
<1>2. ASSUME NEW e \in Entries, Same[e.key, k]
      PROVE  ContainsKey(k)
  <2>1. PICK i \in DOMAIN buckets : e \in In(buckets[i])  BY IdleArray, EntryIn
  <2>2. e \in Entry /\ e.hash = Hash[e.key] /\ e.hash % bucketCount = i
    BY <2>1, IdleArray DEF Good, Filed
  <2>3. e.key \in Keys  BY <2>2 DEF Entry
  <2>4. i = Home(k)  BY ZenonT(30), <1>2, <2>2, <2>3, SameHash, HomeIn
  <2>5. PICK j \in 1..Len(Chain(k)) : Chain(k)[j] = e  BY <2>1, <2>4, HomeIn DEF In
  <2>6. equalKeys(e, k)  BY <1>2, <2>2, EqualIsSame
  <2>7. j \in Hits(k)  BY <2>5, <2>6 DEF Hits
  <2> QED  BY <2>7 DEF ContainsKey
<1> QED  BY <1>1, <1>2

-----------------------------------------------------------------------------
(* What the operations do to the entries *)

NewEntry(k, v) == [key |-> k, hash |-> Hash[k], value |-> v]

WithValue(e, v) == [e EXCEPT !.value = v]

\* A new value leaves the key and the hash of an entry (hashmapPut).
LEMMA EntryOf ==
    ASSUME NEW e \in Entry, NEW v \in Values \union {NULL}
    PROVE  /\ e.key \in Keys /\ e.hash \in {Hash[k] : k \in Keys} /\ e.value \in Values \union {NULL}
           /\ WithValue(e, v) \in Entry /\ WithValue(e, v).key = e.key
           /\ WithValue(e, v).hash = e.hash /\ WithValue(e, v).value = v
  BY DEF Entry, WithValue

\* What createEntry makes of a key and a value.
LEMMA FreshEntry ==
    ASSUME NEW k \in Keys, NEW v \in Values \union {NULL}
    PROVE  /\ NewEntry(k, v) \in Entry /\ NewEntry(k, v).key = k
           /\ NewEntry(k, v).hash = Hash[k] /\ NewEntry(k, v).value = v
  BY DEF Entry, NewEntry

\* A key equals itself (the equals of hashmapCreate).
LEMMA SameItself == \A k \in Keys : Same[k, k]
  BY DEF Same

\* Linking an entry at the end of its chain adds it and nothing else (hashmapPut).
LEMMA Linked ==
    ASSUME Idle, UniqueInv, NEW k \in Keys, NEW v \in Values \union {NULL}, ~ContainsKey(k)
    PROVE  /\ Good([buckets EXCEPT ![Home(k)] = Append(@, NewEntry(k, v))], bucketCount)
           /\ EntriesIn([buckets EXCEPT ![Home(k)] = Append(@, NewEntry(k, v))])
                = Entries \union {NewEntry(k, v)}
<1> DEFINE e == NewEntry(k, v)
           c == Append(Chain(k), e)
<1>1. e \in Entry /\ e.key = k /\ e.hash = Hash[k]  BY FreshEntry
<1>2. e \notin In(Chain(k))
  BY <1>1, LookupFinds, HomeIn, SameItself
<1>3. c \in Seq(Entry) /\ In(c) = In(Chain(k)) \union {e} /\ Simple(c)
  BY <1>1, <1>2, HomeIn, Appended
<1> HIDE DEF e, c
<1>4. \A f \in In(c) : f.hash = Hash[f.key] /\ f.hash % bucketCount = Home(k)
  BY <1>1, <1>3, HomeIn
<1>5. /\ Good([buckets EXCEPT ![Home(k)] = c], bucketCount)
      /\ EntriesIn([buckets EXCEPT ![Home(k)] = c])
            = (EntriesIn(buckets) \ In(Chain(k))) \union In(c)
      /\ In(Chain(k)) \subseteq EntriesIn(buckets)
  BY <1>3, <1>4, HomeChanged
<1>6. [buckets EXCEPT ![Home(k)] = Append(@, e)] = [buckets EXCEPT ![Home(k)] = c]
  BY DEF Chain, c
<1> QED  BY <1>3, <1>5, <1>6, IdleArray DEF e

\* Assigning a value replaces the entry that was found and nothing else (hashmapPut,
\* hashmapMemoize).
LEMMA Rewrites ==
    ASSUME Idle, UniqueInv, NEW k \in Keys, NEW v \in Values \union {NULL}, ContainsKey(k)
    PROVE  /\ Good(Assigned(k, v), bucketCount)
           /\ EntriesIn(Assigned(k, v))
                = (Entries \ {entryGet(k)}) \union {WithValue(entryGet(k), v)}
<1> DEFINE g == entryGet(k)
           e == WithValue(g, v)
           c == [Chain(k) EXCEPT ![Hit(k)] = e]
<1>1. /\ Hit(k) \in 1..Len(Chain(k)) /\ g = Chain(k)[Hit(k)]
      /\ g \in In(Chain(k)) /\ g \in Entries /\ g \in Entry
  BY LookupFinds, IdleArray DEF entryGet
<1>2. e \in Entry /\ e.key = g.key /\ e.hash = g.hash  BY <1>1, EntryOf
<1> HIDE DEF g, e
<1>3. e \notin In(Chain(k)) \ {g}
  <2>1. \A f \in In(Chain(k)) : f \in Entries /\ f.key \in Keys
    BY HomeIn, IdleArray DEF Entry
  <2> QED  BY <1>1, <1>2, <2>1, SameItself DEF UniqueInv
<1>4. c \in Seq(Entry) /\ In(c) = (In(Chain(k)) \ {g}) \union {e} /\ Simple(c)
  BY <1>1, <1>2, <1>3, HomeIn, Replaced
<1> HIDE DEF c
<1>5. \A f \in In(c) : f.hash = Hash[f.key] /\ f.hash % bucketCount = Home(k)
  BY <1>1, <1>2, <1>4, HomeIn
<1>6. /\ Good([buckets EXCEPT ![Home(k)] = c], bucketCount)
      /\ EntriesIn([buckets EXCEPT ![Home(k)] = c])
            = (EntriesIn(buckets) \ In(Chain(k))) \union In(c)
      /\ In(Chain(k)) \subseteq EntriesIn(buckets)
  BY <1>4, <1>5, HomeChanged
<1>7. Assigned(k, v) = [buckets EXCEPT ![Home(k)] = c]
  BY <1>1 DEF Assigned, Chain, WithValue, c, e
<1>8. (EntriesIn(buckets) \ In(Chain(k))) \union In(c) = (EntriesIn(buckets) \ {g}) \union {e}
  <2>1. \A f \in In(Chain(k)) : f \in Entries /\ f.key \in Keys
    BY HomeIn, IdleArray DEF Entry
  <2> QED  BY <1>1, <1>4, <1>6
<1> QED  BY <1>6, <1>7, <1>8, IdleArray DEF g, e

\* Unlinking the entry that was found drops it and nothing else (hashmapRemove).
LEMMA Unlinks ==
    ASSUME Idle, UniqueInv, NEW k \in Keys, ContainsKey(k)
    PROVE  LET B == [buckets EXCEPT ![Home(k)] =
                        SubSeq(@, 1, Hit(k) - 1) \o SubSeq(@, Hit(k) + 1, Len(@))]
           IN  Good(B, bucketCount) /\ EntriesIn(B) = Entries \ {entryGet(k)}
<1> DEFINE g == entryGet(k)
           c == SubSeq(Chain(k), 1, Hit(k) - 1) \o SubSeq(Chain(k), Hit(k) + 1, Len(Chain(k)))
<1>1. Hit(k) \in 1..Len(Chain(k)) /\ g = Chain(k)[Hit(k)] /\ g \in In(Chain(k))
  BY LookupFinds DEF entryGet
<1>2. c \in Seq(Entry) /\ In(c) = In(Chain(k)) \ {g} /\ Simple(c)
  BY <1>1, HomeIn, Unlinked
<1> HIDE DEF c, g
<1>3. \A f \in In(c) : f.hash = Hash[f.key] /\ f.hash % bucketCount = Home(k)
  BY <1>2, HomeIn
<1>4. /\ Good([buckets EXCEPT ![Home(k)] = c], bucketCount)
      /\ EntriesIn([buckets EXCEPT ![Home(k)] = c])
            = (EntriesIn(buckets) \ In(Chain(k))) \union In(c)
      /\ In(Chain(k)) \subseteq EntriesIn(buckets)
  BY <1>2, <1>3, HomeChanged
<1>5. [buckets EXCEPT ![Home(k)] =
          SubSeq(@, 1, Hit(k) - 1) \o SubSeq(@, Hit(k) + 1, Len(@))]
        = [buckets EXCEPT ![Home(k)] = c]
  BY DEF Chain, c
<1>6. (EntriesIn(buckets) \ In(Chain(k))) \union In(c) = EntriesIn(buckets) \ {g}
  BY <1>1, <1>2, <1>4
<1> QED  BY <1>4, <1>5, <1>6, IdleArray DEF g

\* Moving the first entry of a chain to the new array loses and doubles none
\* (expandIfNecessary).
LEMMA Moves ==
    ASSUME TypeInv, ChainInv, UniqueInv, pc = "moving",
           NEW i \in DOMAIN buckets, buckets[i] # <<>>, Move(i)
    PROVE  /\ Good(buckets', bucketCount) /\ Good(newBuckets', 2 * bucketCount)
           /\ Entries' = Entries
           /\ EntriesIn(buckets') \intersect EntriesIn(newBuckets') = {}
<1> DEFINE e == Head(buckets[i])
           h == NewHome(e)
<1>1. /\ bucketCount \in Nat \ {0} /\ 2 * bucketCount \in Nat \ {0}
      /\ i \in 0..(bucketCount - 1)
      /\ Good(buckets, bucketCount) /\ Good(newBuckets, 2 * bucketCount)
  BY DEF TypeInv, ChainInv, Good
<1>2. buckets[i] \in Seq(Entry) /\ Simple(buckets[i])  BY <1>1 DEF Good, SimpleChains
<1>3. /\ e \in In(buckets[i]) /\ e \in Entry /\ Tail(buckets[i]) \in Seq(Entry)
      /\ In(Tail(buckets[i])) = In(buckets[i]) \ {e} /\ Simple(Tail(buckets[i]))
  BY <1>2, Headless
<1> HIDE DEF e
<1>4. e \in EntriesIn(buckets) /\ e.hash = Hash[e.key] /\ e.hash \in Int
  <2>1. e.key \in Keys  BY <1>3 DEF Entry
  <2>2. e \in EntriesIn(buckets)  BY <1>3, EntryIn
  <2>3. e.hash = Hash[e.key]  BY <1>1, <1>3 DEF Good, Filed
  <2>4. Hash[e.key] \in Int  BY <2>1, KeyAssumption
  <2> QED  BY <2>2, <2>3, <2>4
<1>5. h = e.hash % (2 * bucketCount) /\ h \in 0..(2 * bucketCount - 1)
  BY <1>1, <1>4 DEF NewHome
<1> HIDE DEF h
<1>6. newBuckets[h] \in Seq(Entry) /\ Simple(newBuckets[h])
  BY <1>1, <1>5 DEF Good, SimpleChains
<1>7. e \notin EntriesIn(newBuckets) /\ In(newBuckets[h]) \subseteq EntriesIn(newBuckets)
  <2>1. DOMAIN newBuckets = 0..(2 * bucketCount - 1)  BY <1>1 DEF Good
  <2> QED  BY <1>4, <1>5, <2>1, EntryIn DEF UniqueInv
<1> DEFINE c == <<e>> \o newBuckets[h]
<1>8. c \in Seq(Entry) /\ In(c) = In(newBuckets[h]) \union {e} /\ Simple(c)
  BY <1>3, <1>6, <1>7, Prepended
<1> HIDE DEF c
<1>9. /\ buckets' = [buckets EXCEPT ![i] = Tail(buckets[i])]
      /\ newBuckets' = [newBuckets EXCEPT ![h] = c]
  BY DEF Move, e, h, c
<1> DEFINE t == Tail(buckets[i])
<1> HIDE DEF t
<1>10. /\ Good(buckets', bucketCount)
       /\ EntriesIn(buckets') = (EntriesIn(buckets) \ In(buckets[i])) \union In(t)
       /\ In(buckets[i]) \subseteq EntriesIn(buckets)
  <2>1. t \in Seq(Entry) /\ Simple(t) /\ In(t) = In(buckets[i]) \ {e}  BY <1>3 DEF t
  <2>2. \A f \in In(t) : f.hash = Hash[f.key] /\ f.hash % bucketCount = i
    BY <1>1, <2>1 DEF Good, Filed
  <2>3. /\ Good([buckets EXCEPT ![i] = t], bucketCount)
        /\ EntriesIn([buckets EXCEPT ![i] = t]) = (EntriesIn(buckets) \ In(buckets[i])) \union In(t)
        /\ In(buckets[i]) \subseteq EntriesIn(buckets)
    BY <1>1, <2>1, <2>2, ChainChanged
  <2> QED  BY <1>9, <2>3 DEF t
<1>11. /\ Good(newBuckets', 2 * bucketCount)
       /\ EntriesIn(newBuckets') = (EntriesIn(newBuckets) \ In(newBuckets[h])) \union In(c)
  <2>1. \A f \in In(c) : f.hash = Hash[f.key] /\ f.hash % (2 * bucketCount) = h
    BY <1>1, <1>4, <1>5, <1>8 DEF Good, Filed
  <2> DEFINE m == 2 * bucketCount
  <2>2. m \in Nat \ {0} /\ h \in 0..(m - 1) /\ Good(newBuckets, m)  BY <1>1, <1>5
  <2>3. \A f \in In(c) : f.hash = Hash[f.key] /\ f.hash % m = h  BY <2>1
  <2> HIDE DEF m
  <2>4. /\ Good([newBuckets EXCEPT ![h] = c], m)
        /\ EntriesIn([newBuckets EXCEPT ![h] = c])
              = (EntriesIn(newBuckets) \ In(newBuckets[h])) \union In(c)
        /\ In(newBuckets[h]) \subseteq EntriesIn(newBuckets)
    BY <1>8, <2>2, <2>3, ChainChanged
  <2> QED  BY <1>9, <2>4 DEF m
<1>12. /\ EntriesIn(buckets') = EntriesIn(buckets) \ {e}
       /\ EntriesIn(newBuckets') = EntriesIn(newBuckets) \union {e}
  BY <1>3, <1>7, <1>8, <1>10, <1>11 DEF t
<1>13. EntriesIn(buckets) \intersect EntriesIn(newBuckets) = {}  BY DEF UniqueInv
<1> QED  BY <1>4, <1>10, <1>11, <1>12, <1>13 DEF Entries

-----------------------------------------------------------------------------
(* Every step preserves the invariant *)

Rest == size \in Nat /\ ret \in Values \union {NULL} /\ live \subseteq Keys /\ starved \in BOOLEAN

\* A call that ends with one well-formed array leaves the map as between calls.
LEMMA IdleAgain ==
    ASSUME bucketCount' \in Nat \ {0}, Good(buckets', bucketCount'), pc' = "idle",
           newBuckets' \in [{} -> Seq(Entry)], Rest'
    PROVE  /\ TypeInv' /\ ChainInv' /\ Entries' = EntriesIn(buckets')
           /\ EntriesIn(newBuckets') = {} /\ Entries' \subseteq Entry
<1>1. EntriesIn(newBuckets') = {}  BY DEF EntriesIn
<1>2. Filed(newBuckets', 2 * bucketCount') /\ SimpleChains(newBuckets')
  BY DEF Filed, SimpleChains
<1>3. Entries' = EntriesIn(buckets')  BY <1>1 DEF Entries
<1>4. EntriesIn(buckets') \subseteq Entry  BY EntryType DEF Good
<1> QED  BY <1>1, <1>2, <1>3, <1>4 DEF TypeInv, ChainInv, Good, Rest

\* A rehash that goes on with two well-formed arrays keeps both.
LEMMA MovingOn ==
    ASSUME bucketCount' \in Nat \ {0}, Good(buckets', bucketCount'), pc' = "moving",
           Good(newBuckets', 2 * bucketCount'), Rest'
    PROVE  TypeInv' /\ ChainInv'
  BY DEF TypeInv, ChainInv, Good, Rest

\* hashmapGet gives a value or NULL.
LEMMA GetIn ==
    ASSUME Idle, UniqueInv, NEW k \in Keys
    PROVE  Get(k) \in Values \union {NULL}
  BY LookupFinds, IdleArray DEF Get, Entry

Added(k, v) == ~ContainsKey(k) /\ Entries' = Entries \union {NewEntry(k, v)}

Rewritten(k, v) ==
    ContainsKey(k) /\ Entries' = (Entries \ {entryGet(k)}) \union {WithValue(entryGet(k), v)}

Dropped(k) == ContainsKey(k) /\ Entries' = Entries \ {entryGet(k)}

\* hashmapPut and hashmapMemoize of a key that is not there: the entry is linked, and
\* the array that expandIfNecessary gets is empty; or there is no memory.
LEMMA AddStep ==
    ASSUME IInv, pc = "idle", NEW k \in Keys, NEW v \in Values \union {NULL},
           ~ContainsKey(k), Add(k, v), bucketCount' = bucketCount,
           ret' \in Values \union {NULL}
    PROVE  /\ IInv'
           /\ \/ Added(k, v) /\ k \in live'
              \/ Entries' = Entries /\ k \notin live'
<1>1. Idle  BY DEF IInv, Idle
<1>2. k \notin live /\ \A e \in Entries : e.key \in Keys /\ ~Same[e.key, k] /\ ~Same[k, e.key]
  <2>1. \A e \in Entries : e.key \in Keys /\ ~Same[e.key, k]
    BY <1>1, LookupFinds, IdleArray DEF IInv, Entry
  <2> QED  BY <2>1, SameItself, KeyAssumption DEF IInv, CountInv
<1>3. CASE /\ buckets' = [buckets EXCEPT ![Home(k)] = Append(@, NewEntry(k, v))]
           /\ size' = size + 1 /\ live' = live \union {k}
           /\ Expand(size')
  <2> DEFINE n == NewEntry(k, v)
  <2>1. /\ Good(buckets', bucketCount')
        /\ EntriesIn(buckets') = Entries \union {n}
    <3>1. UniqueInv  BY DEF IInv
    <3>2. /\ Good([buckets EXCEPT ![Home(k)] = Append(@, NewEntry(k, v))], bucketCount)
          /\ EntriesIn([buckets EXCEPT ![Home(k)] = Append(@, NewEntry(k, v))])
                = Entries \union {NewEntry(k, v)}
      BY <1>1, <3>1, Linked, Zenon
    <3>3. /\ buckets' = [buckets EXCEPT ![Home(k)] = Append(@, NewEntry(k, v))]
          /\ bucketCount' = bucketCount
      BY <1>3
    <3> QED  BY <3>2, <3>3
  <2>2. n \in Entry /\ n.key = k  BY FreshEntry
  <2> HIDE DEF n
  <2>3. Rest'
    <3>1. size' \in Nat /\ live' \subseteq Keys  BY <1>3 DEF IInv, TypeInv
    <3>2. starved' \in BOOLEAN
      <4>1. starved \in BOOLEAN  BY DEF IInv, TypeInv
      <4>2. starved' = starved \/ starved' = TRUE  BY <1>3, Zenon DEF Expand
      <4> QED  BY <4>1, <4>2, Zenon
    <3> QED  BY <3>1, <3>2 DEF Rest
  <2>4. /\ IsFiniteSet(live') /\ Cardinality(live') = size'
    BY <1>2, <1>3, FS_AddElement DEF IInv, CountInv
  <2>5. TypeInv' /\ ChainInv' /\ Entries' = EntriesIn(buckets') /\ EntriesIn(newBuckets') = {}
    <3>1. bucketCount' \in Nat \ {0} /\ newBuckets \in [{} -> Seq(Entry)]  BY <1>1, IdleArray
    <3>2. CASE newBuckets' = Empty(2 * bucketCount) /\ pc' = "moving"
      <4> DEFINE m == 2 * bucketCount
      <4>1. m \in Nat \ {0}  BY <3>1
      <4> HIDE DEF m
      <4>2. Good(Empty(m), m) /\ EntriesIn(Empty(m)) = {}  BY <4>1, EmptyIsGood
      <4>3. Good(newBuckets', 2 * bucketCount') /\ EntriesIn(newBuckets') = {}
        BY <3>2, <4>2 DEF m
      <4>4. Entries' = EntriesIn(buckets')  BY <4>3 DEF Entries
      <4> QED  BY <2>1, <2>3, <3>1, <3>2, <4>3, <4>4, MovingOn
    <3>3. CASE newBuckets' = newBuckets /\ pc' = pc
      BY <2>1, <2>3, <3>1, <3>3, IdleAgain
    <3> QED  BY <1>3, <3>2, <3>3 DEF Expand
  <2>6. Entries' = Entries \union {n}  BY <2>1, <2>5
  <2>7. UniqueInv'
    <3>1. \A e, f \in Entries : Same[e.key, f.key] => e = f  BY DEF IInv, UniqueInv
    <3>2. \A e, f \in Entries' : Same[e.key, f.key] => e = f  BY <1>2, <2>2, <2>6, <3>1
    <3> QED  BY <2>5, <3>2 DEF UniqueInv
  <2>8. CountInv'
    <3>1. live = {e.key : e \in Entries}  BY DEF IInv, CountInv
    <3>2. live' = {e.key : e \in Entries'}  BY <1>3, <2>2, <2>6, <3>1
    <3> QED  BY <2>4, <3>2 DEF CountInv
  <2>9. LoadInv'
    <3>1. /\ bucketCount \in Nat \ {0} /\ bucketCount' = bucketCount
          /\ size \in Nat /\ size' = size + 1
          /\ starved \/ size <= (bucketCount * 3) \div 4
      BY <1>3 DEF IInv, TypeInv, LoadInv
    <3>2. CASE Overloaded(size') /\ pc' = "moving" /\ UNCHANGED starved
      BY <3>1, <3>2 DEF LoadInv
    <3>3. CASE starved' = TRUE  BY <3>3, Zenon DEF LoadInv
    <3>4. CASE ~Overloaded(size') /\ pc' = pc  BY <3>1, <3>4 DEF LoadInv, Overloaded
    <3> QED  BY <1>3, <3>2, <3>3, <3>4 DEF Expand
  <2> QED  BY <1>3, <2>5, <2>6, <2>7, <2>8, <2>9 DEF IInv, Added, n
<1>4. CASE UNCHANGED <<buckets, size, live, newBuckets, pc, starved>>
  <2>1. Entries' = Entries /\ EntriesIn(buckets') = EntriesIn(buckets)
        /\ EntriesIn(newBuckets') = EntriesIn(newBuckets)
    BY <1>4 DEF Entries, EntriesIn, In
  <2>2. TypeInv' /\ ChainInv'
    BY <1>4 DEF IInv, TypeInv, ChainInv, Filed, SimpleChains, Simple, In
  <2>3. UniqueInv'  BY <2>1 DEF IInv, UniqueInv
  <2>4. CountInv'  BY <1>4, <2>1 DEF IInv, CountInv
  <2>5. LoadInv'  BY <1>4 DEF IInv, LoadInv
  <2> QED  BY <1>2, <1>4, <2>1, <2>2, <2>3, <2>4, <2>5 DEF IInv
<1> QED  BY <1>3, <1>4 DEF Add, NewEntry

\* The call writes a value through the entry it found (hashmapPut, header_callback).
LEMMA AssignStep ==
    ASSUME IInv, pc = "idle", NEW k \in Keys, NEW v \in Values,
           ContainsKey(k), buckets' = Assigned(k, v), ret' \in Values \union {NULL},
           UNCHANGED <<bucketCount, size, newBuckets, pc, live, starved>>
    PROVE  IInv' /\ Rewritten(k, v)
<1>1. Idle /\ UniqueInv  BY DEF IInv, Idle
<1> DEFINE g == entryGet(k)
           e == WithValue(g, v)
<1>2. Good(buckets', bucketCount') /\ EntriesIn(buckets') = (Entries \ {g}) \union {e}
  BY <1>1, Rewrites
<1>3. g \in Entries /\ g \in Entry  BY <1>1, LookupFinds, IdleArray
<1>4. e \in Entry /\ e.key = g.key  BY <1>3, EntryOf
<1> HIDE DEF g, e
<1>5. TypeInv' /\ ChainInv' /\ Entries' = EntriesIn(buckets') /\ EntriesIn(newBuckets') = {}
  <2>1. Rest'  BY DEF IInv, TypeInv, Rest
  <2>2. bucketCount' \in Nat \ {0} /\ newBuckets' \in [{} -> Seq(Entry)]  BY <1>1, IdleArray
  <2> QED  BY <1>2, <2>1, <2>2, IdleAgain
<1>6. Entries' = (Entries \ {g}) \union {e}  BY <1>2, <1>5
<1>7. UniqueInv'
  <2>1. \A d, f \in Entries : Same[d.key, f.key] => d = f  BY <1>1 DEF UniqueInv
  <2>2. \A d, f \in Entries' : Same[d.key, f.key] => d = f  BY <1>3, <1>4, <1>6, <2>1
  <2> QED  BY <1>5, <2>2 DEF UniqueInv
<1>8. CountInv'
  <2>1. live = {f.key : f \in Entries} /\ IsFiniteSet(live) /\ size = Cardinality(live)
    BY DEF IInv, CountInv
  <2>2. {f.key : f \in Entries'} = {f.key : f \in Entries}  BY <1>3, <1>4, <1>6
  <2> QED  BY <2>1, <2>2 DEF CountInv
<1>9. LoadInv'  BY DEF IInv, LoadInv
<1> QED  BY <1>5, <1>6, <1>7, <1>8, <1>9 DEF IInv, Rewritten, g, e

\* A call that changes nothing of the map.
LEMMA KeptStep ==
    ASSUME IInv, ret' \in Values \union {NULL},
           UNCHANGED <<buckets, bucketCount, size, newBuckets, pc, live, starved>>
    PROVE  IInv' /\ Entries' = Entries
<1>1. Entries' = Entries /\ EntriesIn(buckets') = EntriesIn(buckets)
      /\ EntriesIn(newBuckets') = EntriesIn(newBuckets)
  BY DEF Entries, EntriesIn, In
<1>2. TypeInv'  BY DEF IInv, TypeInv
<1>3. ChainInv'  BY DEF IInv, ChainInv, Filed, SimpleChains, Simple, In
<1>4. UniqueInv'  BY <1>1 DEF IInv, UniqueInv
<1>5. CountInv'  BY <1>1 DEF IInv, CountInv
<1>6. LoadInv'  BY DEF IInv, LoadInv
<1> QED  BY <1>1, <1>2, <1>3, <1>4, <1>5, <1>6 DEF IInv

\* hashmapRemove: the entry is unlinked and freed.
LEMMA RemoveStep ==
    ASSUME IInv, NEW k \in Keys, Remove(k)
    PROVE  /\ IInv'
           /\ Dropped(k) \/ (~ContainsKey(k) /\ Entries' = Entries)
<1>1. Idle /\ UniqueInv /\ ret' \in Values \union {NULL}  BY GetIn DEF IInv, Idle, Remove
<1>2. CASE ~ContainsKey(k)  BY <1>1, <1>2, KeptStep DEF Remove
<1>3. CASE ContainsKey(k)
  <2> DEFINE g == entryGet(k)
  <2>1. /\ Good(buckets', bucketCount') /\ EntriesIn(buckets') = Entries \ {g}
        /\ size' = size - 1 /\ live' = live \ {g.key}
        /\ UNCHANGED <<bucketCount, newBuckets, pc, starved>>
    BY <1>1, <1>3, Unlinks DEF Remove
  <2>2. g \in Entries /\ g \in Entry  BY <1>1, <1>3, LookupFinds, IdleArray
  <2> HIDE DEF g
  <2>3. \A e, f \in Entries : Same[e.key, f.key] => e = f  BY <1>1 DEF UniqueInv
  <2>4. live = {e.key : e \in Entries} /\ IsFiniteSet(live) /\ size = Cardinality(live)
    BY DEF IInv, CountInv
  <2>5. IsFiniteSet(live') /\ size' = Cardinality(live')
    <3>1. g.key \in live  BY <2>2, <2>4
    <3> QED  BY <2>1, <2>4, <3>1, FS_RemoveElement
  <2>6. size' \in Nat /\ size' <= size  BY <2>1, <2>4, <2>5, FS_CardinalityType
  <2>7. TypeInv' /\ ChainInv' /\ Entries' = EntriesIn(buckets') /\ EntriesIn(newBuckets') = {}
    <3>1. Rest'  BY <1>1, <2>1, <2>6 DEF IInv, TypeInv, Rest
    <3>2. bucketCount' \in Nat \ {0} /\ newBuckets' \in [{} -> Seq(Entry)] /\ pc' = "idle"
      BY <1>1, <2>1, IdleArray DEF Idle
    <3> QED  BY <2>1, <3>1, <3>2, IdleAgain
  <2>8. Entries' = Entries \ {g}  BY <2>1, <2>7
  <2>9. UniqueInv'  BY <2>3, <2>7, <2>8 DEF UniqueInv
  <2>10. CountInv'
    <3>1. \A e \in Entries : e.key = g.key => e = g
      <4>1. \A e \in Entries : e.key \in Keys  BY <1>1, IdleArray DEF Entry
      <4> QED  BY <2>2, <2>3, <4>1, SameItself
    <3>2. live' = {e.key : e \in Entries'}  BY <2>1, <2>4, <2>8, <3>1
    <3> QED  BY <2>5, <3>2 DEF CountInv
  <2>11. LoadInv'
    <3>1. bucketCount \in Nat \ {0} /\ size \in Nat  BY DEF IInv, TypeInv
    <3> QED  BY <1>1, <2>1, <2>6, <3>1 DEF IInv, LoadInv, Idle
  <2> QED  BY <1>3, <2>7, <2>8, <2>9, <2>10, <2>11 DEF IInv, Dropped, g
<1> QED  BY <1>2, <1>3

\* hashmapClear and hashmapFree: no entry is left, every one is freed.
LEMMA NoneLeft ==
    ASSUME IInv, Clear \/ Free
    PROVE  IInv' /\ Entries' = {}
<1>1. Idle  BY DEF IInv, Idle, Clear, Free
<1>2. Cleared = {}
  <2>1. KeysIn(buckets) = {e.key : e \in Entries}  BY <1>1, IdleArray DEF KeysIn
  <2> QED  BY <2>1 DEF IInv, CountInv, Cleared
<1>3. /\ bucketCount \in Nat \ {0} /\ newBuckets' \in [{} -> Seq(Entry)]
      /\ bucketCount' = bucketCount
  BY <1>1, IdleArray DEF Clear, Free
<1>4. Rest'
  BY <1>2 DEF IInv, TypeInv, Rest, Clear, Free
<1>5. TypeInv' /\ ChainInv' /\ Entries' = {} /\ EntriesIn(buckets') = {}
  <2>1. CASE Clear
    <3>1. Good(buckets', bucketCount') /\ EntriesIn(buckets') = {} /\ pc' = "idle"
      BY <1>3, <2>1, EmptyIsGood DEF Clear
    <3> QED  BY <1>3, <1>4, <3>1, IdleAgain
  <2>2. CASE Free
    <3>1. /\ buckets' \in [{} -> Seq(Entry)] /\ EntriesIn(buckets') = {} /\ pc' = "freed"
      BY <2>2, NoneInNoBuckets DEF Free
    <3>2. EntriesIn(newBuckets') = {}  BY <1>3 DEF EntriesIn
    <3>3. TypeInv'  BY <1>3, <1>4, <3>1 DEF TypeInv, Rest
    <3>4. ChainInv'  BY <1>3, <3>1 DEF ChainInv, Filed, SimpleChains
    <3> QED  BY <3>1, <3>2, <3>3, <3>4 DEF Entries
  <2> QED  BY <2>1, <2>2
<1>6. UniqueInv'  BY <1>5 DEF UniqueInv
<1>7. CountInv'
  <2>1. live' = {} /\ size' = 0  BY <1>2 DEF Clear, Free
  <2> QED  BY <1>5, <2>1, FS_EmptySet DEF CountInv
<1>8. LoadInv'
  <2>1. size' = 0 /\ pc' # "moving"  BY <1>1 DEF Clear, Free, Idle
  <2> QED  BY <1>3, <2>1 DEF LoadInv
<1> QED  BY <1>5, <1>6, <1>7, <1>8 DEF IInv

\* One turn of the relinking: the entry is in the other array now.
LEMMA RelinkStep ==
    ASSUME IInv, Relink
    PROVE  IInv' /\ Entries' = Entries
<1>1. PICK i \in DOMAIN buckets : buckets[i] # <<>> /\ Move(i)  BY DEF Relink
<1>2. pc = "moving" /\ UNCHANGED <<bucketCount, size, pc, ret, live, starved>>  BY DEF Relink
<1>3. /\ Good(buckets', bucketCount) /\ Good(newBuckets', 2 * bucketCount)
      /\ Entries' = Entries
      /\ EntriesIn(buckets') \intersect EntriesIn(newBuckets') = {}
  BY <1>1, <1>2, Moves DEF IInv
<1>4. Rest' /\ bucketCount' \in Nat \ {0}  BY <1>2 DEF IInv, TypeInv, Rest
<1>5. TypeInv' /\ ChainInv'  BY <1>2, <1>3, <1>4, MovingOn
<1>6. UniqueInv'  BY <1>3 DEF IInv, UniqueInv
<1>7. CountInv'  BY <1>2, <1>3 DEF IInv, CountInv
<1>8. LoadInv'  BY <1>2 DEF IInv, LoadInv
<1> QED  BY <1>3, <1>5, <1>6, <1>7, <1>8 DEF IInv

\* The new array takes the place of the old one, which is empty by now.
LEMMA ExpandedStep ==
    ASSUME IInv, Expanded
    PROVE  IInv' /\ Entries' = Entries
<1>1. /\ pc = "moving" /\ pc' = "idle" /\ buckets' = newBuckets
      /\ bucketCount' = 2 * bucketCount /\ newBuckets' = NoBuckets
      /\ \A i \in DOMAIN buckets : buckets[i] = <<>>
      /\ UNCHANGED <<size, ret, live, starved>>
  BY DEF Expanded, Swap
<1>2. bucketCount \in Nat \ {0} /\ bucketCount' \in Nat \ {0}  BY <1>1 DEF IInv, TypeInv
<1>3. EntriesIn(buckets) = {}  BY <1>1 DEF EntriesIn, In
<1>4. Good(buckets', bucketCount')  BY <1>1 DEF IInv, TypeInv, ChainInv, Good
<1>5. Rest'  BY <1>1 DEF IInv, TypeInv, Rest
<1>6. newBuckets' \in [{} -> Seq(Entry)]  BY <1>1, NoneInNoBuckets
<1>7. TypeInv' /\ ChainInv' /\ Entries' = EntriesIn(buckets') /\ EntriesIn(newBuckets') = {}
  BY <1>1, <1>2, <1>4, <1>5, <1>6, IdleAgain
<1>8. Entries' = Entries  BY <1>1, <1>3, <1>7 DEF Entries
<1>9. UniqueInv'  BY <1>7, <1>8 DEF IInv, UniqueInv
<1>10. CountInv'  BY <1>1, <1>8 DEF IInv, CountInv
<1>11. LoadInv'
  <2>1. starved \/ size <= ((2 * bucketCount) * 3) \div 4  BY <1>1 DEF IInv, LoadInv
  <2> QED  BY <1>1, <2>1, Zenon DEF LoadInv
<1> QED  BY <1>7, <1>8, <1>9, <1>10, <1>11 DEF IInv

\* hashmapCreate makes an empty map.
LEMMA InitInv == Init => IInv
<1> SUFFICES ASSUME Init PROVE IInv  OBVIOUS
<1>1. bucketCount \in Nat \ {0}  BY SomeBuckets DEF Init
<1>2. /\ Good(buckets, bucketCount) /\ EntriesIn(buckets) = {}
      /\ newBuckets \in [{} -> Seq(Entry)] /\ EntriesIn(newBuckets) = {}
  BY <1>1, EmptyIsGood, NoneInNoBuckets DEF Init
<1>3. Entries = {}  BY <1>2 DEF Entries
<1>4. TypeInv  BY <1>1, <1>2 DEF Init, TypeInv, Good
<1>5. ChainInv  BY <1>2 DEF ChainInv, Good, Filed, SimpleChains
<1>6. UniqueInv  BY <1>2, <1>3 DEF UniqueInv
<1>7. CountInv  BY <1>3, FS_EmptySet DEF Init, CountInv
<1>8. LoadInv  BY <1>1 DEF Init, LoadInv
<1> QED  BY <1>4, <1>5, <1>6, <1>7, <1>8 DEF IInv

\* Every call, and every step of a rehash, keeps the invariant (hashmapPut,
\* hashmapMemoize, hashmapRemove, hashmapClear, hashmapFree, expandIfNecessary).
LEMMA StepInv == IInv /\ [Next]_vars => IInv'
<1> SUFFICES ASSUME IInv, [Next]_vars PROVE IInv'  OBVIOUS
<1> USE DEF Idle
<1>1. ASSUME NEW k \in Keys, NEW v \in Values, Put(k, v) PROVE IInv'
  <2>1. pc = "idle" /\ bucketCount' = bucketCount /\ ret' \in Values \union {NULL}
    BY <1>1, GetIn DEF Put, IInv
  <2> QED  BY <1>1, <2>1, AddStep, AssignStep DEF Put
<1>2. ASSUME NEW k \in Keys, NEW v \in Values, Assign(k, v) PROVE IInv'
  <2>1. ret' \in Values \union {NULL}  BY <1>2 DEF Assign, IInv, TypeInv
  <2> QED  BY <1>2, <2>1, AssignStep DEF Assign
<1>3. ASSUME NEW k \in Keys, NEW v \in Values \union {NULL}, Memoize(k, v) PROVE IInv'
  <2>1. pc = "idle" /\ bucketCount' = bucketCount /\ ret' \in Values \union {NULL}
    BY <1>3, GetIn DEF Memoize, IInv
  <2> QED  BY <1>3, <2>1, AddStep, KeptStep DEF Memoize
<1>4. ASSUME NEW k \in Keys, Remove(k) PROVE IInv'  BY <1>4, RemoveStep
<1>5. CASE Clear \/ Free  BY <1>5, NoneLeft
<1>6. CASE Relink  BY <1>6, RelinkStep
<1>7. CASE Expanded  BY <1>7, ExpandedStep
<1>8. CASE UNCHANGED vars
  <2>1. ret' \in Values \union {NULL}  BY <1>8 DEF vars, IInv, TypeInv
  <2> QED  BY <1>8, <2>1, KeptStep DEF vars
<1> QED  BY <1>1, <1>2, <1>3, <1>4, <1>5, <1>6, <1>7, <1>8 DEF Next

\* The chains and the entries in them agree at every step, in an expansion too.
THEOREM Invariance == Spec => []IInv
  BY InitInv, StepInv, PTL DEF Spec

-----------------------------------------------------------------------------
(* The properties *)

\* With the chains well formed every key that was put is found.
LEMMA InvLookup == IInv => LookupComplete
<1> SUFFICES ASSUME IInv, pc = "idle", NEW k \in Keys, NEW o \in live, Same[o, k]
             PROVE  ContainsKey(k)
  BY DEF LookupComplete
<1>1. Idle /\ UniqueInv  BY DEF IInv, Idle
<1>2. PICK e \in Entries : e.key = o  BY DEF IInv, CountInv
<1> QED  BY <1>1, <1>2, LookupFinds

\* An entry is found under every key that is the same as its own, whatever has been
\* moved, replaced and removed before (entryGet, hashmapGet, hashmapContainsKey).
THEOREM LookupsAreComplete == Spec => []LookupComplete
<1>1. IInv => LookupComplete  BY InvLookup
<1> QED  BY <1>1, Invariance, PTL

\* With the chains well formed the entries allocated are those in the chains.
LEMMA InvCounted == IInv => EntriesCounted
<1> SUFFICES ASSUME IInv PROVE EntriesCounted  OBVIOUS
<1>1. live = KeysIn(buckets) \union KeysIn(newBuckets)
  BY DEF IInv, CountInv, Entries, KeysIn
<1>2. pc = "idle" => starved \/ size <= CurrentCapacity
  BY DEF IInv, LoadInv, CurrentCapacity
<1> QED  BY <1>1, <1>2 DEF IInv, CountInv, EntriesCounted

\* Nothing is leaked or freed twice by hashmapRemove, hashmapClear, hashmapFree and
\* expandIfNecessary, and the count that decides on an expansion is right.
THEOREM NothingLeaks == Spec => []EntriesCounted
<1>1. IInv => EntriesCounted  BY InvCounted
<1> QED  BY <1>1, Invariance, PTL

-----------------------------------------------------------------------------
(* The walks over the whole map *)

PowerInv == IsPower(bucketCount)

\* The number of buckets stays a power of two (hashmapCreate, expandIfNecessary).
LEMMA StepPower == IInv /\ PowerInv /\ [Next]_vars => PowerInv'
<1> SUFFICES ASSUME IInv, PowerInv, [Next]_vars
             PROVE  bucketCount' \in {bucketCount, 2 * bucketCount}
  BY Doubled DEF IInv, TypeInv, PowerInv
<1>1. ASSUME NEW k \in Keys, NEW v \in Values, Put(k, v) \/ Assign(k, v)
      PROVE  bucketCount' = bucketCount
  BY <1>1 DEF Put, Assign
<1>2. ASSUME NEW k \in Keys, NEW v \in Values \union {NULL}, Memoize(k, v)
      PROVE  bucketCount' = bucketCount
  BY <1>2 DEF Memoize
<1>3. ASSUME NEW k \in Keys, Remove(k) PROVE bucketCount' = bucketCount
  BY <1>3 DEF Remove
<1>4. CASE Clear \/ Free \/ Relink  BY <1>4 DEF Clear, Free, Relink
<1>5. CASE Expanded  BY <1>5 DEF Expanded, Swap
<1>6. CASE UNCHANGED vars  BY <1>6 DEF vars
<1> QED  BY <1>1, <1>2, <1>3, <1>4, <1>5, <1>6 DEF Next

\* calculateIndex may mask the hash with bucketCount - 1 whenever it is called.
THEOREM BucketsArePower == Spec => []PowerInv
<1>1. Init => PowerInv  BY SomeBuckets DEF Init, PowerInv
<1> QED  BY <1>1, StepPower, Invariance, PTL DEF Spec

\* The walk over the first m chains of an array.
WalkOf(A, m, f) == f = [n \in 0..m |-> IF n = 0 THEN <<>> ELSE f[n - 1] \o A[n - 1]]

\* It can be had for any m.
LEMMA WalksExist ==
    ASSUME NEW A
    PROVE  \A m \in Nat : \E f : WalkOf(A, m, f)
<1> DEFINE B == {m \in Nat : ~ \E f : WalkOf(A, m, f)}
<1>1. SUFFICES ASSUME B # {} PROVE FALSE  OBVIOUS
<1>2. PICK m \in B : \A j \in B : m <= j
  <2>1. B \in SUBSET Nat  OBVIOUS
  <2> HIDE DEF B
  <2> QED  BY <1>1, <2>1, Least
<1>3. m # 0
  <2>1. PICK f : f = [n \in 0..0 |-> <<>>]  OBVIOUS
  <2>2. WalkOf(A, 0, f)  BY <2>1 DEF WalkOf
  <2> QED  BY <2>2
<1>4. m \in Nat /\ m - 1 \in Nat /\ m - 1 \notin B  BY <1>2, <1>3
<1>5. PICK f : WalkOf(A, m - 1, f)  BY <1>4
<1>6. \A n \in 0..m - 1 : f[n] = IF n = 0 THEN <<>> ELSE f[n - 1] \o A[n - 1]
  BY <1>5 DEF WalkOf
<1>7. PICK g : g = [n \in 0..m |-> IF n = m THEN f[m - 1] \o A[m - 1] ELSE f[n]]
  OBVIOUS
<1>8. ASSUME NEW n \in 0..m
      PROVE  g[n] = IF n = 0 THEN <<>> ELSE g[n - 1] \o A[n - 1]
  <2>1. n # 0 => n - 1 \in 0..m /\ n - 1 # m /\ g[n - 1] = f[n - 1]  BY <1>4, <1>7
  <2>2. CASE n = m  BY <1>3, <1>7, <2>1, <2>2
  <2>3. CASE n # m
    <3>1. n \in 0..m - 1 /\ g[n] = f[n]  BY <1>4, <1>7, <2>3
    <3> QED  BY <1>6, <2>1, <3>1
  <2> QED  BY <2>2, <2>3
<1>9. WalkOf(A, m, g)  BY <1>7, <1>8 DEF WalkOf
<1> QED  BY <1>9

\* hashmapForEach goes through the array chain by chain.
LEMMA ForEachWalks ==
    ASSUME bucketCount \in Nat
    PROVE  \E f : /\ ForEach[bucketCount] = f[bucketCount] /\ f[0] = <<>>
                  /\ \A n \in 1..bucketCount : f[n] = f[n - 1] \o buckets[n - 1]
<1> DEFINE F == CHOOSE f : WalkOf(buckets, bucketCount, f)
<1>1. ForEach[bucketCount] = F[bucketCount]  BY Zenon DEF ForEach, WalkOf
<1>2. WalkOf(buckets, bucketCount, F)
  <2>1. \E f : WalkOf(buckets, bucketCount, f)  BY WalksExist
  <2> QED  BY <2>1, Zenon
<1>3. PICK f : f = F  OBVIOUS
<1>4. WalkOf(buckets, bucketCount, f) /\ ForEach[bucketCount] = f[bucketCount]
  BY <1>1, <1>2, <1>3, Zenon
<1> HIDE DEF F
<1>5. \A n \in 0..bucketCount : f[n] = IF n = 0 THEN <<>> ELSE f[n - 1] \o buckets[n - 1]
  BY <1>4 DEF WalkOf
<1>6. f[0] = <<>>  BY <1>5
<1>7. ASSUME NEW n \in 1..bucketCount PROVE f[n] = f[n - 1] \o buckets[n - 1]
  <2>1. n \in 0..bucketCount /\ n # 0  OBVIOUS
  <2> QED  BY <1>5, <2>1
<1> QED  BY <1>4, <1>6, <1>7

\* The entries of the first n chains; those of them that have a next one, by their
\* places; and the chains that are not empty.
Held(A, n) == UNION {In(A[i]) : i \in 0..(n - 1)}

Behind(A, n) == UNION {{i} \X (1..(Len(A[i]) - 1)) : i \in 0..(n - 1)}

Used(A, n) == {i \in 0..(n - 1) : A[i] # <<>>}

\* Of a simple chain, the entries and the places are as many.
LEMMA ChainCounts ==
    ASSUME NEW S, NEW c \in Seq(S), Simple(c)
    PROVE  IsFiniteSet(In(c)) /\ Cardinality(In(c)) = Len(c)
<1>1. Len(c) \in Nat /\ c \in [1..Len(c) -> S]  BY LenProperties
<1>2. PICK f : f = [j \in 1..Len(c) |-> c[j]]  OBVIOUS
<1>3. f \in Bijection(1..Len(c), In(c))
  <2>1. f \in [1..Len(c) -> In(c)]  BY <1>2 DEF In
  <2>2. \A i, j \in 1..Len(c) : f[i] = f[j] => i = j  BY <1>2 DEF Simple
  <2>3. \A e \in In(c) : \E j \in 1..Len(c) : f[j] = e  BY <1>2 DEF In
  <2> QED  BY <2>1, <2>2, <2>3 DEF Bijection, Injection, Surjection, IsInjective
<1>4. ExistsBijection(1..Len(c), In(c))  BY <1>3 DEF ExistsBijection
<1>5. IsFiniteSet(1..Len(c)) /\ Cardinality(1..Len(c)) = Len(c)  BY <1>1, FS_Interval
<1> QED  BY <1>4, <1>5, FS_Bijection

\* Two sets apart are as many as both.
LEMMA SumOfTwo ==
    ASSUME NEW S, NEW T, IsFiniteSet(S), IsFiniteSet(T), S \intersect T = {}
    PROVE  /\ IsFiniteSet(S \union T)
           /\ Cardinality(S \union T) = Cardinality(S) + Cardinality(T)
<1>1. Cardinality(S) \in Nat /\ Cardinality(T) \in Nat  BY FS_CardinalityType
<1>2. /\ IsFiniteSet(S \union T)
      /\ Cardinality(S \union T) = Cardinality(S) + Cardinality(T) - Cardinality(S \cap T)
  BY FS_Union
<1>3. Cardinality(S \cap T) = 0  BY FS_EmptySet
<1> QED  BY <1>1, <1>2, <1>3

\* The places of a chain of k entries but the last.
LEMMA AllButLast ==
    ASSUME NEW k \in Nat
    PROVE  /\ IsFiniteSet(1..(k - 1))
           /\ k = 0 => Cardinality(1..(k - 1)) = 0
           /\ k # 0 => Cardinality(1..(k - 1)) = k - 1
<1>1. /\ IsFiniteSet(1..(k - 1))
      /\ Cardinality(1..(k - 1)) = IF 1 > k - 1 THEN 0 ELSE (k - 1) - 1 + 1
  BY FS_Interval
<1> QED  BY <1>1

\* A chain adds its entries, and its places but the last, to what came before it.
LEMMA OneChainMore ==
    ASSUME NEW m \in Nat \ {0}, NEW A, Good(A, m), NEW n \in 0..(m - 1),
           IsFiniteSet(Held(A, n)), IsFiniteSet(Behind(A, n)), IsFiniteSet(Used(A, n))
    PROVE  /\ IsFiniteSet(Held(A, n + 1)) /\ IsFiniteSet(Behind(A, n + 1))
           /\ IsFiniteSet(Used(A, n + 1))
           /\ Cardinality(Held(A, n + 1)) = Cardinality(Held(A, n)) + Len(A[n])
           /\ Cardinality(Behind(A, n + 1)) + Cardinality(Used(A, n + 1))
                 = Cardinality(Behind(A, n)) + Cardinality(Used(A, n)) + Len(A[n])
<1> DEFINE P == {n} \X (1..(Len(A[n]) - 1))
           U == {i \in {n} : A[i] # <<>>}
<1>1. n \in Nat /\ 0..((n + 1) - 1) = (0..(n - 1)) \union {n} /\ n \notin 0..(n - 1)
  OBVIOUS
<1>2. A[n] \in Seq(Entry) /\ Simple(A[n]) /\ Len(A[n]) \in Nat
  BY DEF Good, SimpleChains
<1>3. /\ Held(A, n + 1) = Held(A, n) \union In(A[n])
      /\ Held(A, n) \intersect In(A[n]) = {}
  <2>1. Held(A, n + 1) = Held(A, n) \union In(A[n])  BY <1>1 DEF Held
  <2>2. \A i \in 0..(n - 1) : i \in DOMAIN A /\ n \in DOMAIN A /\ i # n  BY DEF Good
  <2>3. \A i \in 0..(n - 1) : In(A[i]) \intersect In(A[n]) = {}
    BY <2>2 DEF Good, Filed
  <2> QED  BY <2>1, <2>3 DEF Held
<1>4. Behind(A, n + 1) = Behind(A, n) \union P /\ Behind(A, n) \intersect P = {}
  <2>1. Behind(A, n + 1) = Behind(A, n) \union P  BY <1>1 DEF Behind
  <2>2. \A p \in Behind(A, n) : p[1] \in 0..(n - 1)  BY DEF Behind
  <2>3. \A p \in P : p[1] = n  OBVIOUS
  <2> QED  BY <1>1, <2>1, <2>2, <2>3
<1>5. Used(A, n + 1) = Used(A, n) \union U /\ Used(A, n) \intersect U = {}
  BY <1>1 DEF Used
<1>6. IsFiniteSet(In(A[n])) /\ Cardinality(In(A[n])) = Len(A[n])  BY <1>2, ChainCounts
<1>7. IsFiniteSet(P) /\ IsFiniteSet(U) /\ Cardinality(P) + Cardinality(U) = Len(A[n])
  <2>1. IsFiniteSet({n}) /\ Cardinality({n}) = 1  BY FS_Singleton
  <2>2. /\ IsFiniteSet(1..(Len(A[n]) - 1))
        /\ Len(A[n]) = 0 => Cardinality(1..(Len(A[n]) - 1)) = 0
        /\ Len(A[n]) # 0 => Cardinality(1..(Len(A[n]) - 1)) = Len(A[n]) - 1
    BY <1>2, AllButLast
  <2>3. IsFiniteSet(P) /\ Cardinality(P) = 1 * Cardinality(1..(Len(A[n]) - 1))
    <3>1. IsFiniteSet({n}) /\ IsFiniteSet(1..(Len(A[n]) - 1))  BY <2>1, <2>2
    <3>2. \A S, T : IsFiniteSet(S) /\ IsFiniteSet(T) =>
             IsFiniteSet(S \X T) /\ Cardinality(S \X T) = Cardinality(S) * Cardinality(T)
      BY FS_Product
    <3>3. /\ IsFiniteSet(P)
          /\ Cardinality(P) = Cardinality({n}) * Cardinality(1..(Len(A[n]) - 1))
      BY <3>1, <3>2, Zenon
    <3> QED  BY <2>1, <3>3, Zenon
  <2>4. CASE A[n] = <<>>
    <3>1. U = {} /\ Len(A[n]) = 0  BY <2>4
    <3>2. IsFiniteSet(U) /\ Cardinality(U) = 0  BY <3>1, FS_EmptySet
    <3> QED  BY <2>2, <2>3, <3>1, <3>2
  <2>5. CASE A[n] # <<>>
    <3>1. U = {n} /\ Len(A[n]) # 0  BY <1>2, <2>5
    <3>2. IsFiniteSet(U) /\ Cardinality(U) = 1  BY <2>1, <3>1, Zenon
    <3> HIDE DEF P, U
    <3> QED  BY <1>2, <2>2, <2>3, <3>1, <3>2
  <2> QED  BY <2>4, <2>5
<1> HIDE DEF P, U
<1>8. /\ IsFiniteSet(Held(A, n + 1))
      /\ Cardinality(Held(A, n + 1)) = Cardinality(Held(A, n)) + Len(A[n])
  <2>1. IsFiniteSet(Held(A, n)) /\ IsFiniteSet(In(A[n]))  BY <1>6
  <2>2. /\ IsFiniteSet(Held(A, n) \union In(A[n]))
        /\ Cardinality(Held(A, n) \union In(A[n])) = Cardinality(Held(A, n)) + Cardinality(In(A[n]))
    BY ONLY <1>3, <2>1, SumOfTwo
  <2> QED  BY <1>3, <1>6, <2>2, Zenon
<1>9. /\ IsFiniteSet(Behind(A, n + 1))
      /\ Cardinality(Behind(A, n + 1)) = Cardinality(Behind(A, n)) + Cardinality(P)
  <2>1. IsFiniteSet(Behind(A, n)) /\ IsFiniteSet(P)  BY <1>7
  <2>2. /\ IsFiniteSet(Behind(A, n) \union P)
        /\ Cardinality(Behind(A, n) \union P) = Cardinality(Behind(A, n)) + Cardinality(P)
    BY ONLY <1>4, <2>1, SumOfTwo
  <2> QED  BY <1>4, <2>2, Zenon
<1>10. /\ IsFiniteSet(Used(A, n + 1))
       /\ Cardinality(Used(A, n + 1)) = Cardinality(Used(A, n)) + Cardinality(U)
  <2>1. IsFiniteSet(Used(A, n)) /\ IsFiniteSet(U)  BY <1>7
  <2>2. /\ IsFiniteSet(Used(A, n) \union U)
        /\ Cardinality(Used(A, n) \union U) = Cardinality(Used(A, n)) + Cardinality(U)
    BY ONLY <1>5, <2>1, SumOfTwo
  <2> QED  BY <1>5, <2>2, Zenon
<1>11. /\ Cardinality(Behind(A, n)) \in Nat /\ Cardinality(Used(A, n)) \in Nat
       /\ Cardinality(P) \in Nat /\ Cardinality(U) \in Nat
  BY <1>7, FS_CardinalityType
<1> QED  BY <1>2, <1>7, <1>8, <1>9, <1>10, <1>11

\* So the walk over n chains sees as many entries as they hold, and the collisions are
\* the entries less one for every chain in use.
LEMMA WalkCounts ==
    ASSUME NEW m \in Nat \ {0}, NEW A, Good(A, m), NEW f, f[0] = <<>>,
           \A n \in 1..m : f[n] = f[n - 1] \o A[n - 1]
    PROVE  /\ IsFiniteSet(Held(A, m)) /\ Cardinality(Held(A, m)) = Len(f[m])
           /\ Cardinality(Behind(A, m)) + Cardinality(Used(A, m)) = Len(f[m])
           /\ Cardinality(Behind(A, m)) \in Nat /\ Cardinality(Used(A, m)) \in Nat
<1> DEFINE OK(n) == /\ f[n] \in Seq(Entry)
                    /\ IsFiniteSet(Held(A, n)) /\ IsFiniteSet(Behind(A, n))
                    /\ IsFiniteSet(Used(A, n))
                    /\ Cardinality(Held(A, n)) = Len(f[n])
                    /\ Cardinality(Behind(A, n)) + Cardinality(Used(A, n)) = Len(f[n])
           B == {n \in 0..m : ~OK(n)}
<1>1. OK(0)
  <2>1. 0..(0 - 1) = {}  OBVIOUS
  <2>2. Held(A, 0) = {} /\ Behind(A, 0) = {} /\ Used(A, 0) = {}
    BY <2>1 DEF Held, Behind, Used
  <2>3. IsFiniteSet({}) /\ Cardinality({}) = 0  BY FS_EmptySet
  <2>4. <<>> \in Seq(Entry) /\ Len(<<>>) = 0  OBVIOUS
  <2>5. f[0] \in Seq(Entry) /\ Len(f[0]) = 0  BY <2>4
  <2>6. /\ IsFiniteSet(Held(A, 0)) /\ IsFiniteSet(Behind(A, 0)) /\ IsFiniteSet(Used(A, 0))
        /\ Cardinality(Held(A, 0)) = 0 /\ Cardinality(Behind(A, 0)) = 0
        /\ Cardinality(Used(A, 0)) = 0
    BY <2>2, <2>3, Zenon
  <2> QED  BY <2>5, <2>6
<1>2. ASSUME NEW n \in 0..(m - 1), OK(n) PROVE OK(n + 1)
  <2>1. n + 1 \in 1..m /\ (n + 1) - 1 = n  OBVIOUS
  <2>2. f[n + 1] = f[n] \o A[n]
    <3>1. \A j \in 1..m : j - 1 = n => f[j] = f[n] \o A[n]  OBVIOUS
    <3> QED  BY <2>1, <3>1
  <2>3. A[n] \in Seq(Entry)  BY DEF Good
  <2>4. f[n + 1] \in Seq(Entry) /\ Len(f[n + 1]) = Len(f[n]) + Len(A[n])
    BY <1>2, <2>2, <2>3, ConcatProperties
  <2>5. /\ Cardinality(Behind(A, n)) \in Nat /\ Cardinality(Used(A, n)) \in Nat
        /\ Len(A[n]) \in Nat /\ Len(f[n]) \in Nat
    BY <1>2, <2>3, FS_CardinalityType
  <2> QED  BY <1>2, <2>4, <2>5, OneChainMore
<1> HIDE DEF OK
<1>3. OK(m)
  <2>1. SUFFICES ASSUME ~OK(m) PROVE FALSE  OBVIOUS
  <2>2. B \in SUBSET Nat /\ m \in B  BY <2>1
  <2>3. PICK n \in B : \A j \in B : n <= j
    <3> HIDE DEF B
    <3> QED  BY <2>2, Least
  <2>4. n # 0  BY <1>1, <2>3
  <2>5. n - 1 \in 0..(m - 1) /\ n - 1 \notin B /\ (n - 1) + 1 = n  BY <2>3, <2>4
  <2>6. OK(n - 1)  BY <2>5
  <2>7. OK((n - 1) + 1)  BY <1>2, <2>5, <2>6
  <2> QED  BY <2>3, <2>5, <2>7
<1>4. IsFiniteSet(Behind(A, m)) /\ IsFiniteSet(Used(A, m))  BY <1>3 DEF OK
<1>5. Cardinality(Behind(A, m)) \in Nat /\ Cardinality(Used(A, m)) \in Nat
  BY <1>4, FS_CardinalityType
<1> QED  BY <1>3, <1>5 DEF OK

\* There are as many entries as keys allocated.
LEMMA EntriesAreKeys ==
    ASSUME IInv, pc = "idle", IsFiniteSet(Entries)
    PROVE  Cardinality(Entries) = size
<1>1. Idle  BY DEF IInv, Idle
<1>2. \A e \in Entries : e.key \in Keys  BY <1>1, IdleArray DEF Entry
<1>3. PICK f : f = [e \in Entries |-> e.key]  OBVIOUS
<1>4. f \in Bijection(Entries, live)
  <2>1. f \in [Entries -> live]  BY <1>3 DEF IInv, CountInv
  <2>2. \A e, g \in Entries : f[e] = f[g] => e = g
    BY <1>2, <1>3, SameItself DEF IInv, UniqueInv
  <2>3. \A k \in live : \E e \in Entries : f[e] = k  BY <1>3 DEF IInv, CountInv
  <2> QED  BY <2>1, <2>2, <2>3 DEF Bijection, Injection, Surjection, IsInjective
<1>5. Cardinality(live) = Cardinality(Entries)
  BY <1>4, FS_Bijection DEF ExistsBijection
<1> QED  BY <1>5 DEF IInv, CountInv

\* With the chains well formed the walks agree with the count.
LEMMA InvAccounted == IInv /\ PowerInv => Accounted
<1> SUFFICES ASSUME IInv, PowerInv PROVE Accounted  OBVIOUS
<1>1. TypeOK  BY DEF IInv, TypeInv, PowerInv, TypeOK
<1>2. EntriesCounted  BY InvCounted
<1>3. ASSUME pc = "idle"
      PROVE  /\ Len(ForEach[bucketCount]) = size
             /\ CountCollisions = size - Cardinality({i \in DOMAIN buckets : buckets[i] # <<>>})
  <2>1. bucketCount \in Nat \ {0} /\ Good(buckets, bucketCount) /\ Entries = EntriesIn(buckets)
    BY <1>3, IdleArray DEF IInv, Idle
  <2>2. DOMAIN buckets = 0..(bucketCount - 1)  BY <2>1 DEF Good
  <2>3. PICK f : /\ ForEach[bucketCount] = f[bucketCount] /\ f[0] = <<>>
                 /\ \A n \in 1..bucketCount : f[n] = f[n - 1] \o buckets[n - 1]
    BY <2>1, ForEachWalks
  <2>4. /\ Entries = Held(buckets, bucketCount)
        /\ CountCollisions = Cardinality(Behind(buckets, bucketCount))
        /\ {i \in DOMAIN buckets : buckets[i] # <<>>} = Used(buckets, bucketCount)
    BY <2>1, <2>2 DEF EntriesIn, Held, CountCollisions, Behind, Used
  <2>5. /\ IsFiniteSet(Held(buckets, bucketCount))
        /\ Cardinality(Held(buckets, bucketCount)) = Len(f[bucketCount])
        /\ Cardinality(Behind(buckets, bucketCount)) + Cardinality(Used(buckets, bucketCount))
              = Len(f[bucketCount])
        /\ Cardinality(Behind(buckets, bucketCount)) \in Nat
        /\ Cardinality(Used(buckets, bucketCount)) \in Nat
    BY <2>1, <2>3, WalkCounts
  <2>6. Len(f[bucketCount]) = size  BY <1>3, <2>4, <2>5, EntriesAreKeys
  <2>7. CountCollisions + Cardinality(Used(buckets, bucketCount)) = size
        /\ CountCollisions \in Nat /\ Cardinality(Used(buckets, bucketCount)) \in Nat
    BY <2>4, <2>5, <2>6, Zenon
  <2>8. CountCollisions = size - Cardinality(Used(buckets, bucketCount))  BY <2>7
  <2> QED  BY <2>3, <2>4, <2>6, <2>8, Zenon
<1> QED  BY <1>1, <1>2, <1>3 DEF Accounted

\* The load factor, the entries seen by hashmapForEach and the collisions counted by
\* hashmapCountCollisions are those of the entries allocated, between any two calls.
THEOREM WalksAgree == Spec => []Accounted
<1>1. IInv /\ PowerInv => Accounted  BY InvAccounted
<1> QED  BY <1>1, Invariance, BucketsArePower, PTL

-----------------------------------------------------------------------------
(* The spellings of a name *)

\* What the loop of hashCalc has computed after each character.
Hashing(key, h) ==
    h = [i \in 0..Len(key) |->
            IF i = 0 THEN Text!Word(Len(key))
            ELSE Text!Plus(Text!Times31(h[i - 1]), Text!Word(Text!TOLOWER(key[i])))]

\* Two texts with the same letters, in any case, are of one length and have the same
\* lower case letters.
LEMMA FoldedLetters ==
    ASSUME NEW a \in Seq(0..255), NEW b \in Seq(0..255), Folded(a) = Folded(b)
    PROVE  Len(a) = Len(b) /\ \A i \in 1..Len(a) : Text!TOLOWER(a[i]) = Text!TOLOWER(b[i])
<1>1. DOMAIN Folded(a) = 1..Len(a) /\ DOMAIN Folded(b) = 1..Len(b)  BY DEF Folded
<1>2. Len(a) \in Nat /\ Len(b) \in Nat  OBVIOUS
<1>3. Len(a) = Len(b)  BY <1>1, <1>2
<1>4. ASSUME NEW i \in 1..Len(a) PROVE Text!TOLOWER(a[i]) = Text!TOLOWER(b[i])
  <2>1. Folded(a)[i] = Text!TOLOWER(a[i])  BY DEF Folded
  <2>2. Folded(b)[i] = Text!TOLOWER(b[i])  BY <1>3 DEF Folded
  <2> QED  BY <2>1, <2>2
<1> QED  BY <1>3, <1>4

\* hashCalc folds case: the spellings of a name have one hash.
LEMMA SpellingsHash ==
    ASSUME NEW a \in Seq(0..255), NEW b \in Seq(0..255), Folded(a) = Folded(b)
    PROVE  HashOf(a) = HashOf(b)
<1>1. Len(a) = Len(b) /\ \A i \in 1..Len(a) : Text!TOLOWER(a[i]) = Text!TOLOWER(b[i])
  BY FoldedLetters
<1>2. \A h : Hashing(a, h) <=> Hashing(b, h)
  <2> TAKE h
  <2> DEFINE A == [i \in 0..Len(a) |->
                     IF i = 0 THEN Text!Word(Len(a))
                     ELSE Text!Plus(Text!Times31(h[i - 1]), Text!Word(Text!TOLOWER(a[i])))]
             B == [i \in 0..Len(b) |->
                     IF i = 0 THEN Text!Word(Len(b))
                     ELSE Text!Plus(Text!Times31(h[i - 1]), Text!Word(Text!TOLOWER(b[i])))]
  <2>1. ASSUME NEW i \in 0..Len(a), i # 0 PROVE Text!TOLOWER(a[i]) = Text!TOLOWER(b[i])
    <3>1. i \in 1..Len(a)  BY <2>1
    <3> QED  BY <1>1, <3>1
  <2>2. A = B  BY <1>1, <2>1
  <2> QED  BY <2>2 DEF Hashing
<1>3. (CHOOSE h : Hashing(a, h)) = (CHOOSE h : Hashing(b, h))  BY <1>2, Zenon
<1>4. /\ Text!hashCalc(a) = (CHOOSE h : Hashing(a, h))[Len(a)]
      /\ Text!hashCalc(b) = (CHOOSE h : Hashing(b, h))[Len(b)]
  BY Zenon DEF Text!hashCalc, Hashing
<1>5. Text!hashCalc(a) = Text!hashCalc(b)  BY <1>1, <1>3, <1>4, ZenonT(30)
<1> QED  BY <1>5, Zenon DEF HashOf

\* hashKeyCompare of two texts with the same letters comes to what it comes to for the
\* second one and a copy of it: of the first it looks at letters without their case.
LEMMA SpellingsCompare ==
    ASSUME NEW a \in Seq(0..255), NEW b \in Seq(0..255), Folded(a) = Folded(b),
           Text!DifferWithin(b, b)
    PROVE  Text!DifferWithin(a, b)
<1>1. Len(a) \in Nat /\ Len(a) = Len(b)
      /\ \A i \in 1..Len(a) : Text!TOLOWER(a[i]) = Text!TOLOWER(b[i])
  BY FoldedLetters
<1>2. ASSUME NEW i \in 1..(Len(a) + 1)
      PROVE  Text!TOLOWER(Text!CharAt(a, i, 0)) = Text!TOLOWER(Text!CharAt(b, i, 0))
  <2>1. CASE i = Len(a) + 1
    <3>1. Text!CharAt(a, i, 0) = 0 /\ Text!CharAt(b, i, 0) = 0
      BY <1>1, <2>1 DEF Text!CharAt
    <3> QED  BY <3>1
  <2>2. CASE i # Len(a) + 1
    <3>1. i \in 1..Len(a) /\ i <= Len(a) /\ i <= Len(b)  BY <1>1, <2>2
    <3>2. Text!CharAt(a, i, 0) = a[i] /\ Text!CharAt(b, i, 0) = b[i]
      BY <3>1 DEF Text!CharAt
    <3> QED  BY <1>1, <3>1, <3>2
  <2> QED  BY <2>1, <2>2
<1> DEFINE At(i) == Text!Fetched(b, Text!ReadFrom(b, Len(b), 0)[i], 0)
<1>3. PICK i \in 1..(Len(b) + 1) :
         At(i).next <= Len(b) + 2 /\ Text!TOLOWER(Text!CharAt(b, i, 0)) # At(i).char
  BY Zenon DEF Text!DifferWithin
<1>4. i \in 1..(Len(a) + 1)  BY <1>1
<1>5. Text!TOLOWER(Text!CharAt(a, i, 0)) # At(i).char  BY <1>2, <1>3, <1>4, Zenon
<1>6. Text!ReadFrom(b, Len(a), 0) = Text!ReadFrom(b, Len(b), 0)  BY <1>1, Zenon
<1> QED  BY <1>3, <1>4, <1>5, <1>6, Zenon DEF Text!DifferWithin

\* So for the map two spellings of a name are one key.
LEMMA SpellingsAreSame ==
    ASSUME NEW o \in Keys, NEW k \in Keys, <<o, k>> \in Spellings
    PROVE  Same[o, k]
<1>1. NameText[o] \in Seq(0..255) /\ NameText[k] \in Seq(0..255)
      /\ Text!DifferWithin(NameText[k], NameText[k])
  BY NameAssumption DEF Spellings, SelfDiffers
<1>2. Folded(NameText[o]) = Folded(NameText[k])  BY DEF Spellings
<1>3. Hash[o] = Hash[k]
  <2>1. HashOf(NameText[o]) = HashOf(NameText[k])  BY <1>1, <1>2, SpellingsHash
  <2>2. Hash[o] = HashOf(NameText[o]) /\ Hash[k] = HashOf(NameText[k])
    BY ComparisonAssumption
  <2> QED  BY <2>1, <2>2, Zenon
<1>4. <<o, k>> \in Equals
  <2>1. Text!DifferWithin(NameText[o], NameText[k])  BY <1>1, <1>2, SpellingsCompare
  <2> QED  BY <2>1, ComparisonAssumption
<1> QED  BY <1>3, <1>4 DEF Same

\* A header that has arrived is found under every spelling of its name: hashCalc folds
\* case, the comparison accepts, and the walk along the chain is complete.
THEOREM EverySpellingFound == Spec => []FoundInAnySpelling
<1>1. IInv => FoundInAnySpelling
  <2> SUFFICES ASSUME IInv, pc = "idle", NEW o \in live, NEW k \in Keys,
                      <<o, k>> \in Spellings
               PROVE  ContainsKey(k)
    BY DEF FoundInAnySpelling
  <2>1. o \in Keys  BY DEF IInv, TypeInv
  <2>2. Same[o, k]  BY <2>1, SpellingsAreSame
  <2> QED  BY <2>2, InvLookup DEF LookupComplete
<1> QED  BY <1>1, Invariance, PTL

-----------------------------------------------------------------------------
(* The dictionary of hashmap.h *)

DictOf(S) == [k \in {e.key : e \in S} |-> (CHOOSE e \in S : e.key = k).value]

OnePerKey(S) == S \subseteq Entry /\ \A e, f \in S : e.key = f.key => e = f

\* A set with one entry per key is a dictionary.
LEMMA DictIs ==
    ASSUME NEW S, OnePerKey(S)
    PROVE  /\ DOMAIN DictOf(S) = {e.key : e \in S}
           /\ \A e \in S : DictOf(S)[e.key] = e.value
<1>1. ASSUME NEW e \in S PROVE DictOf(S)[e.key] = e.value
  <2>1. (CHOOSE f \in S : f.key = e.key) = e  BY DEF OnePerKey
  <2> QED  BY <2>1 DEF DictOf
<1> QED  BY <1>1 DEF DictOf

\* A function that agrees with every entry is that dictionary.
LEMMA DictEquals ==
    ASSUME NEW S, OnePerKey(S), NEW D, D = [o \in DOMAIN D |-> D[o]],
           DOMAIN D = {e.key : e \in S}, \A e \in S : D[e.key] = e.value
    PROVE  DictOf(S) = D
<1>1. DOMAIN DictOf(S) = DOMAIN D /\ \A e \in S : DictOf(S)[e.key] = D[e.key]
  <2>1. DOMAIN DictOf(S) = {e.key : e \in S} /\ \A e \in S : DictOf(S)[e.key] = e.value
    BY DictIs
  <2> QED  BY <2>1
<1>2. ASSUME NEW o \in DOMAIN D PROVE DictOf(S)[o] = D[o]
  <2>1. PICK e \in S : e.key = o  OBVIOUS
  <2> QED  BY <1>1, <2>1
<1>3. DictOf(S) = [o \in DOMAIN DictOf(S) |-> DictOf(S)[o]]  BY DEF DictOf
<1> QED  BY <1>1, <1>2, <1>3

\* An entry more is a key more.
LEMMA DictGrows ==
    ASSUME NEW S, NEW T, OnePerKey(S), OnePerKey(T), NEW e, T = S \union {e},
           \A f \in S : f.key # e.key
    PROVE  DictOf(T) = [o \in DOMAIN DictOf(S) \union {e.key} |->
                            IF o = e.key THEN e.value ELSE DictOf(S)[o]]
<1> DEFINE D == [o \in DOMAIN DictOf(S) \union {e.key} |->
                     IF o = e.key THEN e.value ELSE DictOf(S)[o]]
<1>1. D = [o \in DOMAIN D |-> D[o]]  OBVIOUS
<1>2. DOMAIN DictOf(S) = {f.key : f \in S} /\ \A f \in S : DictOf(S)[f.key] = f.value
  BY DictIs
<1>3. DOMAIN D = {f.key : f \in T}
  <2>1. DOMAIN D = {f.key : f \in S} \union {e.key}  BY <1>2
  <2> QED  BY <2>1
<1>4. ASSUME NEW f \in T PROVE D[f.key] = f.value
  <2>1. CASE f = e  BY <2>1
  <2>2. CASE f \in S  BY <1>2, <2>2
  <2> QED  BY <2>1, <2>2
<1> HIDE DEF D
<1>5. DictOf(T) = D  BY <1>1, <1>3, <1>4, DictEquals
<1> QED  BY <1>5 DEF D

\* A replaced entry is another value for its key.
LEMMA DictChanges ==
    ASSUME NEW S, NEW T, OnePerKey(S), OnePerKey(T), NEW g \in S, NEW e,
           T = (S \ {g}) \union {e}, e.key = g.key
    PROVE  DictOf(T) = [o \in DOMAIN DictOf(S) \union {g.key} |->
                            IF o = g.key THEN e.value ELSE DictOf(S)[o]]
<1> DEFINE D == [o \in DOMAIN DictOf(S) \union {g.key} |->
                     IF o = g.key THEN e.value ELSE DictOf(S)[o]]
<1>1. D = [o \in DOMAIN D |-> D[o]]  OBVIOUS
<1>2. DOMAIN DictOf(S) = {f.key : f \in S} /\ \A f \in S : DictOf(S)[f.key] = f.value
  BY DictIs
<1>3. DOMAIN D = {f.key : f \in T}
  <2>1. DOMAIN D = {f.key : f \in S} \union {g.key}  BY <1>2
  <2>2. {f.key : f \in T} = {f.key : f \in S}  OBVIOUS
  <2> QED  BY <2>1, <2>2
<1>4. ASSUME NEW f \in T PROVE D[f.key] = f.value
  <2>1. CASE f = e  BY <2>1
  <2>2. CASE f \in S /\ f # g
    <3>1. f.key # g.key  BY <2>2 DEF OnePerKey
    <3> QED  BY <1>2, <2>2, <3>1
  <2> QED  BY <2>1, <2>2
<1> HIDE DEF D
<1>5. DictOf(T) = D  BY <1>1, <1>3, <1>4, DictEquals
<1> QED  BY <1>5 DEF D

\* An entry less is a key less.
LEMMA DictShrinks ==
    ASSUME NEW S, NEW T, OnePerKey(S), OnePerKey(T), NEW g \in S, T = S \ {g}
    PROVE  DictOf(T) = [o \in DOMAIN DictOf(S) \ {g.key} |-> DictOf(S)[o]]
<1> DEFINE D == [o \in DOMAIN DictOf(S) \ {g.key} |-> DictOf(S)[o]]
<1>1. D = [o \in DOMAIN D |-> D[o]]  OBVIOUS
<1>2. DOMAIN DictOf(S) = {f.key : f \in S} /\ \A f \in S : DictOf(S)[f.key] = f.value
  BY DictIs
<1>3. \A f \in T : f \in S /\ f.key # g.key  BY DEF OnePerKey
<1>4. DOMAIN D = {f.key : f \in T}
  <2>1. DOMAIN D = {f.key : f \in S} \ {g.key}  BY <1>2
  <2>2. {f.key : f \in T} = {f.key : f \in S} \ {g.key}  BY <1>3
  <2> QED  BY <2>1, <2>2
<1>5. \A f \in T : D[f.key] = f.value  BY <1>2, <1>3
<1> HIDE DEF D
<1>6. DictOf(T) = D  BY <1>1, <1>4, <1>5, DictEquals
<1> QED  BY <1>6 DEF D

\* The contents of the map are the dictionary of its entries.
LEMMA EntriesOnePerKey ==
    ASSUME TypeInv, UniqueInv
    PROVE  OnePerKey(Entries) /\ Contents = DictOf(Entries)
<1>1. EntriesIn(buckets) \subseteq Entry /\ EntriesIn(newBuckets) \subseteq Entry
  BY EntryType DEF TypeInv
<1>2. Entries \subseteq Entry  BY <1>1 DEF Entries
<1>3. \A e \in Entries : e.key \in Keys  BY <1>2 DEF Entry
<1>4. OnePerKey(Entries)  BY <1>2, <1>3, SameItself DEF UniqueInv, OnePerKey
<1> QED  BY <1>4 DEF Contents, DictOf

\* What the dictionary holds for a key is what the walk along its chain finds.
LEMMA HolderFound ==
    ASSUME IInv, pc = "idle", NEW k \in Keys
    PROVE  /\ ContainsKey(k) =>
                 /\ entryGet(k) \in Entries
                 /\ entryGet(k).key \in Contract!Holder(k)
                 /\ Get(k) = Contents[entryGet(k).key]
           /\ ~ContainsKey(k) => Contract!Holder(k) = {} /\ Get(k) = NULL
                                 /\ \A e \in Entries : e.key # k
<1>1. Idle /\ UniqueInv /\ TypeInv  BY DEF IInv, Idle
<1>2. DOMAIN Contents = {e.key : e \in Entries} /\ \A e \in Entries : Contents[e.key] = e.value
  BY <1>1, EntriesOnePerKey, DictIs
<1>3. CASE ContainsKey(k)
  <2>1. entryGet(k) \in Entries /\ Same[entryGet(k).key, k]  BY <1>1, <1>3, LookupFinds
  <2>2. Get(k) = entryGet(k).value  BY <1>3 DEF Get
  <2> QED  BY <1>2, <1>3, <2>1, <2>2 DEF Contract!Holder
<1>4. CASE ~ContainsKey(k)
  <2>1. \A e \in Entries : ~Same[e.key, k]  BY <1>1, <1>4, LookupFinds
  <2>2. Get(k) = NULL  BY <1>4 DEF Get
  <2>3. Contract!Holder(k) = {}  BY <1>2, <2>1 DEF Contract!Holder
  <2>4. \A e \in Entries : e.key # k  BY <2>1, SameItself
  <2> QED  BY <1>4, <2>2, <2>3, <2>4
<1> QED  BY <1>3, <1>4

\* So they are before a call and after it.
LEMMA BeforeAndAfter ==
    ASSUME IInv, IInv'
    PROVE  /\ OnePerKey(Entries) /\ Contents = DictOf(Entries)
           /\ OnePerKey(Entries') /\ Contents' = DictOf(Entries')
<1>1. OnePerKey(Entries) /\ Contents = DictOf(Entries)  BY EntriesOnePerKey DEF IInv
<1>2. (TypeInv /\ UniqueInv => OnePerKey(Entries) /\ Contents = DictOf(Entries))'
  BY EntriesOnePerKey, PTL
<1> QED  BY <1>1, <1>2 DEF IInv

\* A call that adds an entry puts its key in the dictionary (hashmapPut,
\* hashmapMemoize).
LEMMA AddedWith ==
    ASSUME IInv, IInv', pc = "idle", NEW k \in Keys, NEW v \in Values \union {NULL}, Added(k, v)
    PROVE  Contract!Holder(k) = {} /\ Contents' = Contract!With(k, v)
<1> DEFINE e == NewEntry(k, v)
<1>1. e.key = k /\ e.value = v  BY FreshEntry
<1>2. Contract!Holder(k) = {} /\ \A f \in Entries : f.key # k  BY HolderFound DEF Added
<1>3. Entries' = Entries \union {e}  BY DEF Added
<1> HIDE DEF e
<1>4. \A f \in Entries : f.key # e.key  BY <1>1, <1>2
<1>5. DictOf(Entries') = [o \in DOMAIN DictOf(Entries) \union {e.key} |->
                            IF o = e.key THEN e.value ELSE DictOf(Entries)[o]]
  BY <1>3, <1>4, BeforeAndAfter, DictGrows
<1> QED  BY <1>1, <1>2, <1>5, BeforeAndAfter DEF Contract!With

\* A call that rewrites an entry changes the value of the key held there (hashmapPut).
LEMMA RewrittenWith ==
    ASSUME IInv, IInv', pc = "idle", NEW k \in Keys, NEW v \in Values, Rewritten(k, v)
    PROVE  \E o \in Contract!Holder(k) :
              Contents' = Contract!With(o, v) /\ Get(k) = Contents[o]
<1> DEFINE g == entryGet(k)
           e == WithValue(g, v)
<1>1. g \in Entries /\ g.key \in Contract!Holder(k) /\ Get(k) = Contents[g.key]
  BY HolderFound DEF Rewritten
<1>2. g \in Entry  BY <1>1, BeforeAndAfter DEF OnePerKey
<1>3. e.key = g.key /\ e.value = v  BY <1>2, EntryOf
<1>4. Entries' = (Entries \ {g}) \union {e}  BY DEF Rewritten
<1> HIDE DEF g, e
<1>5. DictOf(Entries') = [o \in DOMAIN DictOf(Entries) \union {g.key} |->
                            IF o = g.key THEN e.value ELSE DictOf(Entries)[o]]
  BY SMTT(30), <1>1, <1>3, <1>4, BeforeAndAfter, DictChanges
<1>6. Contents' = Contract!With(g.key, v)
  BY <1>3, <1>5, BeforeAndAfter DEF Contract!With
<1> QED  BY <1>1, <1>6

\* A call that drops an entry takes its key out of the dictionary (hashmapRemove).
LEMMA DroppedWithout ==
    ASSUME IInv, IInv', pc = "idle", NEW k \in Keys, Dropped(k)
    PROVE  \E o \in Contract!Holder(k) :
              Contents' = Contract!Without(o) /\ Get(k) = Contents[o]
<1> DEFINE g == entryGet(k)
<1>1. g \in Entries /\ g.key \in Contract!Holder(k) /\ Get(k) = Contents[g.key]
  BY HolderFound DEF Dropped
<1>2. Entries' = Entries \ {g}  BY DEF Dropped
<1> HIDE DEF g
<1>3. DictOf(Entries') = [o \in DOMAIN DictOf(Entries) \ {g.key} |-> DictOf(Entries)[o]]
  BY <1>1, <1>2, BeforeAndAfter, DictShrinks
<1>4. Contents' = Contract!Without(g.key)
  BY <1>3, BeforeAndAfter DEF Contract!Without
<1> QED  BY <1>1, <1>4

\* No entries are an empty dictionary.
LEMMA EmptyDict ==
    ASSUME NEW S, S = {}
    PROVE  DictOf(S) = [k \in {} |-> NULL]
  BY DEF DictOf

\* A new map is an empty dictionary (hashmapCreate).
LEMMA InitDict == Init => Contract!Init
<1> SUFFICES ASSUME Init PROVE Contract!Init  OBVIOUS
<1>1. bucketCount \in Nat \ {0}  BY SomeBuckets DEF Init
<1>2. Entries = {}  BY <1>1, EmptyIsGood, NoneInNoBuckets DEF Init, Entries
<1>3. Contents = DictOf(Entries)  BY DEF Contents, DictOf
<1> QED  BY <1>2, <1>3, EmptyDict DEF Init, Contract!Init

\* A call that leaves the entries alone leaves the dictionary alone.
LEMMA SameDict == ASSUME IInv, IInv', Entries' = Entries PROVE Contents' = Contents
  BY BeforeAndAfter

\* Every call does to the dictionary what hashmap.h says, and a step of a rehash does
\* nothing to it.
LEMMA StepDict == IInv /\ [Next]_vars => [Contract!Next]_(Contract!vars)
<1> SUFFICES ASSUME IInv, [Next]_vars PROVE [Contract!Next]_(Contract!vars)  OBVIOUS
<1>0. IInv'  BY StepInv
<1>1. ASSUME NEW k \in Keys, NEW v \in Values, Put(k, v) PROVE Contract!Put(k, v)
  <2>1. pc = "idle" /\ bucketCount' = bucketCount /\ ret' = Get(k)
        /\ ret' \in Values \union {NULL}
    BY <1>1, GetIn DEF Put, IInv, Idle
  <2>2. CASE ~ContainsKey(k) /\ Add(k, v)
    <3>1. Added(k, v) \/ Entries' = Entries  BY <2>1, <2>2, AddStep
    <3>2. Contract!Holder(k) = {} /\ ret' = NULL  BY <2>1, <2>2, HolderFound
    <3>3. Contents' = Contract!With(k, v) \/ Contents' = Contents
      BY <1>0, <2>1, <3>1, AddedWith, SameDict
    <3> QED  BY <3>2, <3>3 DEF Contract!Put
  <2>3. CASE /\ ContainsKey(k) /\ buckets' = Assigned(k, v)
             /\ UNCHANGED <<size, newBuckets, pc, live, starved>>
    <3>1. Rewritten(k, v)  BY <2>1, <2>3, AssignStep
    <3> QED  BY <1>0, <2>1, <3>1, RewrittenWith DEF Contract!Put
  <2> QED  BY <1>1, <2>2, <2>3 DEF Put
<1>2. ASSUME NEW k \in Keys, NEW v \in Values, Assign(k, v) PROVE Contract!Assign(k, v)
  <2>1. /\ pc = "idle" /\ ContainsKey(k) /\ buckets' = Assigned(k, v) /\ ret' = ret
        /\ ret' \in Values \union {NULL}
        /\ UNCHANGED <<bucketCount, size, newBuckets, pc, live, starved>>
    BY <1>2 DEF Assign, IInv, TypeInv
  <2>2. Rewritten(k, v)  BY <2>1, AssignStep
  <2> QED  BY <1>0, <2>1, <2>2, RewrittenWith DEF Contract!Assign
<1>3. ASSUME NEW k \in Keys, NEW v \in Values \union {NULL}, Memoize(k, v)
      PROVE  Contract!Memoize(k, v)
  <2>1. pc = "idle" /\ bucketCount' = bucketCount /\ ret' \in Values \union {NULL}
    BY <1>3, GetIn DEF Memoize, IInv, Idle
  <2>2. CASE ~ContainsKey(k) /\ Add(k, v) /\ ret' = IF k \in live' THEN v ELSE NULL
    <3>1. \/ Added(k, v) /\ ret' = v
          \/ Entries' = Entries /\ ret' = NULL
      BY <2>1, <2>2, AddStep
    <3>2. Contract!Holder(k) = {}  BY <2>1, <2>2, HolderFound
    <3>3. CASE Added(k, v) /\ ret' = v
      BY <1>0, <2>1, <3>2, <3>3, AddedWith DEF Contract!Memoize
    <3>4. CASE Entries' = Entries /\ ret' = NULL
      BY <1>0, <3>2, <3>4, SameDict DEF Contract!Memoize
    <3> QED  BY <3>1, <3>3, <3>4
  <2>3. CASE /\ ContainsKey(k) /\ ret' = Get(k)
             /\ UNCHANGED <<buckets, size, newBuckets, pc, live, starved>>
    <3>1. Entries' = Entries  BY <2>1, <2>3, KeptStep
    <3>2. entryGet(k).key \in Contract!Holder(k) /\ Get(k) = Contents[entryGet(k).key]
      BY <2>1, <2>3, HolderFound
    <3> QED  BY <1>0, <2>3, <3>1, <3>2, SameDict DEF Contract!Memoize
  <2> QED  BY <1>3, <2>2, <2>3 DEF Memoize
<1>4. ASSUME NEW k \in Keys, Remove(k) PROVE Contract!Remove(k)
  <2>1. pc = "idle" /\ ret' = Get(k)  BY <1>4 DEF Remove
  <2>2. CASE Dropped(k)
    BY <1>0, <2>1, <2>2, DroppedWithout DEF Contract!Remove
  <2>3. CASE ~ContainsKey(k) /\ Entries' = Entries
    BY <1>0, <2>1, <2>3, HolderFound, SameDict DEF Contract!Remove
  <2> QED  BY <1>4, <2>2, <2>3, RemoveStep
<1>5. CASE Clear \/ Free
  <2>1. Entries' = {} /\ ret' = ret  BY <1>5, NoneLeft DEF Clear, Free
  <2>2. Contents' = [k \in {} |-> NULL]  BY <1>0, <2>1, BeforeAndAfter, EmptyDict
  <2> QED  BY <2>1, <2>2 DEF Contract!Next, Contract!Clear
<1>6. CASE Relink \/ Expanded
  <2>1. Entries' = Entries /\ ret' = ret
    BY <1>6, RelinkStep, ExpandedStep DEF Relink, Expanded
  <2> QED  BY <1>0, <2>1, SameDict DEF Contract!vars
<1>7. CASE UNCHANGED vars
  <2>1. ret' \in Values \union {NULL}  BY <1>7 DEF vars, IInv, TypeInv
  <2>2. Entries' = Entries /\ ret' = ret  BY <1>7, <2>1, KeptStep DEF vars
  <2> QED  BY <1>0, <2>2, SameDict DEF Contract!vars
<1> QED
  BY <1>1, <1>2, <1>3, <1>4, <1>5, <1>6, <1>7 DEF Next, Contract!Next

\* The chains, their doubling and the failures of malloc and calloc implement the
\* dictionary of hashmap.h: each call has the effect and the result it documents.
THEOREM Dictionary == Spec => ImplementsDictionary
<1>1. Spec => Contract!Init /\ [][Contract!Next]_(Contract!vars)
  BY InitDict, StepDict, Invariance, PTL DEF Spec
<1> QED  BY <1>1 DEF ImplementsDictionary, Contract!Spec
=============================================================================
