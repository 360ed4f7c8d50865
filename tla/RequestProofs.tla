---------------------------- MODULE RequestProofs ----------------------------
(***************************************************************************)
(* Proofs about what a request is made of.  Its headers (RequestHeaders),  *)
(* for any names, values and prefixes: the walk of outHeader has a first   *)
(* entry, and the two readers agree with what is sent as long as the list  *)
(* is shorter than a uint16_t counts.  Its URL (MutableUrl), for any URLs  *)
(* and sizes: it is kept whole.                                            *)
(***************************************************************************)
EXTENDS RequestHeaders, MutableUrl, SequenceTheorems, WellFoundedInduction, NaturalsInduction, TLAPS

-----------------------------------------------------------------------------
(* Numbers and subsequences *)

\* A set of numbers has a least one.
LEMMA Least ==
    ASSUME NEW S \in SUBSET Nat, S # {}
    PROVE  \E i \in S : \A j \in S : i <= j
<1> DEFINE R == OpToRel(<, Nat)
<1>1. IsWellFoundedOn(R, Nat)
    BY NatLessThanWellFounded, Zenon
<1>2. \A x, y \in Nat : x < y => <<x, y>> \in R
    BY DEF OpToRel
<1> HIDE DEF R
<1>3. PICK i \in S : \A j \in S : ~(<<j, i>> \in R)
    BY <1>1, WFMin, Zenon
<1>4. ASSUME NEW j \in S
      PROVE  ~(j < i)
  <2>1. j \in Nat /\ i \in Nat
    OBVIOUS
  <2>2. QED
    BY <1>2, <1>3, <2>1, Zenon
<1>5. QED
    BY <1>4

\* A bounded set of numbers has a greatest one.
LEMMA Greatest ==
    ASSUME NEW n \in Nat, NEW S \in SUBSET (0..n), S # {}
    PROVE  \E i \in S : \A j \in S : j <= i
<1> DEFINE T == {m \in Nat : \A j \in S : j <= m}
<1>1. PICK m \in T : \A j \in T : m <= j
  <2>1. n \in T
    OBVIOUS
  <2>2. T \in SUBSET Nat /\ T # {}
    BY <2>1
  <2> HIDE DEF T
  <2>3. QED
    BY <2>2, Least
<1>2. m \in Nat /\ \A j \in S : j <= m
    BY <1>1
<1>3. m \in S
  <2>1. SUFFICES ASSUME m \notin S
                 PROVE  FALSE
    OBVIOUS
  <2>2. \A j \in S : j \in Nat /\ j <= m /\ j # m
    BY <1>2, <2>1
  <2>3. PICK s \in S : s \in Nat /\ s <= m /\ s # m
    BY <2>2
  <2>4. m - 1 \in Nat /\ \A j \in S : j <= m - 1
    BY <1>2, <2>2, <2>3
  <2>5. m - 1 \in T
    BY <2>4
  <2>6. QED
    BY <1>1, <1>2, <2>5
<1>4. QED
    BY <1>2, <1>3

\* The first m entries of q, those at the places S kept, as f has them.
PartOf(q, S, m, f) ==
    f = [n \in 0..m |-> IF n = 0 THEN <<>>
                        ELSE IF n \in S THEN Append(f[n - 1], q[n]) ELSE f[n - 1]]

\* They can be had for any m.
LEMMA PartsExist ==
    ASSUME NEW q, NEW S
    PROVE  \A m \in Nat : \E f : PartOf(q, S, m, f)
<1> DEFINE B == {m \in Nat : ~ \E f : PartOf(q, S, m, f)}
<1>1. SUFFICES ASSUME B # {}
               PROVE  FALSE
    OBVIOUS
<1>2. PICK m \in B : \A j \in B : m <= j
  <2>1. B \in SUBSET Nat
    OBVIOUS
  <2> HIDE DEF B
  <2>2. QED
    BY <1>1, <2>1, Least
<1>3. m # 0
  <2>1. PICK f : f = [n \in 0..0 |-> <<>>]
    OBVIOUS
  <2>2. PartOf(q, S, 0, f)
    BY <2>1 DEF PartOf
  <2>3. QED
    BY <2>2
<1>4. m \in Nat /\ m - 1 \in Nat /\ m - 1 \notin B
    BY <1>2, <1>3
<1>5. PICK f : PartOf(q, S, m - 1, f)
    BY <1>4
<1>6. \A n \in 0..m - 1 : f[n] = IF n = 0 THEN <<>>
                                 ELSE IF n \in S THEN Append(f[n - 1], q[n]) ELSE f[n - 1]
    BY <1>5 DEF PartOf
<1>7. PICK g : g = [n \in 0..m |-> IF n = m THEN IF m \in S THEN Append(f[m - 1], q[m]) ELSE f[m - 1]
                                   ELSE f[n]]
    OBVIOUS
<1>8. ASSUME NEW n \in 0..m
      PROVE  g[n] = IF n = 0 THEN <<>>
                    ELSE IF n \in S THEN Append(g[n - 1], q[n]) ELSE g[n - 1]
  <2>1. n # 0 => n - 1 \in 0..m /\ n - 1 # m /\ g[n - 1] = f[n - 1]
    BY <1>4, <1>7
  <2>2. CASE n = m
    BY <1>3, <1>7, <2>1, <2>2
  <2>3. CASE n # m
    <3>1. n \in 0..m - 1 /\ g[n] = f[n]
      BY <1>4, <1>7, <2>3
    <3>2. QED
      BY <1>6, <2>1, <3>1
  <2>4. QED
    BY <2>2, <2>3
<1>9. PartOf(q, S, m, g)
    BY <1>7, <1>8 DEF PartOf
<1>10. QED
    BY <1>9

\* Kept goes through a sequence entry by entry.
LEMMA KeptParts ==
    ASSUME NEW E, NEW q \in Seq(E), NEW S
    PROVE  \E f : /\ Kept(q, S) = f[Len(q)] /\ f[0] = <<>>
                  /\ \A n \in 1..Len(q) : f[n] = IF n \in S THEN Append(f[n - 1], q[n]) ELSE f[n - 1]
<1> DEFINE F == CHOOSE f : PartOf(q, S, Len(q), f)
<1>1. Kept(q, S) = F[Len(q)]
    BY Zenon DEF Kept, PartOf
<1>2. PartOf(q, S, Len(q), F)
  <2>1. Len(q) \in Nat
    OBVIOUS
  <2>2. \E f : PartOf(q, S, Len(q), f)
    BY <2>1, PartsExist
  <2>3. QED
    BY <2>2, Zenon
<1>3. PICK f : f = F
    OBVIOUS
<1>4. PartOf(q, S, Len(q), f) /\ Kept(q, S) = f[Len(q)]
    BY <1>1, <1>2, <1>3, Zenon
<1> HIDE DEF F
<1>5. \A n \in 0..Len(q) : f[n] = IF n = 0 THEN <<>>
                                  ELSE IF n \in S THEN Append(f[n - 1], q[n]) ELSE f[n - 1]
    BY <1>4 DEF PartOf
<1>6. Len(q) \in Nat
    OBVIOUS
<1>7. f[0] = <<>>
    BY <1>5, <1>6
<1>8. \A n \in 1..Len(q) : f[n] = IF n \in S THEN Append(f[n - 1], q[n]) ELSE f[n - 1]
    BY <1>5, <1>6
<1>9. QED
    BY <1>4, <1>7, <1>8

\* What is kept of a sequence is no longer than that.
LEMMA KeptTyped ==
    ASSUME NEW E, NEW q \in Seq(E), NEW S
    PROVE  Kept(q, S) \in Seq(E) /\ Len(Kept(q, S)) <= Len(q)
<1>1. PICK f : /\ Kept(q, S) = f[Len(q)] /\ f[0] = <<>>
               /\ \A n \in 1..Len(q) : f[n] = IF n \in S THEN Append(f[n - 1], q[n]) ELSE f[n - 1]
    BY KeptParts
<1>2. Len(q) \in Nat
    OBVIOUS
<1> DEFINE B == {n \in 0..Len(q) : ~(f[n] \in Seq(E) /\ Len(f[n]) <= n)}
<1>3. SUFFICES B = {}
    BY <1>1, <1>2
<1>4. SUFFICES ASSUME B # {}
               PROVE  FALSE
    OBVIOUS
<1>5. PICK n \in B : \A j \in B : n <= j
  <2>1. B \in SUBSET Nat
    OBVIOUS
  <2> HIDE DEF B
  <2>2. QED
    BY <1>4, <2>1, Least
<1>6. n # 0
  <2>1. <<>> \in Seq(E) /\ Len(<<>>) = 0
    OBVIOUS
  <2>2. QED
    BY <1>1, <1>5, <2>1
<1>7. n \in 1..Len(q) /\ n - 1 \in 0..Len(q) /\ n - 1 \notin B
    BY <1>2, <1>5, <1>6
<1>8. PICK p : p = f[n - 1] /\ p \in Seq(E) /\ Len(p) <= n - 1
    BY <1>7
<1>9. q[n] \in E
    BY <1>7
<1>10. Append(p, q[n]) \in Seq(E) /\ Len(Append(p, q[n])) = Len(p) + 1 /\ Len(p) \in Nat
    BY <1>8, <1>9
<1>11. f[n] = IF n \in S THEN Append(p, q[n]) ELSE p
    BY <1>1, <1>7, <1>8
<1>12. f[n] \in Seq(E) /\ Len(f[n]) <= n
    BY <1>7, <1>8, <1>10, <1>11
<1>13. QED
    BY <1>5, <1>12

\* When every entry is kept the sequence stays as it is.
LEMMA KeptAll ==
    ASSUME NEW E, NEW q \in Seq(E), NEW S, 1..Len(q) \subseteq S
    PROVE  Kept(q, S) = q
<1>1. PICK f : /\ Kept(q, S) = f[Len(q)] /\ f[0] = <<>>
               /\ \A n \in 1..Len(q) : f[n] = IF n \in S THEN Append(f[n - 1], q[n]) ELSE f[n - 1]
    BY KeptParts
<1>2. Len(q) \in Nat
    OBVIOUS
<1> DEFINE Like(n) == f[n] \in Seq(E) /\ Len(f[n]) = n /\ \A i \in 1..n : f[n][i] = q[i]
           B == {n \in 0..Len(q) : ~Like(n)}
<1>3. SUFFICES B = {}
  <2>1. Len(q) \in 0..Len(q)
    BY <1>2
  <2>2. Like(Len(q))
    BY <1>3, <2>1
  <2>3. PICK g : g = f[Len(q)]
    OBVIOUS
  <2>4. g \in Seq(E) /\ Len(g) = Len(q) /\ \A i \in 1..Len(q) : g[i] = q[i]
    BY <2>2, <2>3
  <2>5. g = q
    BY <2>4, SeqEqual
  <2>6. QED
    BY <1>1, <2>3, <2>5
<1>4. SUFFICES ASSUME B # {}
               PROVE  FALSE
    OBVIOUS
<1>5. PICK n \in B : \A j \in B : n <= j
  <2>1. B \in SUBSET Nat
    OBVIOUS
  <2> HIDE DEF B
  <2>2. QED
    BY <1>4, <2>1, Least
<1>6. n # 0
  <2>1. <<>> \in Seq(E) /\ Len(<<>>) = 0
    OBVIOUS
  <2>2. Like(0)
    BY <1>1, <2>1
  <2>3. QED
    BY <1>5, <2>2
<1>7. n \in 1..Len(q) /\ n - 1 \in 0..Len(q) /\ n - 1 \notin B
    BY <1>2, <1>5, <1>6
<1>8. PICK p : p = f[n - 1] /\ p \in Seq(E) /\ Len(p) = n - 1 /\ \A i \in 1..n - 1 : p[i] = q[i]
    BY <1>7
<1>9. q[n] \in E /\ n \in S
    BY <1>7
<1>10. f[n] = Append(p, q[n])
    BY <1>1, <1>7, <1>8, <1>9
<1>11. /\ Append(p, q[n]) \in Seq(E) /\ Len(Append(p, q[n])) = n
       /\ \A i \in 1..n : Append(p, q[n])[i] = q[i]
    BY <1>2, <1>7, <1>8, <1>9
<1>12. QED
    BY <1>5, <1>10, <1>11

\* What holds of the empty sequence, and of a sequence with an entry more, holds of all.
LEMMA GrowSeq ==
    ASSUME NEW E, NEW T \in SUBSET Seq(E), <<>> \in T,
           \A p \in T, e \in E : Append(p, e) \in T
    PROVE  T = Seq(E)
<1> DEFINE B == {n \in Nat : \E q \in Seq(E) : q \notin T /\ Len(q) = n}
<1>1. SUFFICES ASSUME NEW r \in Seq(E), r \notin T
               PROVE  FALSE
    OBVIOUS
<1>2. PICK n \in B : \A j \in B : n <= j
  <2>1. B \in SUBSET Nat /\ Len(r) \in B
    BY <1>1
  <2> HIDE DEF B
  <2>2. QED
    BY <2>1, Least
<1>3. PICK q \in Seq(E) : q \notin T /\ Len(q) = n
    BY <1>2
<1>4. PICK p \in Seq(E), e \in E : q = Append(p, e)
    BY <1>3, SequenceEmptyOrAppend
<1>5. Len(p) \in Nat /\ Len(p) < n
  <2>1. Len(Append(p, e)) = Len(p) + 1 /\ Len(p) \in Nat
    BY AppendProperties
  <2>2. QED
    BY <1>3, <1>4, <2>1
<1>6. p \in T
    BY <1>2, <1>5
<1>7. QED
    BY <1>3, <1>4, <1>6

\* An entry more is kept or not, whatever is kept of the others.
LEMMA KeptAppend ==
    ASSUME NEW E, NEW q \in Seq(E), NEW e \in E, NEW S, NEW T,
           \A i \in 1..Len(q) : i \in T <=> i \in S
    PROVE  Kept(Append(q, e), T) = IF Len(q) + 1 \in T THEN Append(Kept(q, S), e) ELSE Kept(q, S)
<1>1. PICK r : r = Append(q, e)
    OBVIOUS
<1>2. r \in Seq(E) /\ Len(q) \in Nat /\ Len(r) = Len(q) + 1 /\ r[Len(q) + 1] = e
      /\ \A i \in 1..Len(q) : r[i] = q[i]
    BY <1>1, AppendProperties
<1>3. PICK f : /\ Kept(q, S) = f[Len(q)] /\ f[0] = <<>>
               /\ \A n \in 1..Len(q) : f[n] = IF n \in S THEN Append(f[n - 1], q[n]) ELSE f[n - 1]
    BY KeptParts
<1>4. PICK g : /\ Kept(r, T) = g[Len(r)] /\ g[0] = <<>>
               /\ \A n \in 1..Len(r) : g[n] = IF n \in T THEN Append(g[n - 1], r[n]) ELSE g[n - 1]
    BY <1>2, KeptParts
<1> DEFINE B == {n \in 0..Len(q) : g[n] # f[n]}
<1>5. B = {}
  <2>1. SUFFICES ASSUME B # {}
                 PROVE  FALSE
    OBVIOUS
  <2>2. PICK n \in B : \A j \in B : n <= j
    <3>1. B \in SUBSET Nat
      OBVIOUS
    <3> HIDE DEF B
    <3>2. QED
      BY <2>1, <3>1, Least
  <2>3. n \in 1..Len(q) /\ n - 1 \in 0..Len(q) /\ n - 1 \notin B /\ n \in 1..Len(r)
    BY <1>2, <1>3, <1>4, <2>2
  <2>4. g[n - 1] = f[n - 1] /\ r[n] = q[n] /\ (n \in T <=> n \in S)
    BY <1>2, <2>3
  <2>5. g[n] = f[n]
    BY <1>3, <1>4, <2>3, <2>4
  <2>6. QED
    BY <2>2, <2>5
<1>6. g[Len(q)] = f[Len(q)]
    BY <1>2, <1>5
<1>7. g[Len(r)] = IF Len(q) + 1 \in T THEN Append(g[Len(q)], e) ELSE g[Len(q)]
  <2>1. Len(r) \in 1..Len(r) /\ Len(r) - 1 = Len(q)
    BY <1>2
  <2>2. QED
    BY <1>2, <1>4, <2>1
<1>8. QED
    BY <1>1, <1>3, <1>4, <1>6, <1>7

\* the entries of q that are in A, in order
Only(q, A) == Kept(q, {i \in 1..Len(q) : q[i] \in A})

\* They are found entry by entry.
LEMMA OnlyAppend ==
    ASSUME NEW E, NEW q \in Seq(E), NEW e \in E, NEW A
    PROVE  /\ Only(q, A) \in Seq(E)
           /\ e \in A => Only(Append(q, e), A) = Append(Only(q, A), e)
           /\ e \notin A => Only(Append(q, e), A) = Only(q, A)
<1>1. PICK r : r = Append(q, e)
    OBVIOUS
<1>2. Len(q) \in Nat /\ Len(r) = Len(q) + 1 /\ r[Len(q) + 1] = e /\ \A i \in 1..Len(q) : r[i] = q[i]
    BY <1>1, AppendProperties
<1>3. PICK S : S = {i \in 1..Len(q) : q[i] \in A}
    OBVIOUS
<1>4. PICK T : T = {i \in 1..Len(r) : r[i] \in A}
    OBVIOUS
<1>5. (\A i \in 1..Len(q) : i \in T <=> i \in S) /\ (Len(q) + 1 \in T <=> e \in A)
    BY <1>2, <1>3, <1>4
<1>6. Kept(r, T) = IF Len(q) + 1 \in T THEN Append(Kept(q, S), e) ELSE Kept(q, S)
    BY <1>1, <1>5, KeptAppend
<1>7. Only(q, A) = Kept(q, S) /\ Only(r, A) = Kept(r, T)
    BY <1>3, <1>4 DEF Only
<1>8. QED
    BY <1>1, <1>5, <1>6, <1>7, KeptTyped

LEMMA OnlyTyped == ASSUME NEW E, NEW q \in Seq(E), NEW A PROVE Only(q, A) \in Seq(E)
    BY KeptTyped DEF Only

LEMMA OnlyTakes ==
    ASSUME NEW E, NEW q \in Seq(E), NEW A, NEW e \in E, e \in A
    PROVE  Only(Append(q, e), A) = Append(Only(q, A), e)
    BY OnlyAppend

LEMMA OnlyDrops ==
    ASSUME NEW E, NEW q \in Seq(E), NEW A, NEW e \in E, e \notin A
    PROVE  Only(Append(q, e), A) = Only(q, A)
    BY OnlyAppend

LEMMA OnlyEmpty == ASSUME NEW A PROVE Only(<<>>, A) = <<>>
<1>1. <<>> \in Seq({}) /\ Len(<<>>) = 0
    OBVIOUS
<1>2. Len(Kept(<<>>, {i \in 1..Len(<<>>) : <<>>[i] \in A})) <= 0
      /\ Kept(<<>>, {i \in 1..Len(<<>>) : <<>>[i] \in A}) \in Seq({})
    BY <1>1, KeptTyped
<1>3. PICK q : q = Kept(<<>>, {i \in 1..Len(<<>>) : <<>>[i] \in A})
    OBVIOUS
<1>4. q \in Seq({}) /\ Len(q) <= 0
    BY <1>2, <1>3
<1>5. q = <<>>
    BY <1>4
<1>6. QED
    BY <1>3, <1>5 DEF Only

\* Each of them is an entry of q and in A.
LEMMA OnlyFrom ==
    ASSUME NEW E, NEW q \in Seq(E), NEW A
    PROVE  \A i \in 1..Len(Only(q, A)) :
              /\ Only(q, A)[i] \in A
              /\ \E j \in 1..Len(q) : q[j] = Only(q, A)[i]
<1> DEFINE Good(r) == \A i \in 1..Len(Only(r, A)) :
                         Only(r, A)[i] \in A /\ \E j \in 1..Len(r) : r[j] = Only(r, A)[i]
           T == {r \in Seq(E) : Good(r)}
<1>1. <<>> \in T
  <2>1. Len(<<>>) = 0 /\ <<>> \in Seq(E)
    OBVIOUS
  <2>2. QED
    BY <2>1, OnlyEmpty
<1>2. ASSUME NEW p \in T, NEW e \in E
      PROVE  Append(p, e) \in T
  <2>1. PICK r : r = Append(p, e)
    OBVIOUS
  <2>2. /\ r \in Seq(E) /\ Len(p) \in Nat /\ Len(r) = Len(p) + 1 /\ r[Len(p) + 1] = e
        /\ \A i \in 1..Len(p) : r[i] = p[i]
    BY <2>1, AppendProperties
  <2>3. PICK o : o = Only(p, A)
    OBVIOUS
  <2>4. o \in Seq(E) /\ (e \in A => Only(r, A) = Append(o, e)) /\ (e \notin A => Only(r, A) = o)
    <3>1. /\ Only(p, A) \in Seq(E)
          /\ e \in A => Only(Append(p, e), A) = Append(Only(p, A), e)
          /\ e \notin A => Only(Append(p, e), A) = Only(p, A)
      BY OnlyAppend
    <3>2. QED
      BY <2>1, <2>3, <3>1
  <2>5. \A i \in 1..Len(o) : o[i] \in A /\ \E j \in 1..Len(r) : r[j] = o[i]
    <3>1. \A i \in 1..Len(o) : o[i] \in A /\ \E j \in 1..Len(p) : p[j] = o[i]
      BY <2>3
    <3>2. \A j \in 1..Len(p) : j \in 1..Len(r)
      BY <2>2
    <3>3. QED
      BY <2>2, <3>1, <3>2
  <2>6. CASE e \in A
    <3>1. /\ Len(o) \in Nat /\ Len(Append(o, e)) = Len(o) + 1 /\ Append(o, e)[Len(o) + 1] = e
          /\ \A i \in 1..Len(o) : Append(o, e)[i] = o[i]
      BY <2>4, AppendProperties
    <3>2. \A i \in 1..Len(Append(o, e)) : i \in 1..Len(o) \/ i = Len(o) + 1
      BY <3>1
    <3>3. Len(r) \in 1..Len(r) /\ r[Len(r)] = e
      BY <2>2
    <3>4. ASSUME NEW i \in 1..Len(Append(o, e))
          PROVE  Append(o, e)[i] \in A /\ \E j \in 1..Len(r) : r[j] = Append(o, e)[i]
      BY <2>5, <2>6, <3>1, <3>2, <3>3
    <3>5. Only(r, A) = Append(o, e)
      BY <2>4, <2>6
    <3>6. QED
      BY <2>1, <2>2, <3>4, <3>5
  <2>7. CASE e \notin A
    <3>1. Only(r, A) = o
      BY <2>4, <2>7
    <3>2. QED
      BY <2>1, <2>2, <2>5, <3>1
  <2>8. QED
    BY <2>6, <2>7
<1>3. T = Seq(E)
  <2>1. T \in SUBSET Seq(E)
    OBVIOUS
  <2> HIDE DEF T
  <2>2. QED
    BY <1>1, <1>2, <2>1, GrowSeq
<1>4. QED
    BY <1>3

\* None of them, none is left.
LEMMA OnlyNone ==
    ASSUME NEW E, NEW q \in Seq(E), NEW A, \A j \in 1..Len(q) : q[j] \notin A
    PROVE  Only(q, A) = <<>>
<1>1. PICK o : o = Only(q, A)
    OBVIOUS
<1>2. o \in Seq(E)
    BY <1>1, KeptTyped DEF Only
<1>3. \A i \in 1..Len(o) : FALSE
    BY <1>1, OnlyFrom
<1>4. Len(o) \in Nat /\ ~(Len(o) > 0)
    BY <1>2, <1>3
<1>5. o = <<>>
    BY <1>2, <1>4
<1>6. QED
    BY <1>1, <1>5

\* An entry at the end of a list in two parts is at the end of the second.
LEMMA AppendAfter ==
    ASSUME NEW E, NEW a \in Seq(E), NEW b \in Seq(E), NEW e \in E
    PROVE  a \o Append(b, e) = Append(a \o b, e)
<1>1. PICK x : x = <<e>>
    OBVIOUS
<1>2. x \in Seq(E)
    BY <1>1
<1>3. Append(b, e) = b \o x /\ a \o b \in Seq(E)
    BY <1>1, AppendIsConcat, ConcatProperties
<1>4. PICK c : c = a \o b
    OBVIOUS
<1>5. c \in Seq(E)
    BY <1>3, <1>4
<1>6. Append(c, e) = c \o x
    BY <1>1, <1>5, AppendIsConcat
<1>7. (a \o b) \o x = a \o (b \o x)
    BY <1>2, ConcatAssociative
<1>8. QED
    BY <1>3, <1>4, <1>6, <1>7

\* A list in two parts is gone through part by part.
LEMMA OnlyConcat ==
    ASSUME NEW E, NEW p \in Seq(E), NEW A
    PROVE  \A r \in Seq(E) : Only(p \o r, A) = Only(p, A) \o Only(r, A)
<1>1. ASSUME NEW r \in Seq(E), NEW e \in E, Only(p \o r, A) = Only(p, A) \o Only(r, A)
      PROVE  Only(p \o Append(r, e), A) = Only(p, A) \o Only(Append(r, e), A)
  <2>1. PICK m : m = p \o r
    OBVIOUS
  <2>2. m \in Seq(E) /\ p \o Append(r, e) = Append(m, e)
    BY <2>1, ConcatProperties, AppendAfter
  <2>3. /\ e \in A => Only(Append(m, e), A) = Append(Only(m, A), e)
        /\ e \notin A => Only(Append(m, e), A) = Only(m, A)
    BY <2>2, OnlyTakes, OnlyDrops
  <2>4. /\ Only(r, A) \in Seq(E)
        /\ e \in A => Only(Append(r, e), A) = Append(Only(r, A), e)
        /\ e \notin A => Only(Append(r, e), A) = Only(r, A)
    BY OnlyAppend
  <2>5. Only(p, A) \in Seq(E)
    BY OnlyTyped
  <2>6. Only(p, A) \o Append(Only(r, A), e) = Append(Only(p, A) \o Only(r, A), e)
    BY <2>4, <2>5, AppendAfter
  <2>7. QED
    BY <1>1, <2>1, <2>2, <2>3, <2>4, <2>6
<1> DEFINE Apart(r) == Only(p \o r, A) = Only(p, A) \o Only(r, A)
           T == {r \in Seq(E) : Apart(r)}
<1>2. <<>> \in T
  <2>1. Only(p, A) \in Seq(E)
    BY OnlyTyped
  <2>2. p \o <<>> = p /\ Only(p, A) \o <<>> = Only(p, A) /\ <<>> \in Seq(E)
    BY <2>1, ConcatEmptySeq, EmptySeq
  <2>3. QED
    BY <2>2, OnlyEmpty
<1>3. ASSUME NEW r \in T, NEW e \in E
      PROVE  Append(r, e) \in T
  <2>1. Apart(r) => Apart(Append(r, e))
    BY <1>1
  <2> HIDE DEF Apart
  <2>2. Append(r, e) \in Seq(E)
    BY AppendProperties
  <2>3. QED
    BY <2>1, <2>2
<1>4. T = Seq(E)
  <2>1. T \in SUBSET Seq(E)
    OBVIOUS
  <2> HIDE DEF T
  <2>2. QED
    BY <1>2, <1>3, <2>1, GrowSeq
<1>5. QED
    BY <1>4

\* What is left of what was left.
LEMMA OnlyTwice ==
    ASSUME NEW E, NEW q \in Seq(E), NEW A, NEW B
    PROVE  Only(Only(q, A), B) = Only(q, A \cap B)
<1> DEFINE T == {r \in Seq(E) : Only(Only(r, A), B) = Only(r, A \cap B)}
<1>1. <<>> \in T
  <2>1. <<>> \in Seq(E)
    OBVIOUS
  <2>2. QED
    BY <2>1, OnlyEmpty
<1>2. ASSUME NEW r \in Seq(E), NEW e \in E, Only(Only(r, A), B) = Only(r, A \cap B)
      PROVE  Only(Only(Append(r, e), A), B) = Only(Append(r, e), A \cap B)
  <2>1. r \in Seq(E) /\ Append(r, e) \in Seq(E)
    BY AppendProperties
  <2>2. PICK a : a = Only(r, A)
    OBVIOUS
  <2>3. /\ a \in Seq(E)
        /\ e \in A => Only(Append(r, e), A) = Append(a, e)
        /\ e \notin A => Only(Append(r, e), A) = a
    <3>1. /\ Only(r, A) \in Seq(E)
          /\ e \in A => Only(Append(r, e), A) = Append(Only(r, A), e)
          /\ e \notin A => Only(Append(r, e), A) = Only(r, A)
      BY <2>1, OnlyAppend
    <3>2. QED
      BY <2>2, <3>1
  <2>4. /\ Only(a, B) \in Seq(E)
        /\ e \in B => Only(Append(a, e), B) = Append(Only(a, B), e)
        /\ e \notin B => Only(Append(a, e), B) = Only(a, B)
    BY <2>3, OnlyAppend
  <2>5. /\ e \in A \cap B => Only(Append(r, e), A \cap B) = Append(Only(r, A \cap B), e)
        /\ e \notin A \cap B => Only(Append(r, e), A \cap B) = Only(r, A \cap B)
    <3>1. PICK C : C = A \cap B
      OBVIOUS
    <3>2. /\ Only(r, C) \in Seq(E)
          /\ e \in C => Only(Append(r, e), C) = Append(Only(r, C), e)
          /\ e \notin C => Only(Append(r, e), C) = Only(r, C)
      BY <2>1, OnlyAppend
    <3>3. QED
      BY <3>1, <3>2
  <2>6. Only(a, B) = Only(r, A \cap B)
    BY <1>2, <2>2
  <2>7. Only(Only(Append(r, e), A), B) = Only(Append(r, e), A \cap B)
    BY <2>3, <2>4, <2>5, <2>6
  <2>8. QED
    BY <2>1, <2>7
<1>3. T = Seq(E)
  <2>1. T \in SUBSET Seq(E)
    OBVIOUS
  <2>2. ASSUME NEW r \in T, NEW e \in E
        PROVE  Append(r, e) \in T
    BY <1>2, AppendProperties
  <2> HIDE DEF T
  <2>3. QED
    BY <1>1, <2>1, <2>2, GrowSeq
<1>4. QED
    BY <1>3

-----------------------------------------------------------------------------
(* The list and its counter *)

\* Since the list was last empty nothing was turned off and everything was counted.
CountInv ==
    plain => /\ outHeaderCount = Len(outHeaders)
             /\ \A i \in 1..Len(outHeaders) : Real(outHeaders[i])

SafeInv == TypeOK /\ WalkIsSafe

IInv == SafeInv /\ CountInv

\* An entry more: the list is typed and has that entry at its end.
LEMMA EntryAdded ==
    ASSUME NEW q \in Seq(Entry), NEW e \in Entry
    PROVE  /\ Append(q, e) \in Seq(Entry) /\ Append(q, e) # <<>>
           /\ Len(Append(q, e)) = Len(q) + 1
           /\ Append(q, e)[Len(q) + 1] = e
           /\ \A i \in 1..Len(q) : Append(q, e)[i] = q[i]
<1>1. Len(Append(q, e)) = Len(q) + 1 /\ Len(q) \in Nat
    OBVIOUS
<1>2. Append(q, e) # <<>>
  <2>1. Len(Append(q, e)) # 0 /\ Len(<<>>) = 0
    BY <1>1
  <2>2. QED
    BY <2>1
<1>3. QED
    BY <1>1, <1>2

\* A uint16_t has values enough for one.
LEMMA Wide == Width \in Nat /\ Width > 1
    BY DEF Width

\* outHeaderCount stays a uint16_t.
LEMMA CountTyped ==
    ASSUME TypeOK, NEW n \in Int
    PROVE  CountPlus(n) \in 0..(Width - 1)
<1>1. PICK w : w = Width
    OBVIOUS
<1>2. w \in Nat \ {0} /\ outHeaderCount \in Int
    BY <1>1, Wide DEF TypeOK
<1>3. PICK x : x = outHeaderCount + n
    OBVIOUS
<1>4. x \in Int
    BY <1>2, <1>3
<1>5. x % w \in 0..(w - 1)
    BY <1>2, <1>4
<1>6. QED
    BY <1>1, <1>3, <1>5 DEF CountPlus

\* The last entry that matches is one of the list.
LEMMA LastMatches ==
    ASSUME TypeOK, NEW k, Matching(k) # {}
    PROVE  LastMatch(k) \in Matching(k) /\ LastMatch(k) \in 1..Len(outHeaders)
<1>1. Len(outHeaders) \in Nat
    BY DEF TypeOK
<1>2. Matching(k) \subseteq 1..Len(outHeaders)
    BY DEF Matching
<1>3. \E i \in Matching(k) : \A j \in Matching(k) : j <= i
  <2>1. PICK S : S = Matching(k)
    OBVIOUS
  <2>2. S \in SUBSET (0..Len(outHeaders)) /\ S # {}
    BY <1>1, <1>2, <2>1
  <2>3. \E i \in S : \A j \in S : j <= i
    BY <1>1, <2>2, Greatest
  <2>4. QED
    BY <2>1, <2>3
<1>4. LastMatch(k) \in Matching(k)
    BY <1>3, Zenon DEF LastMatch
<1>5. QED
    BY <1>2, <1>4

\* Where the list stays short its growth by one is counted (addHeader, setHeader).
LEMMA CountedOn ==
    ASSUME SafeInv, NEW e \in Entry, Real(e),
           outHeaders' = Append(outHeaders, e), outHeaderCount' = CountPlus(1),
           plain' => plain, plain' \in BOOLEAN, InBounds
    PROVE  SafeInv' /\ (MaxLen < Width /\ CountInv => CountInv')
<1>1. outHeaders \in Seq(Entry) /\ Len(outHeaders) \in Nat
    BY DEF SafeInv, TypeOK
<1>2. /\ outHeaders' \in Seq(Entry) /\ outHeaders' # <<>>
      /\ Len(outHeaders') = Len(outHeaders) + 1
      /\ outHeaders'[Len(outHeaders) + 1] = e
      /\ \A i \in 1..Len(outHeaders) : outHeaders'[i] = outHeaders[i]
    BY <1>1, EntryAdded
<1>3. outHeaderCount' \in 0..(Width - 1)
    BY CountTyped DEF SafeInv
<1>4. Len(outHeaders') <= MaxLen
    BY DEF InBounds
<1>5. TypeOK' /\ WalkIsSafe'
    BY <1>2, <1>3, <1>4 DEF TypeOK, WalkIsSafe
<1>6. ASSUME MaxLen < Width, CountInv
      PROVE  CountInv'
  <2>1. SUFFICES ASSUME plain
                 PROVE  /\ outHeaderCount' = Len(outHeaders')
                        /\ \A i \in 1..Len(outHeaders') : Real(outHeaders'[i])
    BY DEF CountInv
  <2>2. outHeaderCount = Len(outHeaders) /\ \A i \in 1..Len(outHeaders) : Real(outHeaders[i])
    BY <1>6, <2>1 DEF CountInv
  <2>3. outHeaderCount' = Len(outHeaders')
    <3>1. PICK w : w = Width
      OBVIOUS
    <3>2. PICK x : x = Len(outHeaders) + 1
      OBVIOUS
    <3>3. w \in Nat \ {0} /\ x \in 0..(w - 1)
      BY <1>1, <1>2, <1>4, <1>6, <3>1, <3>2, Wide, HeaderAssumption
    <3>4. x % w = x
      BY <3>3
    <3>5. QED
      BY <1>2, <2>2, <3>1, <3>2, <3>4 DEF CountPlus
  <2>4. ASSUME NEW i \in 1..Len(outHeaders')
        PROVE  Real(outHeaders'[i])
    <3>1. CASE i = Len(outHeaders) + 1
      BY <1>2, <3>1
    <3>2. CASE i # Len(outHeaders) + 1
      <4>1. i \in 1..Len(outHeaders)
        BY <1>1, <1>2, <3>2
      <4>2. QED
        BY <1>2, <2>2, <4>1
    <3>3. QED
      BY <3>1, <3>2
  <2>5. QED
    BY <2>3, <2>4
<1>7. QED
    BY <1>5, <1>6 DEF SafeInv

\* A value is not the mark of a disabled header.
LEMMA ValueIsReal ==
    ASSUME NEW k \in Keys, NEW v \in Values
    PROVE  [key |-> k, val |-> v] \in Entry /\ Real([key |-> k, val |-> v])
    BY HeaderAssumption DEF Entry, Real

\* setHeader with a value keeps the list counted.
LEMMA SetKeeps ==
    ASSUME SafeInv, NEW k \in Keys, NEW v \in Values, SetHeader(k, v)
    PROVE  SafeInv' /\ (MaxLen < Width /\ CountInv => CountInv')
<1>1. PICK e : e = [key |-> k, val |-> v]
    OBVIOUS
<1>2. e \in Entry /\ Real(e)
    BY <1>1, ValueIsReal
<1>3. plain' = (plain /\ \A i \in Matching(k) : outHeaders[i].key = k)
    BY DEF SetHeader
<1>4. plain' \in BOOLEAN /\ (plain' => plain)
    BY <1>3, Zenon
<1>5. InBounds
    BY DEF SetHeader
<1>6. CASE Matching(k) = {}
  <2>1. outHeaders' = Append(outHeaders, e) /\ outHeaderCount' = CountPlus(1)
    BY <1>1, <1>6 DEF SetHeader
  <2>2. QED
    BY <1>2, <1>4, <1>5, <2>1, CountedOn
<1>7. CASE Matching(k) # {}
  <2>1. PICK i : i = LastMatch(k)
    OBVIOUS
  <2>2. outHeaders' = [outHeaders EXCEPT ![i] = e] /\ outHeaderCount' = outHeaderCount
    BY <1>1, <1>7, <2>1 DEF SetHeader
  <2>3. outHeaders \in Seq(Entry) /\ Len(outHeaders) \in Nat
    BY DEF SafeInv, TypeOK
  <2>4. i \in 1..Len(outHeaders)
    BY <1>7, <2>1, LastMatches DEF SafeInv
  <2>5. /\ outHeaders' \in Seq(Entry) /\ Len(outHeaders') = Len(outHeaders)
        /\ \A j \in 1..Len(outHeaders) : outHeaders'[j] = IF j = i THEN e ELSE outHeaders[j]
    BY <1>2, <2>2, <2>3, <2>4, ExceptSeq
  <2>6. outHeaders' # <<>>
    <3>1. Len(outHeaders') # 0 /\ Len(<<>>) = 0
      BY <2>3, <2>4, <2>5
    <3>2. QED
      BY <3>1
  <2>7. TypeOK' /\ WalkIsSafe'
    BY <1>4, <2>2, <2>5, <2>6 DEF SafeInv, TypeOK, WalkIsSafe
  <2>8. CountInv => CountInv'
    BY <1>2, <1>4, <2>2, <2>5 DEF CountInv
  <2>9. QED
    BY <2>7, <2>8 DEF SafeInv
<1>8. QED
    BY <1>6, <1>7

\* addHeader keeps the list counted.
LEMMA AddKeeps ==
    ASSUME SafeInv, NEW k \in Keys, NEW v \in Values, AddHeader(k, v)
    PROVE  SafeInv' /\ (MaxLen < Width /\ CountInv => CountInv')
<1>1. PICK e : e = [key |-> k, val |-> v]
    OBVIOUS
<1>2. e \in Entry /\ Real(e)
    BY <1>1, ValueIsReal
<1>3. outHeaders' = Append(outHeaders, e) /\ outHeaderCount' = CountPlus(1)
    BY <1>1 DEF AddHeader
<1>4. plain' \in BOOLEAN /\ (plain' => plain) /\ InBounds
    BY DEF AddHeader, SafeInv, TypeOK
<1>5. QED
    BY <1>2, <1>3, <1>4, CountedOn

\* setHeader without a value leaves the mark of the disabled header at least.
LEMMA RemoveKeeps ==
    ASSUME SafeInv, NEW k \in Nulls, RemoveHeader(k)
    PROVE  SafeInv' /\ CountInv'
<1>0. TypeOK
    BY DEF SafeInv
<1>1. PICK e : e = [key |-> k, val |-> Disabled]
    OBVIOUS
<1>2. e \in Entry
    BY <1>1, HeaderAssumption DEF Entry
<1>3. PICK q : q = Unlinked(k)
    OBVIOUS
<1>4. q \in Seq(Entry)
  <2>1. outHeaders \in Seq(Entry)
    BY <1>0 DEF TypeOK
  <2>2. Kept(outHeaders, 1..Len(outHeaders) \ Matching(k)) \in Seq(Entry)
    BY <2>1, KeptTyped
  <2>3. <<>> \in Seq(Entry)
    OBVIOUS
  <2>4. QED
    BY <1>3, <2>2, <2>3 DEF Unlinked
<1>5. outHeaders' = Append(q, e)
    BY <1>1, <1>3 DEF RemoveHeader, WithStub
<1>6. outHeaders' \in Seq(Entry) /\ outHeaders' # <<>>
    BY <1>2, <1>4, <1>5, EntryAdded
<1>7. outHeaderCount' \in 0..(Width - 1)
  <2>1. Len(outHeaders) \in Nat /\ Len(q) \in Nat
    BY <1>0, <1>4 DEF TypeOK
  <2>2. PICK c : c = -CountedOff(k)
    OBVIOUS
  <2>3. c \in Int
    BY <1>3, <2>1, <2>2 DEF CountedOff
  <2>4. outHeaderCount' = CountPlus(c)
    BY <2>2 DEF RemoveHeader
  <2>5. QED
    BY <1>0, <2>3, <2>4, CountTyped
<1>8. plain' = FALSE /\ Len(outHeaders') <= MaxLen
    BY DEF RemoveHeader, InBounds
<1>9. QED
    BY <1>6, <1>7, <1>8 DEF SafeInv, TypeOK, WalkIsSafe, CountInv

\* Every call keeps the walk safe, and the list counted while it is short.
LEMMA Step ==
    ASSUME SafeInv, [Next]_vars
    PROVE  SafeInv' /\ (MaxLen < Width /\ CountInv => CountInv')
<1>1. ASSUME NEW k \in Keys, NEW v \in Values, SetHeader(k, v)
      PROVE  SafeInv' /\ (MaxLen < Width /\ CountInv => CountInv')
    BY <1>1, SetKeeps
<1>2. ASSUME NEW k \in Keys, NEW v \in Values, AddHeader(k, v)
      PROVE  SafeInv' /\ (MaxLen < Width /\ CountInv => CountInv')
    BY <1>2, AddKeeps
<1>3. ASSUME NEW k \in Nulls, RemoveHeader(k)
      PROVE  SafeInv' /\ CountInv'
    BY <1>3, RemoveKeeps
<1>4. CASE ClearHeaders
  <2>1. 0 \in 0..(Width - 1)
    BY Wide
  <2>2. QED
    BY <1>4, <2>1, HeaderAssumption DEF ClearHeaders, SafeInv, TypeOK, WalkIsSafe, CountInv
<1>5. CASE UNCHANGED vars
    BY <1>5 DEF vars, SafeInv, TypeOK, WalkIsSafe, CountInv
<1>6. QED
    BY <1>1, <1>2, <1>3, <1>4, <1>5 DEF Next

\* A new handle has no request headers.
LEMMA Start == Init => IInv
<1>1. 0 \in 0..(Width - 1)
    BY Wide
<1>2. QED
    BY <1>1, HeaderAssumption DEF Init, IInv, SafeInv, TypeOK, WalkIsSafe, CountInv

\* With everything counted and nothing disabled both readers see the list as it is sent
\* (outHeader, getRequestHeaders).
LEMMA Reading == IInv => ReadersAgree
<1>1. SUFFICES ASSUME IInv, plain
               PROVE  /\ GetRequestHeaders = Sent
                      /\ \A k \in Keys : OutHeader(k) # Nothing
                                             <=> \E i \in 1..Len(Sent) : Sent[i].key = k
    BY DEF IInv, SafeInv, ReadersAgree
<1>2. /\ outHeaders \in Seq(Entry) /\ Len(outHeaders) \in Nat
      /\ outHeaderCount = Len(outHeaders)
      /\ \A i \in 1..Len(outHeaders) : Real(outHeaders[i])
    BY <1>1 DEF IInv, SafeInv, TypeOK, CountInv
<1>3. SubSeq(outHeaders, 1, Len(outHeaders)) = outHeaders
    BY <1>2
<1>4. GetRequestHeaders = Sent
    BY <1>2, <1>3 DEF GetRequestHeaders, Sent
<1>5. Sent = outHeaders
  <2>1. 1..Len(outHeaders) \subseteq {i \in 1..Len(outHeaders) : Real(outHeaders[i])}
    BY <1>2
  <2>2. QED
    BY <1>2, <2>1, KeptAll DEF Sent, OnlyReal
<1>6. ASSUME NEW k \in Keys
      PROVE  OutHeader(k) # Nothing <=> \E i \in 1..Len(outHeaders) : outHeaders[i].key = k
  <2>1. PICK hits : hits = {i \in 1..Len(outHeaders) : outHeaders[i].key = k}
    OBVIOUS
  <2>2. CASE hits = {}
    BY <2>1, <2>2 DEF OutHeader
  <2>3. CASE hits # {}
    <3>1. \E i \in hits : \A j \in hits : i <= j
      <4>1. hits \in SUBSET Nat
        BY <1>2, <2>1
      <4>2. QED
        BY <2>3, <4>1, Least
    <3>2. PICK i : i = CHOOSE x \in hits : \A y \in hits : x <= y
      OBVIOUS
    <3>3. i \in hits
      BY <3>1, <3>2, Zenon
    <3>4. outHeaders[i] \in Entry /\ Real(outHeaders[i])
      BY <1>2, <2>1, <3>3
    <3>5. outHeaders[i].val # Nothing
      BY <3>4, HeaderAssumption DEF Entry, Real
    <3>6. outHeaderCount # 0
      BY <1>2, <2>1, <3>3
    <3>7. OutHeader(k) = outHeaders[i].val
      BY <2>1, <2>3, <3>2, <3>6, Zenon DEF OutHeader
    <3>8. QED
      BY <2>1, <3>3, <3>5, <3>7
  <2>4. QED
    BY <2>2, <2>3
<1>7. QED
    BY <1>4, <1>5, <1>6

\* The do ... while of outHeader has a first entry to look at, after any calls (WalkIsSafe).
THEOREM WalkHasAnEntry == Spec => []WalkIsSafe
<1>1. SafeInv /\ [Next]_vars => SafeInv'
    BY Step
<1>2. SafeInv => WalkIsSafe
    BY DEF SafeInv
<1>3. Init => SafeInv
    BY Start DEF IInv
<1>4. QED
    BY <1>1, <1>2, <1>3, PTL DEF Spec

\* The readers give the fields that are sent, in order, after any sets, adds and clears
\* that take no name for another, while there are fewer than 65536 (ReadersAgree).
THEOREM ReadersTellWhatIsSent ==
    ASSUME MaxLen < Width
    PROVE  Spec => []ReadersAgree
<1>1. IInv /\ [Next]_vars => IInv'
    BY Step DEF IInv
<1>2. QED
    BY <1>1, Start, Reading, PTL DEF Spec

-----------------------------------------------------------------------------
(* What CurlHttp documents *)

\* q is what comes before its entry m, that entry and what follows, and putting e
\* there changes nothing else.
Splits(q, m, e) ==
    \E p, r \in Seq(Entry) :
       /\ Len(p) = m - 1 /\ Len(r) = Len(q) - m
       /\ q = Append(p, q[m]) \o r
       /\ [q EXCEPT ![m] = e] = Append(p, e) \o r
       /\ \A i \in 1..m - 1 : p[i] = q[i]
       /\ \A i \in 1..Len(q) - m : r[i] = q[m + i]

\* Each sequence can be split at each of its entries.
LEMMA SplitAt ==
    ASSUME NEW q \in Seq(Entry), NEW m \in 1..Len(q), NEW e \in Entry
    PROVE  Splits(q, m, e)
<1>0. m \in Nat /\ Len(q) \in Nat /\ m <= Len(q) /\ 1 <= m /\ \A i \in 1..Len(q) : q[i] \in Entry
    OBVIOUS
<1>1. PICK p : p = SubSeq(q, 1, m - 1)
    OBVIOUS
<1>2. PICK r : r = SubSeq(q, m + 1, Len(q))
    OBVIOUS
<1>3. p \in Seq(Entry) /\ Len(p) = m - 1 /\ \A i \in 1..m - 1 : p[i] = q[i]
    BY <1>0, <1>1
<1>4. r \in Seq(Entry) /\ Len(r) = Len(q) - m /\ \A i \in 1..Len(q) - m : r[i] = q[m + i]
    BY <1>0, <1>2
<1>5. ASSUME NEW x \in Entry
      PROVE  /\ Append(p, x) \o r \in Seq(Entry) /\ Len(Append(p, x) \o r) = Len(q)
             /\ \A i \in 1..Len(q) : (Append(p, x) \o r)[i] = IF i = m THEN x ELSE q[i]
  <2>1. PICK a : a = Append(p, x)
    OBVIOUS
  <2>2. a \in Seq(Entry) /\ Len(a) = m /\ a[m] = x /\ \A i \in 1..m - 1 : a[i] = q[i]
    BY <1>0, <1>3, <2>1, AppendProperties
  <2>3. /\ a \o r \in Seq(Entry) /\ Len(a \o r) = Len(a) + Len(r)
        /\ \A i \in 1..Len(a) + Len(r) : (a \o r)[i] = IF i <= Len(a) THEN a[i] ELSE r[i - Len(a)]
    BY <1>4, <2>2, ConcatProperties
  <2>4. ASSUME NEW i \in 1..Len(q)
        PROVE  (a \o r)[i] = IF i = m THEN x ELSE q[i]
    <3>1. (a \o r)[i] = IF i <= m THEN a[i] ELSE r[i - m]
      BY <1>0, <1>4, <2>2, <2>3
    <3>2. i > m => i - m \in 1..Len(q) - m /\ r[i - m] = q[i]
      BY <1>0, <1>4
    <3>3. i < m => i \in 1..m - 1
      BY <1>0
    <3>4. QED
      BY <1>0, <2>2, <3>1, <3>2, <3>3
  <2>5. Len(a \o r) = Len(q)
    BY <1>0, <1>4, <2>2, <2>3
  <2>6. QED
    BY <2>1, <2>3, <2>4, <2>5
<1>6. q = Append(p, q[m]) \o r
  <2>1. q[m] \in Entry
    BY <1>0
  <2>2. PICK s : s = Append(p, q[m]) \o r
    OBVIOUS
  <2>3. s \in Seq(Entry) /\ Len(s) = Len(q) /\ \A i \in 1..Len(q) : s[i] = q[i]
    BY <1>5, <2>1, <2>2
  <2>4. s = q
    BY <2>3, SeqEqual
  <2>5. QED
    BY <2>2, <2>4
<1>7. [q EXCEPT ![m] = e] = Append(p, e) \o r
  <2>1. PICK s : s = Append(p, e) \o r
    OBVIOUS
  <2>2. PICK t : t = [q EXCEPT ![m] = e]
    OBVIOUS
  <2>3. s \in Seq(Entry) /\ Len(s) = Len(q) /\ \A i \in 1..Len(q) : s[i] = IF i = m THEN e ELSE q[i]
    BY <1>5, <2>1
  <2>4. t \in Seq(Entry) /\ Len(t) = Len(q) /\ \A i \in 1..Len(q) : t[i] = IF i = m THEN e ELSE q[i]
    BY <2>2, ExceptSeq
  <2>5. s = t
    BY <2>3, <2>4, SeqEqual
  <2>6. QED
    BY <2>1, <2>2, <2>5
<1>8. QED
    BY <1>3, <1>4, <1>6, <1>7 DEF Splits

\* the entries that are sent
Reals == {e \in Entry : Real(e)}

\* A disabled entry is the first of its name.
FirstOfName(q) ==
    \A i, j \in 1..Len(q) : i < j /\ ~Real(q[j]) => q[i].key # q[j].key

StubInv == FirstOfName(outHeaders)

LEMMA SentAsOnly ==
    ASSUME NEW q \in Seq(Entry) PROVE OnlyReal(q) = Only(q, Reals)
<1>1. {i \in 1..Len(q) : Real(q[i])} = {i \in 1..Len(q) : q[i] \in Reals}
    BY DEF Reals
<1>2. QED
    BY <1>1 DEF OnlyReal, Only

\* An entry more that is sent, or whose name is new.
LEMMA FirstAppend ==
    ASSUME NEW q \in Seq(Entry), NEW e \in Entry
    PROVE  FirstOfName(Append(q, e)) <=>
              FirstOfName(q) /\ (Real(e) \/ \A i \in 1..Len(q) : q[i].key # e.key)
<1>1. PICK r : r = Append(q, e)
    OBVIOUS
<1>2. PICK n : n = Len(q)
    OBVIOUS
<1>3. n \in Nat /\ Len(r) = n + 1 /\ r[n + 1] = e /\ \A i \in 1..n : r[i] = q[i]
    BY <1>1, <1>2, EntryAdded
<1>4. FirstOfName(r) => FirstOfName(q) /\ (Real(e) \/ \A i \in 1..n : q[i].key # e.key)
  <2>1. SUFFICES ASSUME FirstOfName(r)
                 PROVE  FirstOfName(q) /\ (Real(e) \/ \A i \in 1..n : q[i].key # e.key)
    OBVIOUS
  <2>2. \A i \in 1..n : i \in 1..Len(r) /\ n + 1 \in 1..Len(r) /\ i < n + 1
    BY <1>3
  <2>3. FirstOfName(q)
    BY <1>2, <1>3, <2>1, <2>2 DEF FirstOfName
  <2>4. Real(e) \/ \A i \in 1..n : q[i].key # e.key
    BY <1>3, <2>1, <2>2 DEF FirstOfName
  <2>5. QED
    BY <2>3, <2>4
<1>5. FirstOfName(q) /\ (Real(e) \/ \A i \in 1..n : q[i].key # e.key) => FirstOfName(r)
  <2>1. SUFFICES ASSUME FirstOfName(q), Real(e) \/ \A i \in 1..n : q[i].key # e.key,
                        NEW i \in 1..Len(r), NEW j \in 1..Len(r), i < j, ~Real(r[j])
                 PROVE  r[i].key # r[j].key
    BY DEF FirstOfName
  <2>2. i \in 1..n
    BY <1>3, <2>1
  <2>3. CASE j = n + 1
    BY <1>3, <2>1, <2>2, <2>3
  <2>4. CASE j # n + 1
    <3>1. j \in 1..n
      BY <1>3, <2>1, <2>4
    <3>2. QED
      BY <1>2, <1>3, <2>1, <2>2, <3>1 DEF FirstOfName
  <2>5. QED
    BY <2>3, <2>4
<1>6. QED
    BY <1>1, <1>2, <1>4, <1>5

\* Dropping entries leaves it so.
LEMMA FirstOnly ==
    ASSUME NEW q \in Seq(Entry), FirstOfName(q), NEW A
    PROVE  FirstOfName(Only(q, A))
<1> DEFINE Stays(r) == FirstOfName(r) => FirstOfName(Only(r, A))
           T == {r \in Seq(Entry) : Stays(r)}
<1>1. <<>> \in T
  <2>1. <<>> \in Seq(Entry)
    OBVIOUS
  <2>2. QED
    BY <2>1, OnlyEmpty
<1>2. ASSUME NEW r \in Seq(Entry), NEW e \in Entry, FirstOfName(r) => FirstOfName(Only(r, A)),
             FirstOfName(Append(r, e))
      PROVE  FirstOfName(Only(Append(r, e), A))
  <2>1. FirstOfName(r) /\ (Real(e) \/ \A i \in 1..Len(r) : r[i].key # e.key)
    BY <1>2, FirstAppend
  <2>2. CASE e \in A
    <3>1. PICK o : o = Only(r, A)
      OBVIOUS
    <3>2. o \in Seq(Entry) /\ FirstOfName(o)
      BY <1>2, <2>1, <3>1, OnlyTyped
    <3>3. \A i \in 1..Len(o) : \E j \in 1..Len(r) : r[j] = o[i]
      BY <3>1, OnlyFrom
    <3>4. Real(e) \/ \A i \in 1..Len(o) : o[i].key # e.key
      BY <2>1, <3>3
    <3>5. FirstOfName(Append(o, e))
      BY <3>2, <3>4, FirstAppend
    <3>6. Only(Append(r, e), A) = Append(Only(r, A), e)
      BY <2>2, OnlyTakes
    <3>7. QED
      BY <3>1, <3>5, <3>6
  <2>3. CASE e \notin A
    <3>1. Only(Append(r, e), A) = Only(r, A)
      BY <2>3, OnlyDrops
    <3>2. QED
      BY <1>2, <2>1, <3>1
  <2>4. QED
    BY <2>2, <2>3
<1>3. ASSUME NEW r \in T, NEW e \in Entry
      PROVE  Append(r, e) \in T
  <2>1. Stays(r) => Stays(Append(r, e))
    BY <1>2
  <2> HIDE DEF Stays
  <2>2. Append(r, e) \in Seq(Entry)
    BY AppendProperties
  <2>3. QED
    BY <2>1, <2>2
<1>4. T = Seq(Entry)
  <2>1. T \in SUBSET Seq(Entry)
    OBVIOUS
  <2> HIDE DEF T
  <2>2. QED
    BY <1>1, <1>3, <2>1, GrowSeq
<1>5. QED
    BY <1>4

\* What is sent, as the list is changed.
LEMMA SentAppend ==
    ASSUME NEW q \in Seq(Entry), NEW e \in Entry
    PROVE  /\ Only(q, Reals) \in Seq(Entry)
           /\ Real(e) => Only(Append(q, e), Reals) = Append(Only(q, Reals), e)
           /\ ~Real(e) => Only(Append(q, e), Reals) = Only(q, Reals)
<1>1. e \in Reals <=> Real(e)
    BY DEF Reals
<1>2. QED
    BY <1>1, OnlyTyped, OnlyTakes, OnlyDrops

LEMMA HeaderConcat ==
    \A p, r \in Seq(Entry) : Only(p \o r, Reals) = Only(p, Reals) \o Only(r, Reals)
    BY OnlyConcat

LEMMA SentAround ==
    ASSUME NEW p \in Seq(Entry), NEW r \in Seq(Entry), NEW y \in Entry
    PROVE  /\ Real(y) => Only(Append(p, y) \o r, Reals) = Append(Only(p, Reals), y) \o Only(r, Reals)
           /\ ~Real(y) => Only(Append(p, y) \o r, Reals) = Only(p, Reals) \o Only(r, Reals)
<1>1. PICK a : a = Append(p, y)
    OBVIOUS
<1>2. a \in Seq(Entry)
    BY <1>1, AppendProperties
<1>3. \A q \in Seq(Entry) : Only(a \o q, Reals) = Only(a, Reals) \o Only(q, Reals)
    BY <1>2, HeaderConcat
<1>4. Only(a \o r, Reals) = Only(a, Reals) \o Only(r, Reals)
    BY <1>3
<1>5. /\ Real(y) => Only(a, Reals) = Append(Only(p, Reals), y)
      /\ ~Real(y) => Only(a, Reals) = Only(p, Reals)
    BY <1>1, SentAppend
<1>6. QED
    BY <1>1, <1>4, <1>5

LEMMA SentNow == ASSUME TypeOK PROVE Sent = Only(outHeaders, Reals) /\ Sent \in Seq(Entry)
<1>1. outHeaders \in Seq(Entry)
    BY DEF TypeOK
<1>2. QED
    BY <1>1, SentAsOnly, OnlyTyped DEF Sent

LEMMA SentThen == ASSUME TypeOK' PROVE Sent' = Only(outHeaders', Reals)
<1>1. outHeaders' \in Seq(Entry)
    BY DEF TypeOK
<1>2. Sent' = OnlyReal(outHeaders')
    BY DEF Sent
<1>3. PICK q : q = outHeaders'
    OBVIOUS
<1>4. q \in Seq(Entry)
    BY <1>1, <1>3
<1>5. OnlyReal(q) = Only(q, Reals)
    BY <1>4, SentAsOnly
<1>6. QED
    BY <1>2, <1>3, <1>5

\* An entry that is sent comes from the list.
LEMMA SentFrom ==
    ASSUME NEW q \in Seq(Entry), NEW i \in 1..Len(Only(q, Reals))
    PROVE  \E j \in 1..Len(q) : q[j] = Only(q, Reals)[i] /\ Real(q[j])
<1>1. Only(q, Reals)[i] \in Reals /\ \E j \in 1..Len(q) : q[j] = Only(q, Reals)[i]
    BY OnlyFrom
<1>2. QED
    BY <1>1 DEF Reals

\* addHeader adds a field at the end.
LEMMA AddAdds ==
    ASSUME TypeOK, TypeOK', NEW k \in Keys, NEW v \in Values, AddHeader(k, v)
    PROVE  Contract!Add(k, v)
<1>1. PICK e : e = [key |-> k, val |-> v]
    OBVIOUS
<1>2. e \in Entry /\ Real(e)
    BY <1>1, ValueIsReal
<1>3. outHeaders' = Append(outHeaders, e) /\ outHeaders \in Seq(Entry)
    BY <1>1 DEF AddHeader, TypeOK
<1>4. Sent' = Append(Sent, e)
    BY <1>2, <1>3, SentNow, SentThen, SentAppend
<1>5. QED
    BY <1>1, <1>4 DEF Contract!Add

\* clearHeaders leaves nothing to send.
LEMMA ClearClears ==
    ASSUME TypeOK', ClearHeaders
    PROVE  Contract!Clear
<1>1. Sent' = <<>>
    BY SentThen, OnlyEmpty DEF ClearHeaders
<1>2. QED
    BY <1>1 DEF Contract!Clear

\* setHeader, where no other name matches, changes the last field of the name or adds
\* one.
LEMMA SetSets ==
    ASSUME TypeOK, TypeOK', StubInv, NEW k \in Keys, NEW v \in Values, SetHeader(k, v),
           ~Strays(k), ~Refills(k)
    PROVE  Contract!Set(k, v)
<1>1. PICK e : e = [key |-> k, val |-> v]
    OBVIOUS
<1>2. e \in Entry /\ Real(e) /\ e.key = k
    BY <1>1, ValueIsReal
<1>3. outHeaders \in Seq(Entry) /\ Len(outHeaders) \in Nat
    BY DEF TypeOK
<1>4. \A i \in 1..Len(outHeaders) : i \in Matching(k) <=> outHeaders[i].key = k
    BY DEF Strays, Matching, Matches
<1>5. Sent = Only(outHeaders, Reals) /\ Sent \in Seq(Entry) /\ Sent' = Only(outHeaders', Reals)
    BY SentNow, SentThen
<1>6. SUFFICES \/ Sent' = Append(Sent, e) /\ \A i \in 1..Len(Sent) : Sent[i].key # k
               \/ \E i \in 1..Len(Sent) :
                     /\ Sent[i].key = k /\ \A j \in 1..Len(Sent) : Sent[j].key = k => j <= i
                     /\ Sent' = [Sent EXCEPT ![i] = e]
    BY <1>1 DEF Contract!Set, Contract!Named
<1>7. CASE Matching(k) = {}
  <2>1. outHeaders' = Append(outHeaders, e)
    BY <1>1, <1>7 DEF SetHeader
  <2>2. Sent' = Append(Sent, e)
    BY <1>2, <1>3, <1>5, <2>1, SentAppend
  <2>3. \A i \in 1..Len(Sent) : Sent[i].key # k
    BY <1>3, <1>4, <1>5, <1>7, SentFrom
  <2>4. QED
    BY <2>2, <2>3
<1>8. CASE Matching(k) # {}
  <2>1. PICK m : m = LastMatch(k)
    OBVIOUS
  <2>2. m \in 1..Len(outHeaders) /\ m \in Matching(k) /\ m \in Nat
    BY <1>3, <1>8, <2>1, LastMatches
  <2>3. \A j \in Matching(k) : j <= m
    <3>1. \E i \in Matching(k) : \A j \in Matching(k) : j <= i
      <4>1. PICK S : S = Matching(k)
        OBVIOUS
      <4>2. S \in SUBSET (0..Len(outHeaders)) /\ S # {}
        BY <1>3, <1>8, <4>1 DEF Matching
      <4>3. \E i \in S : \A j \in S : j <= i
        BY <1>3, <4>2, Greatest
      <4>4. QED
        BY <4>1, <4>3
    <3>2. QED
      BY <2>1, <3>1, Zenon DEF LastMatch
  <2>4. outHeaders' = [outHeaders EXCEPT ![m] = e]
    BY <1>1, <1>8, <2>1 DEF SetHeader
  <2>5. PICK x : x = outHeaders[m]
    OBVIOUS
  <2>6. x \in Entry /\ x.key = k
    BY <1>3, <1>4, <2>2, <2>5
  <2>7. PICK p \in Seq(Entry), r \in Seq(Entry) :
              /\ Len(p) = m - 1 /\ Len(r) = Len(outHeaders) - m
              /\ outHeaders = Append(p, x) \o r /\ outHeaders' = Append(p, e) \o r
              /\ \A i \in 1..m - 1 : p[i] = outHeaders[i]
              /\ \A i \in 1..Len(outHeaders) - m : r[i] = outHeaders[m + i]
    <3>1. Splits(outHeaders, m, e)
      BY <1>2, <1>3, <2>2, SplitAt
    <3>2. QED
      BY <2>4, <2>5, <3>1 DEF Splits
  <2>8. PICK P : P = Only(p, Reals)
    OBVIOUS
  <2>9. PICK R : R = Only(r, Reals)
    OBVIOUS
  <2>10. P \in Seq(Entry) /\ R \in Seq(Entry) /\ Len(P) \in Nat /\ Len(R) \in Nat
    BY <2>8, <2>9, OnlyTyped
  <2>11. ASSUME NEW y \in Entry
         PROVE  /\ Real(y) => Only(Append(p, y) \o r, Reals) = Append(P, y) \o R
                /\ ~Real(y) => Only(Append(p, y) \o r, Reals) = P \o R
    BY <2>8, <2>9, SentAround
  <2>12. Sent' = Append(P, e) \o R
    BY <1>2, <1>5, <2>7, <2>11
  <2>13. \A i \in 1..Len(R) : R[i].key # k
    <3>1. \A i \in 1..Len(r) : r[i].key # k
      <4>1. TAKE i \in 1..Len(r)
      <4>2. i \in 1..Len(outHeaders) - m /\ m + i \in 1..Len(outHeaders) /\ m + i > m
        BY <1>3, <2>2, <2>7
      <4>3. m + i \notin Matching(k)
        BY <1>3, <2>2, <2>3, <4>2
      <4>4. QED
        BY <1>4, <2>7, <4>2, <4>3
    <3>2. QED
      BY <2>9, <3>1, SentFrom
  <2>14. CASE Real(x)
    <3>1. Sent = Append(P, x) \o R
      BY <1>5, <2>6, <2>7, <2>11, <2>14
    <3>2. PICK i : i = Len(P) + 1
      OBVIOUS
    <3>3. ASSUME NEW y \in Entry
          PROVE  /\ Append(P, y) \o R \in Seq(Entry)
                 /\ Len(Append(P, y) \o R) = i + Len(R)
                 /\ \A j \in 1..i + Len(R) : (Append(P, y) \o R)[j] =
                       IF j = i THEN y ELSE IF j < i THEN P[j] ELSE R[j - i]
      <4>1. PICK a : a = Append(P, y)
        OBVIOUS
      <4>2. a \in Seq(Entry) /\ Len(a) = i /\ a[i] = y /\ \A j \in 1..Len(P) : a[j] = P[j]
        BY <2>10, <3>2, <4>1, AppendProperties
      <4>3. /\ a \o R \in Seq(Entry) /\ Len(a \o R) = i + Len(R)
            /\ \A j \in 1..i + Len(R) : (a \o R)[j] = IF j <= i THEN a[j] ELSE R[j - i]
        BY <2>10, <4>2, ConcatProperties
      <4>4. \A j \in 1..i + Len(R) : j < i => j \in 1..Len(P)
        BY <2>10, <3>2
      <4>5. \A j \in 1..i + Len(R) : (a \o R)[j] =
                       IF j = i THEN y ELSE IF j < i THEN P[j] ELSE R[j - i]
        BY <2>10, <3>2, <4>2, <4>3, <4>4
      <4>6. QED
        BY <4>1, <4>3, <4>5
    <3>4. /\ Len(Sent) = i + Len(R)
          /\ \A j \in 1..Len(Sent) : Sent[j] = IF j = i THEN x ELSE IF j < i THEN P[j] ELSE R[j - i]
      BY <2>6, <3>1, <3>3
    <3>5. /\ Sent' \in Seq(Entry) /\ Len(Sent') = i + Len(R)
          /\ \A j \in 1..i + Len(R) : Sent'[j] = IF j = i THEN e ELSE IF j < i THEN P[j] ELSE R[j - i]
      BY <1>2, <2>12, <3>3
    <3>6. i \in 1..Len(Sent) /\ Sent[i].key = k
      BY <2>6, <2>10, <3>2, <3>4
    <3>7. ASSUME NEW j \in 1..Len(Sent), Sent[j].key = k
          PROVE  j <= i
      <4>1. SUFFICES ASSUME j > i
                     PROVE  FALSE
        BY <2>10, <3>2
      <4>2. j - i \in 1..Len(R) /\ Sent[j] = R[j - i]
        BY <2>10, <3>2, <3>4, <4>1
      <4>3. QED
        BY <2>13, <3>7, <4>2
    <3>8. Sent' = [Sent EXCEPT ![i] = e]
      <4>1. PICK t : t = [Sent EXCEPT ![i] = e]
        OBVIOUS
      <4>2. t \in Seq(Entry) /\ Len(t) = Len(Sent)
            /\ \A j \in 1..Len(Sent) : t[j] = IF j = i THEN e ELSE Sent[j]
        BY <1>2, <1>5, <3>6, <4>1, ExceptSeq
      <4>3. PICK s : s = Sent'
        OBVIOUS
      <4>4. s \in Seq(Entry) /\ Len(s) = Len(t) /\ \A j \in 1..Len(s) : s[j] = t[j]
        BY <3>4, <3>5, <4>2, <4>3
      <4>5. s = t
        BY <4>2, <4>4, SeqEqual
      <4>6. QED
        BY <4>1, <4>3, <4>5
    <3>9. QED
      BY <3>6, <3>7, <3>8
  <2>15. CASE ~Real(x)
    <3>1. \A i \in 1..Len(r) : ~Real(r[i])
      <4>1. TAKE i \in 1..Len(r)
      <4>2. i \in 1..Len(outHeaders) - m /\ m + i \in m..Len(outHeaders) /\ r[i] = outHeaders[m + i]
        BY <1>3, <2>2, <2>7
      <4>3. QED
        BY <1>8, <2>1, <2>5, <2>15, <4>2 DEF Refills
    <3>2. R = <<>>
      BY <2>9, <3>1, OnlyNone DEF Reals
    <3>3. P \o R = P /\ Append(P, e) \o R = Append(P, e)
      BY <1>2, <2>10, <3>2, AppendProperties, ConcatEmptySeq
    <3>4. Sent = P
      BY <1>5, <2>6, <2>7, <2>11, <2>15, <3>3
    <3>5. \A i \in 1..Len(p) : p[i].key # k
      <4>1. TAKE i \in 1..Len(p)
      <4>2. i \in 1..m - 1 /\ i \in 1..Len(outHeaders) /\ i < m
        BY <1>3, <2>2, <2>7
      <4>3. outHeaders[i].key # outHeaders[m].key
        BY <2>2, <2>5, <2>15, <4>2 DEF StubInv, FirstOfName
      <4>4. QED
        BY <2>5, <2>6, <2>7, <4>2, <4>3
    <3>6. \A i \in 1..Len(Sent) : Sent[i].key # k
      BY <2>8, <3>4, <3>5, SentFrom
    <3>7. QED
      BY <2>12, <3>3, <3>4, <3>6
  <2>16. QED
    BY <2>14, <2>15
<1>9. QED
    BY <1>7, <1>8

\* what setHeader with a null value keeps
Unmatched(k) == {e \in Entry : ~Matches(k, e)}

LEMMA UnlinkedAsOnly ==
    ASSUME TypeOK, NEW k
    PROVE  /\ 1 \in Matching(k) => Unlinked(k) = <<>>
           /\ 1 \notin Matching(k) => Unlinked(k) = Only(outHeaders, Unmatched(k))
<1>1. outHeaders \in Seq(Entry)
    BY DEF TypeOK
<1>2. 1..Len(outHeaders) \ Matching(k) = {i \in 1..Len(outHeaders) : outHeaders[i] \in Unmatched(k)}
    BY <1>1 DEF Matching, Unmatched
<1>3. QED
    BY <1>2 DEF Unlinked, Only

\* The two modules read the same subsequence.
LEMMA SameKept == ASSUME NEW q, NEW S PROVE Contract!Kept(q, S) = Kept(q, S)
    BY Zenon DEF Contract!Kept, Kept

\* setHeader with a null value, where no other name matches and the first entry does
\* not drop the others, leaves the fields of the other names.
LEMMA RemoveRemoves ==
    ASSUME TypeOK, TypeOK', NEW k \in Nulls, RemoveHeader(k), ~Strays(k), ~MeetsHead(k)
    PROVE  Contract!Remove(k)
<1> DEFINE Others == {e \in Entry : e.key # k}
<1>1. outHeaders \in Seq(Entry)
    BY DEF TypeOK
<1>2. PICK e : e = [key |-> k, val |-> Disabled]
    OBVIOUS
<1>3. e \in Entry /\ ~Real(e)
    BY <1>2, HeaderAssumption DEF Entry, Real
<1>4. PICK u : u = Unlinked(k)
    OBVIOUS
<1>5. u \in Seq(Entry) /\ outHeaders' = Append(u, e)
  <2>1. <<>> \in Seq(Entry)
    OBVIOUS
  <2>2. u \in Seq(Entry)
    BY <1>1, <1>4, <2>1, UnlinkedAsOnly, OnlyTyped
  <2>3. QED
    BY <1>2, <1>4, <2>2 DEF RemoveHeader, WithStub
<1>6. Sent' = Only(u, Reals)
    BY <1>3, <1>5, SentThen, SentAppend
<1>7. Sent = Only(outHeaders, Reals) /\ Sent \in Seq(Entry)
    BY SentNow
<1>8. SentBut(k) = Only(Sent, Others)
  <2>1. {i \in 1..Len(Sent) : Sent[i].key # k} = {i \in 1..Len(Sent) : Sent[i] \in Others}
    BY <1>7
  <2>2. QED
    BY <2>1 DEF SentBut, Only
<1>9. Sent' = SentBut(k)
  <2>1. CASE 1 \in Matching(k)
    <3>1. u = <<>> /\ SentBut(k) = <<>>
      BY <1>4, <2>1, UnlinkedAsOnly DEF MeetsHead
    <3>2. QED
      BY <1>6, <3>1, OnlyEmpty
  <2>2. CASE 1 \notin Matching(k)
    <3>1. u = Only(outHeaders, Unmatched(k))
      BY <1>4, <2>2, UnlinkedAsOnly
    <3>2. u = Only(outHeaders, Others)
      <4>1. {i \in 1..Len(outHeaders) : outHeaders[i] \in Unmatched(k)}
               = {i \in 1..Len(outHeaders) : outHeaders[i] \in Others}
        BY <1>1 DEF Strays, Matching, Matches, Unmatched
      <4>2. QED
        BY <3>1, <4>1 DEF Only
    <3> HIDE DEF Others
    <3>3. Only(Only(outHeaders, Others), Reals) = Only(outHeaders, Others \cap Reals)
      BY <1>1, OnlyTwice
    <3>4. Only(Only(outHeaders, Reals), Others) = Only(outHeaders, Reals \cap Others)
      BY <1>1, OnlyTwice
    <3>5. Others \cap Reals = Reals \cap Others
      OBVIOUS
    <3>6. QED
      BY <1>6, <1>7, <1>8, <3>2, <3>3, <3>4, <3>5
  <2>3. QED
    BY <2>1, <2>2
<1>10. 1..Len(Sent) \ Contract!Named(k) = {i \in 1..Len(Sent) : Sent[i].key # k}
    BY DEF Contract!Named
<1>11. Sent' = Contract!Kept(Sent, 1..Len(Sent) \ Contract!Named(k))
    BY <1>9, <1>10, SameKept DEF SentBut
<1>12. QED
    BY <1>11, Zenon DEF Contract!Remove

\* A disabled entry stays the first of its name.
LEMMA StubStep ==
    ASSUME TypeOK, TypeOK', StubInv, [Next]_vars
    PROVE  StubInv'
<1>1. outHeaders \in Seq(Entry) /\ Len(outHeaders) \in Nat
    BY DEF TypeOK
<1>2. ASSUME NEW e \in Entry, Real(e), outHeaders' = Append(outHeaders, e)
      PROVE  StubInv'
  <2>1. PICK t : t = Append(outHeaders, e)
    OBVIOUS
  <2>2. FirstOfName(t)
    BY <1>1, <1>2, <2>1, FirstAppend DEF StubInv
  <2>3. QED
    BY <1>2, <2>1, <2>2 DEF StubInv, FirstOfName
<1>3. ASSUME NEW k \in Keys, NEW v \in Values, SetHeader(k, v), Matching(k) # {}
      PROVE  StubInv'
  <2>1. PICK e : e = [key |-> k, val |-> v]
    OBVIOUS
  <2>2. e \in Entry /\ Real(e) /\ e.key = k
    BY <2>1, ValueIsReal
  <2>3. PICK m : m = LastMatch(k)
    OBVIOUS
  <2>4. m \in 1..Len(outHeaders) /\ m \in Matching(k) /\ m \in Nat
    BY <1>1, <1>3, <2>3, LastMatches
  <2>5. \A j \in Matching(k) : j <= m
    <3>1. \E i \in Matching(k) : \A j \in Matching(k) : j <= i
      <4>1. PICK S : S = Matching(k)
        OBVIOUS
      <4>2. S \in SUBSET (0..Len(outHeaders)) /\ S # {}
        BY <1>1, <1>3, <4>1 DEF Matching
      <4>3. \E i \in S : \A j \in S : j <= i
        BY <1>1, <4>2, Greatest
      <4>4. QED
        BY <4>1, <4>3
    <3>2. QED
      BY <2>3, <3>1, Zenon DEF LastMatch
  <2>6. PICK t : t = outHeaders'
    OBVIOUS
  <2>7. /\ Len(t) = Len(outHeaders)
        /\ \A i \in 1..Len(outHeaders) : t[i] = IF i = m THEN e ELSE outHeaders[i]
    <3>1. t = [outHeaders EXCEPT ![m] = e]
      BY <1>3, <2>1, <2>3, <2>6 DEF SetHeader
    <3>2. QED
      BY <1>1, <2>2, <2>4, <3>1, ExceptSeq
  <2>8. ASSUME NEW i \in 1..Len(outHeaders), NEW j \in 1..Len(outHeaders), i < j, ~Real(t[j])
        PROVE  t[i].key # t[j].key
    <3>1. j # m /\ t[j] = outHeaders[j] /\ outHeaders[i].key # outHeaders[j].key
      BY <2>2, <2>7, <2>8 DEF StubInv, FirstOfName
    <3>2. CASE i = m
      <4>1. j \notin Matching(k)
        BY <1>1, <2>4, <2>5, <2>8, <3>2
      <4>2. outHeaders[j].key # k
        BY <4>1 DEF Matching, Matches
      <4>3. QED
        BY <2>2, <2>7, <3>1, <3>2, <4>2
    <3>3. CASE i # m
      BY <2>7, <3>1, <3>3
    <3>4. QED
      BY <3>2, <3>3
  <2>9. FirstOfName(t)
    BY <2>7, <2>8 DEF FirstOfName
  <2>10. QED
    BY <2>6, <2>9 DEF StubInv, FirstOfName
<1>4. ASSUME NEW k \in Nulls, RemoveHeader(k)
      PROVE  StubInv'
  <2>1. PICK e : e = [key |-> k, val |-> Disabled]
    OBVIOUS
  <2>2. e \in Entry /\ e.key = k
    BY <2>1, HeaderAssumption DEF Entry
  <2>3. PICK u : u = Unlinked(k)
    OBVIOUS
  <2>4. u \in Seq(Entry) /\ FirstOfName(u) /\ \A i \in 1..Len(u) : u[i].key # k
    <3>1. CASE 1 \in Matching(k)
      <4>1. u = <<>>
        BY <2>3, <3>1, UnlinkedAsOnly
      <4>2. <<>> \in Seq(Entry) /\ Len(<<>>) = 0
        OBVIOUS
      <4>3. QED
        BY <4>1, <4>2 DEF FirstOfName
    <3>2. CASE 1 \notin Matching(k)
      <4>1. u = Only(outHeaders, Unmatched(k))
        BY <2>3, <3>2, UnlinkedAsOnly
      <4>2. u \in Seq(Entry) /\ FirstOfName(u)
        BY <1>1, <4>1, OnlyTyped, FirstOnly DEF StubInv
      <4>3. \A i \in 1..Len(u) : u[i] \in Unmatched(k)
        BY <1>1, <4>1, OnlyFrom
      <4>4. QED
        BY <4>2, <4>3 DEF Unmatched, Matches
    <3>3. QED
      BY <3>1, <3>2
  <2>5. outHeaders' = Append(u, e)
    BY <1>4, <2>1, <2>3 DEF RemoveHeader, WithStub
  <2>6. PICK t : t = Append(u, e)
    OBVIOUS
  <2>7. FirstOfName(t)
    BY <2>2, <2>4, <2>6, FirstAppend
  <2>8. QED
    BY <2>5, <2>6, <2>7 DEF StubInv, FirstOfName
<1>5. ASSUME NEW k \in Keys, NEW v \in Values,
             AddHeader(k, v) \/ (SetHeader(k, v) /\ Matching(k) = {})
      PROVE  StubInv'
  <2>1. PICK e : e = [key |-> k, val |-> v]
    OBVIOUS
  <2>2. e \in Entry /\ Real(e)
    BY <2>1, ValueIsReal
  <2>3. outHeaders' = Append(outHeaders, e)
    BY <1>5, <2>1 DEF AddHeader, SetHeader
  <2>4. QED
    BY <1>2, <2>2, <2>3
<1>6. CASE ClearHeaders
  <2>1. Len(<<>>) = 0
    OBVIOUS
  <2>2. QED
    BY <1>6, <2>1 DEF ClearHeaders, StubInv, FirstOfName
<1>7. CASE UNCHANGED vars
    BY <1>7 DEF vars, StubInv, FirstOfName
<1>8. QED
    BY <1>3, <1>4, <1>5, <1>6, <1>7 DEF Next

\* Every call does to the fields that are sent what CurlHttp documents of it, for any
\* names, prefixes and values and any calls before (ImplementsContract): what keeps a
\* set from splitting the fields of a name is that a disabled entry is the first of it.
THEOREM CallsAsDocumented == Spec => ImplementsContract
<1>1. SafeInv /\ StubInv /\ [Next]_vars => SafeInv' /\ StubInv'
    BY Step, StubStep DEF SafeInv
<1>2. Init => SafeInv /\ StubInv /\ Contract!Init
  <2>1. SUFFICES ASSUME Init
                 PROVE  SafeInv /\ StubInv /\ Contract!Init
    OBVIOUS
  <2>2. SafeInv /\ outHeaders = <<>> /\ Len(<<>>) = 0
    BY <2>1, Start DEF IInv, Init
  <2>3. StubInv
    BY <2>2 DEF StubInv, FirstOfName
  <2>4. Sent = <<>>
    BY <2>2, SentNow, OnlyEmpty DEF SafeInv
  <2>5. QED
    BY <2>2, <2>3, <2>4 DEF Contract!Init
<1>3. SafeInv /\ StubInv /\ SafeInv' => Promised
    BY AddAdds, SetSets, RemoveRemoves, ClearClears DEF SafeInv, Promised
<1>4. Spec => Contract!Init /\ [][Promised]_vars
    BY <1>1, <1>2, <1>3, PTL DEF Spec
<1>5. QED
    BY <1>4 DEF ImplementsContract

-----------------------------------------------------------------------------
(* The URL *)

Cells == Urls \union {NUL}

\* A function on 1..m is a sequence of m.
LEMMA FunctionIsSeq ==
    ASSUME NEW S, NEW m \in Nat, NEW g \in [1..m -> S]
    PROVE  g \in Seq(S) /\ Len(g) = m
    OBVIOUS

\* The greater of two numbers.
LEMMA MaxOfTwo ==
    ASSUME NEW x \in Int, NEW y \in Int
    PROVE  Max({x, y}) \in Int /\ Max({x, y}) >= x /\ Max({x, y}) >= y
<1>1. \E m \in {x, y} : \A n \in {x, y} : m >= n
    OBVIOUS
<1>2. PICK m : m = Max({x, y})
    OBVIOUS
<1>3. m \in {x, y} /\ \A n \in {x, y} : m >= n
    BY <1>1, <1>2, Zenon DEF Max
<1>4. QED
    BY <1>2, <1>3

\* The array has room after ensureBufferSpace, keeps its cells and is NUL behind them.
LEMMA RoomMade ==
    ASSUME NEW b \in Seq(Cells), NEW n \in 0..Len(b), NEW count \in Nat,
           NEW r, r = ensureBufferSpace(b, n, count)
    PROVE  /\ r \in Seq(Cells) /\ Len(r) >= n + count /\ Len(r) >= Len(b)
           /\ \A i \in 1..Len(r) : r[i] = IF i <= Len(b) THEN b[i] ELSE NUL
<1>1. Len(b) \in Nat /\ \A i \in 1..Len(b) : b[i] \in Cells
    OBVIOUS
<1>2. CASE n + count > Len(b)
  <2>1. PICK g : g = grow(Len(b), n, count)
    OBVIOUS
  <2>2. g \in Int /\ g >= n + count
    <3>1. PICK more : more = Max({(3 * Len(b)) \div 2, MinGrow})
      OBVIOUS
    <3>2. (3 * Len(b)) \div 2 \in Int /\ MinGrow \in Int
      BY <1>1, UrlAssumption
    <3>3. more \in Int
      BY <3>1, <3>2, MaxOfTwo
    <3>4. n + count \in Int /\ Len(b) + more \in Int
      BY <1>1, <3>3
    <3>5. g = Max({n + count, Len(b) + more})
      BY <2>1, <3>1 DEF grow
    <3>6. QED
      BY <3>4, <3>5, MaxOfTwo
  <2>3. g \in Nat /\ g >= Len(b)
    BY <1>1, <1>2, <2>2
  <2>4. r = [i \in 1..g |-> IF i <= Len(b) THEN b[i] ELSE NUL]
    BY <1>2, <2>1 DEF ensureBufferSpace, CopyOf
  <2>5. r \in [1..g -> Cells]
    BY <1>1, <2>3, <2>4 DEF Cells
  <2>6. r \in Seq(Cells) /\ Len(r) = g
    BY <2>3, <2>5, FunctionIsSeq
  <2>7. QED
    BY <2>2, <2>3, <2>4, <2>6
<1>3. CASE ~(n + count > Len(b))
  <2>1. r = b
    BY <1>3 DEF ensureBufferSpace
  <2>2. QED
    BY <1>1, <1>3, <2>1
<1>4. QED
    BY <1>2, <1>3

\* Writing changes the cells it covers.
LEMMA WrittenOver ==
    ASSUME NEW b \in Seq(Cells), NEW n \in Nat, NEW text \in Seq(Cells),
           NEW w, w = Written(b, n, text)
    PROVE  /\ w \in Seq(Cells) /\ Len(w) = Len(b)
           /\ \A i \in 1..Len(b) : w[i] = IF i - n \in 1..Len(text) THEN text[i - n] ELSE b[i]
<1>1. Len(b) \in Nat /\ \A i \in 1..Len(b) : b[i] \in Cells
    OBVIOUS
<1>2. \A i \in 1..Len(text) : text[i] \in Cells
    OBVIOUS
<1>3. w = [i \in 1..Len(b) |-> IF i - n \in 1..Len(text) THEN text[i - n] ELSE b[i]]
    BY DEF Written
<1>4. w \in [1..Len(b) -> Cells]
    BY <1>1, <1>2, <1>3
<1>5. w \in Seq(Cells) /\ Len(w) = Len(b)
    BY <1>1, <1>4, FunctionIsSeq
<1>6. QED
    BY <1>3, <1>5

\* The text of a URL is that URL in every cell.
LEMMA TextCells ==
    ASSUME NEW u \in Urls, NEW t, t = TextOf(u)
    PROVE  /\ t \in Seq(Urls) /\ t \in Seq(Cells)
           /\ Len(t) = UrlLength[u] /\ UrlLength[u] \in Nat \ {0}
           /\ \A i \in 1..Len(t) : t[i] = u
           /\ u # NUL
<1>1. UrlLength[u] \in Nat \ {0} /\ u # NUL
    BY UrlAssumption
<1>2. t = [i \in 1..UrlLength[u] |-> u]
    BY DEF TextOf
<1>3. t \in [1..UrlLength[u] -> Urls] /\ t \in [1..UrlLength[u] -> Cells]
    BY <1>2 DEF Cells
<1>4. t \in Seq(Urls) /\ t \in Seq(Cells) /\ Len(t) = UrlLength[u]
    BY <1>1, <1>3, FunctionIsSeq
<1>5. QED
    BY <1>1, <1>2, <1>4

\* A C string ends before the first NUL.
LEMMA FirstNul ==
    ASSUME NEW b \in Seq(Cells), NEW c, c = CString(b), NEW m, m = Len(c)
    PROVE  /\ m \in 0..Len(b) /\ c = SubSeq(b, 1, m)
           /\ \A i \in 1..m : b[i] # NUL
           /\ m < Len(b) => b[m + 1] = NUL
<1>1. Len(b) \in Nat
    OBVIOUS
<1>2. PICK S : S = {i - 1 : i \in {j \in 1..Len(b) : b[j] = NUL}} \union {Len(b)}
    OBVIOUS
<1>3. S \in SUBSET Nat /\ Len(b) \in S /\ S # {}
    BY <1>1, <1>2
<1>4. PICK n : n = Min(S)
    OBVIOUS
<1>5. n \in S /\ \A k \in S : n =< k
  <2>1. \E i \in S : \A j \in S : i <= j
    BY <1>3, Least
  <2>2. QED
    BY <1>4, <2>1, Zenon DEF Min
<1>6. n \in 0..Len(b)
    BY <1>1, <1>3, <1>5
<1>7. c = SubSeq(b, 1, n)
    BY <1>2, <1>4 DEF CString
<1>8. m = n
    BY <1>1, <1>6, <1>7
<1>9. ASSUME NEW i \in 1..n
      PROVE  b[i] # NUL
  <2>1. SUFFICES ASSUME b[i] = NUL
                 PROVE  FALSE
    OBVIOUS
  <2>2. i \in {j \in 1..Len(b) : b[j] = NUL}
    BY <1>1, <1>6, <2>1
  <2>3. i - 1 \in S
    BY <1>2, <2>2
  <2>4. QED
    BY <1>1, <1>5, <1>6, <2>3
<1>10. n < Len(b) => b[n + 1] = NUL
    BY <1>1, <1>2, <1>5
<1>11. QED
    BY <1>6, <1>7, <1>8, <1>9, <1>10

\* There is one end only.
LEMMA OneEnd ==
    ASSUME NEW b \in Seq(Cells), NEW n \in 0..Len(b),
           \A i \in 1..n : b[i] # NUL, n < Len(b) => b[n + 1] = NUL
    PROVE  Len(CString(b)) = n
<1>1. PICK m : m = Len(CString(b))
    OBVIOUS
<1>2. /\ m \in 0..Len(b)
      /\ \A i \in 1..m : b[i] # NUL
      /\ m < Len(b) => b[m + 1] = NUL
    BY <1>1, FirstNul
<1>3. Len(b) \in Nat
    OBVIOUS
<1>4. ~(m < n) /\ ~(n < m)
    BY <1>2, <1>3
<1>5. QED
    BY <1>1, <1>2, <1>3, <1>4

\* Each variable stays in its type.
UrlCells ==
    /\ buffer \in Seq(Cells) /\ Len(buffer) \in Nat
    /\ length \in 0..Len(buffer) /\ length \in Nat
    /\ wanted \in Seq(Urls)

UrlFlags == behind \in BOOLEAN /\ spoilt \in BOOLEAN /\ connected \in BOOLEAN

UrlTypes == UrlCells /\ UrlFlags

\* The text has no NUL in it; NULs are behind it as long as no shorter text was written over
\* a longer one; and it begins with what was wanted, and is that unless it is spoilt.
UrlInv ==
    /\ UrlTypes
    /\ \A i \in 1..length : buffer[i] # NUL
    /\ ~behind => \A i \in 1..Len(buffer) : i > length => buffer[i] = NUL
    /\ Len(wanted) <= length /\ \A i \in 1..Len(wanted) : wanted[i] = buffer[i]
    /\ ~spoilt => Len(wanted) = length

\* A text written at n, with the array grown for it.
LEMMA TextPut ==
    ASSUME UrlTypes, NEW n \in 0..length, NEW u \in Urls,
           NEW l, l = UrlLength[u],
           NEW w, w = Appended(n, TextOf(u))
    PROVE  /\ l \in Nat \ {0}
           /\ w \in Seq(Cells) /\ Len(w) \in Nat /\ n + l <= Len(w) /\ Len(buffer) <= Len(w)
           /\ \A i \in 1..Len(w) : w[i] = IF n < i /\ i <= n + l THEN u
                                          ELSE IF i <= Len(buffer) THEN buffer[i] ELSE NUL
<1>1. PICK t : t = TextOf(u)
    OBVIOUS
<1>2. /\ t \in Seq(Cells) /\ Len(t) = l /\ l \in Nat \ {0}
      /\ \A i \in 1..Len(t) : t[i] = u
    BY <1>1, TextCells
<1>3. PICK r : r = ensureBufferSpace(buffer, n, l)
    OBVIOUS
<1>4. /\ r \in Seq(Cells) /\ Len(r) >= n + l /\ Len(r) >= Len(buffer)
      /\ \A i \in 1..Len(r) : r[i] = IF i <= Len(buffer) THEN buffer[i] ELSE NUL
  <2>1. buffer \in Seq(Cells) /\ n \in 0..Len(buffer) /\ l \in Nat
    BY <1>2 DEF UrlTypes, UrlCells
  <2>2. QED
    BY <1>3, <2>1, RoomMade
<1>5. w = Written(r, n, t)
    BY <1>1, <1>2, <1>3 DEF Appended
<1>6. /\ w \in Seq(Cells) /\ Len(w) = Len(r)
      /\ \A i \in 1..Len(r) : w[i] = IF i - n \in 1..Len(t) THEN t[i - n] ELSE r[i]
  <2>1. n \in Nat
    BY DEF UrlTypes, UrlCells
  <2>2. QED
    BY SMTT(30), <1>2, <1>4, <1>5, <2>1, WrittenOver
<1>7. Len(r) \in Nat /\ n \in Nat
    BY <1>4 DEF UrlTypes, UrlCells
<1>8. ASSUME NEW i \in 1..Len(w)
      PROVE  w[i] = IF n < i /\ i <= n + l THEN u
                    ELSE IF i <= Len(buffer) THEN buffer[i] ELSE NUL
  <2>1. i - n \in 1..l <=> n < i /\ i <= n + l
    BY <1>2, <1>6, <1>7
  <2>2. QED
    BY <1>2, <1>4, <1>6, <2>1
<1>9. QED
    BY <1>2, <1>4, <1>6, <1>7, <1>8

\* append keeps the URL.
LEMMA AppendUrl ==
    ASSUME UrlInv, NEW u \in Urls, append(u)
    PROVE  UrlInv'
<1>0. UrlTypes
    BY DEF UrlInv
<1>1. PICK l : l = UrlLength[u]
    OBVIOUS
<1>2. PICK n : n = length
    OBVIOUS
<1>3. PICK w : w = Appended(n, TextOf(u))
    OBVIOUS
<1>4. /\ l \in Nat \ {0}
      /\ w \in Seq(Cells) /\ Len(w) \in Nat /\ n + l <= Len(w) /\ Len(buffer) <= Len(w)
      /\ \A i \in 1..Len(w) : w[i] = IF n < i /\ i <= n + l THEN u
                                     ELSE IF i <= Len(buffer) THEN buffer[i] ELSE NUL
  <2>1. n \in 0..length
    BY <1>0, <1>2 DEF UrlTypes, UrlCells
  <2>2. QED
    BY <1>0, <1>1, <1>3, <2>1, TextPut
<1>5. PICK t : t = TextOf(u)
    OBVIOUS
<1>6. t \in Seq(Urls) /\ Len(t) = l /\ u # NUL /\ \A i \in 1..Len(t) : t[i] = u
    BY <1>1, <1>5, TextCells
<1>7. /\ buffer' = w /\ length' = n + l
      /\ wanted' = IF spoilt THEN wanted ELSE wanted \o t
      /\ connected' = connected /\ behind' = behind /\ spoilt' = spoilt
    BY <1>1, <1>2, <1>3, <1>5 DEF append
<1>8. n \in 0..Len(buffer) /\ n \in Nat /\ Len(buffer) \in Nat
    BY <1>0, <1>2 DEF UrlTypes, UrlCells
<1>9. wanted' \in Seq(Urls)
  <2>1. wanted \o t \in Seq(Urls) /\ wanted \in Seq(Urls)
    BY <1>0, <1>6 DEF UrlTypes, UrlCells
  <2>2. QED
    BY <1>7, <2>1
<1>10. UrlTypes'
  <2>1. UrlCells'
    BY <1>0, <1>4, <1>7, <1>8, <1>9 DEF UrlTypes, UrlCells, Cells
  <2>2. UrlFlags'
    BY <1>0, <1>4, <1>7, <1>8, <1>9, Zenon DEF UrlTypes, UrlFlags
  <2>3. QED
    BY <2>1, <2>2 DEF UrlTypes
<1>11. \A i \in 1..length' : buffer'[i] # NUL
  <2>1. TAKE i \in 1..length'
  <2>2. i \in 1..Len(w) /\ (i \in 1..n \/ (n < i /\ i <= n + l))
    BY <1>4, <1>7, <1>8
  <2>3. QED
    BY <1>2, <1>4, <1>6, <1>7, <1>8, <2>2 DEF UrlInv
<1>12. ~behind' => \A i \in 1..Len(buffer') : i > length' => buffer'[i] = NUL
    BY <1>2, <1>4, <1>7, <1>8 DEF UrlInv
<1>13. CASE spoilt
  <2>1. wanted' = wanted /\ spoilt' /\ Len(wanted) <= n /\ Len(wanted) \in Nat
        /\ \A i \in 1..Len(wanted) : wanted[i] = buffer[i]
    BY <1>0, <1>2, <1>7, <1>13 DEF UrlInv, UrlTypes, UrlCells
  <2>2. ASSUME NEW i \in 1..Len(wanted)
        PROVE  wanted'[i] = buffer'[i]
    <3>1. i \in 1..Len(w) /\ i <= Len(buffer) /\ ~(n < i)
      BY <1>4, <1>8, <2>1
    <3>2. QED
      BY <1>4, <1>7, <2>1, <3>1
  <2>3. Len(wanted') <= length'
    BY <1>4, <1>7, <1>8, <2>1
  <2>4. QED
    BY <1>10, <1>11, <1>12, <2>1, <2>2, <2>3 DEF UrlInv
<1>14. CASE ~spoilt
  <2>1. wanted' = wanted \o t /\ Len(wanted) = n /\ \A i \in 1..n : wanted[i] = buffer[i]
    BY <1>2, <1>7, <1>14 DEF UrlInv
  <2>2. wanted \in Seq(Urls)
    BY <1>0 DEF UrlTypes, UrlCells
  <2>3. /\ Len(wanted') = n + l
        /\ \A i \in 1..n + l : wanted'[i] = IF i <= n THEN wanted[i] ELSE t[i - n]
    <3>1. /\ Len(wanted \o t) = Len(wanted) + Len(t)
          /\ \A i \in 1..Len(wanted) + Len(t) :
                (wanted \o t)[i] = IF i <= Len(wanted) THEN wanted[i] ELSE t[i - Len(wanted)]
      BY <1>6, <2>2, ConcatProperties
    <3>2. QED
      BY <1>6, <2>1, <3>1
  <2>4. ASSUME NEW i \in 1..n + l
        PROVE  wanted'[i] = buffer'[i]
    <3>1. CASE i <= n
      <4>1. i \in 1..n /\ i \in 1..Len(w) /\ i <= Len(buffer) /\ ~(n < i)
        BY <1>4, <1>8, <3>1
      <4>2. QED
        BY <1>4, <1>7, <2>1, <2>3, <3>1, <4>1
    <3>2. CASE ~(i <= n)
      <4>1. i - n \in 1..l /\ n < i /\ i <= n + l /\ i \in 1..Len(w)
        BY <1>4, <1>8, <3>2
      <4>2. QED
        BY <1>4, <1>6, <1>7, <2>3, <3>2, <4>1
    <3>3. QED
      BY <3>1, <3>2
  <2>5. Len(wanted') = length' /\ length' \in Nat
        /\ \A i \in 1..Len(wanted') : wanted'[i] = buffer'[i]
    BY <1>4, <1>7, <1>8, <2>3, <2>4
  <2>6. QED
    BY <1>10, <1>11, <1>12, <2>5 DEF UrlInv
<1>15. QED
    BY <1>13, <1>14

\* setUrlString replaces the URL.
LEMMA SetUrl ==
    ASSUME UrlInv, NEW u \in Urls, setUrlString(u)
    PROVE  UrlInv'
<1>0. UrlTypes
    BY DEF UrlInv
<1>1. PICK l : l = UrlLength[u]
    OBVIOUS
<1>2. PICK w : w = Appended(0, TextOf(u))
    OBVIOUS
<1>3. /\ l \in Nat \ {0}
      /\ w \in Seq(Cells) /\ Len(w) \in Nat /\ l <= Len(w) /\ Len(buffer) <= Len(w)
      /\ \A i \in 1..Len(w) : w[i] = IF i <= l THEN u
                                     ELSE IF i <= Len(buffer) THEN buffer[i] ELSE NUL
  <2>1. 0 \in 0..length
    BY <1>0 DEF UrlTypes, UrlCells
  <2>2. /\ l \in Nat \ {0}
        /\ w \in Seq(Cells) /\ Len(w) \in Nat /\ 0 + l <= Len(w) /\ Len(buffer) <= Len(w)
        /\ \A i \in 1..Len(w) : w[i] = IF 0 < i /\ i <= 0 + l THEN u
                                       ELSE IF i <= Len(buffer) THEN buffer[i] ELSE NUL
    BY <1>0, <1>1, <1>2, <2>1, TextPut
  <2>3. QED
    BY <2>2
<1>4. PICK t : t = TextOf(u)
    OBVIOUS
<1>5. t \in Seq(Urls) /\ Len(t) = l /\ u # NUL /\ \A i \in 1..Len(t) : t[i] = u
    BY <1>1, <1>4, TextCells
<1>6. /\ buffer' = w /\ length' = l /\ wanted' = t /\ spoilt' = FALSE
      /\ connected' = connected
      /\ behind' = (behind \/ l < length)
    BY <1>1, <1>2, <1>4 DEF setUrlString
<1>7. behind' \in BOOLEAN
    BY <1>6, Zenon
<1>8. UrlTypes'
  <2>1. UrlCells'
    BY <1>0, <1>3, <1>5, <1>6, <1>7 DEF UrlTypes, UrlCells, Cells
  <2>2. UrlFlags'
    BY <1>0, <1>3, <1>5, <1>6, <1>7, Zenon DEF UrlTypes, UrlFlags
  <2>3. QED
    BY <2>1, <2>2 DEF UrlTypes
<1>9. \A i \in 1..length' : buffer'[i] # NUL
    BY <1>3, <1>5, <1>6
<1>10. ~behind' => \A i \in 1..Len(buffer') : i > length' => buffer'[i] = NUL
  <2>1. ~behind' => ~behind /\ ~(l < length)
    BY <1>6, Zenon
  <2>2. QED
    BY <1>0, <1>3, <1>6, <2>1 DEF UrlInv, UrlTypes, UrlCells
<1>11. Len(wanted') = length' /\ length' \in Nat
       /\ \A i \in 1..Len(wanted') : wanted'[i] = buffer'[i]
    BY <1>3, <1>5, <1>6
<1>12. QED
    BY <1>8, <1>9, <1>10, <1>11 DEF UrlInv

\* clear leaves no text.
LEMMA ClearUrl ==
    ASSUME UrlInv, clear
    PROVE  UrlInv'
<1>0. UrlTypes
    BY DEF UrlInv
<1>1. /\ length' = 0 /\ wanted' = << >> /\ spoilt' = FALSE
      /\ connected' = connected /\ behind' = behind
      /\ buffer' = [i \in 1..Len(buffer) |-> IF i <= length THEN NUL ELSE buffer[i]]
    BY DEF clear, Clear
<1>2. buffer \in Seq(Cells) /\ Len(buffer) \in Nat /\ \A i \in 1..Len(buffer) : buffer[i] \in Cells
    BY <1>0 DEF UrlTypes, UrlCells
<1>3. buffer' \in [1..Len(buffer) -> Cells]
    BY <1>1, <1>2 DEF Cells
<1>4. buffer' \in Seq(Cells) /\ Len(buffer') = Len(buffer)
    BY <1>2, <1>3, FunctionIsSeq
<1>5. << >> \in Seq(Urls) /\ Len(<< >>) = 0
    OBVIOUS
<1>6. UrlTypes'
  <2>1. UrlCells'
    BY <1>0, <1>1, <1>2, <1>4, <1>5 DEF UrlTypes, UrlCells, Cells
  <2>2. UrlFlags'
    BY <1>0, <1>1, <1>2, <1>4, <1>5, Zenon DEF UrlTypes, UrlFlags
  <2>3. QED
    BY <2>1, <2>2 DEF UrlTypes
<1>7. ~behind' => \A i \in 1..Len(buffer') : i > length' => buffer'[i] = NUL
    BY <1>0, <1>1, <1>4 DEF UrlInv, UrlTypes, UrlCells
<1>8. \A i \in 1..length' : buffer'[i] # NUL
    BY <1>1
<1>9. Len(wanted') = length' /\ length' \in Nat
       /\ \A i \in 1..Len(wanted') : wanted'[i] = buffer'[i]
    BY <1>1, <1>5
<1>10. QED
    BY <1>6, <1>7, <1>8, <1>9 DEF UrlInv

\* release leaves no array.
LEMMA ReleaseUrl ==
    ASSUME UrlInv, release
    PROVE  UrlInv'
<1>0. UrlTypes
    BY DEF UrlInv
<1>1. /\ length' = 0 /\ wanted' = << >> /\ spoilt' = FALSE /\ buffer' = << >>
      /\ connected' = connected /\ behind' = FALSE
    BY DEF release
<1>2. << >> \in Seq(Urls) /\ Len(<< >>) = 0 /\ << >> \in Seq(Cells)
    OBVIOUS
<1>3. UrlTypes'
  <2>1. UrlCells'
    BY <1>0, <1>1, <1>2 DEF UrlTypes, UrlCells, Cells
  <2>2. UrlFlags'
    BY <1>0, <1>1, <1>2, Zenon DEF UrlTypes, UrlFlags
  <2>3. QED
    BY <2>1, <2>2 DEF UrlTypes
<1>4. QED
    BY <1>1, <1>2, <1>3 DEF UrlInv

\* A connect that leaves the array finds the text in it, or takes in what is behind.
LEMMA SameUrl ==
    ASSUME UrlInv, ConfigureSameUrl
    PROVE  UrlInv'
<1>0. UrlTypes
    BY DEF UrlInv
<1>1. PICK m : m = Len(CString(buffer))
    OBVIOUS
<1>2. /\ m \in 0..Len(buffer)
      /\ \A i \in 1..m : buffer[i] # NUL
      /\ m < Len(buffer) => buffer[m + 1] = NUL
    BY <1>0, <1>1, FirstNul DEF UrlTypes, UrlCells
<1>3. /\ length' = m /\ buffer' = buffer /\ behind' = behind /\ connected' \in BOOLEAN
      /\ spoilt' = (spoilt \/ (behind /\ m > length))
      /\ wanted' = wanted
    BY <1>1 DEF ConfigureSameUrl
<1>4. ~(m < length)
    BY <1>0, <1>2 DEF UrlInv, UrlTypes, UrlCells
<1>5. ~behind => m = length
    BY <1>0, <1>2, <1>4 DEF UrlInv, UrlTypes, UrlCells
<1>6. spoilt' \in BOOLEAN
    BY <1>3, Zenon
<1>7. UrlTypes'
  <2>1. UrlCells'
    BY <1>0, <1>2, <1>3, <1>6 DEF UrlTypes, UrlCells, Cells
  <2>2. UrlFlags'
    BY <1>0, <1>2, <1>3, <1>6, Zenon DEF UrlTypes, UrlFlags
  <2>3. QED
    BY <2>1, <2>2 DEF UrlTypes
<1>8. ~spoilt' => ~spoilt /\ m = length
  <2>1. ~spoilt' => ~spoilt /\ ~(behind /\ m > length)
    BY <1>3, Zenon
  <2>2. ~(behind /\ m > length) => m = length
    BY <1>0, <1>2, <1>4, <1>5 DEF UrlTypes, UrlCells
  <2>3. QED
    BY <2>1, <2>2, Zenon
<1>9. Len(wanted') <= length' /\ \A i \in 1..Len(wanted') : wanted'[i] = buffer'[i]
  <2>1. Len(wanted) \in Nat /\ length \in Nat /\ Len(wanted) <= length
        /\ \A i \in 1..Len(wanted) : wanted[i] = buffer[i]
    BY <1>0 DEF UrlInv, UrlTypes, UrlCells
  <2>2. QED
    BY <1>2, <1>3, <1>4, <2>1
<1>10. QED
    BY <1>2, <1>3, <1>5, <1>7, <1>8, <1>9 DEF UrlInv

\* The effective URL takes the place of the old one, with its end marked.
LEMMA RedirectedUrl ==
    ASSUME UrlInv, NEW u \in Urls, ConfigureRedirected(u)
    PROVE  UrlInv'
<1>0. UrlTypes
    BY DEF UrlInv
<1>1. PICK e : e = TextOf(u)
    OBVIOUS
<1>2. /\ e \in Seq(Urls) /\ e \in Seq(Cells) /\ Len(e) \in Nat \ {0}
      /\ \A i \in 1..Len(e) : e[i] = u
      /\ u # NUL
    BY <1>1, TextCells
<1>3. PICK w : w = Redirected(e)
    OBVIOUS
<1>4. buffer \in Seq(Cells) /\ Len(buffer) \in Nat /\ length \in 0..Len(buffer)
    BY <1>0 DEF UrlTypes, UrlCells
<1>5. /\ w \in Seq(Cells) /\ Len(w) \in Nat /\ Len(e) <= Len(w)
      /\ \A i \in 1..Len(e) : w[i] = u
      /\ Len(e) < Len(w) => w[Len(e) + 1] = NUL
      /\ Len(e) <= Len(buffer) => /\ Len(w) = Len(buffer)
                                  /\ \A i \in 1..Len(w) : i > Len(e) + 1 => w[i] = buffer[i]
      /\ Len(e) > Len(buffer) => Len(w) = Len(e)
  <2>1. CASE Len(e) > Len(buffer)
    <3>1. w = e
      BY <1>3, <2>1 DEF Redirected
    <3>2. QED
      BY <1>2, <1>4, <2>1, <3>1
  <2>2. CASE Len(e) < Len(buffer)
    <3>1. PICK t : t = Append(e, NUL)
      OBVIOUS
    <3>2. /\ t \in Seq(Cells) /\ Len(t) = Len(e) + 1
          /\ \A i \in 1..Len(e) : t[i] = u
          /\ t[Len(e) + 1] = NUL
      BY <1>2, <3>1 DEF Cells
    <3>3. w = Written(buffer, 0, t)
      BY <1>2, <1>3, <1>4, <2>2, <3>1 DEF Redirected
    <3>4. /\ w \in Seq(Cells) /\ Len(w) = Len(buffer)
          /\ \A i \in 1..Len(buffer) : w[i] = IF i - 0 \in 1..Len(t) THEN t[i - 0] ELSE buffer[i]
      BY <1>4, <3>2, <3>3, WrittenOver
    <3>5. \A i \in 1..Len(buffer) : w[i] = IF i <= Len(e) + 1 THEN t[i] ELSE buffer[i]
      BY <1>2, <1>4, <3>2, <3>4
    <3>6. \A i \in 1..Len(e) : w[i] = u
      <4>1. TAKE i \in 1..Len(e)
      <4>2. i \in 1..Len(buffer) /\ i <= Len(e) + 1
        BY <1>2, <1>4, <2>2
      <4>3. QED
        BY ONLY <3>2, <3>5, <4>1, <4>2
    <3>7. w[Len(e) + 1] = NUL
      BY <1>2, <1>4, <2>2, <3>2, <3>5
    <3>8. \A i \in 1..Len(w) : i > Len(e) + 1 => w[i] = buffer[i]
      BY <1>2, <1>4, <3>4, <3>5
    <3>9. Len(w) = Len(buffer) /\ Len(w) \in Nat /\ Len(e) <= Len(w) /\ ~(Len(e) > Len(buffer))
      BY <1>2, <1>4, <2>2, <3>4
    <3>10. w \in Seq(Cells)
      BY <3>4
    <3>11. QED
      BY ONLY <3>6, <3>7, <3>8, <3>9, <3>10
  <2>3. CASE Len(e) = Len(buffer)
    <3>1. w = Written(buffer, 0, e)
      BY <1>2, <1>3, <1>4, <2>3 DEF Redirected
    <3>2. /\ w \in Seq(Cells) /\ Len(w) = Len(buffer)
          /\ \A i \in 1..Len(buffer) : w[i] = IF i - 0 \in 1..Len(e) THEN e[i - 0] ELSE buffer[i]
      BY <1>2, <1>4, <3>1, WrittenOver
    <3>3. \A i \in 1..Len(e) : w[i] = u
      BY <1>2, <1>4, <2>3, <3>2
    <3>4. QED
      BY <1>2, <1>4, <2>3, <3>2, <3>3
  <2>4. QED
    BY <1>2, <1>4, <2>1, <2>2, <2>3
<1>6. Len(CString(w)) = Len(e)
  <2>1. PICK n : n = Len(e)
    OBVIOUS
  <2>2. n \in 0..Len(w) /\ (\A i \in 1..n : w[i] # NUL) /\ (n < Len(w) => w[n + 1] = NUL)
    BY <1>2, <1>5, <2>1
  <2>3. QED
    BY <1>5, <2>1, <2>2, OneEnd
<1>7. /\ buffer' = w /\ wanted' = e /\ spoilt' = FALSE /\ connected' \in BOOLEAN
      /\ behind' = (Len(e) <= Len(buffer) /\ (behind \/ Len(e) < length))
    BY <1>1, <1>3 DEF ConfigureRedirected
<1>8. length' = Len(e)
  <2>1. length' = Len(CString(buffer'))
    BY DEF ConfigureRedirected
  <2>2. buffer' = w
    BY <1>7
  <2>3. QED
    BY <1>6, <2>1, <2>2
<1>9. behind' \in BOOLEAN
    BY <1>7, Zenon
<1>10. UrlTypes'
  <2>1. UrlCells'
    BY <1>2, <1>5, <1>7, <1>8, <1>9 DEF UrlTypes, UrlCells, Cells
  <2>2. UrlFlags'
    BY <1>2, <1>5, <1>7, <1>8, <1>9, Zenon DEF UrlTypes, UrlFlags
  <2>3. QED
    BY <2>1, <2>2 DEF UrlTypes
<1>11. \A i \in 1..length' : buffer'[i] # NUL
    BY <1>2, <1>5, <1>7, <1>8
<1>12. ASSUME ~behind'
       PROVE  \A i \in 1..Len(buffer') : i > length' => buffer'[i] = NUL
  <2>1. CASE Len(e) > Len(buffer)
    BY <1>2, <1>5, <1>7, <1>8, <2>1
  <2>2. CASE Len(e) <= Len(buffer)
    <3>1. ~behind /\ ~(Len(e) < length)
      BY <1>7, <1>12, <2>2, Zenon
    <3>2. \A i \in 1..Len(buffer) : i > length => buffer[i] = NUL
      BY <3>1 DEF UrlInv
    <3>3. ASSUME NEW i \in 1..Len(w), i > Len(e)
          PROVE  w[i] = NUL
      <4>1. CASE i = Len(e) + 1
        BY <1>2, <1>5, <3>3, <4>1
      <4>2. CASE i # Len(e) + 1
        BY <1>2, <1>4, <1>5, <2>2, <3>1, <3>2, <3>3, <4>2
      <4>3. QED
        BY <4>1, <4>2
    <3>4. QED
      BY <1>7, <1>8, <3>3
  <2>3. QED
    BY <1>2, <1>4, <2>1, <2>2
<1>13. Len(wanted') = length' /\ length' \in Nat
       /\ \A i \in 1..Len(wanted') : wanted'[i] = buffer'[i]
    BY <1>2, <1>5, <1>7, <1>8
<1>14. QED
    BY <1>10, <1>11, <1>12, <1>13 DEF UrlInv

\* Every call keeps the URL.
LEMMA UrlStep ==
    ASSUME UrlInv, [UrlNext]_urlVars
    PROVE  UrlInv'
<1>1. ASSUME NEW u \in Urls, append(u) \/ setUrlString(u) \/ ConfigureRedirected(u)
      PROVE  UrlInv'
    BY <1>1, AppendUrl, SetUrl, RedirectedUrl
<1>2. CASE clear
    BY <1>2, ClearUrl
<1>3. CASE release
    BY <1>3, ReleaseUrl
<1>4. CASE ConfigureSameUrl
    BY <1>4, SameUrl
<1>5. CASE Configure \/ reset \/ UNCHANGED urlVars
  <2>1. buffer' = buffer /\ length' = length /\ wanted' = wanted /\ behind' = behind
        /\ spoilt' = spoilt
    BY <1>5 DEF Configure, reset, urlVars
  <2>2. connected' \in BOOLEAN
    <3>1. connected \in BOOLEAN /\ FALSE \in BOOLEAN
      BY Zenon DEF UrlInv, UrlTypes, UrlFlags
    <3>2. QED
      BY <1>5, <3>1 DEF Configure, reset, urlVars
  <2>3. UrlTypes'
    <3>1. UrlCells'
      BY <2>1 DEF UrlInv, UrlTypes, UrlCells
    <3>2. UrlFlags'
      BY <2>1, <2>2, Zenon DEF UrlInv, UrlTypes, UrlFlags
    <3>3. QED
      BY <3>1, <3>2 DEF UrlTypes
  <2>4. QED
    BY <2>1, <2>3 DEF UrlInv
<1>6. QED
    BY <1>1, <1>2, <1>3, <1>4, <1>5 DEF UrlNext

\* A new connection has no URL.
LEMMA UrlBegins == UrlInit => UrlInv
<1>1. << >> \in Seq(Urls) /\ Len(<< >>) = 0 /\ << >> \in Seq(Cells)
    OBVIOUS
<1>2. UrlInit => UrlCells
    BY <1>1 DEF UrlInit, UrlCells
<1>3. UrlInit => UrlFlags
    BY Zenon DEF UrlInit, UrlFlags
<1>4. QED
    BY <1>1, <1>2, <1>3 DEF UrlInit, UrlInv, UrlTypes

\* The text is what is shown, and what CURLOPT_URL is given.
LEMMA UrlRead == UrlInv => UrlKept
<1>1. SUFFICES ASSUME UrlInv
               PROVE  /\ Requested = Text
                      /\ Len(wanted) <= length /\ SubSeq(Text, 1, Len(wanted)) = wanted
                      /\ ~spoilt => Text = wanted
  <2>1. UrlInv => UrlTypeOK
    <3>1. UrlFlags => {connected, behind, spoilt} \subseteq BOOLEAN
      BY Zenon DEF UrlFlags
    <3>2. QED
      BY <3>1 DEF UrlInv, UrlTypes, UrlCells, UrlTypeOK, Cells
  <2>2. QED
    BY <2>1, Zenon DEF UrlKept
<1>2. UrlTypes
    BY <1>1 DEF UrlInv
<1>3. PICK t : t = Text
    OBVIOUS
<1>4. PICK n : n = length
    OBVIOUS
<1>5. n \in Nat /\ t \in Seq(Cells) /\ Len(t) = n /\ \A i \in 1..n : t[i] = buffer[i]
    BY <1>2, <1>3, <1>4 DEF UrlTypes, UrlCells, Text
<1>6. Len(CString(t)) = n
  <2>1. n \in 0..Len(t) /\ (\A i \in 1..n : t[i] # NUL) /\ (n < Len(t) => t[n + 1] = NUL)
    BY <1>1, <1>4, <1>5 DEF UrlInv
  <2>2. QED
    BY <1>5, <2>1, OneEnd
<1>7. CString(t) = SubSeq(t, 1, n)
    BY <1>5, <1>6, FirstNul
<1>8. SubSeq(t, 1, n) = t
    BY <1>5
<1>9. PICK k : k = Len(wanted)
    OBVIOUS
<1>10. k \in Nat /\ k <= n /\ wanted \in Seq(Cells) /\ \A i \in 1..k : wanted[i] = t[i]
  <2>1. Urls \subseteq Cells /\ wanted \in Seq(Urls)
    BY <1>2 DEF UrlTypes, UrlCells, Cells
  <2>2. wanted \in Seq(Cells)
    BY <2>1, SeqMonotonic
  <2>3. QED
    BY <1>1, <1>4, <1>5, <1>9, <2>2 DEF UrlInv
<1>11. SubSeq(t, 1, k) = wanted
  <2>1. PICK r : r = SubSeq(t, 1, k)
    OBVIOUS
  <2>2. r \in Seq(Cells) /\ Len(r) = k /\ \A i \in 1..k : r[i] = t[i]
    BY <1>5, <1>10, <2>1
  <2>3. QED
    BY <1>9, <1>10, <2>1, <2>2, SeqEqual
<1>12. ~spoilt => k = n
    BY <1>1, <1>4, <1>9 DEF UrlInv
<1>13. ~spoilt => t = wanted
    BY <1>8, <1>11, <1>12
<1>14. QED
    BY <1>3, <1>4, <1>7, <1>8, <1>9, <1>10, <1>11, <1>13 DEF Requested

\* The URL that is shown is the one asked for, and begins with what was put together or
\* redirected to; it is just that unless a connect has taken in what a longer text had
\* left behind it, for any URLs, lengths and growth of the array (UrlKept).
THEOREM UrlIsKept ==
    UrlSpec => []UrlKept
<1>1. UrlInv /\ [UrlNext]_urlVars => UrlInv'
    BY UrlStep
<1>2. QED
    BY <1>1, UrlBegins, UrlRead, PTL DEF UrlSpec
=============================================================================
