--------------------------- MODULE ResponseProofs ---------------------------
(***************************************************************************)
(* Theorems about ResponseHeaders and HeaderListing for any names, any     *)
(* hash, with collisions or without, and any sizes: the types, that no     *)
(* reader reaches a freed block, that positions give the lines of the      *)
(* current response in order, names the last values under their hash, and  *)
(* the listing of all headers every line.                                  *)
(***************************************************************************)
EXTENDS HeaderListing, SequenceTheorems, FiniteSetTheorems, WellFoundedInduction,
        NaturalsInduction, TLAPS

Pair == [val : Block \union {Wild}, key : Block \union {Wild}]

NoPair == [val |-> Wild, key |-> Wild]

-----------------------------------------------------------------------------
\* Blocks are only added: a number that was a block remains one, and the next
\* number is one too (header_callback allocates, nothing renumbers).
LEMMA BlocksGrow ==
    ASSUME TypeOK, Len(blocks') = Len(blocks) + 1
    PROVE  /\ Len(blocks) \in Nat
           /\ Block' = 1..Len(blocks) + 1
           /\ Len(blocks) + 1 \in Block'
           /\ Block \subseteq Block'
<1>1. Len(blocks) \in Nat
    BY DEF TypeOK
<1>2. QED
    BY <1>1 DEF Block

\* A list of blocks that is typed by few blocks is typed by more.
LEMMA BlocksTyped ==
    ASSUME TypeOK, Len(blocks') = Len(blocks) + 1
    PROVE  /\ blocks \in Seq([name : Spellings \union Statuses, ref : Block' \union {Wild}])
           /\ arrived \in Seq(Block')
<1> DEFINE S == [name : Spellings \union Statuses, ref : Block \union {Wild}]
           T == [name : Spellings \union Statuses, ref : Block' \union {Wild}]
<1>1. S \subseteq T /\ Block \subseteq Block'
    BY BlocksGrow
<1>2. blocks \in Seq(S) /\ arrived \in Seq(Block)
    BY DEF TypeOK
<1> HIDE DEF S, T
<1>3. blocks \in Seq(T)
    BY <1>1, <1>2, SeqMonotonic
<1>4. arrived \in Seq(Block')
    BY <1>1, <1>2, SeqMonotonic
<1>5. QED
    BY <1>3, <1>4 DEF T

\* headers_ensure_capacity makes room: the array it leaves holds n pairs, and
\* no fewer than before.
LEMMA CapacityFits ==
    ASSUME headerBufSize \in Nat \ {0}, NEW n \in Nat
    PROVE  /\ Capacity(n) \in Nat \ {0}
           /\ Capacity(n) >= n
           /\ Capacity(n) >= headerBufSize
    BY DEF Capacity

\* Storing a pair changes its slot, keeps the others, and keeps the type of
\* the array (the end of header_callback).
LEMMA StoreTyped ==
    ASSUME TypeOK, NEW slot \in Nat, NEW n \in Nat, slot < n,
           NEW pair \in Pair', Block \subseteq Block',
           StorePair(slot, n, pair)
    PROVE  /\ headerBufSize' \in Nat \ {0}
           /\ headerBufSize' >= n /\ headerBufSize' >= headerBufSize
           /\ headerPairs' \in [0..headerBufSize' - 1 -> Pair']
           /\ headerPairs'[slot] = pair
           /\ \A i \in 0..headerBufSize - 1 :
                 i # slot => headerPairs'[i] = headerPairs[i]
<1>1. headerBufSize' = Capacity(n) /\ Capacity(n) \in Nat \ {0}
      /\ Capacity(n) >= n /\ Capacity(n) >= headerBufSize
    BY CapacityFits DEF StorePair, TypeOK
<1>2. headerBufSize \in Nat /\ \A i \in 0..headerBufSize - 1 : headerPairs[i] \in Pair'
  <2>1. Pair \subseteq Pair'
    BY DEF Pair
  <2>2. QED
    BY <2>1 DEF TypeOK, Pair
<1>3. NoPair \in Pair'
    BY DEF Pair, NoPair
<1>4. \A i \in 0..Capacity(n) - 1 :
          /\ i \in Int
          /\ headerPairs'[i] = IF i = slot THEN pair
                               ELSE IF i < headerBufSize THEN headerPairs[i]
                               ELSE NoPair
    BY <1>1 DEF StorePair, NoPair
<1>5. \A i \in 0..Capacity(n) - 1 : headerPairs'[i] \in Pair'
  <2>1. TAKE i \in 0..Capacity(n) - 1
  <2>2. i < headerBufSize => i \in 0..headerBufSize - 1
    BY <1>1, <1>2
  <2>3. QED
    BY <1>2, <1>3, <1>4, <2>2
<1>6. headerPairs' = [i \in 0..Capacity(n) - 1 |-> headerPairs'[i]]
    BY DEF StorePair
<1>7. headerPairs' \in [0..headerBufSize' - 1 -> Pair']
    BY <1>1, <1>5, <1>6
<1>8. slot \in 0..Capacity(n) - 1
    BY <1>1
<1>9. ASSUME NEW i \in 0..headerBufSize - 1, i # slot
      PROVE  headerPairs'[i] = headerPairs[i]
    BY <1>1, <1>2, <1>4, <1>9
<1>10. QED
    BY <1>1, <1>4, <1>7, <1>8, <1>9

\* Entering a block at the end of headerPairs keeps the types (the last lines
\* of header_callback for a header).
LEMMA AppendTyped ==
    ASSUME TypeOK, NEW b, b = Len(blocks) + 1, NEW key \in Block',
           Len(blocks') = Len(blocks) + 1, AppendPair(b, key)
    PROVE  /\ headerBufSize' \in Nat \ {0} /\ headerPairCount' \in 0..headerBufSize'
           /\ headerPairs' \in [0..headerBufSize' - 1 -> Pair']
           /\ freed' \subseteq Block' \union {Wild}
           /\ seenEnd' \in BOOLEAN
           /\ arrived' \in Seq(Block')
<1>1. Block \subseteq Block' /\ b \in Block'
    BY BlocksGrow
<1>2. [val |-> b, key |-> key] \in Pair'
    BY <1>1 DEF Pair
<1>3. headerPairCount \in Nat /\ headerPairCount + 1 \in Nat
      /\ headerPairCount < headerPairCount + 1
    BY DEF TypeOK
<1>4. /\ headerBufSize' \in Nat \ {0} /\ headerBufSize' >= headerPairCount + 1
      /\ headerPairs' \in [0..headerBufSize' - 1 -> Pair']
    BY <1>1, <1>2, <1>3, StoreTyped DEF AppendPair
<1>5. headerPairCount' \in 0..headerBufSize'
    BY <1>3, <1>4 DEF AppendPair
<1>6. freed' \subseteq Block' \union {Wild} /\ seenEnd' \in BOOLEAN
    BY <1>1 DEF AppendPair, TypeOK
<1>7. arrived \in Seq(Block')
    BY BlocksTyped
<1>8. arrived' \in Seq(Block')
    BY <1>1, <1>7 DEF AppendPair
<1>9. QED
    BY <1>4, <1>5, <1>6, <1>8

\* Appending to a sequence, as blocks and arrived grow.
LEMMA AppendedAt ==
    ASSUME NEW S, NEW q \in Seq(S), NEW e
    PROVE  /\ Len(Append(q, e)) = Len(q) + 1
           /\ Append(q, e)[Len(q) + 1] = e
           /\ \A i \in 1..Len(q) : Append(q, e)[i] = q[i]
    OBVIOUS

\* Once a header has been entered the response is not empty.
LEMMA NotEmpty ==
    ASSUME TypeOK, NEW b, arrived' = Append(arrived, b)
    PROVE  arrived' # <<>>
<1>1. arrived \in Seq(Block) /\ Len(arrived) \in Nat
    BY DEF TypeOK
<1>2. Len(arrived') = Len(arrived) + 1
    BY <1>1, AppendedAt
<1>3. Len(arrived') # 0
    BY <1>1, <1>2
<1>4. QED
    BY <1>3

\* releaseHeaders looks at slots of the array only.
LEMMA ReleasedTyped ==
    ASSUME TypeOK
    PROVE  Released \subseteq Block \union {Wild}
<1>1. SUFFICES ASSUME NEW j \in 0..headerPairCount - 1
               PROVE  headerPairs[j].val \in Block \union {Wild}
    BY DEF Released
<1>2. j \in 0..headerBufSize - 1
    BY DEF TypeOK
<1>3. QED
    BY <1>2 DEF TypeOK

-----------------------------------------------------------------------------
\* Where a status line is due that clears nothing, nothing is counted.
StartInv == arrived = <<>> /\ ~seenEnd => headerPairCount = 0

\* A status line keeps the types and leaves no more than its own slot
\* (header_callback, releaseHeaders, hashmapClear).
LEMMA StatusTyped ==
    ASSUME TypeOK, StartInv, NEW s \in Statuses, StatusLine(s)
    PROVE  TypeOK' /\ StartInv' /\ headerPairCount' = 1
<1>1. Len(blocks') = Len(blocks) + 1
    BY DEF StatusLine, TypeOK
<1>2. Block \subseteq Block' /\ Len(blocks) + 1 \in Block' /\ Len(blocks) \in Nat
    BY <1>1, BlocksGrow
<1>3. PICK c : c = Len(blocks) + 1
    OBVIOUS
<1>4. [val |-> c, key |-> c] \in Pair'
    BY <1>2, <1>3 DEF Pair
<1>5. StorePair(0, 1, [val |-> c, key |-> c])
    BY <1>3 DEF StatusLine
<1>6. /\ headerBufSize' \in Nat \ {0}
      /\ headerBufSize' >= 1
      /\ headerPairs' \in [0..headerBufSize' - 1 -> Pair']
    BY <1>2, <1>4, <1>5, StoreTyped
<1>7. headerPairCount' = 1
    BY DEF StatusLine, StartInv, TypeOK
<1>8. headerPairCount' \in 0..headerBufSize'
    BY <1>6, <1>7
<1>9. blocks' \in Seq([name : Spellings \union Statuses, ref : Block' \union {Wild}])
  <2>1. blocks \in Seq([name : Spellings \union Statuses, ref : Block' \union {Wild}])
    BY <1>1, BlocksTyped
  <2>2. [name |-> s, ref |-> Wild] \in [name : Spellings \union Statuses, ref : Block' \union {Wild}]
    OBVIOUS
  <2>3. blocks' = Append(blocks, [name |-> s, ref |-> Wild])
    BY DEF StatusLine
  <2>4. QED
    BY <2>1, <2>2, <2>3
<1>10. /\ DOMAIN headers' \subseteq {Hash[t] : t \in Spellings}
       /\ headers' \in [DOMAIN headers' -> [key : Block', value : Block']]
  <2>1. headers' = headers \/ headers' = NoEntries
    BY DEF StatusLine
  <2>2. CASE headers' = headers
    BY <1>2, <2>2 DEF TypeOK
  <2>3. CASE headers' = NoEntries
    BY <2>3 DEF NoEntries
  <2>4. QED
    BY <2>1, <2>2, <2>3
<1>11. freed' \subseteq Block' \union {Wild}
    BY <1>2, ReleasedTyped DEF StatusLine, TypeOK
<1>12. seenEnd' = FALSE /\ arrived' = <<c>> /\ arrived' \in Seq(Block')
    BY <1>2, <1>3 DEF StatusLine
<1>13. StartInv'
    BY <1>12 DEF StartInv
<1>14. QED
    BY <1>6, <1>7, <1>8, <1>9, <1>10, <1>11, <1>12, <1>13 DEF TypeOK, Pair

\* The first header of a name keeps the types (header_callback, hashmapPut).
LEMMA FirstTyped ==
    ASSUME TypeOK, NEW s \in Spellings, FirstOfName(s)
    PROVE  TypeOK'
<1>1. Len(blocks') = Len(blocks) + 1
    BY DEF FirstOfName, TypeOK
<1>2. Block \subseteq Block' /\ Len(blocks) + 1 \in Block' /\ Len(blocks) \in Nat
    BY <1>1, BlocksGrow
<1>3. PICK c : c = Len(blocks) + 1
    OBVIOUS
<1>4. AppendPair(c, c) /\ c \in Block'
    BY <1>2, <1>3 DEF FirstOfName
<1>5. /\ headerBufSize' \in Nat \ {0} /\ headerPairCount' \in 0..headerBufSize'
      /\ headerPairs' \in [0..headerBufSize' - 1 -> Pair']
      /\ freed' \subseteq Block' \union {Wild}
      /\ seenEnd' \in BOOLEAN
      /\ arrived' \in Seq(Block')
    BY <1>1, <1>3, <1>4, AppendTyped
<1>6. blocks' \in Seq([name : Spellings \union Statuses, ref : Block' \union {Wild}])
  <2>1. blocks \in Seq([name : Spellings \union Statuses, ref : Block' \union {Wild}])
    BY <1>1, BlocksTyped
  <2>2. [name |-> s, ref |-> c] \in [name : Spellings \union Statuses, ref : Block' \union {Wild}]
    BY <1>4
  <2>3. blocks' = Append(blocks, [name |-> s, ref |-> c])
    BY <1>3 DEF FirstOfName
  <2>4. QED
    BY <2>1, <2>2, <2>3
<1>7. headers' = [h \in DOMAIN headers \union {Hash[s]} |->
                     IF h = Hash[s] THEN [key |-> c, value |-> c] ELSE headers[h]]
    BY <1>3 DEF FirstOfName, WithEntry
<1>8. DOMAIN headers' \subseteq {Hash[t] : t \in Spellings}
    BY <1>7 DEF TypeOK
<1>9. headers' \in [DOMAIN headers' -> [key : Block', value : Block']]
  <2>1. \A h \in DOMAIN headers : headers[h] \in [key : Block', value : Block']
    BY <1>2 DEF TypeOK
  <2>2. QED
    BY <1>4, <1>7, <2>1
<1>10. QED
    BY <1>5, <1>6, <1>8, <1>9 DEF TypeOK, Pair

\* One more header of a name keeps the types (header_callback, the ring).
LEMMA AnotherTyped ==
    ASSUME TypeOK, NEW s \in Spellings, AnotherOfName(s)
    PROVE  TypeOK'
<1> DEFINE v == headers[Hash[s]].value
           k == headers[Hash[s]].key
           S == [name : Spellings \union Statuses, ref : Block' \union {Wild}]
<1>1. v \in Block /\ k \in Block
    BY DEF AnotherOfName, EntryOf, Found, TypeOK
<1>2. blocks[v] \in [name : Spellings \union Statuses, ref : Block \union {Wild}]
  <2> DEFINE R == [name : Spellings \union Statuses, ref : Block \union {Wild}]
  <2>1. blocks \in Seq(R)
    BY DEF TypeOK
  <2>2. v \in 1..Len(blocks)
    BY <1>1 DEF Block
  <2> HIDE DEF R, v
  <2>3. blocks[v] \in R
    BY <2>1, <2>2, ElementOfSeq
  <2>4. QED
    BY <2>3 DEF R
<1>3. PICK c : c = Len(blocks) + 1
    OBVIOUS
<1>4. PICK d : d = [blocks[v] EXCEPT !.ref = c]
    OBVIOUS
<1>5. PICK e : e = [name |-> s, ref |-> blocks[v].ref]
    OBVIOUS
<1>6. blocks' = Append([blocks EXCEPT ![v] = d], e)
    BY <1>3, <1>4, <1>5 DEF AnotherOfName, EntryOf
<1>7. blocks \in Seq([name : Spellings \union Statuses, ref : Block \union {Wild}])
    BY DEF TypeOK
<1>8. Len(blocks') = Len(blocks) + 1
    BY <1>6, <1>7
<1>9. Block \subseteq Block' /\ c \in Block' /\ Len(blocks) \in Nat
    BY <1>3, <1>8, BlocksGrow
<1>10. d \in S /\ e \in S
    BY <1>2, <1>4, <1>5, <1>9
<1>11. blocks \in Seq(S)
    BY <1>8, BlocksTyped
<1> HIDE DEF S
<1>12. blocks' \in Seq(S)
  <2>1. v \in 1..Len(blocks)
    BY <1>1 DEF Block
  <2>2. [blocks EXCEPT ![v] = d] \in Seq(S)
    BY <1>10, <1>11, <2>1, ExceptSeq
  <2>3. QED
    BY <1>6, <1>10, <2>2
<1>13. AppendPair(c, k) /\ k \in Block'
    BY <1>1, <1>3, <1>9 DEF AnotherOfName, EntryOf
<1>14. /\ headerBufSize' \in Nat \ {0} /\ headerPairCount' \in 0..headerBufSize'
       /\ headerPairs' \in [0..headerBufSize' - 1 -> Pair']
       /\ freed' \subseteq Block' \union {Wild}
       /\ seenEnd' \in BOOLEAN
       /\ arrived' \in Seq(Block')
  <2>1. PICK kk : kk = k
    OBVIOUS
  <2>2. QED
    BY <1>3, <1>8, <1>13, <2>1, AppendTyped
<1>15. headers' = [headers EXCEPT ![Hash[s]].value = c]
    BY <1>3 DEF AnotherOfName, EntryOf
<1>16. /\ DOMAIN headers' = DOMAIN headers
       /\ headers' \in [DOMAIN headers' -> [key : Block', value : Block']]
  <2>1. \A h \in DOMAIN headers : headers[h] \in [key : Block', value : Block']
    BY <1>9 DEF TypeOK
  <2>2. headers \in [DOMAIN headers -> [key : Block', value : Block']]
    BY <2>1 DEF TypeOK
  <2>3. QED
    BY <1>9, <1>15, <2>2
<1>17. DOMAIN headers' \subseteq {Hash[t] : t \in Spellings}
    BY <1>16 DEF TypeOK
<1>18. QED
    BY <1>12, <1>14, <1>16, <1>17 DEF TypeOK, Pair, S

\* Every step keeps the types.
LEMMA TypeStep ==
    ASSUME TypeOK, StartInv, [Next]_vars
    PROVE  TypeOK' /\ StartInv'
<1>1. ASSUME NEW s \in Statuses, StatusLine(s)
      PROVE  TypeOK' /\ StartInv'
    BY <1>1, StatusTyped
<1>2. ASSUME NEW s \in Spellings, FirstOfName(s)
      PROVE  TypeOK' /\ StartInv'
  <2>1. PICK c : c = Len(blocks) + 1
    OBVIOUS
  <2>2. arrived' = Append(arrived, c)
    BY <1>2, <2>1 DEF FirstOfName, AppendPair
  <2>3. arrived' # <<>>
    BY <2>2, NotEmpty
  <2>4. QED
    BY <1>2, <2>3, FirstTyped DEF StartInv
<1>3. ASSUME NEW s \in Spellings, AnotherOfName(s)
      PROVE  TypeOK' /\ StartInv'
  <2>1. PICK c : c = Len(blocks) + 1
    OBVIOUS
  <2>2. arrived' = Append(arrived, c)
    BY <1>3, <2>1 DEF AnotherOfName, AppendPair
  <2>3. arrived' # <<>>
    BY <2>2, NotEmpty
  <2>4. QED
    BY <1>3, <2>3, AnotherTyped DEF StartInv
<1>4. CASE HeaderEnd
    BY <1>4 DEF HeaderEnd, TypeOK, StartInv, Block
<1>5. CASE Reset
  <2>1. Block' = Block
    BY <1>5 DEF Reset, Block
  <2>2. headerPairCount' = 0 /\ headers' = NoEntries /\ seenEnd' = FALSE /\ arrived' = <<>>
        /\ headerPairs' = headerPairs /\ headerBufSize' = headerBufSize /\ blocks' = blocks
    BY <1>5 DEF Reset
  <2>3. freed' \subseteq Block \union {Wild}
    BY <1>5, ReleasedTyped DEF Reset, TypeOK
  <2>4. /\ DOMAIN headers' \subseteq {Hash[t] : t \in Spellings}
        /\ headers' \in [DOMAIN headers' -> [key : Block, value : Block]]
    BY <2>2 DEF NoEntries
  <2>5. headerPairCount' \in 0..headerBufSize'
    BY <2>2 DEF TypeOK
  <2>6. arrived' \in Seq(Block)
    BY <2>2, EmptySeq
  <2>7. TypeOK'
    BY <2>1, <2>2, <2>3, <2>4, <2>5, <2>6 DEF TypeOK
  <2>8. QED
    BY <2>2, <2>7 DEF StartInv
<1>6. CASE UNCHANGED vars
    BY <1>6 DEF vars, TypeOK, StartInv, Block
<1>7. QED
    BY <1>1, <1>2, <1>3, <1>4, <1>5, <1>6 DEF Next

\* The initial state is typed and empty (nativeCreate).
LEMMA TypeInit == Init => TypeOK /\ StartInv
<1> SUFFICES ASSUME Init PROVE TypeOK /\ StartInv
    OBVIOUS
<1>1. headerBufSize \in Nat \ {0} /\ headerPairCount \in 0..headerBufSize
    BY SizeAssumption DEF Init
<1>2. headerPairs \in [0..headerBufSize - 1 ->
                          [val : Block \union {Wild}, key : Block \union {Wild}]]
    BY DEF Init
<1>3. blocks \in Seq([name : Spellings \union Statuses, ref : Block \union {Wild}])
      /\ arrived \in Seq(Block)
    BY DEF Init
<1>4. DOMAIN headers \subseteq {Hash[s] : s \in Spellings}
      /\ headers \in [DOMAIN headers -> [key : Block, value : Block]]
    BY DEF Init, NoEntries
<1>5. QED
    BY <1>1, <1>2, <1>3, <1>4 DEF Init, TypeOK, StartInv

\* The count stays within the array and every pointer is a block or was never
\* written (TypeOK), whatever the names, the hash and the initial size.
THEOREM ResponseTypeCorrect == Spec => []TypeOK
<1>1. TypeOK /\ StartInv /\ [Next]_vars => TypeOK' /\ StartInv'
    BY TypeStep
<1>2. QED
    BY <1>1, TypeInit, PTL DEF Spec

-----------------------------------------------------------------------------
\* The counted slots are the lines of the current response.
OrderInv ==
    arrived # <<>> =>
        /\ headerPairCount = Len(arrived)
        /\ \A n \in 0..Len(arrived) - 1 : headerPairs[n].val = arrived[n + 1]

\* A header at the end of the array keeps the order (header_callback).
LEMMA AppendKeepsOrder ==
    ASSUME TypeOK, OrderInv, arrived # <<>>,
           NEW b, b = Len(blocks) + 1, NEW key \in Block',
           Len(blocks') = Len(blocks) + 1, AppendPair(b, key)
    PROVE  OrderInv'
<1>1. /\ Block \subseteq Block' /\ b \in Block' /\ Len(blocks) \in Nat
    BY BlocksGrow
<1>2. [val |-> b, key |-> key] \in Pair'
    BY <1>1 DEF Pair
<1>3. /\ headerPairCount = Len(arrived) /\ Len(arrived) \in Nat \ {0}
      /\ headerPairCount \in 0..headerBufSize /\ headerBufSize \in Nat \ {0}
      /\ arrived \in Seq(Block)
    BY DEF TypeOK, OrderInv
<1>4. /\ headerPairs'[headerPairCount] = [val |-> b, key |-> key]
      /\ \A i \in 0..headerBufSize - 1 :
            i # headerPairCount => headerPairs'[i] = headerPairs[i]
  <2>1. PICK n : n = headerPairCount
    OBVIOUS
  <2>2. n \in Nat /\ n + 1 \in Nat /\ n < n + 1
    BY <1>3, <2>1
  <2>3. StorePair(n, n + 1, [val |-> b, key |-> key])
    BY <2>1 DEF AppendPair
  <2>4. QED
    BY ONLY TypeOK, <1>1, <1>2, <2>1, <2>2, <2>3, StoreTyped, ZenonT(30)
<1>5. arrived' = Append(arrived, b) /\ headerPairCount' = headerPairCount + 1
    BY DEF AppendPair
<1>6. /\ Len(arrived') = Len(arrived) + 1
      /\ arrived'[Len(arrived) + 1] = b
      /\ \A i \in 1..Len(arrived) : arrived'[i] = arrived[i]
    BY <1>3, <1>5, AppendedAt
<1>7. ASSUME NEW n \in 0..Len(arrived) - 1
      PROVE  /\ headerPairs'[n] = headerPairs[n]
             /\ arrived'[n + 1] = arrived[n + 1]
             /\ arrived[n + 1] \in Block
    BY <1>3, <1>4, <1>6
<1>8. \A n \in 0..Len(arrived') - 1 : headerPairs'[n].val = arrived'[n + 1]
  <2>1. TAKE n \in 0..Len(arrived') - 1
  <2>2. CASE n \in 0..Len(arrived) - 1
    BY <1>7, <2>2 DEF OrderInv
  <2>3. CASE n = Len(arrived)
    BY <1>3, <1>4, <1>6, <2>3
  <2>4. QED
    BY <1>3, <1>6, <2>2, <2>3
<1>9. QED
    BY <1>3, <1>5, <1>6, <1>8 DEF OrderInv

\* A status line begins the order anew (header_callback, slot 0).
LEMMA StatusOrder ==
    ASSUME TypeOK, StartInv, NEW s \in Statuses, StatusLine(s)
    PROVE  OrderInv'
<1>1. /\ Len(blocks') = Len(blocks) + 1
      /\ \A i \in 1..Len(blocks) : blocks'[i] = blocks[i]
    BY AppendedAt DEF StatusLine, TypeOK
<1>2. Block \subseteq Block' /\ Len(blocks) + 1 \in Block' /\ Len(blocks) \in Nat
    BY <1>1, BlocksGrow
<1>3. PICK c : c = Len(blocks) + 1
    OBVIOUS
<1>4. [val |-> c, key |-> c] \in Pair'
    BY <1>2, <1>3 DEF Pair
<1>5. StorePair(0, 1, [val |-> c, key |-> c])
    BY <1>3 DEF StatusLine
<1>6. headerPairs'[0] = [val |-> c, key |-> c]
    BY <1>2, <1>4, <1>5, StoreTyped
<1>7. headerPairCount' = 1
    BY StatusTyped
<1>8. arrived' = <<c>>
    BY <1>3 DEF StatusLine
<1>9. QED
    BY <1>6, <1>7, <1>8 DEF OrderInv

\* The first header of a name comes last (header_callback, hashmapPut).
LEMMA FirstOrder ==
    ASSUME TypeOK, OrderInv, NEW s \in Spellings, FirstOfName(s)
    PROVE  OrderInv'
<1>1. PICK c : c = Len(blocks) + 1
    OBVIOUS
<1>2. Len(blocks') = Len(blocks) + 1
    BY DEF FirstOfName, TypeOK
<1>3. c \in Block'
    BY <1>1, <1>2, BlocksGrow
<1>4. AppendPair(c, c) /\ arrived # <<>>
    BY <1>1 DEF FirstOfName
<1>5. QED
    BY <1>1, <1>2, <1>3, <1>4, AppendKeepsOrder

\* So does one more header of a name (header_callback).
LEMMA AnotherOrder ==
    ASSUME TypeOK, OrderInv, NEW s \in Spellings, AnotherOfName(s)
    PROVE  OrderInv'
<1>1. PICK c : c = Len(blocks) + 1
    OBVIOUS
<1>2. PICK k : k = headers[Hash[s]].key
    OBVIOUS
<1>3. k \in Block
    BY <1>2 DEF AnotherOfName, EntryOf, Found, TypeOK
<1>4. Len(blocks') = Len(blocks) + 1
    BY DEF AnotherOfName, EntryOf, TypeOK
<1>5. k \in Block'
    BY <1>3, <1>4, BlocksGrow
<1>6. AppendPair(c, k) /\ arrived # <<>>
    BY <1>1, <1>2 DEF AnotherOfName, EntryOf
<1>7. QED
    BY <1>1, <1>4, <1>5, <1>6, AppendKeepsOrder

IInv == TypeOK /\ StartInv /\ OrderInv

\* Every step keeps the order.
LEMMA OrderStep ==
    ASSUME IInv, [Next]_vars
    PROVE  IInv'
<1>1. TypeOK' /\ StartInv'
    BY TypeStep DEF IInv
<1> SUFFICES OrderInv'
    BY <1>1 DEF IInv
<1>2. ASSUME NEW s \in Statuses, StatusLine(s)
      PROVE  OrderInv'
    BY <1>2, StatusOrder DEF IInv
<1>3. ASSUME NEW s \in Spellings, FirstOfName(s)
      PROVE  OrderInv'
    BY <1>3, FirstOrder DEF IInv
<1>4. ASSUME NEW s \in Spellings, AnotherOfName(s)
      PROVE  OrderInv'
    BY <1>4, AnotherOrder DEF IInv
<1>5. CASE HeaderEnd
    BY <1>5 DEF HeaderEnd, IInv, OrderInv
<1>6. CASE Reset
    BY <1>6 DEF Reset, OrderInv
<1>7. CASE UNCHANGED vars
    BY <1>7 DEF vars, IInv, OrderInv
<1>8. QED
    BY <1>2, <1>3, <1>4, <1>5, <1>6, <1>7 DEF Next

-----------------------------------------------------------------------------
(* The counted slots and the rings.                                        *)

Counted == 0..headerPairCount - 1

Line(n) == headerPairs[n].val

NameAt(n) == blocks[Line(n)].name

\* Where a status line is due that clears nothing, there is nothing to clear.
EmptyInv ==
    /\ arrived = <<>> /\ ~seenEnd => headerPairCount = 0 /\ headers = NoEntries
    /\ arrived # <<>> => headerPairCount > 0

\* The counted slots hold different blocks in order of arrival, none of them freed,
\* slot 0 the status line and each of the others a line that the map leads to.
LineInv ==
    /\ \A n \in Counted : Line(n) \in Block /\ Line(n) \notin freed
    /\ \A m, n \in Counted : m < n => Line(m) < Line(n)
    /\ \A n \in Counted : n > 0 =>
          /\ NameAt(n) \in Spellings /\ Hash[NameAt(n)] \in DOMAIN headers
          /\ headerPairs[n].key = headers[Hash[NameAt(n)]].key
    /\ 0 \in Counted => headerPairs[0].key = Line(0) /\ NameAt(0) \in Statuses
    /\ headerPairCount <= Len(blocks)
    /\ freed \subseteq Block

\* The slots of the lines whose names have a hash.
Places(h) == {n \in Counted : n > 0 /\ Hash[NameAt(n)] = h}

FirstAt(h, n) == n \in Places(h) /\ \A m \in Places(h) : n <= m

LastAt(h, n) == n \in Places(h) /\ \A m \in Places(h) : m <= n

NextAt(h, m, n) == m < n /\ \A i \in Places(h) : ~(m < i /\ i < n)

\* The entry of a hash has the first of its lines for key and the last for value;
\* ref leads from each line to the next one and from the last to the first.
RingInv ==
    \A h \in DOMAIN headers :
        /\ \E n \in Counted : FirstAt(h, n) /\ headers[h].key = Line(n)
        /\ \E n \in Counted : LastAt(h, n) /\ headers[h].value = Line(n)
        /\ \A m, n \in Places(h) :
              NextAt(h, m, n) \/ (LastAt(h, m) /\ FirstAt(h, n)) => blocks[Line(m)].ref = Line(n)

HeapInv == TypeOK /\ EmptyInv /\ LineInv /\ RingInv

\* What is freed was counted.
LEMMA ReleasedCounted ==
    ASSUME TypeOK, LineInv
    PROVE  freed \union Released \subseteq Block
<1>1. \A i \in Counted : headerPairs[i].val \in Block
    BY DEF LineInv, Line
<1>2. {j \in 0..headerPairCount - 1 : 2 * j < headerPairCount} \subseteq Counted
    BY DEF Counted
<1>3. Released \subseteq Block
    BY <1>1, <1>2 DEF Released
<1>4. QED
    BY <1>3 DEF LineInv

\* A status line frees what is left of an earlier response and is alone.
LEMMA StatusHeap ==
    ASSUME HeapInv, NEW s \in Statuses, StatusLine(s)
    PROVE  EmptyInv' /\ LineInv' /\ RingInv'
<1>0. TypeOK /\ StartInv /\ EmptyInv /\ LineInv
    BY DEF HeapInv, EmptyInv, StartInv
<1>1. PICK c : c = Len(blocks) + 1
    OBVIOUS
<1>2. /\ Len(blocks') = Len(blocks) + 1
      /\ blocks'[c] = [name |-> s, ref |-> Wild]
    BY <1>0, <1>1, AppendedAt DEF StatusLine, TypeOK
<1>3. Block \subseteq Block' /\ c \in Block' /\ Len(blocks) \in Nat /\ c \notin Block
  <2>1. Block \subseteq Block' /\ Len(blocks) + 1 \in Block' /\ Len(blocks) \in Nat
    BY <1>0, <1>2, BlocksGrow
  <2>2. QED
    BY <1>1, <2>1 DEF Block
<1>4. headerPairs'[0] = [val |-> c, key |-> c]
  <2>1. [val |-> c, key |-> c] \in Pair'
    BY <1>3 DEF Pair
  <2>2. StorePair(0, 1, [val |-> c, key |-> c])
    BY <1>1 DEF StatusLine
  <2>3. QED
    BY <1>0, <1>3, <2>1, <2>2, StoreTyped
<1>5. headerPairCount' = 1
    BY <1>0, StatusTyped
<1>6. arrived' = <<c>> /\ seenEnd' = FALSE
    BY <1>1 DEF StatusLine
<1>7. headers' = NoEntries
  <2>1. CASE seenEnd
    BY <2>1 DEF StatusLine
  <2>2. CASE ~seenEnd
    BY <1>0, <2>2 DEF StatusLine, EmptyInv
  <2>3. QED
    BY <2>1, <2>2
<1>8. freed' \subseteq Block
    BY <1>0, ReleasedCounted DEF StatusLine, LineInv
<1>9. EmptyInv'
    BY <1>5, <1>6 DEF EmptyInv
<1>10. RingInv'
    BY <1>7 DEF RingInv, NoEntries
<1>11. LineInv'
  <2>1. \A n \in Counted' : n = 0
    BY <1>5 DEF Counted
  <2>2. Line(0)' = c /\ NameAt(0)' = s
    BY <1>2, <1>4 DEF Line, NameAt
  <2>3. c \in Block' /\ c \notin freed' /\ freed' \subseteq Block'
    BY <1>3, <1>8
  <2>4. headerPairCount' <= Len(blocks')
    BY <1>2, <1>3, <1>5
  <2>5. \A n \in Counted' : Line(n)' \in Block' /\ Line(n)' \notin freed'
    BY <2>1, <2>2, <2>3
  <2>6. QED
    BY <1>4, <2>1, <2>2, <2>3, <2>4, <2>5 DEF LineInv, Line
<1>12. QED
    BY <1>9, <1>10, <1>11

\* A header takes the slot behind the others, which stay (the end of header_callback).
LEMMA SlotAdded ==
    ASSUME TypeOK, EmptyInv, LineInv, arrived # <<>>, NEW b, b = Len(blocks) + 1,
           NEW key \in Block', Len(blocks') = Len(blocks) + 1, AppendPair(b, key),
           \A i \in Block : blocks'[i].name = blocks[i].name,
           NEW c, c = headerPairCount
    PROVE  /\ c \in Nat \ {0} /\ headerPairCount' = c + 1
           /\ Counted' = Counted \union {c} /\ 0 \in Counted
           /\ \A n \in Counted : n \in Nat /\ n < c
           /\ \A n \in Counted : headerPairs'[n] = headerPairs[n] /\ Line(n)' = Line(n)
                                 /\ Line(n)' # b /\ NameAt(n)' = NameAt(n)
           /\ headerPairs'[c] = [val |-> b, key |-> key]
           /\ Line(c)' = b /\ NameAt(c)' = blocks'[b].name
           /\ freed' = freed /\ b \in Block' /\ Block \subseteq Block'
           /\ EmptyInv'
<1>1. /\ Block \subseteq Block' /\ b \in Block' /\ Len(blocks) \in Nat /\ b \notin Block
  <2>1. Block \subseteq Block' /\ Len(blocks) + 1 \in Block' /\ Len(blocks) \in Nat
    BY BlocksGrow
  <2>2. QED
    BY <2>1 DEF Block
<1>2. /\ headerPairCount \in Nat \ {0} /\ headerPairCount \in 0..headerBufSize
      /\ headerBufSize \in Nat
    BY DEF TypeOK, EmptyInv
<1>3. c \in Nat \ {0}
    BY <1>2
<1>4. [val |-> b, key |-> key] \in Pair'
    BY <1>1 DEF Pair
<1>5. /\ headerPairs'[c] = [val |-> b, key |-> key]
      /\ \A i \in 0..headerBufSize - 1 : i # c => headerPairs'[i] = headerPairs[i]
  <2>1. c \in Nat /\ c + 1 \in Nat /\ c < c + 1
    BY <1>2, <1>3
  <2>2. StorePair(c, c + 1, [val |-> b, key |-> key])
    BY <1>3 DEF AppendPair
  <2>3. QED
    BY ONLY TypeOK, <1>1, <1>4, <2>1, <2>2, StoreTyped
<1>6. headerPairCount' = c + 1 /\ freed' = freed
    BY <1>3 DEF AppendPair
<1>7. /\ Counted' = Counted \union {c} /\ 0 \in Counted
      /\ \A n \in Counted : n \in Nat /\ n < c
    BY <1>2, <1>3, <1>6 DEF Counted
<1>8. ASSUME NEW n \in Counted
      PROVE  /\ headerPairs'[n] = headerPairs[n] /\ Line(n)' = Line(n)
             /\ Line(n)' # b /\ NameAt(n)' = NameAt(n)
  <2>1. n \in 0..headerBufSize - 1 /\ n # c
    BY <1>2, <1>3, <1>7 DEF Counted
  <2>2. headerPairs'[n] = headerPairs[n]
    BY <1>5, <2>1
  <2>3. Line(n)' = Line(n) /\ Line(n) \in Block
    BY <2>2 DEF Line, LineInv
  <2>4. Line(n)' # b
    BY <1>1, <2>3
  <2>5. NameAt(n)' = NameAt(n)
    BY <2>3 DEF NameAt
  <2>6. QED
    BY <2>2, <2>3, <2>4, <2>5
<1>9. Line(c)' = b
    BY <1>5 DEF Line
<1>10. NameAt(c)' = blocks'[b].name
    BY <1>9 DEF NameAt
<1>11. EmptyInv'
  <2>1. arrived' # <<>>
    BY NotEmpty DEF AppendPair
  <2>2. headerPairCount' > 0
    BY <1>2, <1>3, <1>6
  <2>3. QED
    BY <2>1, <2>2 DEF EmptyInv
<1>12. QED
    BY <1>1, <1>3, <1>5, <1>6, <1>7, <1>8, <1>9, <1>10, <1>11

\* The new line is in order and leads to the entry of its hash.
LEMMA LineAdded ==
    ASSUME TypeOK, EmptyInv, LineInv, arrived # <<>>, NEW b, b = Len(blocks) + 1,
           NEW key \in Block', Len(blocks') = Len(blocks) + 1, AppendPair(b, key),
           \A i \in Block : blocks'[i].name = blocks[i].name,
           NEW s \in Spellings, blocks'[b].name = s, Hash[s] \in DOMAIN headers',
           headers'[Hash[s]].key = key, DOMAIN headers \subseteq DOMAIN headers',
           \A h \in DOMAIN headers : headers'[h].key = headers[h].key
    PROVE  LineInv'
<1>1. PICK c : c = headerPairCount
    OBVIOUS
<1>2. /\ c \in Nat \ {0} /\ headerPairCount' = c + 1
      /\ Counted' = Counted \union {c} /\ 0 \in Counted
      /\ \A n \in Counted : n \in Nat /\ n < c
      /\ \A n \in Counted : headerPairs'[n] = headerPairs[n] /\ Line(n)' = Line(n)
                            /\ NameAt(n)' = NameAt(n)
      /\ headerPairs'[c] = [val |-> b, key |-> key]
      /\ Line(c)' = b /\ NameAt(c)' = s
      /\ freed' = freed /\ b \in Block' /\ Block \subseteq Block'
    BY <1>1, SlotAdded
<1>3. Len(blocks) \in Nat
    BY DEF TypeOK
<1>4. b \notin freed /\ freed' \subseteq Block'
    BY <1>2, <1>3 DEF LineInv, Block
<1>5. \A n \in Counted' : Line(n)' \in Block' /\ Line(n)' \notin freed'
  <2>1. \A n \in Counted : Line(n) \in Block /\ Line(n) \notin freed
    BY DEF LineInv
  <2>2. ASSUME NEW n \in Counted', Line(n)' \notin Block' \/ Line(n)' \in freed'
        PROVE  FALSE
    <3>1. n \in Counted \/ n = c
      BY <1>2
    <3>2. QED
      BY <1>2, <1>4, <2>1, <2>2, <3>1
  <2>3. QED
    BY <2>2
<1>6. ASSUME NEW m \in Counted', NEW n \in Counted', m < n
      PROVE  Line(m)' < Line(n)'
  <2>1. m \in Counted
    BY <1>2, <1>6
  <2>2. CASE n \in Counted
    BY <1>2, <1>6, <2>1, <2>2 DEF LineInv
  <2>3. CASE n = c
    <3>1. Line(m) \in 1..Len(blocks)
      BY <2>1 DEF LineInv, Block
    <3>2. QED
      BY <1>2, <1>3, <2>1, <2>3, <3>1
  <2>4. QED
    BY <1>2, <2>2, <2>3
<1>7. ASSUME NEW n \in Counted', n > 0
      PROVE  /\ NameAt(n)' \in Spellings /\ Hash[NameAt(n)'] \in DOMAIN headers'
             /\ headerPairs'[n].key = headers'[Hash[NameAt(n)']].key
  <2>1. CASE n \in Counted
    BY <1>2, <1>7, <2>1 DEF LineInv
  <2>2. CASE n = c
    BY <1>2, <2>2
  <2>3. QED
    BY <1>2, <2>1, <2>2
<1>8. headerPairs'[0].key = Line(0)' /\ NameAt(0)' \in Statuses
  <2>1. 0 \in Counted
    BY <1>2
  <2>2. QED
    BY <1>2, <2>1 DEF LineInv
<1>9. headerPairCount' <= Len(blocks')
    BY <1>1, <1>2, <1>3 DEF LineInv
<1>10. QED
    BY <1>4, <1>5, <1>6, <1>7, <1>8, <1>9 DEF LineInv

\* The first header of its name is a ring of its own.
LEMMA FirstHeap ==
    ASSUME HeapInv, NEW s \in Spellings, FirstOfName(s)
    PROVE  EmptyInv' /\ LineInv' /\ RingInv'
<1>0. TypeOK /\ EmptyInv /\ LineInv /\ RingInv
    BY DEF HeapInv
<1>1. PICK b : b = Len(blocks) + 1
    OBVIOUS
<1>2. PICK c : c = headerPairCount
    OBVIOUS
<1>3. PICK H : H = Hash[s]
    OBVIOUS
<1>4. /\ Len(blocks') = Len(blocks) + 1
      /\ blocks'[b] = [name |-> s, ref |-> b]
      /\ \A i \in 1..Len(blocks) : blocks'[i] = blocks[i]
    BY <1>0, <1>1, AppendedAt DEF FirstOfName, TypeOK
<1>5. \A i \in Block : blocks'[i] = blocks[i]
    BY <1>4 DEF Block
<1>6. AppendPair(b, b) /\ arrived # <<>> /\ H \notin DOMAIN headers
    BY <1>1, <1>3 DEF FirstOfName, Found
<1>7. headers' = [h \in DOMAIN headers \union {H} |->
                     IF h = H THEN [key |-> b, value |-> b] ELSE headers[h]]
    BY <1>1, <1>3 DEF FirstOfName, WithEntry
<1>8. /\ c \in Nat \ {0} /\ Counted' = Counted \union {c}
      /\ \A n \in Counted : n \in Nat /\ n < c
      /\ \A n \in Counted : Line(n)' = Line(n) /\ NameAt(n)' = NameAt(n)
      /\ Line(c)' = b /\ NameAt(c)' = s
      /\ b \in Block' /\ EmptyInv'
  <2>1. b \in Block'
    BY <1>0, <1>1, <1>4, BlocksGrow
  <2>2. \A i \in Block : blocks'[i].name = blocks[i].name
    BY <1>5
  <2>3. /\ c \in Nat \ {0} /\ headerPairCount' = c + 1
        /\ Counted' = Counted \union {c} /\ 0 \in Counted
        /\ \A n \in Counted : n \in Nat /\ n < c
        /\ \A n \in Counted : headerPairs'[n] = headerPairs[n] /\ Line(n)' = Line(n)
                              /\ Line(n)' # b /\ NameAt(n)' = NameAt(n)
        /\ headerPairs'[c] = [val |-> b, key |-> b]
        /\ Line(c)' = b /\ NameAt(c)' = blocks'[b].name
        /\ freed' = freed /\ b \in Block' /\ Block \subseteq Block'
        /\ EmptyInv'
    BY <1>0, <1>1, <1>2, <1>4, <1>6, <2>1, <2>2, SlotAdded
  <2>4. QED
    BY <1>4, <2>3
<1>9. LineInv'
  <2>1. \A i \in Block : blocks'[i].name = blocks[i].name
    BY <1>5
  <2>2. blocks'[b].name = s /\ b \in Block'
    BY <1>4, <1>8
  <2>3. /\ Hash[s] \in DOMAIN headers' /\ headers'[Hash[s]].key = b
        /\ DOMAIN headers \subseteq DOMAIN headers'
        /\ \A h \in DOMAIN headers : headers'[h].key = headers[h].key
    BY <1>3, <1>6, <1>7
  <2>4. QED
    BY <1>0, <1>1, <1>4, <1>6, <2>1, <2>2, <2>3, LineAdded
<1>10. \A n \in Counted : n > 0 => Hash[NameAt(n)] # H
    BY <1>0, <1>6 DEF LineInv
<1>11. Places(H)' = {c}
    BY <1>3, <1>8, <1>10 DEF Places
<1>12. \A h \in DOMAIN headers : h # H /\ Places(h)' = Places(h)
    BY <1>3, <1>6, <1>8 DEF Places
<1>13. ASSUME NEW h \in DOMAIN headers
       PROVE  /\ \E n \in Counted' : FirstAt(h, n)' /\ headers'[h].key = Line(n)'
              /\ \E n \in Counted' : LastAt(h, n)' /\ headers'[h].value = Line(n)'
              /\ \A m, n \in Places(h)' :
                    NextAt(h, m, n)' \/ (LastAt(h, m)' /\ FirstAt(h, n)')
                        => blocks'[Line(m)'].ref = Line(n)'
  <2>1. headers'[h] = headers[h]
    BY <1>7, <1>12
  <2>2. \A n \in Places(h) : n \in Counted /\ Line(n)' = Line(n) /\ blocks'[Line(n)] = blocks[Line(n)]
    BY <1>0, <1>5, <1>8 DEF Places, LineInv
  <2>3. \A n : (FirstAt(h, n)' <=> FirstAt(h, n)) /\ (LastAt(h, n)' <=> LastAt(h, n))
    BY <1>12 DEF FirstAt, LastAt
  <2>4. \A m, n : NextAt(h, m, n)' <=> NextAt(h, m, n)
    BY <1>12 DEF NextAt
  <2>5. \A n \in Counted : n \in Counted'
    BY <1>8
  <2>6. QED
    BY <1>0, <1>8, <1>12, <2>1, <2>2, <2>3, <2>4, <2>5 DEF RingInv
<1>14. /\ \E n \in Counted' : FirstAt(H, n)' /\ headers'[H].key = Line(n)'
       /\ \E n \in Counted' : LastAt(H, n)' /\ headers'[H].value = Line(n)'
       /\ \A m, n \in Places(H)' : blocks'[Line(m)'].ref = Line(n)'
    BY <1>4, <1>7, <1>8, <1>11 DEF FirstAt, LastAt
<1>15. RingInv'
    BY <1>7, <1>13, <1>14 DEF RingInv
<1>16. QED
    BY <1>8, <1>9, <1>15

\* One more header of a name changes the ref of the last block of the entry, and that only.
LEMMA AnotherBlocks ==
    ASSUME TypeOK, NEW s \in Spellings, AnotherOfName(s),
           NEW b, b = Len(blocks) + 1, NEW v, v = headers[Hash[s]].value
    PROVE  /\ v \in Block
           /\ Len(blocks') = Len(blocks) + 1
           /\ blocks'[b] = [name |-> s, ref |-> blocks[v].ref]
           /\ blocks'[v].ref = b
           /\ \A i \in Block : blocks'[i].name = blocks[i].name
           /\ \A i \in Block : i # v => blocks'[i] = blocks[i]
<1>1. v \in Block
    BY DEF AnotherOfName, EntryOf, Found, TypeOK
<1>2. PICK e : e = [name |-> s, ref |-> blocks[v].ref]
    OBVIOUS
<1>3. PICK d : d = [blocks[v] EXCEPT !.ref = b]
    OBVIOUS
<1>4. PICK q : q = [blocks EXCEPT ![v] = d]
    OBVIOUS
<1>5. blocks' = Append(q, e)
    BY <1>2, <1>3, <1>4 DEF AnotherOfName, EntryOf
<1> DEFINE S == [name : Spellings \union Statuses, ref : Int]
<1>6. blocks \in Seq(S)
  <2> DEFINE R == [name : Spellings \union Statuses, ref : Block \union {Wild}]
  <2>1. blocks \in Seq(R) /\ Len(blocks) \in Nat
    BY DEF TypeOK
  <2>2. R \subseteq S
    BY <2>1 DEF Block, Wild
  <2> HIDE DEF R, S
  <2>3. QED
    BY <2>1, <2>2, SeqMonotonic
<1>7. v \in 1..Len(blocks)
    BY <1>1 DEF Block
<1>8. blocks[v] \in S
  <2> HIDE DEF S
  <2>1. QED
    BY <1>6, <1>7, ElementOfSeq
<1>9. b \in Int
    BY <1>6
<1>10. d \in S /\ d.name = blocks[v].name /\ d.ref = b
    BY <1>3, <1>8, <1>9
<1>11. /\ q \in Seq(S) /\ Len(q) = Len(blocks)
       /\ \A i \in 1..Len(blocks) : q[i] = IF i = v THEN d ELSE blocks[i]
  <2> HIDE DEF S
  <2>1. QED
    BY <1>4, <1>6, <1>7, <1>10, ExceptSeq
<1>12. /\ Len(blocks') = Len(blocks) + 1
       /\ blocks'[b] = e
       /\ \A i \in 1..Len(blocks) : blocks'[i] = q[i]
    BY <1>5, <1>11, AppendedAt
<1>13. \A i \in Block : blocks'[i] = IF i = v THEN d ELSE blocks[i]
    BY <1>11, <1>12 DEF Block
<1>14. blocks'[v].ref = b
    BY <1>1, <1>10, <1>13
<1>15. \A i \in Block : blocks'[i].name = blocks[i].name
    BY <1>10, <1>13
<1>16. \A i \in Block : i # v => blocks'[i] = blocks[i]
    BY <1>13
<1>17. QED
    BY <1>1, <1>2, <1>12, <1>14, <1>15, <1>16

\* One more header of a name joins the ring of its entry behind the last one.
LEMMA AnotherHeap ==
    ASSUME HeapInv, NEW s \in Spellings, AnotherOfName(s)
    PROVE  EmptyInv' /\ LineInv' /\ RingInv'
<1>0. TypeOK /\ EmptyInv /\ LineInv /\ RingInv
    BY DEF HeapInv
<1>1. PICK b : b = Len(blocks) + 1
    OBVIOUS
<1>2. PICK c : c = headerPairCount
    OBVIOUS
<1>3. PICK H : H = Hash[s]
    OBVIOUS
<1>4. PICK v : v = headers[H].value
    OBVIOUS
<1>5. PICK k : k = headers[H].key
    OBVIOUS
<1>6. /\ v \in Block
      /\ Len(blocks') = Len(blocks) + 1
      /\ blocks'[b] = [name |-> s, ref |-> blocks[v].ref]
      /\ blocks'[v].ref = b
      /\ \A i \in Block : blocks'[i].name = blocks[i].name
      /\ \A i \in Block : i # v => blocks'[i] = blocks[i]
    BY <1>0, <1>1, <1>3, <1>4, AnotherBlocks
<1>7. AppendPair(b, k) /\ arrived # <<>> /\ H \in DOMAIN headers
    BY <1>1, <1>3, <1>5 DEF AnotherOfName, EntryOf, Found
<1>8. /\ DOMAIN headers' = DOMAIN headers
      /\ headers'[H].key = k /\ headers'[H].value = b
      /\ \A h \in DOMAIN headers : h # H => headers'[h] = headers[h]
      /\ \A h \in DOMAIN headers : headers'[h].key = headers[h].key
    BY <1>0, <1>1, <1>3, <1>5, <1>7 DEF AnotherOfName, TypeOK
<1>9. k \in Block'
  <2>1. Block \subseteq Block'
    BY <1>0, <1>6, BlocksGrow
  <2>2. k \in Block
    BY <1>0, <1>5, <1>7 DEF TypeOK
  <2>3. QED
    BY <2>1, <2>2
<1>10. /\ c \in Nat \ {0} /\ Counted' = Counted \union {c}
       /\ \A n \in Counted : n \in Nat /\ n < c
       /\ \A n \in Counted : Line(n)' = Line(n) /\ NameAt(n)' = NameAt(n)
       /\ Line(c)' = b /\ NameAt(c)' = s
       /\ b \in Block' /\ EmptyInv'
  <2>1. /\ c \in Nat \ {0} /\ headerPairCount' = c + 1
        /\ Counted' = Counted \union {c} /\ 0 \in Counted
        /\ \A n \in Counted : n \in Nat /\ n < c
        /\ \A n \in Counted : headerPairs'[n] = headerPairs[n] /\ Line(n)' = Line(n)
                              /\ Line(n)' # b /\ NameAt(n)' = NameAt(n)
        /\ headerPairs'[c] = [val |-> b, key |-> k]
        /\ Line(c)' = b /\ NameAt(c)' = blocks'[b].name
        /\ freed' = freed /\ b \in Block' /\ Block \subseteq Block'
        /\ EmptyInv'
    BY <1>0, <1>1, <1>2, <1>6, <1>7, <1>9, SlotAdded
  <2>2. QED
    BY <1>6, <2>1
<1>11. LineInv'
  <2>1. blocks'[b].name = s
    BY <1>6
  <2>2. /\ Hash[s] \in DOMAIN headers' /\ headers'[Hash[s]].key = k
        /\ DOMAIN headers \subseteq DOMAIN headers'
    BY <1>3, <1>7, <1>8
  <2>3. QED
    BY <1>0, <1>1, <1>6, <1>7, <1>8, <1>9, <2>1, <2>2, LineAdded
<1>12. Places(H)' = Places(H) \union {c}
    BY <1>3, <1>10 DEF Places
<1>13. \A h : h # H => Places(h)' = Places(h)
    BY <1>3, <1>10 DEF Places
<1>14. \A m, n \in Counted : Line(m) = Line(n) => m = n
  <2>1. ASSUME NEW m \in Counted, NEW n \in Counted, m < n
        PROVE  Line(m) # Line(n)
    <3>1. Line(m) < Line(n) /\ Line(m) \in Int
      BY <1>0, <2>1 DEF LineInv, TypeOK, Block
    <3>2. QED
      BY <3>1
  <2>2. \A m, n \in Counted : m < n \/ n < m \/ m = n
    BY <1>10
  <2>3. QED
    BY <2>1, <2>2
<1>15. PICK l \in Counted : LastAt(H, l) /\ v = Line(l)
    BY <1>0, <1>4, <1>7 DEF RingInv
<1>16. PICK f \in Counted : FirstAt(H, f) /\ k = Line(f)
    BY <1>0, <1>5, <1>7 DEF RingInv
<1>17. \A n \in Counted : n # l => blocks'[Line(n)] = blocks[Line(n)]
    BY <1>0, <1>6, <1>14, <1>15 DEF LineInv
<1>18. blocks[v].ref = Line(f)
  <2>1. l \in Places(H) /\ f \in Places(H)
    BY <1>15, <1>16 DEF LastAt, FirstAt
  <2>2. blocks[Line(l)].ref = Line(f)
    BY <1>0, <1>7, <1>15, <1>16, <2>1 DEF RingInv
  <2>3. QED
    BY <1>15, <2>2
<1>19. \A h : Places(h) \subseteq Counted
    BY DEF Places
<1>20. ASSUME NEW h \in DOMAIN headers, h # H
       PROVE  /\ \E n \in Counted' : FirstAt(h, n)' /\ headers'[h].key = Line(n)'
              /\ \E n \in Counted' : LastAt(h, n)' /\ headers'[h].value = Line(n)'
              /\ \A m, n \in Places(h)' :
                    NextAt(h, m, n)' \/ (LastAt(h, m)' /\ FirstAt(h, n)')
                        => blocks'[Line(m)'].ref = Line(n)'
  <2>1. headers'[h] = headers[h] /\ Places(h)' = Places(h)
    BY <1>8, <1>13, <1>20
  <2>2. \A n \in Places(h) : n \in Counted /\ Line(n)' = Line(n) /\ blocks'[Line(n)] = blocks[Line(n)]
    <3>1. l \notin Places(h)
      BY <1>15, <1>20 DEF LastAt, Places
    <3>2. QED
      BY <1>10, <1>17, <1>19, <3>1
  <2>3. \A n : (FirstAt(h, n)' <=> FirstAt(h, n)) /\ (LastAt(h, n)' <=> LastAt(h, n))
    BY <2>1 DEF FirstAt, LastAt
  <2>4. \A m, n : NextAt(h, m, n)' <=> NextAt(h, m, n)
    BY <2>1 DEF NextAt
  <2>5. \A n \in Counted : n \in Counted'
    BY <1>10
  <2>6. QED
    BY <1>0, <1>10, <1>20, <2>1, <2>2, <2>3, <2>4, <2>5 DEF RingInv
<1>21. /\ \E n \in Counted' : FirstAt(H, n)' /\ headers'[H].key = Line(n)'
       /\ \E n \in Counted' : LastAt(H, n)' /\ headers'[H].value = Line(n)'
  <2>1. FirstAt(H, f)'
    <3>1. f <= c /\ f \in Places(H) /\ \A m \in Places(H) : f <= m
      BY <1>10, <1>16 DEF FirstAt
    <3>2. QED
      BY <1>12, <3>1 DEF FirstAt
  <2>2. LastAt(H, c)'
    <3>1. \A m \in Places(H) : m <= c
      BY <1>10, <1>19
    <3>2. QED
      BY <1>10, <1>12, <3>1 DEF LastAt
  <2>3. QED
    BY <1>8, <1>10, <1>16, <2>1, <2>2
<1>22. ASSUME NEW m \in Places(H)', NEW n \in Places(H)', NextAt(H, m, n)'
       PROVE  blocks'[Line(m)'].ref = Line(n)'
  <2>1. m < n /\ \A i \in Places(H) \union {c} : ~(m < i /\ i < n)
    BY <1>12, <1>22 DEF NextAt
  <2>2. m \in Places(H) /\ m \in Counted
    BY <1>10, <1>12, <1>19, <2>1
  <2>3. CASE n = c
    <3>1. m = l
      BY <1>10, <1>15, <2>1, <2>2, <2>3 DEF LastAt
    <3>2. QED
      BY <1>6, <1>10, <1>15, <2>3, <3>1
  <2>4. CASE n # c
    <3>1. n \in Places(H) /\ n \in Counted
      BY <1>12, <1>19, <2>4
    <3>2. NextAt(H, m, n)
      BY <2>1 DEF NextAt
    <3>3. blocks[Line(m)].ref = Line(n)
      BY <1>0, <1>7, <2>2, <3>1, <3>2 DEF RingInv
    <3>4. m # l
      BY <1>10, <1>15, <2>1, <2>2, <3>1 DEF LastAt
    <3>5. QED
      BY <1>10, <1>17, <2>2, <3>1, <3>3, <3>4
  <2>5. QED
    BY <2>3, <2>4
<1>23. ASSUME NEW m \in Places(H)', NEW n \in Places(H)', LastAt(H, m)', FirstAt(H, n)'
       PROVE  blocks'[Line(m)'].ref = Line(n)'
  <2>1. \A i \in Places(H) \union {c} : i <= m /\ n <= i
    BY <1>12, <1>23 DEF LastAt, FirstAt
  <2>2. m = c
    BY <1>10, <1>12, <1>19, <2>1
  <2>3. n = f
    <3>1. f \in Places(H) /\ f \in Counted /\ n <= f /\ n <= l
      BY <1>15, <1>16, <2>1 DEF FirstAt, LastAt
    <3>2. n # c
      BY <1>10, <3>1
    <3>3. n \in Places(H) /\ n \in Counted /\ f <= n
      BY <1>12, <1>16, <1>19, <3>2 DEF FirstAt
    <3>4. QED
      BY <1>10, <3>1, <3>3
  <2>4. QED
    BY <1>6, <1>10, <1>18, <2>2, <2>3
<1>24. RingInv'
  <2>1. \A h \in DOMAIN headers' :
        /\ \E n \in Counted' : FirstAt(h, n)' /\ headers'[h].key = Line(n)'
        /\ \E n \in Counted' : LastAt(h, n)' /\ headers'[h].value = Line(n)'
        /\ \A m, n \in Places(h)' :
              NextAt(h, m, n)' \/ (LastAt(h, m)' /\ FirstAt(h, n)') => blocks'[Line(m)'].ref = Line(n)'
    BY <1>8, <1>20, <1>21, <1>22, <1>23
  <2>2. QED
    BY <2>1 DEF RingInv
<1>25. QED
    BY <1>10, <1>11, <1>24

\* A step that leaves the array, the map and the blocks alone keeps them in order.
LEMMA SameHeap ==
    ASSUME LineInv, RingInv,
           UNCHANGED <<headerPairs, headerPairCount, headers, blocks, freed>>
    PROVE  LineInv' /\ RingInv'
<1>1. LineInv'
    BY SMTT(30) DEF LineInv, Counted, Line, NameAt, Block
<1>2. RingInv'
    BY DEF RingInv, Counted, Line, NameAt, Places, FirstAt, LastAt, NextAt
<1>3. QED
    BY <1>1, <1>2

\* Without mid-header retries every step keeps the structures (header_callback, reset,
\* connect after a failure).
LEMMA HeapStep ==
    ASSUME HeapInv, [Next]_vars
    PROVE  HeapInv'
<1>1. TypeOK /\ EmptyInv /\ LineInv /\ RingInv /\ StartInv
    BY DEF HeapInv, EmptyInv, StartInv
<1>2. TypeOK'
    BY <1>1, TypeStep
<1> SUFFICES EmptyInv' /\ LineInv' /\ RingInv'
    BY <1>2 DEF HeapInv
<1>3. ASSUME NEW s \in Statuses, StatusLine(s)
      PROVE  EmptyInv' /\ LineInv' /\ RingInv'
    BY <1>3, StatusHeap
<1>4. ASSUME NEW s \in Spellings, FirstOfName(s)
      PROVE  EmptyInv' /\ LineInv' /\ RingInv'
    BY <1>4, FirstHeap
<1>5. ASSUME NEW s \in Spellings, AnotherOfName(s)
      PROVE  EmptyInv' /\ LineInv' /\ RingInv'
    BY <1>5, AnotherHeap
<1>6. CASE HeaderEnd
  <2>1. EmptyInv'
    BY <1>1, <1>6 DEF HeaderEnd, EmptyInv
  <2>2. LineInv' /\ RingInv'
    BY <1>1, <1>6, SameHeap DEF HeaderEnd
  <2>3. QED
    BY <2>1, <2>2
<1>7. CASE Reset
  <2>1. /\ headerPairCount' = 0 /\ headers' = NoEntries /\ arrived' = <<>>
        /\ blocks' = blocks /\ Block' = Block /\ Counted' = {}
    BY <1>7 DEF Reset, Block, Counted
  <2>2. freed' \subseteq Block'
    BY <1>1, <1>7, <2>1, ReleasedCounted DEF Reset
  <2>3. headerPairCount' <= Len(blocks')
    BY <1>1, <2>1 DEF TypeOK
  <2>4. LineInv'
    BY <2>1, <2>2, <2>3 DEF LineInv
  <2>5. RingInv'
    BY <2>1 DEF RingInv, NoEntries
  <2>6. EmptyInv'
    BY <2>1 DEF EmptyInv
  <2>7. QED
    BY <2>4, <2>5, <2>6
<1>8. CASE UNCHANGED vars
  <2>1. EmptyInv'
    BY <1>1, <1>8 DEF vars, EmptyInv
  <2>2. LineInv' /\ RingInv'
    BY <1>1, <1>8, SameHeap DEF vars
  <2>3. QED
    BY <2>1, <2>2
<1>9. QED
    BY <1>3, <1>4, <1>5, <1>6, <1>7, <1>8 DEF Next

\* Before the first line there is nothing.
LEMMA HeapInit == Init => HeapInv
<1>1. SUFFICES ASSUME Init PROVE EmptyInv /\ LineInv /\ RingInv
    BY TypeInit DEF HeapInv
<1>2. headerPairCount = 0 /\ headers = NoEntries /\ blocks = <<>> /\ freed = {} /\ arrived = <<>>
    BY <1>1 DEF Init
<1>3. Counted = {}
    BY <1>2 DEF Counted
<1>4. QED
    BY <1>2, <1>3 DEF EmptyInv, LineInv, RingInv, NoEntries

\* Where the lines of a hash are in the response, counted from 1.
At(h) == {n \in 1..Len(arrived) : n - 1 \in Places(h)}

\* The response counts its lines (OrderInv), the status line among them.
LEMMA ResponseLines ==
    ASSUME HeapInv, OrderInv, arrived # <<>>, NEW L, L = Len(arrived)
    PROVE  /\ headerPairCount = L /\ L \in Nat \ {0} /\ Counted = 0..L - 1
           /\ \A n \in 0..L - 1 : Line(n) = arrived[n + 1]
    BY DEF HeapInv, TypeOK, OrderInv, Line, Counted

\* The lines taken for a name are those in the places of its hash.
LEMMA LinesArePlaces ==
    ASSUME HeapInv, OrderInv, arrived # <<>>, NEW s \in Spellings
    PROVE  Lines(s) = At(Hash[s])
<1>1. PICK L \in Nat \ {0} : L = Len(arrived) /\ Counted = 0..L - 1
    BY ResponseLines
<1>2. \A n \in 0..L - 1 : Line(n) = arrived[n + 1]
    BY <1>1, ResponseLines
<1>3. PICK H : H = Hash[s]
    OBVIOUS
<1>4. ASSUME NEW n \in 1..L
      PROVE  n \in Lines(s) <=> n - 1 \in Places(H)
  <2>1. PICK m \in 0..L - 1 : m = n - 1 /\ n = m + 1
    BY <1>1
  <2>2. m \in Counted
    BY <1>1
  <2>4. Line(m) = arrived[n]
    BY <1>2, <2>1
  <2>5. n \in Lines(s) <=> NameAt(m) \in Spellings /\ Hash[NameAt(m)] = H
    BY <1>1, <1>3, <2>4 DEF Lines, NameAt
  <2>6. CASE m = 0
    <3>1. NameAt(m) \notin Spellings
      BY <2>2, <2>6, NamesAssumption DEF HeapInv, LineInv
    <3>2. QED
      BY <2>1, <2>5, <2>6, <3>1 DEF Places
  <2>7. CASE m # 0
    <3>1. m > 0 /\ NameAt(m) \in Spellings
      BY <2>2, <2>7 DEF HeapInv, LineInv, Counted
    <3>2. QED
      BY <2>1, <2>2, <2>5, <3>1 DEF Places
  <2>8. QED
    BY <2>6, <2>7
<1>5. QED
    BY <1>1, <1>3, <1>4 DEF Lines, At

\* Where nothing else has the hash of a name, these are the lines of that name.
LEMMA AloneMeansNamed ==
    ASSUME NEW s \in Spellings, Alone(s)
    PROVE  Lines(s) = Named(s)
    BY NamesAssumption DEF Alone, Lines, Named

\* With the slots in order the two positional readers are right, and the key of a
\* line is that of the first one with its hash (getSpecialHeader).
LEMMA OrderRead == IInv /\ HeapInv => InOrder
<1>1. SUFFICES ASSUME IInv, HeapInv, arrived # <<>>
               PROVE  InOrder
    BY DEF InOrder
<1>2. PICK L \in Nat \ {0} : /\ L = Len(arrived) /\ headerPairCount = L /\ Counted = 0..L - 1
                             /\ \A n \in 0..L - 1 : Line(n) = arrived[n + 1]
    BY <1>1, ResponseLines DEF IInv
<1>3. headerBufSize \in Nat /\ L <= headerBufSize
    BY <1>1, <1>2 DEF HeapInv, TypeOK
<1>4. ValueAt(0) = arrived[1] /\ KeyAt(0) = Null /\ ValueAt(L) = Null
  <2>1. headerPairs[0].key = Line(0) /\ Line(0) = arrived[1]
    BY <1>1, <1>2 DEF HeapInv, LineInv
  <2>2. QED
    BY <1>2, <1>3, <2>1 DEF ValueAt, KeyAt, HeaderNth, SpecialHeader, Slot, Line
<1>5. ASSUME NEW n \in 1..L - 1, NEW name, name = blocks[arrived[n + 1]].name
      PROVE  /\ ValueAt(n) = arrived[n + 1]
             /\ \E f \in Lines(name) :
                   /\ KeyAt(n) = arrived[f] /\ \A m \in Lines(name) : f <= m
                   /\ Alone(name) => f \in Named(name)
  <2>1. n \in Counted /\ n > 0 /\ Line(n) = arrived[n + 1]
    BY <1>2
  <2>2. ValueAt(n) = Line(n) /\ KeyAt(n) = headerPairs[n].key
    BY <1>2, <1>3 DEF ValueAt, KeyAt, HeaderNth, SpecialHeader, Slot, Line
  <2>3. NameAt(n) = name
    BY <1>5, <2>1 DEF NameAt
  <2>4. PICK H : H = Hash[name]
    OBVIOUS
  <2>5. name \in Spellings /\ H \in DOMAIN headers /\ headerPairs[n].key = headers[H].key
    BY <1>1, <2>1, <2>3, <2>4 DEF HeapInv, LineInv
  <2>6. PICK g \in Counted : FirstAt(H, g) /\ headers[H].key = Line(g)
    BY <1>1, <2>5 DEF HeapInv, RingInv
  <2>7. g \in Places(H) /\ \A m \in Places(H) : g <= m
    BY <2>6 DEF FirstAt
  <2>8. g + 1 \in 1..L /\ (g + 1) - 1 = g /\ Line(g) = arrived[g + 1]
    BY <1>2, <2>6
  <2>9. \A m \in 1..L : m \in Lines(name) <=> m - 1 \in Places(H)
    BY <1>1, <1>2, <2>4, <2>5, LinesArePlaces, Zenon DEF At, IInv
  <2>10. g + 1 \in Lines(name)
    BY <2>7, <2>8, <2>9
  <2>11. \A m \in Lines(name) : g + 1 <= m
    <3>1. TAKE m \in Lines(name)
    <3>2. m \in 1..L
      BY <1>2 DEF Lines
    <3>3. g <= m - 1
      BY <2>7, <2>9, <3>2
    <3>4. QED
      BY <1>2, <2>6, <3>2, <3>3
  <2>12. Alone(name) => g + 1 \in Named(name)
    BY <2>10 DEF Alone
  <2>13. QED
    BY <2>1, <2>2, <2>5, <2>6, <2>8, <2>10, <2>11, <2>12
<1>6. QED
    BY <1>2, <1>4, <1>5 DEF InOrder

\* The two invariants hold together, for any hash.
LEMMA LinesInvariant == Spec => [](IInv /\ HeapInv)
<1>1. Init => IInv /\ HeapInv
  <2>1. Init => OrderInv
    BY DEF Init, OrderInv
  <2>2. QED
    BY <2>1, TypeInit, HeapInit DEF IInv
<1>2. IInv /\ HeapInv /\ [Next]_vars => IInv' /\ HeapInv'
    BY OrderStep, HeapStep
<1>3. QED
    BY <1>1, <1>2, PTL DEF Spec

\* Positions give the lines of the current response in order of arrival, and their
\* names, for any names, hash, sizes and sequences of responses (InOrder).
THEOREM ArrivalOrder == Spec => []InOrder
<1>1. QED
    BY LinesInvariant, OrderRead, PTL

\* The map leads to the last line taken for a name (getHeader).
LEMMA LastRead ==
    ASSUME HeapInv, OrderInv, arrived # <<>>, NEW s \in Spellings
    PROVE  LastOf(ValueOf(s), Lines(s))
<1>1. /\ headerPairCount = Len(arrived) /\ Len(arrived) \in Nat \ {0}
      /\ \A n \in 0..Len(arrived) - 1 : Line(n) = arrived[n + 1]
    BY DEF HeapInv, TypeOK, OrderInv, Line
<1>2. PICK H : H = Hash[s]
    OBVIOUS
<1>3. ASSUME NEW n \in 1..Len(arrived)
      PROVE  n \in Lines(s) <=> n - 1 \in Places(H)
    BY <1>2, LinesArePlaces, Zenon DEF At
<1>4. CASE H \notin DOMAIN headers
  <2>1. Places(H) = {}
    BY <1>4 DEF HeapInv, LineInv, Places
  <2>2. Lines(s) = {}
    BY <1>3, <2>1 DEF Lines
  <2>3. ValueOf(s) = Null
    BY <1>2, <1>4 DEF ValueOf, Found
  <2>4. QED
    BY <2>2, <2>3 DEF LastOf
<1>5. CASE H \in DOMAIN headers
  <2>1. PICK l \in Counted : LastAt(H, l) /\ headers[H].value = Line(l)
    BY <1>5 DEF HeapInv, RingInv
  <2>2. l \in Places(H) /\ \A m \in Places(H) : m <= l
    BY <2>1 DEF LastAt
  <2>3. l + 1 \in 1..Len(arrived) /\ (l + 1) - 1 = l /\ l \in 0..Len(arrived) - 1
    BY <1>1, <2>1 DEF Counted
  <2>4. l + 1 \in Lines(s)
    BY <1>3, <2>2, <2>3
  <2>5. \A m \in Lines(s) : m <= l + 1
    <3>1. TAKE m \in Lines(s)
    <3>2. m \in 1..Len(arrived)
      BY DEF Lines
    <3>3. m - 1 <= l
      BY <1>3, <2>2, <3>2
    <3>4. QED
      BY <1>1, <2>3, <3>2, <3>3
  <2>6. ValueOf(s) = arrived[l + 1]
    BY <1>1, <1>2, <1>5, <2>1, <2>3 DEF ValueOf, Found, EntryOf
  <2>7. QED
    BY <2>4, <2>5, <2>6 DEF LastOf
<1>6. QED
    BY <1>4, <1>5

\* getResponseHeader(name) gives the last value that came under the hash of the name,
\* which is the last of that name unless the response has another name of that hash,
\* for any names, hash and sequences of responses (LastValueByName).
THEOREM LastOfName == Spec => []LastValueByName
<1>1. IInv /\ HeapInv => LastValueByName
  <2>1. SUFFICES ASSUME IInv, HeapInv, arrived # <<>>, NEW s \in Spellings
                 PROVE  /\ LastOf(ValueOf(s), Lines(s))
                        /\ Alone(s) => LastOf(ValueOf(s), Named(s))
    BY DEF LastValueByName
  <2>2. LastOf(ValueOf(s), Lines(s))
    BY <2>1, LastRead DEF IInv
  <2>3. QED
    BY <2>2, AloneMeansNamed
<1>2. QED
    BY <1>1, LinesInvariant, PTL

-----------------------------------------------------------------------------
(* The rings, as getResponseHeaders goes along them. *)

\* A set of numbers has a least one.
LEMMA Least ==
    ASSUME NEW S \in SUBSET Nat, S # {}
    PROVE  \E i \in S : \A j \in S : i <= j
<1> DEFINE R == OpToRel(<, Nat)
<1>1. IsWellFoundedOn(R, Nat)
    BY NatLessThanWellFounded, Zenon
<1>2. \A x, y \in Nat : x < y => <<x, y>> \in R
    BY DEF OpToRel
<1> HIDE DEF R
<1>3. PICK i \in S : \A j \in S : ~(<<j, i>> \in R)
    BY <1>1, WFMin, Zenon
<1>4. ASSUME NEW j \in S
      PROVE  ~(j < i)
  <2>1. j \in Nat /\ i \in Nat
    OBVIOUS
  <2>2. QED
    BY <1>2, <1>3, <2>1, Zenon
<1>5. QED
    BY <1>4

\* The first n steps from a block.
Steps(b, n, f) == f = [k \in 0..n |-> IF k = 0 THEN b ELSE blocks[f[k - 1]].ref]

\* There is a way of any length from a block.
LEMMA StepsExist == \A b : \A n \in Nat : \E f : Steps(b, n, f)
<1>1. SUFFICES ASSUME NEW b, NEW m \in Nat, ~ \E f : Steps(b, m, f)
               PROVE  FALSE
    OBVIOUS
<1> DEFINE S == {n \in Nat : ~ \E f : Steps(b, n, f)}
<1>2. PICK n \in S : \A j \in S : n <= j
  <2>1. S \in SUBSET Nat /\ S # {}
    BY <1>1
  <2> HIDE DEF S
  <2>2. QED
    BY <2>1, Least
<1>3. n # 0
  <2>1. PICK f : f = [k \in 0..0 |-> b]
    OBVIOUS
  <2>2. Steps(b, 0, f)
    BY <2>1 DEF Steps
  <2>3. QED
    BY <2>2
<1>4. n - 1 \in Nat /\ n - 1 \notin S
    BY <1>2, <1>3
<1>5. PICK f : Steps(b, n - 1, f)
    BY <1>4
<1>6. PICK g : g = [k \in 0..n |-> IF k = n THEN blocks[f[n - 1]].ref ELSE f[k]]
    OBVIOUS
<1>7. ASSUME NEW k \in 0..n
      PROVE  g[k] = IF k = 0 THEN b ELSE blocks[g[k - 1]].ref
  <2>1. CASE k = n
    BY <1>3, <1>4, <1>6, <2>1
  <2>2. CASE k # n
    <3>1. k \in 0..n - 1 /\ g[k] = f[k]
      BY <1>4, <1>6, <2>2
    <3>2. f[k] = IF k = 0 THEN b ELSE blocks[f[k - 1]].ref
      BY <1>5, <3>1 DEF Steps
    <3>3. k # 0 => k - 1 \in 0..n /\ k - 1 # n /\ g[k - 1] = f[k - 1]
      BY <1>4, <1>6, <3>1
    <3>4. QED
      BY <3>1, <3>2, <3>3
  <2>3. QED
    BY <2>1, <2>2
<1>8. g = [k \in 0..n |-> IF k = 0 THEN b ELSE blocks[g[k - 1]].ref]
    BY <1>6, <1>7
<1>9. QED
    BY <1>8 DEF Steps

\* The way along a ring begins at the block and follows ref.
LEMMA AlongRef ==
    ASSUME NEW b
    PROVE  /\ Along(b)[0] = b
           /\ \A k \in Nat : Along(b)[k + 1] = blocks[Along(b)[k]].ref
<1> DEFINE Way(n) == CHOOSE f : Steps(b, n, f)
<1>1. ASSUME NEW n \in Nat
      PROVE  Way(n) = [k \in 0..n |-> IF k = 0 THEN b ELSE blocks[Way(n)[k - 1]].ref]
  <2>1. Steps(b, n, Way(n))
    BY StepsExist
  <2>2. QED
    BY <2>1, Zenon DEF Steps
<1>2. ASSUME NEW n \in Nat, NEW k \in 0..n
      PROVE  Way(n)[k] = IF k = 0 THEN b ELSE blocks[Way(n)[k - 1]].ref
  <2> HIDE DEF Way
  <2>1. QED
    BY <1>1
<1> HIDE DEF Way
<1>3. \A k \in Nat : \A n \in Nat : k <= n => Way(n)[k] = Way(k)[k]
  <2> DEFINE S == {k \in Nat : \E n \in Nat : k <= n /\ Way(n)[k] # Way(k)[k]}
  <2>1. SUFFICES ASSUME S # {}
                 PROVE  FALSE
    OBVIOUS
  <2>2. PICK k \in S : \A j \in S : k <= j
    <3>1. S \in SUBSET Nat
      OBVIOUS
    <3> HIDE DEF S
    <3>2. QED
      BY <2>1, <3>1, Least
  <2>3. PICK n \in Nat : k \in Nat /\ k <= n /\ Way(n)[k] # Way(k)[k]
    BY <2>2
  <2>4. k # 0
    BY <1>2, <2>3
  <2>5. k - 1 \in Nat /\ k - 1 \notin S
    BY <2>2, <2>3, <2>4
  <2>6. Way(n)[k - 1] = Way(k - 1)[k - 1] /\ Way(k)[k - 1] = Way(k - 1)[k - 1]
    BY <2>3, <2>5
  <2>7. Way(n)[k] = blocks[Way(n)[k - 1]].ref /\ Way(k)[k] = blocks[Way(k)[k - 1]].ref
    BY <1>2, <2>3, <2>4
  <2>8. QED
    BY <2>3, <2>6, <2>7
<1>4. PICK g : g = [k \in Nat |-> Way(k)[k]]
    OBVIOUS
<1>5. ASSUME NEW k \in Nat
      PROVE  g[k] = IF k = 0 THEN b ELSE blocks[g[k - 1]].ref
  <2>1. g[k] = IF k = 0 THEN b ELSE blocks[Way(k)[k - 1]].ref
    BY <1>2, <1>4
  <2>2. k # 0 => k - 1 \in Nat /\ g[k - 1] = Way(k - 1)[k - 1] /\ Way(k)[k - 1] = Way(k - 1)[k - 1]
    BY <1>3, <1>4
  <2>3. QED
    BY <2>1, <2>2
<1>6. g = [k \in Nat |-> IF k = 0 THEN b ELSE blocks[g[k - 1]].ref]
    BY <1>4, <1>5
<1>7. Along(b) = [k \in Nat |-> IF k = 0 THEN b ELSE blocks[Along(b)[k - 1]].ref]
    BY <1>6, Zenon DEF Along
<1>8. PICK a : a = Along(b)
    OBVIOUS
<1>9. \A k \in Nat : a[k] = IF k = 0 THEN b ELSE blocks[a[k - 1]].ref
    BY <1>7, <1>8
<1>10. a[0] = b
    BY <1>9
<1>11. ASSUME NEW k \in Nat
       PROVE  a[k + 1] = blocks[a[k]].ref
  <2>1. k + 1 \in Nat /\ k + 1 # 0 /\ (k + 1) - 1 = k
    OBVIOUS
  <2>2. QED
    BY <1>9, <2>1
<1>12. QED
    BY <1>8, <1>10, <1>11

\* Different slots hold different blocks.
LEMMA OneSlotEach ==
    ASSUME TypeOK, LineInv
    PROVE  \A m, n \in Counted : Line(m) = Line(n) => m = n
<1>1. \A n \in Counted : n \in Nat /\ Line(n) \in Int
    BY DEF LineInv, TypeOK, Counted, Block
<1>2. \A m, n \in Counted : m < n => Line(m) < Line(n)
    BY DEF LineInv
<1>3. SUFFICES ASSUME NEW m \in Counted, NEW n \in Counted, Line(m) = Line(n), m # n
               PROVE  FALSE
    OBVIOUS
<1>4. m < n \/ n < m
    BY <1>1, <1>3
<1>5. QED
    BY <1>1, <1>2, <1>3, <1>4

\* In at most m steps the way a from a block leads to v, over counted lines other than v.
LeadsTo(a, v, m) ==
    \E k \in 1..m :
        /\ a[k] = v
        /\ \A j \in 1..k - 1 : \E n \in Counted : a[j] = Line(n) /\ a[j] # v

\* Along a ring every line of the name comes before the ring closes, in no more steps
\* than there are slots.
LEMMA RingReaches ==
    ASSUME HeapInv, NEW h \in DOMAIN headers, NEW v, v = headers[h].value,
           NEW a, a = Along(v), NEW l \in Counted, LastAt(h, l), v = Line(l)
    PROVE  LeadsTo(a, v, l)
<1>0. TypeOK /\ LineInv /\ RingInv
    BY DEF HeapInv
<1>1. a[0] = v /\ \A k \in Nat : a[k + 1] = blocks[a[k]].ref
    BY AlongRef
<1>2. /\ l \in Places(h) /\ \A n \in Places(h) : n <= l
      /\ \A n \in Places(h) : n \in Counted /\ n \in Nat \ {0}
    BY <1>0 DEF LastAt, Places, Counted, TypeOK
\* the last place up to m is reached, and what lies before it is not the block itself
<1> DEFINE Reached(p) ==
               \E k \in 1..p :
                   /\ a[k] = Line(p)
                   /\ \A j \in 1..k - 1 : \E n \in Counted : a[j] = Line(n) /\ a[j] # v
           Q(m) == \/ \A n \in Places(h) : n > m
                   \/ \E p \in Places(h) :
                         /\ p <= m
                         /\ \A n \in Places(h) : n <= m => n <= p
                         /\ Reached(p)
<1>3. ASSUME NEW m \in Nat \ {0}, Q(m - 1)
      PROVE  Q(m)
  <2>1. CASE m \notin Places(h)
    <3>1. \A n \in Places(h) : (n > m - 1 <=> n > m) /\ (n <= m <=> n <= m - 1)
      BY <1>2, <2>1
    <3> HIDE DEF Reached
    <3>2. QED
      BY <1>3, <3>1
  <2>2. CASE m \in Places(h) /\ \A n \in Places(h) : n > m - 1
    <3>1. FirstAt(h, m)
      BY <1>2, <2>2 DEF FirstAt
    <3>2. blocks[v].ref = Line(m)
      BY <1>0, <1>2, <2>2, <3>1 DEF RingInv
    <3>3. a[1] = Line(m)
      <4>1. 0 \in Nat /\ 0 + 1 = 1
        OBVIOUS
      <4>2. QED
        BY <1>1, <3>2, <4>1
    <3>4. 1 \in 1..m /\ \A j \in 1..1 - 1 : FALSE
      BY <1>2, <2>2
    <3>5. Reached(m)
      BY <3>3, <3>4
    <3> HIDE DEF Reached
    <3>6. QED
      BY <2>2, <3>5
  <2>3. CASE /\ m \in Places(h)
             /\ \E p \in Places(h) :
                   /\ p <= m - 1
                   /\ \A n \in Places(h) : n <= m - 1 => n <= p
                   /\ Reached(p)
    <3> HIDE DEF Reached
    <3>1. PICK p \in Places(h) : /\ p <= m - 1
                                 /\ \A n \in Places(h) : n <= m - 1 => n <= p
                                 /\ Reached(p)
      BY <2>3
    <3>2. p < m /\ p # l
      BY <1>2, <2>3, <3>1
    <3>3. NextAt(h, p, m)
      BY <1>2, <3>1, <3>2 DEF NextAt
    <3>4. blocks[Line(p)].ref = Line(m)
      BY <1>0, <2>3, <3>3 DEF RingInv
    <3>5. Line(p) # v
      BY <1>0, <1>2, <3>2, OneSlotEach
    <3> USE DEF Reached
    <3>6. PICK k \in 1..p :
              /\ a[k] = Line(p)
              /\ \A j \in 1..k - 1 : \E n \in Counted : a[j] = Line(n) /\ a[j] # v
      BY <3>1
    <3>7. k \in Nat /\ k + 1 \in 1..m /\ (k + 1) - 1 = k
      BY <1>2, <3>2, <3>6
    <3>8. a[k + 1] = Line(m)
      BY <1>1, <3>4, <3>6, <3>7
    <3>9. ASSUME NEW j \in 1..k
          PROVE  \E n \in Counted : a[j] = Line(n) /\ a[j] # v
      <4>1. CASE j = k
        BY <1>2, <3>5, <3>6, <4>1
      <4>2. CASE j # k
        <5>1. j \in 1..k - 1
          BY <3>7, <4>2
        <5>2. QED
          BY <3>6, <5>1
      <4>3. QED
        BY <4>1, <4>2
    <3>10. Reached(m)
      BY <3>7, <3>8, <3>9
    <3> HIDE DEF Reached
    <3>11. \A n \in Places(h) : n <= m => n <= m
      OBVIOUS
    <3>12. QED
      BY <2>3, <3>10, <3>11
  <2>4. QED
    BY <1>3, <2>1, <2>2, <2>3
<1>4. Q(0)
    BY <1>2
<1> HIDE DEF Q
<1>5. Q(l)
  <2> DEFINE S == {m \in Nat : ~Q(m)}
  <2>1. SUFFICES S = {}
    BY <1>2
  <2>2. SUFFICES ASSUME S # {}
                 PROVE  FALSE
    OBVIOUS
  <2>3. PICK m \in S : \A j \in S : m <= j
    <3>1. S \in SUBSET Nat
      OBVIOUS
    <3> HIDE DEF S
    <3>2. QED
      BY <2>2, <3>1, Least
  <2>4. m \in Nat \ {0} /\ ~Q(m)
    BY <1>4, <2>3
  <2>5. m - 1 \in Nat /\ m - 1 \notin S
    BY <2>3, <2>4
  <2>6. QED
    BY <1>3, <2>4, <2>5
<1>6. PICK p \in Places(h) : /\ p <= l
                             /\ \A n \in Places(h) : n <= l => n <= p
                             /\ Reached(p)
  <2> HIDE DEF Reached
  <2>1. \/ \A n \in Places(h) : n > l
        \/ \E p \in Places(h) : p <= l /\ (\A n \in Places(h) : n <= l => n <= p) /\ Reached(p)
    BY <1>5 DEF Q
  <2>2. QED
    BY <1>2, <2>1
<1>7. p = l
    BY <1>2, <1>6
<1>8. QED
    BY <1>6, <1>7 DEF LeadsTo

\* The ring of an entry closes, and goes through counted lines only (getResponseHeaders).
LEMMA RingCloses ==
    ASSUME HeapInv, NEW h \in DOMAIN headers, NEW v, v = headers[h].value
    PROVE  /\ \E k \in Block : Closes(v, k)
           /\ \A i \in DOMAIN Ring(v) : \E n \in Counted : Ring(v)[i] = Line(n)
<1>0. TypeOK /\ LineInv /\ RingInv
    BY DEF HeapInv
<1>1. PICK l \in Counted : LastAt(h, l) /\ v = Line(l)
    BY <1>0 DEF RingInv
<1>2. PICK a : a = Along(v)
    OBVIOUS
<1>3. PICK k \in 1..l :
          /\ a[k] = v
          /\ \A j \in 1..k - 1 : \E n \in Counted : a[j] = Line(n) /\ a[j] # v
  <2>1. LastAt(h, l)
    BY <1>1
  <2>2. v = Line(l)
    BY <1>1
  <2>3. LeadsTo(a, v, l)
    BY <1>2, <2>1, <2>2, RingReaches, Zenon
  <2>4. QED
    BY <2>3 DEF LeadsTo
<1>4. k \in Block /\ Len(blocks) \in Nat /\ l \in Nat
    BY <1>0, <1>1, <1>3 DEF LineInv, TypeOK, Counted, Block
<1>5. \A j \in 1..k - 1 : a[j] \in Block \ {v}
    BY <1>0, <1>3 DEF LineInv
<1>6. Closes(v, k)
    BY <1>2, <1>3, <1>5 DEF Closes
<1>7. PICK c : c = CHOOSE i \in Block : Closes(v, i)
    OBVIOUS
<1>8. c \in Block /\ Closes(v, c)
    BY <1>4, <1>6, <1>7
<1>9. c = k
  <2>1. /\ a[c] = v /\ \A j \in 1..c - 1 : a[j] \in Block \ {v}
    BY <1>2, <1>8 DEF Closes
  <2>2. ~(c < k) /\ ~(k < c)
    BY <1>3, <1>4, <1>5, <1>8, <2>1 DEF Block
  <2>3. QED
    BY <1>4, <1>8, <2>2 DEF Block
<1>10. Ring(v) = [i \in 1..k |-> a[i - 1]]
    BY <1>2, <1>7, <1>9 DEF Ring
<1>11. ASSUME NEW i \in 1..k
       PROVE  \E n \in Counted : a[i - 1] = Line(n)
  <2>1. CASE i = 1
    <3>1. a[0] = v
      BY <1>2, AlongRef
    <3>2. i - 1 = 0
      BY <2>1
    <3>3. QED
      BY <1>1, <3>1, <3>2
  <2>2. CASE i # 1
    <3>1. i - 1 \in 1..k - 1
      BY <1>4, <2>2
    <3>2. QED
      BY <1>3, <3>1
  <2>3. QED
    BY <2>1, <2>2
<1>12. QED
    BY <1>4, <1>6, <1>10, <1>11

\* The readers meet counted lines only, and those are not freed.
LEMMA HeapReads == HeapInv => NothingFreedReachable
<1>1. SUFFICES ASSUME HeapInv PROVE NothingFreedReachable
    OBVIOUS
<1>2. TypeOK /\ LineInv /\ RingInv
    BY <1>1 DEF HeapInv
<1>3. \A n \in Counted : Line(n) \notin freed
    BY <1>2 DEF LineInv
<1>4. \A h \in DOMAIN headers : headers[h].key \notin freed
    BY <1>2, <1>3 DEF RingInv
<1>5. ASSUME NEW n \in 0..headerPairCount - 1
      PROVE  Slot(n).val \notin freed /\ Slot(n).key \notin freed
  <2>1. n \in Counted /\ n < headerBufSize
    BY <1>2 DEF Counted, TypeOK
  <2>2. Slot(n) = headerPairs[n]
    BY <2>1 DEF Slot
  <2>3. headerPairs[n].val \notin freed
    BY <1>3, <2>1 DEF Line
  <2>4. headerPairs[n].key \notin freed
    <3>1. CASE n = 0
      BY <1>2, <1>3, <2>1, <3>1 DEF LineInv
    <3>2. CASE n # 0
      <4>1. n > 0
        BY <3>2 DEF Counted
      <4>2. QED
        BY <1>2, <1>4, <2>1, <4>1 DEF LineInv
    <3>3. QED
      BY <3>1, <3>2
  <2>5. QED
    BY <2>2, <2>3, <2>4
<1>6. ASSUME NEW h \in DOMAIN headers
      PROVE  /\ \E k \in Block : Closes(headers[h].value, k)
             /\ \A i \in DOMAIN Ring(headers[h].value) : Ring(headers[h].value)[i] \notin freed
  <2>1. PICK v : v = headers[h].value
    OBVIOUS
  <2>2. /\ \E k \in Block : Closes(v, k)
        /\ \A i \in DOMAIN Ring(v) : \E n \in Counted : Ring(v)[i] = Line(n)
    BY <1>1, <2>1, RingCloses
  <2>3. \A i \in DOMAIN Ring(v) : Ring(v)[i] \notin freed
    BY <1>3, <2>2
  <2>4. QED
    BY <2>1, <2>2, <2>3
<1>7. QED
    BY <1>4, <1>5, <1>6 DEF NothingFreedReachable

\* No reader reaches a block that releaseHeaders has freed, through the slots, the map or
\* the rings, and every ring closes, for any names, hashes, sizes and sequences of
\* responses (NothingFreedReachable).
THEOREM NoUseAfterFree == Spec => []NothingFreedReachable
<1>1. HeapInv /\ [Next]_vars => HeapInv'
    BY HeapStep
<1>2. QED
    BY <1>1, HeapInit, HeapReads, PTL DEF Spec

-----------------------------------------------------------------------------
(* All headers at once: the lines of each hash are numbered in order of    *)
(* arrival, a walk over the map writes them group after group, and         *)
(* getHeaderFields reads the groups back.                                  *)

\* The i-th of finitely many numbers: each of them is the i-th for one i, and they are in order.
LEMMA NthIsInOrder ==
    ASSUME NEW S \in SUBSET Nat, IsFiniteSet(S), NEW r, r = Cardinality(S)
    PROVE  /\ r \in Nat
           /\ \A i \in 1..r : Nth(S, i) \in S
           /\ \A i, j \in 1..r : i < j => Nth(S, i) < Nth(S, j)
           /\ \A n \in S : \E i \in 1..r : n = Nth(S, i)
<1> DEFINE upTo(n) == {m \in S : m <= n}
<1>1. r \in Nat /\ \A n \in S : /\ n \in Nat /\ IsFiniteSet(upTo(n))
                                /\ Cardinality(upTo(n)) \in Nat
                                /\ Cardinality(upTo(n)) <= r
  <2>1. r \in Nat
    BY FS_CardinalityType
  <2>2. ASSUME NEW n \in S
        PROVE  IsFiniteSet(upTo(n)) /\ Cardinality(upTo(n)) \in Nat /\ Cardinality(upTo(n)) <= r
    <3>1. upTo(n) \in SUBSET S
      OBVIOUS
    <3> HIDE DEF upTo
    <3>2. IsFiniteSet(upTo(n)) /\ Cardinality(upTo(n)) <= r
      BY <3>1, FS_Subset
    <3>3. QED
      BY <3>2, FS_CardinalityType
  <2>3. QED
    BY <2>1, <2>2
<1>2. \A n \in S : Cardinality(upTo(n)) \in 1..r
  <2>1. TAKE n \in S
  <2>2. n \in upTo(n)
    BY <1>1
  <2> HIDE DEF upTo
  <2>3. Cardinality(upTo(n)) # 0
    BY <1>1, <2>2, FS_EmptySet
  <2>4. QED
    BY <1>1, <2>3
<1>3. \A m, n \in S : m < n => Cardinality(upTo(m)) < Cardinality(upTo(n))
  <2>1. TAKE m, n \in S
  <2>2. SUFFICES ASSUME m < n
                 PROVE  Cardinality(upTo(m)) < Cardinality(upTo(n))
    OBVIOUS
  <2>3. upTo(m) \in SUBSET upTo(n) /\ n \in upTo(n) /\ n \notin upTo(m)
    <3>1. m \in Nat /\ n \in Nat
      OBVIOUS
    <3>2. \A k \in S : k \in Nat /\ (k <= m => k <= n)
      BY <2>2, <3>1
    <3>3. ~(n <= m) /\ n <= n
      BY <2>2, <3>1
    <3>4. QED
      BY <3>2, <3>3, Zenon
  <2> HIDE DEF upTo
  <2>4. Cardinality(upTo(m)) <= Cardinality(upTo(n)) /\ Cardinality(upTo(m)) # Cardinality(upTo(n))
    BY <1>1, <2>3, FS_Subset
  <2>5. QED
    BY <1>1, <2>4
<1>4. PICK f : f = [n \in S |-> Cardinality(upTo(n))]
    OBVIOUS
<1>5. \A n \in S : f[n] = Cardinality(upTo(n)) /\ f[n] \in 1..r
    BY <1>2, <1>4
<1>6. f \in Surjection(S, 1..r)
  <2>1. f \in [S -> 1..r]
    BY <1>2, <1>4
  <2>2. \A m, n \in S : f[m] = f[n] => m = n
    <3>1. TAKE m, n \in S
    <3>2. SUFFICES ASSUME f[m] = f[n], m # n
                   PROVE  FALSE
      OBVIOUS
    <3>3. m < n \/ n < m
      BY <1>1, <3>2
    <3> HIDE DEF upTo
    <3>4. QED
      BY <1>1, <1>3, <1>5, <3>2, <3>3
  <2>3. f \in Injection(S, 1..r)
    BY <2>1, <2>2 DEF Injection, IsInjective
  <2>4. IsFiniteSet(1..r) /\ Cardinality(1..r) = r
    BY <1>1, FS_Interval
  <2>5. QED
    BY <2>3, <2>4, FS_Injection
<1>7. \A i \in 1..r : Nth(S, i) \in S /\ f[Nth(S, i)] = i
  <2>1. TAKE i \in 1..r
  <2>2. PICK n \in S : f[n] = i
    BY <1>6 DEF Surjection
  <2>3. Cardinality({m \in S : m <= n}) = i
    BY <1>5, <2>2
  <2>4. Nth(S, i) \in S /\ Cardinality({m \in S : m <= Nth(S, i)}) = i
    BY <2>3 DEF Nth
  <2>5. QED
    BY <1>5, <2>4
<1> HIDE DEF upTo
<1>8. \A i, j \in 1..r : i < j => Nth(S, i) < Nth(S, j)
  <2>1. TAKE i, j \in 1..r
  <2>2. SUFFICES ASSUME i < j, ~(Nth(S, i) < Nth(S, j))
                 PROVE  FALSE
    OBVIOUS
  <2>3. PICK m \in S, n \in S : m = Nth(S, i) /\ n = Nth(S, j) /\ f[m] = i /\ f[n] = j
    BY <1>7
  <2>4. n < m \/ n = m
    BY <1>1, <2>2, <2>3
  <2>5. QED
    BY <1>1, <1>3, <1>5, <2>2, <2>3, <2>4
<1>9. \A n \in S : \E i \in 1..r : n = Nth(S, i)
  <2>1. TAKE n \in S
  <2>2. PICK i : i = f[n]
    OBVIOUS
  <2>3. PICK m \in S : m = Nth(S, i) /\ f[m] = i
    BY <1>5, <1>7, <2>2
  <2>4. m = n
    BY <1>1, <1>3, <1>5, <2>2, <2>3
  <2>5. QED
    BY <1>5, <2>2, <2>3, <2>4
<1>10. QED
    BY <1>1, <1>7, <1>8, <1>9

\* The first n parts of some sequences put together.
Joined(q, n, f) == f = [i \in 1..n |-> IF i = 1 THEN q[i] ELSE f[i-1] \o q[i]]

\* Any number of sequences can be put together.
LEMMA JoinedExists == \A q : \A n \in Nat : \E f : Joined(q, n, f)
<1>1. SUFFICES ASSUME NEW q, NEW m \in Nat, ~ \E f : Joined(q, m, f)
               PROVE  FALSE
    OBVIOUS
<1> DEFINE S == {n \in Nat : ~ \E f : Joined(q, n, f)}
<1>2. PICK n \in S : \A j \in S : n <= j
  <2>1. S \in SUBSET Nat /\ S # {}
    BY <1>1
  <2> HIDE DEF S
  <2>2. QED
    BY <2>1, Least
<1>3. n # 0
  <2>1. PICK f : f = [k \in 1..0 |-> 0]
    OBVIOUS
  <2>2. f = [i \in 1..0 |-> IF i = 1 THEN q[i] ELSE f[i-1] \o q[i]]
    BY <2>1
  <2>3. QED
    BY <2>2 DEF Joined
<1>4. n - 1 \in Nat /\ n - 1 \notin S
    BY <1>2, <1>3
<1>5. PICK f : Joined(q, n - 1, f)
    BY <1>4
<1>6. PICK g : g = [k \in 1..n |-> IF k = n THEN (IF n = 1 THEN q[n] ELSE f[n - 1] \o q[n]) ELSE f[k]]
    OBVIOUS
<1>7. ASSUME NEW k \in 1..n
      PROVE  g[k] = IF k = 1 THEN q[k] ELSE g[k - 1] \o q[k]
  <2>1. CASE k = n
    <3>1. k # 1 => k - 1 \in 1..n /\ k - 1 # n /\ g[k - 1] = f[k - 1]
      BY <1>4, <1>6, <2>1
    <3>2. g[k] = IF n = 1 THEN q[n] ELSE f[n - 1] \o q[n]
      BY <1>6, <2>1
    <3>3. QED
      BY <2>1, <3>1, <3>2
  <2>2. CASE k # n
    <3>1. k \in 1..n - 1 /\ g[k] = f[k]
      BY <1>4, <1>6, <2>2
    <3>2. f[k] = IF k = 1 THEN q[k] ELSE f[k - 1] \o q[k]
      BY <1>5, <3>1 DEF Joined
    <3>3. k # 1 => k - 1 \in 1..n /\ k - 1 # n /\ g[k - 1] = f[k - 1]
      BY <1>4, <1>6, <3>1
    <3>4. QED
      BY <3>1, <3>2, <3>3
  <2>3. QED
    BY <2>1, <2>2
<1>8. g = [k \in 1..n |-> IF k = 1 THEN q[k] ELSE g[k - 1] \o q[k]]
    BY <1>6, <1>7, ZenonT(30)
<1>9. QED
    BY <1>8, Zenon DEF Joined

\* n sequences over T, and where each of them ends when they are put together
Parts(q, n, T, ends) ==
    /\ n \in Nat \ {0} /\ Len(q) = n /\ \A i \in 1..n : q[i] \in Seq(T)
    /\ ends \in [0..n -> Nat] /\ ends[0] = 0
    /\ \A i \in 1..n : ends[i] = ends[i - 1] + Len(q[i])

\* w has each of the sequences in its place
Whole(w, q, n, T, ends) ==
    /\ w \in Seq(T) /\ Len(w) = ends[n]
    /\ \A i \in 1..n : \A k \in 1..Len(q[i]) : w[ends[i - 1] + k] = q[i][k]

\* Where the parts are when sequences are put together, given where each of them ends.
LEMMA Flattened ==
    ASSUME NEW T, NEW n, NEW q, NEW ends, Parts(q, n, T, ends)
    PROVE  Whole(FlattenSeq(q), q, n, T, ends)
<1> SUFFICES ASSUME n \in Nat \ {0}, Len(q) = n, \A i \in 1..n : q[i] \in Seq(T),
                    ends \in [0..n -> Nat], ends[0] = 0,
                    \A i \in 1..n : ends[i] = ends[i - 1] + Len(q[i])
             PROVE  /\ FlattenSeq(q) \in Seq(T)
                    /\ Len(FlattenSeq(q)) = ends[n]
                    /\ \A i \in 1..n : \A k \in 1..Len(q[i]) :
                          FlattenSeq(q)[ends[i - 1] + k] = q[i][k]
    BY Zenon DEF Parts, Whole
<1>1. PICK f : Joined(q, n, f) /\ FlattenSeq(q) = f[n]
  <2> DEFINE F == CHOOSE f : Joined(q, Len(q), f)
  <2>1. FlattenSeq(q) = F[Len(q)]
    <3>1. Len(q) # 0
      OBVIOUS
    <3>2. QED
      BY <3>1, Zenon DEF FlattenSeq, Joined
  <2>2. Joined(q, n, F)
    BY JoinedExists
  <2> HIDE DEF F
  <2>3. QED
    BY <2>1, <2>2
<1>2. \A i \in 1..n : f[i] = IF i = 1 THEN q[i] ELSE f[i - 1] \o q[i]
    BY <1>1 DEF Joined
<1>3. \A i \in 1..n : q[i] \in Seq(T) /\ Len(q[i]) \in Nat
    OBVIOUS
<1> DEFINE Sized(i) == f[i] \in Seq(T) /\ Len(f[i]) = ends[i]
           Below(i) == \A j \in 1..i : ends[j] <= ends[i]
           Holds(i) == \A j \in 1..i : \A k \in 1..Len(q[j]) : f[i][ends[j - 1] + k] = q[j][k]
           Put(i) == Sized(i) /\ Below(i) /\ Holds(i)
<1>4. Put(1)
  <2>1. f[1] = q[1] /\ ends[1] = ends[0] + Len(q[1])
    BY <1>2
  <2>2. ends[1] = Len(q[1])
    BY <1>3, <2>1
  <2>3. \A j \in 1..1 : j = 1 /\ ends[j - 1] = 0
    OBVIOUS
  <2>4. \A k \in 1..Len(q[1]) : 0 + k = k
    BY <1>3
  <2>5. ASSUME NEW j \in 1..1, NEW k \in 1..Len(q[j])
        PROVE  f[1][ends[j - 1] + k] = q[j][k]
    <3>1. j = 1 /\ ends[j - 1] = 0 /\ k \in Nat
      BY <1>3, <2>3
    <3>2. ends[j - 1] + k = k
      BY <3>1
    <3>3. QED
      BY <2>1, <3>1, <3>2
  <2>6. Below(1)
    BY <2>2, <1>3
  <2>7. Sized(1)
    BY <1>3, <2>1, <2>2
  <2>8. Holds(1)
    BY <2>5
  <2> HIDE DEF Sized, Below, Holds
  <2>9. QED
    BY <2>6, <2>7, <2>8
<1>5. ASSUME NEW i \in 1..n, i # 1, Put(i - 1)
      PROVE  Put(i)
  <2>1. i - 1 \in 1..n /\ f[i] = f[i - 1] \o q[i] /\ ends[i] = ends[i - 1] + Len(q[i])
    <3> HIDE DEF Put
    <3>1. i # 1
      BY <1>5
    <3>2. i - 1 \in 1..n
      BY ONLY <3>1, i \in 1..n, n \in Nat \ {0}
    <3>3. f[i] = f[i - 1] \o q[i] /\ ends[i] = ends[i - 1] + Len(q[i])
      BY <1>2, <3>1, Zenon
    <3>4. QED
      BY <3>2, <3>3
  <2>2. PICK p \in Seq(T) : p = f[i - 1]
    BY <1>5
  <2>3. PICK r \in Seq(T) : r = q[i]
    BY <1>3
  <2>4. /\ f[i] = p \o r /\ Len(p) = ends[i - 1] /\ ends[i - 1] \in Nat /\ ends[i] \in Nat
        /\ Len(r) \in Nat
    BY <1>5, <2>1, <2>2, <2>3
  <2>5. /\ p \o r \in Seq(T) /\ Len(p \o r) = Len(p) + Len(r)
        /\ \A k \in 1..Len(p) : (p \o r)[k] = p[k]
        /\ \A k \in 1..Len(r) : (p \o r)[Len(p) + k] = r[k]
    OBVIOUS
  <2>6. f[i] \in Seq(T) /\ Len(f[i]) = ends[i]
    BY <2>1, <2>3, <2>4, <2>5
  <2>7. ASSUME NEW j \in 1..i
        PROVE  ends[j] <= ends[i]
    <3>1. CASE j = i
      BY <2>4, <3>1
    <3>2. CASE j # i
      <4>1. j \in 1..i - 1 /\ j \in 0..n
        BY <3>2
      <4>2. ends[j] <= ends[i - 1] /\ ends[j] \in Nat
        BY <1>5, <4>1
      <4>3. ends[i - 1] <= ends[i]
        BY <2>1, <2>3, <2>4
      <4>4. PICK x \in Nat, y \in Nat, z \in Nat : x = ends[j] /\ y = ends[i - 1] /\ z = ends[i]
        BY <2>4, <4>2
      <4>5. x <= y /\ y <= z
        BY <4>2, <4>3, <4>4
      <4>6. x <= z
        BY ONLY <4>5, x \in Nat, y \in Nat, z \in Nat
      <4>7. QED
        BY <4>4, <4>6
    <3>3. QED
      BY <3>1, <3>2
  <2>8. ASSUME NEW j \in 1..i, NEW k \in 1..Len(q[j])
        PROVE  f[i][ends[j - 1] + k] = q[j][k]
    <3>1. CASE j = i
      <4>1. ends[j - 1] = Len(p) /\ q[j] = r /\ k \in 1..Len(r)
        BY <2>3, <2>4, <3>1
      <4>2. (p \o r)[Len(p) + k] = r[k]
        BY <2>5, <4>1, Zenon
      <4>3. QED
        BY <2>4, <4>1, <4>2, Zenon
    <3>2. CASE j # i
      <4>1. j \in 1..i - 1 /\ j \in 1..n /\ j - 1 \in 0..n /\ j \in 0..n
        BY <3>2
      <4>2. ends[j] <= ends[i - 1] /\ ends[j] = ends[j - 1] + Len(q[j])
            /\ f[i - 1][ends[j - 1] + k] = q[j][k]
        BY <1>5, <4>1
      <4>3. ends[j - 1] \in Nat /\ ends[j] \in Nat /\ Len(q[j]) \in Nat
        BY <1>3, <4>1
      <4>4. ends[j - 1] + k \in 1..Len(p)
        <5>1. PICK x \in Nat, y \in Nat, z \in Nat, w \in Nat :
                  x = ends[j - 1] /\ y = ends[j] /\ z = ends[i - 1] /\ w = Len(q[j])
          BY <2>4, <4>3
        <5>2. y <= z /\ y = x + w /\ k \in 1..w /\ z = Len(p)
          BY <2>4, <4>2, <5>1
        <5>3. x + k \in 1..z
          BY ONLY <5>2, x \in Nat, y \in Nat, z \in Nat, w \in Nat
        <5>4. QED
          BY <5>1, <5>2, <5>3
      <4>5. PICK l \in 1..Len(p) : l = ends[j - 1] + k
        BY <4>4
      <4>6. (p \o r)[l] = p[l]
        BY <2>5
      <4>7. f[i][l] = p[l] /\ p[l] = q[j][k]
        BY <2>2, <2>4, <4>2, <4>5, <4>6, Zenon
      <4>8. QED
        BY <4>5, <4>7, Zenon
    <3>3. QED
      BY <3>1, <3>2
  <2>9. Sized(i)
    BY <2>6
  <2>10. Below(i)
    BY <2>7
  <2>11. Holds(i)
    BY <2>8
  <2> HIDE DEF Sized, Below, Holds
  <2>12. QED
    BY <2>9, <2>10, <2>11
<1> HIDE DEF Put
<1>6. Put(n)
  <2> DEFINE S == {i \in Nat : i \in 1..n /\ ~Put(i)}
  <2>1. SUFFICES ASSUME ~Put(n)
                 PROVE  FALSE
    OBVIOUS
  <2>2. PICK i \in S : \A j \in S : i <= j
    <3>1. S \in SUBSET Nat /\ n \in S
      BY <2>1
    <3> HIDE DEF S
    <3>2. QED
      BY <3>1, Least
  <2>3. i \in 1..n /\ ~Put(i) /\ i # 1
    BY <1>4, <2>2
  <2>4. i - 1 \in 1..n /\ i - 1 \notin S
    BY <2>2, <2>3
  <2>5. QED
    BY <1>5, <2>3, <2>4
<1>7. QED
    BY <1>1, <1>6 DEF Put

\* The values of a name end somewhere, at the first null or past the end of the array
\* (the inner loop of getHeaderFields).
LEMMA EndExists ==
    ASSUME NEW a, NEW n \in Nat, n = Len(a), NEW i \in 0..n
    PROVE  /\ EndOf(a, i) \in i + 2..n + 2
           /\ EndOf(a, i) > n \/ a[EndOf(a, i)] = Unset
           /\ \A l \in i + 2..EndOf(a, i) - 1 : l <= n /\ a[l] # Unset
<1> DEFINE S == {j \in i + 2..n + 2 : j > n \/ a[j] = Unset}
<1>1. n + 2 \in S /\ S \in SUBSET Nat
    OBVIOUS
<1>2. PICK j \in S : \A k \in S : j <= k
  <2> HIDE DEF S
  <2>1. QED
    BY <1>1, Least
<1>3. j \in i + 2..n + 2 /\ (j > n \/ a[j] = Unset)
    OBVIOUS
<1>4. \A l \in i + 2..j - 1 : l <= n /\ a[l] # Unset
  <2>1. TAKE l \in i + 2..j - 1
  <2>2. l \in i + 2..n + 2 /\ ~(j <= l)
    BY <1>3
  <2>3. l \notin S
    BY <1>2, <2>2
  <2>4. QED
    BY <2>2, <2>3
<1> HIDE DEF S
<1>5. QED
    BY <1>3, <1>4, Zenon DEF EndOf

\* The loop of getHeaderFields goes from name to name.
LEMMA FieldsFrom ==
    ASSUME NEW a, Len(a) \in Nat
    PROVE  \E f : /\ Fields(a) = f[1]
                  /\ \A i \in Nat : i > Len(a) \/ a[i] = Unset => f[i] = {}
                  /\ \A i \in Nat : ~(i > Len(a) \/ a[i] = Unset) =>
                        f[i] = {FieldAt(a, i)} \union f[EndOf(a, i) + 1]
<1>1. PICK n \in Nat : n = Len(a)
    OBVIOUS
<1>2. PICK Live : Live = {i \in Nat : ~(i > n \/ a[i] = Unset)}
    OBVIOUS
<1>3. PICK e : e = [i \in Nat |-> EndOf(a, i) + 1]
    OBVIOUS
<1>4. \A i \in Live : i \in Nat /\ e[i] \in Nat /\ e[i] = EndOf(a, i) + 1
  <2>1. TAKE i \in Live
  <2>2. i \in 0..n
    BY <1>2
  <2>3. EndOf(a, i) \in i + 2..n + 2
    BY <1>1, <2>2, EndExists
  <2>4. QED
    BY <1>3, <2>2, <2>3
\* what is reached from i
<1> DEFINE Closed(S) == \A j \in S \intersect Live : e[j] \in S
           Reach(i) == {j \in Nat : \A S \in SUBSET Nat : i \in S /\ Closed(S) => j \in S}
<1>5. ASSUME NEW i \in Nat
      PROVE  i \in Reach(i) /\ Closed(Reach(i))
  <2>1. i \in Reach(i)
    OBVIOUS
  <2>2. ASSUME NEW j \in Reach(i), j \in Live
        PROVE  e[j] \in Reach(i)
    <3>1. \A S \in SUBSET Nat : i \in S /\ Closed(S) => e[j] \in S
      BY <2>2
    <3>2. e[j] \in Nat
      BY <1>4, <2>2
    <3> HIDE DEF Closed
    <3>3. QED
      BY <3>1, <3>2
  <2> HIDE DEF Reach
  <2>3. QED
    BY <2>1, <2>2
<1>6. ASSUME NEW i \in Nat, i \notin Live
      PROVE  Reach(i) \subseteq {i}
  <2>1. Closed({i}) /\ {i} \in SUBSET Nat
    BY <1>6
  <2> HIDE DEF Closed
  <2>2. QED
    BY <2>1
<1>7. ASSUME NEW i \in Live
      PROVE  Reach(i) = {i} \union Reach(e[i])
  <2>1. PICK k \in Nat : k = e[i]
    BY <1>4
  <2>2. i \in Nat /\ i \in Reach(i) /\ Closed(Reach(i))
    BY <1>4, <1>5
  <2>3. k \in Reach(k) /\ Closed(Reach(k))
    BY <1>5
  <2>4. k \in Reach(i)
    BY <2>1, <2>2
  <2>5. Reach(i) \in SUBSET Nat /\ Reach(k) \in SUBSET Nat
    OBVIOUS
  <2>6. \A j \in Reach(k) : \A S \in SUBSET Nat : k \in S /\ Closed(S) => j \in S
    OBVIOUS
  <2>7. \A j \in Reach(i) : \A S \in SUBSET Nat : i \in S /\ Closed(S) => j \in S
    OBVIOUS
  <2> HIDE DEF Reach
  <2>8. Closed({i} \union Reach(k))
    BY <2>1, <2>3
  <2> HIDE DEF Closed
  <2>9. Reach(k) \subseteq Reach(i)
    BY <2>2, <2>4, <2>5, <2>6
  <2>10. Reach(i) \subseteq {i} \union Reach(k)
    <3>1. {i} \union Reach(k) \in SUBSET Nat
      BY <2>2, <2>5
    <3>2. QED
      BY <2>7, <2>8, <3>1
  <2>11. QED
    BY <2>1, <2>2, <2>9, <2>10
<1> HIDE DEF Reach, Closed
<1>8. PICK g : g = [i \in Nat |-> {FieldAt(a, j) : j \in Reach(i) \intersect Live}]
    OBVIOUS
<1>9. \A i \in Nat : g[i] = {FieldAt(a, j) : j \in Reach(i) \intersect Live}
    BY <1>8
<1>10. ASSUME NEW i \in Nat
       PROVE  g[i] = IF i > Len(a) \/ a[i] = Unset THEN {} ELSE {FieldAt(a, i)} \union g[EndOf(a, i) + 1]
  <2>1. CASE i \notin Live
    <3>1. i > Len(a) \/ a[i] = Unset
      BY <1>1, <1>2, <2>1
    <3>2. Reach(i) \intersect Live = {}
      BY <1>6, <2>1
    <3>3. g[i] = {}
      BY <1>9, <3>2, Zenon
    <3>4. QED
      BY <3>1, <3>3
  <2>2. CASE i \in Live
    <3>1. ~(i > Len(a) \/ a[i] = Unset)
      BY <1>1, <1>2, <2>2
    <3>2. PICK k \in Nat : k = e[i] /\ k = EndOf(a, i) + 1
      BY <1>4, <2>2
    <3>3. Reach(i) \intersect Live = {i} \union (Reach(k) \intersect Live)
      BY <1>7, <2>2, <3>2
    <3>4. g[k] = {FieldAt(a, j) : j \in Reach(k) \intersect Live}
      BY <1>9
    <3>5. g[i] = {FieldAt(a, i)} \union g[k]
      BY <1>9, <3>3, <3>4
    <3>6. QED
      BY <3>1, <3>2, <3>5
  <2>3. QED
    BY <2>1, <2>2
<1> DEFINE From(f) == f = [i \in Nat |-> IF i > Len(a) \/ a[i] = Unset THEN {}
                                         ELSE {FieldAt(a, i)} \union f[EndOf(a, i) + 1]]
           F == CHOOSE f : From(f)
<1>11. From(g)
    BY <1>8, <1>10
<1>12. Fields(a) = F[1]
    BY Zenon DEF Fields
<1>13. From(F)
  <2> HIDE DEF From
  <2>1. QED
    BY <1>11
<1> HIDE DEF F
<1>14. \A i \in Nat : F[i] = IF i > Len(a) \/ a[i] = Unset THEN {}
                             ELSE {FieldAt(a, i)} \union F[EndOf(a, i) + 1]
    BY <1>13
<1> HIDE DEF From
<1>15. QED
    BY <1>12, <1>14

\* an array of n groups of two elements or more, divided by nulls
Groups(a, n, ends) ==
    /\ n \in Nat \ {0} /\ ends \in [0..n -> Nat] /\ ends[0] = 0
    /\ Len(a) \in Nat /\ Len(a) = ends[n] - 1
    /\ \A j \in 1..n : ends[j] >= ends[j - 1] + 3 /\ ends[j] <= ends[n]
    /\ \A j \in 1..n : \A p \in ends[j - 1] + 1..ends[j] - 1 : a[p] # Unset
    /\ \A j \in 1..n - 1 : a[ends[j]] = Unset

\* the first element of each group, and the others
GroupFields(a, n, ends) ==
    {[name |-> a[ends[j - 1] + 1],
      values |-> SubSeq(a, ends[j - 1] + 2, ends[j] - 1)] : j \in 1..n}

\* The fields of an array of groups, given where each group ends: the name and the values
\* of each (getHeaderFields).
LEMMA FieldsParsed ==
    ASSUME NEW a, NEW n, NEW ends, Groups(a, n, ends)
    PROVE  Fields(a) = GroupFields(a, n, ends)
<1> SUFFICES ASSUME n \in Nat \ {0}, ends \in [0..n -> Nat], ends[0] = 0,
                    Len(a) \in Nat, Len(a) = ends[n] - 1,
                    \A j \in 1..n : ends[j] >= ends[j - 1] + 3 /\ ends[j] <= ends[n],
                    \A j \in 1..n : \A p \in ends[j - 1] + 1..ends[j] - 1 : a[p] # Unset,
                    \A j \in 1..n - 1 : a[ends[j]] = Unset
             PROVE  Fields(a) = {[name |-> a[ends[j - 1] + 1],
                                  values |-> SubSeq(a, ends[j - 1] + 2, ends[j] - 1)] : j \in 1..n}
    BY Zenon DEF Groups, GroupFields
<1> DEFINE Field(j) == [name |-> a[ends[j - 1] + 1],
                        values |-> SubSeq(a, ends[j - 1] + 2, ends[j] - 1)]
<1>1. ASSUME NEW j \in 1..n
      PROVE  EndOf(a, ends[j - 1] + 1) = ends[j]
  <2>1. j - 1 \in 0..n /\ j \in 0..n /\ n \in 0..n
    OBVIOUS
  <2>2. PICK b \in Nat, c \in Nat, l \in Nat :
            b = ends[j - 1] /\ c = ends[j] /\ l = Len(a) /\ l = ends[n] - 1
    BY ONLY <2>1, ends \in [0..n -> Nat], Len(a) \in Nat, Len(a) = ends[n] - 1
  <2>3. c >= b + 3 /\ c <= l + 1
    <3>1. c >= b + 3 /\ c <= ends[n]
      BY <2>2, Zenon
    <3>2. ends[n] \in Nat
      BY <2>1
    <3>3. QED
      BY ONLY <2>2, <3>1, <3>2
  <2>4. PICK x : x = EndOf(a, b + 1)
    OBVIOUS
  <2>5. b + 1 \in 0..l
    BY ONLY <2>3, b \in Nat, c \in Nat, l \in Nat
  <2>6. /\ x \in b + 1 + 2..l + 2
        /\ x > l \/ a[x] = Unset
        /\ \A k \in b + 1 + 2..x - 1 : k <= l /\ a[k] # Unset
    BY ONLY <2>2, <2>4, <2>5, EndExists
  <2>7. ~(x < c)
    <3>1. SUFFICES ASSUME x < c
                   PROVE  FALSE
      OBVIOUS
    <3>2. x \in b + 1..c - 1 /\ ~(x > l)
      BY ONLY <2>3, <2>6, <3>1, b \in Nat, c \in Nat, l \in Nat
    <3>3. a[x] # Unset
      BY <2>2, <3>2
    <3>4. QED
      BY <2>6, <3>2, <3>3
  <2>8. ~(c < x)
    <3>1. SUFFICES ASSUME c < x
                   PROVE  FALSE
      OBVIOUS
    <3>2. c \in b + 1 + 2..x - 1
      BY ONLY <2>3, <2>6, <3>1, b \in Nat, c \in Nat, l \in Nat
    <3>3. c <= l /\ a[c] # Unset
      BY <2>6, <3>2
    <3>4. j # n
      BY <2>2, <3>3
    <3>5. j \in 1..n - 1
      BY ONLY <3>4, j \in 1..n, n \in Nat
    <3>6. QED
      BY <2>2, <3>3, <3>5
  <2>9. x = c
    BY ONLY <2>6, <2>7, <2>8, b \in Nat, c \in Nat, l \in Nat
  <2>10. QED
    BY <2>2, <2>4, <2>9
<1>2. PICK f : /\ Fields(a) = f[1]
               /\ \A i \in Nat : i > Len(a) \/ a[i] = Unset => f[i] = {}
               /\ \A i \in Nat : ~(i > Len(a) \/ a[i] = Unset) =>
                      f[i] = {FieldAt(a, i)} \union f[EndOf(a, i) + 1]
    BY FieldsFrom
<1>3. ASSUME NEW j \in 1..n
      PROVE  f[ends[j - 1] + 1] = {Field(j)} \union f[ends[j] + 1]
  <2>1. j - 1 \in 0..n /\ j \in 0..n /\ n \in 0..n
    OBVIOUS
  <2>2. PICK b \in Nat, c \in Nat, l \in Nat :
            b = ends[j - 1] /\ c = ends[j] /\ l = Len(a) /\ l = ends[n] - 1
    BY ONLY <2>1, ends \in [0..n -> Nat], Len(a) \in Nat, Len(a) = ends[n] - 1
  <2>3. c >= b + 3 /\ c <= l + 1
    <3>1. c >= b + 3 /\ c <= ends[n]
      BY <2>2, Zenon
    <3>2. ends[n] \in Nat
      BY <2>1
    <3>3. QED
      BY ONLY <2>2, <3>1, <3>2
  <2>4. b + 1 \in b + 1..c - 1 /\ ~(b + 1 > l) /\ b + 1 \in Nat /\ b + 1 + 1 = b + 2
    BY ONLY <2>3, b \in Nat, c \in Nat, l \in Nat
  <2>5. a[b + 1] # Unset
    BY <2>2, <2>4
  <2>6. EndOf(a, b + 1) = c
    BY <1>1, <2>2
  <2>7. f[b + 1] = {FieldAt(a, b + 1)} \union f[c + 1]
    BY <1>2, <2>2, <2>4, <2>5, <2>6, ZenonT(30)
  <2>8. FieldAt(a, b + 1) = Field(j)
    BY <2>2, <2>4, <2>6, Zenon DEF FieldAt
  <2>9. QED
    BY <2>2, <2>7, <2>8, Zenon
<1> HIDE DEF Field
<1> DEFINE Rest(j) == f[ends[j] + 1] = {Field(k) : k \in j + 1..n}
<1>4. Rest(n)
  <2>1. ends[n] \in Nat
    BY ONLY ends \in [0..n -> Nat], n \in Nat \ {0}
  <2>2. ends[n] + 1 \in Nat /\ ends[n] + 1 > Len(a)
    BY ONLY <2>1, Len(a) \in Nat, Len(a) = ends[n] - 1
  <2>3. f[ends[n] + 1] = {}
    BY <1>2, <2>2
  <2>4. \A k \in n + 1..n : FALSE
    BY ONLY n \in Nat \ {0}
  <2>5. {Field(k) : k \in n + 1..n} = {}
    BY <2>4, Zenon
  <2>6. QED
    BY <2>3, <2>5, Zenon
<1>5. ASSUME NEW j \in 1..n, Rest(j)
      PROVE  Rest(j - 1)
  <2>1. /\ \A k \in (j - 1) + 1..n : k = j \/ k \in j + 1..n
        /\ \A k \in j + 1..n : k \in (j - 1) + 1..n
        /\ j \in (j - 1) + 1..n
    BY ONLY j \in 1..n, n \in Nat \ {0}
  <2>2. {Field(k) : k \in (j - 1) + 1..n} = {Field(j)} \union {Field(k) : k \in j + 1..n}
    BY ONLY <2>1, Zenon
  <2>3. f[ends[j - 1] + 1] = {Field(j)} \union f[ends[j] + 1]
    BY <1>3
  <2>4. QED
    BY <1>5, <2>2, <2>3, Zenon
<1> HIDE DEF Rest
<1>6. Rest(0)
  <2> DEFINE S == {m \in Nat : m <= n /\ ~Rest(n - m)}
  <2>1. SUFFICES ASSUME ~Rest(0)
                 PROVE  FALSE
    OBVIOUS
  <2>2. PICK m \in S : \A k \in S : m <= k
    <3>1. S \in SUBSET Nat /\ n \in S
      BY <2>1
    <3> HIDE DEF S
    <3>2. QED
      BY <3>1, Least
  <2>3. m \in Nat /\ m <= n /\ ~Rest(n - m)
    BY <2>2
  <2>4. m # 0
    BY <1>4, <2>3
  <2>5. m - 1 \in Nat /\ m - 1 \notin S
    <3> HIDE DEF S
    <3>1. m - 1 \in Nat /\ ~(m <= m - 1)
      BY ONLY <2>3, <2>4
    <3>2. QED
      BY <2>2, <3>1
  <2>6. PICK j \in 1..n : j = n - (m - 1) /\ j - 1 = n - m
    BY ONLY <2>3, <2>4, n \in Nat \ {0}
  <2>7. Rest(j)
    BY <2>3, <2>4, <2>5, <2>6
  <2>8. QED
    BY <1>5, <2>3, <2>6, <2>7
<1>7. 0 + 1 = 1 /\ ends[0] + 1 = 1
    BY ONLY ends[0] = 0
<1>8. f[1] = {Field(k) : k \in 1..n}
    BY <1>6, <1>7, Zenon DEF Rest
<1>9. QED
    BY <1>2, <1>8, Zenon DEF Field

\* The blocks of a hash in order of arrival.
Values(h) == [i \in 1..Cardinality(At(h)) |-> arrived[Nth(At(h), i)]]

\* The slots of a hash, numbered in order: those that are linked are next to each other.
LEMMA PlacesInOrder ==
    ASSUME HeapInv, OrderInv, arrived # <<>>, NEW h \in DOMAIN headers,
           NEW r, r = Cardinality(At(h)), NEW v, v = Values(h)
    PROVE  /\ r \in 1..Len(blocks)
           /\ \E e \in [1..r -> Places(h)] :
                 /\ \A i \in 1..r : v[i] = Line(e[i])
                 /\ \A i, j \in 1..r : i < j => e[i] < e[j]
                 /\ \A n \in Places(h) : \E i \in 1..r : n = e[i]
<1>1. /\ headerPairCount = Len(arrived) /\ Len(arrived) \in Nat \ {0}
      /\ \A n \in 0..Len(arrived) - 1 : Line(n) = arrived[n + 1]
    BY DEF HeapInv, TypeOK, OrderInv, Line
<1>2. PICK L \in Nat \ {0} : L = Len(arrived) /\ headerPairCount = L
    BY <1>1
<1>3. PICK S \in SUBSET (1..L) : S = At(h)
    BY <1>2 DEF At
<1>4. S \in SUBSET Nat /\ IsFiniteSet(S) /\ r <= L
  <2>1. IsFiniteSet(1..L) /\ Cardinality(1..L) = L
    BY FS_Interval
  <2>2. IsFiniteSet(S) /\ Cardinality(S) <= Cardinality(1..L)
    BY <2>1, FS_Subset
  <2>3. QED
    BY <1>3, <2>1, <2>2
<1>5. /\ r \in Nat
      /\ \A i \in 1..r : Nth(S, i) \in S
      /\ \A i, j \in 1..r : i < j => Nth(S, i) < Nth(S, j)
      /\ \A n \in S : \E i \in 1..r : n = Nth(S, i)
    BY <1>3, <1>4, NthIsInOrder
<1>6. \A n \in Places(h) : n \in 0..L - 1 /\ n + 1 \in S
    BY <1>2, <1>3 DEF Places, Counted, At
<1>7. \A n \in S : n - 1 \in Places(h) /\ n - 1 \in 0..L - 1 /\ n \in Nat
    BY <1>2, <1>3 DEF At
<1>8. PICK e : e = [i \in 1..r |-> Nth(S, i) - 1]
    OBVIOUS
<1>9. \A i \in 1..r : e[i] = Nth(S, i) - 1 /\ e[i] \in Places(h) /\ e[i] \in 0..L - 1
    BY <1>5, <1>7, <1>8
<1>10. e \in [1..r -> Places(h)]
    BY <1>8, <1>9
<1>11. \A i \in 1..r : v[i] = Line(e[i])
  <2>1. TAKE i \in 1..r
  <2>2. v[i] = arrived[Nth(S, i)]
    BY <1>3 DEF Values
  <2>3. Nth(S, i) \in 1..L /\ e[i] = Nth(S, i) - 1 /\ e[i] \in 0..L - 1
    BY <1>5, <1>9
  <2>4. e[i] + 1 = Nth(S, i)
    BY <2>3
  <2>5. QED
    BY <1>1, <1>2, <2>2, <2>3, <2>4
<1>12. \A i, j \in 1..r : i < j => e[i] < e[j]
  <2>1. TAKE i, j \in 1..r
  <2>2. Nth(S, i) \in Nat /\ Nth(S, j) \in Nat
    BY <1>5, <1>7
  <2>3. QED
    BY <1>5, <1>9, <2>2
<1>13. \A n \in Places(h) : \E i \in 1..r : n = e[i]
  <2>1. TAKE n \in Places(h)
  <2>2. PICK i \in 1..r : n + 1 = Nth(S, i)
    BY <1>5, <1>6
  <2>3. n = e[i]
    BY <1>6, <1>9, <2>2
  <2>4. QED
    BY <2>3
<1>14. r # 0
  <2>1. PICK n : n \in Places(h)
    BY DEF HeapInv, RingInv, FirstAt
  <2>2. QED
    BY <1>5, <1>13, <2>1
<1>15. r \in 1..Len(blocks)
  <2>1. L <= Len(blocks) /\ Len(blocks) \in Nat
    BY <1>2 DEF HeapInv, LineInv, TypeOK
  <2>2. QED
    BY <1>4, <1>5, <1>14, <2>1
<1>16. QED
    BY <1>10, <1>11, <1>12, <1>13, <1>15

\* Along its ring the blocks of a hash come in order of arrival, from the first one, which
\* is the key, to the last (getResponseHeaders).
LEMMA RingInOrder ==
    ASSUME HeapInv, OrderInv, arrived # <<>>, NEW h \in DOMAIN headers,
           NEW b, b = blocks[headers[h].value].ref, NEW v, v = Values(h)
    PROVE  Ring(b) = v /\ v[1] = headers[h].key
<1>0. TypeOK /\ LineInv /\ RingInv
    BY DEF HeapInv
<1>1. PICK r : r = Cardinality(At(h))
    OBVIOUS
<1>2. PICK e \in [1..r -> Places(h)] :
          /\ r \in 1..Len(blocks)
          /\ \A i \in 1..r : v[i] = Line(e[i])
          /\ \A i, j \in 1..r : i < j => e[i] < e[j]
          /\ \A n \in Places(h) : \E i \in 1..r : n = e[i]
    BY <1>1, PlacesInOrder, SMTT(30)
<1>3. r \in Nat \ {0} /\ r \in Block /\ Len(blocks) \in Nat
    BY <1>0, <1>2 DEF TypeOK, Block
<1>4. \A i \in 1..r : /\ e[i] \in Places(h) /\ e[i] \in Counted /\ e[i] \in Nat
                      /\ v[i] \in Block
    BY <1>0, <1>2 DEF Places, Counted, LineInv, TypeOK
<1>5. \A i, j \in 1..r : i <= j => e[i] <= e[j]
  <2>1. TAKE i, j \in 1..r
  <2>2. e[i] \in Nat /\ e[j] \in Nat /\ (i < j => e[i] < e[j])
    BY <1>2, <1>4
  <2>3. QED
    BY <2>2
<1>6. FirstAt(h, e[1]) /\ LastAt(h, e[r])
  <2>1. 1 \in 1..r /\ r \in 1..r /\ \A i \in 1..r : 1 <= i /\ i <= r
    BY <1>3
  <2>2. \A n \in Places(h) : e[1] <= n /\ n <= e[r]
    BY <1>2, <1>5, <2>1
  <2>3. QED
    BY <1>4, <2>1, <2>2 DEF FirstAt, LastAt
<1>7. headers[h].key = v[1] /\ headers[h].value = v[r]
  <2>1. PICK m \in Counted, n \in Counted :
            /\ FirstAt(h, m) /\ headers[h].key = Line(m)
            /\ LastAt(h, n) /\ headers[h].value = Line(n)
    BY <1>0 DEF RingInv
  <2>2. m \in Nat /\ n \in Nat /\ e[1] \in Nat /\ e[r] \in Nat
    BY <1>0, <1>3, <1>4 DEF Counted, TypeOK
  <2>3. m = e[1] /\ n = e[r]
    BY <1>6, <2>1, <2>2 DEF FirstAt, LastAt
  <2>4. QED
    BY <1>2, <1>3, <2>1, <2>3
<1>8. blocks[v[r]].ref = v[1] /\ b = v[1]
  <2>1. blocks[Line(e[r])].ref = Line(e[1])
    BY <1>0, <1>3, <1>4, <1>6 DEF RingInv
  <2>2. QED
    BY <1>2, <1>3, <1>7, <2>1
<1>9. ASSUME NEW i \in 1..r - 1
      PROVE  blocks[v[i]].ref = v[i + 1]
  <2>1. PICK j \in 1..r : j = i + 1 /\ i \in 1..r /\ i < j
    BY <1>3
  <2>2. NextAt(h, e[i], e[j])
    <3>1. e[i] < e[j]
      BY <1>2, <2>1
    <3>2. ASSUME NEW n \in Places(h), e[i] < n, n < e[j]
          PROVE  FALSE
      <4>1. PICK k \in 1..r : n = e[k]
        BY <1>2
      <4>2. k <= i \/ j <= k
        BY <2>1
      <4>3. e[i] \in Nat /\ e[j] \in Nat /\ e[k] \in Nat
        BY <1>4, <2>1
      <4>4. e[k] <= e[i] \/ e[j] <= e[k]
        BY <1>5, <2>1, <4>2
      <4>5. QED
        BY <3>2, <4>1, <4>3, <4>4
    <3>3. QED
      BY <3>1, <3>2 DEF NextAt
  <2>3. blocks[Line(e[i])].ref = Line(e[j])
    BY <1>0, <1>4, <2>1, <2>2 DEF RingInv
  <2>4. QED
    BY <1>2, <2>1, <2>3
<1>10. PICK a : a = Along(b)
    OBVIOUS
<1>11. a[0] = b /\ \A k \in Nat : a[k + 1] = blocks[a[k]].ref
    BY <1>10, AlongRef, SMTT(30)
<1>12. \A k \in 0..r - 1 : a[k] = v[k + 1]
  <2> DEFINE S == {k \in Nat : k \in 0..r - 1 /\ a[k] # v[k + 1]}
  <2>1. SUFFICES ASSUME NEW l \in S
                 PROVE  FALSE
    BY <1>3
  <2>2. PICK k \in S : \A j \in S : k <= j
    <3>1. S \in SUBSET Nat /\ l \in S
      OBVIOUS
    <3> HIDE DEF S
    <3>2. QED
      BY <3>1, Least
  <2>3. k \in 0..r - 1 /\ a[k] # v[k + 1] /\ k \in Nat
    BY <2>2
  <2>4. k # 0
    BY <1>8, <1>11, <2>3
  <2>5. k - 1 \in Nat /\ k - 1 \in 0..r - 1 /\ k \in 1..r - 1 /\ (k - 1) + 1 = k /\ ~(k <= k - 1)
    BY <1>3, <2>3, <2>4
  <2>6. a[k - 1] = v[k]
    BY <2>2, <2>5
  <2>7. a[k] = blocks[a[k - 1]].ref
    BY <1>11, <2>5
  <2>8. QED
    BY <1>9, <2>3, <2>5, <2>6, <2>7
<1>13. a[r] = b
  <2>1. r - 1 \in Nat /\ r - 1 \in 0..r - 1 /\ (r - 1) + 1 = r
    BY <1>3
  <2>2. a[r - 1] = v[r]
    BY <1>12, <2>1
  <2>3. QED
    BY <1>8, <1>11, <2>1, <2>2
<1>14. ASSUME NEW k \in 1..r - 1
       PROVE  a[k] \in Block \ {b}
  <2>1. PICK i \in 1..r : i = k + 1 /\ i # 1 /\ 1 < i /\ k \in 0..r - 1 /\ 1 \in 1..r
    BY <1>3
  <2>2. a[k] = v[i]
    BY <1>12, <2>1
  <2>3. e[1] < e[i] /\ e[1] \in Nat /\ e[i] \in Nat
    BY <1>2, <1>4, <2>1
  <2>4. Line(e[i]) # Line(e[1])
    BY <1>0, <1>4, <2>1, <2>3, OneSlotEach
  <2>5. QED
    BY <1>2, <1>4, <1>8, <2>1, <2>2, <2>4
<1>15. Closes(b, r)
    BY <1>10, <1>13, <1>14 DEF Closes
<1>16. PICK c : c = CHOOSE k \in Block : Closes(b, k)
    OBVIOUS
<1>17. c \in Block /\ Closes(b, c)
    BY <1>3, <1>15, <1>16
<1>18. c = r
  <2>1. a[c] = b /\ \A j \in 1..c - 1 : a[j] \in Block \ {b}
    BY <1>10, <1>17 DEF Closes
  <2>2. c \in Nat \ {0}
    BY <1>3, <1>17 DEF Block
  <2>3. ~(c < r)
    <3>1. c < r => c \in 1..r - 1
      BY <1>3, <2>2
    <3>2. QED
      BY <1>14, <2>1, <3>1
  <2>4. ~(r < c)
    <3>1. r < c => r \in 1..c - 1
      BY <1>3, <2>2
    <3>2. QED
      BY <1>13, <2>1, <3>1
  <2>5. QED
    BY <1>3, <2>2, <2>3, <2>4
<1>19. Ring(b) = [i \in 1..r |-> a[i - 1]]
    BY <1>10, <1>16, <1>18 DEF Ring
<1>20. \A i \in 1..r : a[i - 1] = v[i]
  <2>1. TAKE i \in 1..r
  <2>2. i - 1 \in 0..r - 1 /\ (i - 1) + 1 = i
    BY <1>3
  <2>3. QED
    BY <1>12, <2>2
<1>21. v = [i \in 1..r |-> v[i]]
    BY <1>1 DEF Values
<1>22. QED
    BY <1>7, <1>19, <1>20, <1>21

\* The hashes of the lines that came are the entries of the map, and they are few.
LEMMA EntriesFinite ==
    ASSUME HeapInv
    PROVE  IsFiniteSet(DOMAIN headers)
<1>1. PICK S : S = Counted \ {0}
    OBVIOUS
<1>2. headerPairCount \in Nat /\ \A n \in S : n \in Counted /\ n > 0
    BY <1>1 DEF HeapInv, TypeOK, Counted
<1>3. IsFiniteSet(S)
  <2>1. IsFiniteSet(Counted)
    BY <1>2, FS_Interval DEF Counted
  <2>2. QED
    BY <1>1, <2>1, FS_Subset
<1>4. PICK f : f = [n \in S |-> Hash[NameAt(n)]]
    OBVIOUS
<1>5. \A n \in S : f[n] \in DOMAIN headers
    BY <1>2, <1>4 DEF HeapInv, LineInv
<1>6. \A h \in DOMAIN headers : \E n \in S : f[n] = h
  <2>1. TAKE h \in DOMAIN headers
  <2>2. PICK n : n \in Places(h)
    BY DEF HeapInv, RingInv, FirstAt
  <2>3. QED
    BY <1>1, <1>4, <2>2 DEF Places
<1>7. f \in Surjection(S, DOMAIN headers)
    BY <1>4, <1>5, <1>6 DEF Surjection
<1>8. QED
    BY <1>3, <1>7, FS_Surjection

\* A walk over the map meets every entry once (hashmapForEach).
LEMMA WalkMeetsAll ==
    ASSUME HeapInv, NEW o \in SetToSeqs(DOMAIN headers), o # <<>>
    PROVE  /\ Len(o) \in Nat \ {0}
           /\ o \in [1..Len(o) -> DOMAIN headers]
           /\ \A i, j \in 1..Len(o) : o[i] = o[j] => i = j
           /\ \A h \in DOMAIN headers : \E i \in 1..Len(o) : o[i] = h
<1>1. PICK n \in Nat : n = Cardinality(DOMAIN headers)
    BY EntriesFinite, FS_CardinalityType
<1>2. o \in [1..n -> DOMAIN headers] /\ \A i, j \in 1..n : i # j => o[i] # o[j]
    BY <1>1 DEF SetToSeqs
<1>3. Len(o) = n
    BY <1>2
<1>4. n # 0
  <2>1. SUFFICES ASSUME n = 0
                 PROVE  o = <<>>
    OBVIOUS
  <2>2. o \in Seq(DOMAIN headers) /\ Len(o) = 0
    BY <1>2, <1>3, <2>1
  <2>3. QED
    BY <2>2
<1>5. o \in Surjection(1..n, DOMAIN headers)
  <2>1. o \in Injection(1..n, DOMAIN headers)
    BY <1>2 DEF Injection, IsInjective
  <2>2. IsFiniteSet(1..n) /\ Cardinality(1..n) = n
    BY FS_Interval
  <2>3. QED
    BY <1>1, <2>1, <2>2, EntriesFinite, FS_Injection
<1>6. QED
    BY <1>2, <1>3, <1>4, <1>5 DEF Surjection

\* Two disjoint sets together.
LEMMA DisjointSizes ==
    ASSUME NEW S, NEW T, IsFiniteSet(S), IsFiniteSet(T), S \intersect T = {}
    PROVE  /\ Cardinality(S \union T) = Cardinality(S) + Cardinality(T)
           /\ Cardinality(S) \in Nat /\ Cardinality(T) \in Nat
<1>1. /\ Cardinality(S) \in Nat /\ Cardinality(T) \in Nat
      /\ Cardinality(S \union T) = Cardinality(S) + Cardinality(T) - Cardinality(S \intersect T)
    BY FS_Union, FS_CardinalityType
<1>2. Cardinality(S \intersect T) = 0
    BY FS_EmptySet
<1>3. QED
    BY <1>1, <1>2

\* the lines of the first j entries of a walk
UpTo(o, j) == {n \in 1..Len(arrived) : \E i \in 1..j : n \in At(o[i])}

\* where their groups end
Ends(o) == [j \in 0..Len(o) |-> 2 * j + Cardinality(UpTo(o, j))]

\* Every group takes a place for its name and one for its null, besides those of its
\* values, and all of them together one less than the array has (getResponseHeaders).
LEMMA GroupsEnd ==
    ASSUME HeapInv, OrderInv, arrived # <<>>,
           NEW o \in SetToSeqs(DOMAIN headers), o # <<>>, NEW n, n = Len(o)
    PROVE  /\ Ends(o) \in [0..n -> Nat] /\ Ends(o)[0] = 0
           /\ \A j \in 1..n : /\ Cardinality(At(o[j])) \in Nat \ {0}
                              /\ Ends(o)[j] = Ends(o)[j - 1] + Cardinality(At(o[j])) + 2
                              /\ Ends(o)[j] <= Ends(o)[n]
           /\ ArrayCapacity(headerPairCount, n) = Ends(o)[n] - 1
<1>1. PICK L \in Nat \ {0} : L = Len(arrived) /\ Counted = 0..L - 1 /\ headerPairCount = L
    BY ResponseLines
<1>2. /\ n \in Nat \ {0}
      /\ \A i \in 1..n : o[i] \in DOMAIN headers
      /\ \A i, j \in 1..n : o[i] = o[j] => i = j
      /\ \A h \in DOMAIN headers : \E i \in 1..n : o[i] = h
    BY WalkMeetsAll
<1>3. \A S \in SUBSET (1..L) : IsFiniteSet(S) /\ Cardinality(S) \in Nat
  <2>1. IsFiniteSet(1..L)
    BY FS_Interval
  <2>2. TAKE S \in SUBSET (1..L)
  <2>3. IsFiniteSet(S)
    BY <2>1, FS_Subset
  <2>4. QED
    BY <2>3, FS_CardinalityType
<1>4. \A j \in 0..n : UpTo(o, j) \in SUBSET (1..L)
    BY <1>1 DEF UpTo
<1>5. \A h : At(h) \in SUBSET (1..L)
    BY <1>1 DEF At
<1>6. \A j \in 0..n : Ends(o)[j] = 2 * j + Cardinality(UpTo(o, j)) /\ Cardinality(UpTo(o, j)) \in Nat
    BY <1>3, <1>4 DEF Ends
<1>7. Ends(o) \in [0..n -> Nat]
  <2>1. \A j \in 0..n : Ends(o)[j] \in Nat
    <3>1. TAKE j \in 0..n
    <3>2. PICK x \in Nat : x = Cardinality(UpTo(o, j))
      BY <1>6
    <3>3. 2 * j + x \in Nat
      BY <1>2
    <3>4. QED
      BY <1>6, <3>2, <3>3
  <2>2. Ends(o) = [j \in 0..n |-> Ends(o)[j]]
    BY DEF Ends
  <2>3. PICK e : e = Ends(o)
    OBVIOUS
  <2>4. e = [j \in 0..n |-> e[j]] /\ \A j \in 0..n : e[j] \in Nat
    BY <2>1, <2>2, <2>3, Zenon
  <2>5. e \in [0..n -> Nat]
    BY ONLY <2>4
  <2>6. QED
    BY <2>3, <2>5
<1>8. Ends(o)[0] = 0
  <2>1. UpTo(o, 0) = {}
    BY DEF UpTo
  <2>2. Cardinality(UpTo(o, 0)) = 0
    BY <2>1, FS_EmptySet
  <2>3. 0 \in 0..n
    BY <1>2
  <2>4. Ends(o)[0] = 2 * 0 + Cardinality(UpTo(o, 0))
    BY <1>6, <2>3, Zenon
  <2>5. 2 * 0 + 0 = 0
    OBVIOUS
  <2>6. QED
    BY <2>2, <2>4, <2>5, Zenon
<1>9. ASSUME NEW j \in 1..n
      PROVE  /\ Cardinality(At(o[j])) \in Nat \ {0}
             /\ Ends(o)[j] = Ends(o)[j - 1] + Cardinality(At(o[j])) + 2
             /\ Ends(o)[j] <= Ends(o)[n]
  <2>1. j - 1 \in 0..n /\ j \in 0..n /\ n \in 0..n
    BY <1>2
  <2>2. PICK S \in SUBSET (1..L), T \in SUBSET (1..L), A \in SUBSET (1..L) :
            S = UpTo(o, j - 1) /\ T = UpTo(o, j) /\ A = At(o[j])
    BY <1>4, <1>5, <2>1
  <2>3. S \intersect A = {}
    <3>1. SUFFICES ASSUME NEW m \in S, m \in A
                   PROVE  FALSE
      OBVIOUS
    <3>2. PICK i \in 1..j - 1 : m \in At(o[i])
      BY <2>2 DEF UpTo
    <3>3. m - 1 \in Places(o[i]) /\ m - 1 \in Places(o[j])
      BY <2>2, <3>1, <3>2 DEF At
    <3>4. o[i] = o[j]
      BY <3>3 DEF Places
    <3>5. i \in 1..n /\ i # j
      BY <1>2
    <3>6. QED
      BY <1>2, <3>4, <3>5
  <2>4. T = S \union A
    <3>1. \A i : i \in 1..j <=> i \in 1..j - 1 \/ i = j
      OBVIOUS
    <3>2. \A m : m \in T <=> m \in 1..L /\ \E i \in 1..j : m \in At(o[i])
      BY <1>1, <2>2 DEF UpTo
    <3>3. \A m : m \in S <=> m \in 1..L /\ \E i \in 1..j - 1 : m \in At(o[i])
      BY <1>1, <2>2 DEF UpTo
    <3>4. \A m : m \in T <=> m \in S \/ m \in A
      BY <2>2, <3>1, <3>2, <3>3, Zenon
    <3>5. QED
      BY <3>4, Zenon
  <2>5. /\ Cardinality(T) = Cardinality(S) + Cardinality(A)
        /\ Cardinality(S) \in Nat /\ Cardinality(A) \in Nat
    BY <1>3, <2>3, <2>4, DisjointSizes
  <2>6. Cardinality(A) # 0
    <3>1. PICK m \in Counted : m \in Places(o[j])
      BY <1>2 DEF HeapInv, RingInv, FirstAt
    <3>2. m + 1 \in A
      BY <1>1, <2>2, <3>1 DEF At
    <3>3. QED
      BY <1>3, <3>2, FS_EmptySet
  <2>7. Ends(o)[j] = Ends(o)[j - 1] + Cardinality(At(o[j])) + 2
    <3>1. Ends(o)[j] = 2 * j + Cardinality(T) /\ Ends(o)[j - 1] = 2 * (j - 1) + Cardinality(S)
      BY <1>6, <2>1, <2>2
    <3>2. PICK x \in Nat, y \in Nat : x = Cardinality(S) /\ y = Cardinality(A)
      BY <2>5
    <3>3. 2 * j + (x + y) = (2 * (j - 1) + x) + y + 2
      BY ONLY x \in Nat, y \in Nat, j \in 1..n, n \in Nat
    <3>4. QED
      BY <1>2, <2>2, <2>5, <3>1, <3>2, <3>3
  <2>8. Ends(o)[j] <= Ends(o)[n]
    <3>1. PICK W \in SUBSET (1..L) : W = UpTo(o, n)
      BY <1>4, <2>1
    <3>2. T \subseteq W
      BY <2>2, <3>1 DEF UpTo
    <3>3. Cardinality(T) <= Cardinality(W)
      BY <1>3, <3>2, FS_Subset
    <3>4. PICK x \in Nat, y \in Nat : x = Cardinality(T) /\ y = Cardinality(W)
      BY <1>3
    <3>5. Ends(o)[j] = 2 * j + x /\ Ends(o)[n] = 2 * n + y
      BY <1>6, <2>1, <2>2, <3>1, <3>4
    <3>6. 2 * j + x <= 2 * n + y
      BY <1>2, <3>3, <3>4
    <3>7. QED
      BY <3>5, <3>6
  <2>9. QED
    BY <2>2, <2>5, <2>6, <2>7, <2>8
<1>10. ArrayCapacity(headerPairCount, n) = Ends(o)[n] - 1
  <2>1. UpTo(o, n) = 2..L
    <3>1. ASSUME NEW m \in UpTo(o, n)
          PROVE  m \in 2..L
      <4>1. PICK i \in 1..n : m \in At(o[i]) /\ m \in 1..L
        BY <1>1 DEF UpTo
      <4>2. m - 1 > 0
        BY <4>1 DEF At, Places
      <4>3. QED
        BY <4>1, <4>2
    <3>2. ASSUME NEW m \in 2..L
          PROVE  m \in UpTo(o, n)
      <4>1. PICK k \in Counted : k = m - 1 /\ k > 0
        BY <1>1
      <4>2. PICK h \in DOMAIN headers : h = Hash[NameAt(k)]
        BY <4>1 DEF HeapInv, LineInv
      <4>3. PICK i \in 1..n : o[i] = h
        BY <1>2
      <4>4. k \in Places(o[i])
        BY <4>1, <4>2, <4>3 DEF Places
      <4>5. m \in 1..L /\ m \in At(o[i])
        BY <1>1, <4>1, <4>4 DEF At
      <4>6. QED
        BY <1>1, <4>5 DEF UpTo
    <3>3. QED
      BY <3>1, <3>2
  <2>2. Cardinality(2..L) = L - 1
    BY FS_Interval
  <2>3. Ends(o)[n] = 2 * n + (L - 1)
    <3>1. n \in 0..n
      BY <1>2
    <3>2. Ends(o)[n] = 2 * n + Cardinality(UpTo(o, n))
      BY <1>6, <3>1
    <3>3. QED
      BY <2>1, <2>2, <3>2, Zenon
  <2>4. n * 3 + (L - 1 - n) - 1 = (2 * n + (L - 1)) - 1
    BY <1>2
  <2>5. QED
    BY <1>1, <2>3, <2>4 DEF ArrayCapacity
<1>11. QED
    BY <1>7, <1>8, <1>9, <1>10

\* what an element of the Java array may be
Element == {Unset} \union ({"name", "value"} \X Block)

\* a group of a name and r values, and the null behind it
GroupOf(v, r, g) ==
    /\ r \in Nat \ {0} /\ DOMAIN v = 1..r
    /\ g \in Seq(Element) /\ Len(g) = r + 2
    /\ g[1] = <<"name", v[1]>>
    /\ \A k \in 1..r : g[k + 1] = <<"value", v[k]>>
    /\ g[r + 2] = Unset

\* The group of an entry and the null behind it: its name is the first of its lines, and its
\* values are all of them in order of arrival (getResponseHeaders).
LEMMA GroupShape ==
    ASSUME HeapInv, OrderInv, arrived # <<>>, NEW h \in DOMAIN headers
    PROVE  GroupOf(Values(h), Cardinality(At(h)), Group(h) \o <<Unset>>)
<1>0. PICK r, v, g : r = Cardinality(At(h)) /\ v = Values(h) /\ g = Group(h) \o <<Unset>>
    OBVIOUS
<1>1. PICK e \in [1..r -> Places(h)] :
          r \in 1..Len(blocks) /\ \A i \in 1..r : v[i] = Line(e[i])
    BY <1>0, PlacesInOrder
<1>2. r \in Nat \ {0}
    BY <1>1 DEF HeapInv, TypeOK
<1>3. \A i \in 1..r : v[i] \in Block
    BY <1>1 DEF Places, HeapInv, LineInv
<1>4. v = [i \in 1..r |-> v[i]]
    BY <1>0 DEF Values
<1>5. PICK w : w = [i \in 1..r |-> <<"value", v[i]>>]
    OBVIOUS
<1>6. PICK m : m = <<"name", v[1]>>
    OBVIOUS
<1>7. PICK b : b = blocks[headers[h].value].ref
    OBVIOUS
<1>8. Ring(b) = v /\ v[1] = headers[h].key
    BY <1>0, <1>7, RingInOrder
<1>9. DOMAIN v = 1..r
    BY <1>4
<1>10. Group(h) = <<m>> \o [i \in DOMAIN Ring(b) |-> <<"value", Ring(b)[i]>>]
    BY <1>6, <1>7, <1>8, Zenon DEF Group
<1>11. [i \in DOMAIN Ring(b) |-> <<"value", Ring(b)[i]>>] = w
    BY <1>5, <1>8, <1>9, Zenon
<1>12. g = (<<m>> \o w) \o <<Unset>>
    BY <1>0, <1>10, <1>11, Zenon
<1>13. m \in Element /\ Unset \in Element /\ \A i \in 1..r : w[i] \in Element /\ w[i] = <<"value", v[i]>>
    BY <1>2, <1>3, <1>5, <1>6 DEF Element
<1> HIDE DEF Element
<1>14. w \in Seq(Element) /\ Len(w) = r
  <2>1. \A i \in 1..r : w[i] \in Element
    BY <1>13
  <2>2. w = [i \in 1..r |-> w[i]]
    BY <1>5
  <2>3. w \in [1..r -> Element]
    BY ONLY <2>1, <2>2
  <2>4. QED
    BY ONLY <1>2, <2>3
<1>15. PICK u : u = Unset
    OBVIOUS
<1>16. PICK p : p = <<m>> \o w
    OBVIOUS
<1>17. /\ p \in Seq(Element) /\ Len(p) = r + 1 /\ p[1] = m
       /\ \A k \in 1..r : p[k + 1] = w[k]
  <2>1. <<m>> \in Seq(Element) /\ Len(<<m>>) = 1 /\ <<m>>[1] = m
    BY <1>13
  <2>2. p \in Seq(Element) /\ Len(p) = 1 + r
    BY <1>14, <1>16, <2>1
  <2>3. p[1] = m
    BY ONLY <1>14, <1>16, <2>1
  <2>4. ASSUME NEW k \in 1..r
        PROVE  p[k + 1] = w[k]
    BY ONLY <1>2, <1>14, <1>16, <2>1, k \in 1..r
  <2>5. QED
    BY <1>2, <2>2, <2>3, <2>4
<1>18. /\ g \in Seq(Element) /\ Len(g) = r + 2 /\ g[r + 2] = u
       /\ \A k \in 1..r + 1 : g[k] = p[k]
  <2>1. g = p \o <<u>> /\ u \in Element
    BY <1>12, <1>13, <1>15, <1>16
  <2>2. g \in Seq(Element) /\ Len(g) = r + 2
    BY ONLY <1>2, <1>17, <2>1
  <2>3. g[r + 2] = u
    BY ONLY <1>2, <1>17, <2>1
  <2>4. ASSUME NEW k \in 1..r + 1
        PROVE  g[k] = p[k]
    BY ONLY <1>2, <1>17, <2>1, k \in 1..r + 1
  <2>5. QED
    BY <2>2, <2>3, <2>4
<1>19. g[1] = m
  <2>1. 1 \in 1..r + 1
    BY <1>2
  <2>2. QED
    BY <1>17, <1>18, <2>1
<1>20. ASSUME NEW k \in 1..r
       PROVE  g[k + 1] = <<"value", v[k]>>
  <2>1. k + 1 \in 1..r + 1
    BY <1>2
  <2>2. QED
    BY <1>13, <1>17, <1>18, <2>1
<1>21. QED
  <2>1. GroupOf(v, r, g)
    BY <1>2, <1>6, <1>9, <1>15, <1>18, <1>19, <1>20 DEF GroupOf
  <2>2. QED
    BY <1>0, <2>1, Zenon

\* what getHeaderFields keeps of the entry of a hash
FieldOf(h) == [name |-> <<"name", Values(h)[1]>>,
               values |-> [i \in DOMAIN Values(h) |-> <<"value", Values(h)[i]>>]]

\* Whatever the order of the walk, the array holds what was written into it but for the last
\* null, and the fields read from it are those of the entries (getResponseHeaders,
\* getHeaderFields).
LEMMA ListingRead ==
    ASSUME HeapInv, OrderInv, arrived # <<>>,
           NEW o \in SetToSeqs(DOMAIN headers), o # <<>>
    PROVE  /\ Len(Listed(o)) = Len(Written(o)) - 1
           /\ Fields(Listed(o)) = {FieldOf(h) : h \in DOMAIN headers}
<1>1. PICK n \in Nat \ {0} : n = Len(o)
    BY WalkMeetsAll
<1>2. /\ o = [i \in 1..n |-> o[i]] /\ DOMAIN o = 1..n
      /\ \A i \in 1..n : o[i] \in DOMAIN headers
      /\ \A h \in DOMAIN headers : \E i \in 1..n : o[i] = h
    BY <1>1, WalkMeetsAll
<1>3. PICK ends \in [0..n -> Nat], r \in [1..n -> Nat] :
          /\ ends[0] = 0
          /\ \A j \in 1..n : /\ r[j] = Cardinality(At(o[j])) /\ r[j] # 0
                             /\ ends[j] = ends[j - 1] + r[j] + 2
                             /\ ends[j] <= ends[n]
          /\ ArrayCapacity(headerPairCount, n) = ends[n] - 1
  <2>1. PICK ends : ends = Ends(o)
    OBVIOUS
  <2>2. PICK r : r = [j \in 1..n |-> Cardinality(At(o[j]))]
    OBVIOUS
  <2>3. /\ ends \in [0..n -> Nat] /\ ends[0] = 0
        /\ \A j \in 1..n : /\ Cardinality(At(o[j])) \in Nat \ {0}
                           /\ ends[j] = ends[j - 1] + Cardinality(At(o[j])) + 2
                           /\ ends[j] <= ends[n]
        /\ ArrayCapacity(headerPairCount, n) = ends[n] - 1
    BY <1>1, <2>1, GroupsEnd
  <2>4. r \in [1..n -> Nat] /\ \A j \in 1..n : r[j] = Cardinality(At(o[j])) /\ r[j] # 0
    BY <2>2, <2>3
  <2>5. QED
    BY <2>3, <2>4
<1>4. PICK q : q = [i \in 1..n |-> Group(o[i]) \o <<Unset>>]
    OBVIOUS
<1>5. \A j \in 1..n :
          /\ q[j] \in Seq(Element) /\ Len(q[j]) = r[j] + 2
          /\ q[j][1] = <<"name", Values(o[j])[1]>>
          /\ \A k \in 1..r[j] : q[j][k + 1] = <<"value", Values(o[j])[k]>>
          /\ q[j][r[j] + 2] = Unset
          /\ DOMAIN Values(o[j]) = 1..r[j]
  <2>1. TAKE j \in 1..n
  <2>2. GroupOf(Values(o[j]), Cardinality(At(o[j])), Group(o[j]) \o <<Unset>>)
    BY <1>2, GroupShape
  <2>3. q[j] = Group(o[j]) \o <<Unset>> /\ r[j] = Cardinality(At(o[j]))
    BY <1>3, <1>4
  <2>4. GroupOf(Values(o[j]), r[j], q[j])
    BY <2>2, <2>3, Zenon
  <2>5. QED
    BY <2>4, Zenon DEF GroupOf
<1>6. PICK W : W = Written(o)
    OBVIOUS
<1>7. /\ W \in Seq(Element) /\ Len(W) = ends[n]
      /\ \A j \in 1..n : \A k \in 1..r[j] + 2 : W[ends[j - 1] + k] = q[j][k]
  <2>1. W = FlattenSeq(q)
    BY <1>2, <1>4, <1>6, Zenon DEF Written
  <2>2. Len(q) = n
    BY ONLY <1>4, n \in Nat \ {0}
  <2>3. \A j \in 1..n : q[j] \in Seq(Element) /\ Len(q[j]) = r[j] + 2
    BY <1>5
  <2>4. \A j \in 1..n : ends[j] = ends[j - 1] + Len(q[j])
    <3>1. TAKE j \in 1..n
    <3>2. j - 1 \in 0..n /\ r[j] \in Nat
      OBVIOUS
    <3>3. ends[j] = ends[j - 1] + r[j] + 2 /\ ends[j - 1] \in Nat
      BY <1>3, <3>2
    <3>4. QED
      BY <2>3, <3>2, <3>3
  <2>5. /\ W \in Seq(Element) /\ Len(W) = ends[n]
        /\ \A j \in 1..n : \A k \in 1..Len(q[j]) : W[ends[j - 1] + k] = q[j][k]
    <3>1. Parts(q, n, Element, ends)
      BY <1>3, <2>2, <2>3, <2>4, Zenon DEF Parts
    <3>2. Whole(W, q, n, Element, ends)
      BY <2>1, <3>1, Flattened, Zenon
    <3>3. QED
      BY <3>2, Zenon DEF Whole
  <2>6. QED
    BY <2>3, <2>5
<1>8. PICK c \in Nat, a \in {Listed(o)} :
          /\ a = Listed(o) /\ c = ends[n] - 1 /\ Len(a) = c
          /\ \A p \in 1..c : a[p] = W[p]
  <2>1. n - 1 \in 0..n /\ n \in 0..n /\ n \in 1..n
    OBVIOUS
  <2>2. PICK c : c = ends[n] - 1
    OBVIOUS
  <2>3. ends[n] \in Nat /\ ends[n - 1] \in Nat /\ r[n] \in Nat /\ ends[n] = ends[n - 1] + r[n] + 2
    BY <1>3, <2>1
  <2>4. c \in Nat /\ \A p \in 1..c : p <= ends[n]
    <3>1. PICK x \in Nat, y \in Nat, z \in Nat : x = ends[n] /\ y = ends[n - 1] /\ z = r[n]
      BY <2>3
    <3>2. c = x - 1 /\ x = y + z + 2
      BY <2>2, <2>3, <3>1
    <3>3. c \in Nat /\ \A p \in 1..c : p <= x
      BY ONLY <3>2, x \in Nat, y \in Nat, z \in Nat
    <3>4. QED
      BY <3>1, <3>3
  <2>5. PICK a : a = Listed(o)
    OBVIOUS
  <2>6. a = [p \in 1..c |-> IF p <= Len(W) THEN W[p] ELSE Unset]
    BY <1>1, <1>3, <1>6, <2>2, <2>5, Zenon DEF Listed
  <2>7. Len(a) = c
    BY ONLY <2>4, <2>6
  <2>8. \A p \in 1..c : a[p] = W[p]
    BY <1>7, <2>4, <2>6
  <2>9. QED
    BY <2>2, <2>4, <2>5, <2>7, <2>8, Zenon
<1>9. Len(Listed(o)) = Len(Written(o)) - 1
    BY <1>6, <1>7, <1>8, Zenon
<1>10. \A j \in 1..n : /\ ends[j] \in Nat /\ ends[j - 1] \in Nat /\ r[j] \in Nat \ {0}
                        /\ ends[j] = ends[j - 1] + r[j] + 2 /\ ends[j] <= c + 1
  <2>1. TAKE j \in 1..n
  <2>2. j - 1 \in 0..n /\ j \in 0..n /\ n \in 0..n
    OBVIOUS
  <2>3. ends[j] \in Nat /\ ends[j - 1] \in Nat /\ r[j] \in Nat \ {0} /\ ends[n] \in Nat
    BY <1>3, <2>2
  <2>4. QED
    BY <1>3, <1>8, <2>3
<1>11. ASSUME NEW j \in 1..n, NEW k \in 1..r[j] + 1
       PROVE  a[ends[j - 1] + k] = q[j][k]
  <2>1. PICK b \in Nat, d \in Nat, x \in Nat : b = ends[j - 1] /\ d = ends[j] /\ x = r[j]
    BY <1>10
  <2>2. d = b + x + 2 /\ d <= c + 1 /\ k \in 1..x + 1
    BY <1>10, <2>1
  <2>3. b + k \in 1..c /\ k \in 1..x + 2
    BY ONLY <2>2, b \in Nat, d \in Nat, x \in Nat, c \in Nat
  <2>4. a[b + k] = W[b + k] /\ W[b + k] = q[j][k]
    BY <1>7, <1>8, <2>1, <2>3, Zenon
  <2>5. QED
    BY <2>1, <2>4, Zenon
<1>12. ASSUME NEW j \in 1..n - 1
       PROVE  a[ends[j]] = Unset
  <2>1. j \in 1..n /\ j + 1 \in 1..n /\ (j + 1) - 1 = j
    OBVIOUS
  <2>2. PICK b \in Nat, d \in Nat, x \in Nat, y \in Nat, z \in Nat :
            b = ends[j - 1] /\ d = ends[j] /\ x = r[j] /\ y = ends[j + 1] /\ z = r[j + 1]
    BY <1>10, <2>1
  <2>3. d = b + x + 2 /\ y = d + z + 2 /\ y <= c + 1
    BY <1>10, <2>1, <2>2
  <2>4. d \in 1..c /\ d = b + (x + 2) /\ x + 2 \in 1..x + 2
    BY ONLY <2>3, b \in Nat, d \in Nat, x \in Nat, y \in Nat, z \in Nat, c \in Nat
  <2>5. a[d] = W[d] /\ W[b + (x + 2)] = q[j][x + 2]
    BY <1>7, <1>8, <2>1, <2>2, <2>4, Zenon
  <2>6. q[j][x + 2] = Unset
    BY <1>5, <2>1, <2>2, Zenon
  <2>7. QED
    BY <2>2, <2>4, <2>5, <2>6, Zenon
<1>13. \A x, y : <<x, y>> # Unset
    BY DEF Unset
<1>14. ASSUME NEW j \in 1..n, NEW p \in ends[j - 1] + 1..ends[j] - 1
       PROVE  a[p] # Unset
  <2>1. PICK b \in Nat, d \in Nat, x \in Nat \ {0} : b = ends[j - 1] /\ d = ends[j] /\ x = r[j]
    BY <1>10
  <2>2. d = b + x + 2 /\ p \in b + 1..d - 1
    BY <1>10, <2>1
  <2>3. PICK k \in 1..x + 1 : p = b + k
    <3>1. p - b \in 1..x + 1 /\ p = b + (p - b)
      BY ONLY <2>2, b \in Nat, d \in Nat, x \in Nat
    <3>2. QED
      BY <3>1
  <2>4. a[p] = q[j][k]
    BY <1>11, <2>1, <2>3
  <2>5. CASE k = 1
    <3>1. q[j][1] = <<"name", Values(o[j])[1]>>
      BY <1>5
    <3>2. QED
      BY <1>13, <2>4, <2>5, <3>1, Zenon
  <2>6. CASE k # 1
    <3>1. PICK l \in 1..x : k = l + 1
      <4>1. k - 1 \in 1..x /\ k = (k - 1) + 1
        BY ONLY <2>6, k \in 1..x + 1, x \in Nat
      <4>2. QED
        BY <4>1
    <3>2. q[j][k] = <<"value", Values(o[j])[l]>>
      BY <1>5, <2>1, <3>1, Zenon
    <3>3. QED
      BY <1>13, <2>4, <3>2, Zenon
  <2>7. QED
    BY <2>5, <2>6
<1>15. Fields(a) = GroupFields(a, n, ends)
  <2>1. \A j \in 1..n : ends[j] >= ends[j - 1] + 3 /\ ends[j] <= ends[n]
    <3>1. TAKE j \in 1..n
    <3>2. PICK b \in Nat, d \in Nat, x \in Nat \ {0} : b = ends[j - 1] /\ d = ends[j] /\ x = r[j]
      BY <1>10
    <3>3. d = b + x + 2 /\ ends[j] <= ends[n]
      BY <1>3, <3>2
    <3>4. d >= b + 3
      BY ONLY <3>3, b \in Nat, d \in Nat, x \in Nat \ {0}
    <3>5. QED
      BY <3>2, <3>3, <3>4, Zenon
  <2>2. Len(a) \in Nat /\ Len(a) = ends[n] - 1
    BY <1>8
  <2>3. ends[0] = 0
    BY <1>3
  <2>4. QED
    <3>1. \A j \in 1..n - 1 : a[ends[j]] = Unset
      BY <1>12
    <3>2. \A j \in 1..n : \A p \in ends[j - 1] + 1..ends[j] - 1 : a[p] # Unset
      BY <1>14
    <3>3. n \in Nat \ {0} /\ ends \in [0..n -> Nat]
      OBVIOUS
    <3>4. Groups(a, n, ends)
      BY ONLY <2>1, <2>2, <2>3, <3>1, <3>2, <3>3, Zenon DEF Groups
    <3>5. QED
      BY <3>4, FieldsParsed, Zenon
<1>16. ASSUME NEW j \in 1..n
       PROVE  [name |-> a[ends[j - 1] + 1],
               values |-> SubSeq(a, ends[j - 1] + 2, ends[j] - 1)] = FieldOf(o[j])
  <2>1. PICK b \in Nat, d \in Nat, x \in Nat \ {0} : b = ends[j - 1] /\ d = ends[j] /\ x = r[j]
    BY <1>10
  <2>2. d = b + x + 2
    BY <1>10, <2>1
  <2>3. a[b + 1] = <<"name", Values(o[j])[1]>>
    <3>1. 1 \in 1..r[j] + 1
      BY <2>1
    <3>2. a[ends[j - 1] + 1] = q[j][1]
      BY <1>11, <3>1
    <3>3. QED
      BY <1>5, <2>1, <3>2
  <2>4. ASSUME NEW k \in 1..x
        PROVE  a[k + (b + 2) - 1] = <<"value", Values(o[j])[k]>>
    <3>0. PICK l \in 1..x + 1 : l = k + 1 /\ k + (b + 2) - 1 = b + l
      BY ONLY x \in Nat \ {0}, b \in Nat, k \in 1..x
    <3>1. l \in 1..r[j] + 1 /\ l = k + 1 /\ k + (b + 2) - 1 = b + l /\ k \in 1..r[j]
      BY <2>1, <3>0, Zenon
    <3>2. a[ends[j - 1] + l] = q[j][l]
      BY <1>11, <3>1
    <3>3. q[j][l] = <<"value", Values(o[j])[k]>>
      BY <1>5, <3>1, Zenon
    <3>4. QED
      BY <2>1, <3>1, <3>2, <3>3, Zenon
  <2>5. PICK u : u = Values(o[j])
    OBVIOUS
  <2>6. DOMAIN u = 1..x
    BY <1>5, <2>1, <2>5, Zenon
  <2>7. SubSeq(a, b + 2, d - 1) = [k \in 1..x |-> a[k + (b + 2) - 1]]
    <3>1. 1 + (d - 1) - (b + 2) = x
      BY ONLY <2>2, b \in Nat, d \in Nat, x \in Nat
    <3>2. SubSeq(a, b + 2, d - 1) = [k \in 1..1 + (d - 1) - (b + 2) |-> a[k + (b + 2) - 1]]
      OBVIOUS
    <3>3. QED
      BY <3>1, <3>2, Zenon
  <2>8. [k \in 1..x |-> a[k + (b + 2) - 1]] = [k \in DOMAIN u |-> <<"value", u[k]>>]
    BY <2>4, <2>5, <2>6, Zenon
  <2>9. QED
    BY <2>1, <2>3, <2>5, <2>7, <2>8, Zenon DEF FieldOf
<1>17. {FieldOf(o[j]) : j \in 1..n} = {FieldOf(h) : h \in DOMAIN headers}
  <2>1. \A j \in 1..n : FieldOf(o[j]) \in {FieldOf(h) : h \in DOMAIN headers}
    BY <1>2, Zenon
  <2>2. \A h \in DOMAIN headers : FieldOf(h) \in {FieldOf(o[j]) : j \in 1..n}
    BY <1>2, Zenon
  <2>3. QED
    BY ONLY <2>1, <2>2, Zenon
<1>18. Fields(a) = {FieldOf(o[j]) : j \in 1..n}
    BY <1>15, <1>16, Zenon DEF GroupFields
<1>19. QED
    BY <1>8, <1>9, <1>17, <1>18, Zenon

\* The names of the response are the entries of the map.
LEMMA NamesAreEntries ==
    ASSUME HeapInv, OrderInv, arrived # <<>>
    PROVE  {[name |-> <<"name", ArrivedAs(s)[1]>>,
             values |-> [i \in DOMAIN ArrivedAs(s) |-> <<"value", ArrivedAs(s)[i]>>]]
                : s \in FirstSpellings} = {FieldOf(h) : h \in DOMAIN headers}
<1>1. ASSUME NEW s \in Spellings
      PROVE  ArrivedAs(s) = Values(Hash[s])
    BY LinesArePlaces, Zenon DEF ArrivedAs, Values
<1>2. ASSUME NEW s \in FirstSpellings
      PROVE  s \in Spellings /\ Hash[s] \in DOMAIN headers
  <2>1. s \in Spellings /\ Values(Hash[s]) # <<>>
    BY <1>1 DEF FirstSpellings
  <2>2. PICK h : h = Hash[s]
    OBVIOUS
  <2>3. CASE Places(h) = {}
    <3>1. At(h) = {}
      BY <2>3 DEF At
    <3>2. Cardinality(At(h)) = 0
      BY <3>1, FS_EmptySet
    <3>3. Values(h) = [i \in 1..0 |-> arrived[Nth(At(h), i)]]
      BY <3>2 DEF Values
    <3>4. Values(h) = <<>>
      BY <3>3
    <3>5. QED
      BY <2>1, <2>2, <3>4
  <2>4. CASE Places(h) # {}
    <3>1. PICK n : n \in Counted /\ n > 0 /\ Hash[NameAt(n)] = h
      BY <2>4 DEF Places
    <3>2. QED
      BY <2>1, <2>2, <3>1 DEF HeapInv, LineInv
  <2>5. QED
    BY <2>3, <2>4
<1>3. ASSUME NEW h \in DOMAIN headers
      PROVE  \E s \in FirstSpellings : Hash[s] = h
  <2>1. PICK r, v : r = Cardinality(At(h)) /\ v = Values(h)
    OBVIOUS
  <2>2. PICK e \in [1..r -> Places(h)] : r \in 1..Len(blocks) /\ \A i \in 1..r : v[i] = Line(e[i])
    BY <2>1, PlacesInOrder
  <2>3. 1 \in 1..r
    BY <2>2 DEF HeapInv, TypeOK
  <2>4. PICK n \in Places(h) : v[1] = Line(n)
    BY <2>2, <2>3
  <2>5. PICK s : s = NameAt(n)
    OBVIOUS
  <2>6. s \in Spellings /\ Hash[s] = h /\ blocks[v[1]].name = s
    BY <2>4, <2>5 DEF Places, HeapInv, LineInv, NameAt
  <2>7. ArrivedAs(s) = v
    BY <1>1, <2>1, <2>6
  <2>8. v # <<>>
    <3>1. DOMAIN v = 1..r
      BY <2>1 DEF Values
    <3>2. 1 \in DOMAIN v
      BY <2>3, <3>1
    <3>3. QED
      BY <3>2
  <2>9. QED
    BY <2>6, <2>7, <2>8 DEF FirstSpellings
<1>4. ASSUME NEW s \in FirstSpellings
      PROVE  [name |-> <<"name", ArrivedAs(s)[1]>>,
              values |-> [i \in DOMAIN ArrivedAs(s) |-> <<"value", ArrivedAs(s)[i]>>]] = FieldOf(Hash[s])
    BY <1>1, <1>2, Zenon DEF FieldOf
<1> DEFINE Shown(s) == [name |-> <<"name", ArrivedAs(s)[1]>>,
                        values |-> [i \in DOMAIN ArrivedAs(s) |-> <<"value", ArrivedAs(s)[i]>>]]
<1>5. \A s \in FirstSpellings : Shown(s) = FieldOf(Hash[s]) /\ Hash[s] \in DOMAIN headers
    BY <1>2, <1>4
<1> HIDE DEF Shown
<1>6. \A s \in FirstSpellings : Shown(s) \in {FieldOf(h) : h \in DOMAIN headers}
    BY <1>5, Zenon
<1>7. \A h \in DOMAIN headers : FieldOf(h) \in {Shown(s) : s \in FirstSpellings}
    BY <1>3, <1>5, Zenon
<1>8. {Shown(s) : s \in FirstSpellings} = {FieldOf(h) : h \in DOMAIN headers}
    BY ONLY <1>6, <1>7, Zenon
<1>9. QED
    BY <1>8, Zenon DEF Shown

\* getHeaderFields shows each name of the current response once, names of one hash as one,
\* with all its values in order of arrival, from an array that is just long enough, for any
\* names, hash and sequences of responses and in whatever order the map is walked
\* (FieldsComplete).
THEOREM AllFieldsListed == Spec => []FieldsComplete
<1>1. IInv /\ HeapInv => FieldsComplete
  <2>1. SUFFICES ASSUME IInv, HeapInv, arrived # <<>>,
                        NEW o \in SetToSeqs(DOMAIN headers), o # <<>>
                 PROVE  /\ Len(Listed(o)) = Len(Written(o)) - 1
                        /\ Fields(Listed(o)) =
                             {[name |-> <<"name", ArrivedAs(s)[1]>>,
                               values |-> [i \in DOMAIN ArrivedAs(s) |-> <<"value", ArrivedAs(s)[i]>>]]
                                 : s \in FirstSpellings}
    BY Zenon DEF FieldsComplete
  <2>2. OrderInv
    BY <2>1 DEF IInv
  <2>3. QED
    BY <2>1, <2>2, ListingRead, NamesAreEntries, Zenon
<1>2. QED
    BY <1>1, LinesInvariant, PTL
=============================================================================
