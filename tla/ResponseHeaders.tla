--------------------------- MODULE ResponseHeaders ---------------------------
(***************************************************************************)
(* The response headers of a handle.  header_callback, called by libcurl   *)
(* for every header line, copies the line into a block of its own and      *)
(* enters the block in two structures: headerPairs, an array in order of   *)
(* arrival whose slot 0 is the status line, and headers, a hash map from   *)
(* names to the last block of that name; the blocks of one name form a     *)
(* ring through their field ref.                                           *)
(*                                                                         *)
(* A block is a number, in order of arrival, and stands for its value too, *)
(* so that every value is different.  Each callback runs inside one native *)
(* call under the handle's lock, and so does each reader: one step each.   *)
(***************************************************************************)
EXTENDS Integers, Sequences

CONSTANTS
    Spellings,                  \* header names as they come from the server
    Statuses,                   \* status lines
    Folded,                     \* Folded[s]: s without regard to case
    Hash,                       \* Hash[s]: hashCalc(s)
    HEADER_BUF_SIZE_DEFAULT,
    MaxLines                    \* bound on the header lines received by one handle

\* Names that differ only in case have one hash.
ASSUME NamesAssumption ==
    /\ Spellings \intersect Statuses = {}
    /\ \A s, t \in Spellings : Folded[s] = Folded[t] => Hash[s] = Hash[t]

ASSUME SizeAssumption ==
    /\ HEADER_BUF_SIZE_DEFAULT \in Nat \ {0}
    /\ MaxLines \in Nat

VARIABLES
    headerPairs,        \* slot -> [val, key], the two pointers of a slot
    headerBufSize,
    headerPairCount,
    headers,            \* hash -> [key, value], the entries of the map
    blocks,             \* the blocks ever allocated: [name, ref]
    freed,              \* those given back with free()
    seenEnd,            \* STATE_SEEN_HEADER_END
    arrived             \* history: the blocks of the current response, status first

vars == <<headerPairs, headerBufSize, headerPairCount, headers, blocks, freed,
          seenEnd, arrived>>

Null == 0

\* what memory that was never written may be taken for
Wild == -1

Block == 1..Len(blocks)

NoEntries == [h \in {} |-> Null]

Init ==
    /\ headerPairs = [i \in 0..HEADER_BUF_SIZE_DEFAULT - 1 |->
                          [val |-> Wild, key |-> Wild]]
    /\ headerBufSize = HEADER_BUF_SIZE_DEFAULT
    /\ headerPairCount = 0
    /\ headers = NoEntries
    /\ blocks = <<>>
    /\ freed = {}
    /\ seenEnd = FALSE
    /\ arrived = <<>>

-----------------------------------------------------------------------------
\* releaseHeaders steps by two through an array of pointer pairs, but counts
\* pairs: it frees the blocks of the first half
Released == {headerPairs[i].val : i \in {j \in 0..headerPairCount - 1 : 2 * j < headerPairCount}}

\* headers_ensure_capacity
Capacity(n) == IF n <= headerBufSize THEN headerBufSize ELSE (3 * n) \div 2

\* the last lines of header_callback, with the array grown for n pairs
StorePair(slot, n, pair) ==
    /\ headerBufSize' = Capacity(n)
    /\ headerPairs' = [i \in 0..Capacity(n) - 1 |->
                          CASE i = slot -> pair
                            [] i # slot /\ i < headerBufSize -> headerPairs[i]
                            [] OTHER -> [val |-> Wild, key |-> Wild]]

\* mutant: the count of the earlier response is carried over
StatusLineCounts(s) ==
    /\ Len(blocks) < MaxLines
    /\ arrived = <<>> \/ seenEnd
    /\ LET b == Len(blocks) + 1 IN
         /\ blocks' = Append(blocks, [name |-> s, ref |-> Wild])
         /\ freed' = IF seenEnd THEN freed \union Released ELSE freed
         /\ headers' = IF seenEnd THEN NoEntries ELSE headers
         /\ headerPairCount' = headerPairCount + 1
         /\ StorePair(0, 1, [val |-> b, key |-> b])
         /\ arrived' = <<b>>
    /\ seenEnd' = FALSE

\* header_callback for a status line.  A status line after the end of other
\* headers starts a new response: a redirect, or a response after 100.  libcurl
\* hands one over first, and then only after an empty line.  A connect after a
\* failure finds the handle attached still, and the lines go on where they were.
StatusLine(s) ==
    /\ Len(blocks) < MaxLines
    /\ arrived = <<>> \/ seenEnd
    /\ LET b == Len(blocks) + 1
           oldHeaderCount == IF seenEnd THEN 0 ELSE headerPairCount
       IN
         /\ blocks' = Append(blocks, [name |-> s, ref |-> Wild])
         /\ freed' = IF seenEnd THEN freed \union Released ELSE freed
         /\ headers' = IF seenEnd THEN NoEntries ELSE headers
         /\ headerPairCount' = oldHeaderCount + 1
         /\ StorePair(0, 1, [val |-> b, key |-> b])
         /\ arrived' = <<b>>
    /\ seenEnd' = FALSE

\* the empty line
HeaderEnd ==
    /\ arrived # <<>>
    /\ seenEnd' = TRUE
    /\ UNCHANGED <<headerPairs, headerBufSize, headerPairCount, headers, blocks,
                   freed, arrived>>

\* equalKeys with hashKeyCompare, which compares shifted characters and inverts
\* the outcome: any two names of one hash are accepted
Found(s) == Hash[s] \in DOMAIN headers

\* the entry that entryGet and hashmapGet find
EntryOf(s) == headers[Hash[s]]

\* hashmapPut of a name that is not there
WithEntry(s, entry) ==
    [h \in DOMAIN headers \union {Hash[s]} |-> IF h = Hash[s] THEN entry ELSE headers[h]]

\* the block is entered at the end of headerPairs under the key it shares
AppendPair(b, key) ==
    /\ StorePair(headerPairCount, headerPairCount + 1, [val |-> b, key |-> key])
    /\ headerPairCount' = headerPairCount + 1
    /\ arrived' = Append(arrived, b)
    /\ UNCHANGED <<freed, seenEnd>>

\* header_callback for the first header of its name
FirstOfName(s) ==
    /\ Len(blocks) < MaxLines /\ arrived # <<>>
    /\ ~Found(s)
    /\ LET b == Len(blocks) + 1 IN
         /\ blocks' = Append(blocks, [name |-> s, ref |-> b])
         /\ headers' = WithEntry(s, [key |-> b, value |-> b])
         /\ AppendPair(b, b)

\* mutant: the entry keeps the first value
AnotherKeepsFirst(s) ==
    /\ Len(blocks) < MaxLines /\ arrived # <<>>
    /\ Found(s)
    /\ LET b == Len(blocks) + 1
           entry == EntryOf(s)
       IN
         /\ blocks' = Append([blocks EXCEPT ![entry.value].ref = b],
                             [name |-> s, ref |-> blocks[entry.value].ref])
         /\ headers' = headers
         /\ AppendPair(b, entry.key)

\* mutant: the new block is linked in front of the first
AnotherLinkedEarly(s) ==
    /\ Len(blocks) < MaxLines /\ arrived # <<>>
    /\ Found(s)
    /\ LET b == Len(blocks) + 1
           entry == EntryOf(s)
       IN
         /\ blocks' = Append([blocks EXCEPT ![entry.key].ref = b],
                             [name |-> s, ref |-> blocks[entry.key].ref])
         /\ headers' = [headers EXCEPT ![Hash[s]].value = b]
         /\ AppendPair(b, entry.key)

\* header_callback for one more header of a name: it comes behind the last
AnotherOfName(s) ==
    /\ Len(blocks) < MaxLines /\ arrived # <<>>
    /\ Found(s)
    /\ LET b == Len(blocks) + 1
           entry == EntryOf(s)
       IN
         /\ blocks' = Append([blocks EXCEPT ![entry.value].ref = b],
                             [name |-> s, ref |-> blocks[entry.value].ref])
         /\ headers' = [headers EXCEPT ![Hash[s]].value = b]
         /\ AppendPair(b, entry.key)

\* mutant: the map still leads to the blocks
ResetKeepsMap ==
    /\ freed' = freed \union Released
    /\ headerPairCount' = 0
    /\ seenEnd' = FALSE
    /\ arrived' = <<>>
    /\ UNCHANGED <<headerPairs, headerBufSize, headers, blocks>>

\* reset
Reset ==
    /\ freed' = freed \union Released
    /\ headerPairCount' = 0
    /\ headers' = NoEntries
    /\ seenEnd' = FALSE
    /\ arrived' = <<>>
    /\ UNCHANGED <<headerPairs, headerBufSize, blocks>>

Next ==
    \/ \E s \in Statuses : StatusLine(s)
    \/ \E s \in Spellings : FirstOfName(s) \/ AnotherOfName(s)
    \/ HeaderEnd \/ Reset

Spec == Init /\ [][Next]_vars

-----------------------------------------------------------------------------
\* The readers.

\* what lies in a slot, and behind the array
Slot(n) == IF n < headerBufSize THEN headerPairs[n] ELSE [val |-> Wild, key |-> Wild]

\* getSpecialHeader: a positive n asks for a value, any other for a key; only
\* positive ones are held against the count
SpecialHeader(n) ==
    IF n >= headerPairCount THEN Null
    ELSE IF n > 0 THEN Slot(n).val ELSE Slot(-n).key

\* Curl.header without a name: getHeader, then getSpecialHeader
HeaderNth(n) == IF headerPairCount = 0 THEN Null ELSE SpecialHeader(n)

\* CurlHttp.getResponseHeader(pos)
ValueAt(pos) == HeaderNth(pos)

\* CurlHttp.getResponseHeaderKey(pos)
KeyAt(pos) == IF pos = 0 THEN Null ELSE HeaderNth(-pos)

\* CurlHttp.getResponseHeader(key): getHeader
ValueOf(s) ==
    IF headerPairCount > 0 /\ Found(s) THEN EntryOf(s).value ELSE Null

\* Along the ring from a block, as getResponseHeaders goes.
Along(b) ==
    LET at[k \in Nat] == IF k = 0 THEN b ELSE blocks[at[k - 1]].ref
    IN  at

\* the ring comes back to the block after k steps, and not before
Closes(b, k) == Along(b)[k] = b /\ \A j \in 1..k - 1 : Along(b)[j] \in Block \ {b}

Ring(b) ==
    LET k == CHOOSE k \in Block : Closes(b, k)
    IN  [i \in 1..k |-> Along(b)[i - 1]]

-----------------------------------------------------------------------------
TypeOK ==
    /\ headerBufSize \in Nat \ {0} /\ headerPairCount \in 0..headerBufSize
    /\ headerPairs \in [0..headerBufSize - 1 ->
                            [val : Block \union {Wild}, key : Block \union {Wild}]]
    /\ blocks \in Seq([name : Spellings \union Statuses, ref : Block \union {Wild}])
    /\ DOMAIN headers \subseteq {Hash[s] : s \in Spellings}
    /\ headers \in [DOMAIN headers -> [key : Block, value : Block]]
    /\ freed \subseteq Block \union {Wild}
    /\ seenEnd \in BOOLEAN
    /\ arrived \in Seq(Block)

\* the lines of the current response that the map takes for s: those of its hash,
\* whatever their names
Lines(s) ==
    {n \in 1..Len(arrived) :
        LET name == blocks[arrived[n]].name IN name \in Spellings /\ Hash[name] = Hash[s]}

\* those whose name is s, in any case
Named(s) ==
    {n \in 1..Len(arrived) :
        LET name == blocks[arrived[n]].name IN name \in Spellings /\ Folded[name] = Folded[s]}

\* no line of another name has the hash of s
Alone(s) == Lines(s) \subseteq Named(s)

\* Once the status line is there, getResponseHeader(n) gives the lines of the
\* current response, and of no earlier one, in order of arrival, 0 the status
\* line, and getResponseHeaderKey(n) the name of the first line that the map takes
\* for the n-th: the name of the n-th itself unless names of one hash have come
\* (CurlHttp 253-294, header_callback).
InOrder ==
    arrived # <<>> =>
        /\ ValueAt(0) = arrived[1] /\ KeyAt(0) = Null
        /\ \A n \in 1..Len(arrived) - 1 :
              LET name == blocks[arrived[n + 1]].name IN
                 /\ ValueAt(n) = arrived[n + 1]
                 /\ \E f \in Lines(name) :
                       /\ KeyAt(n) = arrived[f] /\ \A m \in Lines(name) : f <= m
                       /\ Alone(name) => f \in Named(name)
        /\ ValueAt(Len(arrived)) = Null

\* v is the last of some lines, or null if there are none
LastOf(v, lines) ==
    \/ lines = {} /\ v = Null
    \/ \E n \in lines : v = arrived[n] /\ \A m \in lines : m <= n

\* getResponseHeader(name) gives the last value that came under the hash of the
\* name, and with that the last that came for the name in any case, or null if none
\* did, whenever the response has no other name of the same hash (getHeader, the
\* map kept by header_callback).
LastValueByName ==
    arrived # <<>> =>
        \A s \in Spellings :
            LastOf(ValueOf(s), Lines(s)) /\ (Alone(s) => LastOf(ValueOf(s), Named(s)))

\* No reader can reach a block that releaseHeaders has freed: not through the
\* counted slots, nor through the map, nor along the rings.
NothingFreedReachable ==
    /\ \A n \in 0..headerPairCount - 1 :
          Slot(n).val \notin freed /\ Slot(n).key \notin freed
    /\ \A h \in DOMAIN headers :
          /\ headers[h].key \notin freed
          /\ \E k \in Block : Closes(headers[h].value, k)
          /\ \A i \in DOMAIN Ring(headers[h].value) :
                Ring(headers[h].value)[i] \notin freed
=============================================================================
