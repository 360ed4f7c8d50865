--------------------------- MODULE RequestHeaders ---------------------------
(***************************************************************************)
(* The request headers of a handle: the curl_slist outHeaders, edited in   *)
(* place by setHeader, and outHeaderCount, which the two readers outHeader *)
(* and getRequestHeaders trust.  Each call runs under the handle's lock,   *)
(* so it is one step.  Names are compared without case, and Keys holds     *)
(* them in one case; a value that matters only by its being there is a     *)
(* member of Values.                                                       *)
(***************************************************************************)
EXTENDS Integers, Sequences, Subsequence

CONSTANTS
    Keys, Values,
    Extends,     \* pairs <<k, l>> of names where l is k followed by more letters
    Disabled,    \* the value of the entry `name:' that turns a default header off
    Nothing,     \* null
    Nulls,       \* the keys that setHeader is called for with a null value
    MaxLen,      \* bound on the length of the list
    MaxDrift     \* bound on the distance of outHeaderCount from 0

ASSUME HeaderAssumption ==
    /\ Disabled \notin Values /\ Nothing \notin Values
    /\ Extends \subseteq Keys \X Keys /\ Nulls \subseteq Keys
    /\ MaxLen \in Nat /\ MaxDrift \in Nat

VARIABLES
    outHeaders,
    outHeaderCount,    \* uint16_t
    plain              \* history: since the list was last empty no name was removed
                       \* and none was taken for another one

vars == <<outHeaders, outHeaderCount, plain>>

Entry == [key : Keys, val : Values \union {Disabled}]

\* the values of uint16_t
Width == 65536

Init == outHeaders = <<>> /\ outHeaderCount = 0 /\ plain = TRUE

-----------------------------------------------------------------------------
\* strncasecmp with the length of k: names that merely begin with k match too
Matches(k, e) == e.key = k \/ <<k, e.key>> \in Extends

Matching(k) == {i \in 1..Len(outHeaders) : Matches(k, outHeaders[i])}

\* outHeaderCount changed by n
CountPlus(n) == (outHeaderCount + n) % Width

\* the loop of setHeader with a null value; it leaves with an empty list when
\* the head matches
Unlinked(k) ==
    IF 1 \in Matching(k) THEN <<>>
    ELSE Kept(outHeaders, 1..Len(outHeaders) \ Matching(k))

\* how many entries the loop counted off: the head is not
CountedOff(k) == IF 1 \in Matching(k) THEN 0 ELSE Len(outHeaders) - Len(Unlinked(k))

\* mutant: no entry to turn the default header off
WithoutStub(k) == Unlinked(k)

\* the entry `k:' at the end
WithStub(k) == Append(Unlinked(k), [key |-> k, val |-> Disabled])

\* mutant: the first match
FirstMatch(k) == CHOOSE i \in Matching(k) : \A j \in Matching(k) : i <= j

\* newHeader after the loop of setHeader with a value
LastMatch(k) == CHOOSE i \in Matching(k) : \A j \in Matching(k) : j <= i

InBounds ==
    /\ Len(outHeaders') <= MaxLen
    /\ outHeaderCount' <= MaxDrift \/ outHeaderCount' >= Width - MaxDrift

\* setHeader(k, null)
RemoveHeader(k) ==
    /\ outHeaders' = WithStub(k)
    /\ outHeaderCount' = CountPlus(-CountedOff(k))
    /\ plain' = FALSE
    /\ InBounds

\* setHeader(k, v)
SetHeader(k, v) ==
    /\ IF Matching(k) # {}
         THEN /\ outHeaders' = [outHeaders EXCEPT ![LastMatch(k)] = [key |-> k, val |-> v]]
              /\ UNCHANGED outHeaderCount
         ELSE /\ outHeaders' = Append(outHeaders, [key |-> k, val |-> v])
              /\ outHeaderCount' = CountPlus(1)
    /\ plain' = (plain /\ \A i \in Matching(k) : outHeaders[i].key = k)
    /\ InBounds

\* mutant: forgets the counter
AddUncounted(k, v) ==
    /\ outHeaders' = Append(outHeaders, [key |-> k, val |-> v])
    /\ UNCHANGED <<outHeaderCount, plain>>
    /\ InBounds

\* addHeader(k, v)
AddHeader(k, v) ==
    /\ outHeaders' = Append(outHeaders, [key |-> k, val |-> v])
    /\ outHeaderCount' = CountPlus(1)
    /\ UNCHANGED plain
    /\ InBounds

ClearHeaders == outHeaders' = <<>> /\ outHeaderCount' = 0 /\ plain' = TRUE

Next ==
    \/ \E k \in Keys, v \in Values : SetHeader(k, v) \/ AddHeader(k, v)
    \/ \E k \in Nulls : RemoveHeader(k)
    \/ ClearHeaders

Spec == Init /\ [][Next]_vars

-----------------------------------------------------------------------------
(* The readers. *)

Real(e) == e.val # Disabled

\* the entries of q that curl sends
OnlyReal(q) == Kept(q, {i \in 1..Len(q) : Real(q[i])})

\* outHeader(k): the first entry of that very name; the entry of a disabled
\* header reads as an empty string
OutHeader(k) ==
    LET hits == {i \in 1..Len(outHeaders) : outHeaders[i].key = k}
    IN IF outHeaderCount = 0 \/ hits = {} THEN Nothing
       ELSE outHeaders[CHOOSE i \in hits : \A j \in hits : i <= j].val

\* getRequestHeaders(): outHeaderCount entries of the list, the disabled ones
\* among them left out
GetRequestHeaders ==
    OnlyReal(SubSeq(outHeaders, 1, IF outHeaderCount < Len(outHeaders)
                                     THEN outHeaderCount ELSE Len(outHeaders)))

\* what curl sends beside its default headers
Sent == OnlyReal(outHeaders)

\* the fields sent under names other than k
SentBut(k) == Kept(Sent, {i \in 1..Len(Sent) : Sent[i].key # k})

-----------------------------------------------------------------------------
(* Properties *)

\* The list holds entries and the counter 16 bits.
TypeOK ==
    /\ outHeaders \in Seq(Entry) /\ Len(outHeaders) <= MaxLen
    /\ outHeaderCount \in 0..(Width - 1)
    /\ plain \in BOOLEAN

\* outHeader walks the list with do ... while: whatever sequence of calls made
\* the counter differ from 0, there is a first entry to look at.
WalkIsSafe == outHeaderCount # 0 => outHeaders # <<>>

\* CurlHttp.getRequestHeaders: "request headers in order of addition", and
\* getRequestHeader finds a name just when a field of that name is sent, though both
\* trust the counter: no order of sets, adds and clears makes the readers disagree
\* with what is sent, unless a name was removed or taken for another one since the
\* list was last cleared.
ReadersAgree ==
    /\ TypeOK
    /\ plain =>
         /\ GetRequestHeaders = Sent
         /\ \A k \in Keys : OutHeader(k) # Nothing <=> \E i \in 1..Len(Sent) : Sent[i].key = k

\* an entry of another name matches k
Strays(k) == \E i \in Matching(k) : outHeaders[i].key # k

\* k is the name of the first entry, and others are sent
MeetsHead(k) == 1 \in Matching(k) /\ SentBut(k) # <<>>

\* k was removed before, and fields that are sent have followed since
Refills(k) ==
    /\ Matching(k) # {}
    /\ ~Real(outHeaders[LastMatch(k)])
    /\ \E i \in LastMatch(k)..Len(outHeaders) : Real(outHeaders[i])

\* the fields as CurlHttp documents them
Contract == INSTANCE HeaderContract WITH fields <- Sent

\* what a call does to the fields that are sent.  Left out are a set or a removal
\* that takes another name for its own, a removal that meets the first entry and
\* drops all the others, and a set that brings a removed name back in its old place.
Promised ==
    /\ \A k \in Keys, v \in Values :
          /\ SetHeader(k, v) => Strays(k) \/ Refills(k) \/ Contract!Set(k, v)
          /\ AddHeader(k, v) => Contract!Add(k, v)
    /\ \A k \in Nulls : RemoveHeader(k) => Strays(k) \/ MeetsHead(k) \/ Contract!Remove(k)
    /\ ClearHeaders => Contract!Clear

\* Every call does to the fields that are sent what CurlHttp documents of that call,
\* the exceptions of Promised apart: removals with their stubs too, after any calls
\* before.
ImplementsContract == Contract!Init /\ [][Promised]_vars
=============================================================================
