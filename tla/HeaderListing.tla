---------------------------- MODULE HeaderListing ----------------------------
(***************************************************************************)
(* All response headers at once: getResponseHeaders writes names and       *)
(* values, grouped by name and divided by nulls, into a Java array, and    *)
(* CurlConnection.getHeaderFields takes the array apart again.             *)
(***************************************************************************)
EXTENDS ResponseHeaders, SequencesExt

\* an element of the array that is not set
Unset == <<>>

\* the group of an entry: its key, then the ring from the first value on
Group(h) ==
    LET first == blocks[headers[h].value].ref
    IN  <<<<"name", headers[h].key>>>>
          \o [i \in DOMAIN Ring(first) |-> <<"value", Ring(first)[i]>>]

\* the length of the Java array
ArrayCapacity(lines, names) == names * 3 + (lines - 1 - names) - 1

\* getResponseHeaders, for one order in which the map may be walked: the
\* elements written, where every group leaves one null behind it
Written(order) ==
    FlattenSeq([i \in DOMAIN order |-> Group(order[i]) \o <<Unset>>])

\* the array that is returned
Listed(order) ==
    [i \in 1..ArrayCapacity(headerPairCount, Len(order)) |->
        IF i <= Len(Written(order)) THEN Written(order)[i] ELSE Unset]

\* what ends the values of the name at i: a null, or the end of the array
EndOf(array, i) ==
    CHOOSE j \in i + 2..Len(array) + 2 :
        /\ j > Len(array) \/ array[j] = Unset
        /\ \A l \in i + 2..j - 1 : l <= Len(array) /\ array[l] # Unset

\* a name and at least one value
FieldAt(array, i) ==
    [name |-> array[i], values |-> SubSeq(array, i + 1, EndOf(array, i) - 1)]

\* CurlConnection.getHeaderFields: one name after the other, up to a null
Fields(array) ==
    LET from[i \in Nat] ==
            IF i > Len(array) \/ array[i] = Unset THEN {}
            ELSE {FieldAt(array, i)} \union from[EndOf(array, i) + 1]
    IN  from[1]

\* the i-th of some numbers
Nth(S, i) == CHOOSE n \in S : Cardinality({m \in S : m <= n}) = i

\* the blocks of the current response that are taken for a name, in order of arrival
ArrivedAs(s) == [i \in 1..Cardinality(Lines(s)) |-> arrived[Nth(Lines(s), i)]]

\* the spelling that came first stands for the name
FirstSpellings == {s \in Spellings : ArrivedAs(s) # <<>> /\ blocks[ArrivedAs(s)[1]].name = s}

\* The map of header fields holds every name of the current response once, with
\* all its values in order of arrival, and the array was neither too short nor
\* too long for it, in whatever order the hash map is walked.  Names of one hash
\* are one to the map, under the spelling that came first, and every line is in one
\* of the fields (getResponseHeaders, getHeaderFields, the rings of header_callback).
FieldsComplete ==
    arrived # <<>> =>
        \A order \in SetToSeqs(DOMAIN headers) :
            order # <<>> =>
                /\ Len(Listed(order)) = Len(Written(order)) - 1
                /\ Fields(Listed(order)) =
                     {[name |-> <<"name", ArrivedAs(s)[1]>>,
                       values |-> [i \in DOMAIN ArrivedAs(s) |-> <<"value", ArrivedAs(s)[i]>>]]
                         : s \in FirstSpellings}
=============================================================================
