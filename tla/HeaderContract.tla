--------------------------- MODULE HeaderContract ---------------------------
(***************************************************************************)
(* What the documentation of CurlHttp promises about request headers:      *)
(* a sequence of fields in order of addition that is changed field by      *)
(* field.                                                                  *)
(***************************************************************************)
EXTENDS Integers, Sequences, Subsequence

CONSTANTS Keys, Values

VARIABLE fields

Field == [key : Keys, val : Values]

Init == fields = <<>>

Named(k) == {i \in 1..Len(fields) : fields[i].key = k}

\* setHeaderField(k, v): "only the last one will be changed"
Set(k, v) ==
    \/ /\ Named(k) = {}
       /\ fields' = Append(fields, [key |-> k, val |-> v])
    \/ \E i \in Named(k) :
          /\ \A j \in Named(k) : j <= i
          /\ fields' = [fields EXCEPT ![i] = [key |-> k, val |-> v]]

\* setHeaderField(k, null): "all headers with specified name will be removed"
Remove(k) == fields' = Kept(fields, 1..Len(fields) \ Named(k))

\* addHeaderField(k, v)
Add(k, v) == fields' = Append(fields, [key |-> k, val |-> v])

\* clearHeaders()
Clear == fields' = <<>>

Next ==
    \/ \E k \in Keys, v \in Values : Set(k, v) \/ Add(k, v)
    \/ \E k \in Keys : Remove(k)
    \/ Clear

Spec == Init /\ [][Next]_fields
=============================================================================
