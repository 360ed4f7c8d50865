---------------------------- MODULE Subsequence ----------------------------
(* The part of a list that a loop leaves when it drops entries. *)
EXTENDS Naturals, Sequences

\* the entries of q at the places S, in order
Kept(q, S) ==
    LET upTo[n \in 0..Len(q)] ==
            IF n = 0 THEN <<>>
            ELSE IF n \in S THEN Append(upTo[n - 1], q[n]) ELSE upTo[n - 1]
    IN  upTo[Len(q)]
=============================================================================
