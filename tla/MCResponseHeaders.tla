-------------------------- MODULE MCResponseHeaders --------------------------
(* Small instances of ResponseHeaders and HeaderListing. *)
EXTENDS HeaderListing

\* two spellings of one name, and two other names
FoldCase == [s \in Spellings |-> IF s = "Via" THEN "via" ELSE s]

\* the other two share a hash, as hashCalc has it
HashByName == [s \in Spellings |-> IF FoldCase[s] = "via" THEN 1 ELSE 2]
=============================================================================
