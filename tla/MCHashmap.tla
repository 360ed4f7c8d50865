------------------------------ MODULE MCHashmap ------------------------------
(* Real header names for HeaderNames, as they arrive and as Java asks for them. *)
EXTENDS HeaderNames

\* header lines: `x-ts:1', `x-v5 : 1' (of the same hash), `xTag: 1' with a first
\* byte above 0x7F, and `WWW-A:1', whose first and third letter are the same
Lines ==
    [ts  |-> <<120, 45, 116, 115, 58, 49, 13, 10>>,
     v5  |-> <<120, 45, 118, 53, 32, 58, 32, 49, 13, 10>>,
     tag |-> <<246, 84, 97, 103, 58, 32, 49, 13, 10>>,
     www |-> <<87, 87, 87, 45, 65, 58, 49, 13, 10>>]

\* names that Java asks for, one of them as headerToString once gave it
Asked ==
    [TAG |-> Text!headerToString(<<246, 84, 65, 71>>, TRUE),
     Www |-> <<87, 119, 119, 45, 97>>]

Texts ==
    [k \in DOMAIN Lines \union DOMAIN Asked |->
        IF k \in DOMAIN Lines THEN Text!NameOf(Lines[k]) ELSE Text!asciiDecode(Asked[k])]

Names == DOMAIN Texts

Hashes == [k \in Names |-> HashOf(Texts[k])]

Comparisons == Accepted(Texts)

MCKeys == Names

MCNameText == Texts

MCHash == Hashes

MCEquals == Comparisons
=============================================================================
