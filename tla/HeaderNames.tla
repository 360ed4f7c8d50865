----------------------------- MODULE HeaderNames -----------------------------
(***************************************************************************)
(* The hash map as nativeCreate makes it for the response headers: a key   *)
(* is the address of a name, hashed by hashCalc and compared by            *)
(* hashKeyCompare of native-lib.c.                                         *)
(***************************************************************************)
EXTENDS Hashmap

CONSTANTS
    NameText        \* NameText[k]: the characters at address k, up to the NUL

Text == INSTANCE HeaderText

\* a word as a signed int
Signed(w) == (IF w[1] > 32767 THEN w[1] - 65536 ELSE w[1]) * 65536 + w[2]

\* hashKey of the map, with hashCalc
HashOf(text) == Signed(Text!hashKey(Text!hashCalc(text)))

\* equals of the map, the comparison with zeros behind the NUL
Accepted(texts) ==
    {p \in (DOMAIN texts) \X (DOMAIN texts) : Text!hashKeyCompare(texts[p[1]], texts[p[2]], 0)}

ASSUME NameAssumption == NameText \in [Keys -> Seq(0..255)]

\* Texts that differ within are accepted; for others it depends on the memory behind.
ASSUME ComparisonAssumption ==
    /\ Hash = [k \in Keys |-> HashOf(NameText[k])]
    /\ \A o, k \in Keys : Text!DifferWithin(NameText[o], NameText[k]) => <<o, k>> \in Equals

-----------------------------------------------------------------------------
Folded(text) == [i \in 1..Len(text) |-> Text!TOLOWER(text[i])]

\* The comparison of a name with a copy of itself is over within the name; it is not
\* for one like aba, of which the code compares no two characters that differ.
SelfDiffers(k) == Text!DifferWithin(NameText[k], NameText[k])

\* an address of a name, and one of a spelling of it to ask for
Spellings ==
    {p \in Keys \X Keys :
        Folded(NameText[p[1]]) = Folded(NameText[p[2]]) /\ SelfDiffers(p[2])}

\* CurlHttp.getResponseHeader: "header name, case-insensitive".  A header that has
\* arrived is found under every spelling of its name, by the strings that Java
\* was given for it too, through hashCalc, the secondary hash and the chains; the
\* names that the comparison reads to the end are left out, and only as what is
\* asked for.
FoundInAnySpelling ==
    pc = "idle" =>
        \A o \in live, k \in Keys : <<o, k>> \in Spellings => ContainsKey(k)
=============================================================================
