----------------------------- MODULE HeaderText -----------------------------
(***************************************************************************)
(* The pure functions on header names: the hash and the comparison given   *)
(* to the hash map, the secondary hash of the map itself, and the trimming *)
(* of a header line.  A text is a sequence of character codes, without its *)
(* terminating NUL.                                                        *)
(*                                                                         *)
(* An unsigned 32-bit word is a pair <<high, low>> of 16-bit halves, since *)
(* the integers of TLC are no wider than the int of the code.              *)
(***************************************************************************)
EXTENDS Integers, Sequences, FiniteSets

Half == 65536

Word(n) == <<n \div Half, n % Half>>

Plus(a, b) ==
    LET low == a[2] + b[2]
    IN <<(a[1] + b[1] + low \div Half) % Half, low % Half>>

\* the exclusive or of two halves, from the lowest bit up
Xor16(x, y) ==
    LET upTo[i \in 0..16] ==
          IF i = 0 THEN 0
          ELSE upTo[i - 1] + 2^(i - 1) * ((x \div 2^(i - 1) + y \div 2^(i - 1)) % 2)
    IN upTo[16]

Xor32(a, b) == <<Xor16(a[1], b[1]), Xor16(a[2], b[2])>>

Not32(a) == <<Half - 1 - a[1], Half - 1 - a[2]>>

\* a << n and a >> n for 0 < n < 16
ShiftLeft(a, n) == <<(a[1] * 2^n + a[2] \div 2^(16 - n)) % Half, (a[2] * 2^n) % Half>>

ShiftRight(a, n) == <<a[1] \div 2^n, a[2] \div 2^n + (a[1] % 2^n) * 2^(16 - n)>>

Times31(a) ==
    LET low == 31 * a[2]
    IN <<(31 * a[1] + low \div Half) % Half, low % Half>>

-----------------------------------------------------------------------------
\* TOLOWER: capital letters only, and by setting two bits
LowerBits(c) == (c \div 128) * 128 + 96 + (c % 32)

TOLOWER(c) == IF c > 64 /\ c < 91 THEN LowerBits(c) ELSE c

\* mutant: the hash of the letters as they are
hashCalcByCase(key) ==
    LET h[i \in 0..Len(key)] ==
          IF i = 0 THEN Word(Len(key)) ELSE Plus(Times31(h[i - 1]), Word(key[i]))
    IN h[Len(key)]

hashCalc(key) ==
    LET h[i \in 0..Len(key)] ==
          IF i = 0 THEN Word(Len(key)) ELSE Plus(Times31(h[i - 1]), Word(TOLOWER(key[i])))
    IN h[Len(key)]

\* hashKey of the map: Doug Lea's mixing of the hash h
hashKey(h) ==
    LET h1 == Plus(h, Not32(ShiftLeft(h, 9)))
        h2 == Xor32(h1, ShiftRight(h1, 14))
        h3 == Plus(h2, ShiftLeft(h2, 4))
    IN Xor32(h3, ShiftRight(h3, 10))

\* the character at p of a text in memory that holds `beyond' after the NUL
CharAt(text, p, beyond) ==
    IF p <= Len(text) THEN text[p] ELSE IF p = Len(text) + 1 THEN 0 ELSE beyond

\* TOLOWER(*p2++): the macro evaluates its argument two or three times, and so
\* yields a later character and moves on past it
Fetched(text, p, beyond) ==
    LET At(i) == CharAt(text, p + i, beyond)
    IN CASE At(0) <= 64               -> [char |-> At(1), next |-> p + 2]
         [] At(0) > 64 /\ At(1) < 91  -> [char |-> LowerBits(At(2)), next |-> p + 3]
         [] At(0) > 64 /\ At(1) >= 91 -> [char |-> At(2), next |-> p + 3]

\* where p2 is when the loop of hashKeyCompare is at each of the first n + 1
\* characters of its first text
ReadFrom(b, n, beyond) ==
    LET p2[i \in 1..(n + 1)] ==
          IF i = 1 THEN 1 ELSE Fetched(b, p2[i - 1], beyond).next
    IN p2

\* hashKeyCompare of two different addresses.  The comparison with 0 binds
\* stronger than the assignment, so `result' is 1 as long as characters agree,
\* and the function returns true if there is a difference up to the NUL of a.
hashKeyCompare(a, b, beyond) ==
    \E i \in 1..(Len(a) + 1) :
        TOLOWER(CharAt(a, i, beyond)) # Fetched(b, ReadFrom(b, Len(a), beyond)[i], beyond).char

\* there is a difference before anything behind the NUL of b is read, so the outcome
\* does not depend on what lies there
DifferWithin(a, b) ==
    \E i \in 1..(Len(a) + 1) :
        LET fetched == Fetched(b, ReadFrom(b, Len(a), 0)[i], 0)
        IN  fetched.next <= Len(b) + 2 /\ TOLOWER(CharAt(a, i, 0)) # fetched.char

-----------------------------------------------------------------------------
\* wsp_trim_start
Blank == {32}

\* wsp_trim_end also takes away the end of the line and NULs
LineEnd == {0, 10, 13, 32}

wsp_trim_start(text) ==
    LET kept == {i \in 1..Len(text) : text[i] \notin Blank}
    IN IF kept = {} THEN <<>>
       ELSE SubSeq(text, CHOOSE i \in kept : \A j \in kept : i <= j, Len(text))

wsp_trim_end(text) ==
    LET kept == {i \in 1..Len(text) : text[i] \notin LineEnd}
    IN IF kept = {} THEN <<>>
       ELSE SubSeq(text, 1, CHOOSE i \in kept : \A j \in kept : j <= i)

wsp_trim(text) == wsp_trim_end(wsp_trim_start(text))

\* the name in a header line: what comes before the first colon
NameOf(line) ==
    LET before == {i \in 1..Len(line) : \A j \in 1..i : line[j] # 58}
    IN wsp_trim_end(SubSeq(line, 1, Cardinality(before)))

\* its value; the code looks one character beyond the line, where libcurl has
\* put a NUL
ValueOf(line) ==
    LET before == {i \in 1..Len(line) : \A j \in 1..i : line[j] # 58}
    IN wsp_trim(SubSeq(Append(line, 0), Cardinality(before) + 2, Len(line) + 1))

\* headerToString: a char becomes a jchar, with its sign where the ABI's char
\* has one
headerToString(text, signed) ==
    [i \in 1..Len(text) |-> IF signed /\ text[i] > 127 THEN 65280 + text[i] ELSE text[i]]

\* asciiDecode, and the same loop in getHeader: a jchar is cut to its low byte
asciiDecode(chars) == [i \in 1..Len(chars) |-> chars[i] % 256]
=============================================================================
