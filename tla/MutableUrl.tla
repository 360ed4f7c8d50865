----------------------------- MODULE MutableUrl -----------------------------
(***************************************************************************)
(* MutableUrl, a character array that grows, and the two others that write *)
(* to it: setUrlString of CurlConnection, and nativeConfigure with the URL *)
(* that a redirect has led to.  A URL is a sequence of cells that all name *)
(* it.  The specification is named UrlSpec, and its parts likewise: this    *)
(* module and RequestHeaders, the two parts of a request, are extended     *)
(* together.                                                               *)
(***************************************************************************)
EXTENDS Integers, Sequences, FiniteSetsExt

CONSTANTS
    Urls,
    UrlLength,      \* the length of each URL
    NUL,
    MinGrow,        \* MIN_GROW_COUNT
    MaxBuffer       \* bound on the size of the array

\* URLs are not empty, and arrays grow
ASSUME UrlAssumption ==
    /\ UrlLength \in [Urls -> Nat \ {0}]
    /\ NUL \notin Urls
    /\ MinGrow \in Nat \ {0} /\ MaxBuffer \in Nat

VARIABLES
    buffer, length,
    connected,
    wanted,         \* history: the URL that was put together, or was redirected to,
                    \* as far as it went before it was spoilt
    behind,         \* history: a shorter text was written over a longer one
    spoilt          \* history: a connect has taken in what was behind the text

urlVars == <<buffer, length, connected, wanted, behind, spoilt>>

TextOf(u) == [i \in 1..UrlLength[u] |-> u]

Text == SubSeq(buffer, 1, length)

\* the characters up to a NUL
CString(b) == SubSeq(b, 1, Min({i - 1 : i \in {j \in 1..Len(b) : b[j] = NUL}} \union {Len(b)}))

UrlInit ==
    /\ buffer = << >> /\ length = 0
    /\ connected = FALSE
    /\ wanted = << >> /\ behind = FALSE /\ spoilt = FALSE

-----------------------------------------------------------------------------
\* the size of an array of n cells that has to take `count' cells after `elements'
grow(n, elements, count) ==
    Max({elements + count, n + Max({(3 * n) \div 2, MinGrow})})

\* Arrays.copyOf to a size that is no smaller
CopyOf(b, n) == [i \in 1..n |-> IF i <= Len(b) THEN b[i] ELSE NUL]

\* the array b, which holds n characters, with room for `count' more
ensureBufferSpace(b, n, count) ==
    IF n + count > Len(b) THEN CopyOf(b, grow(Len(b), n, count)) ELSE b

\* the cells of `text' over those of b after the first n
Written(b, n, text) == [i \in 1..Len(b) |-> IF i - n \in 1..Len(text) THEN text[i - n] ELSE b[i]]

\* the text that begins at n takes the place of what was there
Appended(n, text) == Written(ensureBufferSpace(buffer, n, Len(text)), n, text)

append(u) ==
    /\ ~connected
    /\ Len(Appended(length, TextOf(u))) <= MaxBuffer
    /\ buffer' = Appended(length, TextOf(u))
    /\ length' = length + UrlLength[u]
    /\ wanted' = IF spoilt THEN wanted ELSE wanted \o TextOf(u)
    /\ UNCHANGED <<connected, behind, spoilt>>

\* setLength(0)
Clear == length' = 0 /\ buffer' = [i \in 1..Len(buffer) |-> IF i <= length THEN NUL ELSE buffer[i]]

\* what was behind the text stays there
clear ==
    /\ ~connected
    /\ Clear
    /\ wanted' = << >> /\ spoilt' = FALSE
    /\ UNCHANGED <<connected, behind>>

release ==
    /\ ~connected
    /\ buffer' = << >> /\ length' = 0
    /\ wanted' = << >> /\ behind' = FALSE /\ spoilt' = FALSE
    /\ UNCHANGED connected

\* setUrlString sets the length back and leaves the old text behind the new one
setUrlString(u) ==
    /\ ~connected
    /\ Len(Appended(0, TextOf(u))) <= MaxBuffer
    /\ buffer' = Appended(0, TextOf(u))
    /\ length' = UrlLength[u]
    /\ wanted' = TextOf(u) /\ spoilt' = FALSE
    /\ behind' = (behind \/ UrlLength[u] < length)
    /\ UNCHANGED connected

-----------------------------------------------------------------------------
\* what CURLOPT_URL is given
Requested == CString(Text)

\* mutant: the end of a shorter URL is not marked
RedirectedUnmarked(e) == IF Len(e) > Len(buffer) THEN e ELSE Written(buffer, 0, e)

\* the effective URL e over the old one, or in an array of its own when that is too small
Redirected(e) ==
    CASE Len(e) > Len(buffer) -> e
      [] Len(e) < Len(buffer) -> Written(buffer, 0, Append(e, NUL))
      [] OTHER -> Written(buffer, 0, e)

\* configure without redirects, or one that fails: the array is only read
Configure ==
    /\ ~connected /\ length > 0
    /\ connected' \in BOOLEAN
    /\ UNCHANGED <<buffer, length, wanted, behind, spoilt>>

\* configure with redirects; the URL is the old one, or the transfer is over already,
\* or it was interrupted early.  updateUrl gets its own array back and looks for a NUL.
ConfigureSameUrl ==
    /\ ~connected /\ length > 0
    /\ length' = Len(CString(buffer))
    /\ connected' \in BOOLEAN
    /\ spoilt' = (spoilt \/ (behind /\ length' > length))
    /\ UNCHANGED <<buffer, wanted, behind>>

\* the transfer was redirected to u; an interruption after that is noticed in Java only
ConfigureRedirected(u) ==
    LET e == TextOf(u)
    IN /\ ~connected /\ length > 0
       /\ e # Requested
       /\ buffer' = Redirected(e)
       /\ length' = Len(CString(buffer'))
       /\ connected' \in BOOLEAN
       /\ wanted' = e /\ spoilt' = FALSE
       /\ behind' = (Len(e) <= Len(buffer) /\ (behind \/ Len(e) < length))

reset == connected' = FALSE /\ UNCHANGED <<buffer, length, wanted, behind, spoilt>>

UrlNext ==
    \/ \E u \in Urls : append(u) \/ setUrlString(u)
    \/ clear \/ release
    \/ Configure \/ ConfigureSameUrl
    \/ \E u \in Urls : ConfigureRedirected(u)
    \/ reset

UrlSpec == UrlInit /\ [][UrlNext]_urlVars

-----------------------------------------------------------------------------
(* Properties *)

\* Every variable stays in its type, and the length within the array.
UrlTypeOK ==
    /\ buffer \in Seq(Urls \union {NUL}) /\ length \in 0..Len(buffer)
    /\ wanted \in Seq(Urls)
    /\ {connected, behind, spoilt} \subseteq BOOLEAN

\* The URL that is shown is the one that the next connect asks for, up to its last
\* character, and begins with all of what was put together or redirected to, through
\* every growth of the array, every text written over another and every
\* interruption.  Nothing else is in it, unless a connect has taken in what
\* setUrlString or a redirect to a shorter URL has left behind the text: that comes
\* after it, and never takes the place of any of it.
UrlKept ==
    /\ UrlTypeOK
    /\ Requested = Text
    /\ Len(wanted) <= length /\ SubSeq(Text, 1, Len(wanted)) = wanted
    /\ ~spoilt => Text = wanted
=============================================================================
