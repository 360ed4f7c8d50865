----------------------------- MODULE MCTransfer -----------------------------
(* Small instances of Transfer for TLC. *)
EXTENDS Transfer

\* three bytes: ASCII, 0xFF and 0x80 as signed chars
MCBody == <<65, -1, -128>>

\* one byte only
ShortBody == <<65>>

\* the response is read, refused (HEAD), or skipped beside a request body
Downloads == {<<TRUE, FALSE>>, <<FALSE, FALSE>>, <<FALSE, TRUE>>}

\* the request and the response both have a body
BothWays == {<<TRUE, TRUE>>}
=============================================================================
