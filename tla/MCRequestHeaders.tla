-------------------------- MODULE MCRequestHeaders --------------------------
(* Small instances of RequestHeaders. *)
EXTENDS RequestHeaders

\* the second name extends the first
Prefixes == {<<"accept", "accept-charset">>}
=============================================================================
