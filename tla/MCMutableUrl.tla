---------------------------- MODULE MCMutableUrl ----------------------------
(* A small instance of MutableUrl: two URLs of different lengths. *)
EXTENDS MutableUrl, TLC

CONSTANTS short, long

MCLength == short :> 2 @@ long :> 4
=============================================================================
