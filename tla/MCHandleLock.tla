---------------------------- MODULE MCHandleLock ----------------------------
(* A small instance of HandleLock. *)
EXTENDS HandleLock
=============================================================================
