----------------------------- MODULE MCTimeout -----------------------------
(* A small instance of Timeout: two milliseconds in a second. *)
EXTENDS Timeout

\* no limit, a short and a longer one
MCTimeouts == {-1, 1, 2}

\* no timer, and two ahead
MCTimers == {-1, 1, 3}
=============================================================================
