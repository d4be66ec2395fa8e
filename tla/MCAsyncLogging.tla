---------------------------- MODULE MCAsyncLogging ----------------------------
(* Small instances of AsyncLogging for TLC: lines of length one, and one   *)
(* line that is too long for any buffer.                                   *)
EXTENDS AsyncLogging

CONSTANT big

MCLineLen == [l \in Lines |-> IF l = big THEN SIZE ELSE 1]
=============================================================================
