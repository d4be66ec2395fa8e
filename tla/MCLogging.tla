------------------------------ MODULE MCLogging ------------------------------
(***************************************************************************)
(* Logging for TLC: the integers are those where the number of digits, the *)
(* sign or the width changes, and one at the limit of what TLC can negate. *)
(***************************************************************************)
EXTENDS Logging

MCPrintedInts == {-2147483639, -128, -100, -99, -10, -1, 0, 9, 10, 32, 35, 58, 255}

(* The threads are alike.                                                  *)
Sym == Permutations(Threads)
=============================================================================
