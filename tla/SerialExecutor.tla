--------------------------- MODULE SerialExecutor ---------------------------
(***************************************************************************)
(* What EventLoop::queueInLoop promises to its callers: every accepted     *)
(* functor runs at most once, and functors run in the order in which they  *)
(* were accepted.  Nothing is said about threads, wake-ups or batches.     *)
(***************************************************************************)
EXTENDS Naturals, Sequences

CONSTANT Functors

VARIABLES accepted,     \* functors handed over, in order
          executed      \* functors that have run, in order

absVars == <<accepted, executed>>

AbsInit == accepted = << >> /\ executed = << >>

Accept(f) ==
  /\ accepted' = Append(accepted, f)
  /\ UNCHANGED executed

Execute ==
  /\ Len(executed) < Len(accepted)
  /\ executed' = Append(executed, accepted[Len(executed) + 1])
  /\ UNCHANGED accepted

AbsNext == Execute \/ \E f \in Functors : Accept(f)

AbsSpec == AbsInit /\ [][AbsNext]_absVars
=============================================================================
