------------------------------ MODULE BytePipe ------------------------------
(***************************************************************************)
(* What the sending side of a connection promises to its user: the bytes   *)
(* taken over are handed to the peer in order, none skipped or repeated;   *)
(* the end of the stream is announced when all of them have been handed    *)
(* over, and the pipe is not used after that.  Nothing is said about       *)
(* buffers, partial writes, events or the state of the connection.         *)
(***************************************************************************)
EXTENDS Sequences, SequencesExt

VARIABLES accepted,    \* bytes taken over, in order
          delivered,   \* bytes handed to the peer, in order
          ended,       \* the end of the stream has been announced
          misused      \* somebody wrote after the end

absVars == <<accepted, delivered, ended, misused>>

AbsInit == accepted = << >> /\ delivered = << >> /\ ended = FALSE /\ misused = FALSE

(* More bytes are accepted, delivered, or both in one step.                *)
Transfer ==
  /\ IsPrefix(accepted, accepted') /\ IsPrefix(delivered, delivered')
  /\ IsPrefix(delivered', accepted')

End == ended' = TRUE /\ delivered' = accepted'

AbsNext == ~ended /\ Transfer /\ (End \/ UNCHANGED ended) /\ UNCHANGED misused

AbsSpec == AbsInit /\ [][AbsNext]_absVars
=============================================================================
