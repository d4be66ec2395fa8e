--------------------------- MODULE EventLoopProofs ---------------------------
(***************************************************************************)
(* Safety of the event loop for any number of callers, channels and        *)
(* functors, and its refinement of SerialExecutor.                         *)
(***************************************************************************)
EXTENDS EventLoop, SequenceTheorems, TLAPS

(* NoLostFunctor speaks of poll only.  It is inductive once it is known at *)
(* every place but dispatch, from where the next step of the loop swaps    *)
(* pendingFunctors_ out, and once callingPendingFunctors_ is tied to the   *)
(* place where the owner's queueInLoop reads it.                           *)
WakeupInv ==
  /\ callingPendingFunctors_ <=> lpc = "run"
  /\ lpc # "dispatch" /\ pendingFunctors_ # << >> => WakeupPending \/ early

QueueInv ==
  /\ lpc # "run" => functors = << >>
  /\ Conservation

-----------------------------------------------------------------------------
(* Facts about sequences.                                                  *)

(* Pushing at the end of the last of three concatenated sequences appends  *)
(* to the whole.                                                           *)
LEMMA ConcatPush ==
  ASSUME NEW S, NEW r \in Seq(S), NEW b \in Seq(S), NEW p \in Seq(S), NEW e \in S
  PROVE  r \o b \o Append(p, e) = Append(r \o b \o p, e)
<1>1. <<e>> \in Seq(S)
  OBVIOUS
<1>2. r \o b \in Seq(S)
  BY ConcatProperties
<1>3. Append(p, e) = p \o <<e>>
  BY AppendIsConcat
<1>4. (r \o b) \o (p \o <<e>>) = ((r \o b) \o p) \o <<e>>
  BY <1>1, <1>2, ConcatAssociative
<1>5. (r \o b) \o p \in Seq(S)
  BY <1>2, ConcatProperties
<1> QED
  BY <1>3, <1>4, <1>5, AppendIsConcat

(* Moving the head of the second of three sequences to the end of the      *)
(* first leaves the whole unchanged.                                       *)
LEMMA ConcatShift ==
  ASSUME NEW S, NEW r \in Seq(S), NEW b \in Seq(S), NEW p \in Seq(S), b # << >>
  PROVE  Append(r, Head(b)) \o Tail(b) \o p = r \o b \o p
<1>1. Head(b) \in S /\ Tail(b) \in Seq(S)
  BY HeadTailProperties
<1>2. <<Head(b)>> \in Seq(S)
  BY <1>1
<1>3. Append(r, Head(b)) = r \o <<Head(b)>>
  BY <1>1, AppendIsConcat
<1>4. (r \o <<Head(b)>>) \o Tail(b) = r \o (<<Head(b)>> \o Tail(b))
  BY <1>1, <1>2, ConcatAssociative
<1>5. <<Head(b)>> \o Tail(b) = b
  BY HeadTailProperties, <1>1, <1>2, ConcatProperties, SeqEqual
<1> QED
  BY <1>3, <1>4, <1>5

-----------------------------------------------------------------------------
(* Type correctness: the eventfd counter never exceeds its limit, and the  *)
(* queues hold functors only.                                              *)
THEOREM TypeCorrect == Spec => []TypeOK
<1>1. Init => TypeOK
  <2>1. << >> \in Seq(Functors)
    BY EmptySeq
  <2>2. 0 \in 0..WakeupMax /\ kInitEventListSize \in Nat \ {0}
    BY EventLoopAssumption DEF EventLoopAssumption
  <2> QED
    BY <2>1, <2>2 DEF Init, TypeOK
<1>2. TypeOK /\ [Next]_vars => TypeOK'
  <2> SUFFICES ASSUME TypeOK, [Next]_vars PROVE TypeOK'
    OBVIOUS
  <2> USE EventLoopAssumption DEF EventLoopAssumption, TypeOK, shared, local, push_back, wakeup
  <2>1. ASSUME NEW t \in Callers, NEW f \in Functors, queueInLoop(t, f) PROVE TypeOK'
    BY <2>1, AppendProperties DEF queueInLoop
  <2>2. ASSUME NEW t \in Callers, quit(t) PROVE TypeOK'
    BY <2>2 DEF quit
  <2>3. ASSUME NEW t \in Callers, callerWakeup(t) PROVE TypeOK'
    BY <2>3 DEF callerWakeup
  <2>4. ASSUME NEW f \in Functors, ownerQueueInLoop(f) PROVE TypeOK'
    BY <2>4, AppendProperties DEF ownerQueueInLoop
  <2>5. CASE ownerQuit
    BY <2>5 DEF ownerQuit
  <2>6. CASE loop
    BY <2>6 DEF loop
  <2>7. CASE checkQuit
    BY <2>7 DEF checkQuit
  <2>8. ASSUME NEW active \in SUBSET Channels, Poll(active) PROVE TypeOK'
    BY <2>8 DEF Poll
  <2>9. CASE pollTimeout
    BY <2>9 DEF pollTimeout
  <2>10. CASE handleRead
    BY <2>10 DEF handleRead
  <2>11. ASSUME NEW c \in UserChannels, handleEvent(c) PROVE TypeOK'
    BY <2>11 DEF handleEvent
  <2>12. CASE doPendingFunctors
    BY <2>12, EmptySeq DEF doPendingFunctors
  <2>13. CASE runFunctor
    BY <2>13, HeadTailProperties, AppendProperties DEF runFunctor
  <2>14. CASE functorsDone
    BY <2>14 DEF functorsDone
  <2>15. CASE UNCHANGED vars
    BY <2>15 DEF vars
  <2> QED
    BY <2>1, <2>2, <2>3, <2>4, <2>5, <2>6, <2>7, <2>8, <2>9, <2>10, <2>11,
       <2>12, <2>13, <2>14, <2>15 DEF Next
<1> QED
  BY <1>1, <1>2, PTL DEF Spec

-----------------------------------------------------------------------------
(* queueInLoop's condition (EventLoop.cc:108) is enough: the owner never   *)
(* sleeps in poll on a queued functor without a wake-up pending, except on *)
(* one it queued itself before loop().                                     *)
LEMMA FunctorSafe == Spec => []NoLostFunctor
<1>1. Init => WakeupInv
  BY DEF Init, WakeupInv
<1>2. TypeOK /\ WakeupInv /\ [Next]_vars => WakeupInv'
  <2> SUFFICES ASSUME TypeOK, WakeupInv, [Next]_vars PROVE WakeupInv'
    OBVIOUS
  <2> USE EventLoopAssumption
      DEF EventLoopAssumption, TypeOK, WakeupInv, WakeupPending, shared, local
  <2>1. ASSUME NEW t \in Callers, NEW f \in Functors, queueInLoop(t, f) PROVE WakeupInv'
    BY <2>1 DEF queueInLoop, push_back
  <2>2. ASSUME NEW t \in Callers, quit(t) PROVE WakeupInv'
    BY <2>2 DEF quit
  <2>3. ASSUME NEW t \in Callers, callerWakeup(t) PROVE WakeupInv'
    BY <2>3 DEF callerWakeup, wakeup
  <2>4. ASSUME NEW f \in Functors, ownerQueueInLoop(f) PROVE WakeupInv'
    <3>1. UNCHANGED <<lpc, cpc, callingPendingFunctors_>>
      BY <2>4 DEF ownerQueueInLoop
    <3>2. CASE lpc = "run"
      <4>1. wakeup
        BY <2>4, <3>2 DEF ownerQueueInLoop
      <4> QED
        BY <3>1, <4>1 DEF wakeup
    <3>3. CASE lpc = "outside"
      <4>1. early'
        BY <2>4, <3>3, Zenon DEF ownerQueueInLoop
      <4> QED
        BY <3>1, <3>3, <4>1
    <3>4. lpc \in {"run", "outside", "dispatch"}
      BY <2>4 DEF ownerQueueInLoop, InCallback
    <3> QED
      BY <3>1, <3>2, <3>3, <3>4
  <2>5. CASE ownerQuit
    BY <2>5 DEF ownerQuit
  <2>6. CASE loop
    BY <2>6 DEF loop
  <2>7. CASE checkQuit
    BY <2>7 DEF checkQuit
  <2>8. ASSUME NEW active \in SUBSET Channels, Poll(active) PROVE WakeupInv'
    BY <2>8 DEF Poll
  <2>9. CASE pollTimeout
    BY <2>9 DEF pollTimeout
  <2>10. CASE handleRead
    BY <2>10 DEF handleRead
  <2>11. ASSUME NEW c \in UserChannels, handleEvent(c) PROVE WakeupInv'
    BY <2>11 DEF handleEvent
  <2>12. CASE doPendingFunctors
    BY <2>12 DEF doPendingFunctors
  <2>13. CASE runFunctor
    BY <2>13 DEF runFunctor
  <2>14. CASE functorsDone
    BY <2>14 DEF functorsDone
  <2>15. CASE UNCHANGED vars
    BY <2>15 DEF vars
  <2> QED
    BY <2>1, <2>2, <2>3, <2>4, <2>5, <2>6, <2>7, <2>8, <2>9, <2>10, <2>11,
       <2>12, <2>13, <2>14, <2>15 DEF Next
<1>3. WakeupInv => NoLostFunctor
  BY DEF WakeupInv, NoLostFunctor
<1> QED
  BY <1>1, <1>2, <1>3, TypeCorrect, PTL DEF Spec

(* quit() from another thread (EventLoop.cc:80-87) always gets the owner   *)
(* out of poll.                                                            *)
LEMMA QuitSafe == Spec => []NoLostQuit
<1>1. Init => NoLostQuit
  BY DEF Init, NoLostQuit
<1>2. TypeOK /\ NoLostQuit /\ [Next]_vars => NoLostQuit'
  <2> SUFFICES ASSUME TypeOK, NoLostQuit, [Next]_vars PROVE NoLostQuit'
    OBVIOUS
  <2> USE EventLoopAssumption
      DEF EventLoopAssumption, TypeOK, NoLostQuit, WakeupPending, shared, local
  <2>1. ASSUME NEW t \in Callers, NEW f \in Functors, queueInLoop(t, f) PROVE NoLostQuit'
    BY <2>1 DEF queueInLoop
  <2>2. ASSUME NEW t \in Callers, quit(t) PROVE NoLostQuit'
    BY <2>2 DEF quit
  <2>3. ASSUME NEW t \in Callers, callerWakeup(t) PROVE NoLostQuit'
    BY <2>3 DEF callerWakeup, wakeup
  <2>4. ASSUME NEW f \in Functors, ownerQueueInLoop(f) PROVE NoLostQuit'
    BY <2>4 DEF ownerQueueInLoop, wakeup, InCallback
  <2>5. CASE ownerQuit
    BY <2>5 DEF ownerQuit, InCallback
  <2>6. CASE loop
    BY <2>6 DEF loop
  <2>7. CASE checkQuit
    BY <2>7 DEF checkQuit
  <2>8. ASSUME NEW active \in SUBSET Channels, Poll(active) PROVE NoLostQuit'
    BY <2>8 DEF Poll
  <2>9. CASE pollTimeout
    BY <2>9 DEF pollTimeout
  <2>10. CASE handleRead
    BY <2>10 DEF handleRead
  <2>11. ASSUME NEW c \in UserChannels, handleEvent(c) PROVE NoLostQuit'
    BY <2>11 DEF handleEvent
  <2>12. CASE doPendingFunctors
    BY <2>12 DEF doPendingFunctors
  <2>13. CASE runFunctor
    BY <2>13 DEF runFunctor
  <2>14. CASE functorsDone
    BY <2>14 DEF functorsDone
  <2>15. CASE UNCHANGED vars
    BY <2>15 DEF vars
  <2> QED
    BY <2>1, <2>2, <2>3, <2>4, <2>5, <2>6, <2>7, <2>8, <2>9, <2>10, <2>11,
       <2>12, <2>13, <2>14, <2>15 DEF Next
<1> QED
  BY <1>1, <1>2, TypeCorrect, PTL DEF Spec

(* EventLoop.cc:82-86 and 108: neither a functor nor a quit() leaves the   *)
(* owner asleep in poll without a wake-up on its way.                      *)
THEOREM WakeupSafe == Spec => []NoLostWakeup
  BY FunctorSafe, QuitSafe, PTL DEF NoLostWakeup

-----------------------------------------------------------------------------
LEMMA QueueInvariant == Spec => []QueueInv
<1>1. Init => QueueInv
  BY EmptySeq, ConcatEmptySeq DEF Init, QueueInv, Conservation
<1>2. TypeOK /\ QueueInv /\ [Next]_vars => QueueInv'
  <2> SUFFICES ASSUME TypeOK, QueueInv, [Next]_vars PROVE QueueInv'
    OBVIOUS
  <2> USE DEF TypeOK, QueueInv, Conservation, shared, local
  <2>1. ASSUME NEW t \in Callers, NEW f \in Functors, queueInLoop(t, f) PROVE QueueInv'
    <3>1. ran \o functors \o Append(pendingFunctors_, f)
            = Append(ran \o functors \o pendingFunctors_, f)
      BY ConcatPush
    <3> QED
      BY <2>1, <3>1 DEF queueInLoop, push_back
  <2>2. ASSUME NEW t \in Callers, quit(t) PROVE QueueInv'
    BY <2>2 DEF quit
  <2>3. ASSUME NEW t \in Callers, callerWakeup(t) PROVE QueueInv'
    BY <2>3 DEF callerWakeup
  <2>4. ASSUME NEW f \in Functors, ownerQueueInLoop(f) PROVE QueueInv'
    <3>1. ran \o functors \o Append(pendingFunctors_, f)
            = Append(ran \o functors \o pendingFunctors_, f)
      BY ConcatPush
    <3> QED
      BY <2>4, <3>1 DEF ownerQueueInLoop, push_back
  <2>5. CASE ownerQuit
    BY <2>5 DEF ownerQuit
  <2>6. CASE loop
    BY <2>6 DEF loop
  <2>7. CASE checkQuit
    BY <2>7 DEF checkQuit
  <2>8. ASSUME NEW active \in SUBSET Channels, Poll(active) PROVE QueueInv'
    BY <2>8 DEF Poll
  <2>9. CASE pollTimeout
    BY <2>9 DEF pollTimeout
  <2>10. CASE handleRead
    BY <2>10 DEF handleRead
  <2>11. ASSUME NEW c \in UserChannels, handleEvent(c) PROVE QueueInv'
    BY <2>11 DEF handleEvent
  <2>12. CASE doPendingFunctors
    <3>1. ran \o << >> = ran
      BY ConcatEmptySeq
    <3>2. ran \o pendingFunctors_ \in Seq(Functors)
      BY ConcatProperties
    <3>3. (ran \o pendingFunctors_) \o << >> = ran \o pendingFunctors_
      BY <3>2, ConcatEmptySeq
    <3> QED
      BY <2>12, <3>1, <3>3 DEF doPendingFunctors
  <2>13. CASE runFunctor
    BY <2>13, ConcatShift DEF runFunctor
  <2>14. CASE functorsDone
    BY <2>14 DEF functorsDone
  <2>15. CASE UNCHANGED vars
    BY <2>15 DEF vars
  <2> QED
    BY <2>1, <2>2, <2>3, <2>4, <2>5, <2>6, <2>7, <2>8, <2>9, <2>10, <2>11,
       <2>12, <2>13, <2>14, <2>15 DEF Next
<1> QED
  BY <1>1, <1>2, TypeCorrect, PTL DEF Spec

(* No functor is lost, duplicated or reordered between push_back and its   *)
(* call, whatever the interleaving of pushes with the swap of a batch.     *)
THEOREM QueueConserved == Spec => []Conservation
  BY QueueInvariant, PTL DEF QueueInv

(* Every step of the loop is a step of the serial executor, or a stutter:  *)
(* functors run once each and in the order of their push_back.             *)
THEOREM RefinesSerialExecutor == Spec => ImplementsSerialExecutor
<1> USE DEF Executor!absVars
<1>1. Init => Executor!AbsInit
  BY DEF Init, Executor!AbsInit
<1>2. TypeOK /\ QueueInv /\ [Next]_vars => [Executor!AbsNext]_(Executor!absVars)
  <2> SUFFICES ASSUME TypeOK, QueueInv, [Next]_vars
               PROVE  [Executor!AbsNext]_(Executor!absVars)
    OBVIOUS
  <2> USE DEF Executor!AbsNext
  <2>1. ASSUME NEW t \in Callers, NEW f \in Functors, queueInLoop(t, f) PROVE [Executor!AbsNext]_(Executor!absVars)
    BY <2>1 DEF queueInLoop, push_back, Executor!Accept
  <2>2. ASSUME NEW t \in Callers, quit(t) PROVE [Executor!AbsNext]_(Executor!absVars)
    BY <2>2 DEF quit
  <2>3. ASSUME NEW t \in Callers, callerWakeup(t) PROVE [Executor!AbsNext]_(Executor!absVars)
    BY <2>3 DEF callerWakeup
  <2>4. ASSUME NEW f \in Functors, ownerQueueInLoop(f) PROVE [Executor!AbsNext]_(Executor!absVars)
    BY <2>4 DEF ownerQueueInLoop, push_back, Executor!Accept
  <2>5. CASE ownerQuit
    BY <2>5 DEF ownerQuit
  <2>6. CASE loop
    BY <2>6 DEF loop
  <2>7. CASE checkQuit
    BY <2>7 DEF checkQuit
  <2>8. ASSUME NEW active \in SUBSET Channels, Poll(active) PROVE [Executor!AbsNext]_(Executor!absVars)
    BY <2>8 DEF Poll
  <2>9. CASE pollTimeout
    BY <2>9 DEF pollTimeout
  <2>10. CASE handleRead
    BY <2>10 DEF handleRead
  <2>11. ASSUME NEW c \in UserChannels, handleEvent(c) PROVE [Executor!AbsNext]_(Executor!absVars)
    BY <2>11 DEF handleEvent
  <2>12. CASE doPendingFunctors
    BY <2>12 DEF doPendingFunctors
  <2>13. CASE runFunctor
    <3> USE <2>13 DEF TypeOK, QueueInv, Conservation, runFunctor
    <3>1. functors \o pendingFunctors_ \in Seq(Functors)
      BY ConcatProperties
    <3>2. queued = ran \o (functors \o pendingFunctors_)
      BY ConcatAssociative
    <3>3. /\ Len(functors) > 0
          /\ Len(queued) = Len(ran) + Len(functors) + Len(pendingFunctors_)
      BY <3>1, <3>2, ConcatProperties, EmptySeq
    <3>4. queued[Len(ran) + 1] = (functors \o pendingFunctors_)[1]
      BY <3>1, <3>2, <3>3, ConcatProperties
    <3>5. (functors \o pendingFunctors_)[1] = functors[1]
      BY <3>3, ConcatProperties
    <3>6. functors[1] = Head(functors)
      OBVIOUS
    <3> QED
      BY <3>3, <3>4, <3>5, <3>6 DEF Executor!Execute
  <2>14. CASE functorsDone
    BY <2>14 DEF functorsDone
  <2>15. CASE UNCHANGED vars
    BY <2>15 DEF vars
  <2> QED
    BY <2>1, <2>2, <2>3, <2>4, <2>5, <2>6, <2>7, <2>8, <2>9, <2>10, <2>11,
       <2>12, <2>13, <2>14, <2>15 DEF Next
<1> QED
  BY <1>1, <1>2, TypeCorrect, QueueInvariant, PTL
     DEF Spec, ImplementsSerialExecutor, Executor!AbsSpec
=============================================================================
