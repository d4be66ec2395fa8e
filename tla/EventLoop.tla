------------------------------ MODULE EventLoop ------------------------------
(***************************************************************************)
(* EventLoop: one thread (the owner) polls, dispatches the active channels *)
(* and then runs the functors queued by itself or by other threads.  The   *)
(* eventfd counter wakeupFd_ is what makes a blocked poll return.          *)
(*                                                                         *)
(* A caller is a thread other than the owner; between the locked push (or  *)
(* the store to quit_) and the write to the eventfd it can be preempted,   *)
(* so the two are separate steps.  The owner's own calls happen inside a   *)
(* callback, or before loop(), and cannot interleave with the loop itself. *)
(***************************************************************************)
EXTENDS Naturals, Sequences, FiniteSets, Functions

CONSTANTS Callers,         \* threads that do not own the loop
          UserChannels,    \* channels other than wakeupChannel_
          wakeupChannel_,
          Functors,        \* each is queued at most once (bounds the model)
          WakeupMax,       \* largest eventfd counter; a write beyond fails
          kInitEventListSize  \* initial size of EpollPoller::events_

ASSUME EventLoopAssumption ==
  /\ WakeupMax \in Nat \ {0}
  /\ kInitEventListSize \in Nat \ {0}
  /\ wakeupChannel_ \notin UserChannels

VARIABLES quit_, callingPendingFunctors_,
          pendingFunctors_,  \* the vector guarded by mutex_
          functors,          \* the local vector of doPendingFunctors
          activeChannels_,   \* returned by Poll, not handled yet
          events_,           \* size of the poller's event array
          wakeupFd_,         \* the eventfd counter
          lpc,               \* where the owner is
          cpc,               \* where each caller is
          queued, ran,       \* history: functors pushed, functors run
          early              \* history: the owner queued outside loop() and
                             \* nothing was swapped out since

shared == <<pendingFunctors_, wakeupFd_, quit_>>
local  == <<callingPendingFunctors_, functors, activeChannels_, events_>>
vars   == <<shared, local, lpc, cpc, queued, ran, early>>

Channels == UserChannels \cup {wakeupChannel_}

TypeOK ==
  /\ quit_ \in BOOLEAN /\ callingPendingFunctors_ \in BOOLEAN
  /\ early \in BOOLEAN
  /\ pendingFunctors_ \in Seq(Functors) /\ functors \in Seq(Functors)
  /\ queued \in Seq(Functors) /\ ran \in Seq(Functors)
  /\ activeChannels_ \in SUBSET Channels
  /\ events_ \in Nat \ {0}
  /\ wakeupFd_ \in 0..WakeupMax
  /\ lpc \in {"outside", "while", "poll", "dispatch", "run"}
  /\ cpc \in [Callers -> {"idle", "wakeup"}]

Init ==
  /\ quit_ = FALSE /\ callingPendingFunctors_ = FALSE
  /\ pendingFunctors_ = << >> /\ functors = << >>
  /\ activeChannels_ = {} /\ events_ = kInitEventListSize /\ wakeupFd_ = 0
  /\ lpc = "outside" /\ cpc = [t \in Callers |-> "idle"]
  /\ queued = << >> /\ ran = << >> /\ early = FALSE

-----------------------------------------------------------------------------
(* Deliberate defects of the definitions below, used to see the properties *)
(* fail: LIFO order, forgotten wake-ups, a copy where the code swaps, and  *)
(* quit_ looked at too early.                                              *)

push_front(f) ==
  /\ f \notin Range(queued)
  /\ pendingFunctors_' = <<f>> \o pendingFunctors_
  /\ queued' = Append(queued, f)

queueInLoop_noWakeup(t, f) ==
  /\ cpc[t] = "idle" /\ f \notin Range(queued)
  /\ pendingFunctors_' = Append(pendingFunctors_, f)
  /\ queued' = Append(queued, f)
  /\ UNCHANGED <<quit_, wakeupFd_, cpc, local, lpc, ran, early>>

ownerQueueInLoop_noWakeup(f) ==
  /\ lpc = "outside" \/ (lpc = "run" /\ functors # << >>)
  /\ f \notin Range(queued)
  /\ pendingFunctors_' = Append(pendingFunctors_, f)
  /\ queued' = Append(queued, f)
  /\ early' = (early \/ lpc = "outside")
  /\ UNCHANGED <<quit_, wakeupFd_, local, lpc, cpc, ran>>

quit_noWakeup(t) ==
  /\ cpc[t] = "idle" /\ quit_' = TRUE
  /\ UNCHANGED <<pendingFunctors_, wakeupFd_, cpc, local, lpc, queued, ran, early>>

doPendingFunctors_copies ==
  /\ lpc = "dispatch" /\ activeChannels_ = {} /\ lpc' = "run"
  /\ callingPendingFunctors_' = TRUE
  /\ functors' = pendingFunctors_ /\ early' = FALSE
  /\ UNCHANGED <<shared, activeChannels_, events_, cpc, queued, ran>>

doPendingFunctors_unlessQuit ==
  /\ lpc = "dispatch" /\ activeChannels_ = {}
  /\ IF quit_
     THEN /\ lpc' = "while"
          /\ UNCHANGED <<callingPendingFunctors_, functors, pendingFunctors_, early>>
     ELSE /\ lpc' = "run" /\ callingPendingFunctors_' = TRUE
          /\ functors' = pendingFunctors_ /\ pendingFunctors_' = << >> /\ early' = FALSE
  /\ UNCHANGED <<quit_, wakeupFd_, activeChannels_, events_, cpc, queued, ran>>

-----------------------------------------------------------------------------
(* wakeup(): a failed write (counter at its maximum) is only logged.       *)
wakeup == wakeupFd_' = IF wakeupFd_ < WakeupMax THEN wakeupFd_ + 1
                                                ELSE wakeupFd_

push_back(f) ==
  /\ f \notin Range(queued)
  /\ pendingFunctors_' = Append(pendingFunctors_, f)
  /\ queued' = Append(queued, f)

(* A user callback is running on the owner: a channel's handler or the     *)
(* functor at the head of the batch.                                       *)
InCallback == \/ lpc = "dispatch" /\ activeChannels_ \cap UserChannels # {}
              \/ lpc = "run" /\ functors # << >>

-----------------------------------------------------------------------------
(* Other threads.                                                          *)

queueInLoop(t, f) ==
  /\ cpc[t] = "idle" /\ cpc' = [cpc EXCEPT ![t] = "wakeup"]
  /\ push_back(f)
  /\ UNCHANGED <<quit_, wakeupFd_, local, lpc, ran, early>>

quit(t) ==
  /\ cpc[t] = "idle" /\ cpc' = [cpc EXCEPT ![t] = "wakeup"]
  /\ quit_' = TRUE
  /\ UNCHANGED <<pendingFunctors_, wakeupFd_, local, lpc, queued, ran, early>>

callerWakeup(t) ==
  /\ cpc[t] = "wakeup" /\ cpc' = [cpc EXCEPT ![t] = "idle"]
  /\ wakeup
  /\ UNCHANGED <<pendingFunctors_, quit_, local, lpc, queued, ran, early>>

-----------------------------------------------------------------------------
(* The owner, outside its loop or in a callback.                           *)

ownerQueueInLoop(f) ==
  /\ lpc = "outside" \/ InCallback
  /\ push_back(f)
  /\ IF callingPendingFunctors_ THEN wakeup ELSE UNCHANGED wakeupFd_
  /\ early' = (early \/ lpc = "outside")
  /\ UNCHANGED <<quit_, local, lpc, cpc, ran>>

ownerQuit ==
  /\ lpc = "outside" \/ InCallback
  /\ quit_' = TRUE
  /\ UNCHANGED <<pendingFunctors_, wakeupFd_, local, lpc, cpc, queued, ran, early>>

-----------------------------------------------------------------------------
(* The loop.                                                               *)

loop ==
  /\ lpc = "outside" /\ lpc' = "while"
  /\ quit_' = FALSE
  /\ UNCHANGED <<pendingFunctors_, wakeupFd_, local, cpc, queued, ran, early>>

checkQuit ==
  /\ lpc = "while" /\ lpc' = IF quit_ THEN "outside" ELSE "poll"
  /\ activeChannels_' = {}
  /\ UNCHANGED <<shared, callingPendingFunctors_, functors, events_, cpc, queued,
                 ran, early>>

(* Level-triggered epoll: every ready channel is reported, unless there    *)
(* are more of them than events_ has room for.                             *)
Poll(active) ==
  /\ lpc = "poll" /\ lpc' = "dispatch"
  /\ active # {} /\ Cardinality(active) <= events_
  /\ wakeupChannel_ \in active => wakeupFd_ > 0
  /\ wakeupFd_ > 0 => wakeupChannel_ \in active \/ Cardinality(active) = events_
  /\ activeChannels_' = active
  /\ events_' = IF Cardinality(active) = events_ THEN 2 * events_ ELSE events_
  /\ UNCHANGED <<shared, callingPendingFunctors_, functors, cpc, queued, ran, early>>

(* The kPollTimeMs timeout, or EINTR: no active channel.                   *)
pollTimeout ==
  /\ lpc = "poll" /\ lpc' = "dispatch"
  /\ wakeupFd_ = 0
  /\ UNCHANGED <<shared, local, cpc, queued, ran, early>>

handleRead ==
  /\ lpc = "dispatch" /\ wakeupChannel_ \in activeChannels_
  /\ activeChannels_' = activeChannels_ \ {wakeupChannel_}
  /\ wakeupFd_' = 0
  /\ UNCHANGED <<pendingFunctors_, quit_, callingPendingFunctors_, functors,
                 events_, lpc, cpc, queued, ran, early>>

handleEvent(c) ==
  /\ lpc = "dispatch" /\ c \in activeChannels_
  /\ activeChannels_' = activeChannels_ \ {c}
  /\ UNCHANGED <<shared, callingPendingFunctors_, functors, events_, lpc, cpc,
                 queued, ran, early>>

doPendingFunctors ==
  /\ lpc = "dispatch" /\ activeChannels_ = {} /\ lpc' = "run"
  /\ callingPendingFunctors_' = TRUE
  /\ functors' = pendingFunctors_ /\ pendingFunctors_' = << >>
  /\ early' = FALSE
  /\ UNCHANGED <<quit_, wakeupFd_, activeChannels_, events_, cpc, queued, ran>>

runFunctor ==
  /\ lpc = "run" /\ functors # << >>
  /\ ran' = Append(ran, Head(functors)) /\ functors' = Tail(functors)
  /\ UNCHANGED <<shared, callingPendingFunctors_, activeChannels_, events_, lpc,
                 cpc, queued, early>>

functorsDone ==
  /\ lpc = "run" /\ functors = << >> /\ lpc' = "while"
  /\ callingPendingFunctors_' = FALSE
  /\ UNCHANGED <<shared, functors, activeChannels_, events_, cpc, queued, ran,
                 early>>

-----------------------------------------------------------------------------
Next ==
  \/ \E t \in Callers : quit(t) \/ callerWakeup(t)
  \/ \E t \in Callers, f \in Functors : queueInLoop(t, f)
  \/ \E f \in Functors : ownerQueueInLoop(f)
  \/ ownerQuit
  \/ loop \/ checkQuit \/ pollTimeout \/ handleRead
  \/ \E active \in SUBSET Channels : Poll(active)
  \/ \E c \in UserChannels : handleEvent(c)
  \/ doPendingFunctors \/ runFunctor \/ functorsDone

Spec == Init /\ [][Next]_vars

(* The scheduler runs every thread that is not blocked, and callbacks      *)
(* return.  A poll is only certain to return because of the eventfd.       *)
woken == wakeupFd_ > 0 /\ \E active \in SUBSET Channels : Poll(active)

Fairness ==
  /\ \A t \in Callers : WF_vars(callerWakeup(t))
  /\ WF_vars(checkQuit \/ woken \/ handleRead \/ doPendingFunctors
             \/ runFunctor \/ functorsDone)
  /\ \A c \in UserChannels : WF_vars(handleEvent(c))

FairSpec == Spec /\ Fairness

-----------------------------------------------------------------------------
(* Properties.                                                             *)

WakeupPending == wakeupFd_ > 0 \/ \E t \in Callers : cpc[t] = "wakeup"

NoLostFunctor == lpc = "poll" /\ pendingFunctors_ # << >> => WakeupPending \/ early
NoLostQuit    == lpc = "poll" /\ quit_ => WakeupPending

(* EventLoop.cc:82-86 and 108.  The owner never blocks in poll while a     *)
(* functor is queued, or with quit_ set, unless the eventfd is, or is      *)
(* about to be, readable.  The one exception: the owner itself queued the  *)
(* functor before calling loop().                                          *)
NoLostWakeup == NoLostFunctor /\ NoLostQuit

(* queueInLoop and the swap in doPendingFunctors neither lose, duplicate   *)
(* nor reorder a functor: what was queued is what ran, then the rest of    *)
(* the batch, then what is still pending.                                  *)
Conservation == queued = ran \o functors \o pendingFunctors_

(* A functor queued by another thread, or by the owner in a callback, runs *)
(* without the help of the poll timeout unless loop() is left first.       *)
RunsPromptly ==
  \A f \in Functors :
    (f \in Range(pendingFunctors_) /\ ~early) ~> (f \in Range(ran) \/ lpc = "outside")

(* Once quit_ is set inside loop(), loop() returns: nothing but entering   *)
(* loop() clears quit_.                                                    *)
QuitReturns == (quit_ /\ lpc # "outside") ~> (lpc = "outside")

(* A functor that is queued when the poll has returned runs, also when the *)
(* loop has been told to quit in the meantime, by a channel's handler, a   *)
(* functor or another thread: quit_ is looked at after the functors only   *)
(* (EventLoop.cc:64-76).  A later one may be left behind by loop().        *)
LastBatchRuns ==
  \A f \in Functors :
    (lpc = "dispatch" /\ f \in Range(pendingFunctors_)) ~> f \in Range(ran)

(* The loop implements the serial executor.                                *)
Executor == INSTANCE SerialExecutor WITH accepted <- queued, executed <- ran

ImplementsSerialExecutor == Executor!AbsSpec
=============================================================================
