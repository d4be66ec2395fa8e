------------------------- MODULE EventLoopThreadPool -------------------------
(***************************************************************************)
(* The I/O threads of a server: EventLoopThreadPool, the EventLoopThreads  *)
(* it owns and the Thread in each.  The base thread starts them one after  *)
(* the other, deals connections out to their loops, and destroys them in   *)
(* the order in which they were started.  The EventLoop of a thread lives  *)
(* on its stack, from "publish" to "leave"; of the loop itself only quit_  *)
(* is modelled.                                                            *)
(***************************************************************************)
EXTENDS Naturals, Sequences

CONSTANT MaxThreads     \* bound on setThreadNum

ASSUME PoolAssumption == MaxThreads \in Nat

VARIABLES numThreads_, loops_, next_,   \* the pool
          opc, cur,       \* the base thread: where it is, which thread
          notified,       \* cond_ was notified while the base thread waited
          loop_,          \* per thread: loop_ is not null
          quit_,          \* per thread: quit_ of its loop
          tpc,            \* per thread: where it is
          freed,          \* per thread: the EventLoopThread is destroyed
          quitted,        \* history, per thread: other code quit its loop
          lost            \* history, per thread: loop() overwrote a quit

pool   == <<numThreads_, loops_, next_>>
owner  == <<opc, cur, notified>>
thread == <<loop_, quit_, tpc>>
vars   == <<pool, owner, thread, freed, quitted, lost>>

Threads == 1..numThreads_
HasLoop == {"publish", "enter", "loop", "clear", "leave"}

TypeOK ==
  /\ numThreads_ \in 0..MaxThreads /\ next_ \in Nat /\ loops_ \in Seq(Threads)
  /\ opc \in {"new", "starting", "sem", "check", "wait", "ready", "dtor", "quit", "join",
              "free", "gone"}
  /\ cur \in 0..(numThreads_ + 1) /\ notified \in BOOLEAN
  /\ loop_ \in [Threads -> BOOLEAN] /\ quit_ \in [Threads -> BOOLEAN]
  /\ tpc \in [Threads -> HasLoop \cup {"none", "begin", "construct", "done"}]
  /\ freed \in [Threads -> BOOLEAN]

Init ==
  /\ numThreads_ \in 0..MaxThreads /\ loops_ = << >> /\ next_ = 0
  /\ opc = "new" /\ cur = 0 /\ notified = FALSE
  /\ loop_ = [t \in Threads |-> FALSE] /\ quit_ = [t \in Threads |-> FALSE]
  /\ tpc = [t \in Threads |-> "none"] /\ freed = [t \in Threads |-> FALSE]
  /\ quitted = [t \in Threads |-> FALSE] /\ lost = [t \in Threads |-> FALSE]

goto(t, from, to) == tpc[t] = from /\ tpc' = [tpc EXCEPT ![t] = to]

-----------------------------------------------------------------------------
(* Deliberate defects of the definitions below, used to see the properties *)
(* fail.                                                                   *)

(* loop_ is set without a notification.                                    *)
notify_all_not == UNCHANGED notified

(* threadFunc leaves loop_ as it is.                                       *)
clear_not(t) ==
  /\ goto(t, "clear", "leave")
  /\ UNCHANGED <<pool, owner, loop_, quit_, freed, quitted, lost>>

(* The destructor does not wait for the thread.                            *)
join_not ==
  /\ opc = "join" /\ opc' = "free"
  /\ UNCHANGED <<pool, cur, notified, thread, freed, quitted, lost>>

(* quit() is not called before join().                                     *)
dtorQuit_not ==
  /\ opc = "quit" /\ opc' = "join"
  /\ UNCHANGED <<pool, cur, notified, thread, freed, quitted, lost>>

-----------------------------------------------------------------------------
(* The base thread: EventLoopThreadPool::start and startLoop.              *)

start ==
  /\ opc = "new" /\ cur' = 1 /\ opc' = IF numThreads_ = 0 THEN "ready" ELSE "starting"
  /\ UNCHANGED <<pool, notified, thread, freed, quitted, lost>>

threadStart ==
  /\ opc = "starting" /\ opc' = "sem" /\ goto(cur, "none", "begin")
  /\ UNCHANGED <<pool, cur, notified, loop_, quit_, freed, quitted, lost>>

semWait ==
  /\ opc = "sem" /\ tpc[cur] # "begin" /\ opc' = "check"
  /\ UNCHANGED <<pool, cur, notified, thread, freed, quitted, lost>>

(* Under mutex_: the loop is there, or the base thread waits for it.       *)
startLoop ==
  /\ opc = "check" /\ notified' = FALSE
  /\ IF loop_[cur]
     THEN /\ loops_' = Append(loops_, cur) /\ cur' = IF cur = numThreads_ THEN 1 ELSE cur + 1
          /\ opc' = IF cur = numThreads_ THEN "ready" ELSE "starting"
     ELSE opc' = "wait" /\ UNCHANGED <<loops_, cur>>
  /\ UNCHANGED <<numThreads_, next_, thread, freed, quitted, lost>>

(* The wait ends with a notification, or spuriously.                       *)
waitReturns ==
  /\ opc = "wait" /\ opc' = "check"
  /\ UNCHANGED <<pool, cur, notified, thread, freed, quitted, lost>>

notify_all == notified' = (notified \/ opc = "wait")

Following(n) == IF n + 1 >= Len(loops_) THEN 0 ELSE n + 1

(* With no threads it returns the base loop.                               *)
getNextLoop ==
  /\ opc = "ready" /\ loops_ # << >>
  /\ next_' = Following(next_)
  /\ UNCHANGED <<numThreads_, loops_, owner, thread, freed, quitted, lost>>

-----------------------------------------------------------------------------
(* The base thread: destruction of the pool.                               *)

destroy ==
  /\ opc = "ready" /\ opc' = "dtor"
  /\ UNCHANGED <<pool, cur, notified, thread, freed, quitted, lost>>

(* The destructor of EventLoopThread tests loop_ without mutex_.           *)
dtorTest ==
  /\ opc = "dtor" /\ opc' = IF cur > numThreads_ THEN "gone"
                            ELSE IF loop_[cur] THEN "quit" ELSE "free"
  /\ UNCHANGED <<pool, cur, notified, thread, freed, quitted, lost>>

(* loop_->quit(), defined only if the loop still exists: if other code has *)
(* ended it since the test, the model goes no further.                     *)
dtorQuit ==
  /\ opc = "quit" /\ loop_[cur] /\ opc' = "join" /\ quit_' = [quit_ EXCEPT ![cur] = TRUE]
  /\ UNCHANGED <<pool, cur, notified, loop_, tpc, freed, quitted, lost>>

join ==
  /\ opc = "join" /\ tpc[cur] = "done" /\ opc' = "free"
  /\ UNCHANGED <<pool, cur, notified, thread, freed, quitted, lost>>

(* The members are destroyed; a thread that was not joined is detached.    *)
dtorFree ==
  /\ opc = "free" /\ opc' = "dtor" /\ cur' = cur + 1
  /\ freed' = [freed EXCEPT ![cur] = TRUE]
  /\ UNCHANGED <<pool, notified, thread, quitted, lost>>

-----------------------------------------------------------------------------
(* A loop's thread: Thread's lambda, then threadFunc.                      *)

semPost(t) ==
  /\ goto(t, "begin", "construct")
  /\ UNCHANGED <<pool, owner, loop_, quit_, freed, quitted, lost>>

(* The EventLoop is created; callback_ may hand it to other code.          *)
construct(t) ==
  /\ goto(t, "construct", "publish") /\ quit_' = [quit_ EXCEPT ![t] = FALSE]
  /\ UNCHANGED <<pool, owner, loop_, freed, quitted, lost>>

publish(t) ==
  /\ goto(t, "publish", "enter")
  /\ loop_' = [loop_ EXCEPT ![t] = TRUE] /\ notify_all
  /\ UNCHANGED <<pool, opc, cur, quit_, freed, quitted, lost>>

(* loop() begins with quit_ = false.                                       *)
enterLoop(t) ==
  /\ goto(t, "enter", "loop") /\ quit_' = [quit_ EXCEPT ![t] = FALSE]
  /\ lost' = [lost EXCEPT ![t] = @ \/ quit_[t]]
  /\ UNCHANGED <<pool, owner, loop_, freed, quitted>>

loopReturns(t) ==
  /\ quit_[t] /\ goto(t, "loop", "clear")
  /\ UNCHANGED <<pool, owner, loop_, quit_, freed, quitted, lost>>

clear(t) ==
  /\ goto(t, "clear", "leave") /\ loop_' = [loop_ EXCEPT ![t] = FALSE]
  /\ UNCHANGED <<pool, owner, quit_, freed, quitted, lost>>

(* The mutex is unlocked and the EventLoop destroyed.                      *)
leave(t) ==
  /\ goto(t, "leave", "done")
  /\ UNCHANGED <<pool, owner, loop_, quit_, freed, quitted, lost>>

(* Code that was given the loop quits it while it exists.                  *)
otherQuit(t) ==
  /\ tpc[t] \in HasLoop /\ quit_' = [quit_ EXCEPT ![t] = TRUE]
  /\ quitted' = [quitted EXCEPT ![t] = TRUE]
  /\ UNCHANGED <<pool, owner, loop_, tpc, freed, lost>>

-----------------------------------------------------------------------------
Base == start \/ threadStart \/ semWait \/ startLoop \/ dtorTest \/ dtorQuit \/ join
          \/ dtorFree
ThreadStep(t) == semPost(t) \/ construct(t) \/ publish(t) \/ enterLoop(t) \/ loopReturns(t)
                   \/ clear(t) \/ leave(t)

Next == \/ Base \/ waitReturns \/ getNextLoop \/ destroy
        \/ \E t \in Threads : ThreadStep(t) \/ otherQuit(t)

Spec == Init /\ [][Next]_vars

(* Every thread is scheduled and a notified wait returns; nobody has to    *)
(* destroy the pool or to quit a loop.                                     *)
FairSpec ==
  /\ Spec /\ WF_vars(Base) /\ WF_vars(waitReturns /\ notified)
  /\ \A t \in 1..MaxThreads : WF_vars(t \in Threads /\ ThreadStep(t))

-----------------------------------------------------------------------------
(* Properties.                                                             *)

(* loop_ never points to a loop that is gone from the thread's stack,      *)
(* whoever made the loop return (EventLoopThread.cc:54-56), and the round  *)
(* robin stays within loops_ (EventLoopThreadPool.cc:47).                  *)
LoopPointerValid ==
  /\ \A t \in Threads : loop_[t] => tpc[t] \in HasLoop
  /\ loops_ # << >> => next_ < Len(loops_)

(* No thread runs on after its EventLoopThread is destroyed - it uses its  *)
(* mutex_, loop_ and func_ - as long as nobody else quits the loop.        *)
JoinedBeforeFree ==
  \A t \in Threads : freed[t] => tpc[t] \in {"none", "done"} \/ quitted[t]

(* start() returns, with a loop for every thread, unless other code ends a *)
(* loop before the base thread has seen it.                                *)
StartReturns ==
  opc = "starting" ~> (opc = "ready" \/ \E t \in Threads : quitted[t])

(* The destructor returns, unless its quit() came before the thread had    *)
(* entered loop(), which forgets it, or others quit the loop.              *)
DestroyReturns ==
  opc = "dtor" ~> (opc = "gone" \/ \E t \in Threads : quitted[t] \/ lost[t])
=============================================================================
