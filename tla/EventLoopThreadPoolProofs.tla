---------------------- MODULE EventLoopThreadPoolProofs ----------------------
(***************************************************************************)
(* loop_ never dangles and no thread outlives its EventLoopThread, for any *)
(* number of threads.                                                      *)
(***************************************************************************)
EXTENDS EventLoopThreadPool, TLAPS

(* The types, with the base thread at a thread of its own while it starts  *)
(* or destroys one, and the round robin within loops_.                     *)
PoolType ==
  /\ numThreads_ \in Nat /\ next_ \in Nat /\ loops_ \in Seq(Threads)
  /\ next_ = 0 \/ next_ < Len(loops_)
  /\ cur \in Nat
  /\ opc \in {"starting", "sem", "check", "wait", "quit", "join", "free"} => cur \in Threads
  /\ opc \in {"new", "starting", "sem", "check", "wait", "ready", "dtor", "quit", "join",
              "free", "gone"}
  /\ opc \in {"ready", "dtor"} => cur >= 1
  /\ loop_ \in [Threads -> BOOLEAN] /\ quit_ \in [Threads -> BOOLEAN]
  /\ tpc \in [Threads -> HasLoop \cup {"none", "begin", "construct", "done"}]
  /\ freed \in [Threads -> BOOLEAN] /\ quitted \in [Threads -> BOOLEAN]
  /\ lost \in [Threads -> BOOLEAN]

(* loop_ is set between publish and clear only.                            *)
PointerInv == \A t \in Threads : loop_[t] => tpc[t] \in {"enter", "loop", "clear"}

(* startLoop has seen the loop of t.                                       *)
Seen(t) == \/ opc \in {"ready", "dtor", "quit", "join", "free", "gone"}
           \/ opc \in {"starting", "sem", "check", "wait"} /\ t < cur

(* A thread whose loop no other code quits is on its way to its loop, in   *)
(* it, being joined, or done; startLoop has passed it only in its loop.    *)
LifeOf(t) ==
  \/ tpc[t] \in {"none", "begin", "construct"} /\ ~Seen(t)
  \/ tpc[t] = "publish" /\ ~Seen(t) /\ ~quit_[t]
  \/ tpc[t] \in {"enter", "loop"} /\ loop_[t] /\ ~quit_[t]
  \/ opc = "join" /\ cur = t
  \/ tpc[t] = "done"

LifeInv == \A t \in Threads :
  ~quitted[t] => /\ LifeOf(t)
                 /\ opc = "free" /\ cur = t => tpc[t] = "done"
                 /\ freed[t] => tpc[t] = "done"

PoolInv == PoolType /\ PointerInv /\ LifeInv

LEMMA PoolInit == Init => PoolInv
BY PoolAssumption DEF PoolAssumption, Init, PoolInv, PoolType, PointerInv, LifeInv, LifeOf,
   Seen, Threads, HasLoop

(* Every step keeps the types.                                             *)
LEMMA PoolTypeStep == PoolInv /\ [Next]_vars => PoolType'
<1> SUFFICES ASSUME PoolInv, [Next]_vars PROVE PoolType'
  OBVIOUS
<1> USE DEF PoolInv, PoolType, Threads, HasLoop, pool, owner, thread, goto
<1>1. CASE start
  BY <1>1 DEF start
<1>2. CASE threadStart
  BY <1>2 DEF threadStart
<1>3. CASE semWait \/ waitReturns
  BY <1>3 DEF semWait, waitReturns
<1>4. CASE startLoop
  <2>1. Append(loops_, cur) \in Seq(Threads) /\ Len(Append(loops_, cur)) = Len(loops_) + 1
    BY <1>4 DEF startLoop
  <2>2. loops_' \in Seq(Threads) /\ (next_ = 0 \/ next_ < Len(loops_'))
    <3>1. CASE loops_' = loops_
      BY <3>1
    <3>2. CASE loops_' = Append(loops_, cur)
      BY <2>1, <3>2
    <3> QED BY <1>4, <3>1, <3>2 DEF startLoop
  <2> QED BY <1>4, <2>2 DEF startLoop
<1>5. CASE getNextLoop
  BY <1>5 DEF getNextLoop, Following
<1>6. CASE destroy \/ dtorTest
  BY <1>6 DEF destroy, dtorTest
<1>7. CASE dtorQuit \/ join
  BY <1>7 DEF dtorQuit, join
<1>10. CASE dtorFree
  BY <1>10 DEF dtorFree
<1>8. ASSUME NEW t \in Threads, ThreadStep(t) \/ otherQuit(t) PROVE PoolType'
  BY <1>8 DEF ThreadStep, semPost, construct, publish, enterLoop, loopReturns, clear, leave,
     otherQuit
<1>9. CASE UNCHANGED vars
  BY <1>9 DEF vars
<1> QED BY <1>1, <1>2, <1>3, <1>4, <1>5, <1>6, <1>7, <1>8, <1>9, <1>10 DEF Next, Base

(* Every step of the base thread and of the loop threads keeps loop_ with  *)
(* the loop's life.                                                        *)
LEMMA PointerStep == PoolInv /\ [Next]_vars => PointerInv'
<1> SUFFICES ASSUME PoolInv, [Next]_vars PROVE PointerInv'
  OBVIOUS
<1> USE DEF PoolInv, PoolType, PointerInv, Threads, HasLoop, pool, owner, thread, goto
<1>1. CASE Base \/ waitReturns \/ getNextLoop \/ destroy
  BY <1>1 DEF Base, start, threadStart, semWait, startLoop, waitReturns, getNextLoop, destroy,
     dtorTest, dtorQuit, join, dtorFree
<1>2. ASSUME NEW t \in Threads, ThreadStep(t) \/ otherQuit(t) PROVE PointerInv'
  BY <1>2 DEF ThreadStep, semPost, construct, publish, enterLoop, loopReturns, clear, leave,
     otherQuit
<1>3. CASE UNCHANGED vars
  BY <1>3 DEF vars
<1> QED BY <1>1, <1>2, <1>3 DEF Next

(* Every step keeps a loop that nobody else quits alive until it is joined.*)
LEMMA LifeStep == PoolInv /\ [Next]_vars => LifeInv'
<1> SUFFICES ASSUME PoolInv, [Next]_vars PROVE LifeInv'
  OBVIOUS
<1> USE DEF PoolInv, PoolType, LifeInv, LifeOf, Seen, Threads, HasLoop, pool, owner, thread,
    goto
<1>1. CASE start \/ threadStart
  BY <1>1 DEF start, threadStart
<1>2. CASE semWait \/ waitReturns \/ getNextLoop
  BY <1>2 DEF semWait, waitReturns, getNextLoop
<1>3. CASE startLoop
  BY <1>3 DEF startLoop, PointerInv
<1>4. CASE destroy \/ dtorTest
  BY <1>4 DEF destroy, dtorTest
<1>5. CASE dtorQuit
  BY <1>5 DEF dtorQuit
<1>6. CASE join \/ dtorFree
  BY <1>6 DEF join, dtorFree
<1>7. ASSUME NEW t \in Threads, ThreadStep(t) PROVE LifeInv'
  BY <1>7 DEF ThreadStep, semPost, construct, publish, enterLoop, loopReturns, clear, leave
<1>8. ASSUME NEW t \in Threads, otherQuit(t) PROVE LifeInv'
  BY <1>8 DEF otherQuit
<1>9. CASE UNCHANGED vars
  BY <1>9 DEF vars
<1> QED BY <1>1, <1>2, <1>3, <1>4, <1>5, <1>6, <1>7, <1>8, <1>9 DEF Next, Base

(* PoolInv is inductive.                                                   *)
THEOREM PoolSafe == Spec => []PoolInv
BY PoolInit, PoolTypeStep, PointerStep, LifeStep, PTL DEF Spec, PoolInv

(* EventLoopThread.cc:54-56, EventLoopThreadPool.cc:47: loop_ points to a  *)
(* loop that exists, and next_ into loops_, in every interleaving of the   *)
(* base thread, the loop threads and code that quits loops.                *)
THEOREM PointerSafe == Spec => []LoopPointerValid
<1>1. PoolInv => LoopPointerValid
  BY DEF PoolInv, PoolType, PointerInv, LoopPointerValid, HasLoop
<1> QED BY <1>1, PoolSafe, PTL

(* EventLoopThread.cc:16-22: no thread uses its EventLoopThread after it   *)
(* is destroyed, unless other code quit its loop.                          *)
THEOREM JoinSafe == Spec => []JoinedBeforeFree
<1>1. PoolInv => JoinedBeforeFree
  BY DEF PoolInv, LifeInv, JoinedBeforeFree
<1> QED BY <1>1, PoolSafe, PTL
=============================================================================
