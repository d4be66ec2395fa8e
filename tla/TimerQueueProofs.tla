--------------------------- MODULE TimerQueueProofs ---------------------------
(***************************************************************************)
(* Ownership of the timers, their cancellation and their time, for any     *)
(* number of timers, threads' calls and delays, and any width of the time  *)
(* stamps.                                                                 *)
(***************************************************************************)
EXTENDS TimerQueue, SequenceTheorems, FiniteSetTheorems, WellFoundedInduction, TLAPS

Functors == [add : Addrs] \cup [cancel : ActiveTimer]

Types ==
  /\ now \in Nat /\ timerfd_ \in Nat /\ s_numCreated_ \in Nat /\ readTime \in Nat
  /\ heap \in [Addrs -> Timer \cup {Free}]
  /\ timers_ \subseteq Entry /\ IsFiniteSet(timers_) /\ activeTimers_ \subseteq ActiveTimer
  /\ cancelingTimers_ \subseteq ActiveTimer /\ ids \subseteq ActiveTimer
  /\ adding \subseteq ids /\ misread \subseteq ActiveTimer
  /\ callingExpiredTimer_ \in BOOLEAN /\ active \in BOOLEAN /\ destroyed \in BOOLEAN
  /\ pendingFunctors_ \in Seq(Functors)
  /\ expired \in Seq(Entry) /\ called \in 0..Len(expired)

(* epoll has reported the timerfd: no batch is under way.  Callbacks are   *)
(* counted only while they run.                                            *)
PhaseInv == (active => Idle) /\ (~callingExpiredTimer_ => called = 0)

InTimers(a) == \E e \in timers_ : e[2] = a
InBatch(a)  == \E i \in 1..Len(expired) : expired[i][2] = a
InQueue(a)  == Contains(pendingFunctors_, [add |-> a])

(* g is at most once in s.                                                 *)
Once(s, g) == \A i, j \in 1..Len(s) : s[i] = g /\ s[j] = g => i = j

(* Each timer has one owner: timers_, the batch or a queued functor.       *)
OwnerInv ==
  /\ \A a \in Addrs : heap[a] # Free <=> InTimers(a) \/ InBatch(a) \/ InQueue(a)
  /\ \A a \in Addrs : /\ InTimers(a) => ~InBatch(a) /\ ~InQueue(a)
                      /\ InBatch(a) => ~InQueue(a)
  /\ \A i, j \in 1..Len(expired) : expired[i][2] = expired[j][2] => i = j
  /\ \A a \in Addrs : Once(pendingFunctors_, [add |-> a])

(* Each timer has an id of its own, and only ids that were handed out, or  *)
(* misread, are asked to be cancelled.                                     *)
IdInv ==
  /\ \A id \in ids : id[2] < s_numCreated_
  /\ \A x, y \in ids : x[2] = y[2] => x = y
  /\ \A a \in Addrs : heap[a] # Free => ActiveOf(a) \in ids
  /\ asked \subseteq ids /\ adding \cap asked \subseteq misread
  /\ \A i \in 1..Len(pendingFunctors_) :
       pendingFunctors_[i] \in [cancel : ActiveTimer] =>
         pendingFunctors_[i].cancel \in asked \cup misread

(* The callbacks called have run.                                          *)
RanInv ==
  \A i \in 1..Len(expired) :
    ~callingExpiredTimer_ \/ i <= called => heap[expired[i][2]].sequence_ \in ran

(* A timer that was asked to be cancelled, and is still there, was missed, *)
(* or its cancel is queued, or reset() will delete it.                     *)
CancelInv ==
  \A a \in Addrs :
    heap[a] # Free /\ ActiveOf(a) \in asked =>
      \/ ActiveOf(a) \in missed
      \/ Contains(pendingFunctors_, [cancel |-> ActiveOf(a)])
      \/ InBatch(a) /\ ActiveOf(a) \in cancelingTimers_

QueueInv == PhaseInv /\ OwnerInv /\ SetsAgree /\ IdInv /\ RanInv /\ CancelInv /\ NoTimerLost
TimerInv == Types /\ QueueInv

-----------------------------------------------------------------------------
(* The types.                                                              *)

LEMMA StampType == ASSUME NEW t \in Int PROVE TimeStamp(t) \in Int
BY WidthAssumption DEF WidthAssumption, TimeStamp

LEMMA HeapFacts ==
  ASSUME Types, NEW a \in Addrs, heap[a] # Free
  PROVE  /\ heap[a] \in Timer /\ heap[a].expiration_ \in Int /\ heap[a].interval_ \in Nat
         /\ heap[a].sequence_ \in Nat /\ heap[a].due \in Nat
         /\ ActiveOf(a) \in ActiveTimer /\ <<heap[a].expiration_, a>> \in Entry
BY DEF Types, Timer, ActiveOf, ActiveTimer, Entry

LEMMA EntryFacts == \A e \in Entry : e = <<e[1], e[2]>> /\ e[1] \in Int /\ e[2] \in Addrs
BY DEF Entry

LEMMA ActiveFacts == \A x \in ActiveTimer : x = <<x[1], x[2]>> /\ x[1] \in Addrs /\ x[2] \in Nat
BY DEF ActiveTimer

LEMMA NewType ==
  ASSUME Types, NEW d \in Nat, NEW i \in Nat
  PROVE  NewTimer(d, i) \in Timer /\ NewTimer(d, i) # Free
<1>1. now + d \in Nat /\ now + d \in Int
  BY DEF Types
<1>2. TimeStamp(now + d) \in Int
  BY <1>1, StampType
<1> QED BY <1>1, <1>2, FreeAssumption DEF FreeAssumption, Types, NewTimer, Timer

LEMMA RestartType ==
  ASSUME Types, NEW a \in Addrs, heap[a] # Free
  PROVE  /\ restart(a) \in Timer /\ restart(a) # Free
         /\ restart(a).sequence_ = heap[a].sequence_
         /\ restart(a).due = readTime + heap[a].interval_
         /\ restart(a).interval_ = heap[a].interval_
         /\ restart(a).expiration_ = TimeStamp(readTime + heap[a].interval_)
<1>1. readTime + heap[a].interval_ \in Nat
  <2>1. readTime \in Nat
    BY DEF Types
  <2>2. heap[a].interval_ \in Nat
    BY HeapFacts
  <2> QED BY <2>1, <2>2
<1>2. TimeStamp(readTime + heap[a].interval_) \in Int
  BY <1>1, StampType
<1>3. heap[a] \in Timer
  BY HeapFacts
<1> DEFINE t == heap[a]
           x == TimeStamp(readTime + t.interval_)
           d == readTime + t.interval_
           r == [expiration_ |-> x, interval_ |-> t.interval_, sequence_ |-> t.sequence_,
                 due |-> d]
<1>4. x \in Int /\ d \in Nat /\ t \in Timer
  BY <1>1, <1>2, <1>3
<1>5. restart(a) = [t EXCEPT !.expiration_ = x, !.due = d]
  BY DEF restart
<1> HIDE DEF t, x, d
<1>6. restart(a) = r
  BY <1>4, <1>5 DEF Timer
<1>7. r \in Timer
  BY <1>4 DEF Timer
<1>8. restart(a) # Free
  BY <1>6, <1>7, FreeAssumption DEF FreeAssumption
<1> QED BY <1>6, <1>7, <1>8 DEF t, x, d

LEMMA FunctorFacts ==
  /\ \A a \in Addrs : [add |-> a] \in Functors
  /\ \A id \in ActiveTimer : [cancel |-> id] \in Functors
  /\ \A f \in Functors : /\ "add" \in DOMAIN f => f.add \in Addrs /\ f = [add |-> f.add]
                         /\ "cancel" \in DOMAIN f => /\ f.cancel \in ActiveTimer
                                                     /\ f = [cancel |-> f.cancel]
                                                     /\ f \in [cancel : ActiveTimer]
  /\ \A a, id : [add |-> a] # [cancel |-> id]
  /\ \A a, b : [add |-> a] = [add |-> b] => a = b
  /\ \A x, y : [cancel |-> x] = [cancel |-> y] => x = y
<1>1. \A f \in [add : Addrs] : DOMAIN f = {"add"} /\ f.add \in Addrs /\ f = [add |-> f.add]
  OBVIOUS
<1>2. \A f \in [cancel : ActiveTimer] :
        DOMAIN f = {"cancel"} /\ f.cancel \in ActiveTimer /\ f = [cancel |-> f.cancel]
  OBVIOUS
<1>3. \A a, id : [add |-> a] # [cancel |-> id]
  <2> SUFFICES ASSUME NEW a, NEW id, [add |-> a] = [cancel |-> id] PROVE FALSE
    OBVIOUS
  <2>1. DOMAIN [add |-> a] = {"add"} /\ DOMAIN [cancel |-> id] = {"cancel"}
    OBVIOUS
  <2> QED BY <2>1
<1>4. \A a, b : [add |-> a].add = a /\ [cancel |-> b].cancel = b
  OBVIOUS
<1>5. \A a \in Addrs : [add |-> a] \in Functors
  BY DEF Functors
<1>6. \A id \in ActiveTimer : [cancel |-> id] \in Functors
  BY DEF Functors
<1>7. \A f \in Functors : /\ "add" \in DOMAIN f => f.add \in Addrs /\ f = [add |-> f.add]
                          /\ "cancel" \in DOMAIN f => /\ f.cancel \in ActiveTimer
                                                      /\ f = [cancel |-> f.cancel]
                                                      /\ f \in [cancel : ActiveTimer]
  BY <1>1, <1>2 DEF Functors
<1>8. \A a, b : [add |-> a] = [add |-> b] => a = b
  OBVIOUS
<1>9. \A x, y : [cancel |-> x] = [cancel |-> y] => x = y
  OBVIOUS
<1> QED BY <1>3, <1>5, <1>6, <1>7, <1>8, <1>9

(* The copy of a set of entries: each of them, and each once.              *)
LEMMA CopiesFacts ==
  ASSUME NEW S, S \subseteq Entry, IsFiniteSet(S), NEW s \in Copies(S)
  PROVE  /\ s \in Seq(Entry) /\ \A i \in 1..Len(s) : s[i] \in S
         /\ \A i, j \in 1..Len(s) : s[i] = s[j] => i = j
         /\ \A e \in S : \E i \in 1..Len(s) : s[i] = e
         /\ s = << >> <=> S = {}
<1> DEFINE n == Cardinality(S)
<1>1. n \in Nat
  BY FS_CardinalityType
<1>2. /\ s \in [1..n -> S] /\ \A i, j \in 1..n : i # j => s[i] # s[j]
  BY DEF Copies, SetToSeqs
<1>3. IsFiniteSet(1..n) /\ Cardinality(1..n) = n
  <2>1. 1 \in Int /\ n \in Int
    BY <1>1
  <2>2. IsFiniteSet(1..n) /\ Cardinality(1..n) = IF 1 > n THEN 0 ELSE n - 1 + 1
    BY <2>1, FS_Interval
  <2> HIDE DEF n
  <2> QED BY <1>1, <2>2
<1>4. s \in Injection(1..n, S)
  BY <1>2 DEF Injection, IsInjective
<1>5. s \in Surjection(1..n, S)
  BY <1>3, <1>4, FS_Injection
<1>6. \A e \in S : \E i \in 1..n : s[i] = e
  BY <1>5 DEF Surjection
<1> HIDE DEF n
<1>7. s \in Seq(Entry) /\ Len(s) = n
  BY <1>1, <1>2
<1>8. s = << >> <=> S = {}
  <2>1. s = << >> <=> n = 0
    BY <1>1, <1>7
  <2>2. n = 0 <=> S = {}
    BY FS_EmptySet DEF n
  <2> QED BY <2>1, <2>2
<1> QED BY <1>2, <1>6, <1>7, <1>8

(* A timer that the queue, the batch or a functor names.                   *)
LEMMA OwnedFacts ==
  ASSUME Types, OwnerInv
  PROVE  /\ \A i \in 1..Len(expired) : expired[i][2] \in Addrs /\ heap[expired[i][2]] # Free
         /\ expired # << >> => Head(expired)[2] \in Addrs /\ InBatch(Head(expired)[2])
                               /\ heap[Head(expired)[2]] # Free /\ Head(expired) = expired[1]
                               /\ 1 \in 1..Len(expired)
         /\ \A a \in Addrs : Contains(pendingFunctors_, [add |-> a]) => heap[a] # Free
<1>1. ASSUME NEW i \in 1..Len(expired) PROVE expired[i][2] \in Addrs /\ heap[expired[i][2]] # Free
  <2>1. expired[i][2] \in Addrs
    BY EntryFacts DEF Types
  <2> QED BY <2>1 DEF OwnerInv, InBatch
<1>2. ASSUME expired # << >> PROVE Head(expired) = expired[1] /\ 1 \in 1..Len(expired)
  BY <1>2 DEF Types
<1>3. \A a \in Addrs : Contains(pendingFunctors_, [add |-> a]) => heap[a] # Free
  BY DEF OwnerInv, InQueue
<1> QED BY <1>1, <1>2, <1>3 DEF InBatch

LEMMA FunctorHead ==
  ASSUME Types, OwnerInv, pendingFunctors_ # << >>
  PROVE  /\ Tail(pendingFunctors_) \in Seq(Functors) /\ Head(pendingFunctors_) \in Functors
         /\ Contains(pendingFunctors_, Head(pendingFunctors_))
         /\ "add" \in DOMAIN Head(pendingFunctors_) =>
              /\ Head(pendingFunctors_).add \in Addrs /\ heap[Head(pendingFunctors_).add] # Free
              /\ Head(pendingFunctors_) = [add |-> Head(pendingFunctors_).add]
         /\ "cancel" \in DOMAIN Head(pendingFunctors_) =>
              /\ Head(pendingFunctors_).cancel \in ActiveTimer
              /\ Head(pendingFunctors_) = [cancel |-> Head(pendingFunctors_).cancel]
<1> DEFINE s == pendingFunctors_
<1>1. s \in Seq(Functors) /\ s # << >>
  BY DEF Types
<1> HIDE DEF s
<1>2. Tail(s) \in Seq(Functors) /\ Head(s) \in Functors /\ Contains(s, Head(s))
  BY <1>1, HeadTailProperties DEF Contains
<1>3. /\ "add" \in DOMAIN Head(s) => Head(s).add \in Addrs /\ Head(s) = [add |-> Head(s).add]
      /\ "cancel" \in DOMAIN Head(s) => /\ Head(s).cancel \in ActiveTimer
                                        /\ Head(s) = [cancel |-> Head(s).cancel]
  BY <1>2, FunctorFacts
<1>4. "add" \in DOMAIN Head(s) => heap[Head(s).add] # Free
  BY <1>2, <1>3, OwnedFacts DEF s
<1> QED BY <1>2, <1>3, <1>4 DEF s

LEMMA DeadlineType ==
  ASSUME Types, NEW x \in Int PROVE Deadline(x) \in Nat /\ Deadline(x) > now
<1>1. now \in Nat /\ TimeStamp(now) \in Int
  BY StampType DEF Types
<1>2. TimeStamp(x - TimeStamp(now)) \in Int
  BY <1>1, StampType
<1> QED BY <1>1, <1>2 DEF Deadline

(* addTimerInLoop, and the heap it finds.                                  *)
LEMMA AddTypes ==
  ASSUME Types, NEW a \in Addrs, NEW t \in Timer, addTimerInLoop(a, t)
  PROVE  /\ timers_' \subseteq Entry /\ IsFiniteSet(timers_')
         /\ activeTimers_' \subseteq ActiveTimer /\ timerfd_' \in Nat
         /\ UNCHANGED <<cancelingTimers_, callingExpiredTimer_>>
<1>1. t.expiration_ \in Int /\ t.sequence_ \in Nat
  BY DEF Timer
<1>2. timers_' = timers_ \cup {<<t.expiration_, a>>} /\ activeTimers_' = activeTimers_ \cup {<<a, t.sequence_>>}
  BY DEF addTimerInLoop, insert
<1>3. IsFiniteSet(timers_')
  BY <1>2, FS_AddElement DEF Types
<1>4. timers_' \subseteq Entry /\ activeTimers_' \subseteq ActiveTimer
  BY <1>1, <1>2 DEF Types, Entry, ActiveTimer
<1>5. timerfd_' \in Nat
  BY <1>1, DeadlineType DEF addTimerInLoop, resetTimerfd, leaveTimerfd, Types
<1> QED BY <1>3, <1>4, <1>5 DEF addTimerInLoop

LEMMA CancelTypes ==
  ASSUME Types, NEW id \in ActiveTimer, cancelInLoop(id)
  PROVE  /\ timers_' \subseteq Entry /\ IsFiniteSet(timers_') /\ activeTimers_' \subseteq ActiveTimer
         /\ cancelingTimers_' \subseteq ActiveTimer /\ heap' \in [Addrs -> Timer \cup {Free}]
         /\ UNCHANGED <<timerfd_, misarmed, callingExpiredTimer_>>
<1>1. id[1] \in Addrs
  BY ActiveFacts
<1>2. timers_' \subseteq timers_ /\ activeTimers_' \subseteq activeTimers_
  BY DEF cancelInLoop
<1>3. IsFiniteSet(timers_')
  BY <1>2, FS_Subset DEF Types
<1>4. heap' \in [Addrs -> Timer \cup {Free}]
  BY <1>1 DEF cancelInLoop, Types
<1>5. cancelingTimers_' \subseteq ActiveTimer
  BY DEF cancelInLoop, Types
<1> QED BY <1>2, <1>3, <1>4, <1>5 DEF cancelInLoop, Types

(* A finite set of entries has a first one.                                *)
LEMMA MinExists ==
  ASSUME NEW S, S \subseteq Entry, IsFiniteSet(S), S # {}
  PROVE  begin(S) \in S /\ begin(S)[1] \in Int /\ \A f \in S : begin(S)[1] <= f[1]
<1> DEFINE IsMin(e, U) == \A f \in U : e = f \/ Before(e, f)
           T == {U \in SUBSET S : U # {} /\ \A e \in U : ~IsMin(e, U)}
<1>1. T = {}
  <2> SUFFICES ASSUME T # {} PROVE FALSE
    OBVIOUS
  <2>1. IsWellFoundedOn(StrictSubsetOrdering(S), SUBSET S)
    BY FS_StrictSubsetOrderingWellFounded, FS_FiniteSubsetsOfFinite
  <2>2. T \subseteq SUBSET S
    OBVIOUS
  <2>3. PICK U \in T : \A y \in T : ~(<<y, U>> \in StrictSubsetOrdering(S))
    <3> HIDE DEF T
    <3> QED BY <2>1, <2>2, WFMin
  <2>4. U \in SUBSET S /\ U # {} /\ \A e \in U : ~IsMin(e, U)
    OBVIOUS
  <2>5. PICK x \in U : TRUE
    BY <2>4
  <2> DEFINE V == U \ {x}
  <2>6. V \in SUBSET S /\ V # U /\ V \subseteq U
    BY <2>4, <2>5
  <2>7. <<V, U>> \in StrictSubsetOrdering(S)
    BY <2>4, <2>6 DEF StrictSubsetOrdering
  <2>8. V \notin T
    BY <2>3, <2>7
  <2>9. V # {}
    <3> SUFFICES ASSUME V = {} PROVE FALSE
      OBVIOUS
    <3>1. \A f \in U : x = f
      BY <2>5
    <3> QED BY <2>4, <2>5, <3>1
  <2>10. PICK e \in V : IsMin(e, V)
    BY <2>6, <2>8, <2>9
  <2>11. /\ e \in Entry /\ x \in Entry /\ e # x
         /\ e[1] \in Int /\ x[1] \in Int /\ e[2] \in Int /\ x[2] \in Int
    BY <2>4, <2>5, <2>10, TimerQueueAssumption DEF Entry, TimerQueueAssumption
  <2>12. CASE Before(e, x)
    <3>1. IsMin(e, U)
      BY <2>10, <2>12
    <3> QED BY <2>4, <2>10, <3>1
  <2>13. CASE ~Before(e, x)
    <3>1. e = <<e[1], e[2]>> /\ x = <<x[1], x[2]>>
      BY <2>11, EntryFacts
    <3>2. Before(x, e)
      BY <2>11, <2>13, <3>1 DEF Before
    <3>3. ASSUME NEW f \in U PROVE x = f \/ Before(x, f)
      <4>1. f \in Entry /\ f[1] \in Int /\ f[2] \in Int
        BY <2>4, TimerQueueAssumption DEF Entry, TimerQueueAssumption
      <4>2. f = x \/ f = e \/ Before(e, f)
        BY <2>10
      <4> QED BY <2>11, <3>2, <4>1, <4>2 DEF Before
    <3> QED BY <2>4, <2>5, <3>3
  <2> QED BY <2>12, <2>13
<1>2. \E e \in S : IsMin(e, S)
  BY <1>1
<1>3. begin(S) \in S /\ \A f \in S : begin(S) = f \/ Before(begin(S), f)
  BY <1>2 DEF begin
<1> DEFINE b == begin(S)
<1>4. \A f \in S : f[1] \in Int
  BY EntryFacts
<1> HIDE DEF b
<1>5. b \in S /\ \A f \in S : b = f \/ Before(b, f)
  BY <1>3 DEF b
<1>6. \A f \in S : b[1] <= f[1]
  BY <1>4, <1>5 DEF Before
<1> QED BY <1>4, <1>5, <1>6 DEF b

LEMMA TypesStep == ASSUME Types, OwnerInv, PhaseInv, [Next]_vars PROVE Types'
<1> USE DEF queue, batch, hist, handed
<1>1. CASE Running /\ tick
  BY <1>1 DEF Running, tick, Types
<1>2. CASE Running /\ runFunctor
  <2>1. /\ pendingFunctors_' = Tail(pendingFunctors_) /\ pendingFunctors_ # << >>
        /\ UNCHANGED <<now, s_numCreated_, batch, ids, adding, misread, destroyed>>
    BY <1>2 DEF Running, runFunctor
  <2>2. pendingFunctors_' \in Seq(Functors)
    BY <2>1, FunctorHead
  <2>3. CASE /\ "add" \in DOMAIN Head(pendingFunctors_) /\ UNCHANGED heap
             /\ addTimerInLoop(Head(pendingFunctors_).add, heap[Head(pendingFunctors_).add])
    <3>1. Head(pendingFunctors_).add \in Addrs /\ heap[Head(pendingFunctors_).add] \in Timer
      BY <2>1, <2>3, FunctorHead, HeapFacts
    <3> QED BY <2>1, <2>2, <2>3, <3>1, AddTypes DEF Types
  <2>4. CASE "cancel" \in DOMAIN Head(pendingFunctors_) /\ cancelInLoop(Head(pendingFunctors_).cancel)
    BY <2>1, <2>2, <2>4, FunctorHead, CancelTypes DEF Types
  <2> QED BY <1>2, <2>3, <2>4 DEF runFunctor
<1>3. CASE Running /\ poll
  BY <1>3 DEF Running, poll, Types
<1>4. CASE Running /\ handleRead
  <2>1. Expired \subseteq Entry /\ IsFiniteSet(Expired)
    BY FS_Subset DEF Expired, Types
  <2>2. expired' \in Seq(Entry) /\ called' = 0
    BY <1>4, <2>1, CopiesFacts DEF handleRead
  <2>3. called' \in 0..Len(expired')
    BY <2>2
  <2>4. IsFiniteSet(timers_') /\ timers_' \subseteq Entry /\ activeTimers_' \subseteq ActiveTimer
    BY <1>4, FS_Subset DEF handleRead, Types
  <2>5. timerfd_' \in Nat
    BY <1>4 DEF handleRead, readTimerfd, Types
  <2>6. callingExpiredTimer_' \in BOOLEAN
    BY <1>4 DEF handleRead
  <2> QED BY <1>4, <2>2, <2>3, <2>4, <2>5, <2>6 DEF Running, handleRead, Types
<1>5. CASE Running /\ run
  BY <1>5 DEF Running, run, Types
<1>6. CASE Running /\ calledAll
  <2>1. called' = 0 /\ expired' = expired /\ callingExpiredTimer_' = FALSE
    BY <1>6 DEF calledAll
  <2>2. called' \in 0..Len(expired')
    BY <2>1 DEF Types
  <2> QED BY <1>6, <2>1, <2>2 DEF Running, calledAll, Types
<1>7. CASE Running /\ reset
  <2> DEFINE a == Head(expired)[2]
  <2>1. expired # << >> /\ expired' = Tail(expired) /\ ~callingExpiredTimer_
    BY <1>7 DEF reset
  <2>2. a \in Addrs /\ heap[a] # Free
    BY <2>1, OwnedFacts
  <2> HIDE DEF a
  <2>3. heap' \in [Addrs -> Timer \cup {Free}]
    BY <1>7, <2>2, RestartType DEF reset, Types, a
  <2>4. /\ timers_' = timers_ \/ timers_' = timers_ \cup {<<restart(a).expiration_, a>>}
        /\ \/ activeTimers_' = activeTimers_
           \/ activeTimers_' = activeTimers_ \cup {<<a, heap[a].sequence_>>}
    BY <1>7 DEF reset, insert, a
  <2>5. restart(a).expiration_ \in Int /\ heap[a].sequence_ \in Nat
    BY <2>2, RestartType, HeapFacts DEF Timer
  <2>6. timers_' \subseteq Entry /\ activeTimers_' \subseteq ActiveTimer
    BY <2>2, <2>4, <2>5 DEF Types, Entry, ActiveTimer
  <2>7. IsFiniteSet(timers_')
    <3>1. IsFiniteSet(timers_)
      BY DEF Types
    <3>2. IsFiniteSet(timers_ \cup {<<restart(a).expiration_, a>>})
      BY <3>1, FS_AddElement
    <3> QED BY <2>4, <3>1, <3>2
  <2>8. expired' \in Seq(Entry) /\ called' = 0
    <3>1. Tail(expired) \in Seq(Entry)
      BY <2>1, HeadTailProperties DEF Types
    <3>2. called' = called
      BY <1>7 DEF reset
    <3> QED BY <2>1, <3>1, <3>2 DEF PhaseInv
  <2>9. called' \in 0..Len(expired')
    BY <2>8
  <2>10. timerfd_' \in Nat
    <3>1. timers_' # {} => begin(timers_')[1] \in Int
      BY <2>6, <2>7, MinExists
    <3>2. timers_' # {} => Deadline(begin(timers_')[1]) \in Nat
      BY <3>1, DeadlineType
    <3>3. \/ timers_' # {} /\ timerfd_' = Deadline(begin(timers_')[1])
          \/ timerfd_' = timerfd_
      BY <1>7 DEF reset, resetTimerfd
    <3> QED BY <3>2, <3>3 DEF Types
  <2> QED BY <1>7, <2>3, <2>6, <2>7, <2>8, <2>9, <2>10 DEF Running, reset, Types
<1>8. CASE destroy
  <2>1. heap' \in [Addrs -> Timer \cup {Free}]
    BY <1>8 DEF destroy, Types
  <2>2. IsFiniteSet(timers_')
    BY <1>8, FS_EmptySet DEF destroy
  <2> QED BY <1>8, <2>1, <2>2 DEF destroy, Types
<1>9. CASE Running /\ AddStep
  <2>1. PICK a \in Addrs, d \in Nat, i \in Nat : addTimer(a, d, i)
    BY <1>9, TimerQueueAssumption DEF AddStep, TimerQueueAssumption
  <2> DEFINE t == NewTimer(d, i)
  <2>2. t \in Timer /\ t.sequence_ \in Nat
    BY NewType DEF Timer
  <2>3. heap' \in [Addrs -> Timer \cup {Free}]
    BY <2>1, <2>2 DEF addTimer, Types
  <2>4. ids' \subseteq ActiveTimer /\ adding' \subseteq ids' /\ misread' \subseteq ActiveTimer
    <3>1. ids' \subseteq ActiveTimer
      BY <2>1, <2>2 DEF addTimer, Types, ActiveTimer
    <3>2. adding' \subseteq ids' /\ misread' = misread
      BY <2>1 DEF addTimer, Types
    <3> QED BY <3>1, <3>2 DEF Types
  <2>5. s_numCreated_' \in Nat
    BY <2>1 DEF addTimer, Types
  <2>6. UNCHANGED <<now, batch, destroyed>>
    BY <1>9, <2>1 DEF addTimer, Running
  <2>7. CASE addTimerInLoop(a, t) /\ UNCHANGED pendingFunctors_
    <3> HIDE DEF t
    <3> QED BY <2>2, <2>3, <2>4, <2>5, <2>6, <2>7, AddTypes DEF Types
  <2>8. CASE /\ pendingFunctors_' = Append(pendingFunctors_, [add |-> a])
             /\ UNCHANGED <<queue, timerfd_>>
    <3>1. pendingFunctors_' \in Seq(Functors)
      BY <2>8, FunctorFacts, AppendProperties DEF Types
    <3> QED BY <2>3, <2>4, <2>5, <2>6, <2>8, <3>1 DEF Types
  <2> QED BY <2>1, <2>7, <2>8 DEF addTimer
<1>10. CASE Running /\ \E id \in ids \cup misread : cancel(id)
  <2>1. PICK id \in ActiveTimer : cancel(id)
    BY <1>10 DEF Types
  <2>2. UNCHANGED <<now, s_numCreated_, batch, ids, adding, misread, destroyed>>
    BY <1>10, <2>1 DEF cancel, Running
  <2>3. CASE cancelInLoop(id) /\ UNCHANGED pendingFunctors_
    BY <2>2, <2>3, CancelTypes DEF Types
  <2>4. CASE /\ pendingFunctors_' = Append(pendingFunctors_, [cancel |-> id])
             /\ UNCHANGED <<heap, queue, timerfd_>>
    <3>1. pendingFunctors_' \in Seq(Functors)
      BY <2>4, FunctorFacts, AppendProperties DEF Types
    <3> QED BY <2>2, <2>4, <3>1 DEF Types
  <2> QED BY <2>1, <2>3, <2>4 DEF cancel
<1>11. CASE UNCHANGED vars
  BY <1>11 DEF vars, Types
<1>12. CASE UNCHANGED destroyed /\ \E id \in adding : addReturns(id)
  <2>1. PICK id \in adding : addReturns(id)
    BY <1>12
  <2>2. id \in ActiveTimer /\ id[1] \in Addrs
    BY ActiveFacts DEF Types
  <2>3. MaxTimers \in Nat
    BY TimerQueueAssumption DEF TimerQueueAssumption
  <2>4. \A n \in 0..(MaxTimers - 1) : <<id[1], n>> \in ActiveTimer
    BY <2>2, <2>3 DEF ActiveTimer
  <2>5. misread' \subseteq ActiveTimer /\ adding' \subseteq adding
    BY <2>1, <2>4 DEF addReturns, Types
  <2>6. UNCHANGED <<now, timerfd_, s_numCreated_, heap, queue, pendingFunctors_, batch, ids>>
    BY <2>1 DEF addReturns
  <2> QED BY <1>12, <2>5, <2>6 DEF Types
<1> QED BY <1>1, <1>2, <1>3, <1>4, <1>5, <1>6, <1>7, <1>8, <1>9, <1>10, <1>11, <1>12
        DEF Next, LoopStep

-----------------------------------------------------------------------------
(* Sequences of functors.                                                  *)

LEMMA AppendFacts ==
  ASSUME NEW T, NEW s \in Seq(T), NEW x \in T
  PROVE  /\ \A y : Contains(Append(s, x), y) <=> Contains(s, y) \/ x = y
         /\ \A g : Once(s, g) /\ (x = g => ~Contains(s, g)) => Once(Append(s, x), g)
         /\ \A i \in 1..Len(Append(s, x)) : Append(s, x)[i] = x \/ Contains(s, Append(s, x)[i])
<1> DEFINE n == Len(s)
           r == Append(s, x)
<1>1. n \in Nat /\ Len(r) = n + 1 /\ r[n + 1] = x /\ \A i \in 1..n : r[i] = s[i]
  BY AppendProperties
<1> HIDE DEF n, r
<1>2. \A i \in 1..(n + 1) : i \in 1..n \/ i = n + 1
  BY <1>1
<1>3. 1..n \subseteq 1..(n + 1) /\ n + 1 \in 1..(n + 1)
  BY <1>1
<1>4. \A y : Contains(r, y) <=> Contains(s, y) \/ x = y
  BY <1>1, <1>2, <1>3 DEF Contains, n
<1>5. ASSUME NEW g, Once(s, g), x = g => ~Contains(s, g) PROVE Once(r, g)
  BY <1>1, <1>2, <1>5 DEF Contains, Once, n
<1>6. \A i \in 1..Len(r) : r[i] = x \/ Contains(s, r[i])
  BY <1>1, <1>2 DEF Contains, n
<1> QED BY <1>4, <1>5, <1>6 DEF r

LEMMA TailFacts ==
  ASSUME NEW T, NEW s \in Seq(T), s # << >>
  PROVE  /\ \A y : Contains(s, y) <=> Contains(Tail(s), y) \/ Head(s) = y
         /\ \A g : Once(s, g) => Once(Tail(s), g) /\ (Head(s) = g => ~Contains(Tail(s), g))
         /\ \A i \in 1..Len(Tail(s)) : i + 1 \in 1..Len(s) /\ Tail(s)[i] = s[i + 1]
         /\ \A i \in 1..Len(s) : i = 1 \/ (i - 1 \in 1..Len(Tail(s)) /\ Tail(s)[i - 1] = s[i])
         /\ Head(s) = s[1] /\ 1 \in 1..Len(s)
<1> DEFINE n == Len(s)
           r == Tail(s)
<1>1. /\ n \in Nat \ {0} /\ Len(r) = n - 1 /\ \A i \in 1..(n - 1) : r[i] = s[i + 1]
      /\ Head(s) = s[1]
  BY HeadTailProperties
<1> HIDE DEF n, r
<1>2. \A i \in 1..Len(r) : i + 1 \in 1..n /\ r[i] = s[i + 1] /\ i + 1 # 1
  BY <1>1
<1>3. \A i \in 1..n : i = 1 \/ (i - 1 \in 1..Len(r) /\ r[i - 1] = s[i])
  <2> SUFFICES ASSUME NEW i \in 1..n, i # 1 PROVE i - 1 \in 1..Len(r) /\ r[i - 1] = s[i]
    OBVIOUS
  <2>1. i - 1 \in 1..(n - 1) /\ (i - 1) + 1 = i
    BY <1>1
  <2> QED BY <1>1, <2>1
<1>4. \A y : Contains(s, y) <=> Contains(r, y) \/ Head(s) = y
  <2>1. 1 \in 1..n
    BY <1>1
  <2>2. ASSUME NEW y, Contains(s, y) PROVE Contains(r, y) \/ Head(s) = y
    BY <1>1, <1>3, <2>2 DEF Contains, n
  <2>3. ASSUME NEW y, Contains(r, y) PROVE Contains(s, y)
    BY <1>2, <2>3 DEF Contains, n
  <2>4. Contains(s, Head(s))
    BY <1>1, <2>1 DEF Contains, n
  <2> QED BY <2>2, <2>3, <2>4
<1>5. ASSUME NEW g, Once(s, g) PROVE Once(r, g) /\ (Head(s) = g => ~Contains(r, g))
  <2>1. Once(r, g)
    <3> SUFFICES ASSUME NEW i \in 1..Len(r), NEW j \in 1..Len(r), r[i] = g, r[j] = g PROVE i = j
      BY DEF Once
    <3>1. i + 1 = j + 1
      BY <1>2, <1>5 DEF Once, n
    <3> QED BY <1>1, <3>1
  <2>2. ASSUME Head(s) = g, Contains(r, g) PROVE FALSE
    <3>1. PICK i \in 1..Len(r) : r[i] = g
      BY <2>2 DEF Contains
    <3>2. i + 1 \in 1..n /\ s[i + 1] = g /\ s[1] = g /\ i + 1 # 1 /\ 1 \in 1..n
      BY <1>1, <1>2, <2>2, <3>1
    <3> QED BY <1>5, <3>2 DEF Once, n
  <2> QED BY <2>1, <2>2
<1>6. 1 \in 1..n
  BY <1>1
<1> QED BY <1>1, <1>2, <1>3, <1>4, <1>5, <1>6 DEF n, r

LEMMA SetOf ==
  ASSUME NEW T, NEW s \in Seq(T) PROVE \A y : y \in ToSet(s) <=> Contains(s, y)
BY DEF ToSet, Contains

-----------------------------------------------------------------------------
(* The two sets.                                                           *)

LEMMA TimersUnique ==
  ASSUME Types, SetsAgree
  PROVE  \A e, f \in timers_ : e[2] = f[2] => e = f
<1> SUFFICES ASSUME NEW e \in timers_, NEW f \in timers_, e[2] = f[2] PROVE e = f
  OBVIOUS
<1>1. e = <<e[1], e[2]>> /\ f = <<f[1], f[2]>>
  BY EntryFacts DEF Types
<1>2. e[1] = f[1]
  BY DEF SetsAgree
<1> QED BY <1>1, <1>2

LEMMA ActiveOwner ==
  ASSUME Types, SetsAgree, NEW id \in activeTimers_
  PROVE  /\ id[1] \in Addrs /\ heap[id[1]] # Free /\ ActiveOf(id[1]) = id
         /\ <<heap[id[1]].expiration_, id[1]>> \in timers_ /\ InTimers(id[1])
<1>1. PICK e \in timers_ : id = ActiveOf(e[2])
  BY DEF SetsAgree
<1>2. e = <<e[1], e[2]>> /\ e[2] \in Addrs
  BY EntryFacts DEF Types
<1>3. heap[e[2]] # Free /\ heap[e[2]].expiration_ = e[1]
  BY DEF SetsAgree
<1>4. id[1] = e[2]
  BY <1>1 DEF ActiveOf
<1> QED BY <1>1, <1>2, <1>3, <1>4 DEF InTimers

LEMMA Activated ==
  ASSUME Types, SetsAgree, NEW a \in Addrs
  PROVE  InTimers(a) <=> ActiveOf(a) \in activeTimers_
<1>1. ASSUME InTimers(a) PROVE ActiveOf(a) \in activeTimers_
  BY <1>1 DEF InTimers, SetsAgree
<1>2. ASSUME ActiveOf(a) \in activeTimers_ PROVE InTimers(a)
  <2>1. ActiveOf(a)[1] = a
    BY DEF ActiveOf
  <2> QED BY <1>2, <2>1, ActiveOwner
<1> QED BY <1>1, <1>2

-----------------------------------------------------------------------------
(* The steps, one lemma for each.                                          *)

LEMMA SameOwners ==
  ASSUME UNCHANGED <<heap, timers_, activeTimers_, expired, pendingFunctors_>>
  PROVE  /\ OwnerInv => OwnerInv'
         /\ SetsAgree => SetsAgree'
         /\ IdInv /\ UNCHANGED <<ids, adding, misread, asked, s_numCreated_>> => IdInv'
         /\ CancelInv /\ UNCHANGED <<asked, missed, cancelingTimers_>> => CancelInv'
<1>1. OwnerInv => OwnerInv'
  BY DEF OwnerInv, InTimers, InBatch, InQueue
<1>2. SetsAgree => SetsAgree'
  BY DEF SetsAgree, ActiveOf
<1>3. IdInv /\ UNCHANGED <<ids, adding, misread, asked, s_numCreated_>> => IdInv'
  BY DEF IdInv, ActiveOf
<1>4. CancelInv /\ UNCHANGED <<asked, missed, cancelingTimers_>> => CancelInv'
  BY DEF CancelInv, InBatch, ActiveOf
<1> QED BY <1>1, <1>2, <1>3, <1>4

LEMMA QuietStep ==
  ASSUME TimerInv, (Running /\ tick) \/ (Running /\ poll) \/ UNCHANGED vars
  PROVE  QueueInv'
<1>1. /\ UNCHANGED <<heap, timers_, activeTimers_, expired, pendingFunctors_, ids, adding, misread, asked>>
      /\ UNCHANGED <<missed, cancelingTimers_, s_numCreated_, callingExpiredTimer_, called>>
      /\ UNCHANGED <<ran, destroyed>>
  BY DEF Running, tick, poll, vars, queue, batch, hist, handed
<1>2. OwnerInv' /\ SetsAgree' /\ IdInv' /\ CancelInv'
  BY <1>1, SameOwners DEF TimerInv, QueueInv
<1>3. PhaseInv'
  <2>1. active' = active \/ Idle
    BY DEF tick, poll, vars, batch
  <2> QED BY <1>1, <2>1 DEF TimerInv, QueueInv, PhaseInv, Idle
<1>4. RanInv' /\ NoTimerLost'
  BY <1>1 DEF TimerInv, QueueInv, RanInv, NoTimerLost, Live
<1> QED BY <1>2, <1>3, <1>4 DEF QueueInv

LEMMA ReturnStep ==
  ASSUME TimerInv, UNCHANGED destroyed, NEW id \in adding, addReturns(id) PROVE QueueInv'
<1>1. /\ UNCHANGED <<heap, timers_, activeTimers_, expired, pendingFunctors_, ids, asked>>
      /\ UNCHANGED <<missed, cancelingTimers_, s_numCreated_, callingExpiredTimer_, called>>
      /\ UNCHANGED <<ran, active>> /\ adding' \subseteq adding /\ misread \subseteq misread'
  BY DEF addReturns, queue, batch, hist
<1>2. OwnerInv' /\ SetsAgree' /\ CancelInv'
  BY <1>1, SameOwners DEF TimerInv, QueueInv
<1>3. IdInv'
  <2>1. asked' \subseteq ids' /\ adding' \cap asked' \subseteq misread'
    BY <1>1 DEF TimerInv, QueueInv, IdInv
  <2>2. \A i \in 1..Len(pendingFunctors_') :
          pendingFunctors_'[i] \in [cancel : ActiveTimer] =>
            pendingFunctors_'[i].cancel \in asked' \cup misread'
    BY <1>1 DEF TimerInv, QueueInv, IdInv
  <2>3. \A a \in Addrs : heap'[a] # Free => ActiveOf(a)' \in ids'
    BY <1>1 DEF TimerInv, QueueInv, IdInv, ActiveOf
  <2> QED BY <1>1, <2>1, <2>2, <2>3 DEF TimerInv, QueueInv, IdInv
<1>4. PhaseInv'
  BY <1>1 DEF TimerInv, QueueInv, PhaseInv, Idle
<1>5. RanInv' /\ NoTimerLost'
  BY <1>1 DEF TimerInv, QueueInv, RanInv, NoTimerLost, Live
<1> QED BY <1>2, <1>3, <1>4, <1>5 DEF QueueInv

LEMMA RunStep == ASSUME TimerInv, Running, run PROVE QueueInv'
<1>1. /\ UNCHANGED <<heap, timers_, activeTimers_, expired, pendingFunctors_, ids, adding, misread, asked>>
      /\ UNCHANGED <<missed, cancelingTimers_, s_numCreated_, callingExpiredTimer_, active>>
      /\ UNCHANGED destroyed /\ callingExpiredTimer_ /\ called' = called + 1
      /\ ran' = ran \cup {heap[expired[called + 1][2]].sequence_}
  BY DEF Running, run, queue, batch, hist, handed
<1>2. OwnerInv' /\ SetsAgree' /\ IdInv' /\ CancelInv'
  BY <1>1, SameOwners DEF TimerInv, QueueInv
<1>3. PhaseInv'
  BY <1>1 DEF TimerInv, QueueInv, PhaseInv, Idle
<1>4. NoTimerLost'
  BY <1>1 DEF TimerInv, QueueInv, NoTimerLost, Live
<1>5. RanInv'
  <2> SUFFICES ASSUME NEW i \in 1..Len(expired), i <= called + 1
               PROVE  heap[expired[i][2]].sequence_ \in ran'
    BY <1>1 DEF RanInv
  <2>1. called \in Nat /\ i \in Int
    BY DEF TimerInv, Types
  <2>2. i <= called \/ i = called + 1
    BY <2>1
  <2> QED BY <1>1, <2>2 DEF TimerInv, QueueInv, RanInv
<1> QED BY <1>2, <1>3, <1>4, <1>5 DEF QueueInv

LEMMA CalledStep == ASSUME TimerInv, Running, calledAll PROVE QueueInv'
<1>1. /\ UNCHANGED <<heap, timers_, activeTimers_, expired, pendingFunctors_, ids, adding, misread, asked>>
      /\ UNCHANGED <<missed, cancelingTimers_, s_numCreated_, active, ran, destroyed>>
      /\ callingExpiredTimer_ /\ ~callingExpiredTimer_' /\ called = Len(expired) /\ called' = 0
  BY DEF Running, calledAll, queue, batch, hist, handed
<1>2. OwnerInv' /\ SetsAgree' /\ IdInv' /\ CancelInv'
  BY <1>1, SameOwners DEF TimerInv, QueueInv
<1>3. PhaseInv'
  BY <1>1 DEF TimerInv, QueueInv, PhaseInv, Idle
<1>4. NoTimerLost'
  BY <1>1 DEF TimerInv, QueueInv, NoTimerLost, Live
<1>5. RanInv'
  <2>1. Len(expired) \in Nat
    BY DEF TimerInv, Types
  <2>2. \A i \in 1..Len(expired) : i <= called
    BY <1>1, <2>1
  <2> QED BY <1>1, <2>2 DEF TimerInv, QueueInv, RanInv
<1> QED BY <1>2, <1>3, <1>4, <1>5 DEF QueueInv

LEMMA DestroyStep == ASSUME TimerInv, destroy PROVE QueueInv'
<1>1. /\ UNCHANGED <<expired, pendingFunctors_, ids, adding, misread, asked, missed, cancelingTimers_, ran>>
      /\ UNCHANGED <<s_numCreated_, active, callingExpiredTimer_, called>>
      /\ timers_' = {} /\ activeTimers_' = {} /\ destroyed' = TRUE /\ expired = << >> /\ ~active
      /\ heap' = [a \in Addrs |-> IF \E e \in timers_ : e[2] = a THEN Free ELSE heap[a]]
  BY DEF destroy, batch, hist, handed, Idle
<1>2. /\ \A a \in Addrs : heap'[a] = IF InTimers(a) THEN Free ELSE heap[a]
      /\ \A a \in Addrs : heap'[a] # Free => heap'[a] = heap[a]
  BY <1>1 DEF InTimers
<1>3. \A a \in Addrs : /\ ~InTimers(a)' /\ InBatch(a)' = InBatch(a)
                       /\ InQueue(a)' = InQueue(a)
  BY <1>1 DEF InTimers, InBatch, InQueue
<1>4. OwnerInv'
  <2>1. \A a \in Addrs : Once(pendingFunctors_', [add |-> a])
    BY <1>1 DEF TimerInv, QueueInv, OwnerInv
  <2>2. \A i, j \in 1..Len(expired') : expired'[i][2] = expired'[j][2] => i = j
    BY <1>1 DEF TimerInv, QueueInv, OwnerInv
  <2>3. \A a \in Addrs : heap'[a] # Free <=> InTimers(a)' \/ InBatch(a)' \/ InQueue(a)'
    BY <1>2, <1>3 DEF TimerInv, QueueInv, OwnerInv
  <2>4. \A a \in Addrs : InBatch(a)' => ~InQueue(a)'
    BY <1>3 DEF TimerInv, QueueInv, OwnerInv
  <2> QED BY <1>3, <2>1, <2>2, <2>3, <2>4 DEF OwnerInv
<1>5. SetsAgree'
  BY <1>1 DEF SetsAgree
<1>6. IdInv'
  <2>1. \A a \in Addrs : heap'[a] # Free => ActiveOf(a)' = ActiveOf(a) /\ heap[a] # Free
    BY <1>2 DEF ActiveOf
  <2> QED BY <1>1, <2>1 DEF TimerInv, QueueInv, IdInv
<1>7. RanInv' /\ NoTimerLost' /\ PhaseInv'
  <2>1. 1..Len(expired') = {}
    BY <1>1
  <2> QED BY <1>1, <2>1 DEF TimerInv, QueueInv, RanInv, NoTimerLost, Live, PhaseInv
<1>8. CancelInv'
  <2> SUFFICES ASSUME NEW a \in Addrs, heap'[a] # Free, ActiveOf(a)' \in asked
               PROVE  \/ ActiveOf(a)' \in missed
                      \/ Contains(pendingFunctors_, [cancel |-> ActiveOf(a)'])
                      \/ InBatch(a)' /\ ActiveOf(a)' \in cancelingTimers_
    BY <1>1 DEF CancelInv
  <2>1. heap'[a] = heap[a] /\ heap[a] # Free /\ ActiveOf(a)' = ActiveOf(a)
    BY <1>2 DEF ActiveOf
  <2> QED BY <1>3, <2>1 DEF TimerInv, QueueInv, CancelInv
<1> QED BY <1>4, <1>5, <1>6, <1>7, <1>8 DEF QueueInv

LEMMA HandleReadStep == ASSUME TimerInv, Running, handleRead PROVE QueueInv'
<1>1. /\ UNCHANGED <<heap, pendingFunctors_, ids, adding, misread, asked, missed, ran, s_numCreated_, destroyed>>
      /\ active /\ ~active' /\ called' = 0 /\ expired' \in Copies(Expired)
      /\ timers_' = timers_ \ Expired
      /\ activeTimers_' = activeTimers_ \ {ActiveOf(e[2]) : e \in Expired}
      /\ callingExpiredTimer_' = (Expired # {})
  BY DEF Running, handleRead, hist, handed
<1>2. expired = << >>
  BY <1>1 DEF TimerInv, QueueInv, PhaseInv, Idle
<1>3. Expired \subseteq timers_ /\ Expired \subseteq Entry /\ IsFiniteSet(Expired)
  BY FS_Subset DEF Expired, TimerInv, Types
<1>4. /\ \A i \in 1..Len(expired') : expired'[i] \in Expired
      /\ \A i, j \in 1..Len(expired') : expired'[i] = expired'[j] => i = j
      /\ \A e \in Expired : \E i \in 1..Len(expired') : expired'[i] = e
      /\ expired' = << >> <=> Expired = {}
  BY <1>1, <1>3, CopiesFacts
<1>5. \A e, f \in timers_ : e[2] = f[2] => e = f
  BY TimersUnique DEF TimerInv, QueueInv
<1>6. \A a \in Addrs : ~InBatch(a)
  BY <1>2 DEF InBatch
<1>7. ASSUME NEW a \in Addrs
      PROVE  /\ InTimers(a)' <=> \E e \in timers_ \ Expired : e[2] = a
             /\ InBatch(a)' <=> \E e \in Expired : e[2] = a
             /\ InQueue(a)' = InQueue(a)
  BY <1>1, <1>4 DEF InTimers, InBatch, InQueue
<1>8. OwnerInv'
  <2>1. \A a \in Addrs : heap'[a] # Free <=> InTimers(a)' \/ InBatch(a)' \/ InQueue(a)'
    <3> SUFFICES ASSUME NEW a \in Addrs
                 PROVE  heap[a] # Free <=> InTimers(a)' \/ InBatch(a)' \/ InQueue(a)'
      BY <1>1
    <3>1. heap[a] # Free <=> InTimers(a) \/ InQueue(a)
      BY <1>6 DEF TimerInv, QueueInv, OwnerInv
    <3>2. InTimers(a) <=> InTimers(a)' \/ InBatch(a)'
      BY <1>3, <1>7 DEF InTimers
    <3> QED BY <1>7, <3>1, <3>2
  <2>2. \A a \in Addrs : /\ InTimers(a)' => ~InBatch(a)' /\ ~InQueue(a)'
                         /\ InBatch(a)' => ~InQueue(a)'
    <3> SUFFICES ASSUME NEW a \in Addrs
                 PROVE  /\ InTimers(a)' => ~InBatch(a)' /\ ~InQueue(a)'
                        /\ InBatch(a)' => ~InQueue(a)'
      OBVIOUS
    <3>1. InTimers(a)' \/ InBatch(a)' => InTimers(a)
      BY <1>3, <1>7 DEF InTimers
    <3>2. InTimers(a) => ~InQueue(a)
      BY DEF TimerInv, QueueInv, OwnerInv
    <3>3. InTimers(a)' => ~InBatch(a)'
      BY <1>3, <1>5, <1>7
    <3> QED BY <1>7, <3>1, <3>2, <3>3
  <2>3. \A i, j \in 1..Len(expired') : expired'[i][2] = expired'[j][2] => i = j
    BY <1>3, <1>4, <1>5
  <2>4. \A a \in Addrs : Once(pendingFunctors_', [add |-> a])
    BY <1>1 DEF TimerInv, QueueInv, OwnerInv
  <2> QED BY <2>1, <2>2, <2>3, <2>4 DEF OwnerInv
<1>9. SetsAgree'
  <2>1. \A a : ActiveOf(a)' = ActiveOf(a) /\ ActiveOf(a)[1] = a
    BY <1>1 DEF ActiveOf
  <2>2. activeTimers_ = {ActiveOf(e[2]) : e \in timers_}
    BY DEF TimerInv, QueueInv, SetsAgree
  <2>3. activeTimers_' = {ActiveOf(e[2]) : e \in timers_ \ Expired}
    <3>1. ASSUME NEW x \in activeTimers_' PROVE x \in {ActiveOf(e[2]) : e \in timers_ \ Expired}
      BY <1>1, <2>2, <3>1
    <3>2. ASSUME NEW e \in timers_ \ Expired PROVE ActiveOf(e[2]) \in activeTimers_'
      <4>1. ActiveOf(e[2]) \in activeTimers_
        BY <2>2
      <4>2. ASSUME NEW f \in Expired, ActiveOf(e[2]) = ActiveOf(f[2]) PROVE FALSE
        <5>1. e[2] = f[2]
          BY <2>1, <4>2
        <5> QED BY <1>3, <1>5, <5>1
      <4> QED BY <1>1, <4>1, <4>2
    <3> QED BY <3>1, <3>2
  <2>4. activeTimers_' = {ActiveOf(e[2])' : e \in timers_'}
    BY <1>1, <2>1, <2>3
  <2>5. \A e \in timers_' : heap'[e[2]] # Free /\ heap'[e[2]].expiration_ = e[1]
    BY <1>1 DEF TimerInv, QueueInv, SetsAgree
  <2> QED BY <1>1, <2>1, <2>3, <2>5 DEF SetsAgree, ActiveOf
<1>10. IdInv' /\ NoTimerLost'
  BY <1>1 DEF TimerInv, QueueInv, IdInv, NoTimerLost, Live, ActiveOf
<1>11. PhaseInv' /\ RanInv'
  <2>1. callingExpiredTimer_' <=> expired' # << >>
    BY <1>1, <1>4
  <2>2. ~callingExpiredTimer_' => 1..Len(expired') = {}
    BY <2>1
  <2>3. \A i \in 1..Len(expired') : ~(i <= called')
    BY <1>1
  <2> QED BY <1>1, <2>2, <2>3 DEF PhaseInv, RanInv
<1>12. CancelInv'
  <2> SUFFICES ASSUME NEW a \in Addrs, heap[a] # Free, ActiveOf(a) \in asked
               PROVE  \/ ActiveOf(a) \in missed
                      \/ Contains(pendingFunctors_, [cancel |-> ActiveOf(a)])
    BY <1>1 DEF CancelInv, ActiveOf
  <2> QED BY <1>6 DEF TimerInv, QueueInv, CancelInv
<1> QED BY <1>8, <1>9, <1>10, <1>11, <1>12 DEF QueueInv

(* insert() of a timer that is not in the sets keeps them in agreement.    *)
LEMMA InsertAgrees ==
  ASSUME Types, SetsAgree, NEW a \in Addrs, NEW t \in Timer, ~InTimers(a), heap'[a] = t,
         \A b \in Addrs : b # a => heap'[b] = heap[b], insert(t.expiration_, a, t.sequence_)
  PROVE  SetsAgree' /\ \A b \in Addrs : InTimers(b)' <=> InTimers(b) \/ b = a
<1> DEFINE n == <<t.expiration_, a>>
<1>1. timers_' = timers_ \cup {n} /\ activeTimers_' = activeTimers_ \cup {<<a, t.sequence_>>}
  BY DEF insert
<1>2. n[1] = t.expiration_ /\ n[2] = a
  OBVIOUS
<1>3. t # Free
  BY FreeAssumption DEF FreeAssumption
<1> HIDE DEF n
<1>4. \A b \in Addrs : InTimers(b)' <=> InTimers(b) \/ b = a
  BY <1>1, <1>2 DEF InTimers
<1>5. \A e \in timers_ : e[2] \in Addrs /\ e[2] # a
  BY EntryFacts DEF Types, InTimers
<1>6. \A e \in timers_' : heap'[e[2]] # Free /\ heap'[e[2]].expiration_ = e[1]
  <2> SUFFICES ASSUME NEW e \in timers_' PROVE heap'[e[2]] # Free /\ heap'[e[2]].expiration_ = e[1]
    OBVIOUS
  <2>1. CASE e = n
    BY <1>2, <1>3, <2>1
  <2>2. CASE e \in timers_
    BY <1>5, <2>2 DEF SetsAgree
  <2> QED BY <1>1, <2>1, <2>2
<1>7. ActiveOf(a)' = <<a, t.sequence_>> /\ \A e \in timers_ : ActiveOf(e[2])' = ActiveOf(e[2])
  BY <1>5 DEF ActiveOf
<1>8. activeTimers_' = {<<e[2], heap'[e[2]].sequence_>> : e \in timers_'}
  <2>1. activeTimers_ = {<<e[2], heap[e[2]].sequence_>> : e \in timers_}
    BY DEF SetsAgree, ActiveOf
  <2>2. \A e \in timers_ : <<e[2], heap'[e[2]].sequence_>> = <<e[2], heap[e[2]].sequence_>>
    BY <1>5
  <2>3. <<n[2], heap'[n[2]].sequence_>> = <<a, t.sequence_>>
    BY <1>2
  <2> QED BY <1>1, <2>1, <2>2, <2>3
<1>9. SetsAgree'
  BY <1>6, <1>8 DEF SetsAgree, ActiveOf
<1> QED BY <1>4, <1>9

(* A new Timer gets an address that nobody owns and a sequence of its own. *)
LEMMA AddHeap ==
  ASSUME TimerInv, NEW a \in Addrs, NEW t \in Timer, heap[a] = Free,
         t.sequence_ = s_numCreated_, heap' = [heap EXCEPT ![a] = t],
         s_numCreated_' = s_numCreated_ + 1, ids' = ids \cup {<<a, t.sequence_>>},
         UNCHANGED <<expired, asked, ran, missed, cancelingTimers_, callingExpiredTimer_>>,
         UNCHANGED <<called, active, destroyed, misread>>,
         adding' \subseteq adding \cup {<<a, t.sequence_>>},
         \/ UNCHANGED pendingFunctors_
         \/ pendingFunctors_' = Append(pendingFunctors_, [add |-> a])
  PROVE  /\ IdInv' /\ RanInv' /\ CancelInv' /\ NoTimerLost' /\ PhaseInv'
         /\ ~InTimers(a) /\ ~InBatch(a) /\ ~InQueue(a) /\ heap'[a] = t /\ t # Free
         /\ \A b \in Addrs : b # a => heap'[b] = heap[b]
<1>1. /\ heap'[a] = t /\ \A b \in Addrs : b # a => heap'[b] = heap[b] /\ ActiveOf(b)' = ActiveOf(b)
      /\ ActiveOf(a)' = <<a, s_numCreated_>> /\ t # Free /\ heap'[a].sequence_ = s_numCreated_
  BY FreeAssumption DEF TimerInv, Types, ActiveOf, FreeAssumption
<1>2. ~InTimers(a) /\ ~InBatch(a) /\ ~InQueue(a)
  BY DEF TimerInv, QueueInv, OwnerInv
<1>3. s_numCreated_ \in Nat /\ ids \subseteq ActiveTimer /\ pendingFunctors_ \in Seq(Functors)
  BY DEF TimerInv, Types
<1>4. \A id \in ids : id[2] \in Nat /\ id[2] < s_numCreated_ /\ id[1] \in Addrs
  BY <1>3, ActiveFacts DEF TimerInv, QueueInv, IdInv
<1>5. /\ \A y : Contains(pendingFunctors_, y) => Contains(pendingFunctors_', y)
      /\ \A i \in 1..Len(pendingFunctors_') :
           \/ pendingFunctors_'[i] = [add |-> a]
           \/ Contains(pendingFunctors_, pendingFunctors_'[i])
  <2>1. CASE UNCHANGED pendingFunctors_
    BY <2>1 DEF Contains
  <2>2. CASE pendingFunctors_' = Append(pendingFunctors_, [add |-> a])
    BY <1>3, <2>2, FunctorFacts, AppendFacts
  <2> QED BY <2>1, <2>2
<1>6. IdInv'
  <2>1. \A id \in ids' : id[2] < s_numCreated_'
    BY <1>3, <1>4
  <2>2. \A x, y \in ids' : x[2] = y[2] => x = y
    <3>1. \A x \in ids' : x \in ids \/ (x = <<a, s_numCreated_>> /\ x[2] = s_numCreated_)
      OBVIOUS
    <3>2. \A x \in ids : x[2] # s_numCreated_
      BY <1>3, <1>4
    <3> QED BY <3>1, <3>2 DEF TimerInv, QueueInv, IdInv
  <2>3. \A b \in Addrs : heap'[b] # Free => ActiveOf(b)' \in ids'
    BY <1>1 DEF TimerInv, QueueInv, IdInv
  <2>4. asked' \subseteq ids' /\ adding' \cap asked' \subseteq misread'
    <3>1. <<a, s_numCreated_>> \notin asked
      BY <1>3, <1>4 DEF TimerInv, QueueInv, IdInv
    <3> QED BY <3>1 DEF TimerInv, QueueInv, IdInv
  <2>5. ASSUME NEW i \in 1..Len(pendingFunctors_'), pendingFunctors_'[i] \in [cancel : ActiveTimer]
        PROVE  pendingFunctors_'[i].cancel \in asked' \cup misread'
    <3>1. pendingFunctors_'[i] = [cancel |-> pendingFunctors_'[i].cancel]
      BY <2>5
    <3>2. pendingFunctors_'[i] # [add |-> a]
      BY <3>1, FunctorFacts
    <3>3. PICK j \in 1..Len(pendingFunctors_) : pendingFunctors_[j] = pendingFunctors_'[i]
      BY <1>5, <3>2 DEF Contains
    <3> QED BY <2>5, <3>3 DEF TimerInv, QueueInv, IdInv
  <2> QED BY <2>1, <2>2, <2>3, <2>4, <2>5 DEF IdInv
<1>7. RanInv'
  <2>1. \A i \in 1..Len(expired) : expired[i][2] \in Addrs /\ expired[i][2] # a
    BY OwnedFacts DEF TimerInv, QueueInv
  <2> QED BY <1>1, <2>1 DEF TimerInv, QueueInv, RanInv
<1>8. CancelInv'
  <2> SUFFICES ASSUME NEW b \in Addrs, heap'[b] # Free, ActiveOf(b)' \in asked
               PROVE  \/ ActiveOf(b)' \in missed
                      \/ Contains(pendingFunctors_', [cancel |-> ActiveOf(b)'])
                      \/ InBatch(b) /\ ActiveOf(b)' \in cancelingTimers_
    BY DEF CancelInv, InBatch
  <2>1. b # a
    <3> SUFFICES ASSUME b = a PROVE FALSE
      OBVIOUS
    <3>1. <<a, s_numCreated_>> \in ids
      BY <1>1 DEF TimerInv, QueueInv, IdInv
    <3> QED BY <1>3, <1>4, <3>1
  <2> QED BY <1>1, <1>5, <2>1 DEF TimerInv, QueueInv, CancelInv
<1>9. NoTimerLost'
  <2> SUFFICES ASSUME NEW id \in ids', ~(id[2] \in ran), ~(id \in asked \cup misread), ~destroyed
               PROVE  heap'[id[1]] # Free /\ heap'[id[1]].sequence_ = id[2]
    BY DEF NoTimerLost, Live
  <2>1. CASE id \in ids
    <3>1. heap[id[1]] # Free /\ heap[id[1]].sequence_ = id[2] /\ id[1] \in Addrs
      BY <1>4, <2>1 DEF TimerInv, QueueInv, NoTimerLost, Live
    <3> QED BY <1>1, <3>1
  <2>2. CASE id = <<a, t.sequence_>>
    BY <1>1, <2>2
  <2> QED BY <2>1, <2>2
<1>10. PhaseInv'
  BY DEF TimerInv, QueueInv, PhaseInv, Idle
<1> QED BY <1>1, <1>2, <1>6, <1>7, <1>8, <1>9, <1>10

LEMMA AddTimerStep == ASSUME TimerInv, Running, AddStep PROVE QueueInv'
<1>1. PICK a \in Addrs, d \in Nat, i \in Nat : addTimer(a, d, i)
  BY TimerQueueAssumption DEF AddStep, TimerQueueAssumption
<1>2. PICK t \in Timer : t = NewTimer(d, i)
  BY NewType DEF TimerInv
<1>3. t.sequence_ = s_numCreated_
  BY <1>2 DEF NewTimer
<1>4. /\ heap[a] = Free /\ heap' = [heap EXCEPT ![a] = t] /\ s_numCreated_' = s_numCreated_ + 1
      /\ ids' = ids \cup {<<a, t.sequence_>>}
      /\ UNCHANGED <<expired, called, active, asked, missed, ran, destroyed, misread>>
      /\ adding' \subseteq adding \cup {<<a, t.sequence_>>}
      /\ \/ addTimerInLoop(a, t) /\ UNCHANGED pendingFunctors_
         \/ pendingFunctors_' = Append(pendingFunctors_, [add |-> a]) /\ UNCHANGED queue
  BY <1>1, <1>2 DEF addTimer, Running, batch, hist, handed
<1>5. UNCHANGED <<cancelingTimers_, callingExpiredTimer_>>
  BY <1>4 DEF addTimerInLoop, queue
<1>6. /\ IdInv' /\ RanInv' /\ CancelInv' /\ NoTimerLost' /\ PhaseInv'
      /\ ~InTimers(a) /\ ~InBatch(a) /\ ~InQueue(a) /\ heap'[a] = t /\ t # Free
      /\ \A b \in Addrs : b # a => heap'[b] = heap[b]
  BY <1>3, <1>4, <1>5, AddHeap
<1>7. \A b \in Addrs : InBatch(b)' = InBatch(b)
  BY <1>4 DEF InBatch
<1>8. \A j, k \in 1..Len(expired') : expired'[j][2] = expired'[k][2] => j = k
  BY <1>4 DEF TimerInv, QueueInv, OwnerInv
<1>9. CASE addTimerInLoop(a, t) /\ UNCHANGED pendingFunctors_
  <2>1. insert(t.expiration_, a, t.sequence_)
    BY <1>9 DEF addTimerInLoop
  <2>2. SetsAgree' /\ \A b \in Addrs : InTimers(b)' <=> InTimers(b) \/ b = a
    BY <1>6, <2>1, InsertAgrees DEF TimerInv, QueueInv
  <2>3. \A b \in Addrs : InQueue(b)' = InQueue(b) /\ Once(pendingFunctors_', [add |-> b])
    BY <1>9 DEF InQueue, TimerInv, QueueInv, OwnerInv
  <2>4. OwnerInv'
    <3>1. \A b \in Addrs : heap'[b] # Free <=> InTimers(b)' \/ InBatch(b)' \/ InQueue(b)'
      BY <1>6, <1>7, <2>2, <2>3 DEF TimerInv, QueueInv, OwnerInv
    <3>2. \A b \in Addrs : /\ InTimers(b)' => ~InBatch(b)' /\ ~InQueue(b)'
                           /\ InBatch(b)' => ~InQueue(b)'
      BY <1>6, <1>7, <2>2, <2>3 DEF TimerInv, QueueInv, OwnerInv
    <3> QED BY <1>8, <2>3, <3>1, <3>2 DEF OwnerInv
  <2> QED BY <1>6, <2>2, <2>4 DEF QueueInv
<1>10. CASE pendingFunctors_' = Append(pendingFunctors_, [add |-> a]) /\ UNCHANGED queue
  <2>1. pendingFunctors_ \in Seq(Functors) /\ [add |-> a] \in Functors
    BY FunctorFacts DEF TimerInv, Types
  <2>2. timers_' = timers_ /\ activeTimers_' = activeTimers_
    BY <1>10 DEF queue
  <2>3. \A b \in Addrs : InQueue(b)' <=> InQueue(b) \/ b = a
    BY <1>10, <2>1, AppendFacts, FunctorFacts DEF InQueue
  <2>4. \A b \in Addrs : Once(pendingFunctors_', [add |-> b])
    <3> SUFFICES ASSUME NEW b \in Addrs PROVE Once(pendingFunctors_', [add |-> b])
      OBVIOUS
    <3>1. Once(pendingFunctors_, [add |-> b])
      BY DEF TimerInv, QueueInv, OwnerInv
    <3>2. [add |-> a] = [add |-> b] => ~Contains(pendingFunctors_, [add |-> b])
      BY <1>6 DEF InQueue
    <3> QED BY <1>10, <2>1, <3>1, <3>2, AppendFacts
  <2>5. \A b \in Addrs : InTimers(b)' = InTimers(b)
    BY <2>2 DEF InTimers
  <2>6. OwnerInv'
    <3>1. \A b \in Addrs : heap'[b] # Free <=> InTimers(b)' \/ InBatch(b)' \/ InQueue(b)'
      BY <1>6, <1>7, <2>3, <2>5 DEF TimerInv, QueueInv, OwnerInv
    <3>2. \A b \in Addrs : /\ InTimers(b)' => ~InBatch(b)' /\ ~InQueue(b)'
                           /\ InBatch(b)' => ~InQueue(b)'
      BY <1>6, <1>7, <2>3, <2>5 DEF TimerInv, QueueInv, OwnerInv
    <3> QED BY <1>8, <2>4, <3>1, <3>2 DEF OwnerInv
  <2>7. SetsAgree'
    <3>1. \A e \in timers_ : e[2] \in Addrs /\ e[2] # a
      BY <1>6, EntryFacts DEF InTimers, TimerInv, Types
    <3>2. \A e \in timers_ : heap'[e[2]] = heap[e[2]]
      BY <1>6, <3>1
    <3> QED BY <2>2, <3>2 DEF TimerInv, QueueInv, SetsAgree, ActiveOf
  <2> QED BY <1>6, <2>6, <2>7 DEF QueueInv
<1> QED BY <1>4, <1>9, <1>10

(* A queued addTimerInLoop moves its timer into the sets.                  *)
LEMMA FunctorAddStep ==
  ASSUME TimerInv, Running, NEW a \in Addrs, pendingFunctors_ # << >>,
         Head(pendingFunctors_) = [add |-> a], pendingFunctors_' = Tail(pendingFunctors_),
         addTimerInLoop(a, heap[a]), UNCHANGED <<heap, missed, s_numCreated_, batch>>,
         UNCHANGED <<ids, adding, misread, asked, ran>>
  PROVE  QueueInv'
<1>1. UNCHANGED <<cancelingTimers_, callingExpiredTimer_, expired, called, active, destroyed>>
  BY DEF addTimerInLoop, batch, Running
<1>2. pendingFunctors_ \in Seq(Functors)
  BY DEF TimerInv, Types
<1>3. /\ \A y : Contains(pendingFunctors_, y) <=> Contains(pendingFunctors_', y) \/ y = [add |-> a]
      /\ \A g : Once(pendingFunctors_, g) =>
                  Once(pendingFunctors_', g) /\ (g = [add |-> a] => ~Contains(pendingFunctors_', g))
      /\ \A i \in 1..Len(pendingFunctors_') : Contains(pendingFunctors_, pendingFunctors_'[i])
  <2>1. \A i \in 1..Len(pendingFunctors_') : Contains(pendingFunctors_', pendingFunctors_'[i])
    BY DEF Contains
  <2>2. \A y : Contains(pendingFunctors_, y) <=> Contains(pendingFunctors_', y) \/ y = [add |-> a]
    BY <1>2, TailFacts
  <2>3. \A g : Once(pendingFunctors_, g) =>
                  Once(pendingFunctors_', g) /\ (g = [add |-> a] => ~Contains(pendingFunctors_', g))
    BY <1>2, TailFacts
  <2> QED BY <2>1, <2>2, <2>3
<1>4. InQueue(a)
  BY <1>3 DEF InQueue
<1>5. heap[a] # Free /\ ~InTimers(a) /\ ~InBatch(a)
  BY <1>4 DEF TimerInv, QueueInv, OwnerInv
<1>6. PICK t \in Timer : t = heap[a]
  BY <1>5, HeapFacts DEF TimerInv
<1>7. insert(t.expiration_, a, t.sequence_)
  BY <1>6 DEF addTimerInLoop
<1>8. SetsAgree' /\ \A b \in Addrs : InTimers(b)' <=> InTimers(b) \/ b = a
  BY <1>5, <1>6, <1>7, InsertAgrees DEF TimerInv, QueueInv
<1>9. \A b \in Addrs : /\ InQueue(b)' <=> InQueue(b) /\ b # a
                       /\ Once(pendingFunctors_', [add |-> b])
  <2> SUFFICES ASSUME NEW b \in Addrs
               PROVE  /\ Contains(pendingFunctors_', [add |-> b]) <=>
                           Contains(pendingFunctors_, [add |-> b]) /\ b # a
                      /\ Once(pendingFunctors_', [add |-> b])
    BY DEF InQueue
  <2>1. Once(pendingFunctors_, [add |-> b])
    BY DEF TimerInv, QueueInv, OwnerInv
  <2>2. [add |-> b] = [add |-> a] <=> b = a
    BY FunctorFacts
  <2> QED BY <1>3, <2>1, <2>2
<1>10. \A b \in Addrs : InBatch(b)' = InBatch(b)
  BY <1>1 DEF InBatch
<1>11. OwnerInv'
  <2>1. \A b \in Addrs : heap'[b] # Free <=> InTimers(b)' \/ InBatch(b)' \/ InQueue(b)'
    BY <1>5, <1>8, <1>9, <1>10 DEF TimerInv, QueueInv, OwnerInv
  <2>2. \A b \in Addrs : /\ InTimers(b)' => ~InBatch(b)' /\ ~InQueue(b)'
                         /\ InBatch(b)' => ~InQueue(b)'
    BY <1>5, <1>8, <1>9, <1>10 DEF TimerInv, QueueInv, OwnerInv
  <2>3. \A j, k \in 1..Len(expired') : expired'[j][2] = expired'[k][2] => j = k
    BY <1>1 DEF TimerInv, QueueInv, OwnerInv
  <2> QED BY <1>9, <2>1, <2>2, <2>3 DEF OwnerInv
<1>12. IdInv'
  <2>1. ASSUME NEW i \in 1..Len(pendingFunctors_'), pendingFunctors_'[i] \in [cancel : ActiveTimer]
        PROVE  pendingFunctors_'[i].cancel \in asked \cup misread
    <3>1. PICK j \in 1..Len(pendingFunctors_) : pendingFunctors_[j] = pendingFunctors_'[i]
      BY <1>3 DEF Contains
    <3> QED BY <2>1, <3>1 DEF TimerInv, QueueInv, IdInv
  <2> QED BY <2>1 DEF TimerInv, QueueInv, IdInv, ActiveOf
<1>13. RanInv' /\ NoTimerLost' /\ PhaseInv'
  BY <1>1 DEF TimerInv, QueueInv, RanInv, NoTimerLost, Live, PhaseInv, Idle
<1>14. CancelInv'
  <2> SUFFICES ASSUME NEW b \in Addrs, heap[b] # Free, ActiveOf(b) \in asked
               PROVE  \/ ActiveOf(b) \in missed
                      \/ Contains(pendingFunctors_', [cancel |-> ActiveOf(b)])
                      \/ InBatch(b) /\ ActiveOf(b) \in cancelingTimers_
    BY <1>1 DEF CancelInv, InBatch, ActiveOf
  <2>1. [cancel |-> ActiveOf(b)] # [add |-> a]
    BY FunctorFacts
  <2> QED BY <1>3, <2>1 DEF TimerInv, QueueInv, CancelInv
<1> QED BY <1>8, <1>11, <1>12, <1>13, <1>14 DEF QueueInv

(* cancelInLoop, called from the loop thread or from a functor.            *)
LEMMA CancelInLoopStep ==
  ASSUME TimerInv, Running, NEW id \in ActiveTimer, cancelInLoop(id),
         asked \subseteq asked', asked' \subseteq asked \cup {id}, asked' \subseteq ids,
         id \in asked' \cup misread, adding \cap asked' \subseteq misread,
         expired # << >> => callingExpiredTimer_,
         UNCHANGED <<s_numCreated_, batch, ids, adding, misread, ran>>,
         \A y : Contains(pendingFunctors_', y) => Contains(pendingFunctors_, y),
         \A y : Contains(pendingFunctors_, y) /\ y # [cancel |-> id] => Contains(pendingFunctors_', y),
         \A g : Once(pendingFunctors_, g) => Once(pendingFunctors_', g)
  PROVE  QueueInv'
<1> DEFINE c == id[1]
<1>1. UNCHANGED <<callingExpiredTimer_, expired, called, active, destroyed>>
  BY DEF cancelInLoop, batch, Running
<1>2. c \in Addrs /\ id = <<c, id[2]>>
  BY ActiveFacts
<1>3. \A b \in Addrs : (InQueue(b)' <=> InQueue(b)) /\ (InBatch(b)' <=> InBatch(b))
  <2> SUFFICES ASSUME NEW b \in Addrs PROVE (InQueue(b)' <=> InQueue(b)) /\ (InBatch(b)' <=> InBatch(b))
    OBVIOUS
  <2>1. [add |-> b] # [cancel |-> id]
    BY FunctorFacts
  <2>2. Contains(pendingFunctors_', [add |-> b]) <=> Contains(pendingFunctors_, [add |-> b])
    BY <2>1
  <2>3. InBatch(b)' <=> InBatch(b)
    BY <1>1 DEF InBatch
  <2> QED BY <2>2, <2>3 DEF InQueue
<1>4. \A b \in Addrs : Once(pendingFunctors_', [add |-> b])
  BY DEF TimerInv, QueueInv, OwnerInv
<1>5. \A j, k \in 1..Len(expired') : expired'[j][2] = expired'[k][2] => j = k
  BY <1>1 DEF TimerInv, QueueInv, OwnerInv
<1>6. \A b \in Addrs : ActiveOf(b) = id => b = c
  BY <1>2 DEF ActiveOf
<1>7. \A b \in Addrs : [cancel |-> ActiveOf(b)] = [cancel |-> id] => ActiveOf(b) = id
  BY FunctorFacts
<1>8. \A x : x \in missed /\ x # id => x \in missed'
  BY DEF cancelInLoop, Missed
<1>9. PhaseInv'
  BY <1>1 DEF TimerInv, QueueInv, PhaseInv, Idle
<1>10. ASSUME \A b \in Addrs : heap'[b] # Free => heap'[b] = heap[b] PROVE IdInv'
  <2>1. \A b \in Addrs : heap'[b] # Free => ActiveOf(b)' \in ids'
    BY <1>10 DEF TimerInv, QueueInv, IdInv, ActiveOf
  <2>2. ASSUME NEW i \in 1..Len(pendingFunctors_'), pendingFunctors_'[i] \in [cancel : ActiveTimer]
        PROVE  pendingFunctors_'[i].cancel \in asked' \cup misread'
    <3>1. Contains(pendingFunctors_', pendingFunctors_'[i])
      BY DEF Contains
    <3>2. PICK j \in 1..Len(pendingFunctors_) : pendingFunctors_[j] = pendingFunctors_'[i]
      BY <3>1 DEF Contains
    <3> QED BY <2>2, <3>2 DEF TimerInv, QueueInv, IdInv
  <2>3. asked' \subseteq ids' /\ adding' \cap asked' \subseteq misread'
    OBVIOUS
  <2>4. (\A x \in ids' : x[2] < s_numCreated_') /\ (\A x, y \in ids' : x[2] = y[2] => x = y)
    BY DEF TimerInv, QueueInv, IdInv
  <2> QED BY <2>1, <2>2, <2>3, <2>4 DEF IdInv
<1> HIDE DEF c
<1>11. CASE id \in activeTimers_
  <2>1. heap[c] # Free /\ ActiveOf(c) = id /\ <<heap[c].expiration_, c>> \in timers_ /\ InTimers(c)
    BY <1>11, ActiveOwner DEF TimerInv, QueueInv, c
  <2> DEFINE n == <<heap[c].expiration_, c>>
  <2>2. /\ timers_' = timers_ \ {n} /\ heap' = [heap EXCEPT ![c] = Free]
        /\ activeTimers_' = activeTimers_ \ {id} /\ cancelingTimers_' = cancelingTimers_
    BY <1>11 DEF cancelInLoop, c
  <2>3. n \in timers_ /\ n[2] = c
    BY <2>1
  <2> HIDE DEF n
  <2>4. \A e \in timers_ : e[2] = c <=> e = n
    BY <2>3, TimersUnique DEF TimerInv, QueueInv
  <2>5. heap'[c] = Free /\ \A b \in Addrs : b # c => heap'[b] = heap[b] /\ ActiveOf(b)' = ActiveOf(b)
    BY <1>2, <2>2 DEF TimerInv, Types, ActiveOf
  <2>6. \A b \in Addrs : InTimers(b)' <=> InTimers(b) /\ b # c
    BY <2>2, <2>4 DEF InTimers
  <2>7. OwnerInv'
    <3>1. ~InBatch(c) /\ ~InQueue(c)
      BY <1>2, <2>1 DEF TimerInv, QueueInv, OwnerInv
    <3>2. \A b \in Addrs : heap'[b] # Free <=> InTimers(b)' \/ InBatch(b)' \/ InQueue(b)'
      BY <1>3, <2>5, <2>6, <3>1 DEF TimerInv, QueueInv, OwnerInv
    <3>3. \A b \in Addrs : /\ InTimers(b)' => ~InBatch(b)' /\ ~InQueue(b)'
                           /\ InBatch(b)' => ~InQueue(b)'
      BY <1>3, <2>6 DEF TimerInv, QueueInv, OwnerInv
    <3> QED BY <1>4, <1>5, <3>2, <3>3 DEF OwnerInv
  <2>8. SetsAgree'
    <3>1. \A e \in timers_' : e \in timers_ /\ e[2] # c /\ e[2] \in Addrs
      BY <2>2, <2>4, EntryFacts DEF TimerInv, Types
    <3>2. \A e \in timers_' : heap'[e[2]] = heap[e[2]]
      BY <2>5, <3>1
    <3>3. \A e \in timers_' : heap'[e[2]] # Free /\ heap'[e[2]].expiration_ = e[1]
      BY <3>1, <3>2 DEF TimerInv, QueueInv, SetsAgree
    <3>4. activeTimers_ = {ActiveOf(e[2]) : e \in timers_}
      BY DEF TimerInv, QueueInv, SetsAgree
    <3>5. activeTimers_' = {ActiveOf(e[2]) : e \in timers_'}
      <4>1. ASSUME NEW x \in activeTimers_' PROVE x \in {ActiveOf(e[2]) : e \in timers_'}
        <5>1. PICK e \in timers_ : x = ActiveOf(e[2])
          BY <2>2, <3>4
        <5>2. e # n
          BY <2>1, <2>2, <2>3, <5>1
        <5> QED BY <2>2, <5>1, <5>2
      <4>2. ASSUME NEW e \in timers_' PROVE ActiveOf(e[2]) \in activeTimers_'
        <5>1. ActiveOf(e[2]) \in activeTimers_
          BY <3>1, <3>4
        <5>2. ActiveOf(e[2])[1] = e[2] /\ id[1] = c
          BY DEF ActiveOf, c
        <5> QED BY <2>2, <3>1, <5>1, <5>2
      <4> QED BY <4>1, <4>2
    <3> QED BY <3>2, <3>3, <3>5 DEF SetsAgree, ActiveOf
  <2>9. IdInv'
    BY <1>10, <2>5
  <2>10. RanInv'
    <3>1. \A i \in 1..Len(expired) : expired[i][2] \in Addrs /\ expired[i][2] # c
      <4>1. ~InBatch(c)
        BY <1>2, <2>1 DEF TimerInv, QueueInv, OwnerInv
      <4> QED BY <4>1, OwnedFacts DEF TimerInv, QueueInv, InBatch
    <3> QED BY <1>1, <2>5, <3>1 DEF TimerInv, QueueInv, RanInv
  <2>11. CancelInv'
    <3> SUFFICES ASSUME NEW b \in Addrs, heap'[b] # Free, ActiveOf(b)' \in asked'
                 PROVE  \/ ActiveOf(b)' \in missed'
                        \/ Contains(pendingFunctors_', [cancel |-> ActiveOf(b)'])
                        \/ InBatch(b)' /\ ActiveOf(b)' \in cancelingTimers_'
      BY DEF CancelInv
    <3>1. b # c /\ heap'[b] = heap[b] /\ heap[b] # Free /\ ActiveOf(b)' = ActiveOf(b)
      BY <2>5
    <3>2. ActiveOf(b) # id
      BY <1>6, <3>1
    <3>3. ActiveOf(b) \in asked
      BY <3>1, <3>2
    <3>4. [cancel |-> ActiveOf(b)] # [cancel |-> id]
      BY <1>7, <3>2
    <3> QED BY <1>3, <1>8, <2>2, <3>1, <3>2, <3>3, <3>4 DEF TimerInv, QueueInv, CancelInv
  <2>12. NoTimerLost'
    <3> SUFFICES ASSUME NEW x \in ids, ~(x[2] \in ran), ~(x \in asked' \cup misread), ~destroyed
                 PROVE  heap'[x[1]] # Free /\ heap'[x[1]].sequence_ = x[2]
      BY <1>1 DEF NoTimerLost, Live
    <3>1. heap[x[1]] # Free /\ heap[x[1]].sequence_ = x[2] /\ x[1] \in Addrs
      BY ActiveFacts DEF TimerInv, QueueInv, NoTimerLost, Live, Types
    <3>2. x[1] # c
      <4>1. heap[c].sequence_ = id[2]
        BY <1>2, <2>1 DEF ActiveOf
      <4>2. x = <<x[1], x[2]>>
        BY ActiveFacts DEF TimerInv, Types
      <4> QED BY <1>2, <3>1, <4>1, <4>2
    <3> QED BY <2>5, <3>1, <3>2
  <2> QED BY <1>9, <2>7, <2>8, <2>9, <2>10, <2>11, <2>12 DEF QueueInv
<1>12. CASE id \notin activeTimers_
  <2>1. /\ UNCHANGED <<timers_, activeTimers_, heap>> /\ cancelingTimers_ \subseteq cancelingTimers_'
        /\ callingExpiredTimer_ => id \in cancelingTimers_'
    BY <1>12 DEF cancelInLoop
  <2>2. \A b \in Addrs : InTimers(b)' = InTimers(b) /\ ActiveOf(b)' = ActiveOf(b)
    BY <2>1 DEF InTimers, ActiveOf
  <2>3. OwnerInv'
    <3>1. \A b \in Addrs : heap'[b] # Free <=> InTimers(b)' \/ InBatch(b)' \/ InQueue(b)'
      BY <1>3, <2>1, <2>2 DEF TimerInv, QueueInv, OwnerInv
    <3>2. \A b \in Addrs : /\ InTimers(b)' => ~InBatch(b)' /\ ~InQueue(b)'
                           /\ InBatch(b)' => ~InQueue(b)'
      BY <1>3, <2>2 DEF TimerInv, QueueInv, OwnerInv
    <3> QED BY <1>4, <1>5, <3>1, <3>2 DEF OwnerInv
  <2>4. SetsAgree'
    BY <2>1 DEF TimerInv, QueueInv, SetsAgree, ActiveOf
  <2>5. IdInv'
    BY <1>10, <2>1
  <2>6. RanInv' /\ NoTimerLost'
    BY <1>1, <2>1 DEF TimerInv, QueueInv, RanInv, NoTimerLost, Live
  <2>7. CancelInv'
    <3> SUFFICES ASSUME NEW b \in Addrs, heap[b] # Free, ActiveOf(b) \in asked'
                 PROVE  \/ ActiveOf(b) \in missed'
                        \/ Contains(pendingFunctors_', [cancel |-> ActiveOf(b)])
                        \/ InBatch(b) /\ ActiveOf(b) \in cancelingTimers_'
      BY <1>3, <2>1, <2>2 DEF CancelInv
    <3>1. CASE ActiveOf(b) = id
      <4>1. ActiveOf(b) = id /\ b = c
        BY <1>6, <3>1
      <4>2. ~InTimers(b)
        BY <1>12, <4>1, Activated DEF TimerInv, QueueInv
      <4>3. InBatch(b) \/ InQueue(b)
        BY <4>2 DEF TimerInv, QueueInv, OwnerInv
      <4>4. CASE InBatch(b)
        <5>1. expired # << >>
          BY <4>4 DEF InBatch
        <5> QED BY <2>1, <4>1, <4>4, <5>1
      <4>5. CASE InQueue(b)
        <5>1. pendingFunctors_ \in Seq(Functors)
          BY DEF TimerInv, Types
        <5>2. [add |-> c] \in ToSet(pendingFunctors_)
          BY <4>1, <4>5, <5>1, SetOf DEF InQueue
        <5>3. Live(id) /\ [add |-> id[1]] \in ToSet(pendingFunctors_)
          BY <1>2, <4>1, <5>2 DEF c, Live, ActiveOf
        <5>4. missed' = missed \cup {id}
          BY <5>3 DEF cancelInLoop, Missed
        <5> QED BY <3>1, <5>4
      <4> QED BY <4>3, <4>4, <4>5
    <3>2. CASE ActiveOf(b) # id
      <4>1. ActiveOf(b) # id
        BY <3>2
      <4>2. [cancel |-> ActiveOf(b)] # [cancel |-> id]
        BY <1>7, <4>1
      <4>3. ActiveOf(b) \in asked
        BY <3>2
      <4> QED BY <1>8, <2>1, <3>2, <4>2, <4>3 DEF TimerInv, QueueInv, CancelInv
    <3> QED BY <3>1, <3>2
  <2> QED BY <1>9, <2>3, <2>4, <2>5, <2>6, <2>7 DEF QueueInv
<1> QED BY <1>11, <1>12

LEMMA CancelStep ==
  ASSUME TimerInv, Running, NEW id \in ids \cup misread, cancel(id) PROVE QueueInv'
<1>1. /\ id \in (ids \ adding) \cup misread /\ asked' = asked \cup ({id} \cap ids)
      /\ UNCHANGED <<s_numCreated_, batch, ids, adding, misread, ran>>
      /\ UNCHANGED <<expired, called, active, destroyed>>
  BY DEF cancel, batch, handed, Running
<1>2. pendingFunctors_ \in Seq(Functors) /\ id \in ActiveTimer
  BY DEF TimerInv, Types
<1>3. /\ asked \subseteq asked' /\ asked' \subseteq asked \cup {id} /\ asked' \subseteq ids
      /\ id \in asked' \cup misread /\ adding \cap asked' \subseteq misread
  BY <1>1 DEF TimerInv, QueueInv, IdInv
<1>4. CASE InLoopThread /\ cancelInLoop(id) /\ UNCHANGED pendingFunctors_
  <2>1. expired # << >> => callingExpiredTimer_
    BY <1>4 DEF InLoopThread, Idle
  <2> QED BY <1>1, <1>2, <1>3, <1>4, <2>1, CancelInLoopStep
<1>5. CASE /\ pendingFunctors_' = Append(pendingFunctors_, [cancel |-> id])
           /\ UNCHANGED <<heap, queue, missed>>
  <2>1. [cancel |-> id] \in Functors /\ \A b \in Addrs : [add |-> b] # [cancel |-> id]
    BY <1>2, FunctorFacts
  <2>2. /\ \A y : Contains(pendingFunctors_', y) <=> Contains(pendingFunctors_, y) \/ [cancel |-> id] = y
        /\ \A g : Once(pendingFunctors_, g) /\ ([cancel |-> id] = g => ~Contains(pendingFunctors_, g))
                    => Once(pendingFunctors_', g)
        /\ \A i \in 1..Len(pendingFunctors_') :
             pendingFunctors_'[i] = [cancel |-> id] \/ Contains(pendingFunctors_, pendingFunctors_'[i])
    BY <1>2, <1>5, <2>1, AppendFacts
  <2>3. /\ UNCHANGED <<timers_, activeTimers_, cancelingTimers_, callingExpiredTimer_, heap, missed>>
    BY <1>5 DEF queue
  <2>4. \A b \in Addrs : /\ InTimers(b)' <=> InTimers(b)
                         /\ InBatch(b)' <=> InBatch(b)
    BY <1>1, <2>3 DEF InTimers, InBatch
  <2>5. \A b \in Addrs : /\ InQueue(b)' <=> InQueue(b)
                         /\ Once(pendingFunctors_', [add |-> b])
    <3> SUFFICES ASSUME NEW b \in Addrs
                 PROVE  /\ Contains(pendingFunctors_', [add |-> b]) <=> Contains(pendingFunctors_, [add |-> b])
                        /\ Once(pendingFunctors_', [add |-> b])
      BY DEF InQueue
    <3>1. Once(pendingFunctors_, [add |-> b])
      BY DEF TimerInv, QueueInv, OwnerInv
    <3> QED BY <2>1, <2>2, <3>1
  <2>6. OwnerInv'
    <3>1. \A b \in Addrs : heap'[b] # Free <=> InTimers(b)' \/ InBatch(b)' \/ InQueue(b)'
      BY <2>3, <2>4, <2>5 DEF TimerInv, QueueInv, OwnerInv
    <3>2. \A b \in Addrs : /\ InTimers(b)' => ~InBatch(b)' /\ ~InQueue(b)'
                           /\ InBatch(b)' => ~InQueue(b)'
      BY <2>4, <2>5 DEF TimerInv, QueueInv, OwnerInv
    <3>3. \A j, k \in 1..Len(expired') : expired'[j][2] = expired'[k][2] => j = k
      BY <1>1 DEF TimerInv, QueueInv, OwnerInv
    <3> QED BY <2>5, <3>1, <3>2, <3>3 DEF OwnerInv
  <2>7. SetsAgree'
    BY <2>3 DEF TimerInv, QueueInv, SetsAgree, ActiveOf
  <2>8. IdInv'
    <3>1. ASSUME NEW i \in 1..Len(pendingFunctors_'), pendingFunctors_'[i] \in [cancel : ActiveTimer]
          PROVE  pendingFunctors_'[i].cancel \in asked' \cup misread
      <4>1. CASE pendingFunctors_'[i] = [cancel |-> id]
        BY <1>3, <4>1
      <4>2. CASE Contains(pendingFunctors_, pendingFunctors_'[i])
        <5>1. PICK j \in 1..Len(pendingFunctors_) : pendingFunctors_[j] = pendingFunctors_'[i]
          BY <4>2 DEF Contains
        <5> QED BY <1>3, <3>1, <5>1 DEF TimerInv, QueueInv, IdInv
      <4> QED BY <2>2, <4>1, <4>2
    <3>2. \A b \in Addrs : heap'[b] # Free => ActiveOf(b)' \in ids'
      BY <1>1, <2>3 DEF TimerInv, QueueInv, IdInv, ActiveOf
    <3>3. asked' \subseteq ids' /\ adding' \cap asked' \subseteq misread'
      BY <1>1, <1>3
    <3> QED BY <1>1, <3>1, <3>2, <3>3 DEF TimerInv, QueueInv, IdInv
  <2>9. RanInv' /\ NoTimerLost' /\ PhaseInv'
    BY <1>1, <2>3 DEF TimerInv, QueueInv, RanInv, NoTimerLost, Live, PhaseInv, Idle
  <2>10. CancelInv'
    <3> SUFFICES ASSUME NEW b \in Addrs, heap[b] # Free, ActiveOf(b) \in asked'
                 PROVE  \/ ActiveOf(b) \in missed
                        \/ Contains(pendingFunctors_', [cancel |-> ActiveOf(b)])
                        \/ InBatch(b) /\ ActiveOf(b) \in cancelingTimers_
      BY <2>3, <2>4 DEF CancelInv, ActiveOf
    <3>1. CASE ActiveOf(b) = id
      BY <2>2, <3>1
    <3>2. CASE ActiveOf(b) # id
      <4>1. ActiveOf(b) \in asked
        BY <1>1, <3>2
      <4> QED BY <2>2, <4>1 DEF TimerInv, QueueInv, CancelInv
    <3> QED BY <3>1, <3>2
  <2> QED BY <2>6, <2>7, <2>8, <2>9, <2>10 DEF QueueInv
<1> QED BY <1>4, <1>5 DEF cancel

LEMMA FunctorStep == ASSUME TimerInv, Running, runFunctor PROVE QueueInv'
<1>1. /\ Idle /\ pendingFunctors_ # << >> /\ pendingFunctors_' = Tail(pendingFunctors_)
      /\ UNCHANGED <<s_numCreated_, batch, ids, adding, misread, asked, ran>>
  BY DEF runFunctor, handed
<1>2. pendingFunctors_ \in Seq(Functors)
  BY DEF TimerInv, Types
<1> DEFINE f == Head(pendingFunctors_)
<1>3. CASE "add" \in DOMAIN f /\ addTimerInLoop(f.add, heap[f.add]) /\ UNCHANGED <<heap, missed>>
  <2>1. PICK a \in Addrs : a = f.add /\ f = [add |-> a]
    BY <1>1, <1>3, FunctorHead DEF TimerInv, QueueInv
  <2>2. addTimerInLoop(a, heap[a])
    BY <1>3, <2>1
  <2> QED BY <1>1, <1>3, <2>1, <2>2, FunctorAddStep
<1>4. CASE "cancel" \in DOMAIN f /\ cancelInLoop(f.cancel)
  <2>1. PICK id \in ActiveTimer : id = f.cancel /\ f = [cancel |-> id]
    BY <1>1, <1>4, FunctorHead DEF TimerInv, QueueInv
  <2>2. f = pendingFunctors_[1] /\ 1 \in 1..Len(pendingFunctors_)
    BY <1>1, <1>2, TailFacts
  <2>3. f \in [cancel : ActiveTimer]
    BY <2>1
  <2>4. id \in asked \cup misread
    BY <2>1, <2>2, <2>3 DEF TimerInv, QueueInv, IdInv
  <2>5. /\ asked \subseteq asked' /\ asked' \subseteq asked \cup {id} /\ asked' \subseteq ids
        /\ id \in asked' \cup misread /\ adding \cap asked' \subseteq misread
        /\ expired # << >> => callingExpiredTimer_
    BY <1>1, <2>4 DEF Idle, TimerInv, QueueInv, IdInv
  <2>6. \A y : Contains(pendingFunctors_, y) <=> Contains(pendingFunctors_', y) \/ f = y
    BY <1>1, <1>2, TailFacts
  <2>7. \A g : Once(pendingFunctors_, g) => Once(pendingFunctors_', g)
    BY <1>1, <1>2, TailFacts
  <2>8. cancelInLoop(id)
    BY <1>4, <2>1
  <2> HIDE DEF f
  <2>9. /\ \A y : Contains(pendingFunctors_', y) => Contains(pendingFunctors_, y)
        /\ \A y : Contains(pendingFunctors_, y) /\ y # [cancel |-> id] => Contains(pendingFunctors_', y)
    BY <2>1, <2>6
  <2>10. UNCHANGED <<s_numCreated_, batch, ids, adding, misread, ran>>
    BY <1>1
  <2> QED BY <2>5, <2>7, <2>8, <2>9, <2>10, CancelInLoopStep
<1> QED BY <1>3, <1>4 DEF runFunctor

LEMMA ResetStep == ASSUME TimerInv, Running, reset PROVE QueueInv'
<1>1. /\ ~callingExpiredTimer_ /\ expired # << >> /\ expired' = Tail(expired)
      /\ UNCHANGED <<s_numCreated_, cancelingTimers_, callingExpiredTimer_, pendingFunctors_>>
      /\ UNCHANGED <<active, called, ids, adding, misread, asked, missed, ran, destroyed>>
  BY DEF reset, hist, handed, Running
<1>2. PICK a \in Addrs : a = Head(expired)[2]
  BY <1>1, OwnedFacts DEF TimerInv, QueueInv
<1>3. expired \in Seq(Entry)
  BY DEF TimerInv, Types
<1>4. /\ heap[a] # Free /\ InBatch(a) /\ ~InTimers(a) /\ ~InQueue(a)
      /\ Head(expired) = expired[1] /\ 1 \in 1..Len(expired)
  BY <1>1, <1>2, OwnedFacts DEF TimerInv, QueueInv, OwnerInv
<1>5. /\ \A i \in 1..Len(expired') : i + 1 \in 1..Len(expired) /\ expired'[i] = expired[i + 1]
      /\ \A i \in 1..Len(expired) : i = 1 \/ (i - 1 \in 1..Len(expired') /\ expired'[i - 1] = expired[i])
  BY <1>1, <1>3, TailFacts
<1>6. \A i \in 1..Len(expired) : i # 1 => expired[i][2] # a
  BY <1>2, <1>4 DEF TimerInv, QueueInv, OwnerInv
<1>7. \A b \in Addrs : InBatch(b)' <=> InBatch(b) /\ b # a
  <2> SUFFICES ASSUME NEW b \in Addrs PROVE InBatch(b)' <=> InBatch(b) /\ b # a
    OBVIOUS
  <2>1. ASSUME InBatch(b)' PROVE InBatch(b) /\ b # a
    <3>1. PICK i \in 1..Len(expired') : expired'[i][2] = b
      BY <2>1 DEF InBatch
    <3>2. i + 1 \in 1..Len(expired) /\ expired[i + 1][2] = b /\ i + 1 # 1
      BY <1>5, <3>1
    <3> QED BY <1>6, <3>2 DEF InBatch
  <2>2. ASSUME InBatch(b), b # a PROVE InBatch(b)'
    <3>1. PICK i \in 1..Len(expired) : expired[i][2] = b
      BY <2>2 DEF InBatch
    <3>2. i # 1
      BY <1>2, <1>4, <2>2, <3>1
    <3> QED BY <1>5, <3>1, <3>2 DEF InBatch
  <2> QED BY <2>1, <2>2
<1>8. \A j, k \in 1..Len(expired') : expired'[j][2] = expired'[k][2] => j = k
  <2> SUFFICES ASSUME NEW j \in 1..Len(expired'), NEW k \in 1..Len(expired'),
                      expired'[j][2] = expired'[k][2]
               PROVE  j = k
    OBVIOUS
  <2>1. j + 1 = k + 1
    BY <1>5 DEF TimerInv, QueueInv, OwnerInv
  <2> QED BY <2>1
<1>9. \A b \in Addrs : (InQueue(b)' <=> InQueue(b)) /\ Once(pendingFunctors_', [add |-> b])
  BY <1>1 DEF InQueue, TimerInv, QueueInv, OwnerInv
<1>10. PhaseInv'
  <2>1. ~active
    BY <1>1 DEF TimerInv, QueueInv, PhaseInv, Idle
  <2> QED BY <1>1, <2>1 DEF TimerInv, QueueInv, PhaseInv
<1>11. heap[a].sequence_ \in ran
  BY <1>1, <1>2, <1>4 DEF TimerInv, QueueInv, RanInv
<1>12. ASSUME \A b \in Addrs : b # a => heap'[b] = heap[b] PROVE RanInv'
  <2> SUFFICES ASSUME NEW i \in 1..Len(expired') PROVE heap'[expired'[i][2]].sequence_ \in ran
    BY <1>1 DEF RanInv
  <2>1. i + 1 \in 1..Len(expired) /\ i + 1 # 1 /\ expired'[i] = expired[i + 1]
    BY <1>5
  <2>2. expired[i + 1][2] \in Addrs /\ expired[i + 1][2] # a
    BY <1>6, <2>1, OwnedFacts DEF TimerInv, QueueInv
  <2> QED BY <1>1, <1>12, <2>1, <2>2 DEF TimerInv, QueueInv, RanInv
<1>13. ASSUME \A b \in Addrs : b # a => heap'[b] = heap[b],
              heap'[a] # Free => heap'[a].sequence_ = heap[a].sequence_
       PROVE  IdInv' /\ NoTimerLost'
  <2>1. \A b \in Addrs : heap'[b] # Free => heap[b] # Free /\ ActiveOf(b)' = ActiveOf(b)
    BY <1>4, <1>13 DEF ActiveOf
  <2>2. IdInv'
    BY <1>1, <2>1 DEF TimerInv, QueueInv, IdInv
  <2>3. NoTimerLost'
    <3> SUFFICES ASSUME NEW x \in ids, ~(x[2] \in ran), ~(x \in asked \cup misread), ~destroyed
                 PROVE  heap'[x[1]] # Free /\ heap'[x[1]].sequence_ = x[2]
      BY <1>1 DEF NoTimerLost, Live
    <3>1. heap[x[1]] # Free /\ heap[x[1]].sequence_ = x[2] /\ x[1] \in Addrs
      BY ActiveFacts DEF TimerInv, QueueInv, NoTimerLost, Live, Types
    <3>2. x[1] # a
      BY <1>11, <3>1
    <3> QED BY <1>13, <3>1, <3>2
  <2> QED BY <2>2, <2>3
<1>14. CASE Keeps(a)
  <2>1. PICK t \in Timer : t = restart(a)
    BY <1>4, RestartType DEF TimerInv
  <2>2. t # Free /\ t.sequence_ = heap[a].sequence_
    BY <1>4, <2>1, RestartType DEF TimerInv
  <2>3. heap' = [heap EXCEPT ![a] = t] /\ insert(t.expiration_, a, t.sequence_)
    BY <1>2, <1>14, <2>1, <2>2 DEF reset
  <2>4. heap'[a] = t /\ \A b \in Addrs : b # a => heap'[b] = heap[b]
    BY <2>3 DEF TimerInv, Types
  <2>5. SetsAgree' /\ \A b \in Addrs : InTimers(b)' <=> InTimers(b) \/ b = a
    BY <1>4, <2>3, <2>4, InsertAgrees DEF TimerInv, QueueInv
  <2>6. OwnerInv'
    <3>1. \A b \in Addrs : heap'[b] # Free <=> InTimers(b)' \/ InBatch(b)' \/ InQueue(b)'
      BY <1>4, <1>7, <1>9, <2>2, <2>4, <2>5 DEF TimerInv, QueueInv, OwnerInv
    <3>2. \A b \in Addrs : /\ InTimers(b)' => ~InBatch(b)' /\ ~InQueue(b)'
                           /\ InBatch(b)' => ~InQueue(b)'
      BY <1>4, <1>7, <1>9, <2>5 DEF TimerInv, QueueInv, OwnerInv
    <3> QED BY <1>8, <1>9, <3>1, <3>2 DEF OwnerInv
  <2>7. RanInv' /\ IdInv' /\ NoTimerLost'
    BY <1>12, <1>13, <2>2, <2>4
  <2>8. CancelInv'
    <3> SUFFICES ASSUME NEW b \in Addrs, heap'[b] # Free, ActiveOf(b)' \in asked
                 PROVE  \/ ActiveOf(b)' \in missed
                        \/ Contains(pendingFunctors_, [cancel |-> ActiveOf(b)'])
                        \/ InBatch(b)' /\ ActiveOf(b)' \in cancelingTimers_
      BY <1>1 DEF CancelInv
    <3>1. heap'[b].sequence_ = heap[b].sequence_ /\ ActiveOf(b)' = ActiveOf(b) /\ heap[b] # Free
      BY <1>4, <2>2, <2>4 DEF ActiveOf
    <3>2. b = a => ActiveOf(b) \notin cancelingTimers_
      BY <1>14 DEF Keeps
    <3> QED BY <1>7, <3>1, <3>2 DEF TimerInv, QueueInv, CancelInv
  <2> QED BY <1>10, <2>5, <2>6, <2>7, <2>8 DEF QueueInv
<1>15. CASE ~Keeps(a)
  <2>1. heap' = [heap EXCEPT ![a] = Free] /\ UNCHANGED <<timers_, activeTimers_>>
    BY <1>2, <1>15 DEF reset
  <2>2. heap'[a] = Free /\ \A b \in Addrs : b # a => heap'[b] = heap[b]
    BY <2>1 DEF TimerInv, Types
  <2>3. \A b \in Addrs : InTimers(b)' <=> InTimers(b)
    BY <2>1 DEF InTimers
  <2>4. OwnerInv'
    <3>1. \A b \in Addrs : heap'[b] # Free <=> InTimers(b)' \/ InBatch(b)' \/ InQueue(b)'
      BY <1>4, <1>7, <1>9, <2>2, <2>3 DEF TimerInv, QueueInv, OwnerInv
    <3>2. \A b \in Addrs : /\ InTimers(b)' => ~InBatch(b)' /\ ~InQueue(b)'
                           /\ InBatch(b)' => ~InQueue(b)'
      BY <1>7, <1>9, <2>3 DEF TimerInv, QueueInv, OwnerInv
    <3> QED BY <1>8, <1>9, <3>1, <3>2 DEF OwnerInv
  <2>5. SetsAgree'
    <3>1. \A e \in timers_ : e[2] \in Addrs /\ e[2] # a
      BY <1>4, EntryFacts DEF InTimers, TimerInv, Types
    <3>2. \A e \in timers_ : heap'[e[2]] = heap[e[2]]
      BY <2>2, <3>1
    <3> QED BY <2>1, <3>2 DEF TimerInv, QueueInv, SetsAgree, ActiveOf
  <2>6. RanInv' /\ IdInv' /\ NoTimerLost'
    BY <1>12, <1>13, <2>2
  <2>7. CancelInv'
    <3> SUFFICES ASSUME NEW b \in Addrs, heap'[b] # Free, ActiveOf(b)' \in asked
                 PROVE  \/ ActiveOf(b)' \in missed
                        \/ Contains(pendingFunctors_, [cancel |-> ActiveOf(b)'])
                        \/ InBatch(b)' /\ ActiveOf(b)' \in cancelingTimers_
      BY <1>1 DEF CancelInv
    <3>1. b # a /\ heap'[b] = heap[b] /\ ActiveOf(b)' = ActiveOf(b)
      BY <2>2 DEF ActiveOf
    <3> QED BY <1>7, <3>1 DEF TimerInv, QueueInv, CancelInv
  <2> QED BY <1>10, <2>4, <2>5, <2>6, <2>7 DEF QueueInv
<1> QED BY <1>14, <1>15

-----------------------------------------------------------------------------
(* The theorems of the queue's two sets and its timers.                    *)

LEMMA TimerInit == Init => TimerInv
<1> SUFFICES ASSUME Init PROVE TimerInv
  OBVIOUS
<1>1. Types
  <2>1. IsFiniteSet({})
    BY FS_EmptySet
  <2>2. << >> \in Seq(Functors) /\ << >> \in Seq(Entry)
    OBVIOUS
  <2>3. called \in 0..Len(expired)
    BY DEF Init
  <2>4. heap \in [Addrs -> Timer \cup {Free}]
    BY DEF Init
  <2>5. now \in Nat /\ timerfd_ \in Nat /\ s_numCreated_ \in Nat /\ readTime \in Nat
    BY TimerQueueAssumption DEF Init, TimerQueueAssumption
  <2> QED BY <2>1, <2>2, <2>3, <2>4, <2>5 DEF Init, Types
<1>2. OwnerInv
  BY DEF Init, OwnerInv, InTimers, InBatch, InQueue, Contains, Once
<1>3. PhaseInv /\ SetsAgree /\ IdInv /\ RanInv /\ CancelInv /\ NoTimerLost
  BY DEF Init, PhaseInv, SetsAgree, IdInv, RanInv, CancelInv, NoTimerLost
<1> QED BY <1>1, <1>2, <1>3 DEF TimerInv, QueueInv

LEMMA TimerStep == TimerInv /\ [Next]_vars => TimerInv'
<1> SUFFICES ASSUME TimerInv, [Next]_vars PROVE TimerInv'
  OBVIOUS
<1>1. Types'
  BY TypesStep DEF TimerInv, QueueInv
<1>2. QueueInv'
  <2>1. CASE destroy
    BY <2>1, DestroyStep
  <2>2. CASE Running /\ LoopStep
    <3>1. CASE runFunctor \/ poll
      BY <2>2, <3>1, FunctorStep, QuietStep
    <3>2. CASE handleRead \/ run
      BY <2>2, <3>2, HandleReadStep, RunStep
    <3>3. CASE calledAll \/ reset
      BY <2>2, <3>3, CalledStep, ResetStep
    <3> QED BY <2>2, <3>1, <3>2, <3>3 DEF LoopStep
  <2>3. CASE Running /\ (tick \/ AddStep \/ \E id \in ids \cup misread : cancel(id))
    BY <2>3, QuietStep, AddTimerStep, CancelStep
  <2>4. CASE UNCHANGED vars
    BY <2>4, QuietStep
  <2>5. CASE UNCHANGED destroyed /\ \E id \in adding : addReturns(id)
    BY <2>5, ReturnStep
  <2> QED BY <2>1, <2>2, <2>3, <2>4, <2>5 DEF Next
<1> QED BY <1>1, <1>2 DEF TimerInv

(* TimerInv is inductive.                                                  *)
THEOREM TimerSafe == Spec => []TimerInv
<1>1. Init => TimerInv
  BY TimerInit
<1>2. TimerInv /\ [Next]_vars => TimerInv'
  BY TimerStep
<1> QED BY <1>1, <1>2, PTL DEF Spec

(* The state stays in its types.                                           *)
THEOREM TypeSafe == Spec => []TypeOK
<1>1. TimerInv => TypeOK
  <2> SUFFICES ASSUME TimerInv PROVE TypeOK
    OBVIOUS
  <2>1. \A a \in Addrs : heap[a] = Free \/ heap[a] \in Timer
    BY DEF TimerInv, Types
  <2>2. \A f \in ToSet(pendingFunctors_) : f \in [add : Addrs] \/ f \in [cancel : ActiveTimer]
    BY DEF TimerInv, Types, Functors, ToSet
  <2>3. ToSet(expired) \subseteq Entry
    BY DEF TimerInv, Types, ToSet
  <2> QED BY <2>1, <2>2, <2>3 DEF TimerInv, Types, TypeOK
<1> QED BY <1>1, TimerSafe, PTL

(* timers_ and activeTimers_ hold the same timers, each under the          *)
(* expiration that cancelInLoop looks for (TimerQueue.cc:103).             *)
THEOREM SetsSafe == Spec => []SetsAgree
<1>1. TimerInv => SetsAgree
  BY DEF TimerInv, QueueInv
<1> QED BY <1>1, TimerSafe, PTL

(* A timer stays until it has run, unless it was asked to be cancelled or  *)
(* the queue was destroyed: a stale TimerId removes no other timer, one    *)
(* that addTimer misread may.                                              *)
THEOREM LostSafe == Spec => []NoTimerLost
<1>1. TimerInv => NoTimerLost
  BY DEF TimerInv, QueueInv
<1> QED BY <1>1, TimerSafe, PTL

(* A cancel is final, except that of a timer which the loop thread does    *)
(* not know yet.                                                           *)
THEOREM CancelSafe == Spec => []CancelHolds
<1>1. TimerInv => CancelHolds
  <2> SUFFICES ASSUME TimerInv, Idle, NEW e \in timers_, ActiveOf(e[2]) \in asked
               PROVE  \/ ActiveOf(e[2]) \in missed
                      \/ [cancel |-> ActiveOf(e[2])] \in ToSet(pendingFunctors_)
    BY DEF CancelHolds, ActiveOf
  <2>1. e[2] \in Addrs /\ heap[e[2]] # Free
    BY EntryFacts DEF TimerInv, QueueInv, Types, SetsAgree
  <2>2. ~InBatch(e[2])
    BY DEF Idle, InBatch
  <2>3. \/ ActiveOf(e[2]) \in missed
        \/ Contains(pendingFunctors_, [cancel |-> ActiveOf(e[2])])
    BY <2>1, <2>2 DEF TimerInv, QueueInv, CancelInv
  <2>4. pendingFunctors_ \in Seq(Functors)
    BY DEF TimerInv, Types
  <2> QED BY <2>3, <2>4, SetOf
<1> QED BY <1>1, TimerSafe, PTL

(* Each Timer object has one owner as long as it lives and none after, so  *)
(* it is deleted once.  addTimer's read of the sequence on another thread, *)
(* which owns nothing any more, finds its timer alive unless the timer has *)
(* run, was named by a misread TimerId, or went with the queue.            *)
THEOREM OwnedSafe == Spec => []OwnedOnce
<1>1. ASSUME TimerInv, NEW id \in adding
      PROVE  Live(id) \/ id[2] \in ran \/ id \in misread \/ destroyed
  <2>1. id \in ids
    BY <1>1 DEF TimerInv, Types
  <2>2. Live(id) \/ id[2] \in ran \/ id \in asked \cup misread \/ destroyed
    BY <1>1, <2>1 DEF TimerInv, QueueInv, NoTimerLost
  <2>3. id \in asked => id \in misread
    BY <1>1 DEF TimerInv, QueueInv, IdInv
  <2> QED BY <2>2, <2>3
<1>2. TimerInv => OwnedOnce
  <2> SUFFICES ASSUME TimerInv, NEW a \in Addrs
               PROVE  Cardinality({<<"timers", e>> : e \in {x \in timers_ : x[2] = a}}
                         \cup {<<"batch", i>> : i \in {j \in DOMAIN expired : expired[j][2] = a}}
                         \cup {<<"queued", i>> : i \in {j \in DOMAIN pendingFunctors_ :
                                                          pendingFunctors_[j] = [add |-> a]}})
                        = IF heap[a] = Free THEN 0 ELSE 1
    BY <1>1 DEF OwnedOnce
  <2> DEFINE A == {x \in timers_ : x[2] = a}
             B == {j \in DOMAIN expired : expired[j][2] = a}
             C == {j \in DOMAIN pendingFunctors_ : pendingFunctors_[j] = [add |-> a]}
             owners == {<<"timers", e>> : e \in A} \cup {<<"batch", i>> : i \in B}
                         \cup {<<"queued", i>> : i \in C}
  <2>1. DOMAIN expired = 1..Len(expired) /\ DOMAIN pendingFunctors_ = 1..Len(pendingFunctors_)
    BY DEF TimerInv, Types
  <2>2. (A # {} <=> InTimers(a)) /\ (B # {} <=> InBatch(a)) /\ (C # {} <=> InQueue(a))
    BY <2>1 DEF InTimers, InBatch, InQueue, Contains
  <2>3. \A x, y \in A : x = y
    BY TimersUnique DEF TimerInv, QueueInv
  <2>4. \A x, y \in B : x = y
    BY <2>1 DEF TimerInv, QueueInv, OwnerInv
  <2>5. \A x, y \in C : x = y
    BY <2>1 DEF TimerInv, QueueInv, OwnerInv, Once
  <2>6. /\ heap[a] # Free <=> InTimers(a) \/ InBatch(a) \/ InQueue(a)
        /\ InTimers(a) => ~InBatch(a) /\ ~InQueue(a)
        /\ InBatch(a) => ~InQueue(a)
    BY DEF TimerInv, QueueInv, OwnerInv
  <2> HIDE DEF A, B, C
  <2>7. CASE heap[a] = Free
    <3>1. owners = {}
      BY <2>2, <2>6, <2>7
    <3> QED BY <2>7, <3>1, FS_EmptySet DEF A, B, C
  <2>8. CASE heap[a] # Free
    <3>1. \E z : owners = {z}
      <4>1. CASE A # {}
        <5>1. PICK x \in A : A = {x}
          BY <2>3, <4>1
        <5>2. owners = {<<"timers", x>>}
          BY <2>2, <2>6, <4>1, <5>1
        <5> QED BY <5>2
      <4>2. CASE B # {}
        <5>1. PICK x \in B : B = {x}
          BY <2>4, <4>2
        <5>2. owners = {<<"batch", x>>}
          BY <2>2, <2>6, <4>2, <5>1
        <5> QED BY <5>2
      <4>3. CASE C # {}
        <5>1. PICK x \in C : C = {x}
          BY <2>5, <4>3
        <5>2. owners = {<<"queued", x>>}
          BY <2>2, <2>6, <4>3, <5>1
        <5> QED BY <5>2
      <4> QED BY <2>2, <2>6, <2>8, <4>1, <4>2, <4>3
    <3>2. PICK z : owners = {z}
      BY <3>1
    <3>3. Cardinality(owners) = 1
      BY <3>2, FS_Singleton
    <3> QED BY <2>8, <3>3 DEF A, B, C
  <2> QED BY <2>7, <2>8
<1> QED BY <1>2, TimerSafe, PTL

-----------------------------------------------------------------------------
(* Time.  A time is its time stamp plus its window, a multiple of the      *)
(* range of the stamps.                                                    *)
Half == 2^(W - 1)

LEMMA StampWindow ==
  ASSUME NEW t \in Int
  PROVE  /\ Half \in Nat /\ Half > 0 /\ Window(t) \in Int /\ TimeStamp(t) \in Int
         /\ t = 2^W * Window(t) + TimeStamp(t) /\ 2^W * Window(t) \in Int
         /\ -Half <= TimeStamp(t) /\ TimeStamp(t) < Half
<1> DEFINE m == 2^W
           u == t + Half
           q == u \div m
           k == u % m
<1>1. Half \in Nat /\ Half > 0 /\ m = 2 * Half /\ 2^(W - 1) = Half
  BY WidthAssumption DEF WidthAssumption, Half
<1> HIDE DEF m
<1>2. m \in Nat /\ m > 0 /\ u \in Int
  BY <1>1
<1> HIDE DEF u
<1>3. q \in Int /\ k \in 0..(m - 1) /\ u = m * q + k
  BY <1>2
<1>4. Window(t) = q /\ TimeStamp(t) = k - Half
  BY <1>1 DEF Window, TimeStamp, m, u
<1> HIDE DEF q, k
<1>5. m * q \in Int
  BY <1>2, <1>3
<1>6. t = m * q + (k - Half) /\ -Half <= k - Half /\ k - Half < Half /\ k - Half \in Int
  <2>1. PICK p \in Int : p = m * q
    BY <1>5
  <2>2. u = p + k /\ u = t + Half /\ k \in Int /\ 0 <= k /\ k <= m - 1
    BY <1>2, <1>3, <2>1 DEF u
  <2> QED BY <1>1, <1>2, <2>1, <2>2
<1> QED BY <1>1, <1>3, <1>4, <1>5, <1>6 DEF m

(* Within one window the stamps are as far apart as the times.             *)
LEMMA SameWindow ==
  ASSUME NEW s \in Int, NEW t \in Int, Window(s) = Window(t)
  PROVE  t - s = TimeStamp(t) - TimeStamp(s)
<1>1. PICK p \in Int : p = 2^W * Window(s)
  BY StampWindow
<1>2. /\ s = p + TimeStamp(s) /\ TimeStamp(s) \in Int
      /\ t = p + TimeStamp(t) /\ TimeStamp(t) \in Int
  BY <1>1, StampWindow
<1> QED BY <1>1, <1>2

(* The difference of two stamps, brought back into their range.            *)
LEMMA StampExact ==
  ASSUME NEW x \in Int, -Half <= x, x < 2 * Half
  PROVE  IF x < Half THEN TimeStamp(x) = x ELSE TimeStamp(x) < 0
<1>1. Half \in Nat /\ Half > 0 /\ 2^W = 2 * Half /\ 2^(W - 1) = Half
  BY WidthAssumption DEF WidthAssumption, Half
<1>2. TimeStamp(x) = ((x + Half) % (2 * Half)) - Half
  BY <1>1 DEF TimeStamp
<1> HIDE DEF Half
<1>3. CASE x < Half
  <2>1. (x + Half) % (2 * Half) = x + Half
    BY <1>1, <1>3
  <2> QED BY <1>1, <1>2, <1>3, <2>1
<1>4. CASE ~(x < Half)
  <2>1. (x + Half) % (2 * Half) = x - Half
    BY <1>1, <1>4
  <2>2. (x + Half) % (2 * Half) < Half
    BY <1>1, <2>1
  <2>3. TimeStamp(x) < 0
    BY <1>1, <1>2, <2>1
  <2> QED BY <1>4, <2>3
<1> QED BY <1>3, <1>4

(* What howMuchTimeFromNow computes for a timer that can be compared with  *)
(* the clock: the time it is due, or the next tick.                        *)
LEMMA DeadlineExact ==
  ASSUME Types, NEW due \in Nat, Comparable(due)
  PROVE  LET d == Deadline(TimeStamp(due)) IN d # 0 /\ (d <= now + 1 \/ d <= due)
<1>1. now \in Int /\ now >= 0 /\ due \in Int /\ Window(due) = Window(now) /\ now - due <= Half
  BY DEF Types, Comparable, Half
<1> DEFINE x == TimeStamp(due) - TimeStamp(now)
<1>2. x = due - now
  BY <1>1, SameWindow
<1>3. /\ Half \in Nat /\ TimeStamp(due) \in Int /\ TimeStamp(now) \in Int
      /\ TimeStamp(due) < Half /\ -Half <= TimeStamp(now)
  BY <1>1, StampWindow
<1>4. x \in Int /\ -Half <= x /\ x < 2 * Half
  <2>1. x \in Int /\ x < 2 * Half
    BY <1>3
  <2>2. due - now >= -Half
    BY <1>1, <1>3
  <2> QED BY <1>2, <2>1, <2>2
<1>5. Deadline(TimeStamp(due)) = now + IF TimeStamp(x) < 1 THEN 1 ELSE TimeStamp(x)
  BY DEF Deadline
<1> HIDE DEF x
<1>6. TimeStamp(x) \in Int
  BY <1>4, StampWindow
<1>7. TimeStamp(x) = x \/ TimeStamp(x) < 0
  BY <1>4, StampExact
<1>8. PICK d \in Int : d = Deadline(TimeStamp(due)) /\ d # 0 /\ (d <= now + 1 \/ d <= due)
  <2>1. PICK y \in Int : y = TimeStamp(x) /\ (y = due - now \/ y < 0)
    BY <1>2, <1>6, <1>7
  <2> QED BY <1>1, <1>5, <2>1
<1> QED BY <1>8

(* The expiration of a timer is the stamp of the time at which it is due,  *)
(* and that of a timer in the batch was not after the stamp of the clock.  *)
TimeInv ==
  /\ readTime <= now /\ early = FALSE
  /\ \A a \in Addrs : heap[a] # Free => heap[a].expiration_ = TimeStamp(heap[a].due)
  /\ \A i \in 1..Len(expired) : TimeStamp(heap[expired[i][2]].due) <= TimeStamp(readTime)

(* Steps that make no timer, move none into the batch and run none.        *)
LEMMA TimeKept ==
  ASSUME TimeInv, now' \in Nat, now <= now', UNCHANGED <<readTime, early>>, Types,
         \A a \in Addrs : heap'[a] # Free => heap'[a] = heap[a], OwnerInv, OwnerInv',
         UNCHANGED expired
  PROVE  TimeInv'
<1>1. \A i \in 1..Len(expired) : heap'[expired[i][2]] = heap[expired[i][2]]
  <2> SUFFICES ASSUME NEW i \in 1..Len(expired) PROVE heap'[expired[i][2]] = heap[expired[i][2]]
    OBVIOUS
  <2>1. PICK a \in Addrs : a = expired[i][2]
    BY OwnedFacts
  <2>2. InBatch(a)'
    BY <2>1 DEF InBatch
  <2>3. heap'[a] # Free
    BY <2>2 DEF OwnerInv
  <2> QED BY <2>1, <2>3
<1>2. readTime' <= now'
  BY DEF TimeInv, Types
<1>3. \A a \in Addrs : heap'[a] # Free => heap'[a].expiration_ = TimeStamp(heap'[a].due)
  BY DEF TimeInv
<1>4. \A i \in 1..Len(expired') :
        TimeStamp(heap'[expired'[i][2]].due) <= TimeStamp(readTime')
  BY <1>1 DEF TimeInv
<1> QED BY <1>2, <1>3, <1>4 DEF TimeInv

LEMMA TimeStep ==
  ASSUME TimerInv, TimerInv', TimeInv, [Next]_vars PROVE TimeInv'
<1> USE DEF queue, batch, hist
<1>1. /\ Types /\ OwnerInv /\ OwnerInv' /\ SetsAgree /\ now \in Nat /\ readTime \in Nat
      /\ readTime <= now
  BY DEF TimerInv, QueueInv, Types, TimeInv
<1>2. ASSUME NEW id \in ActiveTimer, cancelInLoop(id)
      PROVE  \A a \in Addrs : heap'[a] # Free => heap'[a] = heap[a]
  <2>1. id[1] \in Addrs
    BY ActiveFacts
  <2> QED BY <1>1, <1>2, <2>1 DEF cancelInLoop, Types
<1>3. CASE Running /\ tick
  <2>1. now' = now + 1 /\ UNCHANGED <<heap, expired, readTime, early>>
    BY <1>3 DEF tick
  <2>2. now <= now' /\ now' \in Nat
    BY <1>1, <2>1
  <2> QED BY <1>1, <2>1, <2>2, TimeKept
<1>4. CASE Running /\ runFunctor
  <2>1. UNCHANGED <<now, expired, readTime, early>> /\ now <= now' /\ pendingFunctors_ # << >>
    BY <1>1, <1>4 DEF runFunctor
  <2>2. \A a \in Addrs : heap'[a] # Free => heap'[a] = heap[a]
    <3>1. CASE UNCHANGED heap
      BY <3>1
    <3>2. CASE "cancel" \in DOMAIN Head(pendingFunctors_) /\ cancelInLoop(Head(pendingFunctors_).cancel)
      BY <1>1, <1>2, <2>1, <3>2, FunctorHead
    <3> QED BY <1>4, <3>1, <3>2 DEF runFunctor
  <2> QED BY <1>1, <2>1, <2>2, TimeKept
<1>5. CASE \/ (Running /\ poll) \/ (Running /\ calledAll) \/ UNCHANGED vars
           \/ \E id \in adding : addReturns(id)
  <2>1. UNCHANGED <<now, heap, expired, readTime, early>> /\ now <= now'
    BY <1>1, <1>5 DEF poll, calledAll, vars, addReturns
  <2> QED BY <1>1, <2>1, TimeKept
<1>6. CASE destroy
  <2>1. UNCHANGED <<now, expired, readTime, early>> /\ now <= now'
    BY <1>1, <1>6 DEF destroy
  <2>2. \A a \in Addrs : heap'[a] # Free => heap'[a] = heap[a]
    BY <1>6 DEF destroy
  <2> QED BY <1>1, <2>1, <2>2, TimeKept
<1>7. CASE Running /\ \E id \in ids \cup misread : cancel(id)
  <2>1. PICK id \in ActiveTimer : cancel(id)
    BY <1>1, <1>7 DEF Types
  <2>2. UNCHANGED <<now, expired, readTime, early>> /\ now <= now'
    BY <1>1, <2>1 DEF cancel
  <2>3. \A a \in Addrs : heap'[a] # Free => heap'[a] = heap[a]
    BY <1>2, <2>1 DEF cancel
  <2> QED BY <1>1, <2>2, <2>3, TimeKept
<1>8. CASE Running /\ handleRead
  <2>1. /\ UNCHANGED <<now, heap, early>> /\ readTime' = now /\ expired' \in Copies(Expired)
    BY <1>8 DEF handleRead
  <2>2. Expired \subseteq Entry /\ IsFiniteSet(Expired) /\ Expired \subseteq timers_
    BY <1>1, FS_Subset DEF Expired, Types
  <2>3. \A i \in 1..Len(expired') : expired'[i] \in Expired
    BY <2>1, <2>2, CopiesFacts
  <2>4. \A e \in Expired : TimeStamp(heap[e[2]].due) <= TimeStamp(now)
    <3> SUFFICES ASSUME NEW e \in Expired PROVE TimeStamp(heap[e[2]].due) <= TimeStamp(now)
      OBVIOUS
    <3>1. e[2] \in Addrs /\ heap[e[2]] # Free /\ heap[e[2]].expiration_ = e[1]
      BY <1>1, <2>2, EntryFacts DEF SetsAgree
    <3>2. TimeStamp(heap[e[2]].due) = e[1]
      BY <3>1 DEF TimeInv
    <3> QED BY <3>2 DEF Expired
  <2>5. readTime' <= now'
    BY <1>1, <2>1
  <2>6. \A a \in Addrs : heap'[a] # Free => heap'[a].expiration_ = TimeStamp(heap'[a].due)
    BY <2>1 DEF TimeInv
  <2>7. \A i \in 1..Len(expired') :
          TimeStamp(heap'[expired'[i][2]].due) <= TimeStamp(readTime')
    BY <2>1, <2>3, <2>4
  <2> QED BY <2>1, <2>5, <2>6, <2>7 DEF TimeInv
<1>9. CASE Running /\ run
  <2>1. /\ UNCHANGED <<now, heap, expired, readTime>> /\ called < Len(expired)
        /\ early' = \/ early
                    \/ /\ now < heap[expired[called + 1][2]].due
                       /\ Window(heap[expired[called + 1][2]].due) = Window(readTime)
    BY <1>9 DEF run
  <2>2. called + 1 \in 1..Len(expired)
    BY <1>1, <2>1 DEF Types
  <2>3. PICK a \in Addrs : a = expired[called + 1][2] /\ heap[a] # Free
    BY <1>1, <2>2, OwnedFacts
  <2>4. heap[a].due \in Nat /\ TimeStamp(heap[a].due) <= TimeStamp(readTime)
    BY <1>1, <2>2, <2>3, HeapFacts DEF TimeInv
  <2>5. ASSUME Window(heap[a].due) = Window(readTime) PROVE ~(now < heap[a].due)
    <3>1. PICK d \in Int, t \in Int : d = heap[a].due /\ t = readTime
      BY <1>1, <2>4
    <3>2. t - d = TimeStamp(t) - TimeStamp(d) /\ TimeStamp(t) \in Int /\ TimeStamp(d) \in Int
      BY <2>5, <3>1, SameWindow, StampWindow
    <3>3. d <= t
      BY <2>4, <3>1, <3>2
    <3> QED BY <1>1, <3>1, <3>3
  <2>6. early' = FALSE
    BY <2>1, <2>3, <2>5 DEF TimeInv
  <2> QED BY <2>1, <2>6 DEF TimeInv
<1>10. CASE Running /\ reset
  <2>1. /\ expired # << >> /\ expired' = Tail(expired) /\ UNCHANGED <<now, readTime, early>>
    BY <1>10 DEF reset
  <2>2. PICK a \in Addrs : a = Head(expired)[2] /\ heap[a] # Free
    BY <1>1, <2>1, OwnedFacts
  <2>3. /\ \A b \in Addrs : b # a => heap'[b] = heap[b]
        /\ heap'[a] = Free \/ heap'[a] = restart(a)
    BY <1>1, <1>10, <2>2 DEF reset, Types
  <2>4. restart(a).expiration_ = TimeStamp(restart(a).due)
    BY <1>1, <2>2, RestartType
  <2>5. \A b \in Addrs : heap'[b] # Free => heap'[b].expiration_ = TimeStamp(heap'[b].due)
    BY <2>3, <2>4 DEF TimeInv
  <2>6. \A i \in 1..Len(expired') : TimeStamp(heap'[expired'[i][2]].due) <= TimeStamp(readTime)
    <3> SUFFICES ASSUME NEW i \in 1..Len(expired')
                 PROVE  TimeStamp(heap'[expired'[i][2]].due) <= TimeStamp(readTime)
      OBVIOUS
    <3>1. expired \in Seq(Entry)
      BY <1>1 DEF Types
    <3>2. /\ i + 1 \in 1..Len(expired) /\ expired'[i] = expired[i + 1] /\ i + 1 # 1
          /\ Head(expired) = expired[1] /\ 1 \in 1..Len(expired)
      BY <2>1, <3>1, TailFacts
    <3>3. PICK b \in Addrs : b = expired[i + 1][2] /\ b # a
      BY <1>1, <2>2, <3>2, OwnedFacts DEF OwnerInv
    <3>4. TimeStamp(heap[b].due) <= TimeStamp(readTime)
      BY <3>2, <3>3 DEF TimeInv
    <3> QED BY <2>3, <3>2, <3>3, <3>4
  <2> QED BY <2>1, <2>5, <2>6 DEF TimeInv
<1>11. CASE Running /\ AddStep
  <2>1. PICK a \in Addrs, d \in Nat, i \in Nat : addTimer(a, d, i)
    BY <1>11, TimerQueueAssumption DEF AddStep, TimerQueueAssumption
  <2>2. PICK t \in Timer : t = NewTimer(d, i)
    BY <1>1, NewType
  <2>3. heap[a] = Free /\ heap' = [heap EXCEPT ![a] = t] /\ UNCHANGED <<now, expired, readTime, early>>
    BY <2>1, <2>2 DEF addTimer
  <2>4. heap'[a] = t /\ \A b \in Addrs : b # a => heap'[b] = heap[b]
    BY <1>1, <2>3 DEF Types
  <2>5. t.expiration_ = TimeStamp(t.due)
    BY <2>2 DEF NewTimer
  <2>6. \A j \in 1..Len(expired) : expired[j][2] \in Addrs /\ expired[j][2] # a
    BY <1>1, <2>3, OwnedFacts
  <2>7. \A j \in 1..Len(expired) : heap'[expired[j][2]] = heap[expired[j][2]]
    BY <2>4, <2>6
  <2> QED BY <2>3, <2>4, <2>5, <2>7 DEF TimeInv
<1> QED BY <1>3, <1>4, <1>5, <1>6, <1>7, <1>8, <1>9, <1>10, <1>11 DEF Next, LoopStep

-----------------------------------------------------------------------------
(* The timerfd fires by the time each timer in the queue is due, or at the *)
(* next tick.                                                              *)
InTime(e) == timerfd_ <= now + 1 \/ timerfd_ <= heap[e[2]].due
Covers == timerfd_ # 0 /\ \A e \in timers_ : InTime(e)

ArmInv ==
  /\ callingExpiredTimer_ => expired # << >>
  /\ misarmed \in BOOLEAN /\ ArmedInTime

(* Stamps order the timers of one window by the time they are due.         *)
LEMMA StampOrder ==
  ASSUME NEW c \in Nat, NEW d \in Nat, Comparable(c), Comparable(d),
         TimeStamp(c) <= TimeStamp(d)
  PROVE  c <= d
<1>1. c \in Int /\ d \in Int /\ Window(c) = Window(d)
  BY DEF Comparable
<1>2. d - c = TimeStamp(d) - TimeStamp(c) /\ TimeStamp(c) \in Int /\ TimeStamp(d) \in Int
  BY <1>1, SameWindow, StampWindow
<1> QED BY <1>1, <1>2

(* The entries of the queue after a step, under the time they are due.     *)
LEMMA DueFacts ==
  ASSUME TimerInv', TimeInv', NEW e \in timers_'
  PROVE  heap'[e[2]].due \in Nat /\ e[1] = TimeStamp(heap'[e[2]].due)
<1>1. e[2] \in Addrs /\ heap'[e[2]] # Free /\ heap'[e[2]].expiration_ = e[1]
  BY EntryFacts DEF TimerInv, Types, QueueInv, SetsAgree
<1>2. heap'[e[2]] \in Timer
  BY <1>1 DEF TimerInv, Types
<1> QED BY <1>1, <1>2 DEF Timer, TimeInv

(* Arming the timerfd for the first entry covers all that are comparable.  *)
LEMMA ArmFirst ==
  ASSUME Types, TimerInv', TimeInv', UNCHANGED now, AllComparable, NEW b \in timers_',
         \A e \in timers_' : b[1] <= e[1], timerfd_' = Deadline(b[1])
  PROVE  Covers'
<1> DEFINE d(e) == heap'[e[2]].due
<1>1. \A e \in timers_' : d(e) \in Nat /\ e[1] = TimeStamp(d(e)) /\ Comparable(d(e))
  BY DueFacts DEF AllComparable
<1>2. \A e \in timers_' : d(b) <= d(e)
  BY <1>1, StampOrder
<1>3. timerfd_' # 0 /\ (timerfd_' <= now + 1 \/ timerfd_' <= d(b))
  BY <1>1, DeadlineExact
<1>4. timerfd_' \in Nat /\ now \in Nat
  BY DEF TimerInv, Types
<1>5. \A e \in timers_' : timerfd_' <= now + 1 \/ timerfd_' <= d(e)
  BY <1>1, <1>2, <1>3, <1>4
<1> QED BY <1>3, <1>5 DEF Covers, InTime

LEMMA AddArms ==
  ASSUME TimerInv, TimerInv', TimeInv', NEW a \in Addrs, NEW t \in Timer, addTimerInLoop(a, t),
         UNCHANGED now, \A e \in timers_ : heap'[e[2]] = heap[e[2]],
         misarmed \in BOOLEAN, timers_ # {} /\ ~misarmed => Covers
  PROVE  misarmed' \in BOOLEAN /\ (~misarmed' => Covers')
<1> DEFINE n == <<t.expiration_, a>>
<1>1. timers_' = timers_ \cup {n} /\ n[1] = t.expiration_ /\ n[1] \in Int
  BY DEF addTimerInLoop, insert, Timer
<1> HIDE DEF n
<1>2. timers_ # {} => begin(timers_) \in timers_ /\ begin(timers_)[1] \in Int
                      /\ \A f \in timers_ : begin(timers_)[1] <= f[1]
  BY MinExists DEF TimerInv, Types
<1>3. \A e \in timers_ : e[1] \in Int
  BY EntryFacts DEF TimerInv, Types
<1>4. CASE earliestChanged(t.expiration_)
  <2>1. timerfd_' = Deadline(n[1]) /\ misarmed' = ~AllComparable
    BY <1>1, <1>4 DEF addTimerInLoop, resetTimerfd
  <2>2. \A e \in timers_' : n[1] <= e[1]
    BY <1>1, <1>2, <1>3, <1>4 DEF earliestChanged
  <2>3. AllComparable => Covers'
    BY <1>1, <2>1, <2>2, ArmFirst DEF TimerInv
  <2> QED BY <2>1, <2>3
<1>5. CASE ~earliestChanged(t.expiration_)
  <2>1. timerfd_' = timerfd_ /\ misarmed' = (misarmed \/ ~AllComparable)
    BY <1>5 DEF addTimerInLoop, leaveTimerfd
  <2>2. PICK b \in timers_ : b[1] <= n[1]
    BY <1>1, <1>2, <1>5 DEF earliestChanged
  <2>3. ASSUME ~misarmed, AllComparable PROVE Covers'
    <3>1. Covers
      BY <2>2, <2>3
    <3>2. \A e \in timers_ : InTime(e)'
      BY <2>1, <3>1 DEF Covers, InTime
    <3>3. InTime(n)'
      <4>1. /\ heap'[b[2]].due \in Nat /\ b[1] = TimeStamp(heap'[b[2]].due)
            /\ heap'[n[2]].due \in Nat /\ n[1] = TimeStamp(heap'[n[2]].due)
            /\ Comparable(heap'[b[2]].due) /\ Comparable(heap'[n[2]].due)
        BY <1>1, <2>3, DueFacts DEF AllComparable
      <4>2. heap'[b[2]].due <= heap'[n[2]].due
        BY <2>2, <4>1, StampOrder
      <4>3. timerfd_' \in Nat /\ now' \in Nat
        BY DEF TimerInv, Types
      <4> QED BY <3>2, <4>1, <4>2, <4>3 DEF InTime
    <3> QED BY <1>1, <2>1, <3>1, <3>2, <3>3 DEF Covers
  <2> QED BY <2>1, <2>3
<1> QED BY <1>4, <1>5

LEMMA LaterStill ==
  ASSUME NEW m \in Nat, NEW n \in Nat, NEW fd \in Nat, m <= n, fd <= m + 1
  PROVE  fd <= n + 1
OBVIOUS

LEMMA ArmStep ==
  ASSUME TimerInv, TimerInv', TimeInv', ArmInv, [Next]_vars PROVE ArmInv'
<1> USE DEF queue, batch, hist
<1>1. /\ Types /\ Types' /\ OwnerInv /\ SetsAgree /\ PhaseInv /\ misarmed \in BOOLEAN
      /\ now \in Nat /\ timerfd_ \in Nat /\ timers_' \subseteq Entry /\ IsFiniteSet(timers_')
      /\ callingExpiredTimer_ => expired # << >>
  BY DEF TimerInv, QueueInv, Types, ArmInv
<1>2. Idle /\ timers_ # {} /\ ~misarmed => Covers
  BY DEF ArmInv, ArmedInTime, Covers, InTime
<1>3. SUFFICES /\ callingExpiredTimer_' => expired' # << >>
               /\ misarmed' \in BOOLEAN
               /\ Idle' /\ timers_' # {} /\ ~misarmed' => Covers'
  BY DEF ArmInv, ArmedInTime, Covers, InTime
<1>4. ASSUME Idle, now <= now', now' \in Nat, UNCHANGED <<timerfd_, misarmed>>,
             timers_' \subseteq timers_, \A e \in timers_' : heap'[e[2]] = heap[e[2]],
             timers_' # {}, ~misarmed'
      PROVE  Covers'
  <2>1. Covers
    BY <1>2, <1>4
  <2>2. ASSUME NEW e \in timers_' PROVE InTime(e)'
    <3>1. timerfd_ <= now + 1 \/ timerfd_ <= heap[e[2]].due
      BY <1>4, <2>1, <2>2 DEF Covers, InTime
    <3>2. timerfd_ <= now + 1 => timerfd_ <= now' + 1
      <4>1. now \in Nat /\ now' \in Nat /\ now <= now' /\ timerfd_ \in Nat
        BY <1>1, <1>4
      <4> QED BY <4>1, LaterStill
    <3> QED BY <1>4, <3>1, <3>2 DEF InTime
  <2> QED BY <1>4, <2>1, <2>2 DEF Covers
<1>5. ASSUME Idle, NEW a \in Addrs, NEW t \in Timer, addTimerInLoop(a, t), UNCHANGED now,
             \A e \in timers_ : heap'[e[2]] = heap[e[2]]
      PROVE  misarmed' \in BOOLEAN /\ (~misarmed' => Covers')
  BY <1>1, <1>2, <1>5, AddArms
<1>6. ASSUME NEW id \in ActiveTimer, cancelInLoop(id)
      PROVE  /\ UNCHANGED <<timerfd_, misarmed, callingExpiredTimer_>>
             /\ timers_' \subseteq timers_ /\ \A e \in timers_' : heap'[e[2]] = heap[e[2]]
  <2>1. UNCHANGED <<timerfd_, misarmed, callingExpiredTimer_>> /\ timers_' \subseteq timers_
    BY <1>6 DEF cancelInLoop
  <2>2. CASE UNCHANGED heap
    BY <2>1, <2>2
  <2>3. CASE /\ id \in activeTimers_ /\ heap' = [heap EXCEPT ![id[1]] = Free]
             /\ timers_' = timers_ \ {<<heap[id[1]].expiration_, id[1]>>}
    <3>1. <<heap[id[1]].expiration_, id[1]>> \in timers_ /\ id[1] \in Addrs
      BY <1>1, <2>3, ActiveOwner
    <3>2. \A e \in timers_' : e[2] # id[1] /\ e[2] \in Addrs
      <4>1. \A e, f \in timers_ : e[2] = f[2] => e = f
        BY <1>1, TimersUnique
      <4> QED BY <1>1, <2>3, <3>1, <4>1, EntryFacts
    <3> QED BY <1>1, <2>1, <2>3, <3>2 DEF Types
  <2> QED BY <1>6, <2>1, <2>2, <2>3 DEF cancelInLoop
<1>7. CASE \/ Running /\ tick
           \/ Running /\ poll
           \/ UNCHANGED vars
           \/ \E id \in adding : addReturns(id)
  <2>1. UNCHANGED <<heap, timers_, timerfd_, misarmed, callingExpiredTimer_, expired>>
    BY <1>7 DEF tick, poll, vars, addReturns
  <2>2. now <= now' /\ now' \in Nat
    <3>1. now' = now \/ now' = now + 1
      BY <1>7 DEF tick, poll, vars, addReturns
    <3> QED BY <1>1, <3>1
  <2> QED BY <1>1, <1>4, <2>1, <2>2 DEF Idle
<1>8. CASE Running /\ runFunctor
  <2>1. Idle /\ pendingFunctors_ # << >> /\ UNCHANGED <<now, expired>> /\ now <= now' /\ now' \in Nat
    BY <1>1, <1>8 DEF runFunctor
  <2>2. CASE "cancel" \in DOMAIN Head(pendingFunctors_) /\ cancelInLoop(Head(pendingFunctors_).cancel)
    <3>1. PICK id \in ActiveTimer : cancelInLoop(id)
      BY <1>1, <2>1, <2>2, FunctorHead
    <3>2. /\ UNCHANGED <<timerfd_, misarmed, callingExpiredTimer_>>
          /\ timers_' \subseteq timers_ /\ \A e \in timers_' : heap'[e[2]] = heap[e[2]]
      BY <1>6, <3>1
    <3> QED BY <1>1, <1>4, <2>1, <3>2
  <2>3. CASE /\ "add" \in DOMAIN Head(pendingFunctors_) /\ UNCHANGED heap
             /\ addTimerInLoop(Head(pendingFunctors_).add, heap[Head(pendingFunctors_).add])
    <3>1. PICK a \in Addrs, t \in Timer : addTimerInLoop(a, t)
      <4>1. Head(pendingFunctors_).add \in Addrs /\ heap[Head(pendingFunctors_).add] \in Timer
        BY <1>1, <2>1, <2>3, FunctorHead, HeapFacts
      <4> QED BY <2>3, <4>1
    <3>2. UNCHANGED callingExpiredTimer_
      BY <3>1 DEF addTimerInLoop
    <3> QED BY <1>1, <1>5, <2>1, <2>3, <3>1, <3>2
  <2> QED BY <1>8, <2>2, <2>3 DEF runFunctor
<1>9. CASE Running /\ handleRead
  <2>1. /\ active /\ readTimerfd /\ UNCHANGED <<now, heap>> /\ expired' \in Copies(Expired)
        /\ timers_' = timers_ \ Expired /\ callingExpiredTimer_' = (Expired # {})
        /\ misarmed' = (misarmed \/ (Expired = {} /\ timerfd_' = 0))
    BY <1>9 DEF handleRead
  <2>2. Expired \subseteq Entry /\ IsFiniteSet(Expired)
    BY <1>1, FS_Subset DEF Expired, Types
  <2>3. expired' = << >> <=> Expired = {}
    BY <2>1, <2>2, CopiesFacts
  <2>4. Idle
    BY <1>1, <2>1 DEF PhaseInv
  <2>5. ASSUME Idle', timers_' # {}, ~misarmed' PROVE Covers'
    <3>1. Expired = {} /\ timerfd_' # 0 /\ ~misarmed
      BY <2>1, <2>3, <2>5 DEF Idle
    <3>2. timerfd_' = timerfd_ /\ timers_' = timers_ /\ now <= now' /\ now' \in Nat
      BY <1>1, <2>1, <3>1 DEF readTimerfd
    <3> QED BY <1>1, <1>4, <2>1, <2>4, <2>5, <3>1, <3>2
  <2>6. misarmed' \in BOOLEAN
    BY <2>1
  <2> QED BY <2>1, <2>3, <2>5, <2>6
<1>10. CASE Running /\ run
  <2>1. UNCHANGED <<misarmed, callingExpiredTimer_, expired>> /\ callingExpiredTimer_
    BY <1>10 DEF run
  <2> QED BY <1>1, <2>1 DEF Idle
<1>11. CASE Running /\ calledAll
  <2>1. UNCHANGED <<misarmed, expired>> /\ callingExpiredTimer_ /\ ~callingExpiredTimer_'
    BY <1>11 DEF calledAll
  <2> QED BY <1>1, <2>1 DEF Idle
<1>12. CASE Running /\ reset
  <2>1. /\ UNCHANGED <<now, callingExpiredTimer_>> /\ ~callingExpiredTimer_
        /\ IF timers_' # {} /\ valid(begin(timers_')[1])
           THEN timerfd_' = Deadline(begin(timers_')[1]) /\ misarmed' = ~AllComparable
           ELSE timerfd_' = timerfd_ /\ misarmed' = (misarmed \/ timers_' # {})
    BY <1>12 DEF reset, resetTimerfd
  <2>2. ASSUME timers_' # {}, ~misarmed' PROVE Covers'
    <3>1. begin(timers_') \in timers_' /\ \A f \in timers_' : begin(timers_')[1] <= f[1]
      BY <1>1, <2>2, MinExists
    <3>2. PICK b \in timers_' : b = begin(timers_') /\ \A f \in timers_' : b[1] <= f[1]
      BY <3>1
    <3>3. timerfd_' = Deadline(b[1]) /\ AllComparable
      BY <2>1, <2>2, <3>2
    <3> QED BY <1>1, <2>1, <3>2, <3>3, ArmFirst
  <2>3. misarmed' \in BOOLEAN
    BY <1>1, <2>1
  <2> QED BY <2>1, <2>2, <2>3
<1>13. CASE destroy
  <2>1. UNCHANGED <<misarmed, callingExpiredTimer_, expired>> /\ timers_' = {}
    BY <1>13 DEF destroy
  <2> QED BY <1>1, <2>1
<1>14. CASE Running /\ \E id \in ids \cup misread : cancel(id)
  <2>1. PICK id \in ActiveTimer : cancel(id)
    BY <1>1, <1>14 DEF Types
  <2>2. UNCHANGED <<now, expired>> /\ now <= now' /\ now' \in Nat
    BY <1>1, <2>1 DEF cancel
  <2>3. /\ UNCHANGED <<timerfd_, misarmed, callingExpiredTimer_>>
        /\ timers_' \subseteq timers_ /\ \A e \in timers_' : heap'[e[2]] = heap[e[2]]
    BY <1>6, <2>1 DEF cancel
  <2> QED BY <1>1, <1>4, <2>2, <2>3 DEF Idle
<1>15. CASE Running /\ AddStep
  <2>1. PICK a \in Addrs, d \in Nat, i \in Nat : addTimer(a, d, i)
    BY <1>15, TimerQueueAssumption DEF AddStep, TimerQueueAssumption
  <2>2. PICK t \in Timer : t = NewTimer(d, i)
    BY <1>1, NewType
  <2>3. UNCHANGED <<now, expired>> /\ now <= now' /\ now' \in Nat
    BY <1>1, <2>1 DEF addTimer
  <2>4. \A e \in timers_ : heap'[e[2]] = heap[e[2]]
    <3>1. heap[a] = Free /\ \A b \in Addrs : b # a => heap'[b] = heap[b]
      BY <1>1, <2>1 DEF addTimer, Types
    <3>2. \A e \in timers_ : e[2] \in Addrs /\ heap[e[2]] # Free
      BY <1>1, EntryFacts DEF Types, SetsAgree
    <3> QED BY <3>1, <3>2
  <2>5. CASE InLoopThread /\ addTimerInLoop(a, t)
    <3>1. UNCHANGED callingExpiredTimer_
      BY <2>5 DEF addTimerInLoop
    <3>2. CASE Idle
      BY <1>1, <1>5, <2>3, <2>4, <2>5, <3>1, <3>2
    <3>3. CASE ~Idle
      <4>1. ~Idle'
        BY <2>3, <3>1, <3>3 DEF Idle
      <4>2. misarmed' \in BOOLEAN
        BY <1>1, <2>5 DEF addTimerInLoop, resetTimerfd, leaveTimerfd
      <4> QED BY <1>1, <2>3, <3>1, <4>1, <4>2
    <3> QED BY <3>2, <3>3
  <2>6. CASE UNCHANGED <<queue, timerfd_, misarmed>>
    BY <1>1, <1>4, <2>3, <2>4, <2>6 DEF Idle
  <2> QED BY <2>1, <2>2, <2>5, <2>6 DEF addTimer
<1>16. CASE Running /\ LoopStep
  BY <1>7, <1>8, <1>9, <1>10, <1>11, <1>12, <1>16 DEF LoopStep
<1>17. \/ destroy \/ UNCHANGED vars \/ \E id \in adding : addReturns(id)
       \/ Running /\ tick
       \/ Running /\ LoopStep
       \/ Running /\ AddStep
       \/ Running /\ \E id \in ids \cup misread : cancel(id)
  BY DEF Next
<1> QED BY <1>7, <1>13, <1>14, <1>15, <1>16, <1>17

(* TimeInv and ArmInv are inductive with TimerInv, whatever the clock and  *)
(* however often the time stamps wrap.                                     *)
THEOREM TimeSafe == Spec => [](TimerInv /\ TimeInv /\ ArmInv)
<1>1. Init => TimerInv /\ TimeInv /\ ArmInv
  <2> SUFFICES ASSUME Init PROVE TimerInv /\ TimeInv /\ ArmInv
    OBVIOUS
  <2>1. TimerInv
    BY TimerInit
  <2>2. Start \in Nat
    BY TimerQueueAssumption DEF TimerQueueAssumption
  <2>3. TimeInv
    BY <2>2 DEF Init, TimeInv
  <2>4. ArmInv
    BY DEF Init, ArmInv, ArmedInTime
  <2> QED BY <2>1, <2>3, <2>4
<1>2. TimerInv /\ TimeInv /\ ArmInv /\ [Next]_vars => (TimerInv /\ TimeInv /\ ArmInv)'
  BY TimerStep, TimeStep, ArmStep
<1> QED BY <1>1, <1>2, PTL DEF Spec

(* A timer runs before its time only if the time stamp wraps between the   *)
(* clock reading of handleRead and the time the timer is due.              *)
THEOREM EarlySafe == Spec => []NeverEarly
<1>1. TimeInv => NeverEarly
  BY DEF TimeInv, NeverEarly
<1> QED BY <1>1, TimeSafe, PTL

(* The timerfd is armed to fire by the time the first timer is due, or at  *)
(* the next tick; except after it fired for a cancelled timer, after       *)
(* reset() met a time stamp that is not valid(), and after stamps were     *)
(* compared across a wrap, each until the timerfd is armed again.          *)
THEOREM ArmedSafe == Spec => []ArmedInTime
<1>1. ArmInv => ArmedInTime
  BY DEF ArmInv
<1> QED BY <1>1, TimeSafe, PTL
=============================================================================
