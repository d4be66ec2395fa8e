------------------------------ MODULE TimerQueue ------------------------------
(***************************************************************************)
(* TimerQueue: timers ordered by expiration, one timerfd armed for the     *)
(* earliest, callbacks run by the loop thread when the timerfd fires.      *)
(*                                                                         *)
(* Time is counted in ticks of 100us, the shortest delay the timerfd is    *)
(* armed with.  The kernel's clock (now) is unbounded; a TimeStamp keeps   *)
(* its low W bits as a signed integer.  Timer objects live at addresses    *)
(* that the allocator reuses.  A thread other than the loop's goes through *)
(* EventLoop::runInLoop, that is through pendingFunctors_.                 *)
(***************************************************************************)
EXTENDS Integers, Sequences, SequencesExt

CONSTANTS Addrs,      \* addresses of Timer objects, a set of integers
          W,          \* width of TimeStamp::microSecondSinceEpoch_
          Start,      \* the time at which the program starts
          Delays,     \* delays and intervals asked for
          MaxTime, Grace, MaxTimers, MaxPending,  \* bounds of the model
          Free

ASSUME TimerQueueAssumption ==
  /\ Addrs \subseteq Int /\ W \in Nat \ {0} /\ Start \in Nat /\ MaxTime \in Nat
  /\ Delays \subseteq Nat /\ Grace \in Nat /\ MaxTimers \in Nat /\ MaxPending \in Nat

VARIABLES now,
          heap,              \* address -> Timer object or Free
          s_numCreated_,
          timers_, activeTimers_, cancelingTimers_, callingExpiredTimer_,
          timerfd_,          \* time at which it fires, 0 if disarmed
          pendingFunctors_,  \* addTimerInLoop and cancelInLoop calls queued
          active,            \* epoll reported the timerfd, not handled yet
          expired, called,   \* handleRead: the batch, how many were run
          readTime,          \* handleRead: its local "now"
          ids,               \* the TimerIds of the timers created
          adding,            \* those whose addTimer, on another thread, has
                             \* not read the timer's sequence yet
          misread,           \* TimerIds read from a timer already deleted
          asked, missed,     \* history: TimerIds to cancel; those whose last
                             \* cancel ran before the queued addTimerInLoop
          ran, early,        \* history: timers run; some ran too early
          destroyed,         \* the queue and its loop are gone
          misarmed           \* history: the timerfd cannot be relied on

queue == <<timers_, activeTimers_, cancelingTimers_, callingExpiredTimer_>>
batch == <<active, expired, called, readTime>>
handed == <<ids, adding, misread>>
hist  == <<asked, missed, ran, early>>
vars  == <<now, heap, s_numCreated_, queue, timerfd_, pendingFunctors_, batch, handed,
           hist, misarmed, destroyed>>

(* Two powers of two, which the provers take from here.                    *)
ASSUME WidthAssumption == 2^(W - 1) \in Nat \ {0} /\ 2^W = 2 * 2^(W - 1)

(* A 64-bit count stored in a W-bit signed integer.                        *)
TimeStamp(t) == ((t + 2^(W - 1)) % 2^W) - 2^(W - 1)

Timer == [expiration_ : Int, interval_ : Nat, sequence_ : Nat, due : Nat]
Entry == Int \X Addrs
ActiveTimer == Addrs \X Nat

ASSUME FreeAssumption == Free \notin Timer

TypeOK ==
  /\ now \in Nat /\ timerfd_ \in Nat /\ s_numCreated_ \in Nat
  /\ \A a \in Addrs : heap[a] = Free \/ heap[a] \in Timer
  /\ timers_ \subseteq Entry /\ activeTimers_ \subseteq ActiveTimer
  /\ cancelingTimers_ \subseteq ActiveTimer /\ ids \subseteq ActiveTimer
  /\ adding \subseteq ids /\ misread \subseteq ActiveTimer
  /\ callingExpiredTimer_ \in BOOLEAN /\ active \in BOOLEAN
  /\ \A f \in ToSet(pendingFunctors_) :
       f \in [add : Addrs] \/ f \in [cancel : ActiveTimer]
  /\ ToSet(expired) \subseteq Entry /\ called \in 0..Len(expired)

Init ==
  /\ now = Start /\ heap = [a \in Addrs |-> Free] /\ s_numCreated_ = 0
  /\ timers_ = {} /\ activeTimers_ = {} /\ cancelingTimers_ = {}
  /\ callingExpiredTimer_ = FALSE /\ timerfd_ = 0 /\ pendingFunctors_ = << >>
  /\ active = FALSE /\ expired = << >> /\ called = 0 /\ readTime = Start
  /\ ids = {} /\ adding = {} /\ misread = {}
  /\ asked = {} /\ missed = {} /\ ran = {} /\ early = FALSE /\ misarmed = FALSE
  /\ destroyed = FALSE

-----------------------------------------------------------------------------
(* std::pair order: time first, then the address.                          *)
Before(e, f) == e[1] < f[1] \/ (e[1] = f[1] /\ e[2] < f[2])
begin(s) == CHOOSE e \in s : \A f \in s : e = f \/ Before(e, f)

ActiveOf(a) == <<a, heap[a].sequence_>>
Live(id) == heap[id[1]] # Free /\ heap[id[1]].sequence_ = id[2]

(* A cancel that runs before the addTimerInLoop of its timer is lost.      *)
Missed(id) == missed' = IF Live(id) /\ [add |-> id[1]] \in ToSet(pendingFunctors_)
                        THEN missed \cup {id} ELSE missed \ {id}

Idle == ~callingExpiredTimer_ /\ expired = << >>
(* The loop thread runs user code: no timer batch, or a timer's callback.  *)
InLoopThread == Idle \/ (callingExpiredTimer_ /\ called > 0)

-----------------------------------------------------------------------------
(* Deliberate defects of the definitions below, used to see the properties *)
(* fail.                                                                   *)

(* The test for "not expired" is off by one.                               *)
Expired_offByOne == {e \in timers_ : e[1] <= TimeStamp(now) + 1}

valid(ts) == ts > 0

(* cancelingTimers_ is not looked at.                                      *)
Keeps_cancelled(a) == heap[a].interval_ > 0

(* howMuchTimeFromNow subtracts two integers of W bits; at least 100us.    *)
Deadline(when) == LET d == TimeStamp(when - TimeStamp(now))
                  IN now + IF d < 1 THEN 1 ELSE d

(* Time stamps order the timers as their due times do, and their distances *)
(* to the clock are exact, when none of them is across a wrap, or half the *)
(* range in the past.  Only then can arming by time stamps be relied on.   *)
Window(t) == (t + 2^(W - 1)) \div 2^W
Comparable(due) == Window(due) = Window(now) /\ now - due <= 2^(W - 1)
AllComparable == \A e \in timers_' : Comparable(heap'[e[2]].due)

resetTimerfd(when) == timerfd_' = Deadline(when) /\ misarmed' = ~AllComparable
leaveTimerfd == timerfd_' = timerfd_ /\ misarmed' = (misarmed \/ ~AllComparable)

(* Only the first timer arms the timerfd.                                  *)
addTimerInLoop_firstOnly(a, t) ==
  /\ timers_' = timers_ \cup {<<t.expiration_, a>>}
  /\ activeTimers_' = activeTimers_ \cup {<<a, t.sequence_>>}
  /\ IF timers_ = {} THEN resetTimerfd(t.expiration_) ELSE leaveTimerfd
  /\ UNCHANGED <<cancelingTimers_, callingExpiredTimer_>>

(* The timer is found by its address alone.                                *)
cancelInLoop_byAddress(id) ==
  /\ \/ /\ \E x \in activeTimers_ : x[1] = id[1]
        /\ timers_' = timers_ \ {<<heap[id[1]].expiration_, id[1]>>}
        /\ activeTimers_' = {x \in activeTimers_ : x[1] # id[1]}
        /\ heap' = [heap EXCEPT ![id[1]] = Free]
        /\ UNCHANGED cancelingTimers_
     \/ /\ ~\E x \in activeTimers_ : x[1] = id[1]
        /\ cancelingTimers_' = IF callingExpiredTimer_ THEN cancelingTimers_ \cup {id}
                                                       ELSE cancelingTimers_
        /\ UNCHANGED <<timers_, activeTimers_, heap>>
  /\ Missed(id)
  /\ UNCHANGED <<timerfd_, misarmed, callingExpiredTimer_>>

(* A timer that is not active is deleted at once, also in a batch.         *)
cancelInLoop_deletesRunning(id) ==
  /\ timers_' = timers_ \ {e \in timers_ : ActiveOf(e[2]) = id}
  /\ activeTimers_' = activeTimers_ \ {id}
  /\ heap' = IF Live(id)
             THEN [heap EXCEPT ![id[1]] = Free] ELSE heap
  /\ Missed(id)
  /\ UNCHANGED <<timerfd_, misarmed, callingExpiredTimer_, cancelingTimers_>>

(* The entry is erased from one of the two sets only.                      *)
cancelInLoop_oneSet(id) ==
  /\ IF id \in activeTimers_
     THEN activeTimers_' = activeTimers_ \ {id} /\ heap' = [heap EXCEPT ![id[1]] = Free]
     ELSE UNCHANGED <<activeTimers_, heap>>
  /\ Missed(id)
  /\ UNCHANGED <<timers_, timerfd_, misarmed, callingExpiredTimer_, cancelingTimers_>>

(* Only the first callback of a batch is called.                           *)
run_first ==
  /\ callingExpiredTimer_ /\ called < Len(expired) /\ called' = Len(expired)
  /\ ran' = ran \cup {heap[expired[1][2]].sequence_}
  /\ UNCHANGED <<now, heap, s_numCreated_, queue, timerfd_, pendingFunctors_, active,
                 expired, readTime, handed, asked, missed, early, misarmed>>

-----------------------------------------------------------------------------
(* The loop thread's half of addTimer and cancel.                          *)

(* insert(): into both sets; it returns whether the earliest one changed.  *)
insert(when, a, seq) ==
  /\ timers_' = timers_ \cup {<<when, a>>}
  /\ activeTimers_' = activeTimers_ \cup {<<a, seq>>}
earliestChanged(when) == timers_ = {} \/ when < begin(timers_)[1]

addTimerInLoop(a, t) ==
  /\ insert(t.expiration_, a, t.sequence_)
  /\ IF earliestChanged(t.expiration_) THEN resetTimerfd(t.expiration_)
                                       ELSE leaveTimerfd
  /\ UNCHANGED <<cancelingTimers_, callingExpiredTimer_>>

cancelInLoop(id) ==
  /\ \/ /\ id \in activeTimers_
        /\ timers_' = timers_ \ {<<heap[id[1]].expiration_, id[1]>>}
        /\ heap' = [heap EXCEPT ![id[1]] = Free]
        /\ activeTimers_' = activeTimers_ \ {id}
        /\ UNCHANGED cancelingTimers_
     \/ /\ id \notin activeTimers_
        /\ cancelingTimers_' = IF callingExpiredTimer_ THEN cancelingTimers_ \cup {id}
                                                       ELSE cancelingTimers_
        /\ UNCHANGED <<timers_, activeTimers_, heap>>
  /\ Missed(id)
  /\ UNCHANGED <<timerfd_, misarmed, callingExpiredTimer_>>

-----------------------------------------------------------------------------
(* runAfter and runEvery: a new Timer at any free address.  A thread other *)
(* than the loop's hands it over and reads its sequence in a later step.   *)
NewTimer(delay, interval) ==
  [expiration_ |-> TimeStamp(now + delay), interval_ |-> interval,
   sequence_ |-> s_numCreated_, due |-> now + delay]

addTimer(a, delay, interval) ==
  LET t == NewTimer(delay, interval) IN
  /\ heap[a] = Free /\ heap' = [heap EXCEPT ![a] = t]
  /\ s_numCreated_ < MaxTimers /\ s_numCreated_' = s_numCreated_ + 1
  /\ ids' = ids \cup {<<a, t.sequence_>>}
  /\ \/ /\ InLoopThread /\ addTimerInLoop(a, t)
        /\ UNCHANGED <<pendingFunctors_, adding>>
     \/ /\ Len(pendingFunctors_) < MaxPending
        /\ pendingFunctors_' = Append(pendingFunctors_, [add |-> a])
        /\ adding' = adding \cup {<<a, t.sequence_>>}
        /\ UNCHANGED <<queue, timerfd_, misarmed>>
  /\ UNCHANGED <<now, batch, misread, hist>>

(* addTimer on another thread returns.  By now the loop may have run and   *)
(* deleted the timer: what is read then is whatever its memory holds.      *)
addReturns(id) ==
  /\ id \in adding /\ adding' = adding \ {id}
  /\ IF Live(id) THEN UNCHANGED misread
     ELSE \E s \in 0..(MaxTimers - 1) : misread' = misread \cup {<<id[1], s>>}
  /\ UNCHANGED <<now, heap, s_numCreated_, queue, timerfd_, pendingFunctors_, batch, ids,
                 hist, misarmed>>

cancel(id) ==
  /\ id \in (ids \ adding) \cup misread /\ asked' = asked \cup ({id} \cap ids)
  /\ \/ InLoopThread /\ cancelInLoop(id) /\ UNCHANGED pendingFunctors_
     \/ /\ Len(pendingFunctors_) < MaxPending
        /\ pendingFunctors_' = Append(pendingFunctors_, [cancel |-> id])
        /\ UNCHANGED <<heap, queue, timerfd_, misarmed, missed>>
  /\ UNCHANGED <<now, s_numCreated_, batch, handed, ran, early>>

(* doPendingFunctors runs a queued call.                                   *)
runFunctor ==
  /\ Idle /\ ~active
  /\ pendingFunctors_ # << >> /\ pendingFunctors_' = Tail(pendingFunctors_)
  /\ LET f == Head(pendingFunctors_) IN
       \/ /\ "add" \in DOMAIN f /\ UNCHANGED <<heap, missed>>
          /\ addTimerInLoop(f.add, heap[f.add])
       \/ "cancel" \in DOMAIN f /\ cancelInLoop(f.cancel)
  /\ UNCHANGED <<now, s_numCreated_, batch, handed, asked, ran, early>>

-----------------------------------------------------------------------------
(* The loop's poll reports the timerfd; callbacks of other channels may    *)
(* run, and arm it anew, before its own turn comes.                        *)
poll ==
  /\ Idle /\ ~active /\ timerfd_ # 0 /\ now >= timerfd_ /\ active' = TRUE
  /\ UNCHANGED <<now, heap, s_numCreated_, queue, timerfd_, pendingFunctors_, expired,
                 called, readTime, handed, hist, misarmed>>

(* Reading a timerfd that was armed anew fails and is only logged.         *)
readTimerfd == timerfd_' = IF now >= timerfd_ THEN 0 ELSE timerfd_

(* handleRead, first part: getExpired.                                     *)
Expired == {e \in timers_ : e[1] <= TimeStamp(now)}

(* std::copy of a part of timers_, in its order.                           *)
Copies(S) == {s \in SetToSeqs(S) : \A i, j \in DOMAIN s : i < j => Before(s[i], s[j])}

handleRead ==
  /\ active /\ active' = FALSE
  /\ readTimerfd
  /\ readTime' = now
  /\ expired' \in Copies(Expired) /\ called' = 0
  /\ timers_' = timers_ \ Expired
  /\ activeTimers_' = activeTimers_ \ {ActiveOf(e[2]) : e \in Expired}
  /\ cancelingTimers_' = {}
  /\ callingExpiredTimer_' = (Expired # {})
  /\ misarmed' = (misarmed \/ (Expired = {} /\ timerfd_' = 0))
  /\ UNCHANGED <<now, heap, s_numCreated_, pendingFunctors_, handed, hist>>

(* The next callback of the batch starts.                                  *)
run ==
  /\ callingExpiredTimer_ /\ called < Len(expired) /\ called' = called + 1
  /\ LET t == heap[expired[called + 1][2]] IN
       /\ ran' = ran \cup {t.sequence_}
       /\ early' = (early \/ (now < t.due /\ Window(t.due) = Window(readTime)))
  /\ UNCHANGED <<now, heap, s_numCreated_, queue, timerfd_, pendingFunctors_, active,
                 expired, readTime, handed, asked, missed, misarmed>>

calledAll ==
  /\ callingExpiredTimer_ /\ called = Len(expired)
  /\ callingExpiredTimer_' = FALSE /\ called' = 0
  /\ UNCHANGED <<now, heap, s_numCreated_, timers_, activeTimers_, cancelingTimers_,
                 timerfd_, pendingFunctors_, active, expired, readTime, handed, hist,
                 misarmed>>

Keeps(a) == heap[a].interval_ > 0 /\ ActiveOf(a) \notin cancelingTimers_

(* Timer::restart of a repeating timer.                                    *)
restart(a) == [heap[a] EXCEPT !.expiration_ = TimeStamp(readTime + heap[a].interval_),
                              !.due = readTime + heap[a].interval_]

(* One iteration of reset(): restart or delete the timer, then arm the     *)
(* timerfd for the earliest one.  An empty batch arms nothing.             *)
reset ==
  /\ ~callingExpiredTimer_ /\ expired # << >> /\ expired' = Tail(expired)
  /\ LET a == Head(expired)[2] IN
     IF Keeps(a)
     THEN /\ heap' = [heap EXCEPT ![a] = restart(a)]
          /\ insert(restart(a).expiration_, a, heap[a].sequence_)
     ELSE /\ heap' = [heap EXCEPT ![a] = Free]
          /\ UNCHANGED <<timers_, activeTimers_>>
  /\ IF timers_' # {} /\ valid(begin(timers_')[1])
     THEN resetTimerfd(begin(timers_')[1])
     ELSE timerfd_' = timerfd_ /\ misarmed' = (misarmed \/ timers_' # {})
  /\ UNCHANGED <<now, s_numCreated_, cancelingTimers_, callingExpiredTimer_,
                 pendingFunctors_, active, called, readTime, handed, hist>>

(* The clock stops at MaxTime, with up to Grace more ticks for the timerfd *)
(* to fire for a timer that is due by then.                                *)
tick ==
  /\ \/ now < MaxTime
     \/ now < timerfd_ /\ now < MaxTime + Grace
        /\ \E e \in timers_ : heap[e[2]].due < MaxTime
  /\ now' = now + 1
  /\ UNCHANGED <<heap, s_numCreated_, queue, timerfd_, pendingFunctors_, batch, handed,
                 hist, misarmed>>

-----------------------------------------------------------------------------
LoopStep == runFunctor \/ poll \/ handleRead \/ run \/ calledAll \/ reset

AddStep == \E a \in Addrs, delay \in Delays :
             addTimer(a, delay, 0) \/ (delay > 0 /\ addTimer(a, delay, delay))

(* ~EventLoop, after loop(), destroys the queue, which deletes the timers  *)
(* in timers_.  Those of a queued addTimerInLoop are not deleted.          *)
destroy ==
  /\ Idle /\ ~active /\ ~destroyed /\ destroyed' = TRUE /\ timerfd_' = 0
  /\ heap' = [a \in Addrs |-> IF \E e \in timers_ : e[2] = a THEN Free ELSE heap[a]]
  /\ timers_' = {} /\ activeTimers_' = {}
  /\ UNCHANGED <<now, s_numCreated_, cancelingTimers_, callingExpiredTimer_,
                 pendingFunctors_, batch, handed, hist, misarmed>>

Running == ~destroyed /\ UNCHANGED destroyed

Next == \/ destroy
        \/ UNCHANGED destroyed /\ \E id \in adding : addReturns(id)
        \/ /\ Running
           /\ tick \/ LoopStep \/ AddStep \/ \E id \in ids \cup misread : cancel(id)

Spec == Init /\ [][Next]_vars

(* Time passes, and the loop thread is scheduled.                          *)
FairSpec == /\ Spec /\ WF_vars(Running /\ tick) /\ WF_vars(Running /\ runFunctor)
            /\ WF_vars(Running /\ poll)
            /\ WF_vars(Running /\ (handleRead \/ run \/ calledAll \/ reset))

-----------------------------------------------------------------------------
(* Properties.                                                             *)

(* timers_ and activeTimers_ hold the same timers, and the key in timers_  *)
(* is the timer's expiration, so that the erase in cancelInLoop finds it   *)
(* (TimerQueue.cc:103).                                                    *)
SetsAgree ==
  /\ \A e \in timers_ : heap[e[2]] # Free /\ heap[e[2]].expiration_ = e[1]
  /\ activeTimers_ = {ActiveOf(e[2]) : e \in timers_}

(* Every Timer object is owned exactly once - by timers_, by the batch or  *)
(* by a queued addTimerInLoop - and those refer to live objects: nothing   *)
(* is deleted twice or leaked; but an object whose addTimerInLoop is still *)
(* queued when the loop is destroyed is.  The one use of an object its     *)
(* user no longer owns is addTimer's read of the sequence on another       *)
(* thread (TimerQueue.cc:79), which may come after the delete: it finds    *)
(* its timer alive unless the timer has run already, the queue was         *)
(* destroyed, or a TimerId misread earlier in this way names the timer.    *)
OwnedOnce ==
  /\ \A a \in Addrs :
       LET owners == {<<"timers", e>> : e \in {x \in timers_ : x[2] = a}}
                \cup {<<"batch", i>> : i \in {j \in DOMAIN expired : expired[j][2] = a}}
                \cup {<<"queued", i>> : i \in {j \in DOMAIN pendingFunctors_ :
                                                 pendingFunctors_[j] = [add |-> a]}}
       IN Cardinality(owners) = IF heap[a] = Free THEN 0 ELSE 1
  /\ \A id \in adding : Live(id) \/ id[2] \in ran \/ id \in misread \/ destroyed

(* A timer that nobody asked to cancel stays until it has run or the queue *)
(* is destroyed, although stale TimerIds may name its address              *)
(* (TimerQueue.cc:99); unless addTimer misread a TimerId that names it.    *)
NoTimerLost ==
  \A id \in ids : Live(id) \/ id[2] \in ran \/ id \in asked \cup misread \/ destroyed

(* A cancel is final: outside a batch, with no cancel of it queued, no     *)
(* timer waits that has been cancelled, also if that was done in its own   *)
(* callback.  Lost is only the cancel by the loop thread of a timer whose  *)
(* addTimerInLoop another thread has queued (TimerQueue.cc:79 and 84).     *)
(* It is about the timers that wait: one that is in the batch already runs *)
(* once more although an earlier callback of the batch has cancelled it.   *)
CancelHolds ==
  Idle => \A e \in timers_ :
            LET id == ActiveOf(e[2]) IN
            id \in asked => id \in missed \/ [cancel |-> id] \in ToSet(pendingFunctors_)

(* A timer runs before its time only when the time stamp wraps between the *)
(* time handleRead has read and the time the timer is due.                 *)
NeverEarly == ~early

(* The comment at TimerQueue.cc:49: timerfd_settime wakes the loop up.     *)
(* While timers wait, the timerfd is armed.                                *)
TimersArmed == Idle /\ timers_ # {} => timerfd_ # 0

(* What holds instead: while timers wait, the timerfd is armed to fire by  *)
(* the time the first of them is due, or at the next tick.  The exceptions *)
(* last until the timerfd is armed again: it fired for a cancelled timer   *)
(* and found nothing to do, reset() met an earliest time stamp that is not *)
(* valid(), or time stamps were compared across a wrap.                    *)
ArmedInTime ==
  Idle /\ timers_ # {} /\ ~misarmed =>
    /\ timerfd_ # 0
    /\ \A e \in timers_ : timerfd_ <= now + 1 \/ timerfd_ <= heap[e[2]].due

(* A timer due before the end of the modelled time runs or is cancelled,   *)
(* with the same exceptions.                                               *)
TimersRun ==
  \A s \in 0..(MaxTimers - 1) :
    (\E e \in timers_ : heap[e[2]].sequence_ = s /\ heap[e[2]].due < MaxTime)
      ~> \/ s \in ran \/ \E id \in (asked \ missed) \cup misread : id[2] = s
         \/ misarmed \/ destroyed
=============================================================================
