----------------------------- MODULE AsyncLogging -----------------------------
(***************************************************************************)
(* The double-buffered logger.  Front-end threads append lines to          *)
(* currentBuffer_ under mutex_; a full buffer moves to buffers_.  The      *)
(* logging thread collects all buffers under the same mutex, handing two   *)
(* spare buffers (newBuffer1, newBuffer2) over in exchange, and writes     *)
(* them without the lock.  A pointer that has been moved from is Null.     *)
(***************************************************************************)
EXTENDS Naturals, Sequences, SequencesExt

CONSTANTS Lines,      \* log lines; each is appended at most once
          LineLen,    \* the length of each line
          SIZE,       \* capacity of a FixedBuffer (kLargeBuffer)
          DropLimit,  \* 25 in the code
          Null

(* One byte of a buffer always stays free.                                 *)
Buffer == [data : Seq(Lines), len : 0..(SIZE - 1)]

ASSUME AsyncLoggingAssumption ==
  /\ SIZE \in Nat \ {0} /\ DropLimit \in Nat /\ DropLimit >= 2
  /\ LineLen \in [Lines -> Nat]
  /\ Null \notin Buffer

VARIABLES running_, currentBuffer_, nextBuffer_, buffers_,
          newBuffer1, newBuffer2, buffersToWrite,  \* locals of threadFunc
          notified,   \* a notify_all reached the waiting logging thread
          tpc,        \* where the logging thread is
          spc,        \* where the thread that calls start() and stop() is
          appended, output, dropped  \* history: append() calls, lines in the
                                     \* file, lines thrown away

front == <<currentBuffer_, nextBuffer_, buffers_>>
back_ == <<newBuffer1, newBuffer2, buffersToWrite>>
hist  == <<appended, output, dropped>>
vars  == <<running_, front, back_, notified, tpc, spc, hist>>

TypeOK ==
  /\ running_ \in BOOLEAN /\ notified \in BOOLEAN
  /\ {currentBuffer_, nextBuffer_, newBuffer1, newBuffer2}
       \subseteq Buffer \cup {Null}
  /\ buffers_ \in Seq(Buffer) /\ buffersToWrite \in Seq(Buffer)
  /\ tpc \in {"none", "while", "lock", "wait", "drop", "write", "recycle", "done"}
  /\ spc \in {"idle", "started", "notify", "join", "stopped"}
  /\ appended \in Seq(Lines)

EmptyBuffer == [data |-> << >>, len |-> 0]

Init ==
  /\ running_ = FALSE /\ notified = FALSE
  /\ currentBuffer_ = EmptyBuffer /\ nextBuffer_ = EmptyBuffer /\ buffers_ = << >>
  /\ newBuffer1 = Null /\ newBuffer2 = Null /\ buffersToWrite = << >>
  /\ tpc = "none" /\ spc = "idle"
  /\ appended = << >> /\ output = << >> /\ dropped = {}

-----------------------------------------------------------------------------
(* FixedBuffer.  append() silently ignores a line that does not leave at   *)
(* least one byte free.                                                    *)
avail(b) == SIZE - b.len

Fits(b, l) == avail(b) > LineLen[l]
Put(b, l) == IF Fits(b, l)
             THEN [data |-> Append(b.data, l), len |-> b.len + LineLen[l]]
             ELSE b

notify_all == notified' = (notified \/ tpc = "wait")

Nulls == (IF newBuffer1 = Null THEN 1 ELSE 0) + (IF newBuffer2 = Null THEN 1 ELSE 0)

-----------------------------------------------------------------------------
(* Deliberate defects of the definitions below, used to see the properties *)
(* fail.                                                                   *)

(* append() takes the spare buffer and forgets to queue the full one.      *)
rotate_losesFull(l) ==
  /\ buffers_' = buffers_
  /\ currentBuffer_' = Put(EmptyBuffer, l)
  /\ nextBuffer_' = Null

(* The logging thread replaces nextBuffer_ even when it is still there.    *)
collect_always ==
  /\ buffersToWrite' = Append(buffers_, currentBuffer_) /\ buffers_' = << >>
  /\ currentBuffer_' = newBuffer1 /\ newBuffer1' = Null
  /\ nextBuffer_' = newBuffer2 /\ newBuffer2' = Null
  /\ tpc' = "drop" /\ notified' = FALSE

(* Only full buffers are collected.                                        *)
collect_fullOnly ==
  /\ buffersToWrite' = buffers_ /\ buffers_' = << >>
  /\ UNCHANGED <<currentBuffer_, newBuffer1, newBuffer2, nextBuffer_>>
  /\ tpc' = "drop" /\ notified' = FALSE

(* wait() instead of wait_for().                                           *)
timeout_none == FALSE

-----------------------------------------------------------------------------
(* Front end.                                                              *)

rotate(l) ==
  /\ buffers_' = Append(buffers_, currentBuffer_)
  /\ currentBuffer_' = Put(IF nextBuffer_ # Null THEN nextBuffer_ ELSE EmptyBuffer, l)
  /\ nextBuffer_' = Null

append(l) ==
  /\ l \notin ToSet(appended) /\ appended' = Append(appended, l)
  /\ \/ /\ Fits(currentBuffer_, l)
        /\ currentBuffer_' = Put(currentBuffer_, l)
        /\ UNCHANGED <<nextBuffer_, buffers_, notified, dropped>>
     \/ /\ ~Fits(currentBuffer_, l)
        /\ rotate(l)
        /\ notify_all
        /\ dropped' = IF Fits(EmptyBuffer, l) THEN dropped ELSE dropped \cup {l}
  /\ UNCHANGED <<running_, back_, tpc, spc, output>>

start ==
  /\ spc = "idle" /\ spc' = "started"
  /\ running_' = TRUE
  /\ tpc' = "while" /\ newBuffer1' = EmptyBuffer /\ newBuffer2' = EmptyBuffer
  /\ UNCHANGED <<front, buffersToWrite, notified, hist>>

(* stop(): the store, the notification (without mutex_) and the join.      *)
stop ==
  /\ spc = "started" /\ spc' = "notify"
  /\ running_' = FALSE
  /\ UNCHANGED <<front, back_, notified, tpc, hist>>

stopNotify ==
  /\ spc = "notify" /\ spc' = "join"
  /\ notify_all
  /\ UNCHANGED <<running_, front, back_, tpc, hist>>

stopJoin ==
  /\ spc = "join" /\ tpc = "done" /\ spc' = "stopped"
  /\ UNCHANGED <<running_, front, back_, notified, tpc, hist>>

-----------------------------------------------------------------------------
(* threadFunc.                                                             *)

whileRunning ==
  /\ tpc = "while" /\ tpc' = IF running_ THEN "lock" ELSE "done"
  /\ UNCHANGED <<running_, front, back_, notified, spc, hist>>

collect ==
  /\ buffersToWrite' = Append(buffers_, currentBuffer_) /\ buffers_' = << >>
  /\ currentBuffer_' = newBuffer1 /\ newBuffer1' = Null
  /\ IF nextBuffer_ = Null
     THEN nextBuffer_' = newBuffer2 /\ newBuffer2' = Null
     ELSE UNCHANGED <<nextBuffer_, newBuffer2>>
  /\ tpc' = "drop" /\ notified' = FALSE

lock ==
  /\ tpc = "lock"
  /\ \/ buffers_ = << >> /\ tpc' = "wait" /\ UNCHANGED <<front, back_, notified>>
     \/ buffers_ # << >> /\ collect
  /\ UNCHANGED <<running_, spc, hist>>

woken ==
  /\ tpc = "wait" /\ notified /\ collect
  /\ UNCHANGED <<running_, spc, hist>>

(* flushInterval_ has passed, or a spurious wake-up.                       *)
timeout ==
  /\ tpc = "wait" /\ ~notified /\ collect
  /\ UNCHANGED <<running_, spc, hist>>

Content(bufs) == FlattenSeq([i \in DOMAIN bufs |-> bufs[i].data])

dropExcess ==
  /\ tpc = "drop" /\ tpc' = "write"
  /\ IF Len(buffersToWrite) > DropLimit
     THEN /\ buffersToWrite' = SubSeq(buffersToWrite, 1, 2)
          /\ dropped' = dropped \cup
               ToSet(Content(SubSeq(buffersToWrite, 3, Len(buffersToWrite))))
     ELSE UNCHANGED <<buffersToWrite, dropped>>
  /\ UNCHANGED <<running_, front, newBuffer1, newBuffer2, notified, spc, appended, output>>

write ==
  /\ tpc = "write" /\ tpc' = "recycle"
  /\ output' = output \o Content(buffersToWrite)
  /\ buffersToWrite' = IF Len(buffersToWrite) > 2 THEN SubSeq(buffersToWrite, 1, 2)
                                                  ELSE buffersToWrite
  /\ UNCHANGED <<running_, front, newBuffer1, newBuffer2, notified, spc, appended, dropped>>

(* Each missing spare takes the last written buffer, reset; what is left   *)
(* is freed.                                                               *)
recycle ==
  /\ tpc = "recycle" /\ tpc' = "while"
  /\ newBuffer1' = IF newBuffer1 = Null THEN EmptyBuffer ELSE newBuffer1
  /\ newBuffer2' = IF newBuffer2 = Null THEN EmptyBuffer ELSE newBuffer2
  /\ buffersToWrite' = << >>
  /\ UNCHANGED <<running_, front, notified, spc, hist>>

-----------------------------------------------------------------------------
(* A stopped logger with nothing left to append may rest.                  *)
terminated == spc = "stopped" /\ UNCHANGED vars

Next ==
  \/ \E l \in Lines : append(l)
  \/ start \/ stop \/ stopNotify \/ stopJoin
  \/ whileRunning \/ lock \/ woken \/ timeout \/ dropExcess \/ write \/ recycle
  \/ terminated

Spec == Init /\ [][Next]_vars

(* Both threads are scheduled, and wait_for does time out.  Nobody has to  *)
(* call start(), stop() or append().                                       *)
Fairness == /\ WF_vars(stopNotify) /\ WF_vars(stopJoin)
            /\ WF_vars(whileRunning \/ lock \/ woken \/ timeout \/ dropExcess
                       \/ write \/ recycle)

FairSpec == Spec /\ Fairness

-----------------------------------------------------------------------------
(* Properties.                                                             *)

(* append() dereferences currentBuffer_ without a test (AsyncLogging.cc:23)*)
(* and threadFunc calls back() without one (93, 100): the spares always    *)
(* suffice, because nextBuffer_ is only missing when append() has queued a *)
(* full buffer that comes back as the second spare.                        *)
BuffersSuffice ==
  /\ currentBuffer_ # Null
  /\ tpc = "recycle" => Len(buffersToWrite) >= Nulls

(* What the logging thread has collected and not written yet, and what is  *)
(* left of a sequence of lines without those in D.                         *)
InFlight == IF tpc \in {"drop", "write"} THEN Content(buffersToWrite) ELSE << >>

Kept(s, D) == FlattenSeq([i \in DOMAIN s |-> IF s[i] \in D THEN << >> ELSE <<s[i]>>])

(* Whatever the interleaving of appends with the exchange of buffers, the  *)
(* lines in the file, in flight and in the buffers are, in the order of    *)
(* append(), all lines but the ones counted as dropped.                    *)
LinesConserved ==
  Kept(appended, dropped)
    = output \o InFlight \o Content(buffers_) \o currentBuffer_.data

(* A line appended while the logger runs reaches the file or is dropped,   *)
(* even if no buffer ever fills up, unless stop() comes first.             *)
LinesReachFile ==
  \A l \in Lines :
    (l \in ToSet(appended) /\ running_)
      ~> (l \in ToSet(output) \/ l \in dropped \/ ~running_)

(* stop() returns although its notification is sent without mutex_ and can *)
(* be lost between the test of running_ and the wait.                      *)
StopReturns == (spc = "notify") ~> (spc = "stopped")
=============================================================================
