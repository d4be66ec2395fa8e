------------------------------- MODULE Logging -------------------------------
(***************************************************************************)
(* Threads that log through Logger into a LogFile that is shared by them   *)
(* (threadSafe), with setOutPut and setFlush bound to its append and flush:*)
(* rolling by size and by day, the flush interval, write errors, and the   *)
(* LOG_FATAL that flushes and aborts while other threads log.              *)
(*                                                                         *)
(* flush() takes no lock: what looks like one declares a pointer that has  *)
(* the name mutex_.  A fflush that meets a fwrite_unlocked, or a file that *)
(* has been closed, is undefined behaviour, and the run ends with it.      *)
(***************************************************************************)
EXTENDS LogStream, FiniteSets

CONSTANTS Threads,
          Messages, FuncLen, FileLen, LineNo,  \* the parts of a line
          BufLines,                            \* lines the stdio buffer holds
          rollSize_, flushInterval_, checkEveryM_, kRollPerseconds_,
          StartTime, MaxTime, MaxLines         \* bounds of the clock and the log

ASSUME LoggingAssumption ==
  /\ \A n \in {rollSize_, flushInterval_, MaxTime, MaxLines, FuncLen, FileLen} : n \in Nat
  /\ Messages \subseteq Nat /\ {10, 32, 58, LineNo} \subseteq PrintedInts
  /\ BufLines \in Nat \ {0} /\ checkEveryM_ \in Nat \ {0} /\ kRollPerseconds_ \in Nat \ {0}
  /\ StartTime \in 1..MaxTime

VARIABLES now, g_logLevel,
          files, file_,             \* every file opened so far; the current one
          count_, startOfPeriod_, lastRoll_, lastFlush_,
          pc, line,                 \* per thread: where it is, the line it logs
          f,                        \* per thread: the file it closes or flushes
          lines, failed             \* history: number of lines, those not written

logFile == <<files, file_, count_, startOfPeriod_, lastRoll_, lastFlush_>>
vars    == <<now, g_logLevel, logFile, pc, line, f, lines, failed>>

(* The levels.  LOG_DEBUG and LOG_INFO are filtered, LOG_WARN, LOG_ERROR   *)
(* and LOG_FATAL are not.                                                  *)
DEBUG == 1
INFO  == 2
WARN  == 3
FATAL == 5

Period(t) == (t \div kRollPerseconds_) * kRollPerseconds_

NoLine  == [id |-> 0, level |-> INFO, len |-> 0]
NewFile == [created |-> now, buf |-> << >>, disk |-> << >>, open |-> TRUE]
Init ==
  /\ now = StartTime /\ g_logLevel = DEBUG /\ files = <<NewFile>> /\ file_ = 1
  /\ count_ = 0 /\ startOfPeriod_ = Period(now) /\ lastRoll_ = now /\ lastFlush_ = now
  /\ pc = [t \in Threads |-> "idle"] /\ f = [t \in Threads |-> 0]
  /\ line = [t \in Threads |-> NoLine]
  /\ lines = 0 /\ failed = {}

goto(t, from, to) == pc[t] = from /\ pc' = [pc EXCEPT ![t] = to]

(* The mutex is held by the thread that is in append().                    *)
Locked == \E t \in Threads : pc[t] \in {"write", "roll", "close"}

(* fflush: the buffered lines of file k go to the disk.                    *)
Flushed(k) == [files EXCEPT ![k].disk = @ \o files[k].buf, ![k].buf = << >>]

(* append() returns to ~Logger: only LOG_FATAL goes on.                    *)
return(t) ==
  \/ line[t].level = FATAL /\ pc' = [pc EXCEPT ![t] = "flush"] /\ UNCHANGED line
  \/ line[t].level # FATAL /\ pc' = [pc EXCEPT ![t] = "idle"]
                           /\ line' = [line EXCEPT ![t] = NoLine]

-----------------------------------------------------------------------------
(* Deliberate defects of the definitions below, used to see the properties *)
(* fail.                                                                   *)

(* LOG_FATAL aborts without flushing.                                      *)
fflush_not(k) == UNCHANGED files

(* The file is rolled a day after it was opened, not with a new day.       *)
NewPeriod_byAge == now - lastRoll_ > kRollPerseconds_

(* The flush comes a second late.                                          *)
FlushDue_offByOne == now - lastFlush_ > flushInterval_ + 1

-----------------------------------------------------------------------------
tick ==
  /\ now < MaxTime /\ now' = now + 1
  /\ UNCHANGED <<g_logLevel, logFile, pc, line, f, lines, failed>>

setLogLevel(level) ==
  /\ g_logLevel # level /\ g_logLevel' = level
  /\ UNCHANGED <<now, logFile, pc, line, f, lines, failed>>

(* The length of the line: Logger puts the function in front of a message, *)
(* and Impl::finish the place behind it.  Characters are printed as ints.  *)
finish(cur)  == formatInteger(formatInteger(formatInteger(
                  append(append(cur, 3), FileLen), 58), LineNo), 10)
LineLen(msg) == finish(append(formatInteger(append(0, FuncLen), 32), msg))

Enabled(level) == level # INFO \/ g_logLevel <= INFO

(* A LOG statement up to the lock in LogFile::append.                      *)
log(t, level, msg) ==
  /\ Enabled(level) /\ lines < MaxLines /\ ~Locked /\ goto(t, "idle", "write")
  /\ line' = [line EXCEPT ![t] = [id |-> lines + 1, level |-> level, len |-> LineLen(msg)]]
  /\ lines' = lines + 1
  /\ UNCHANGED <<now, g_logLevel, logFile, f, failed>>

NewPeriod == Period(now) # startOfPeriod_
FlushDue  == now - lastFlush_ > flushInterval_

(* AppendFile::append left n bytes in writtenBytes_: should the file roll? *)
append_unlocked(t, n, written) ==
  LET check == count_ + 1 >= checkEveryM_
      rolls == n > rollSize_ \/ (check /\ NewPeriod) IN
  /\ pc[t] = "write"
  /\ count_' = IF n > rollSize_ THEN count_ ELSE IF check THEN 0 ELSE count_ + 1
  /\ IF rolls THEN goto(t, "write", "roll") /\ UNCHANGED line ELSE return(t)
  /\ IF ~rolls /\ check /\ FlushDue
     THEN /\ lastFlush_' = now
          /\ files' = [written EXCEPT ![file_].disk = @ \o written[file_].buf,
                                      ![file_].buf = << >>]
     ELSE files' = written /\ UNCHANGED lastFlush_

(* fwrite_unlocked succeeds; a full stdio buffer is written out before.    *)
write(t) ==
  LET entry == [id |-> line[t].id, len |-> line[t].len, time |-> now]
      room  == IF Len(files[file_].buf) < BufLines THEN files ELSE Flushed(file_) IN
  /\ append_unlocked(t, line[t].len, [room EXCEPT ![file_].buf = Append(@, entry)])
  /\ UNCHANGED <<now, g_logLevel, file_, startOfPeriod_, lastRoll_, f, lines, failed>>

(* fwrite_unlocked fails; what is left of the line is given up.            *)
writeFails(t) ==
  /\ append_unlocked(t, 0, files) /\ failed' = failed \cup {line[t].id}
  /\ UNCHANGED <<now, g_logLevel, file_, startOfPeriod_, lastRoll_, f, lines>>

rollFile(t) ==
  /\ IF now > lastRoll_
     THEN /\ goto(t, "roll", "close") /\ f' = [f EXCEPT ![t] = file_] /\ UNCHANGED line
          /\ lastRoll_' = now /\ lastFlush_' = now /\ startOfPeriod_' = Period(now)
          /\ files' = Append(files, NewFile) /\ file_' = Len(files) + 1
     ELSE /\ pc[t] = "roll" /\ return(t)
          /\ UNCHANGED <<f, files, file_, startOfPeriod_, lastRoll_, lastFlush_>>
  /\ UNCHANGED <<now, g_logLevel, count_, lines, failed>>

(* file_.reset destroys the old AppendFile, which closes it.               *)
fclose(t) ==
  /\ pc[t] = "close" /\ return(t) /\ f' = [f EXCEPT ![t] = 0]
  /\ files' = [Flushed(f[t]) EXCEPT ![f[t]].open = FALSE]
  /\ UNCHANGED <<now, g_logLevel, file_, count_, startOfPeriod_, lastRoll_, lastFlush_,
                 lines, failed>>

-----------------------------------------------------------------------------
(* ~Logger of a LOG_FATAL, after the output.                               *)

flush(t) ==
  /\ goto(t, "flush", "fflush") /\ f' = [f EXCEPT ![t] = file_]
  /\ UNCHANGED <<now, g_logLevel, logFile, line, lines, failed>>

fflush(k) == files' = Flushed(k)

Races(t) == ~files[f[t]].open \/ \E u \in Threads : pc[u] = "write" /\ f[t] = file_

abort(t) ==
  /\ goto(t, "fflush", "aborted") /\ ~Races(t) /\ fflush(f[t])
  /\ UNCHANGED <<now, g_logLevel, file_, count_, startOfPeriod_, lastRoll_, lastFlush_, line,
                 f, lines, failed>>

undefined(t) ==
  /\ goto(t, "fflush", "undefined") /\ Races(t)
  /\ UNCHANGED <<now, g_logLevel, logFile, line, f, lines, failed>>

-----------------------------------------------------------------------------
Running == \A t \in Threads : pc[t] \notin {"aborted", "undefined"}

Next ==
  /\ Running
  /\ \/ tick \/ \E level \in {DEBUG, WARN} : setLogLevel(level)
     \/ \E t \in Threads :
          \/ write(t) \/ writeFails(t) \/ rollFile(t) \/ fclose(t)
          \/ flush(t) \/ abort(t) \/ undefined(t)
          \/ \E level \in {INFO, FATAL}, msg \in Messages : log(t, level, msg)

Spec == Init /\ [][Next]_vars

-----------------------------------------------------------------------------
Ids(s) == {s[i].id : i \in DOMAIN s}

(* Logging.cc:47-52.  The line of a LOG_FATAL is in the file when the      *)
(* process aborts, unless it could not be written, or another thread has   *)
(* just put a new file in place of the one that holds it, which the flush  *)
(* without the lock then misses, and not closed that one yet.              *)
FatalReachesDisk ==
  \A t \in Threads : pc[t] = "aborted" =>
    \/ line[t].id \in failed
    \/ \E k \in DOMAIN files : line[t].id \in Ids(files[k].disk)
    \/ \E u \in Threads : pc[u] = "close" /\ line[t].id \in Ids(files[f[u]].buf)

Lines(k) == files[k].disk \o files[k].buf

(* LogFile.cc:100-115 and 131.  A file holds at most checkEveryM_ lines of *)
(* later days than its own, and a line longer than rollSize_ is the last   *)
(* one of its file, or was written in the second in which it was opened.   *)
RollsWhenDue ==
  \A k \in DOMAIN files :
    /\ Cardinality({i \in DOMAIN Lines(k) :
                      Period(Lines(k)[i].time) # Period(files[k].created)}) <= checkEveryM_
    /\ \A i \in 1..(Len(Lines(k)) - 1) :
         Lines(k)[i].len > rollSize_ => Lines(k)[i].time = files[k].created

(* LogFile.cc:106-120.  Between appends, no line is in the stdio buffer    *)
(* that is followed by checkEveryM_ lines, all of them more than           *)
(* flushInterval_ later.                                                   *)
FlushedInTime ==
  ~Locked => \A i \in 1..(Len(files[file_].buf) - checkEveryM_) :
    files[file_].buf[i + 1].time - files[file_].buf[i].time <= flushInterval_

(* LogStream.cc:3-27 and 29-40.  Zero and the negative integers are        *)
(* printed as their decimal numbers, without a leading zero, however close *)
(* to the smallest int they are; a positive integer gets as many           *)
(* characters as its negative, though not the right ones, since digits[]   *)
(* has no "1" for it.  Behind a line of any length that is logged, the     *)
(* characters and the NUL that ends them stay within the buffer.           *)
ConvertRight ==
  Converted /\ \A t \in Threads, v \in PrintedInts : formatInteger(line[t].len, v) < SIZE
=============================================================================
