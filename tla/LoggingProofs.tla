---------------------------- MODULE LoggingProofs ----------------------------
(***************************************************************************)
(* What the log files hold and when, for any number of threads and lines.  *)
(* What integers are printed as, whatever their width.                     *)
(***************************************************************************)
EXTENDS Logging, SequenceTheorems, FiniteSetTheorems, WellFoundedInduction, TLAPS

Lens == {LineLen(m) : m \in Messages} \cup {0}
Item == [id : Nat, len : Lens, time : Nat]
File == [created : Nat, buf : Seq(Item), disk : Seq(Item), open : BOOLEAN]
Line == [id : Nat, level : {INFO, FATAL}, len : Lens]
Points == {"idle", "write", "roll", "close", "flush", "fflush", "aborted", "undefined"}

Types ==
  /\ now \in Nat /\ files \in Seq(File) /\ files # << >> /\ file_ = Len(files)
  /\ count_ \in 0..(checkEveryM_ - 1) /\ lastRoll_ \in Nat /\ lastFlush_ \in Nat
  /\ pc \in [Threads -> Points] /\ line \in [Threads -> Line] /\ f \in [Threads -> Nat]
  /\ lines \in Nat
  /\ \A t \in Threads : pc[t] \in {"close", "fflush"} => f[t] \in 1..Len(files)

(* append() is under the mutex.                                            *)
LockInv ==
  \A t, u \in Threads : pc[t] \in {"write", "roll", "close"} /\ pc[u] \in {"write", "roll", "close"}
                          => t = u

(* Line x could not be written, or is on disk, or will be there when a     *)
(* file is closed.                                                         *)
Safe(x) ==
  \/ x \in failed
  \/ \E k \in 1..Len(files) : x \in Ids(files[k].disk)
  \/ \E u \in Threads : pc[u] = "close" /\ x \in Ids(files[f[u]].buf)

(* A line that was written and is not on disk is in the current file, in   *)
(* one that is being closed or in the one that is about to be flushed.     *)
FatalAt(t) ==
  /\ pc[t] \in {"roll", "close", "flush"} =>
       Safe(line[t].id) \/ line[t].id \in Ids(files[file_].buf)
  /\ pc[t] = "fflush" => Safe(line[t].id) \/ line[t].id \in Ids(files[f[t]].buf)
  /\ pc[t] = "aborted" => Safe(line[t].id)
FatalInv == \A t \in Threads : FatalAt(t)

(* The lines of the stdio buffer are not older than the last flush, and    *)
(* only the last count_ of them may be late.                               *)
FlushInv ==
  /\ lastRoll_ <= lastFlush_ /\ lastFlush_ <= now
  /\ \A i \in 1..Len(files[file_].buf) :
       lastFlush_ <= files[file_].buf[i].time /\ files[file_].buf[i].time <= now
  /\ (\A t \in Threads : pc[t] # "roll") =>
       \A i \in 1..(Len(files[file_].buf) - count_) :
         files[file_].buf[i].time <= lastFlush_ + flushInterval_

(* The lines of a file with the lines s that was opened at time c which    *)
(* belong to another day than the file.                                    *)
Late(s, c) == {i \in DOMAIN s : Period(s[i].time) # Period(c)}

(* What RollsWhenDue says of that file.                                    *)
RollsOK(s, c) ==
  /\ Cardinality(Late(s, c)) <= checkEveryM_
  /\ \A i \in 1..(Len(s) - 1) : s[i].len > rollSize_ => s[i].time = c

(* The current file was opened with the last roll; unless it is about to   *)
(* roll, its late lines are counted by count_ and no line is too long.     *)
RollInv ==
  /\ files[file_].created = lastRoll_ /\ startOfPeriod_ = Period(lastRoll_) /\ lastRoll_ <= now
  /\ \A i \in 1..Len(Lines(file_)) :
       lastRoll_ <= Lines(file_)[i].time /\ Lines(file_)[i].time <= now
  /\ (\A t \in Threads : pc[t] # "roll") =>
       /\ Cardinality(Late(Lines(file_), lastRoll_)) <= count_
       /\ \A i \in 1..Len(Lines(file_)) : Lines(file_)[i].len > rollSize_ =>
                                            Lines(file_)[i].time = lastRoll_

-----------------------------------------------------------------------------
(* Files.                                                                  *)

(* A file whose stdio buffer was written out, and one with one line more.  *)
Written(x)  == [x EXCEPT !.disk = @ \o x.buf, !.buf = << >>]
Longer(x, e) == [x EXCEPT !.buf = Append(@, e)]

LEMMA FileFacts ==
  ASSUME NEW x \in File
  PROVE  /\ x.created \in Nat /\ x.buf \in Seq(Item) /\ x.disk \in Seq(Item) /\ x.open \in BOOLEAN
         /\ x.disk \o x.buf \in Seq(Item)
<1>1. x.created \in Nat /\ x.buf \in Seq(Item) /\ x.disk \in Seq(Item) /\ x.open \in BOOLEAN
  BY DEF File
<1>2. x.disk \o x.buf \in Seq(Item)
  BY <1>1, ConcatProperties
<1> QED BY <1>1, <1>2

LEMMA WrittenFacts ==
  ASSUME NEW x \in File
  PROVE  /\ Written(x) \in File /\ Written(x).buf = << >> /\ Written(x).disk = x.disk \o x.buf
         /\ Written(x).created = x.created /\ Written(x).open = x.open
         /\ Written(x).disk \o Written(x).buf = x.disk \o x.buf
<1> DEFINE d == x.disk \o x.buf
<1>1. d \in Seq(Item)
  BY FileFacts
<1>2. Written(x) = [x EXCEPT !.disk = d, !.buf = << >>]
  BY DEF Written
<1> HIDE DEF d
<1>3. << >> \in Seq(Item)
  OBVIOUS
<1>4. /\ Written(x) \in File /\ Written(x).buf = << >> /\ Written(x).disk = d
      /\ Written(x).created = x.created /\ Written(x).open = x.open
  BY <1>1, <1>2, <1>3 DEF File
<1>5. d \o << >> = d
  BY <1>1, ConcatEmptySeq
<1> QED BY <1>4, <1>5 DEF d

LEMMA LongerFacts ==
  ASSUME NEW x \in File, NEW e \in Item
  PROVE  /\ Longer(x, e) \in File /\ Longer(x, e).buf = Append(x.buf, e)
         /\ Longer(x, e).disk = x.disk /\ Longer(x, e).created = x.created
         /\ Longer(x, e).open = x.open
         /\ Longer(x, e).disk \o Longer(x, e).buf = Append(x.disk \o x.buf, e)
<1> DEFINE b == Append(x.buf, e)
<1>1. x.buf \in Seq(Item) /\ x.disk \in Seq(Item) /\ b \in Seq(Item)
  BY FileFacts, AppendProperties
<1>2. Longer(x, e) = [x EXCEPT !.buf = b]
  BY DEF Longer
<1> HIDE DEF b
<1>3. /\ Longer(x, e) \in File /\ Longer(x, e).buf = b /\ Longer(x, e).disk = x.disk
      /\ Longer(x, e).created = x.created /\ Longer(x, e).open = x.open
  BY <1>1, <1>2 DEF File
<1>4. x.disk \o Append(x.buf, e) = Append(x.disk \o x.buf, e)
  <2>1. PICK p \in Seq(Item), q \in Seq(Item) : p = x.disk /\ q = x.buf
    BY <1>1
  <2>2. p \o Append(q, e) = Append(p \o q, e)
    OBVIOUS
  <2> QED BY <2>1, <2>2
<1> QED BY <1>3, <1>4 DEF b

LEMMA IdsFacts ==
  /\ \A p, q \in Seq(Item) : Ids(p \o q) = Ids(p) \cup Ids(q)
  /\ \A p \in Seq(Item), e \in Item : Ids(Append(p, e)) = Ids(p) \cup {e.id}
  /\ Ids(<< >>) = {}
<1>1. ASSUME NEW p \in Seq(Item), NEW q \in Seq(Item) PROVE Ids(p \o q) = Ids(p) \cup Ids(q)
  <2> DEFINE m == Len(p)
             n == Len(q)
             r == p \o q
  <2>1. m \in Nat /\ n \in Nat /\ r \in Seq(Item) /\ Len(r) = m + n
    BY ConcatProperties
  <2>2. \A i \in 1..(m + n) : r[i] = IF i <= m THEN p[i] ELSE q[i - m]
    BY ConcatProperties
  <2> HIDE DEF m, n, r
  <2>3. Ids(r) \subseteq Ids(p) \cup Ids(q)
    <3> SUFFICES ASSUME NEW i \in 1..(m + n) PROVE r[i].id \in Ids(p) \cup Ids(q)
      BY <2>1 DEF Ids
    <3>1. CASE i <= m
      <4>1. i \in DOMAIN p /\ r[i] = p[i]
        BY <2>1, <2>2, <3>1 DEF m
      <4> QED BY <4>1 DEF Ids
    <3>2. CASE ~(i <= m)
      <4>1. i - m \in 1..n
        BY <2>1, <3>2
      <4>2. i - m \in DOMAIN q /\ r[i] = q[i - m]
        BY <2>2, <3>2, <4>1 DEF n
      <4> QED BY <4>2 DEF Ids
    <3> QED BY <3>1, <3>2
  <2>4. Ids(p) \subseteq Ids(r)
    <3> SUFFICES ASSUME NEW i \in 1..m PROVE p[i].id \in Ids(r)
      BY DEF Ids, m
    <3>1. i \in 1..(m + n) /\ i <= m
      BY <2>1
    <3>2. i \in DOMAIN r /\ r[i] = p[i]
      BY <2>1, <2>2, <3>1
    <3> QED BY <3>2 DEF Ids
  <2>5. Ids(q) \subseteq Ids(r)
    <3> SUFFICES ASSUME NEW i \in 1..n PROVE q[i].id \in Ids(r)
      BY DEF Ids, n
    <3>1. i + m \in 1..(m + n) /\ ~(i + m <= m) /\ (i + m) - m = i
      BY <2>1
    <3>2. i + m \in DOMAIN r /\ r[i + m] = q[i]
      BY <2>1, <2>2, <3>1
    <3> QED BY <3>2 DEF Ids
  <2> QED BY <2>3, <2>4, <2>5 DEF r
<1>2. ASSUME NEW p \in Seq(Item), NEW e \in Item PROVE Ids(Append(p, e)) = Ids(p) \cup {e.id}
  <2> DEFINE n == Len(p)
             r == Append(p, e)
  <2>1. n \in Nat /\ Len(r) = n + 1 /\ r[n + 1] = e /\ r \in Seq(Item)
    BY AppendProperties
  <2>2. \A i \in 1..n : r[i] = p[i]
    BY AppendProperties
  <2> HIDE DEF n, r
  <2>3. 1..(n + 1) = 1..n \cup {n + 1}
    BY <2>1
  <2>4. DOMAIN r = 1..n \cup {n + 1} /\ DOMAIN p = 1..n
    BY <2>1, <2>3 DEF n
  <2> QED BY <2>1, <2>2, <2>4 DEF Ids, r
<1>3. Ids(<< >>) = {}
  BY DEF Ids
<1> QED BY <1>1, <1>2, <1>3

LEMMA FlushedFacts ==
  ASSUME Types, NEW k \in 1..Len(files)
  PROVE  /\ Flushed(k) = [files EXCEPT ![k] = Written(files[k])] /\ Flushed(k) \in Seq(File)
         /\ Len(Flushed(k)) = Len(files) /\ Flushed(k)[k] = Written(files[k])
         /\ \A j \in 1..Len(files) : j # k => Flushed(k)[j] = files[j]
<1>1. files \in Seq(File) /\ files[k] \in File
  BY DEF Types
<1>2. Flushed(k) = [files EXCEPT ![k] = Written(files[k])]
  BY <1>1 DEF Flushed, Written
<1>3. Written(files[k]) \in File
  BY <1>1, WrittenFacts
<1> QED BY <1>1, <1>2, <1>3

-----------------------------------------------------------------------------
(* What the steps do.                                                      *)

(* Only thread t moves.                                                    *)
Moves(t) ==
  \A u \in Threads : u # t => pc'[u] = pc[u] /\ line'[u] = line[u] /\ f'[u] = f[u]

(* append() of line e makes file x file y.                                 *)
Appended(x, y, e) ==
  /\ y \in File /\ y.created = x.created /\ y.open = x.open
  /\ y.disk \o y.buf = Append(x.disk \o x.buf, e)
  /\ Ids(x.disk) \subseteq Ids(y.disk) /\ Ids(x.buf) \subseteq Ids(y.buf) \cup Ids(y.disk)
  /\ e.id \in Ids(y.buf) \cup Ids(y.disk)
  /\ y.buf = << >> \/ y.buf = Append(<< >>, e) \/ y.buf = Append(x.buf, e)

LEMMA ReturnFacts ==
  ASSUME Types, NEW t \in Threads, return(t)
  PROVE  /\ pc' \in [Threads -> Points] /\ line' \in [Threads -> Line]
         /\ \A u \in Threads : u # t => pc'[u] = pc[u] /\ line'[u] = line[u]
         /\ pc'[t] = "idle" \/ (pc'[t] = "flush" /\ line'[t] = line[t])
<1>1. 0 \in Lens /\ NoLine \in Line
  BY DEF Lens, NoLine, Line
<1>2. pc \in [Threads -> Points] /\ line \in [Threads -> Line]
  BY DEF Types
<1> QED BY <1>1, <1>2 DEF return, Points

LEMMA GotoFacts ==
  ASSUME Types, NEW t \in Threads, NEW a, NEW b \in Points, goto(t, a, b)
  PROVE  /\ pc' \in [Threads -> Points] /\ pc[t] = a /\ pc'[t] = b
         /\ \A u \in Threads : u # t => pc'[u] = pc[u]
BY DEF Types, goto

(* The four ways through append_unlocked.                                  *)
LEMMA AppendCases ==
  ASSUME Types, NEW t \in Threads, NEW n, NEW w, append_unlocked(t, n, w)
  PROVE  /\ pc[t] = "write" /\ pc' \in [Threads -> Points] /\ line' \in [Threads -> Line]
         /\ \A u \in Threads : u # t => pc'[u] = pc[u] /\ line'[u] = line[u]
         /\ count_' \in 0..(checkEveryM_ - 1)
         /\ \/ /\ pc'[t] = "roll" /\ line'[t] = line[t] /\ files' = w /\ lastFlush_' = lastFlush_
               /\ count_' = count_ \/ (NewPeriod /\ ~(n > rollSize_))
            \/ /\ pc'[t] = "idle" \/ (pc'[t] = "flush" /\ line'[t] = line[t])
               /\ ~(n > rollSize_)
               /\ \/ /\ count_' = count_ + 1 /\ count_ + 1 < checkEveryM_
                     /\ files' = w /\ lastFlush_' = lastFlush_
                  \/ /\ count_' = 0 /\ ~NewPeriod /\ ~FlushDue
                     /\ files' = w /\ lastFlush_' = lastFlush_
                  \/ /\ count_' = 0 /\ ~NewPeriod /\ lastFlush_' = now
                     /\ files' = [w EXCEPT ![file_].disk = @ \o w[file_].buf,
                                           ![file_].buf = << >>]
<1> DEFINE check == count_ + 1 >= checkEveryM_
           rolls == n > rollSize_ \/ (check /\ NewPeriod)
<1>1. /\ pc[t] = "write"
      /\ count_' = IF n > rollSize_ THEN count_ ELSE IF check THEN 0 ELSE count_ + 1
      /\ IF rolls THEN goto(t, "write", "roll") /\ UNCHANGED line ELSE return(t)
      /\ IF ~rolls /\ check /\ FlushDue
         THEN /\ lastFlush_' = now
              /\ files' = [w EXCEPT ![file_].disk = @ \o w[file_].buf, ![file_].buf = << >>]
         ELSE files' = w /\ UNCHANGED lastFlush_
  BY DEF append_unlocked
<1>2. count_ \in 0..(checkEveryM_ - 1) /\ checkEveryM_ \in Nat \ {0}
  BY LoggingAssumption DEF Types, LoggingAssumption
<1>3. "roll" \in Points /\ line \in [Threads -> Line]
  BY DEF Points, Types
<1>4. check \in BOOLEAN /\ (~check => count_ + 1 < checkEveryM_)
  BY <1>2
<1> HIDE DEF check
<1>5. count_' \in 0..(checkEveryM_ - 1)
  <2>1. CASE n > rollSize_
    BY <1>1, <1>2, <2>1
  <2>2. CASE ~(n > rollSize_) /\ check
    BY <1>1, <1>2, <2>2
  <2>3. CASE ~(n > rollSize_) /\ ~check
    BY <1>1, <1>2, <1>4, <2>3
  <2> QED BY <2>1, <2>2, <2>3
<1>6. CASE rolls
  <2>1. goto(t, "write", "roll") /\ UNCHANGED <<line, lastFlush_>> /\ files' = w
    BY <1>1, <1>6
  <2>2. count_' = count_ \/ (NewPeriod /\ ~(n > rollSize_))
    BY <1>1, <1>6
  <2> QED BY <1>1, <1>3, <1>5, <2>1, <2>2, GotoFacts
<1>7. CASE ~rolls
  <2>1. return(t) /\ ~(n > rollSize_) /\ (check => ~NewPeriod)
    BY <1>1, <1>7
  <2>2. \/ /\ count_' = count_ + 1 /\ count_ + 1 < checkEveryM_
           /\ files' = w /\ lastFlush_' = lastFlush_
        \/ /\ count_' = 0 /\ ~NewPeriod /\ ~FlushDue
           /\ files' = w /\ lastFlush_' = lastFlush_
        \/ /\ count_' = 0 /\ ~NewPeriod /\ lastFlush_' = now
           /\ files' = [w EXCEPT ![file_].disk = @ \o w[file_].buf, ![file_].buf = << >>]
    BY <1>1, <1>4, <1>7, <2>1
  <2> QED BY <1>1, <1>5, <2>1, <2>2, ReturnFacts
<1> QED BY <1>6, <1>7

LEMMA WrittenAppended ==
  ASSUME NEW x \in File, NEW y, NEW e \in Item, Appended(x, y, e)
  PROVE  Appended(x, Written(y), e) /\ Written(y).buf = << >>
<1>1. y \in File
  BY DEF Appended
<1>2. /\ Written(y) \in File /\ Written(y).buf = << >> /\ Written(y).disk = y.disk \o y.buf
      /\ Written(y).created = y.created /\ Written(y).open = y.open
      /\ Written(y).disk \o Written(y).buf = y.disk \o y.buf
  BY <1>1, WrittenFacts
<1>3. Ids(Written(y).disk) = Ids(y.disk) \cup Ids(y.buf)
  BY <1>1, <1>2, FileFacts, IdsFacts
<1> QED BY <1>2, <1>3 DEF Appended

(* The new line is in the buffer of the current file, or was flushed.      *)
LEMMA WriteFacts ==
  ASSUME Types, NEW t \in Threads, write(t)
  PROVE  \E e \in Item, y \in File :
           /\ e.id = line[t].id /\ e.len = line[t].len /\ e.time = now
           /\ Appended(files[file_], y, e) /\ files' = [files EXCEPT ![file_] = y]
           /\ \/ /\ pc'[t] = "roll" /\ line'[t] = line[t] /\ lastFlush_' = lastFlush_
                 /\ count_' = count_ \/ (NewPeriod /\ ~(e.len > rollSize_))
                 /\ y.buf # << >>
              \/ /\ pc'[t] = "idle" \/ (pc'[t] = "flush" /\ line'[t] = line[t])
                 /\ ~(e.len > rollSize_)
                 /\ \/ /\ count_' = count_ + 1 /\ count_ + 1 < checkEveryM_
                       /\ lastFlush_' = lastFlush_ /\ y.buf # << >>
                    \/ /\ count_' = 0 /\ ~NewPeriod /\ ~FlushDue
                       /\ lastFlush_' = lastFlush_ /\ y.buf # << >>
                    \/ count_' = 0 /\ ~NewPeriod /\ lastFlush_' = now /\ y.buf = << >>
<1> DEFINE x == files[file_]
           e == [id |-> line[t].id, len |-> line[t].len, time |-> now]
           room == IF Len(files[file_].buf) < BufLines THEN files ELSE Flushed(file_)
           r == IF Len(files[file_].buf) < BufLines THEN x ELSE Written(x)
           w == [room EXCEPT ![file_].buf = Append(@, e)]
           y == Longer(r, e)
<1>1. /\ file_ \in 1..Len(files) /\ files \in Seq(File) /\ x \in File
      /\ line[t].id \in Nat /\ line[t].len \in Lens /\ now \in Nat
  <2>1. files \in Seq(File) /\ files # << >> /\ file_ = Len(files)
    BY DEF Types
  <2>2. file_ \in 1..Len(files)
    BY <2>1
  <2>3. line[t] \in Line /\ now \in Nat
    BY DEF Types
  <2> QED BY <2>1, <2>2, <2>3 DEF Line
<1>2. e \in Item
  BY <1>1 DEF Item
<1>3. append_unlocked(t, line[t].len, w)
  BY DEF write
<1> HIDE DEF e
<1>4. room = [files EXCEPT ![file_] = r] /\ r \in File
  BY <1>1, FlushedFacts, WrittenFacts
<1>5. w = [files EXCEPT ![file_] = y]
  <2>1. w = [[files EXCEPT ![file_] = r] EXCEPT ![file_].buf = Append(@, e)]
    BY <1>4
  <2> HIDE DEF r, w, room, x
  <2>2. [files EXCEPT ![file_] = r][file_] = r
    BY <1>1
  <2>3. [[files EXCEPT ![file_] = r] EXCEPT ![file_].buf = Append(@, e)]
          = [[files EXCEPT ![file_] = r] EXCEPT ![file_] = Longer(r, e)]
    BY <1>1, <2>2 DEF Longer
  <2> QED BY <1>1, <2>1, <2>3
<1>6. /\ y \in File /\ y.buf = Append(r.buf, e) /\ y.disk = r.disk /\ y.created = r.created
      /\ y.open = r.open /\ y.disk \o y.buf = Append(r.disk \o r.buf, e)
  BY <1>2, <1>4, LongerFacts
<1>7. /\ r.buf \in Seq(Item) /\ r.disk \in Seq(Item) /\ x.buf \in Seq(Item) /\ x.disk \in Seq(Item)
      /\ x.disk \o x.buf \in Seq(Item)
  BY <1>1, <1>4, FileFacts
<1>8. /\ r.disk \o r.buf = x.disk \o x.buf /\ r.created = x.created /\ r.open = x.open
      /\ r.buf = << >> \/ r.buf = x.buf
      /\ Ids(x.disk) \subseteq Ids(r.disk) /\ Ids(x.buf) \subseteq Ids(r.buf) \cup Ids(r.disk)
  <2>1. CASE r = x
    BY <2>1
  <2>2. CASE r = Written(x)
    <3> HIDE DEF r, x
    <3>1. /\ r.disk = x.disk \o x.buf /\ r.buf = << >> /\ r.created = x.created /\ r.open = x.open
          /\ r.disk \o r.buf = x.disk \o x.buf
      BY <1>1, <2>2, WrittenFacts
    <3>2. Ids(r.disk) = Ids(x.disk) \cup Ids(x.buf)
      BY <1>7, <3>1, IdsFacts
    <3> QED BY <3>1, <3>2
  <2> QED BY <2>1, <2>2
<1>9. Ids(y.buf) = Ids(r.buf) \cup {e.id}
  BY <1>2, <1>6, <1>7, IdsFacts
<1>10. Appended(x, y, e) /\ y.buf # << >>
  <2>1. y.buf # << >>
    BY <1>2, <1>6, <1>7, AppendProperties
  <2> HIDE DEF x, y, r
  <2>2. y.buf = Append(<< >>, e) \/ y.buf = Append(x.buf, e)
    BY <1>6, <1>8
  <2> QED BY <1>6, <1>8, <1>9, <2>1, <2>2 DEF Appended
<1>11. y \in File
  BY <1>6
<1>12. e.id = line[t].id /\ e.len = line[t].len /\ e.time = now
  BY DEF e
<1> HIDE DEF r, y, room
<1>13. w[file_] = y /\ w \in Seq(File) /\ file_ \in DOMAIN w
  <2> HIDE DEF w, x
  <2> QED BY <1>1, <1>5, <1>11
<1>14. CASE files' = w
  <2>1. files' = [files EXCEPT ![file_] = y]
    BY <1>5, <1>14
  <2>2. \/ /\ pc'[t] = "roll" /\ line'[t] = line[t] /\ lastFlush_' = lastFlush_
           /\ count_' = count_ \/ (NewPeriod /\ ~(e.len > rollSize_))
        \/ /\ pc'[t] = "idle" \/ (pc'[t] = "flush" /\ line'[t] = line[t])
           /\ ~(e.len > rollSize_)
           /\ \/ /\ count_' = count_ + 1 /\ count_ + 1 < checkEveryM_
                 /\ lastFlush_' = lastFlush_
              \/ count_' = 0 /\ ~NewPeriod /\ ~FlushDue /\ lastFlush_' = lastFlush_
        \/ files' = [w EXCEPT ![file_].disk = @ \o w[file_].buf, ![file_].buf = << >>]
    <3> HIDE DEF w
    <3> QED BY <1>3, <1>12, AppendCases
  <2>3. files' # [w EXCEPT ![file_].disk = @ \o w[file_].buf, ![file_].buf = << >>]
    <3>1. y.buf # << >> /\ w[file_].buf = y.buf
      BY <1>10, <1>13
    <3> SUFFICES ASSUME files' = [w EXCEPT ![file_].disk = @ \o w[file_].buf, ![file_].buf = << >>]
                 PROVE  FALSE
      OBVIOUS
    <3> HIDE DEF w
    <3>2. files'[file_] = [w[file_] EXCEPT !.disk = @ \o w[file_].buf, !.buf = << >>]
      BY <1>1, <1>13
    <3>3. files'[file_] = Written(y)
      BY <1>13, <3>2 DEF Written
    <3>4. Written(y).buf = << >>
      BY <1>11, WrittenFacts
    <3> QED BY <1>13, <1>14, <3>1, <3>3, <3>4
  <2> QED BY <1>2, <1>10, <1>11, <1>12, <2>1, <2>2, <2>3
<1>15. CASE files' # w
  <2>1. /\ pc'[t] = "idle" \/ (pc'[t] = "flush" /\ line'[t] = line[t])
        /\ ~(e.len > rollSize_)
        /\ count_' = 0 /\ ~NewPeriod /\ lastFlush_' = now
        /\ files' = [w EXCEPT ![file_].disk = @ \o w[file_].buf, ![file_].buf = << >>]
    <3> HIDE DEF w
    <3> QED BY <1>3, <1>12, <1>15, AppendCases
  <2>2. files' = [files EXCEPT ![file_] = Written(y)]
    <3>1. files' = [w EXCEPT ![file_] = Written(y)]
      <4> HIDE DEF w
      <4> QED BY <1>1, <1>13, <2>1 DEF Written
    <3> QED BY <1>1, <1>5, <3>1
  <2>3. Appended(x, Written(y), e) /\ Written(y).buf = << >> /\ Written(y) \in File
    BY <1>1, <1>2, <1>10, <1>11, WrittenAppended, WrittenFacts
  <2> QED BY <1>2, <1>12, <2>1, <2>2, <2>3
<1> QED BY <1>14, <1>15

LEMMA CurrentFile ==
  ASSUME Types
  PROVE  /\ file_ \in 1..Len(files) /\ files[file_] \in File /\ Len(files) \in Nat
         /\ \A k \in 1..Len(files) : files[k] \in File
<1>1. files \in Seq(File) /\ files # << >> /\ file_ = Len(files)
  BY DEF Types
<1>2. file_ \in 1..Len(files) /\ Len(files) \in Nat
  BY <1>1
<1> QED BY <1>1, <1>2

LEMMA WriteFailsFacts ==
  ASSUME Types, NEW t \in Threads, writeFails(t)
  PROVE  /\ failed' = failed \cup {line[t].id} /\ UNCHANGED <<now, file_, startOfPeriod_, lastRoll_, f, lines>>
         /\ \/ /\ pc'[t] = "roll" /\ line'[t] = line[t] /\ files' = files /\ lastFlush_' = lastFlush_
               /\ count_' = count_ \/ NewPeriod
            \/ /\ pc'[t] = "idle" \/ (pc'[t] = "flush" /\ line'[t] = line[t])
               /\ \/ count_' = count_ + 1 /\ files' = files /\ lastFlush_' = lastFlush_
                  \/ /\ count_' = 0 /\ ~NewPeriod /\ ~FlushDue
                     /\ files' = files /\ lastFlush_' = lastFlush_
                  \/ count_' = 0 /\ ~NewPeriod /\ lastFlush_' = now /\ files' = Flushed(file_)
<1>1. append_unlocked(t, 0, files) /\ failed' = failed \cup {line[t].id}
      /\ UNCHANGED <<now, file_, startOfPeriod_, lastRoll_, f, lines>>
  BY DEF writeFails
<1> QED BY <1>1, AppendCases DEF Flushed

LEMMA CloseFacts ==
  ASSUME Types, NEW t \in Threads, fclose(t)
  PROVE  /\ pc[t] = "close" /\ f[t] \in 1..Len(files)
         /\ files' \in Seq(File) /\ Len(files') = Len(files)
         /\ \A k \in 1..Len(files) : k # f[t] => files'[k] = files[k]
         /\ files'[f[t]].buf = << >>
         /\ files'[f[t]].disk = files[f[t]].disk \o files[f[t]].buf
         /\ files'[f[t]].created = files[f[t]].created
         /\ files'[f[t]].disk \o files'[f[t]].buf = files[f[t]].disk \o files[f[t]].buf
<1>1. pc[t] = "close" /\ files' = [Flushed(f[t]) EXCEPT ![f[t]].open = FALSE]
  BY DEF fclose
<1>2. PICK k \in 1..Len(files) : k = f[t]
  BY <1>1 DEF Types
<1>3. /\ Flushed(k) \in Seq(File) /\ Len(Flushed(k)) = Len(files) /\ Flushed(k)[k] = Written(files[k])
      /\ \A j \in 1..Len(files) : j # k => Flushed(k)[j] = files[j]
  BY <1>2, FlushedFacts
<1>4. files[k] \in File
  BY CurrentFile
<1> DEFINE x == Written(files[k])
           y == [x EXCEPT !.open = FALSE]
<1>5. /\ x \in File /\ x.buf = << >> /\ x.disk = files[k].disk \o files[k].buf
      /\ x.created = files[k].created /\ x.disk \o x.buf = files[k].disk \o files[k].buf
  BY <1>4, WrittenFacts
<1> HIDE DEF x
<1>6. y \in File /\ y.buf = x.buf /\ y.disk = x.disk /\ y.created = x.created
  BY <1>5 DEF File
<1>7. files' = [Flushed(k) EXCEPT ![k] = y]
  BY <1>1, <1>2, <1>3 DEF x
<1> HIDE DEF y
<1>8. /\ files' \in Seq(File) /\ Len(files') = Len(files) /\ files'[k] = y
      /\ \A j \in 1..Len(files) : j # k => files'[j] = files[j]
  <2>1. PICK g \in Seq(File) : g = Flushed(k) /\ Len(g) = Len(files)
    BY <1>3
  <2>2. files' = [g EXCEPT ![k] = y]
    BY <1>7, <2>1
  <2>3. files' \in Seq(File) /\ Len(files') = Len(g) /\ files'[k] = y
        /\ \A j \in 1..Len(g) : j # k => files'[j] = g[j]
    BY <1>6, <2>1, <2>2
  <2> QED BY <1>3, <2>1, <2>3
<1> QED BY <1>1, <1>2, <1>5, <1>6, <1>8

LEMMA RollFacts ==
  ASSUME Types, NEW t \in Threads, rollFile(t)
  PROVE  /\ pc[t] = "roll" /\ UNCHANGED <<now, count_, lines, failed>>
         /\ pc' \in [Threads -> Points] /\ line' \in [Threads -> Line] /\ f' \in [Threads -> Nat]
         /\ Moves(t)
         /\ \/ /\ now > lastRoll_ /\ pc'[t] = "close" /\ f'[t] = file_ /\ line' = line
               /\ lastRoll_' = now /\ lastFlush_' = now /\ startOfPeriod_' = Period(now)
               /\ file_' = file_ + 1 /\ files' \in Seq(File) /\ Len(files') = Len(files) + 1
               /\ files'[file_ + 1].buf = << >> /\ files'[file_ + 1].disk = << >>
               /\ files'[file_ + 1].created = now
               /\ \A k \in 1..Len(files) : files'[k] = files[k]
            \/ /\ ~(now > lastRoll_)
               /\ pc'[t] = "idle" \/ (pc'[t] = "flush" /\ line'[t] = line[t])
               /\ UNCHANGED <<f, files, file_, startOfPeriod_, lastRoll_, lastFlush_>>
<1>1. /\ UNCHANGED <<now, count_, lines, failed>> /\ file_ = Len(files) /\ now \in Nat
      /\ files \in Seq(File) /\ f \in [Threads -> Nat] /\ line \in [Threads -> Line] /\ file_ \in Nat
  BY CurrentFile DEF rollFile, Types
<1>2. CASE now > lastRoll_
  <2>1. /\ goto(t, "roll", "close") /\ f' = [f EXCEPT ![t] = file_] /\ UNCHANGED line
        /\ lastRoll_' = now /\ lastFlush_' = now /\ startOfPeriod_' = Period(now)
        /\ files' = Append(files, NewFile) /\ file_' = Len(files) + 1
    BY <1>2 DEF rollFile
  <2>2. NewFile \in File /\ NewFile.buf = << >> /\ NewFile.disk = << >> /\ NewFile.created = now
    <3>1. << >> \in Seq(Item)
      OBVIOUS
    <3> QED BY <1>1, <3>1 DEF NewFile, File
  <2> DEFINE n == NewFile
  <2> HIDE DEF n
  <2>3. /\ files' \in Seq(File) /\ Len(files') = Len(files) + 1 /\ files'[Len(files) + 1] = n
        /\ \A k \in 1..Len(files) : files'[k] = files[k]
    BY <1>1, <2>1, <2>2, AppendProperties DEF n
  <2>4. "close" \in Points
    BY DEF Points
  <2>5. /\ pc' \in [Threads -> Points] /\ pc[t] = "roll" /\ pc'[t] = "close"
        /\ \A u \in Threads : u # t => pc'[u] = pc[u]
    BY <2>1, <2>4, GotoFacts
  <2>6. f' \in [Threads -> Nat] /\ f'[t] = file_ /\ \A u \in Threads : u # t => f'[u] = f[u]
    BY <1>1, <2>1
  <2> QED BY <1>1, <1>2, <2>1, <2>2, <2>3, <2>5, <2>6 DEF n, Moves
<1>3. CASE ~(now > lastRoll_)
  <2>1. /\ pc[t] = "roll" /\ return(t)
        /\ UNCHANGED <<f, files, file_, startOfPeriod_, lastRoll_, lastFlush_>>
    BY <1>3 DEF rollFile
  <2> QED BY <1>1, <1>3, <2>1, ReturnFacts DEF Moves
<1> QED BY <1>2, <1>3

LEMMA TypesStep == ASSUME Types, [Next]_vars PROVE Types'
<1> USE DEF logFile
<1>1. CASE tick \/ (\E level \in {DEBUG, WARN} : setLogLevel(level)) \/ UNCHANGED vars
  BY <1>1 DEF tick, setLogLevel, vars, Types
<1>2. ASSUME NEW t \in Threads, write(t) PROVE Types'
  <2>1. PICK y \in File : files' = [files EXCEPT ![file_] = y] /\ lastFlush_' \in {now, lastFlush_}
    BY <1>2, WriteFacts
  <2>2. files' \in Seq(File) /\ Len(files') = Len(files) /\ files' # << >>
    BY <2>1, CurrentFile DEF Types
  <2>3. append_unlocked(t, line[t].len, [IF Len(files[file_].buf) < BufLines THEN files ELSE Flushed(file_)
           EXCEPT ![file_].buf = Append(@, [id |-> line[t].id, len |-> line[t].len, time |-> now])])
    BY <1>2 DEF write
  <2>4. /\ pc' \in [Threads -> Points] /\ line' \in [Threads -> Line] /\ count_' \in 0..(checkEveryM_ - 1)
        /\ \A u \in Threads : u # t => pc'[u] = pc[u]
        /\ pc'[t] \in {"roll", "idle", "flush"}
    BY <2>3, AppendCases
  <2>5. UNCHANGED <<now, file_, lastRoll_, f, lines>>
    BY <1>2 DEF write
  <2> QED BY <2>1, <2>2, <2>4, <2>5 DEF Types
<1>3. ASSUME NEW t \in Threads, writeFails(t) PROVE Types'
  <2>1. append_unlocked(t, 0, files)
    BY <1>3 DEF writeFails
  <2>2. /\ pc' \in [Threads -> Points] /\ line' \in [Threads -> Line] /\ count_' \in 0..(checkEveryM_ - 1)
        /\ \A u \in Threads : u # t => pc'[u] = pc[u]
        /\ pc'[t] \in {"roll", "idle", "flush"}
    BY <2>1, AppendCases
  <2>3. /\ files' = files \/ files' = Flushed(file_)
        /\ lastFlush_' \in {now, lastFlush_} /\ UNCHANGED <<now, file_, lastRoll_, f, lines>>
    BY <1>3, WriteFailsFacts
  <2>4. files' \in Seq(File) /\ Len(files') = Len(files) /\ files' # << >>
    BY <2>3, CurrentFile, FlushedFacts DEF Types
  <2> QED BY <2>2, <2>3, <2>4 DEF Types
<1>4. ASSUME NEW t \in Threads, rollFile(t) PROVE Types'
  <2>1. CASE now > lastRoll_
    <3>1. /\ files' \in Seq(File) /\ Len(files') = Len(files) + 1 /\ file_' = file_ + 1
          /\ pc' \in [Threads -> Points] /\ line' \in [Threads -> Line] /\ f' \in [Threads -> Nat]
          /\ Moves(t) /\ pc'[t] = "close" /\ f'[t] = file_
          /\ lastRoll_' = now /\ lastFlush_' = now /\ UNCHANGED <<now, count_, lines>>
      BY <1>4, <2>1, RollFacts
    <3>2. file_ = Len(files) /\ Len(files) \in Nat /\ file_ \in 1..Len(files)
      BY CurrentFile DEF Types
    <3>3. 1..Len(files) \subseteq 1..Len(files') /\ files' # << >> /\ file_' = Len(files')
      BY <3>1, <3>2
    <3>4. \A u \in Threads : pc'[u] \in {"close", "fflush"} => f'[u] \in 1..Len(files')
      <4> SUFFICES ASSUME NEW u \in Threads, pc'[u] \in {"close", "fflush"}
                   PROVE  f'[u] \in 1..Len(files)
        BY <3>3
      <4>1. CASE u = t
        BY <3>1, <3>2, <4>1
      <4>2. CASE u # t
        BY <3>1, <4>2 DEF Moves, Types
      <4> QED BY <4>1, <4>2
    <3> QED BY <3>1, <3>3, <3>4 DEF Types
  <2>2. CASE ~(now > lastRoll_)
    <3>1. /\ pc' \in [Threads -> Points] /\ line' \in [Threads -> Line] /\ Moves(t)
          /\ pc'[t] \in {"idle", "flush"}
          /\ UNCHANGED <<now, count_, lines, f, files, file_, lastRoll_, lastFlush_>>
      BY <1>4, <2>2, RollFacts
    <3> QED BY <3>1 DEF Types, Moves
  <2> QED BY <2>1, <2>2
<1>5. ASSUME NEW t \in Threads, fclose(t) PROVE Types'
  <2>1. return(t) /\ f' = [f EXCEPT ![t] = 0] /\ UNCHANGED <<now, file_, count_, lastRoll_, lastFlush_, lines>>
    BY <1>5 DEF fclose
  <2>2. /\ pc' \in [Threads -> Points] /\ line' \in [Threads -> Line]
        /\ \A u \in Threads : u # t => pc'[u] = pc[u]
        /\ pc'[t] \in {"idle", "flush"}
    BY <2>1, ReturnFacts
  <2>3. files' \in Seq(File) /\ Len(files') = Len(files)
    BY <1>5, CloseFacts
  <2>4. files' # << >>
    BY <2>3 DEF Types
  <2> QED BY <2>1, <2>2, <2>3, <2>4 DEF Types
<1>6. ASSUME NEW t \in Threads, flush(t) PROVE Types'
  <2>1. goto(t, "flush", "fflush") /\ f' = [f EXCEPT ![t] = file_] /\ "fflush" \in Points
        /\ UNCHANGED <<now, files, file_, count_, lastRoll_, lastFlush_, line, lines>>
    BY <1>6 DEF flush, Points
  <2>2. file_ \in 1..Len(files) /\ file_ \in Nat
    BY CurrentFile DEF Types
  <2> QED BY <2>1, <2>2, GotoFacts DEF Types
<1>7. ASSUME NEW t \in Threads, abort(t) PROVE Types'
  <2>1. goto(t, "fflush", "aborted") /\ files' = Flushed(f[t]) /\ "aborted" \in Points
        /\ UNCHANGED <<now, file_, count_, lastRoll_, lastFlush_, line, f, lines>>
    BY <1>7 DEF abort, fflush, Points
  <2>2. f[t] \in 1..Len(files)
    BY <2>1, GotoFacts DEF Types
  <2>3. files' \in Seq(File) /\ Len(files') = Len(files)
    BY <2>1, <2>2, FlushedFacts
  <2>4. files' # << >>
    BY <2>3 DEF Types
  <2> QED BY <2>1, <2>3, <2>4, GotoFacts DEF Types
<1>8. ASSUME NEW t \in Threads, undefined(t) PROVE Types'
  <2>1. goto(t, "fflush", "undefined") /\ "undefined" \in Points
        /\ UNCHANGED <<now, files, file_, count_, lastRoll_, lastFlush_, line, f, lines>>
    BY <1>8 DEF undefined, Points
  <2> QED BY <2>1, GotoFacts DEF Types
<1>9. ASSUME NEW t \in Threads, NEW level \in {INFO, FATAL}, NEW msg \in Messages, log(t, level, msg)
      PROVE  Types'
  <2>1. /\ goto(t, "idle", "write") /\ lines' = lines + 1 /\ "write" \in Points
        /\ line' = [line EXCEPT ![t] = [id |-> lines + 1, level |-> level, len |-> LineLen(msg)]]
        /\ UNCHANGED <<now, files, file_, count_, lastRoll_, lastFlush_, f>>
    BY <1>9 DEF log, Points
  <2>2. LineLen(msg) \in Lens
    BY DEF Lens
  <2>3. lines + 1 \in Nat
    BY DEF Types
  <2> DEFINE n == LineLen(msg)
             m == lines + 1
  <2> HIDE DEF n, m
  <2>4. [id |-> m, level |-> level, len |-> n] \in Line
    BY <2>2, <2>3 DEF Line, n, m
  <2>5. line' \in [Threads -> Line]
    BY <2>1, <2>4 DEF Types, n, m
  <2> QED BY <2>1, <2>3, <2>5, GotoFacts DEF Types
<1> QED BY <1>1, <1>2, <1>3, <1>4, <1>5, <1>6, <1>7, <1>8, <1>9 DEF Next

(* Every step is one of a single thread, or changes no thread and no file. *)
LEMMA MoveFacts ==
  ASSUME Types, NEW t \in Threads,
         \/ write(t) \/ writeFails(t) \/ rollFile(t) \/ fclose(t) \/ flush(t) \/ abort(t)
         \/ undefined(t)
  PROVE  /\ Moves(t) /\ UNCHANGED now
         /\ pc[t] \in {"write", "roll", "close"} \/ pc'[t] \notin {"write", "roll", "close"}
         /\ pc'[t] # "write"
         /\ pc[t] # "roll" => pc'[t] # "close"
<1>1. f \in [Threads -> Nat]
  BY DEF Types
<1>2. CASE write(t)
  <2>1. append_unlocked(t, line[t].len, [IF Len(files[file_].buf) < BufLines THEN files ELSE Flushed(file_)
           EXCEPT ![file_].buf = Append(@, [id |-> line[t].id, len |-> line[t].len, time |-> now])])
    BY <1>2 DEF write
  <2>2. UNCHANGED <<now, f>>
    BY <1>2 DEF write
  <2>3. /\ pc[t] = "write" /\ pc'[t] \in {"roll", "idle", "flush"}
        /\ \A u \in Threads : u # t => pc'[u] = pc[u] /\ line'[u] = line[u]
    BY <2>1, AppendCases
  <2> QED BY <2>2, <2>3 DEF Moves
<1>3. CASE writeFails(t)
  <2>1. append_unlocked(t, 0, files) /\ UNCHANGED <<now, f>>
    BY <1>3 DEF writeFails
  <2>2. /\ pc[t] = "write" /\ pc'[t] \in {"roll", "idle", "flush"}
        /\ \A u \in Threads : u # t => pc'[u] = pc[u] /\ line'[u] = line[u]
    BY <2>1, AppendCases
  <2> QED BY <2>1, <2>2 DEF Moves
<1>4. CASE rollFile(t)
  <2>1. Moves(t) /\ UNCHANGED now /\ pc[t] = "roll" /\ pc'[t] \in {"close", "idle", "flush"}
    BY <1>4, RollFacts
  <2> QED BY <2>1
<1>5. CASE fclose(t)
  <2>1. pc[t] = "close" /\ return(t) /\ f' = [f EXCEPT ![t] = 0] /\ UNCHANGED now
    BY <1>5 DEF fclose
  <2> QED BY <1>1, <2>1, ReturnFacts DEF Moves
<1>6. CASE flush(t)
  <2>1. goto(t, "flush", "fflush") /\ f' = [f EXCEPT ![t] = file_] /\ "fflush" \in Points
        /\ UNCHANGED <<now, line>>
    BY <1>6 DEF flush, Points
  <2> QED BY <1>1, <2>1, GotoFacts DEF Moves
<1>7. CASE abort(t) \/ undefined(t)
  <2>1. PICK b \in Points : goto(t, "fflush", b) /\ b \in {"aborted", "undefined"}
    BY <1>7 DEF abort, undefined, Points
  <2>2. UNCHANGED <<now, line, f>>
    BY <1>7 DEF abort, undefined
  <2> QED BY <2>1, <2>2, GotoFacts DEF Moves
<1> QED BY <1>2, <1>3, <1>4, <1>5, <1>6, <1>7

LEMMA LockStep == ASSUME Types, LockInv, [Next]_vars PROVE LockInv'
<1>1. CASE tick \/ (\E level \in {DEBUG, WARN} : setLogLevel(level)) \/ UNCHANGED vars
  BY <1>1 DEF tick, setLogLevel, vars, LockInv
<1>2. ASSUME NEW t \in Threads,
             \/ write(t) \/ writeFails(t) \/ rollFile(t) \/ fclose(t) \/ flush(t) \/ abort(t)
             \/ undefined(t)
      PROVE  LockInv'
  BY <1>2, MoveFacts DEF LockInv, Moves
<1>3. ASSUME NEW t \in Threads, NEW level \in {INFO, FATAL}, NEW msg \in Messages, log(t, level, msg)
      PROVE  LockInv'
  <2>1. goto(t, "idle", "write") /\ ~Locked /\ "write" \in Points
    BY <1>3 DEF log, Points
  <2> QED BY <2>1, GotoFacts DEF LockInv, Locked
<1> QED BY <1>1, <1>2, <1>3 DEF Next

-----------------------------------------------------------------------------
(* The line of a LOG_FATAL.                                                *)

(* No line leaves its file: it may only go from the buffer to the disk.    *)
Kept ==
  /\ Len(files) <= Len(files')
  /\ \A k \in 1..Len(files) :
       /\ Ids(files[k].disk) \subseteq Ids(files'[k].disk)
       /\ Ids(files[k].buf) \subseteq Ids(files'[k].buf) \cup Ids(files'[k].disk)

LEMMA SafeKept ==
  ASSUME Types, Types', NEW t \in Threads, Moves(t), Kept, failed \subseteq failed',
         pc[t] = "close" => \A x \in Ids(files[f[t]].buf) : Safe(x)',
         file_' = file_ \/ (pc'[t] = "close" /\ f'[t] = file_)
  PROVE  /\ \A x : Safe(x) => Safe(x)'
         /\ \A x \in Ids(files[file_].buf) : Safe(x)' \/ x \in Ids(files'[file_'].buf)
         /\ \A k \in 1..Len(files) : \A x \in Ids(files[k].buf) : Safe(x)' \/ x \in Ids(files'[k].buf)
<1>1. Len(files) \in Nat /\ Len(files') \in Nat /\ Len(files) <= Len(files')
  BY DEF Types, Kept
<1>2. 1..Len(files) \subseteq 1..Len(files')
  BY <1>1
<1>3. ASSUME NEW k \in 1..Len(files), NEW x \in Ids(files'[k].disk) PROVE Safe(x)'
  BY <1>2, <1>3 DEF Safe
<1>4. ASSUME NEW k \in 1..Len(files), NEW x \in Ids(files[k].buf)
      PROVE  Safe(x)' \/ x \in Ids(files'[k].buf)
  BY <1>3, <1>4 DEF Kept
<1>5. ASSUME NEW x, Safe(x) PROVE Safe(x)'
  <2>1. CASE x \in failed
    BY <2>1 DEF Safe
  <2>2. CASE \E k \in 1..Len(files) : x \in Ids(files[k].disk)
    BY <1>3, <2>2 DEF Kept
  <2>3. CASE \E u \in Threads : pc[u] = "close" /\ x \in Ids(files[f[u]].buf)
    <3>1. PICK u \in Threads : pc[u] = "close" /\ x \in Ids(files[f[u]].buf)
      BY <2>3
    <3>2. CASE u = t
      BY <3>1, <3>2
    <3>3. CASE u # t
      <4>1. pc'[u] = "close" /\ f'[u] = f[u] /\ f[u] \in 1..Len(files)
        BY <3>1, <3>3 DEF Moves, Types
      <4>2. Safe(x)' \/ x \in Ids(files'[f[u]].buf)
        BY <1>4, <3>1, <4>1
      <4> QED BY <4>1, <4>2 DEF Safe
    <3> QED BY <3>2, <3>3
  <2> QED BY <1>5, <2>1, <2>2, <2>3 DEF Safe
<1>6. ASSUME NEW x \in Ids(files[file_].buf) PROVE Safe(x)' \/ x \in Ids(files'[file_'].buf)
  <2>1. Safe(x)' \/ x \in Ids(files'[file_].buf)
    BY <1>4, <1>6, CurrentFile
  <2>2. CASE file_' = file_
    BY <2>1, <2>2
  <2>3. CASE pc'[t] = "close" /\ f'[t] = file_
    BY <2>1, <2>3 DEF Safe
  <2> QED BY <2>2, <2>3
<1> QED BY <1>4, <1>5, <1>6

LEMMA FatalKept ==
  ASSUME Types, Types', FatalInv, NEW t \in Threads, Moves(t), Kept, failed \subseteq failed',
         pc[t] = "close" => \A x \in Ids(files[f[t]].buf) : Safe(x)',
         file_' = file_ \/ (pc'[t] = "close" /\ f'[t] = file_), FatalAt(t)'
  PROVE  FatalInv'
<1> SUFFICES ASSUME NEW u \in Threads, u # t PROVE FatalAt(u)'
  BY DEF FatalInv
<1>1. FatalAt(u) /\ pc'[u] = pc[u] /\ line'[u] = line[u] /\ f'[u] = f[u]
  BY DEF FatalInv, Moves
<1>2. pc[u] = "fflush" => f[u] \in 1..Len(files)
  BY DEF Types
<1>3. /\ Safe(line[u].id) => Safe(line[u].id)'
      /\ line[u].id \in Ids(files[file_].buf) =>
           Safe(line[u].id)' \/ line[u].id \in Ids(files'[file_'].buf)
      /\ pc[u] = "fflush" /\ line[u].id \in Ids(files[f[u]].buf) =>
           Safe(line[u].id)' \/ line[u].id \in Ids(files'[f[u]].buf)
  <2>1. PICK x : x = line[u].id
    OBVIOUS
  <2>2. /\ Safe(x) => Safe(x)'
        /\ x \in Ids(files[file_].buf) => Safe(x)' \/ x \in Ids(files'[file_'].buf)
        /\ pc[u] = "fflush" /\ x \in Ids(files[f[u]].buf) => Safe(x)' \/ x \in Ids(files'[f[u]].buf)
    BY <1>2, SafeKept
  <2>3. line'[u].id = x
    BY <1>1, <2>1
  <2>4. Safe(line[u].id)' <=> Safe(x)'
    BY <2>3 DEF Safe
  <2> QED BY <2>1, <2>2, <2>4
<1> QED BY <1>1, <1>3 DEF FatalAt

(* A flush of file k keeps every line, and puts those of k on disk.        *)
LEMMA FlushKeeps ==
  ASSUME Types, NEW k \in 1..Len(files), NEW g \in Seq(File), Len(g) = Len(files),
         g[k].buf = << >>, g[k].disk = files[k].disk \o files[k].buf,
         \A j \in 1..Len(files) : j # k => g[j] = files[j]
  PROVE  /\ \A j \in 1..Len(files) : /\ Ids(files[j].disk) \subseteq Ids(g[j].disk)
                                     /\ Ids(files[j].buf) \subseteq Ids(g[j].buf) \cup Ids(g[j].disk)
         /\ Ids(files[k].buf) \subseteq Ids(g[k].disk)
<1>1. files[k].disk \in Seq(Item) /\ files[k].buf \in Seq(Item)
  BY CurrentFile, FileFacts
<1>2. Ids(g[k].disk) = Ids(files[k].disk) \cup Ids(files[k].buf)
  BY <1>1, IdsFacts
<1> QED BY <1>2

LEMMA FatalStep == ASSUME Types, Types', FatalInv, [Next]_vars PROVE FatalInv'
<1> USE DEF logFile
<1>1. CASE tick \/ (\E level \in {DEBUG, WARN} : setLogLevel(level)) \/ UNCHANGED vars
  <2>1. UNCHANGED <<files, file_, pc, line, f, failed>>
    BY <1>1 DEF tick, setLogLevel, vars
  <2> QED BY <2>1 DEF FatalInv, FatalAt, Safe
<1>2. ASSUME NEW t \in Threads, write(t) PROVE FatalInv'
  <2>1. PICK e \in Item, y \in File :
          /\ e.id = line[t].id /\ Appended(files[file_], y, e) /\ files' = [files EXCEPT ![file_] = y]
          /\ pc'[t] = "idle" \/ (pc'[t] \in {"roll", "flush"} /\ line'[t] = line[t])
    BY <1>2, WriteFacts
  <2>2. Moves(t) /\ UNCHANGED <<file_, failed, f>> /\ pc[t] # "close"
    <3>1. pc[t] = "write" /\ UNCHANGED <<file_, failed, f>>
      BY <1>2 DEF write, append_unlocked
    <3> QED BY <1>2, <3>1, MoveFacts
  <2>3. files \in Seq(File) /\ file_ \in 1..Len(files)
    BY CurrentFile DEF Types
  <2>4. Len(files') = Len(files) /\ files'[file_] = y
        /\ \A k \in 1..Len(files) : k # file_ => files'[k] = files[k]
    BY <2>1, <2>3
  <2>5. Kept
    <3>1. Len(files) <= Len(files')
      BY <2>3, <2>4
    <3> QED BY <2>1, <2>4, <3>1 DEF Kept, Appended
  <2>6. FatalAt(t)'
    <3>1. line[t].id \in Ids(files'[file_'].buf) \cup Ids(files'[file_'].disk)
      BY <2>1, <2>2, <2>4 DEF Appended
    <3>2. line'[t] = line[t] => Safe(line[t].id)' \/ line'[t].id \in Ids(files'[file_'].buf)
      BY <2>2, <2>3, <2>4, <3>1 DEF Safe
    <3> QED BY <2>1, <3>2 DEF FatalAt
  <2> QED BY <2>2, <2>5, <2>6, FatalKept
<1>3. ASSUME NEW t \in Threads, writeFails(t) PROVE FatalInv'
  <2>1. /\ failed' = failed \cup {line[t].id} /\ UNCHANGED file_
        /\ files' = files \/ files' = Flushed(file_)
        /\ pc'[t] = "idle" \/ (pc'[t] \in {"roll", "flush"} /\ line'[t] = line[t])
    BY <1>3, WriteFailsFacts
  <2>2. Moves(t) /\ pc[t] # "close"
    <3>1. pc[t] = "write"
      BY <1>3 DEF writeFails, append_unlocked
    <3> QED BY <1>3, <3>1, MoveFacts
  <2>3. Kept
    <3>1. CASE files' = files
      BY <3>1, CurrentFile DEF Kept
    <3>2. CASE files' = Flushed(file_)
      <4>1. PICK k \in 1..Len(files) : k = file_
        BY CurrentFile
      <4>2. /\ Flushed(k) \in Seq(File) /\ Len(Flushed(k)) = Len(files)
            /\ Flushed(k)[k].buf = << >> /\ Flushed(k)[k].disk = files[k].disk \o files[k].buf
            /\ \A j \in 1..Len(files) : j # k => Flushed(k)[j] = files[j]
        <5>1. files[k] \in File
          BY CurrentFile
        <5>2. Written(files[k]).buf = << >> /\ Written(files[k]).disk = files[k].disk \o files[k].buf
          BY <5>1, WrittenFacts
        <5> QED BY <5>2, FlushedFacts
      <4>3. Len(files) <= Len(files')
        BY <3>2, <4>1, <4>2, CurrentFile
      <4> QED BY <3>2, <4>1, <4>2, <4>3, FlushKeeps DEF Kept
    <3> QED BY <2>1, <3>1, <3>2
  <2>4. FatalAt(t)'
    <3>1. line'[t] = line[t] => Safe(line[t].id)'
      BY <2>1 DEF Safe
    <3> QED BY <2>1, <3>1 DEF FatalAt
  <2> QED BY <2>1, <2>2, <2>3, <2>4, FatalKept
<1>4. ASSUME NEW t \in Threads, rollFile(t) PROVE FatalInv'
  <2>1. /\ pc[t] = "roll" /\ UNCHANGED failed /\ Moves(t) /\ Len(files) <= Len(files')
        /\ \A k \in 1..Len(files) : files'[k] = files[k]
        /\ \/ file_' = file_ + 1 /\ pc'[t] = "close" /\ f'[t] = file_ /\ line' = line
           \/ /\ pc'[t] = "idle" \/ (pc'[t] = "flush" /\ line'[t] = line[t])
              /\ file_' = file_
    BY <1>4, RollFacts, CurrentFile
  <2>2. Kept
    BY <2>1 DEF Kept
  <2>3. file_' = file_ \/ (pc'[t] = "close" /\ f'[t] = file_)
    BY <2>1
  <2>4. FatalAt(t)'
    <3>1. PICK x : x = line[t].id
      OBVIOUS
    <3>2. Safe(x) \/ x \in Ids(files[file_].buf)
      BY <2>1, <3>1 DEF FatalInv, FatalAt
    <3>3. Safe(x)' \/ x \in Ids(files'[file_'].buf)
      BY <2>1, <2>2, <2>3, <3>2, SafeKept
    <3>4. pc'[t] = "idle" \/ (pc'[t] \in {"close", "flush"} /\ line'[t].id = x)
      BY <2>1, <3>1
    <3>5. line'[t].id = x => (Safe(line[t].id)' <=> Safe(x)')
      BY DEF Safe
    <3> QED BY <3>3, <3>4, <3>5 DEF FatalAt
  <2> QED BY <2>1, <2>2, <2>3, <2>4, FatalKept
<1>5. ASSUME NEW t \in Threads, fclose(t) PROVE FatalInv'
  <2>1. pc[t] = "close" /\ return(t) /\ UNCHANGED <<file_, failed>>
    BY <1>5 DEF fclose
  <2>2. PICK k \in 1..Len(files) : k = f[t]
    BY <2>1 DEF Types
  <2>3. /\ files' \in Seq(File) /\ Len(files') = Len(files)
        /\ \A j \in 1..Len(files) : j # k => files'[j] = files[j]
        /\ files'[k].buf = << >> /\ files'[k].disk = files[k].disk \o files[k].buf
    BY <1>5, <2>2, CloseFacts
  <2>4. Kept /\ \A x \in Ids(files[k].buf) : x \in Ids(files'[k].disk)
    <3>1. Len(files) <= Len(files')
      BY <2>3, CurrentFile
    <3> QED BY <2>3, <3>1, FlushKeeps DEF Kept
  <2>5. \A x \in Ids(files[f[t]].buf) : Safe(x)'
    BY <2>2, <2>3, <2>4 DEF Safe
  <2>6. Moves(t)
    BY <1>5, MoveFacts
  <2>7. FatalAt(t)'
    <3>1. PICK x : x = line[t].id
      OBVIOUS
    <3>2. Safe(x) \/ x \in Ids(files[file_].buf)
      BY <2>1, <3>1 DEF FatalInv, FatalAt
    <3>3. Safe(x)' \/ x \in Ids(files'[file_'].buf)
      BY <2>1, <2>4, <2>5, <2>6, <3>2, SafeKept
    <3>4. pc'[t] = "idle" \/ (pc'[t] = "flush" /\ line'[t].id = x)
      BY <2>1, <3>1, ReturnFacts
    <3>5. line'[t].id = x => (Safe(line[t].id)' <=> Safe(x)')
      BY DEF Safe
    <3> QED BY <3>3, <3>4, <3>5 DEF FatalAt
  <2> QED BY <2>1, <2>4, <2>5, <2>6, <2>7, FatalKept
<1>6. ASSUME NEW t \in Threads, flush(t) \/ undefined(t) PROVE FatalInv'
  <2>1. /\ UNCHANGED <<files, file_, line, failed>>
        /\ \/ pc[t] = "flush" /\ pc'[t] = "fflush" /\ f'[t] = file_
           \/ pc[t] = "fflush" /\ pc'[t] = "undefined"
    BY <1>6 DEF flush, undefined, goto, Types
  <2>2. Moves(t)
    BY <1>6, MoveFacts
  <2>3. Kept
    BY <2>1, CurrentFile DEF Kept
  <2>4. FatalAt(t)'
    <3>1. PICK x : x = line[t].id
      OBVIOUS
    <3>2. pc[t] = "flush" => Safe(x) \/ x \in Ids(files[file_].buf)
      BY <3>1 DEF FatalInv, FatalAt
    <3>3. pc[t] = "flush" => Safe(x)' \/ x \in Ids(files'[file_'].buf)
      BY <2>1, <2>2, <2>3, <3>2, SafeKept
    <3>4. Safe(line[t].id)' <=> Safe(x)'
      BY <2>1, <3>1 DEF Safe
    <3> QED BY <2>1, <3>1, <3>3, <3>4 DEF FatalAt
  <2> QED BY <2>1, <2>2, <2>3, <2>4, FatalKept
<1>7. ASSUME NEW t \in Threads, abort(t) PROVE FatalInv'
  <2>1. /\ pc[t] = "fflush" /\ pc'[t] = "aborted" /\ files' = Flushed(f[t])
        /\ UNCHANGED <<file_, line, failed, f>>
    BY <1>7 DEF abort, fflush, goto, Types
  <2>2. PICK k \in 1..Len(files) : k = f[t]
    BY <2>1 DEF Types
  <2>3. /\ files' \in Seq(File) /\ Len(files') = Len(files)
        /\ files'[k].buf = << >> /\ files'[k].disk = files[k].disk \o files[k].buf
        /\ \A j \in 1..Len(files) : j # k => files'[j] = files[j]
    <3>1. files[k] \in File
      BY CurrentFile
    <3>2. Written(files[k]).buf = << >> /\ Written(files[k]).disk = files[k].disk \o files[k].buf
      BY <3>1, WrittenFacts
    <3>3. /\ Flushed(k) \in Seq(File) /\ Len(Flushed(k)) = Len(files)
          /\ Flushed(k)[k] = Written(files[k])
          /\ \A j \in 1..Len(files) : j # k => Flushed(k)[j] = files[j]
      BY FlushedFacts
    <3> QED BY <2>1, <2>2, <3>2, <3>3
  <2>4. Kept /\ \A x \in Ids(files[k].buf) : x \in Ids(files'[k].disk)
    <3>1. Len(files) <= Len(files')
      BY <2>3, CurrentFile
    <3> QED BY <2>3, <3>1, FlushKeeps DEF Kept
  <2>5. Moves(t)
    BY <1>7, MoveFacts
  <2>6. FatalAt(t)'
    <3>1. PICK x : x = line[t].id
      OBVIOUS
    <3>2. Safe(x) \/ x \in Ids(files[k].buf)
      BY <2>1, <2>2, <3>1 DEF FatalInv, FatalAt
    <3>3. Safe(x)'
      <4>1. CASE Safe(x)
        BY <2>1, <2>4, <2>5, <4>1, SafeKept
      <4>2. CASE x \in Ids(files[k].buf)
        BY <2>3, <2>4, <4>2 DEF Safe
      <4> QED BY <3>2, <4>1, <4>2
    <3>4. Safe(line[t].id)' <=> Safe(x)'
      BY <2>1, <3>1 DEF Safe
    <3> QED BY <2>1, <3>3, <3>4 DEF FatalAt
  <2> QED BY <2>1, <2>4, <2>5, <2>6, FatalKept
<1>8. ASSUME NEW t \in Threads, NEW level \in {INFO, FATAL}, NEW msg \in Messages, log(t, level, msg)
      PROVE  FatalInv'
  <2>1. /\ goto(t, "idle", "write") /\ "write" \in Points /\ UNCHANGED <<files, file_, f, failed>>
        /\ \E z : line' = [line EXCEPT ![t] = z]
    BY <1>8 DEF log, Points
  <2>2. pc[t] = "idle" /\ pc'[t] = "write" /\ \A u \in Threads : u # t => pc'[u] = pc[u]
    BY <2>1, GotoFacts
  <2>3. Moves(t)
    BY <2>1, <2>2 DEF Moves, Types
  <2>4. Kept
    BY <2>1, CurrentFile DEF Kept
  <2>5. FatalAt(t)'
    BY <2>2 DEF FatalAt
  <2> QED BY <2>1, <2>2, <2>3, <2>4, <2>5, FatalKept
<1> QED BY <1>1, <1>2, <1>3, <1>4, <1>5, <1>6, <1>7, <1>8 DEF Next

LEMMA InitFacts ==
  ASSUME Init
  PROVE  /\ Types /\ LockInv
         /\ files[1] \in File /\ Len(files) = 1 /\ file_ = 1 /\ files[1].created = now
         /\ files[1].buf = << >> /\ files[1].disk = << >>
<1>1. NewFile \in File /\ NewFile.buf = << >> /\ NewFile.disk = << >> /\ NewFile.created = now
  <2>1. << >> \in Seq(Item) /\ now \in Nat
    BY LoggingAssumption DEF LoggingAssumption, Init
  <2> QED BY <2>1 DEF NewFile, File
<1>2. 0 \in Lens /\ NoLine \in Line
  BY DEF Lens, NoLine, Line
<1> DEFINE n == NewFile
<1>3. files = <<n>> /\ file_ = 1
  BY DEF Init
<1> HIDE DEF n
<1>4. files \in Seq(File) /\ files # << >> /\ Len(files) = 1 /\ files[1] = n
  BY <1>1, <1>3 DEF n
<1>5. /\ now \in Nat /\ 0 \in 0..(checkEveryM_ - 1)
  BY LoggingAssumption DEF LoggingAssumption, Init
<1>6. Types
  BY <1>2, <1>3, <1>4, <1>5 DEF Init, Types, Points
<1>7. LockInv
  BY DEF Init, LockInv
<1> QED BY <1>1, <1>3, <1>4, <1>6, <1>7 DEF n

(* Logging.cc:47-52.  In every behaviour the line of the LOG_FATAL that    *)
(* aborts the process is on disk, could not be written, or is in a file    *)
(* that another thread has replaced and not closed yet.                    *)
THEOREM FatalSafe == Spec => []FatalReachesDisk
<1>1. Init => Types /\ LockInv /\ FatalInv
  <2> SUFFICES ASSUME Init PROVE Types /\ LockInv /\ FatalInv
    OBVIOUS
  <2> QED BY InitFacts DEF Init, FatalInv, FatalAt
<1>2. Types /\ LockInv /\ FatalInv /\ [Next]_vars => (Types /\ LockInv /\ FatalInv)'
  BY TypesStep, LockStep, FatalStep
<1>3. Types /\ LockInv /\ FatalInv => FatalReachesDisk
  <2> SUFFICES ASSUME Types, FatalInv, NEW t \in Threads, pc[t] = "aborted"
               PROVE  \/ line[t].id \in failed
                      \/ \E k \in DOMAIN files : line[t].id \in Ids(files[k].disk)
                      \/ \E u \in Threads : pc[u] = "close" /\ line[t].id \in Ids(files[f[u]].buf)
    BY DEF FatalReachesDisk
  <2>1. DOMAIN files = 1..Len(files)
    BY DEF Types
  <2>2. Safe(line[t].id)
    BY DEF FatalInv, FatalAt
  <2> QED BY <2>1, <2>2 DEF Safe
<1> QED BY <1>1, <1>2, <1>3, PTL DEF Spec

-----------------------------------------------------------------------------
(* The flush interval.                                                     *)

LEMMA TimeFacts == \A b \in Seq(Item) : Len(b) \in Nat /\ \A i \in 1..Len(b) : b[i].time \in Nat
<1>1. \A x \in Item : x.time \in Nat
  BY DEF Item
<1>2. \A b \in Seq(Item) : Len(b) \in Nat /\ \A i \in 1..Len(b) : b[i] \in Item
  OBVIOUS
<1> QED BY <1>1, <1>2

LEMMA CounterFacts ==
  ASSUME Types
  PROVE  /\ now \in Nat /\ lastFlush_ \in Nat /\ lastRoll_ \in Nat /\ count_ \in Nat
         /\ count_ < checkEveryM_ /\ checkEveryM_ \in Nat /\ flushInterval_ \in Nat
<1>1. checkEveryM_ \in Nat /\ flushInterval_ \in Nat
  BY LoggingAssumption DEF LoggingAssumption
<1>2. count_ \in 0..(checkEveryM_ - 1)
  BY DEF Types
<1>3. count_ \in Nat /\ count_ < checkEveryM_
  BY <1>1, <1>2
<1> QED BY <1>1, <1>3 DEF Types

LEMMA AppendedTimes ==
  ASSUME NEW b \in Seq(Item), NEW e \in Item
  PROVE  /\ Append(b, e) \in Seq(Item) /\ Len(b) \in Nat /\ Len(Append(b, e)) = Len(b) + 1
         /\ Append(b, e)[Len(b) + 1] = e
         /\ \A i \in 1..Len(b) : Append(b, e)[i] = b[i]
         /\ \A i \in 1..(Len(b) + 1) : i = Len(b) + 1 \/ i \in 1..Len(b)
         /\ e.time \in Nat /\ \A i \in 1..Len(b) : b[i].time \in Nat
<1>1. e.time \in Nat /\ \A i \in 1..Len(b) : b[i].time \in Nat
  BY TimeFacts DEF Item
<1>2. Len(b) \in Nat
  OBVIOUS
<1>3. ASSUME NEW n \in Nat PROVE \A i \in 1..(n + 1) : i = n + 1 \/ i \in 1..n
  OBVIOUS
<1> QED BY <1>1, <1>2, <1>3, AppendProperties

(* A step that leaves the counters alone, and the buffer but for a flush.  *)
LEMMA FlushQuiet ==
  ASSUME Types, Types', FlushInv, UNCHANGED <<count_, lastRoll_, lastFlush_>>, now <= now',
         files'[file_'].buf = files[file_].buf \/ files'[file_'].buf = << >>,
         \A t \in Threads : pc[t] = "roll" => pc'[t] = "roll"
  PROVE  FlushInv'
<1> DEFINE b == files[file_].buf
           c == files'[file_'].buf
<1>1. b \in Seq(Item)
  BY CurrentFile, FileFacts
<1>2. Len(b) \in Nat /\ \A i \in 1..Len(b) : b[i].time \in Nat
  BY <1>1, TimeFacts
<1>3. now \in Nat /\ now' \in Nat /\ lastFlush_ \in Nat /\ lastRoll_ \in Nat /\ count_ \in Nat
      /\ flushInterval_ \in Nat
  BY CounterFacts DEF Types
<1>4. /\ lastRoll_ <= lastFlush_ /\ lastFlush_ <= now
      /\ \A i \in 1..Len(b) : lastFlush_ <= b[i].time /\ b[i].time <= now
      /\ (\A t \in Threads : pc[t] # "roll") =>
           \A i \in 1..(Len(b) - count_) : b[i].time <= lastFlush_ + flushInterval_
  BY DEF FlushInv
<1>5. c = b \/ c = << >>
  OBVIOUS
<1> HIDE DEF b, c
<1>6. lastRoll_' <= lastFlush_' /\ lastFlush_' <= now'
  BY <1>3, <1>4
<1>7. \A i \in 1..Len(c) : lastFlush_' <= c[i].time /\ c[i].time <= now'
  <2>1. CASE c = b
    BY <1>2, <1>3, <1>4, <2>1
  <2>2. CASE c = << >>
    BY <2>2
  <2> QED BY <1>5, <2>1, <2>2
<1>8. (\A t \in Threads : pc'[t] # "roll") =>
        \A i \in 1..(Len(c) - count_') : c[i].time <= lastFlush_' + flushInterval_
  <2>1. CASE c = b
    BY <1>4, <2>1
  <2>2. CASE c = << >>
    BY <1>3, <2>2
  <2> QED BY <1>5, <2>1, <2>2
<1> QED BY <1>6, <1>7, <1>8 DEF FlushInv, c

(* What a step does that is none of write, writeFails and rollFile: the    *)
(* counters stay, and a file changes by a flush at most.                   *)
Calm ==
  /\ UNCHANGED <<count_, startOfPeriod_, lastRoll_, lastFlush_, file_>> /\ now <= now'
  /\ Len(files') = Len(files)
  /\ \A k \in 1..Len(files) :
       /\ files'[k].created = files[k].created
       /\ files'[k].disk \o files'[k].buf = files[k].disk \o files[k].buf
       /\ files'[k].buf = files[k].buf \/ files'[k].buf = << >>
  /\ \A t \in Threads : pc[t] = "roll" <=> pc'[t] = "roll"

LEMMA CalmFacts ==
  ASSUME Types, [Next]_vars
  PROVE  Calm \/ \E t \in Threads : write(t) \/ writeFails(t) \/ rollFile(t)
<1> USE DEF logFile
<1>1. now \in Nat /\ Len(files) \in Nat
  BY CurrentFile DEF Types
<1>2. CASE tick \/ (\E level \in {DEBUG, WARN} : setLogLevel(level)) \/ UNCHANGED vars
  <2>1. UNCHANGED <<count_, startOfPeriod_, lastRoll_, lastFlush_, file_, files, pc>>
        /\ (now' = now \/ now' = now + 1)
    BY <1>2 DEF tick, setLogLevel, vars
  <2> QED BY <1>1, <2>1 DEF Calm
<1>3. ASSUME NEW t \in Threads, fclose(t) PROVE Calm
  <2>1. pc[t] = "close" /\ return(t)
        /\ UNCHANGED <<now, count_, startOfPeriod_, lastRoll_, lastFlush_, file_>>
    BY <1>3 DEF fclose
  <2>2. PICK k \in 1..Len(files) : k = f[t]
    BY <2>1 DEF Types
  <2>3. /\ Len(files') = Len(files) /\ \A j \in 1..Len(files) : j # k => files'[j] = files[j]
        /\ files'[k].buf = << >> /\ files'[k].created = files[k].created
        /\ files'[k].disk \o files'[k].buf = files[k].disk \o files[k].buf
    BY <1>3, <2>2, CloseFacts
  <2>4. \A u \in Threads : pc[u] = "roll" <=> pc'[u] = "roll"
    BY <2>1, ReturnFacts
  <2>5. ASSUME NEW j \in 1..Len(files)
        PROVE  /\ files'[j].created = files[j].created
               /\ files'[j].disk \o files'[j].buf = files[j].disk \o files[j].buf
               /\ files'[j].buf = files[j].buf \/ files'[j].buf = << >>
    <3>1. CASE j = k
      BY <2>3, <3>1
    <3>2. CASE j # k
      <4>1. files'[j] = files[j]
        BY <2>3, <3>2
      <4> QED BY <4>1
    <3> QED BY <3>1, <3>2
  <2>6. now <= now'
    BY <1>1, <2>1
  <2> QED BY <2>1, <2>3, <2>4, <2>5, <2>6 DEF Calm
<1>4. ASSUME NEW t \in Threads, abort(t) PROVE Calm
  <2>1. pc[t] = "fflush" /\ goto(t, "fflush", "aborted") /\ files' = Flushed(f[t]) /\ "aborted" \in Points
        /\ UNCHANGED <<now, count_, startOfPeriod_, lastRoll_, lastFlush_, file_>>
    BY <1>4 DEF abort, fflush, goto, Points
  <2>2. PICK k \in 1..Len(files) : k = f[t]
    BY <2>1 DEF Types
  <2>3. /\ Len(files') = Len(files) /\ \A j \in 1..Len(files) : j # k => files'[j] = files[j]
        /\ files'[k] = Written(files[k])
    BY <2>1, <2>2, FlushedFacts
  <2>4. /\ Written(files[k]).buf = << >> /\ Written(files[k]).created = files[k].created
        /\ Written(files[k]).disk \o Written(files[k]).buf = files[k].disk \o files[k].buf
    BY CurrentFile, WrittenFacts
  <2>5. \A u \in Threads : pc[u] = "roll" <=> pc'[u] = "roll"
    BY <2>1, GotoFacts
  <2>6. ASSUME NEW j \in 1..Len(files)
        PROVE  /\ files'[j].created = files[j].created
               /\ files'[j].disk \o files'[j].buf = files[j].disk \o files[j].buf
               /\ files'[j].buf = files[j].buf \/ files'[j].buf = << >>
    <3>1. CASE j = k
      BY <2>3, <2>4, <3>1
    <3>2. CASE j # k
      <4>1. files'[j] = files[j]
        BY <2>3, <3>2
      <4> QED BY <4>1
    <3> QED BY <3>1, <3>2
  <2>7. now <= now'
    BY <1>1, <2>1
  <2> QED BY <2>1, <2>3, <2>5, <2>6, <2>7 DEF Calm
<1>5. ASSUME NEW t \in Threads, flush(t) \/ undefined(t) PROVE Calm
  <2>1. PICK a, b \in Points : goto(t, a, b) /\ a # "roll" /\ b # "roll"
    BY <1>5 DEF flush, undefined, Points
  <2>2. UNCHANGED <<now, count_, startOfPeriod_, lastRoll_, lastFlush_, file_, files>>
    BY <1>5 DEF flush, undefined
  <2>3. \A u \in Threads : pc[u] = "roll" <=> pc'[u] = "roll"
    BY <2>1, GotoFacts
  <2> QED BY <1>1, <2>2, <2>3 DEF Calm
<1>6. ASSUME NEW t \in Threads, NEW level \in {INFO, FATAL}, NEW msg \in Messages, log(t, level, msg)
      PROVE  Calm
  <2>1. goto(t, "idle", "write") /\ "write" \in Points
        /\ UNCHANGED <<now, count_, startOfPeriod_, lastRoll_, lastFlush_, file_, files>>
    BY <1>6 DEF log, Points
  <2>2. \A u \in Threads : pc[u] = "roll" <=> pc'[u] = "roll"
    BY <2>1, GotoFacts
  <2> QED BY <1>1, <2>1, <2>2 DEF Calm
<1> QED BY <1>2, <1>3, <1>4, <1>5, <1>6 DEF Next

LEMMA FlushStep == ASSUME Types, Types', LockInv, FlushInv, [Next]_vars PROVE FlushInv'
<1>1. CASE Calm
  <2>1. file_ \in 1..Len(files)
    BY CurrentFile
  <2> QED BY <1>1, <2>1, FlushQuiet DEF Calm
<1> DEFINE b == files[file_].buf
           c == files'[file_'].buf
<1>2. b \in Seq(Item) /\ file_ \in 1..Len(files) /\ files \in Seq(File)
  BY CurrentFile, FileFacts DEF Types
<1>3. Len(b) \in Nat /\ \A i \in 1..Len(b) : b[i].time \in Nat
  BY <1>2, TimeFacts
<1>4. now \in Nat /\ lastFlush_ \in Nat /\ lastRoll_ \in Nat /\ count_ \in Nat /\ flushInterval_ \in Nat
  BY CounterFacts
<1>5. /\ lastRoll_ <= lastFlush_ /\ lastFlush_ <= now
      /\ \A i \in 1..Len(b) : lastFlush_ <= b[i].time /\ b[i].time <= now
      /\ (\A t \in Threads : pc[t] # "roll") =>
           \A i \in 1..(Len(b) - count_) : b[i].time <= lastFlush_ + flushInterval_
  BY DEF FlushInv
<1>6. SUFFICES ASSUME ~Calm
               PROVE  /\ lastRoll_' <= lastFlush_' /\ lastFlush_' <= now'
                      /\ \A i \in 1..Len(c) : lastFlush_' <= c[i].time /\ c[i].time <= now'
                      /\ (\A t \in Threads : pc'[t] # "roll") =>
                           \A i \in 1..(Len(c) - count_') : c[i].time <= lastFlush_' + flushInterval_
  BY <1>1 DEF FlushInv
<1> HIDE DEF b, c
<1>7. ASSUME NEW t \in Threads, write(t)
      PROVE  /\ lastRoll_' <= lastFlush_' /\ lastFlush_' <= now'
             /\ \A i \in 1..Len(c) : lastFlush_' <= c[i].time /\ c[i].time <= now'
             /\ (\A u \in Threads : pc'[u] # "roll") =>
                  \A i \in 1..(Len(c) - count_') : c[i].time <= lastFlush_' + flushInterval_
  <2>1. PICK e \in Item, y \in File :
           /\ e.time = now /\ Appended(files[file_], y, e) /\ files' = [files EXCEPT ![file_] = y]
           /\ \/ pc'[t] = "roll" /\ lastFlush_' = lastFlush_ /\ y.buf # << >>
              \/ count_' = count_ + 1 /\ lastFlush_' = lastFlush_ /\ y.buf # << >>
              \/ count_' = 0 /\ ~FlushDue /\ lastFlush_' = lastFlush_ /\ y.buf # << >>
              \/ count_' = 0 /\ lastFlush_' = now /\ y.buf = << >>
    BY <1>7, WriteFacts
  <2>2. pc[t] = "write" /\ UNCHANGED <<now, lastRoll_, file_>>
    BY <1>7 DEF write, append_unlocked
  <2>3. \A i \in 1..(Len(b) - count_) : b[i].time <= lastFlush_ + flushInterval_
    BY <1>5, <2>2 DEF LockInv
  <2>4. c = y.buf
    BY <1>2, <2>1, <2>2 DEF c
  <2>5. CASE c = << >>
    BY <1>4, <1>5, <2>1, <2>2, <2>4, <2>5
  <2>6. ASSUME NEW s \in Seq(Item), c = Append(s, e), s = b \/ s = << >>, c # << >>
        PROVE  /\ lastRoll_' <= lastFlush_' /\ lastFlush_' <= now'
               /\ \A i \in 1..Len(c) : lastFlush_' <= c[i].time /\ c[i].time <= now'
               /\ (\A u \in Threads : pc'[u] # "roll") =>
                    \A i \in 1..(Len(c) - count_') : c[i].time <= lastFlush_' + flushInterval_
    <3>1. /\ Len(s) \in Nat /\ Len(c) = Len(s) + 1 /\ c[Len(s) + 1] = e
          /\ \A i \in 1..Len(s) : c[i] = s[i] /\ s[i].time \in Nat
          /\ \A i \in 1..(Len(s) + 1) : i = Len(s) + 1 \/ i \in 1..Len(s)
      BY <2>6, AppendedTimes, TimeFacts
    <3>2. /\ \A i \in 1..Len(s) : lastFlush_ <= s[i].time /\ s[i].time <= now
          /\ \A i \in 1..(Len(s) - count_) : s[i].time <= lastFlush_ + flushInterval_
      <4>1. CASE s = b
        BY <1>5, <2>3, <4>1
      <4>2. CASE s = << >>
        BY <1>4, <4>2
      <4> QED BY <2>6, <4>1, <4>2
    <3>3. lastFlush_' = lastFlush_ /\ (pc'[t] = "roll" \/ count_' = count_ + 1 \/ (count_' = 0 /\ ~FlushDue))
      BY <2>1, <2>4, <2>6
    <3>4. \A i \in 1..Len(c) : lastFlush_ <= c[i].time /\ c[i].time <= now /\ c[i].time \in Nat
      BY <1>4, <1>5, <2>1, <3>1, <3>2
    <3>5. CASE pc'[t] = "roll"
      BY <1>5, <2>2, <3>3, <3>4, <3>5
    <3>6. CASE count_' = count_ + 1
      <4>1. \A i \in 1..(Len(c) - count_') : i \in 1..(Len(s) - count_) /\ i \in 1..Len(s)
        BY <1>4, <3>1, <3>6
      <4>2. \A i \in 1..(Len(c) - count_') : c[i].time <= lastFlush_' + flushInterval_
        BY <3>1, <3>2, <3>3, <4>1
      <4> QED BY <1>5, <2>2, <3>3, <3>4, <4>2
    <3>7. CASE count_' = 0 /\ ~FlushDue
      <4>1. now <= lastFlush_ + flushInterval_
        BY <1>4, <3>7 DEF FlushDue
      <4>2. \A i \in 1..(Len(c) - count_') : i \in 1..Len(c)
        BY <3>1, <3>7
      <4>3. \A i \in 1..(Len(c) - count_') : c[i].time <= lastFlush_' + flushInterval_
        BY <1>4, <3>3, <3>4, <4>1, <4>2
      <4> QED BY <1>5, <2>2, <3>3, <3>4, <4>3
    <3> QED BY <3>3, <3>5, <3>6, <3>7
  <2>7. << >> \in Seq(Item)
    OBVIOUS
  <2>8. c = << >> \/ c = Append(<< >>, e) \/ c = Append(b, e)
    BY <2>1, <2>4 DEF Appended, b
  <2> QED BY <1>2, <2>5, <2>6, <2>7, <2>8
<1>8. ASSUME NEW t \in Threads, writeFails(t)
      PROVE  /\ lastRoll_' <= lastFlush_' /\ lastFlush_' <= now'
             /\ \A i \in 1..Len(c) : lastFlush_' <= c[i].time /\ c[i].time <= now'
             /\ (\A u \in Threads : pc'[u] # "roll") =>
                  \A i \in 1..(Len(c) - count_') : c[i].time <= lastFlush_' + flushInterval_
  <2>1. /\ UNCHANGED <<now, file_, lastRoll_>>
        /\ \/ pc'[t] = "roll" /\ files' = files /\ lastFlush_' = lastFlush_
           \/ count_' = count_ + 1 /\ files' = files /\ lastFlush_' = lastFlush_
           \/ count_' = 0 /\ ~FlushDue /\ files' = files /\ lastFlush_' = lastFlush_
           \/ count_' = 0 /\ lastFlush_' = now /\ files' = Flushed(file_)
    BY <1>8, WriteFailsFacts
  <2>2. \A i \in 1..(Len(b) - count_) : b[i].time <= lastFlush_ + flushInterval_
    <3>1. pc[t] = "write"
      BY <1>8 DEF writeFails, append_unlocked
    <3> QED BY <1>5, <3>1 DEF LockInv
  <2>3. files' = files => c = b
    BY <2>1 DEF b, c
  <2>4. CASE pc'[t] = "roll" /\ files' = files /\ lastFlush_' = lastFlush_
    BY <1>5, <2>1, <2>3, <2>4
  <2>5. CASE count_' = count_ + 1 /\ files' = files /\ lastFlush_' = lastFlush_
    <3>1. \A i \in 1..(Len(b) - count_') : i \in 1..(Len(b) - count_)
      BY <1>3, <1>4, <2>5
    <3> QED BY <1>5, <2>1, <2>2, <2>3, <2>5, <3>1
  <2>6. CASE count_' = 0 /\ ~FlushDue /\ files' = files /\ lastFlush_' = lastFlush_
    <3>1. now <= lastFlush_ + flushInterval_
      BY <1>4, <2>6 DEF FlushDue
    <3>2. \A i \in 1..(Len(b) - count_') : i \in 1..Len(b)
      BY <1>3, <2>6
    <3>3. \A i \in 1..(Len(b) - count_') : b[i].time <= lastFlush_' + flushInterval_
      BY <1>3, <1>4, <1>5, <2>6, <3>1, <3>2
    <3> QED BY <1>5, <2>1, <2>3, <2>6, <3>3
  <2>7. CASE count_' = 0 /\ lastFlush_' = now /\ files' = Flushed(file_)
    <3>1. c = << >>
      <4>1. PICK k \in 1..Len(files) : k = file_
        BY <1>2
      <4>2. files'[k] = Written(files[k])
        BY <2>7, <4>1, FlushedFacts
      <4>3. Written(files[k]).buf = << >>
        BY CurrentFile, WrittenFacts
      <4> QED BY <2>1, <4>1, <4>2, <4>3 DEF c
    <3> QED BY <1>4, <1>5, <2>1, <2>7, <3>1
  <2> QED BY <2>1, <2>4, <2>5, <2>6, <2>7
<1>9. ASSUME NEW t \in Threads, rollFile(t)
      PROVE  /\ lastRoll_' <= lastFlush_' /\ lastFlush_' <= now'
             /\ \A i \in 1..Len(c) : lastFlush_' <= c[i].time /\ c[i].time <= now'
             /\ (\A u \in Threads : pc'[u] # "roll") =>
                  \A i \in 1..(Len(c) - count_') : c[i].time <= lastFlush_' + flushInterval_
  <2>1. CASE now > lastRoll_
    <3>1. c = << >> /\ lastRoll_' = now /\ lastFlush_' = now /\ UNCHANGED <<now, count_>>
      BY <1>9, <2>1, RollFacts DEF c
    <3> QED BY <1>4, <3>1
  <2>2. CASE ~(now > lastRoll_)
    <3>1. c = b /\ UNCHANGED <<now, count_, lastRoll_, lastFlush_>>
      BY <1>9, <2>2, RollFacts DEF b, c
    <3>2. now <= lastFlush_
      BY <1>4, <1>5, <2>2
    <3>3. \A i \in 1..(Len(b) - count_) : i \in 1..Len(b)
      BY <1>3, <1>4
    <3>4. \A i \in 1..(Len(b) - count_) : b[i].time <= lastFlush_ + flushInterval_
      BY <1>3, <1>4, <1>5, <3>2, <3>3
    <3> QED BY <1>5, <3>1, <3>4
  <2> QED BY <2>1, <2>2
<1> QED BY <1>6, <1>7, <1>8, <1>9, CalmFacts

(* LogFile.cc:106-120.  In every behaviour, however many lines and rolls,  *)
(* no line that checkEveryM_ later ones follow waits in the stdio buffer   *)
(* beyond the flush interval.                                              *)
THEOREM FlushSafe == Spec => []FlushedInTime
<1>1. Init => Types /\ LockInv /\ FlushInv
  <2> SUFFICES ASSUME Init PROVE Types /\ LockInv /\ FlushInv
    OBVIOUS
  <2>1. Types /\ LockInv /\ files[file_].buf = << >>
    BY InitFacts
  <2>2. now \in Nat /\ lastRoll_ = now /\ lastFlush_ = now /\ count_ = 0
    BY <2>1, CounterFacts DEF Init
  <2> QED BY <2>1, <2>2 DEF FlushInv
<1>2. Types /\ LockInv /\ FlushInv /\ [Next]_vars => (Types /\ LockInv /\ FlushInv)'
  BY TypesStep, LockStep, FlushStep
<1>3. Types /\ LockInv /\ FlushInv => FlushedInTime
  <2> DEFINE b == files[file_].buf
  <2> SUFFICES ASSUME Types, FlushInv, ~Locked, NEW i \in 1..(Len(b) - checkEveryM_)
               PROVE  b[i + 1].time - b[i].time <= flushInterval_
    BY DEF FlushedInTime
  <2>1. b \in Seq(Item)
    BY CurrentFile, FileFacts
  <2>2. Len(b) \in Nat /\ \A j \in 1..Len(b) : b[j].time \in Nat
    BY <2>1, TimeFacts
  <2>3. lastFlush_ \in Nat /\ count_ \in Nat /\ count_ < checkEveryM_ /\ checkEveryM_ \in Nat
        /\ flushInterval_ \in Nat
    BY CounterFacts
  <2>4. /\ \A j \in 1..Len(b) : lastFlush_ <= b[j].time
        /\ \A j \in 1..(Len(b) - count_) : b[j].time <= lastFlush_ + flushInterval_
    BY DEF FlushInv, Locked
  <2> HIDE DEF b
  <2>5. i \in 1..Len(b) /\ i + 1 \in 1..Len(b) /\ i + 1 \in 1..(Len(b) - count_)
    BY <2>2, <2>3
  <2> QED BY <2>2, <2>3, <2>4, <2>5
<1> QED BY <1>1, <1>2, <1>3, PTL DEF Spec

-----------------------------------------------------------------------------
(* Rolling.                                                                *)

LEMMA PeriodFacts ==
  ASSUME NEW a \in Nat, NEW b \in Nat, NEW c \in Nat, a <= b, b <= c, Period(a) = Period(c)
  PROVE  Period(b) = Period(a)
<1>1. PICK K \in Nat : K = kRollPerseconds_ /\ K > 0
  BY LoggingAssumption DEF LoggingAssumption
<1>2. ASSUME NEW x \in Nat, NEW y \in Nat, x <= y PROVE x \div K <= y \div K
  BY <1>1, <1>2
<1>3. a \div K \in Int /\ b \div K \in Int /\ c \div K \in Int
  BY <1>1
<1>4. a \div K <= b \div K /\ b \div K <= c \div K
  BY <1>2
<1>5. a \div K = c \div K
  <2>1. PICK p \in Int, q \in Int : p = a \div K /\ q = c \div K
    BY <1>3
  <2>2. p * K = q * K
    BY <1>1, <2>1 DEF Period
  <2>3. p = q
    BY <1>1, <2>2
  <2> QED BY <2>1, <2>3
<1>6. a \div K = b \div K
  BY <1>3, <1>4, <1>5
<1> QED BY <1>1, <1>6 DEF Period

LEMMA LateFacts ==
  ASSUME NEW s \in Seq(Item), NEW c
  PROVE  IsFiniteSet(Late(s, c)) /\ Cardinality(Late(s, c)) \in Nat
<1>1. IsFiniteSet(1..Len(s))
  BY FS_Interval
<1>2. Late(s, c) \subseteq 1..Len(s)
  BY DEF Late
<1> QED BY <1>1, <1>2, FS_Subset, FS_CardinalityType

LEMMA LateAppend ==
  ASSUME NEW s \in Seq(Item), NEW e \in Item, NEW c
  PROVE  Cardinality(Late(Append(s, e), c)) <= Cardinality(Late(s, c)) + 1
<1> DEFINE S == Late(s, c)
           T == S \cup {Len(s) + 1}
<1>1. IsFiniteSet(S) /\ Cardinality(S) \in Nat
  BY LateFacts
<1>2. Late(Append(s, e), c) \subseteq T
  <2>1. DOMAIN s = 1..Len(s) /\ DOMAIN Append(s, e) = 1..(Len(s) + 1)
    BY AppendedTimes
  <2>2. \A i \in 1..Len(s) : Append(s, e)[i] = s[i]
    BY AppendedTimes
  <2>3. \A i \in 1..(Len(s) + 1) : i = Len(s) + 1 \/ i \in 1..Len(s)
    BY AppendedTimes
  <2> QED BY <2>1, <2>2, <2>3 DEF Late
<1> HIDE DEF S
<1>3. IsFiniteSet(T) /\ Cardinality(T) <= Cardinality(S) + 1
  <2>1. IsFiniteSet(T) /\ Cardinality(T) \in {Cardinality(S), Cardinality(S) + 1}
    BY <1>1, FS_AddElement, Zenon
  <2> QED BY <1>1, <2>1
<1>4. Cardinality(Late(Append(s, e), c)) <= Cardinality(T) /\ Cardinality(T) \in Nat
      /\ Cardinality(Late(Append(s, e), c)) \in Nat
  BY <1>2, <1>3, FS_Subset, FS_CardinalityType
<1> QED BY <1>1, <1>3, <1>4 DEF S

(* As long as a file's day lasts it has no late lines.                     *)
LEMMA NoneLate ==
  ASSUME NEW s \in Seq(Item), NEW c \in Nat, NEW n \in Nat, Period(c) = Period(n),
         \A i \in 1..Len(s) : c <= s[i].time /\ s[i].time <= n
  PROVE  Cardinality(Late(s, c)) = 0
<1>1. \A i \in 1..Len(s) : Period(s[i].time) = Period(c)
  BY TimeFacts, PeriodFacts
<1>2. Late(s, c) = {}
  BY <1>1 DEF Late
<1> QED BY <1>2, FS_EmptySet

LEMMA RollsOKFacts ==
  ASSUME Types
  PROVE  /\ DOMAIN files = 1..Len(files)
         /\ RollsWhenDue <=> \A k \in 1..Len(files) : RollsOK(Lines(k), files[k].created)
<1>1. DOMAIN files = 1..Len(files)
  BY DEF Types
<1> QED BY <1>1, Zenon DEF RollsWhenDue, RollsOK, Late

(* A step that leaves the current file in place and makes its lines r.     *)
LEMMA RollSame ==
  ASSUME Types, Types', RollInv, RollsWhenDue, UNCHANGED <<file_, startOfPeriod_, lastRoll_>>,
         Len(files') = Len(files), now <= now',
         \A k \in 1..Len(files) : /\ files'[k].created = files[k].created
                                  /\ k # file_ => files'[k].disk \o files'[k].buf = Lines(k),
         NEW r \in Seq(Item), files'[file_].disk \o files'[file_].buf = r,
         \A i \in 1..Len(r) : lastRoll_ <= r[i].time /\ r[i].time <= now',
         RollsOK(r, lastRoll_),
         (\A t \in Threads : pc'[t] # "roll") =>
           /\ Cardinality(Late(r, lastRoll_)) <= count_'
           /\ \A i \in 1..Len(r) : r[i].len > rollSize_ => r[i].time = lastRoll_
  PROVE  RollInv' /\ RollsWhenDue'
<1>1. PICK m \in 1..Len(files) : m = file_
  BY CurrentFile
<1>2. /\ files[m].created = lastRoll_ /\ startOfPeriod_ = Period(lastRoll_) /\ lastRoll_ <= now
      /\ \A k \in 1..Len(files) : RollsOK(Lines(k), files[k].created)
  BY <1>1, RollsOKFacts DEF RollInv
<1>3. now \in Nat /\ now' \in Nat /\ lastRoll_ \in Nat
  BY DEF Types
<1>4. lastRoll_ <= now'
  BY <1>2, <1>3
<1>5. Lines(m)' = r /\ Lines(file_)' = r
  BY <1>1 DEF Lines
<1>6. RollInv'
  <2>1. files'[file_'].created = lastRoll_' /\ startOfPeriod_' = Period(lastRoll_') /\ lastRoll_' <= now'
    BY <1>1, <1>2, <1>4 DEF Period
  <2>2. \A i \in 1..Len(Lines(file_)') :
          lastRoll_' <= (Lines(file_)')[i].time /\ (Lines(file_)')[i].time <= now'
    BY <1>5
  <2>3. (\A t \in Threads : pc'[t] # "roll") =>
          /\ Cardinality(Late(Lines(file_)', lastRoll_')) <= count_'
          /\ \A i \in 1..Len(Lines(file_)') : (Lines(file_)')[i].len > rollSize_ =>
                                               (Lines(file_)')[i].time = lastRoll_'
    BY <1>5
  <2> QED BY <2>1, <2>2, <2>3 DEF RollInv, Late
<1>7. \A k \in 1..Len(files') : RollsOK(Lines(k)', files'[k].created)
  <2> SUFFICES ASSUME NEW k \in 1..Len(files) PROVE RollsOK(Lines(k)', files'[k].created)
    OBVIOUS
  <2>1. CASE k = m
    BY <1>1, <1>2, <1>5, <2>1
  <2>2. CASE k # m
    <3>1. Lines(k)' = Lines(k)
      BY <1>1, <2>2 DEF Lines
    <3> QED BY <1>2, <3>1
  <2> QED BY <2>1, <2>2
<1>8. RollsWhenDue'
  <2>1. (DOMAIN files)' = 1..Len(files')
    BY DEF Types
  <2> QED BY <1>7, <2>1, Zenon DEF RollsWhenDue, RollsOK, Late
<1> QED BY <1>6, <1>8

LEMMA RollStep ==
  ASSUME Types, Types', LockInv, RollInv, RollsWhenDue, [Next]_vars
  PROVE  RollInv' /\ RollsWhenDue'
<1> DEFINE s == Lines(file_)
<1>1. /\ file_ \in 1..Len(files) /\ files \in Seq(File) /\ files[file_] \in File
      /\ s \in Seq(Item) /\ s = files[file_].disk \o files[file_].buf
  BY CurrentFile, FileFacts DEF Types, Lines
<1>2. Len(s) \in Nat /\ \A i \in 1..Len(s) : s[i].time \in Nat
  BY <1>1, TimeFacts
<1>3. now \in Nat /\ lastRoll_ \in Nat /\ count_ \in Nat /\ count_ < checkEveryM_ /\ checkEveryM_ \in Nat
  BY CounterFacts
<1>4. Cardinality(Late(s, lastRoll_)) \in Nat
  BY <1>1, LateFacts
<1>5. /\ startOfPeriod_ = Period(lastRoll_) /\ lastRoll_ <= now
      /\ \A i \in 1..Len(s) : lastRoll_ <= s[i].time /\ s[i].time <= now
      /\ (\A t \in Threads : pc[t] # "roll") =>
           /\ Cardinality(Late(s, lastRoll_)) <= count_
           /\ \A i \in 1..Len(s) : s[i].len > rollSize_ => s[i].time = lastRoll_
  BY DEF RollInv
<1>6. RollsOK(s, lastRoll_)
  BY <1>1, RollsOKFacts DEF RollInv
<1> HIDE DEF s
<1>7. CASE Calm
  <2>1. now' \in Nat /\ now <= now' /\ UNCHANGED <<count_, startOfPeriod_, lastRoll_, file_>>
        /\ Len(files') = Len(files)
    BY <1>7 DEF Calm, Types
  <2>2. \A k \in 1..Len(files) : /\ files'[k].created = files[k].created
                                 /\ files'[k].disk \o files'[k].buf = Lines(k)
    BY <1>7 DEF Calm, Lines
  <2>3. files'[file_].disk \o files'[file_].buf = s
    BY <1>1, <2>2 DEF s
  <2>4. \A i \in 1..Len(s) : lastRoll_ <= s[i].time /\ s[i].time <= now'
    BY <1>2, <1>3, <1>5, <2>1
  <2>5. (\A t \in Threads : pc'[t] # "roll") =>
          /\ Cardinality(Late(s, lastRoll_)) <= count_'
          /\ \A i \in 1..Len(s) : s[i].len > rollSize_ => s[i].time = lastRoll_
    BY <1>5, <1>7, <2>1 DEF Calm
  <2> QED BY <1>1, <1>6, <2>1, <2>2, <2>3, <2>4, <2>5, RollSame
<1>8. ASSUME NEW t \in Threads, write(t) PROVE RollInv' /\ RollsWhenDue'
  <2>1. PICK e \in Item, y \in File :
           /\ e.time = now /\ Appended(files[file_], y, e) /\ files' = [files EXCEPT ![file_] = y]
           /\ \/ pc'[t] = "roll"
              \/ ~(e.len > rollSize_) /\ count_' = count_ + 1
              \/ ~(e.len > rollSize_) /\ count_' = 0 /\ ~NewPeriod
    BY <1>8, WriteFacts
  <2>2. pc[t] = "write" /\ UNCHANGED <<now, file_, startOfPeriod_, lastRoll_>>
    BY <1>8 DEF write, append_unlocked
  <2>3. /\ Cardinality(Late(s, lastRoll_)) <= count_
        /\ \A i \in 1..Len(s) : s[i].len > rollSize_ => s[i].time = lastRoll_
    BY <1>5, <2>2 DEF LockInv
  <2> DEFINE r == Append(s, e)
  <2>4. /\ r \in Seq(Item) /\ Len(r) = Len(s) + 1 /\ r[Len(s) + 1] = e
        /\ \A i \in 1..Len(s) : r[i] = s[i]
        /\ \A i \in 1..(Len(s) + 1) : i = Len(s) + 1 \/ i \in 1..Len(s)
    BY <1>1, AppendedTimes
  <2>5. Cardinality(Late(r, lastRoll_)) <= Cardinality(Late(s, lastRoll_)) + 1
        /\ Cardinality(Late(r, lastRoll_)) \in Nat
    BY <1>1, <2>4, LateAppend, LateFacts
  <2> HIDE DEF r
  <2>6. files'[file_].disk \o files'[file_].buf = r /\ files'[file_].created = files[file_].created
        /\ Len(files') = Len(files) /\ \A k \in 1..Len(files) : k # file_ => files'[k] = files[k]
    <3>1. y.disk \o y.buf = r /\ y.created = files[file_].created
      BY <1>1, <2>1 DEF Appended, r
    <3>2. files'[file_] = y /\ Len(files') = Len(files)
          /\ \A k \in 1..Len(files) : k # file_ => files'[k] = files[k]
      BY <1>1, <2>1
    <3> QED BY <3>1, <3>2
  <2>7. \A k \in 1..Len(files) : /\ files'[k].created = files[k].created
                                 /\ k # file_ => files'[k].disk \o files'[k].buf = Lines(k)
    BY <2>6 DEF Lines
  <2>8. now <= now' /\ \A i \in 1..Len(r) : lastRoll_ <= r[i].time /\ r[i].time <= now'
    BY <1>2, <1>3, <1>5, <2>1, <2>2, <2>4
  <2>9. RollsOK(r, lastRoll_)
    <3>1. Cardinality(Late(r, lastRoll_)) <= checkEveryM_
      BY <1>3, <1>4, <2>3, <2>5
    <3>2. Len(r) - 1 = Len(s)
      BY <1>2, <2>4
    <3>3. \A i \in 1..(Len(r) - 1) : r[i].len > rollSize_ => r[i].time = lastRoll_
      BY <2>3, <2>4, <3>2
    <3> QED BY <3>1, <3>3 DEF RollsOK
  <2>10. CASE pc'[t] = "roll"
    <3>1. ~\A u \in Threads : pc'[u] # "roll"
      BY <2>10
    <3> QED BY <2>2, <2>4, <2>6, <2>7, <2>8, <2>9, <3>1, RollSame
  <2>11. CASE ~(e.len > rollSize_) /\ (count_' = count_ + 1 \/ (count_' = 0 /\ ~NewPeriod))
    <3>1. \A i \in 1..Len(r) : r[i].len > rollSize_ => r[i].time = lastRoll_
      BY <2>3, <2>4, <2>11
    <3>2. Cardinality(Late(r, lastRoll_)) <= count_'
      <4>1. CASE count_' = count_ + 1
        BY <1>3, <1>4, <2>3, <2>5, <4>1
      <4>2. CASE count_' = 0 /\ ~NewPeriod
        <5>1. Period(lastRoll_) = Period(now)
          BY <1>5, <4>2 DEF NewPeriod
        <5>2. Cardinality(Late(r, lastRoll_)) = 0
          BY <1>3, <2>2, <2>4, <2>8, <5>1, NoneLate
        <5> QED BY <4>2, <5>2
      <4> QED BY <2>11, <4>1, <4>2
    <3> QED BY <2>2, <2>4, <2>6, <2>7, <2>8, <2>9, <3>1, <3>2, RollSame
  <2> QED BY <2>1, <2>10, <2>11
<1>9. ASSUME NEW t \in Threads, writeFails(t) PROVE RollInv' /\ RollsWhenDue'
  <2>1. /\ UNCHANGED <<now, file_, startOfPeriod_, lastRoll_>>
        /\ files' = files \/ files' = Flushed(file_)
        /\ pc'[t] = "roll" \/ count_' = count_ + 1 \/ (count_' = 0 /\ ~NewPeriod)
    BY <1>9, WriteFailsFacts
  <2>2. /\ Cardinality(Late(s, lastRoll_)) <= count_
        /\ \A i \in 1..Len(s) : s[i].len > rollSize_ => s[i].time = lastRoll_
    <3>1. pc[t] = "write"
      BY <1>9 DEF writeFails, append_unlocked
    <3> QED BY <1>5, <3>1 DEF LockInv
  <2>3. Len(files') = Len(files)
        /\ \A k \in 1..Len(files) : /\ files'[k].created = files[k].created
                                    /\ files'[k].disk \o files'[k].buf = Lines(k)
    <3>1. CASE files' = files
      BY <3>1 DEF Lines
    <3>2. CASE files' = Flushed(file_)
      <4>1. PICK m \in 1..Len(files) : m = file_
        BY <1>1
      <4>2. Len(files') = Len(files) /\ files'[m] = Written(files[m])
            /\ \A k \in 1..Len(files) : k # m => files'[k] = files[k]
        BY <3>2, <4>1, FlushedFacts
      <4>3. Written(files[m]).created = files[m].created
            /\ Written(files[m]).disk \o Written(files[m]).buf = Lines(m)
        BY CurrentFile, WrittenFacts DEF Lines
      <4>4. \A k \in 1..Len(files) : k # m => files'[k].disk \o files'[k].buf = Lines(k)
        BY <4>2 DEF Lines
      <4> QED BY <4>2, <4>3, <4>4
    <3> QED BY <2>1, <3>1, <3>2
  <2>4. files'[file_].disk \o files'[file_].buf = s
    BY <1>1, <2>3 DEF s
  <2>5. now <= now' /\ \A i \in 1..Len(s) : lastRoll_ <= s[i].time /\ s[i].time <= now'
    BY <1>3, <1>5, <2>1
  <2>6. CASE pc'[t] = "roll"
    <3>1. ~\A u \in Threads : pc'[u] # "roll"
      BY <2>6
    <3> QED BY <1>1, <1>6, <2>1, <2>3, <2>4, <2>5, <3>1, RollSame
  <2>7. CASE count_' = count_ + 1 \/ (count_' = 0 /\ ~NewPeriod)
    <3>1. Cardinality(Late(s, lastRoll_)) <= count_'
      <4>1. CASE count_' = count_ + 1
        BY <1>3, <1>4, <2>2, <4>1
      <4>2. CASE count_' = 0 /\ ~NewPeriod
        <5>1. Period(lastRoll_) = Period(now)
          BY <1>5, <4>2 DEF NewPeriod
        <5>2. Cardinality(Late(s, lastRoll_)) = 0
          BY <1>1, <1>3, <1>5, <5>1, NoneLate
        <5> QED BY <4>2, <5>2
      <4> QED BY <2>7, <4>1, <4>2
    <3> QED BY <1>1, <1>6, <2>1, <2>2, <2>3, <2>4, <2>5, <3>1, RollSame
  <2> QED BY <2>1, <2>6, <2>7
<1>10. ASSUME NEW t \in Threads, rollFile(t) PROVE RollInv' /\ RollsWhenDue'
  <2>1. CASE now > lastRoll_
    <3>1. /\ lastRoll_' = now /\ startOfPeriod_' = Period(now) /\ UNCHANGED <<now, count_>>
          /\ file_' = file_ + 1 /\ Len(files') = Len(files) + 1
          /\ files'[file_ + 1].buf = << >> /\ files'[file_ + 1].disk = << >>
          /\ files'[file_ + 1].created = now
          /\ \A k \in 1..Len(files) : files'[k] = files[k]
      BY <1>10, <2>1, RollFacts
    <3>2. file_ = Len(files) /\ Len(files) \in Nat
      BY CurrentFile DEF Types
    <3>3. PICK m \in Nat : m = file_ + 1
      BY <3>2
    <3>4. Lines(m)' = << >> /\ Lines(file_)' = << >>
      <4>1. << >> \o << >> = << >>
        OBVIOUS
      <4> QED BY <3>1, <3>3, <4>1 DEF Lines
    <3>5. << >> \in Seq(Item) /\ Len(<< >>) = 0
      OBVIOUS
    <3>6. Late(<< >>, now) = {} /\ Cardinality({}) = 0
      BY FS_EmptySet DEF Late
    <3>7. RollsOK(<< >>, now)
      BY <1>3, <3>6 DEF RollsOK
    <3>8. RollInv'
      <4>1. files'[file_'].created = lastRoll_' /\ startOfPeriod_' = Period(lastRoll_')
        BY <3>1
      <4>2. lastRoll_' <= now'
        BY <1>3, <3>1
      <4>3. Cardinality(Late(Lines(file_)', lastRoll_')) <= count_'
        <5>1. Cardinality(Late(Lines(file_)', lastRoll_')) = 0
          BY <3>1, <3>4, <3>6
        <5> QED BY <1>3, <3>1, <5>1
      <4>4. 1..Len(Lines(file_)') = {}
        BY <3>4
      <4> QED BY <4>1, <4>2, <4>3, <4>4 DEF RollInv, Late, Period
    <3>9. \A k \in 1..Len(files') : RollsOK(Lines(k)', files'[k].created)
      <4> SUFFICES ASSUME NEW k \in 1..Len(files') PROVE RollsOK(Lines(k)', files'[k].created)
        OBVIOUS
      <4>1. CASE k = m
        BY <3>1, <3>3, <3>4, <3>7, <4>1
      <4>2. CASE k # m
        <5>1. k \in 1..Len(files)
          BY <3>1, <3>2, <3>3, <4>2
        <5>2. RollsOK(Lines(k), files[k].created)
          BY <5>1, RollsOKFacts
        <5>3. Lines(k)' = Lines(k) /\ files'[k].created = files[k].created
          BY <3>1, <5>1 DEF Lines
        <5> QED BY <5>2, <5>3
      <4> QED BY <4>1, <4>2
    <3>10. RollsWhenDue'
      <4>1. (DOMAIN files)' = 1..Len(files')
        BY DEF Types
      <4> QED BY <3>9, <4>1, Zenon DEF RollsWhenDue, RollsOK, Late
    <3> QED BY <3>8, <3>10
  <2>2. CASE ~(now > lastRoll_)
    <3>1. UNCHANGED <<now, count_, files, file_, startOfPeriod_, lastRoll_>>
      BY <1>10, <2>2, RollFacts
    <3>2. now = lastRoll_
      BY <1>3, <1>5, <2>2
    <3>3. \A i \in 1..Len(s) : s[i].time = lastRoll_
      BY <1>2, <1>3, <1>5, <3>2
    <3>4. Cardinality(Late(s, lastRoll_)) = 0
      BY <1>1, <1>3, <1>5, <3>2, NoneLate
    <3>5. Cardinality(Late(s, lastRoll_)) <= count_'
      BY <1>3, <3>1, <3>4
    <3>6. files'[file_].disk \o files'[file_].buf = s
          /\ \A k \in 1..Len(files) : files'[k].disk \o files'[k].buf = Lines(k)
      BY <1>1, <3>1 DEF Lines
    <3>7. now <= now' /\ \A i \in 1..Len(s) : lastRoll_ <= s[i].time /\ s[i].time <= now'
      BY <1>3, <1>5, <3>1
    <3> QED BY <1>1, <1>6, <3>1, <3>3, <3>5, <3>6, <3>7, RollSame
  <2> QED BY <2>1, <2>2
<1> QED BY <1>7, <1>8, <1>9, <1>10, CalmFacts

(* LogFile.cc:100-115 and 131.  In every behaviour a file holds at most    *)
(* checkEveryM_ lines of other days than its own, and nothing follows a    *)
(* line that is longer than rollSize_ but in the second the file is made.  *)
THEOREM RollSafe == Spec => []RollsWhenDue
<1>1. Init => Types /\ LockInv /\ RollInv /\ RollsWhenDue
  <2> SUFFICES ASSUME Init PROVE Types /\ LockInv /\ RollInv /\ RollsWhenDue
    OBVIOUS
  <2>1. /\ Types /\ LockInv /\ Len(files) = 1 /\ file_ = 1 /\ files[1].created = now
        /\ files[1].buf = << >> /\ files[1].disk = << >>
    BY InitFacts
  <2>2. now \in Nat /\ lastRoll_ = now /\ startOfPeriod_ = Period(now) /\ count_ = 0
        /\ checkEveryM_ \in Nat
    BY <2>1, CounterFacts DEF Init
  <2>3. Lines(1) = << >>
    <3>1. << >> \o << >> = << >>
      OBVIOUS
    <3> QED BY <2>1, <3>1 DEF Lines
  <2>4. Late(<< >>, now) = {} /\ Cardinality({}) = 0 /\ Len(<< >>) = 0
    BY FS_EmptySet DEF Late
  <2>5. Cardinality(Late(<< >>, now)) = 0 /\ Cardinality(Late(<< >>, now)) <= checkEveryM_
        /\ Cardinality(Late(<< >>, now)) <= count_
    BY <2>2, <2>4
  <2>6. RollInv
    <3>1. 1..Len(Lines(file_)) = {} /\ lastRoll_ <= now
      BY <2>1, <2>2, <2>3
    <3> QED BY <2>1, <2>2, <2>3, <2>5, <3>1 DEF RollInv
  <2>7. RollsOK(<< >>, now)
    <3>1. 1..(Len(<< >>) - 1) = {}
      OBVIOUS
    <3> QED BY <2>5, <3>1 DEF RollsOK
  <2>8. \A k \in 1..Len(files) : k = 1
    BY <2>1
  <2> QED BY <2>1, <2>3, <2>6, <2>7, <2>8, RollsOKFacts
<1>2. Types /\ LockInv /\ RollInv /\ RollsWhenDue /\ [Next]_vars
        => (Types /\ LockInv /\ RollInv /\ RollsWhenDue)'
  BY TypesStep, LockStep, RollStep
<1> QED BY <1>1, <1>2, PTL DEF Spec

-----------------------------------------------------------------------------
(* The digits of an integer.                                               *)

(* Induction over the natural numbers, for a set: with sets the steps need *)
(* no operator as a parameter.                                             *)
LEMMA NatSetInduction ==
  ASSUME NEW T, 0 \in T, \A n \in Nat : n \in T => n + 1 \in T
  PROVE  Nat \subseteq T
<1> DEFINE U == Nat \ T
<1>1. U = {}
  <2> SUFFICES ASSUME U # {} PROVE FALSE
    OBVIOUS
  <2>1. PICK n \in U : \A m \in U : ~(<<m, n>> \in OpToRel(<, Nat))
    BY WFMin, NatLessThanWellFounded
  <2>2. n \in Nat /\ n # 0 /\ n - 1 \in Nat /\ n - 1 < n
    OBVIOUS
  <2>3. n - 1 \in U
    BY <2>2
  <2>4. <<n - 1, n>> \in OpToRel(<, Nat)
    BY <2>2 DEF OpToRel
  <2> QED BY <2>1, <2>3, <2>4
<1> QED BY <1>1

(* / and % of C: both round towards zero, whatever the sign.               *)
LEMMA QuotFacts ==
  ASSUME NEW i \in Int
  PROVE  /\ Quot(i) \in Int /\ Rem(i) \in Int /\ i = 10 * Quot(i) + Rem(i)
         /\ i >= 0 => Rem(i) \in 0..9 /\ Quot(i) >= 0
         /\ i <= 0 => Rem(i) \in -9..0 /\ Quot(i) <= 0
         /\ Quot(i) = 0 <=> i \in -9..9
         /\ Quot(-i) = -Quot(i) /\ Rem(-i) = -Rem(i)
         /\ \A n \in Nat : i \in -(n + 1)..(n + 1) => Quot(i) \in -n..n
BY DEF Quot, Rem

(* Induction along the loop of convert, which goes from i to Quot(i) until *)
(* that is zero.                                                           *)
LEMMA QuotInduction ==
  ASSUME NEW T, \A i \in Int : Quot(i) = 0 \/ Quot(i) \in T => i \in T
  PROVE  Int \subseteq T
<1> DEFINE N == {n \in Nat : \A i \in -n..n : i \in T}
<1>1. 0 \in N
  <2>1. Quot(0) = 0
    BY QuotFacts
  <2> QED BY <2>1
<1>2. ASSUME NEW n \in Nat, n \in N PROVE n + 1 \in N
  <2> SUFFICES ASSUME NEW i \in -(n + 1)..(n + 1) PROVE i \in T
    OBVIOUS
  <2>1. i \in Int /\ Quot(i) \in -n..n
    BY QuotFacts
  <2> QED BY <1>2, <2>1
<1>3. Nat \subseteq N
  <2> HIDE DEF N
  <2> QED BY <1>1, <1>2, NatSetInduction
<1> SUFFICES ASSUME NEW i \in Int PROVE i \in T
  OBVIOUS
<1>4. PICK n \in Nat : i \in -n..n
  <2>1. CASE i >= 0
    <3>1. i \in Nat /\ i \in -i..i BY <2>1
    <3> QED BY <3>1
  <2>2. CASE i < 0
    <3>1. -i \in Nat /\ i \in -(-i)..(-i) BY <2>2
    <3> QED BY <3>1
  <2> QED BY <2>1, <2>2
<1> QED BY <1>3, <1>4

(* The right-hand side of lsdFirst, and a function that satisfies its      *)
(* equation for the integers from -n to n.                                 *)
Lsd(g, i) == <<zero(Rem(i))>> \o IF Quot(i) = 0 THEN << >> ELSE g[Quot(i)]
IsLsd(g, n) == g = [i \in -n..n |-> Lsd(g, i)]

(* One such function exists for every n, and two of them agree where both  *)
(* are defined; together they are lsdFirst, which satisfies its equation.  *)
LEMMA IsLsdStep ==
  ASSUME NEW g, NEW n \in Nat, IsLsd(g, n), NEW i \in -n..n
  PROVE  g[i] = Lsd(g, i)
BY DEF IsLsd

LEMMA LsdExists == \A n \in Nat : \E g : IsLsd(g, n)
<1> DEFINE N == {n \in Nat : \E g : IsLsd(g, n)}
<1>1. 0 \in N
  <2> DEFINE g == [i \in -0..0 |-> <<zero(Rem(i))>> \o << >>]
  <2>1. \A i \in -0..0 : Quot(i) = 0
    BY QuotFacts
  <2>2. \A i \in -0..0 : g[i] = Lsd(g, i)
    BY <2>1 DEF Lsd
  <2>3. g = [i \in -0..0 |-> g[i]]
    OBVIOUS
  <2> HIDE DEF g
  <2>4. IsLsd(g, 0)
    BY <2>2, <2>3 DEF IsLsd
  <2> QED BY <2>4
<1>2. ASSUME NEW n \in Nat, n \in N PROVE n + 1 \in N
  <2>1. PICK g : IsLsd(g, n)
    BY <1>2
  <2> DEFINE D == -(n + 1)..(n + 1)
             h == [i \in D |-> IF i \in -n..n THEN g[i] ELSE Lsd(g, i)]
  <2>2. \A i \in D : Quot(i) \in -n..n /\ Quot(i) \in D
    <3> TAKE i \in D
    <3>1. Quot(i) \in -n..n
      BY QuotFacts
    <3> QED BY <3>1
  <2>3. \A i \in D : h[Quot(i)] = g[Quot(i)]
    BY <2>2
  <2>4. \A i \in D : Lsd(h, i) = Lsd(g, i)
    <3> HIDE DEF h, D
    <3> QED BY <2>3 DEF Lsd
  <2>5. \A i \in D : h[i] = Lsd(g, i)
    <3> TAKE i \in D
    <3>1. CASE i \in -n..n
      <4>1. g[i] = Lsd(g, i)
        BY <2>1, <3>1, IsLsdStep
      <4> QED BY <3>1, <4>1
    <3>2. CASE i \notin -n..n
      BY <3>2
    <3> QED BY <3>1, <3>2
  <2>6. h = [i \in D |-> h[i]]
    OBVIOUS
  <2> HIDE DEF h
  <2>7. IsLsd(h, n + 1)
    BY <2>4, <2>5, <2>6 DEF IsLsd
  <2> QED BY <2>7
<1>3. Nat \subseteq N
  <2> HIDE DEF N
  <2> QED BY <1>1, <1>2, NatSetInduction
<1> QED BY <1>3

LEMMA LsdUnique ==
  ASSUME NEW g, NEW n \in Nat, IsLsd(g, n), NEW h, NEW m \in Nat, IsLsd(h, m)
  PROVE  \A i \in Int : i \in -n..n /\ i \in -m..m => g[i] = h[i]
<1> DEFINE T == {i \in Int : i \in -n..n /\ i \in -m..m => g[i] = h[i]}
<1>1. ASSUME NEW i \in Int, Quot(i) = 0 \/ Quot(i) \in T PROVE i \in T
  <2> SUFFICES ASSUME i \in -n..n, i \in -m..m PROVE g[i] = h[i]
    OBVIOUS
  <2>1. g[i] = Lsd(g, i) /\ h[i] = Lsd(h, i)
    BY IsLsdStep
  <2>2. Quot(i) \in -n..n /\ Quot(i) \in -m..m
    <3>1. ASSUME NEW k \in Nat, i \in -k..k PROVE Quot(i) \in -k..k
      <4>1. CASE k = 0
        <5>1. i \in -9..9
          BY <3>1, <4>1
        <5> QED BY <4>1, <5>1, QuotFacts
      <4>2. CASE k # 0
        <5>1. k - 1 \in Nat /\ (k - 1) + 1 = k
          BY <4>2
        <5>2. Quot(i) \in -(k - 1)..(k - 1)
          BY <3>1, <5>1, QuotFacts
        <5> QED BY <5>1, <5>2
      <4> QED BY <4>1, <4>2
    <3> QED BY <3>1
  <2>3. Quot(i) # 0 => g[Quot(i)] = h[Quot(i)]
    BY <1>1, <2>2
  <2> QED BY <2>1, <2>3 DEF Lsd
<1>2. Int \subseteq T
  <2> HIDE DEF T
  <2> QED BY <1>1, QuotInduction
<1> QED BY <1>2

LEMMA LsdDef == lsdFirst = [i \in Int |-> Lsd(lsdFirst, i)]
<1> DEFINE A(i) == IF i < 0 THEN -i ELSE i
           G(n) == CHOOSE g : IsLsd(g, n)
           h == [i \in Int |-> G(A(i))[i]]
<1>1. \A n \in Nat : IsLsd(G(n), n)
  BY LsdExists
<1>2. \A i \in Int : A(i) \in Nat /\ i \in -A(i)..A(i) /\ Quot(i) \in -A(i)..A(i)
  BY DEF Quot
<1> HIDE DEF G, A
<1>3. \A i \in Int : h[i] = Lsd(h, i)
  <2> TAKE i \in Int
  <2> DEFINE q == Quot(i)
             g == G(A(i))
  <2>0. q \in Int
    BY QuotFacts
  <2>1. IsLsd(g, A(i)) /\ IsLsd(G(A(q)), A(q))
    BY <1>1, <1>2, <2>0
  <2>2. h[i] = g[i] /\ h[q] = G(A(q))[q]
    BY <2>0
  <2>3. g[i] = Lsd(g, i)
    BY <1>2, <2>1, IsLsdStep
  <2>4. g[q] = G(A(q))[q]
    <3> HIDE DEF q, g
    <3>1. A(i) \in Nat /\ A(q) \in Nat /\ q \in -A(i)..A(i) /\ q \in -A(q)..A(q)
      BY <1>2, <2>0 DEF q
    <3> QED BY <2>0, <2>1, <3>1, LsdUnique
  <2> HIDE DEF h, g
  <2>5. Lsd(g, i) = Lsd(h, i)
    BY <2>2, <2>4 DEF Lsd
  <2> QED BY <2>2, <2>3, <2>5
<1>4. h = [i \in Int |-> h[i]]
  OBVIOUS
<1> HIDE DEF h
<1>5. h = [i \in Int |-> Lsd(h, i)]
  BY <1>3, <1>4
<1>6. lsdFirst = CHOOSE x : x = [i \in Int |-> Lsd(x, i)]
  BY DEF lsdFirst, Lsd
<1> QED BY <1>5, <1>6

(* A character of digits[].                                                *)
Char == ToSet(digits)

(* The left half of digits[] holds the figures of the remainders -9..0.    *)
LEMMA ZeroFacts ==
  /\ \A r \in -9..9 : zero(r) \in Char
  /\ \A r \in -9..0 : zero(r) = Figures[1 - r]
<1>1. DOMAIN digits = 1..19
  BY DEF digits
<1>2. \A r \in -9..9 : 10 + r \in 1..19
  OBVIOUS
<1>3. \A r \in -9..9 : zero(r) \in Char
  BY <1>1, <1>2 DEF zero, Char, ToSet
<1>4. ASSUME NEW r \in -9..0 PROVE zero(r) = Figures[1 - r]
  <2>1. \/ r = 0 \/ r = -1 \/ r = -2 \/ r = -3 \/ r = -4
        \/ r = -5 \/ r = -6 \/ r = -7 \/ r = -8 \/ r = -9
    OBVIOUS
  <2> QED BY <2>1 DEF zero, digits, Figures
<1> QED BY <1>3, <1>4

(* The equation of lsdFirst, one case at a time.                           *)
LEMMA LsdFirstFacts ==
  \A i \in Int : /\ lsdFirst[i] \in Seq(Char) /\ lsdFirst[i] # << >>
                 /\ Quot(i) = 0 => lsdFirst[i] = <<zero(Rem(i))>>
                 /\ Quot(i) # 0 => lsdFirst[i] = <<zero(Rem(i))>> \o lsdFirst[Quot(i)]
<1>1. \A i \in Int : lsdFirst[i] = Lsd(lsdFirst, i)
  BY LsdDef
<1>2. \A i \in Int : zero(Rem(i)) \in Char
  <2> TAKE i \in Int
  <2>1. Rem(i) \in -9..9
    BY QuotFacts
  <2> QED BY <2>1, ZeroFacts
<1>3. \A i \in Int : <<zero(Rem(i))>> \in Seq(Char)
  BY <1>2
<1> DEFINE T == {i \in Int : lsdFirst[i] \in Seq(Char)}
<1>4. ASSUME NEW i \in Int, Quot(i) = 0 \/ Quot(i) \in T PROVE i \in T
  <2>1. Quot(i) = 0 => lsdFirst[i] = <<zero(Rem(i))>> \o << >>
    BY <1>1 DEF Lsd
  <2>2. Quot(i) # 0 => lsdFirst[i] = <<zero(Rem(i))>> \o lsdFirst[Quot(i)]
    BY <1>1 DEF Lsd
  <2>3. Quot(i) # 0 => lsdFirst[Quot(i)] \in Seq(Char)
    BY <1>4
  <2>4. \A s \in Seq(Char) : <<zero(Rem(i))>> \o s \in Seq(Char)
    BY <1>3, ConcatProperties
  <2>5. << >> \in Seq(Char)
    OBVIOUS
  <2> QED BY <2>1, <2>2, <2>3, <2>4, <2>5, Zenon
<1>5. Int \subseteq T
  <2> HIDE DEF T
  <2> QED BY <1>4, QuotInduction
<1>6. ASSUME NEW i \in Int
      PROVE  /\ Quot(i) = 0 => lsdFirst[i] = <<zero(Rem(i))>>
             /\ Quot(i) # 0 => lsdFirst[i] = <<zero(Rem(i))>> \o lsdFirst[Quot(i)]
             /\ lsdFirst[i] # << >>
  <2>1. Quot(i) = 0 => lsdFirst[i] = <<zero(Rem(i))>> \o << >>
    BY <1>1 DEF Lsd
  <2>2. Quot(i) # 0 => lsdFirst[i] = <<zero(Rem(i))>> \o lsdFirst[Quot(i)]
    BY <1>1 DEF Lsd
  <2>3. <<zero(Rem(i))>> \in Seq(Char) /\ Quot(i) \in Int
    BY <1>3, QuotFacts
  <2>4. <<zero(Rem(i))>> \o << >> = <<zero(Rem(i))>>
    BY <2>3, ConcatEmptySeq
  <2>5. Quot(i) # 0 => Len(lsdFirst[i]) = 1 + Len(lsdFirst[Quot(i)])
    <3>1. lsdFirst[Quot(i)] \in Seq(Char)
      BY <1>5, <2>3
    <3> QED BY <2>2, <2>3, <3>1, ConcatProperties
  <2>6. Quot(i) # 0 => Len(lsdFirst[i]) # 0
    <3>1. Len(lsdFirst[Quot(i)]) \in Nat
      BY <1>5, <2>3, LenProperties
    <3> QED BY <2>5, <3>1
  <2> QED BY <2>1, <2>2, <2>4, <2>6, EmptySeq
<1> QED BY <1>5, <1>6

(* std::reverse, of a digit put in front and of a sign put behind.         *)
LEMMA ReverseFacts ==
  ASSUME NEW S, NEW c \in S, NEW s \in Seq(S)
  PROVE  /\ Reverse(s) \in Seq(S) /\ Len(Reverse(s)) = Len(s)
         /\ Reverse(<<c>> \o s) = Append(Reverse(s), c)
         /\ Len(Reverse(s \o <<c>>)) = Len(s) + 1
         /\ Reverse(s \o <<c>>)[1] = c /\ Tail(Reverse(s \o <<c>>)) = Reverse(s)
         /\ Reverse(<<c>>) = <<c>>
<1>1. Reverse(s) \in Seq(S) /\ Len(Reverse(s)) = Len(s)
  BY DEF Reverse
<1>2. Reverse(<<c>> \o s) = Append(Reverse(s), c)
  BY DEF Reverse
<1>3. Len(Reverse(s \o <<c>>)) = Len(s) + 1
  BY DEF Reverse
<1>4. Reverse(s \o <<c>>)[1] = c
  BY DEF Reverse
<1>5. Tail(Reverse(s \o <<c>>)) = Reverse(s)
  BY DEF Reverse
<1>6. Reverse(<<c>>) = <<c>>
  BY DEF Reverse
<1> QED BY <1>1, <1>2, <1>3, <1>4, <1>5, <1>6

(* A figure determines its digit.                                          *)
LEMMA FigureFacts ==
  \A d \in 0..9 : Figure(Figures[d + 1]) = d /\ Figures[d + 1] \in ToSet(Figures)
                  /\ (d # 0 => Figures[d + 1] # "0")
<1> TAKE d \in 0..9
<1>1. \/ d = 0 \/ d = 1 \/ d = 2 \/ d = 3 \/ d = 4
      \/ d = 5 \/ d = 6 \/ d = 7 \/ d = 8 \/ d = 9
  OBVIOUS
<1>2. \A e \in 0..9 : Figures[e + 1] = Figures[d + 1] => e = d
  <2> TAKE e \in 0..9
  <2>1. \/ e = 0 \/ e = 1 \/ e = 2 \/ e = 3 \/ e = 4
        \/ e = 5 \/ e = 6 \/ e = 7 \/ e = 8 \/ e = 9
    OBVIOUS
  <2> QED BY <1>1, <2>1 DEF Figures
<1>3. Figure(Figures[d + 1]) = d
  BY <1>2 DEF Figure
<1>4. d + 1 \in DOMAIN Figures
  BY DEF Figures
<1>5. d # 0 => Figures[d + 1] # "0"
  BY <1>1 DEF Figures
<1> QED BY <1>3, <1>4, <1>5 DEF ToSet

(* g[i] is the number that the first i figures of s stand for.             *)
Value(s, g, i) == IF i = 0 THEN 0 ELSE 10 * g[i - 1] + Figure(s[i])
IsValue(s, g, n) == g = [i \in 0..n |-> Value(s, g, i)]

LEMMA IsValueStep ==
  ASSUME NEW s, NEW g, NEW n \in Nat, IsValue(s, g, n), NEW i \in 0..n
  PROVE  g[i] = Value(s, g, i)
BY DEF IsValue

LEMMA ValueExists == ASSUME NEW s PROVE \A n \in Nat : \E g : IsValue(s, g, n)
<1> DEFINE N == {n \in Nat : \E g : IsValue(s, g, n)}
<1>1. 0 \in N
  <2> DEFINE g == [i \in 0..0 |-> 0]
  <2>1. IsValue(s, g, 0)
    BY DEF IsValue, Value
  <2> QED BY <2>1
<1>2. ASSUME NEW n \in Nat, n \in N PROVE n + 1 \in N
  <2>1. PICK g : IsValue(s, g, n)
    BY <1>2
  <2> DEFINE h == [i \in 0..(n + 1) |-> IF i \in 0..n THEN g[i] ELSE Value(s, g, i)]
  <2>2. \A i \in 0..(n + 1) : h[i] = Value(s, g, i)
    <3> TAKE i \in 0..(n + 1)
    <3>1. CASE i \in 0..n
      <4>1. g[i] = Value(s, g, i)
        BY <2>1, <3>1, IsValueStep
      <4> QED BY <3>1, <4>1
    <3>2. CASE i \notin 0..n
      BY <3>2
    <3> QED BY <3>1, <3>2
  <2>3. \A i \in 0..(n + 1) : i # 0 => h[i - 1] = g[i - 1]
    OBVIOUS
  <2>4. \A i \in 0..(n + 1) : Value(s, h, i) = Value(s, g, i)
    <3> HIDE DEF h
    <3> QED BY <2>3 DEF Value
  <2>5. h = [i \in 0..(n + 1) |-> h[i]]
    OBVIOUS
  <2> HIDE DEF h
  <2>6. IsValue(s, h, n + 1)
    BY <2>2, <2>4, <2>5 DEF IsValue
  <2> QED BY <2>6
<1>3. Nat \subseteq N
  <2> HIDE DEF N
  <2> QED BY <1>1, <1>2, NatSetInduction
<1> QED BY <1>3

(* Number is the last value of a function that satisfies the equation.     *)
LEMMA NumberDef ==
  ASSUME NEW S, NEW s \in Seq(S)
  PROVE  \E g : IsValue(s, g, Len(s)) /\ Number(s) = g[Len(s)]
<1> DEFINE g == CHOOSE h : IsValue(s, h, Len(s))
<1>1. IsValue(s, g, Len(s))
  BY ValueExists, LenProperties
<1>2. Number(s) = g[Len(s)]
  BY DEF Number, IsValue, Value
<1> HIDE DEF g
<1> QED BY <1>1, <1>2

(* A figure more at the end: ten times the number and the figure.          *)
LEMMA NumberFacts ==
  /\ Number(<< >>) = 0
  /\ \A s \in Seq(ToSet(Figures)), d \in 0..9 :
       Number(s) \in Int => Number(Append(s, Figures[d + 1])) = 10 * Number(s) + d
<1>1. Number(<< >>) = 0
  <2>1. << >> \in Seq({}) /\ Len(<< >>) = 0
    OBVIOUS
  <2>2. PICK g : IsValue(<< >>, g, 0) /\ Number(<< >>) = g[0]
    BY <2>1, NumberDef
  <2> QED BY <2>2, IsValueStep DEF Value
<1>2. ASSUME NEW s \in Seq(ToSet(Figures)), NEW d \in 0..9
      PROVE  Number(Append(s, Figures[d + 1])) = 10 * Number(s) + d
  <2> DEFINE c == Figures[d + 1]
             u == Append(s, c)
             n == Len(s)
  <2>1. c \in ToSet(Figures) /\ Figure(c) = d
    BY FigureFacts
  <2> HIDE DEF c
  <2>2. /\ u \in Seq(ToSet(Figures)) /\ n \in Nat /\ Len(u) = n + 1 /\ u[n + 1] = c
        /\ \A i \in 1..n : u[i] = s[i]
    BY <2>1, AppendProperties, LenProperties
  <2> HIDE DEF u
  <2>3. PICK g : IsValue(s, g, n) /\ Number(s) = g[n]
    BY NumberDef
  <2>4. PICK h : IsValue(u, h, n + 1) /\ Number(u) = h[n + 1]
    BY <2>2, NumberDef
  <2> HIDE DEF n
  <2> DEFINE N == {i \in Nat : i \in 0..n => h[i] = g[i]}
  <2>5. \A i \in 0..n : /\ g[i] = IF i = 0 THEN 0 ELSE 10 * g[i - 1] + Figure(s[i])
                        /\ h[i] = IF i = 0 THEN 0 ELSE 10 * h[i - 1] + Figure(u[i])
    <3> TAKE i \in 0..n
    <3>1. i \in 0..(n + 1)
      BY <2>2
    <3>2. g[i] = Value(s, g, i)
      BY <2>2, <2>3, IsValueStep
    <3>3. h[i] = Value(u, h, i)
      BY <2>2, <2>4, <3>1, IsValueStep
    <3> QED BY <3>2, <3>3 DEF Value
  <2>6. 0 \in N
    BY <2>2, <2>5
  <2>7. ASSUME NEW i \in Nat, i \in N PROVE i + 1 \in N
    <3> SUFFICES ASSUME i + 1 \in 0..n PROVE h[i + 1] = g[i + 1]
      OBVIOUS
    <3>1. i \in 0..n /\ i + 1 # 0 /\ (i + 1) - 1 = i /\ i + 1 \in 1..n
      BY <2>2
    <3>2. h[i] = g[i] /\ u[i + 1] = s[i + 1]
      BY <2>2, <2>7, <3>1
    <3>3. g[i + 1] = 10 * g[i] + Figure(s[i + 1]) /\ h[i + 1] = 10 * h[i] + Figure(u[i + 1])
      BY <2>5, <3>1
    <3> QED BY <3>2, <3>3
  <2>8. Nat \subseteq N
    <3> HIDE DEF N
    <3> QED BY <2>6, <2>7, NatSetInduction
  <2>9. h[n] = g[n]
    BY <2>2, <2>8
  <2>10. h[n + 1] = 10 * h[n] + d
    <3>1. n + 1 \in 0..(n + 1) /\ n + 1 # 0 /\ (n + 1) - 1 = n
      BY <2>2
    <3>2. h[n + 1] = Value(u, h, n + 1)
      BY <2>2, <2>4, <3>1, IsValueStep
    <3>3. h[n + 1] = 10 * h[n] + Figure(u[n + 1])
      BY <3>1, <3>2 DEF Value
    <3> QED BY <2>1, <2>2, <3>3
  <2> QED BY <2>3, <2>4, <2>9, <2>10 DEF u, c
<1> QED BY <1>1, <1>2

(* The figures of a negative number.                                       *)
LEMMA NegativeDecimal == \A i \in Int : i < 0 => IsDecimal(Reverse(lsdFirst[i]), -i)
<1> DEFINE F == ToSet(Figures)
           D(i) == Reverse(lsdFirst[i])
           T == {i \in Int : i < 0 => /\ D(i) \in Seq(F) /\ D(i) # << >> /\ D(i)[1] # "0"
                                      /\ Number(D(i)) = -i}
<1>1. ASSUME NEW i \in Int, Quot(i) = 0 \/ Quot(i) \in T PROVE i \in T
  <2> SUFFICES ASSUME i < 0
               PROVE  D(i) \in Seq(F) /\ D(i) # << >> /\ D(i)[1] # "0" /\ Number(D(i)) = -i
    OBVIOUS
  <2> DEFINE q == Quot(i)
             d == -Rem(i)
             c == Figures[d + 1]
  <2>1. q \in Int /\ q <= 0 /\ d \in 0..9 /\ i = 10 * q - d /\ Rem(i) = -d /\ Rem(i) \in -9..0
    <3>1. q \in Int /\ Rem(i) \in Int /\ i = 10 * q + Rem(i) /\ (i <= 0 => Rem(i) \in -9..0 /\ q <= 0)
      BY QuotFacts, Zenon
    <3> HIDE DEF q
    <3> QED BY <3>1
  <2>2. c = zero(Rem(i)) /\ c \in F /\ c \in Char /\ (d # 0 => c # "0")
    <3>1. zero(Rem(i)) = Figures[1 - Rem(i)] /\ 1 - Rem(i) = d + 1 /\ zero(Rem(i)) \in Char
      BY <2>1, ZeroFacts
    <3> QED BY <2>1, <3>1, FigureFacts
  <2>3. /\ q = 0 => lsdFirst[i] = <<c>>
        /\ q # 0 => lsdFirst[i] = <<c>> \o lsdFirst[q] /\ lsdFirst[q] \in Seq(Char)
    BY <2>1, <2>2, LsdFirstFacts
  <2> HIDE DEF c, d
  <2>4. CASE q = 0
    <3>1. D(i) = <<c>>
      <4>1. Reverse(<<c>>) = <<c>>
        BY DEF Reverse
      <4> QED BY <2>3, <2>4, <4>1
    <3>2. d # 0 /\ d = -i
      BY <2>1, <2>4
    <3>3. Number(<<c>>) = 10 * 0 + d
      <4>1. << >> \in Seq(F) /\ Append(<< >>, c) = <<c>>
        OBVIOUS
      <4>2. Number(<< >>) = 0 /\ 0 \in Int
        BY NumberFacts
      <4>3. Number(Append(<< >>, Figures[d + 1])) = 10 * Number(<< >>) + d
        BY <2>1, <4>1, <4>2, NumberFacts, Zenon
      <4> QED BY <4>1, <4>2, <4>3 DEF c
    <3>4. <<c>> \in Seq(F) /\ <<c>> # << >> /\ <<c>>[1] = c
      BY <2>2
    <3> QED BY <2>1, <2>2, <3>1, <3>2, <3>3, <3>4
  <2>5. CASE q # 0
    <3> DEFINE s == D(q)
    <3>1. D(i) = Append(s, c)
      BY <2>2, <2>3, <2>5, ReverseFacts
    <3>2. s \in Seq(F) /\ s # << >> /\ s[1] # "0" /\ Number(s) = -q
      BY <1>1, <2>1, <2>5
    <3> HIDE DEF s, D, q, F
    <3>3. Number(Append(s, c)) = 10 * Number(s) + d
      <4>1. Number(s) \in Int
        BY <2>1, <3>2
      <4> QED BY <2>1, <3>2, <4>1, NumberFacts DEF c, F
    <3>4. Append(s, c) \in Seq(F) /\ Append(s, c) # << >> /\ Append(s, c)[1] = s[1]
      BY <2>2, <3>2
    <3>5. 10 * (-q) + d = -i
      BY <2>1
    <3> QED BY <3>1, <3>2, <3>3, <3>4, <3>5
  <2> QED BY <2>4, <2>5
<1>2. Int \subseteq T
  <2> HIDE DEF T
  <2> QED BY <1>1, QuotInduction
<1> SUFFICES ASSUME NEW i \in Int, i < 0 PROVE IsDecimal(D(i), -i)
  OBVIOUS
<1>3. D(i) \in Seq(F) /\ D(i) # << >> /\ D(i)[1] # "0" /\ Number(D(i)) = -i
  BY <1>2
<1>4. ToSet(D(i)) \subseteq F
  <2> HIDE DEF F, D
  <2> QED BY <1>3 DEF ToSet
<1> HIDE DEF D
<1> QED BY <1>3, <1>4 DEF IsDecimal

(* A number has as many figures as its negative.                           *)
LEMMA LsdLen ==
  \A i \in Int : /\ Len(lsdFirst[i]) \in Nat \ {0} /\ Len(lsdFirst[-i]) = Len(lsdFirst[i])
                 /\ Quot(i) = 0 => Len(lsdFirst[i]) = 1
                 /\ Quot(i) # 0 => Len(lsdFirst[i]) = 1 + Len(lsdFirst[Quot(i)])
<1>1. ASSUME NEW i \in Int
      PROVE  /\ Len(lsdFirst[i]) \in Nat \ {0}
             /\ Quot(i) = 0 => Len(lsdFirst[i]) = 1
             /\ Quot(i) # 0 => Len(lsdFirst[i]) = 1 + Len(lsdFirst[Quot(i)])
  <2>1. zero(Rem(i)) \in Char /\ Quot(i) \in Int
    <3>1. Rem(i) \in -9..9 /\ Quot(i) \in Int
      BY QuotFacts
    <3> QED BY <3>1, ZeroFacts
  <2> DEFINE c == zero(Rem(i))
             q == Quot(i)
  <2>2. lsdFirst[i] \in Seq(Char) /\ lsdFirst[q] \in Seq(Char) /\ lsdFirst[i] # << >>
    BY <2>1, LsdFirstFacts
  <2>3. /\ q = 0 => lsdFirst[i] = <<c>>
        /\ q # 0 => lsdFirst[i] = <<c>> \o lsdFirst[q]
    BY LsdFirstFacts
  <2> HIDE DEF c, q
  <2>4. Len(lsdFirst[i]) \in Nat \ {0}
    BY <2>2, LenProperties, EmptySeq
  <2>5. \A s \in Seq(Char) : Len(<<c>> \o s) = 1 + Len(s)
    BY <2>1, ConcatProperties DEF c
  <2>6. Len(<<c>>) = 1
    OBVIOUS
  <2> QED BY <2>2, <2>3, <2>4, <2>5, <2>6, Zenon DEF q
<1> DEFINE T == {i \in Int : Len(lsdFirst[-i]) = Len(lsdFirst[i])}
<1>2. ASSUME NEW i \in Int, Quot(i) = 0 \/ Quot(i) \in T PROVE i \in T
  <2>1. -i \in Int /\ Quot(i) \in Int /\ Quot(-i) = -Quot(i) /\ (Quot(-i) = 0 <=> Quot(i) = 0)
    BY DEF Quot
  <2> DEFINE q == Quot(i)
  <2>2. /\ q = 0 => Len(lsdFirst[i]) = 1 /\ Len(lsdFirst[-i]) = 1
        /\ q # 0 => /\ Len(lsdFirst[i]) = 1 + Len(lsdFirst[q])
                    /\ Len(lsdFirst[-i]) = 1 + Len(lsdFirst[-q])
    BY <1>1, <2>1, Zenon
  <2>3. q # 0 => Len(lsdFirst[-q]) = Len(lsdFirst[q])
    BY <1>2
  <2> HIDE DEF q
  <2> QED BY <2>2, <2>3
<1>3. Int \subseteq T
  <2> HIDE DEF T
  <2> QED BY <1>2, QuotInduction
<1> QED BY <1>1, <1>3

(* The sign is put in front of the figures.                                *)
LEMMA ConvertFacts ==
  ASSUME NEW v \in Int
  PROVE  /\ v < 0 => /\ convert(v)[1] = "-" /\ Tail(convert(v)) = Reverse(lsdFirst[v])
                     /\ Len(convert(v)) = 1 + Len(lsdFirst[v])
         /\ v >= 0 => Len(convert(v)) = Len(lsdFirst[v])
         /\ v = 0 => convert(v) = <<"0">>
<1> DEFINE S == Char \cup {"-"}
<1>1. lsdFirst[v] \in Seq(S) /\ "-" \in S
  <2>1. lsdFirst[v] \in Seq(Char)
    BY LsdFirstFacts, Zenon
  <2> QED BY <2>1
<1> DEFINE s == lsdFirst[v]
<1> HIDE DEF S, s
<1>2. CASE v < 0
  <2>1. convert(v) = Reverse(lsdFirst[v] \o <<"-">>)
    BY <1>2 DEF convert
  <2>2. /\ Len(Reverse(s \o <<"-">>)) = Len(s) + 1 /\ Reverse(s \o <<"-">>)[1] = "-"
        /\ Tail(Reverse(s \o <<"-">>)) = Reverse(s)
    <3> DEFINE c == "-"
    <3>1. c \in S /\ s \in Seq(S)
      BY <1>1 DEF s
    <3> HIDE DEF c
    <3>2. /\ Len(Reverse(s \o <<c>>)) = Len(s) + 1 /\ Reverse(s \o <<c>>)[1] = c
          /\ Tail(Reverse(s \o <<c>>)) = Reverse(s)
      BY <3>1, ReverseFacts, Zenon
    <3> QED BY <3>2 DEF c
  <2>3. Len(s) \in Nat
    BY <1>1, LenProperties DEF s
  <2>4. /\ convert(v)[1] = "-" /\ Tail(convert(v)) = Reverse(s)
        /\ Len(convert(v)) = Len(s) + 1 /\ Len(s) + 1 = 1 + Len(s)
    <3> HIDE DEF convert
    <3>1. convert(v) = Reverse(s \o <<"-">>)
      BY <2>1 DEF s
    <3>2. Len(s) + 1 = 1 + Len(s)
      BY <2>3
    <3> QED BY <2>2, <3>1, <3>2, Zenon
  <2> QED BY <1>2, <2>4 DEF s
<1>3. CASE v >= 0
  <2>1. convert(v) = Reverse(lsdFirst[v])
    <3>1. s \o << >> = s
      BY <1>1, ConcatEmptySeq DEF s
    <3>2. convert(v) = Reverse(s \o << >>)
      <4>1. ~(v < 0)
        BY <1>3
      <4> QED BY <4>1 DEF convert, s
    <3> QED BY <3>1, <3>2 DEF s
  <2>2. Len(convert(v)) = Len(lsdFirst[v])
    BY <1>1, <2>1, ReverseFacts, Zenon
  <2>3. ASSUME v = 0 PROVE convert(v) = <<"0">>
    <3>1. 0 \in Int /\ Quot(0) = 0 /\ Rem(0) = 0
      BY DEF Quot, Rem
    <3>2. zero(0) = "0"
      BY DEF zero, digits
    <3>3. lsdFirst[0] = <<"0">>
      <4>1. lsdFirst[0] = <<zero(Rem(0))>>
        BY <3>1, LsdFirstFacts, Zenon
      <4> QED BY <3>1, <3>2, <4>1
    <3>4. Reverse(<<"0">>) = <<"0">>
      BY DEF Reverse
    <3> QED BY <2>1, <2>3, <3>3, <3>4
  <2> QED BY <1>3, <2>2, <2>3
<1> QED BY <1>2, <1>3

(* The number of characters that convert returns.                          *)
LEMMA ConvertLen == \A v \in Int : Len(convert(v)) \in Nat
<1> TAKE v \in Int
<1>1. Len(lsdFirst[v]) \in Nat
  BY LsdLen, Zenon
<1> QED BY <1>1, ConvertFacts

(* What convert promises of the integers that are printed.                 *)
LEMMA ConvertedHolds == Converted
<1> SUFFICES ASSUME NEW v \in PrintedInts
             PROVE  /\ v < 0 => convert(v)[1] = "-" /\ IsDecimal(Tail(convert(v)), -v)
                    /\ v = 0 => convert(v) = <<"0">>
                    /\ v > 0 => Len(convert(v)) = Len(convert(-v)) - 1
  BY DEF Converted
<1>1. v \in Int /\ -v \in Int
  BY LogStreamAssumption
<1>2. v < 0 => convert(v)[1] = "-" /\ IsDecimal(Tail(convert(v)), -v)
  BY <1>1, ConvertFacts, NegativeDecimal
<1>3. v = 0 => convert(v) = <<"0">>
  BY <1>1, ConvertFacts
<1>4. v > 0 => Len(convert(v)) = Len(convert(-v)) - 1
  <2> SUFFICES ASSUME v > 0 PROVE Len(convert(v)) = Len(convert(-v)) - 1
    OBVIOUS
  <2>1. Len(convert(v)) = Len(lsdFirst[v])
    BY <1>1, ConvertFacts
  <2>2. -v < 0
    BY <1>1
  <2>3. Len(convert(-v)) = 1 + Len(lsdFirst[-v])
    BY <1>1, <2>2, ConvertFacts
  <2>4. Len(lsdFirst[-v]) = Len(lsdFirst[v]) /\ Len(lsdFirst[v]) \in Nat
    BY <1>1, LsdLen, Zenon
  <2> QED BY <2>1, <2>3, <2>4
<1> QED BY <1>2, <1>3, <1>4

(* Ten times as many numbers take one figure more.                         *)
LEMMA OneMoreFigure ==
  ASSUME NEW B \in Nat, NEW k \in Nat,
         \A i \in Int : -B < i /\ i < B => Len(lsdFirst[i]) <= k
  PROVE  \A i \in Int : -(10 * B) < i /\ i < 10 * B => Len(lsdFirst[i]) <= k + 1
<1> TAKE i \in Int
<1> HAVE -(10 * B) < i /\ i < 10 * B
<1>1. Quot(i) \in Int /\ -B < Quot(i) /\ Quot(i) < B
  BY DEF Quot
<1>2. Len(lsdFirst[Quot(i)]) <= k
  BY <1>1
<1>3. /\ Len(lsdFirst[i]) \in Nat /\ Len(lsdFirst[Quot(i)]) \in Nat
      /\ Quot(i) = 0 => Len(lsdFirst[i]) = 1
      /\ Quot(i) # 0 => Len(lsdFirst[i]) = 1 + Len(lsdFirst[Quot(i)])
  BY <1>1, LsdLen, Zenon
<1> DEFINE m == Len(lsdFirst[i])
           n == Len(lsdFirst[Quot(i)])
<1> HIDE DEF m, n
<1>4. m \in Nat /\ n \in Nat /\ n <= k /\ (m = 1 \/ m = 1 + n)
  BY <1>2, <1>3 DEF m, n
<1>5. m <= k + 1
  BY <1>4
<1> QED BY <1>5 DEF m

(* Shorter(B, k): k figures are enough for the numbers between -B and B.   *)
Shorter(B, k) == \A i \in Int : -B < i /\ i < B => Len(lsdFirst[i]) <= k

(* LogStream.cc:3-27.  An integer of 64 bits, signed or not, takes at most *)
(* 20 characters with its sign: kMaxnumericSize, 48, leaves room for all.  *)
THEOREM ConvertIsShort ==
  \A v \in Int : -9223372036854775808 <= v /\ v <= 18446744073709551615
                 => Len(convert(v)) <= 20
<1>0. Shorter(10, 1)
  <2> SUFFICES ASSUME NEW i \in Int, -10 < i, i < 10 PROVE Len(lsdFirst[i]) <= 1
    BY DEF Shorter
  <2>1. Quot(i) = 0
    BY DEF Quot
  <2>2. Len(lsdFirst[i]) = 1
    BY <2>1, LsdLen, Zenon
  <2> QED BY <2>2
<1>a. \A B \in Nat, k \in Nat : Shorter(B, k) => Shorter(10 * B, k + 1)
  BY OneMoreFigure DEF Shorter
<1>1. Shorter(100, 2)
  BY <1>0, <1>a
<1>2. Shorter(1000, 3)
  BY <1>1, <1>a
<1>3. Shorter(10000, 4)
  BY <1>2, <1>a
<1>b. \A B \in Nat, k \in Nat : Shorter(B, k) => Shorter(10000 * B, k + 4)
  <2> TAKE B \in Nat, k \in Nat
  <2> HAVE Shorter(B, k)
  <2>1. Shorter(10 * B, k + 1)
    BY <1>a
  <2>2. Shorter(100 * B, k + 2)
    <3>1. 10 * B \in Nat /\ k + 1 \in Nat /\ 10 * (10 * B) = 100 * B /\ (k + 1) + 1 = k + 2
      OBVIOUS
    <3>2. Shorter(10 * (10 * B), (k + 1) + 1)
      BY <1>a, <2>1, <3>1
    <3> QED BY <3>1, <3>2
  <2>3. Shorter(1000 * B, k + 3)
    <3>1. 100 * B \in Nat /\ k + 2 \in Nat /\ 10 * (100 * B) = 1000 * B /\ (k + 2) + 1 = k + 3
      OBVIOUS
    <3>2. Shorter(10 * (100 * B), (k + 2) + 1)
      BY <1>a, <2>2, <3>1
    <3> QED BY <3>1, <3>2
  <2>4. 1000 * B \in Nat /\ k + 3 \in Nat /\ 10 * (1000 * B) = 10000 * B /\ (k + 3) + 1 = k + 4
    OBVIOUS
  <2>5. Shorter(10 * (1000 * B), (k + 3) + 1)
    BY <1>a, <2>3, <2>4
  <2> QED BY <2>4, <2>5
<1>4. Shorter(100000000, 8)
  BY <1>3, <1>b
<1>5. Shorter(1000000000000, 12)
  BY <1>4, <1>b
<1>6. Shorter(10000000000000000, 16)
  BY <1>5, <1>b
<1>7. Shorter(100000000000000000, 17)
  BY <1>6, <1>a
<1>8. Shorter(1000000000000000000, 18)
  BY <1>7, <1>a
<1>9. Shorter(10000000000000000000, 19)
  BY <1>8, <1>a
<1>10. Shorter(100000000000000000000, 20)
  BY <1>9, <1>a
<1>11. \A v \in Int : Len(lsdFirst[v]) \in Nat
  BY LsdLen, Zenon
<1> TAKE v \in Int
<1> HAVE -9223372036854775808 <= v /\ v <= 18446744073709551615
<1>12. CASE v < 0
  <2>1. Len(lsdFirst[v]) <= 19
    BY <1>9, <1>11, <1>12 DEF Shorter
  <2> QED BY <1>11, <1>12, <2>1, ConvertFacts
<1>13. CASE v >= 0
  <2>1. Len(lsdFirst[v]) <= 20
    BY <1>10, <1>11, <1>13 DEF Shorter
  <2> QED BY <1>11, <1>13, <2>1, ConvertFacts
<1> QED BY <1>11, <1>12, <1>13

-----------------------------------------------------------------------------
(* The buffer that they are printed to.                                    *)

(* The buffer after a string and after an integer is not full.             *)
LEMMA AppendFits ==
  ASSUME NEW cur \in 0..(SIZE - 1)
  PROVE  /\ \A n \in Nat : append(cur, n) \in 0..(SIZE - 1)
         /\ \A v \in PrintedInts : formatInteger(cur, v) \in 0..(SIZE - 1)
<1>1. SIZE \in Nat /\ kMaxnumericSize \in 1..SIZE
  BY LogStreamAssumption
<1>2. \A n \in Nat : append(cur, n) \in 0..(SIZE - 1)
  BY <1>1 DEF append
<1>3. ASSUME NEW v \in PrintedInts PROVE formatInteger(cur, v) \in 0..(SIZE - 1)
  <2> DEFINE n == Len(convert(v))
  <2>1. n \in Nat /\ n < kMaxnumericSize
    BY LogStreamAssumption, ConvertLen
  <2>2. formatInteger(cur, v) = IF SIZE - cur >= kMaxnumericSize THEN cur + n ELSE cur
    BY DEF formatInteger
  <2> HIDE DEF n
  <2> QED BY <1>1, <2>1, <2>2
<1> QED BY <1>2, <1>3

(* Nor is it full behind a whole line.                                     *)
LEMMA LensFit == \A n \in Lens : n \in 0..(SIZE - 1)
<1> DEFINE R == 0..(SIZE - 1)
<1>1. 0 \in R
  BY LogStreamAssumption
<1>2. /\ \A c \in R, n \in Nat : append(c, n) \in R
      /\ \A c \in R, v \in PrintedInts : formatInteger(c, v) \in R
  BY AppendFits
<1>3. /\ 3 \in Nat /\ FuncLen \in Nat /\ FileLen \in Nat /\ Messages \subseteq Nat
      /\ 10 \in PrintedInts /\ 32 \in PrintedInts /\ 58 \in PrintedInts /\ LineNo \in PrintedInts
  BY LoggingAssumption
<1> HIDE DEF R
<1>4. ASSUME NEW c \in R PROVE finish(c) \in R
  <2>1. append(append(c, 3), FileLen) \in R
    BY <1>2, <1>3
  <2>2. formatInteger(append(append(c, 3), FileLen), 58) \in R
    BY <1>2, <1>3, <2>1
  <2>3. formatInteger(formatInteger(append(append(c, 3), FileLen), 58), LineNo) \in R
    BY <1>2, <1>3, <2>2
  <2> QED BY <1>2, <1>3, <2>3 DEF finish
<1>5. ASSUME NEW m \in Messages PROVE LineLen(m) \in R
  <2>1. formatInteger(append(0, FuncLen), 32) \in R
    <3>1. append(0, FuncLen) \in R
      BY <1>1, <1>2, <1>3
    <3> QED BY <1>2, <1>3, <3>1
  <2>2. append(formatInteger(append(0, FuncLen), 32), m) \in R
    BY <1>2, <1>3, <2>1
  <2> QED BY <1>4, <2>2 DEF LineLen
<1> QED BY <1>1, <1>5 DEF Lens, R

(* LogStream.cc:3-27 and 29-40.  Whatever integers are printed, zero and   *)
(* the negative ones come out as their decimal numbers and the positive    *)
(* ones with as many characters as their negatives; and in every behaviour *)
(* an integer behind a line that is logged stays within the buffer.        *)
THEOREM ConvertSafe == Spec => []ConvertRight
<1>1. Init => Types
  BY InitFacts
<1>2. Types /\ [Next]_vars => Types'
  BY TypesStep
<1>3. Types => ConvertRight
  <2> SUFFICES ASSUME Types, NEW t \in Threads, NEW v \in PrintedInts
               PROVE  formatInteger(line[t].len, v) < SIZE
    BY ConvertedHolds DEF ConvertRight
  <2>1. line[t].len \in Lens
    BY DEF Types, Line
  <2>2. formatInteger(line[t].len, v) \in 0..(SIZE - 1) /\ SIZE \in Nat
    BY <2>1, LensFit, AppendFits, LogStreamAssumption
  <2> QED BY <2>2
<1> QED BY <1>1, <1>2, <1>3, PTL DEF Spec
=============================================================================
