--------------------------- MODULE TcpServerProofs ---------------------------
(***************************************************************************)
(* The spare descriptor, the one connectDestroyed of each connection, and  *)
(* the end of the server, for any number of clients, threads and           *)
(* descriptors.                                                            *)
(***************************************************************************)
EXTENDS TcpServer, SequenceTheorems, FiniteSetTheorems, TLAPS

BasePcs == {"poll", "accept", "errno", "reaccept", "reopen", "swap", "functors", "left", "dtor",
            "gone", "aborted", "undefined"}
IoPcs   == {"none", "poll", "functors", "done"}
States  == {"none", "kConnecting", "kConnected", "kDisconnected"}

(* The types of the loops; a loop has a batch only while it runs functors. *)
LoopType ==
  /\ queue \in [Loops -> Seq(Functor)] /\ batch \in [Loops -> Seq(Functor)]
  /\ done \in [Loops -> Nat] /\ \A l \in Loops : done[l] <= Len(batch[l])
  /\ quit_ \in [IoLoops -> BOOLEAN]
  /\ pc \in [Loops -> BasePcs \cup IoPcs]
  /\ pc[Base] \in BasePcs /\ \A l \in IoLoops : pc[l] \in IoPcs
  /\ \A l \in Loops : pc[l] \notin {"functors", "undefined"} => batch[l] = << >> /\ done[l] = 0

(* The types of the rest.                                                  *)
DataType ==
  /\ started_ \in {0, 1} /\ connections_ \subseteq Clients /\ next_ \in 0..(NumThreads - 1)
  /\ listening_ \in BOOLEAN /\ idleFd_ \in BOOLEAN /\ stolen \in BOOLEAN
  /\ alive \in BOOLEAN /\ inLoop \in BOOLEAN
  /\ backlog \in Seq(Clients) /\ wanting \subseteq Clients
  /\ others \in 0..MaxOthers /\ errno \in {"EMFILE", "other"}
  /\ state_ \in [Clients -> States] /\ ioLoop \in [Clients -> 0..NumThreads]
  /\ destroyed \in [Clients -> Nat]

(* Nothing has happened yet: there is no connection, and no functor.       *)
Idle ==
  /\ \A k \in Loops : queue[k] = << >> /\ batch[k] = << >>
  /\ connections_ = {} /\ ~listening_ /\ backlog = << >>
  /\ \A c \in Clients : state_[c] = "none"

(* The life of a thread: it waits until start(), and is told to quit by    *)
(* the destructor, when no connection is left.                             *)
ThreadAt(l) ==
  /\ pc[l] = "done" => quit_[l] /\ queue[l] = << >>
  /\ quit_[l] => ~alive \/ (pc[Base] = "dtor" /\ connections_ = {})
  /\ ~alive => pc[l] \in {"none", "done"}
  /\ started_ = 0 => pc[l] = "none"
  /\ pc[l] = "none" => Idle

(* The life of the server, and of the base loop after it.                  *)
ServerInv ==
  /\ ~alive => /\ ~listening_ /\ ~idleFd_ /\ connections_ = {}
               /\ pc[Base] \notin {"accept", "errno", "reaccept", "reopen", "dtor"}
  /\ pc[Base] = "gone" => ~alive /\ queue[Base] = << >>

ThreadInv == ServerInv /\ \A l \in IoLoops : ThreadAt(l)

(* The functors of loop l that are still to run, in order.                 *)
Rest(l) == SubSeq(batch[l], done[l] + 1, Len(batch[l])) \o queue[l]

Establishes(c) == [fn |-> "connectEstablished", conn |-> c]
Destroys(c)    == [fn |-> "connectDestroyed", conn |-> c]
Removes(c)     == [fn |-> "remove", conn |-> c]

(* The server exists and is not being destroyed.                           *)
Serving == alive /\ pc[Base] # "dtor"

(* In s, f comes before g.                                                 *)
InOrder(s, f, g) == \A i, j \in 1..Len(s) : s[i] = f /\ s[j] = g => i < j

(* The functors of c that wait in l are in their loop, and in time.        *)
WaitsRight(l, c) ==
  /\ Contains(Rest(l), Establishes(c)) => l = ioLoop[c] /\ state_[c] = "kConnecting"
  /\ Contains(Rest(l), Destroys(c)) => /\ l = ioLoop[c] /\ destroyed[c] = 0
                                       /\ c \notin connections_ /\ state_[c] # "none"
  /\ Contains(Rest(l), Removes(c)) => /\ l = Base /\ state_[c] = "kDisconnected"
                                      /\ Serving => c \in connections_

(* No functor waits twice, and connectDestroyed comes last.                *)
QueueAt(l) ==
  /\ IsInjective(Rest(l))
  /\ \A c \in Clients : WaitsRight(l, c) /\ InOrder(Rest(l), Establishes(c), Destroys(c))

QueueInv == \A l \in Loops : QueueAt(l)

(* A connection is in connections_, or connectDestroyed is to come or has  *)
(* run, or its loop is gone.                                               *)
LifeAt(c) ==
  /\ c \in connections_ => destroyed[c] = 0 /\ state_[c] # "none"
  /\ state_[c] \in {"kConnecting", "kConnected"} /\ Serving => c \in connections_
  /\ state_[c] # "none" =>
       /\ ioLoop[c] \in IoLoops
       /\ \/ c \in connections_ \/ Contains(Rest(ioLoop[c]), Destroys(c))
          \/ destroyed[c] = 1 \/ pc[ioLoop[c]] = "done"
  /\ destroyed[c] \in {0, 1} /\ (destroyed[c] = 1 => state_[c] = "kDisconnected")

LifeInv == \A c \in Clients : LifeAt(c)

(* A client comes once.                                                    *)
ClientInv ==
  /\ IsInjective(backlog)
  /\ \A c \in Clients : c \in wanting \/ Contains(backlog, c) => state_[c] = "none"
  /\ \A c \in Clients : c \in wanting => ~Contains(backlog, c)

(* The descriptors suffice, and the spare one is missing only between its  *)
(* close and its reopening, or if other code took its place.               *)
FdInv ==
  /\ Used <= MaxFds
  /\ alive => IF pc[Base] \in {"reaccept", "reopen"} THEN ~idleFd_ /\ (FdsFree \/ stolen)
                                                     ELSE idleFd_ \/ stolen

-----------------------------------------------------------------------------
(* The types.                                                              *)

LEMMA LoopFacts == /\ Base \in Loops /\ IoLoops \subseteq Loops /\ Base \notin IoLoops
                   /\ \A l \in Loops : l = Base \/ l \in IoLoops
BY TcpServerAssumption DEF TcpServerAssumption, Loops, IoLoops

LEMMA FunctorFacts ==
  /\ \A c \in Clients : /\ Establishes(c) \in Functor /\ Destroys(c) \in Functor
                        /\ Removes(c) \in Functor
  /\ [fn |-> "listen"] \in Functor
  /\ \A f \in Functor :
       /\ f.fn # "listen" => f.conn \in Clients
       /\ f.fn = "connectEstablished" => f = Establishes(f.conn)
       /\ f.fn = "connectDestroyed" => f = Destroys(f.conn)
       /\ f.fn = "remove" => f = Removes(f.conn)
BY DEF Functor, Establishes, Destroys, Removes

(* The functor that a loop runs.                                           *)
LEMMA RunFunctor ==
  ASSUME LoopType, NEW l \in Loops, NEW fn, Run(l, fn)
  PROVE  /\ batch[l][done[l] + 1] \in Functor /\ done[l] + 1 \in 1..Len(batch[l])
         /\ batch[l][done[l] + 1].fn = fn
         /\ fn # "listen" => Arg(l) \in Clients
<1>1. done[l] \in Nat /\ batch[l] \in Seq(Functor) /\ Len(batch[l]) \in Nat
      /\ done[l] < Len(batch[l])
  BY DEF LoopType, Run
<1>2. done[l] + 1 \in 1..Len(batch[l])
  BY <1>1
<1>3. batch[l][done[l] + 1] \in Functor
  BY <1>1, <1>2
<1> QED BY <1>2, <1>3, FunctorFacts DEF Run, Arg

LEMMA QueueType ==
  ASSUME LoopType, NEW l \in Loops, NEW f \in Functor, queueInLoop(l, f)
  PROVE  /\ queue' \in [Loops -> Seq(Functor)] /\ queue'[l] = Append(queue[l], f)
         /\ \A k \in Loops : k # l => queue'[k] = queue[k]
<1>1. queue \in [Loops -> Seq(Functor)] /\ queue[l] \in Seq(Functor)
  BY DEF LoopType
<1>2. Append(queue[l], f) \in Seq(Functor)
  BY <1>1
<1> QED BY <1>1, <1>2 DEF queueInLoop

LEMMA GotoType ==
  ASSUME LoopType, NEW l \in Loops, NEW from, NEW to \in BasePcs \cup IoPcs,
         goto(l, from, to)
  PROVE  /\ pc' \in [Loops -> BasePcs \cup IoPcs] /\ pc'[l] = to /\ pc[l] \in from
         /\ \A k \in Loops : k # l => pc'[k] = pc[k]
BY DEF LoopType, goto

LEMMA BaseGoto ==
  ASSUME LoopType, NEW from, NEW to \in BasePcs, goto(Base, from, to),
         "functors" \notin from, "undefined" \notin from,
         UNCHANGED <<queue, batch, done, quit_>>
  PROVE  LoopType'
<1>1. /\ pc' \in [Loops -> BasePcs \cup IoPcs] /\ pc'[Base] = to /\ pc[Base] \in from
      /\ \A k \in Loops : k # Base => pc'[k] = pc[k]
  BY GotoType, LoopFacts
<1> QED BY <1>1, LoopFacts DEF LoopType

LEMMA LoopKept ==
  ASSUME LoopType, UNCHANGED loops PROVE LoopType'
BY DEF LoopType, loops

(* A functor is queued.                                                    *)
LEMMA LoopQueued ==
  ASSUME LoopType, NEW l \in Loops, NEW f \in Functor, queueInLoop(l, f),
         UNCHANGED <<batch, done, pc, quit_>>
  PROVE  LoopType'
BY QueueType DEF LoopType

(* A functor is run, and perhaps another one queued.                       *)
LEMMA LoopRun ==
  ASSUME LoopType, NEW l \in Loops, NEW fn, Run(l, fn), UNCHANGED pc,
         queue' \in [Loops -> Seq(Functor)]
  PROVE  LoopType'
<1>1. done \in [Loops -> Nat] /\ done[l] \in Nat /\ done[l] + 1 \in 1..Len(batch[l])
  BY RunFunctor DEF LoopType
<1>2. /\ done' \in [Loops -> Nat] /\ done'[l] = done[l] + 1
      /\ \A k \in Loops : k # l => done'[k] = done[k]
  BY <1>1 DEF Run
<1>3. pc[l] = "functors" /\ batch' = batch /\ quit_' = quit_
  BY DEF Run
<1>4. ASSUME NEW k \in Loops PROVE done'[k] <= Len(batch[k])
  <2>1. CASE k = l
    BY <1>1, <1>2, <2>1
  <2>2. CASE k # l
    BY <1>2, <2>2 DEF LoopType
  <2> QED BY <2>1, <2>2
<1> QED BY <1>2, <1>3, <1>4 DEF LoopType

LEMMA LoopSwap ==
  ASSUME LoopType, NEW l \in Loops, doPendingFunctors(l) PROVE LoopType'
<1>1. goto(l, {"poll", "swap"}, "functors")
  BY DEF doPendingFunctors, goto
<1>2. /\ pc' \in [Loops -> BasePcs \cup IoPcs] /\ pc'[l] = "functors"
      /\ pc[l] \in {"poll", "swap"} /\ \A k \in Loops : k # l => pc'[k] = pc[k]
  BY <1>1, GotoType DEF BasePcs
<1>3. /\ done[l] = 0 /\ batch[l] = << >> /\ queue[l] \in Seq(Functor)
      /\ Len(queue[l]) \in Nat /\ << >> \in Seq(Functor)
  <2>1. pc[l] \notin {"functors", "undefined"}
    BY <1>2
  <2>2. queue[l] \in Seq(Functor) /\ << >> \in Seq(Functor)
    BY DEF LoopType
  <2> QED BY <2>1, <2>2 DEF LoopType
<1>4. /\ batch' = [batch EXCEPT ![l] = queue[l]] /\ queue' = [queue EXCEPT ![l] = << >>]
      /\ done' = done /\ quit_' = quit_
  BY DEF doPendingFunctors
<1>5. /\ queue' \in [Loops -> Seq(Functor)] /\ batch' \in [Loops -> Seq(Functor)]
      /\ batch'[l] = queue[l] /\ \A k \in Loops : k # l => batch'[k] = batch[k]
  BY <1>3, <1>4 DEF LoopType
<1>6. \A k \in Loops : done'[k] <= Len(batch'[k])
  BY <1>3, <1>4, <1>5 DEF LoopType
<1>7. pc'[Base] \in BasePcs /\ \A k \in IoLoops : pc'[k] \in IoPcs
  BY <1>2, LoopFacts DEF LoopType, BasePcs, IoPcs
<1> QED BY <1>2, <1>4, <1>5, <1>6, <1>7 DEF LoopType

LEMMA LoopDone ==
  ASSUME LoopType, NEW l \in Loops, functorsDone(l) PROVE LoopType'
<1> DEFINE to == IF l # Base /\ quit_[l] THEN "done" ELSE "poll"
<1>1. goto(l, {"functors"}, to)
  BY DEF functorsDone
<1>2. to \in {"done", "poll"} /\ (l = Base => to = "poll")
  OBVIOUS
<1> HIDE DEF to
<1>3. /\ pc' \in [Loops -> BasePcs \cup IoPcs] /\ pc'[l] = to
      /\ \A k \in Loops : k # l => pc'[k] = pc[k]
  BY <1>1, <1>2, GotoType DEF BasePcs, IoPcs
<1>4. /\ batch' = [batch EXCEPT ![l] = << >>] /\ done' = [done EXCEPT ![l] = 0]
      /\ queue' = queue \/ queue' = [queue EXCEPT ![l] = << >>]
      /\ quit_' = quit_
  BY DEF functorsDone
<1>5. /\ queue' \in [Loops -> Seq(Functor)] /\ batch' \in [Loops -> Seq(Functor)]
      /\ done' \in [Loops -> Nat]
  <2>1. << >> \in Seq(Functor) /\ 0 \in Nat
    OBVIOUS
  <2>2. /\ queue \in [Loops -> Seq(Functor)] /\ batch \in [Loops -> Seq(Functor)]
        /\ done \in [Loops -> Nat]
    BY DEF LoopType
  <2> QED BY <1>4, <2>1, <2>2
<1>6. /\ batch'[l] = << >> /\ done'[l] = 0 /\ Len(batch'[l]) = 0
      /\ \A k \in Loops : k # l => batch'[k] = batch[k] /\ done'[k] = done[k]
  BY <1>4 DEF LoopType
<1>7. pc'[Base] \in BasePcs /\ \A k \in IoLoops : pc'[k] \in IoPcs
  BY <1>2, <1>3, LoopFacts DEF LoopType, BasePcs, IoPcs
<1>8. \A k \in Loops : done'[k] <= Len(batch'[k])
  BY <1>6 DEF LoopType
<1>9. \A k \in Loops : pc'[k] \notin {"functors", "undefined"} => batch'[k] = << >> /\ done'[k] = 0
  BY <1>3, <1>6 DEF LoopType
<1>10. quit_' \in [IoLoops -> BOOLEAN]
  BY <1>4 DEF LoopType
<1> QED BY <1>3, <1>5, <1>7, <1>8, <1>9, <1>10 DEF LoopType

-----------------------------------------------------------------------------
(* The functors to run, as a sequence: a functor that is queued comes to   *)
(* its end, one that is run is its head.                                   *)

LEMMA SeqAppend ==
  ASSUME NEW S, NEW s \in Seq(S), NEW f \in S
  PROVE  /\ \A g : Contains(Append(s, f), g) <=> Contains(s, g) \/ g = f
         /\ IsInjective(s) /\ ~Contains(s, f) => IsInjective(Append(s, f))
         /\ \A g, h : InOrder(s, g, h) /\ ~(g = f /\ Contains(s, h)) /\ g # h
                        => InOrder(Append(s, f), g, h)
<1> DEFINE t == Append(s, f)
           n == Len(s)
<1>1. /\ n \in Nat /\ Len(t) = n + 1 /\ t[n + 1] = f /\ \A i \in 1..n : t[i] = s[i]
      /\ DOMAIN t = 1..(n + 1) /\ DOMAIN s = 1..n
  BY AppendProperties, LenProperties
<1>2. \A i \in 1..(n + 1) : i = n + 1 \/ i \in 1..n
  BY <1>1
<1>3. \A i \in 1..n : i \in 1..(n + 1) /\ i < n + 1
  BY <1>1
<1>4. n + 1 \in 1..(n + 1)
  BY <1>1
<1> HIDE DEF t, n
<1>5. ASSUME NEW g PROVE Contains(t, g) <=> Contains(s, g) \/ g = f
  <2>1. Contains(s, g) <=> \E i \in 1..n : s[i] = g
    BY DEF Contains, n
  <2>2. Contains(t, g) <=> \E i \in 1..(n + 1) : t[i] = g
    BY <1>1 DEF Contains
  <2> QED BY <1>1, <1>2, <1>3, <1>4, <2>1, <2>2
<1>6. IsInjective(s) /\ ~Contains(s, f) => IsInjective(t)
  <2> SUFFICES ASSUME IsInjective(s), ~Contains(s, f),
                      NEW i \in 1..(n + 1), NEW j \in 1..(n + 1), t[i] = t[j]
               PROVE  i = j
    BY <1>1 DEF IsInjective
  <2>1. \A k \in 1..n : s[k] # f
    BY DEF Contains, n
  <2>2. CASE i \in 1..n /\ j \in 1..n
    BY <1>1, <2>2 DEF IsInjective
  <2> QED BY <1>1, <1>2, <2>1, <2>2
<1>7. ASSUME NEW g, NEW h, InOrder(s, g, h), ~(g = f /\ Contains(s, h)), g # h
      PROVE  InOrder(t, g, h)
  <2> SUFFICES ASSUME NEW i \in 1..(n + 1), NEW j \in 1..(n + 1), t[i] = g, t[j] = h
               PROVE  i < j
    BY <1>1 DEF InOrder
  <2>1. CASE j \in 1..n /\ i \in 1..n
    BY <1>1, <1>7, <2>1 DEF InOrder, n
  <2>2. CASE j = n + 1 /\ i \in 1..n
    BY <1>3, <2>2
  <2>3. CASE i = n + 1 /\ j \in 1..n
    BY <1>1, <1>7, <2>3 DEF Contains, n
  <2>4. CASE i = n + 1 /\ j = n + 1
    BY <1>7, <2>4
  <2> QED BY <1>2, <2>1, <2>2, <2>3, <2>4
<1> QED BY <1>5, <1>6, <1>7 DEF t

LEMMA SeqTail ==
  ASSUME NEW S, NEW s \in Seq(S), s # << >>
  PROVE  /\ Tail(s) \in Seq(S)
         /\ \A g : Contains(Tail(s), g) => Contains(s, g)
         /\ \A g : Contains(s, g) => g = Head(s) \/ Contains(Tail(s), g)
         /\ IsInjective(s) => IsInjective(Tail(s)) /\ ~Contains(Tail(s), Head(s))
         /\ \A g, h : InOrder(s, g, h) => InOrder(Tail(s), g, h)
         /\ \A g, h : InOrder(s, g, h) /\ Contains(s, g) => h # Head(s)
<1> DEFINE t == Tail(s)
           n == Len(s)
<1>1. /\ n \in Nat \ {0} /\ t \in Seq(S) /\ Len(t) = n - 1 /\ Head(s) = s[1]
      /\ \A i \in 1..(n - 1) : t[i] = s[i + 1]
      /\ DOMAIN t = 1..(n - 1) /\ DOMAIN s = 1..n
  BY HeadTailProperties, LenProperties, EmptySeq
<1>2. \A i \in 1..(n - 1) : i + 1 \in 1..n /\ i + 1 # 1
  BY <1>1
<1>3. \A i \in 1..n : i = 1 \/ (i - 1 \in 1..(n - 1) /\ (i - 1) + 1 = i)
  BY <1>1
<1>4. 1 \in 1..n
  BY <1>1
<1> DEFINE h0 == Head(s)
<1> HIDE DEF t, n, h0
<1>5. ASSUME NEW g
      PROVE  /\ Contains(s, g) <=> \E i \in 1..n : s[i] = g
             /\ Contains(t, g) <=> \E i \in 1..(n - 1) : t[i] = g
  BY <1>1 DEF Contains, n
<1>6. ASSUME NEW g PROVE Contains(t, g) => Contains(s, g)
  BY <1>1, <1>2, <1>5
<1>7. ASSUME NEW g PROVE Contains(s, g) => g = Head(s) \/ Contains(t, g)
  BY <1>1, <1>3, <1>5
<1>8. ASSUME IsInjective(s) PROVE IsInjective(t) /\ ~Contains(t, Head(s))
  <2>1. \A i, j \in 1..n : s[i] = s[j] => i = j
    BY <1>1, <1>8 DEF IsInjective
  <2>2. ASSUME NEW i \in 1..(n - 1), NEW j \in 1..(n - 1), t[i] = t[j] PROVE i = j
    <3>1. s[i + 1] = s[j + 1]
      BY <1>1, <2>2
    <3>2. i + 1 = j + 1
      BY <1>2, <2>1, <3>1
    <3> QED BY <1>1, <3>2
  <2>3. ~Contains(t, Head(s))
    BY <1>1, <1>2, <1>4, <1>5, <2>1
  <2> QED BY <1>1, <2>2, <2>3 DEF IsInjective
<1>9. ASSUME NEW g, NEW h, InOrder(s, g, h) PROVE InOrder(t, g, h)
  <2> SUFFICES ASSUME NEW i \in 1..(n - 1), NEW j \in 1..(n - 1), t[i] = g, t[j] = h
               PROVE  i < j
    BY <1>1 DEF InOrder
  <2>1. s[i + 1] = g /\ s[j + 1] = h
    BY <1>1
  <2>2. i + 1 < j + 1
    BY <1>2, <1>9, <2>1 DEF InOrder, n
  <2> QED BY <1>1, <2>2
<1>10. ASSUME NEW g, NEW h, InOrder(s, g, h), Contains(s, g) PROVE h # Head(s)
  <2>1. PICK i \in 1..n : s[i] = g
    BY <1>5, <1>10
  <2>2. ~(i < 1)
    BY <1>1
  <2> QED BY <1>1, <1>4, <1>10, <2>1, <2>2 DEF InOrder, n
<1> QED BY <1>1, <1>6, <1>7, <1>8, <1>9, <1>10 DEF t

LEMMA SeqRemoveAt ==
  ASSUME NEW S, NEW s \in Seq(S), NEW i \in 1..Len(s)
  PROVE  /\ RemoveAt(s, i) \in Seq(S)
         /\ \A g : Contains(RemoveAt(s, i), g) => Contains(s, g)
         /\ IsInjective(s) => IsInjective(RemoveAt(s, i))
<1> DEFINE n == Len(s)
           a == SubSeq(s, 1, i - 1)
           b == SubSeq(s, i + 1, n)
           t == a \o b
           at(k) == IF k <= i - 1 THEN k ELSE k + 1
<1>1. n \in Nat /\ i \in 1..n /\ DOMAIN s = 1..n
  BY LenProperties
<1>2. /\ i - 1 \in Int /\ i + 1 \in Int /\ n \in Int
      /\ \A k \in 1..(i - 1) : s[k] \in S
      /\ \A k \in (i + 1)..n : s[k] \in S
  BY <1>1
<1>3. /\ a \in Seq(S) /\ Len(a) = i - 1 /\ \A k \in 1..(i - 1) : a[k] = s[k]
  <2>1. /\ a \in Seq(S) /\ Len(a) = IF 1 <= i - 1 THEN i - 1 - 1 + 1 ELSE 0
        /\ \A k \in 1..(i - 1 - 1 + 1) : a[k] = s[1 + k - 1]
    BY <1>2, SubSeqProperties
  <2> HIDE DEF a
  <2>2. Len(a) = i - 1
    BY <1>1, <2>1
  <2>3. ASSUME NEW k \in 1..(i - 1) PROVE a[k] = s[k]
    <3>1. k \in 1..(i - 1 - 1 + 1) /\ 1 + k - 1 = k
      BY <1>1
    <3> QED BY <2>1, <3>1
  <2> QED BY <2>1, <2>2, <2>3
<1>4. /\ b \in Seq(S) /\ Len(b) = n - i /\ \A k \in 1..(n - i) : b[k] = s[i + k]
  <2>1. /\ b \in Seq(S) /\ Len(b) = IF i + 1 <= n THEN n - (i + 1) + 1 ELSE 0
        /\ \A k \in 1..(n - (i + 1) + 1) : b[k] = s[i + 1 + k - 1]
    BY <1>2, SubSeqProperties
  <2> HIDE DEF b
  <2>2. Len(b) = n - i
    <3>1. CASE i + 1 <= n
      BY <1>1, <2>1, <3>1
    <3>2. CASE ~(i + 1 <= n)
      <4>1. Len(b) = 0
        BY <2>1, <3>2
      <4>2. n - i = 0
        <5> HIDE DEF n
        <5> QED BY <1>1, <3>2
      <4> QED BY <4>1, <4>2
    <3> QED BY <3>1, <3>2
  <2>3. ASSUME NEW k \in 1..(n - i) PROVE b[k] = s[i + k]
    <3>1. k \in 1..(n - (i + 1) + 1) /\ i + 1 + k - 1 = i + k
      BY <1>1
    <3> QED BY <2>1, <3>1
  <2> QED BY <2>1, <2>2, <2>3
<1> HIDE DEF a, b
<1>5. /\ t \in Seq(S) /\ Len(t) = n - 1
      /\ \A k \in 1..(n - 1) : t[k] = IF k <= i - 1 THEN a[k] ELSE b[k - (i - 1)]
  <2>1. /\ t \in Seq(S) /\ Len(t) = Len(a) + Len(b)
        /\ \A k \in 1..(Len(a) + Len(b)) : t[k] = IF k <= Len(a) THEN a[k] ELSE b[k - Len(a)]
    BY <1>3, <1>4, ConcatProperties
  <2>2. Len(a) + Len(b) = n - 1
    BY <1>1, <1>3, <1>4
  <2> QED BY <1>3, <2>1, <2>2
<1>6. ASSUME NEW k \in 1..(n - 1) PROVE at(k) \in 1..n /\ t[k] = s[at(k)]
  <2>1. CASE k <= i - 1
    <3>1. k \in 1..(i - 1) /\ k \in 1..n
      BY <1>1, <2>1
    <3> QED BY <1>3, <1>5, <2>1, <3>1
  <2>2. CASE ~(k <= i - 1)
    <3>1. k - (i - 1) \in 1..(n - i) /\ i + (k - (i - 1)) = k + 1 /\ k + 1 \in 1..n
      BY <1>1, <2>2
    <3> QED BY <1>4, <1>5, <2>2, <3>1
  <2> QED BY <2>1, <2>2
<1>7. \A j, k \in 1..(n - 1) : at(j) = at(k) => j = k
  BY <1>1
<1>8. DOMAIN t = 1..(n - 1)
  BY <1>5, LenProperties
<1> HIDE DEF t, at, n
<1>9. ASSUME NEW g, Contains(t, g) PROVE Contains(s, g)
  <2>1. PICK k \in 1..(n - 1) : t[k] = g
    BY <1>5, <1>9 DEF Contains
  <2> QED BY <1>6, <2>1 DEF Contains, n
<1>10. ASSUME IsInjective(s) PROVE IsInjective(t)
  <2>1. \A j, k \in 1..n : s[j] = s[k] => j = k
    BY <1>1, <1>10 DEF IsInjective
  <2> QED BY <1>6, <1>7, <1>8, <2>1 DEF IsInjective
<1>11. RemoveAt(s, i) = t
  BY DEF RemoveAt, t, a, b, n
<1> QED BY <1>5, <1>9, <1>10, <1>11

LEMMA RestType ==
  ASSUME LoopType, NEW l \in Loops
  PROVE  /\ Rest(l) \in Seq(Functor) /\ batch[l] \in Seq(Functor) /\ queue[l] \in Seq(Functor)
         /\ SubSeq(batch[l], done[l] + 1, Len(batch[l])) \in Seq(Functor)
         /\ done[l] \in Nat /\ Len(batch[l]) \in Nat
<1>1. /\ batch[l] \in Seq(Functor) /\ queue[l] \in Seq(Functor) /\ done[l] \in Nat
      /\ Len(batch[l]) \in Nat
  BY DEF LoopType
<1>2. /\ done[l] + 1 \in Int /\ Len(batch[l]) \in Int
      /\ \A i \in (done[l] + 1)..Len(batch[l]) : batch[l][i] \in Functor
  BY <1>1
<1>3. SubSeq(batch[l], done[l] + 1, Len(batch[l])) \in Seq(Functor)
  BY <1>2, SubSeqProperties
<1> QED BY <1>1, <1>3, ConcatProperties DEF Rest

LEMMA RestKept ==
  ASSUME NEW l, UNCHANGED <<batch[l], done[l], queue[l]>> PROVE Rest(l)' = Rest(l)
BY DEF Rest

LEMMA RestQueued ==
  ASSUME LoopType, NEW l \in Loops, NEW f \in Functor, UNCHANGED <<batch[l], done[l]>>,
         queue'[l] = Append(queue[l], f)
  PROVE  Rest(l)' = Append(Rest(l), f)
<1> DEFINE b == SubSeq(batch[l], done[l] + 1, Len(batch[l]))
           q == queue[l]
<1>1. b \in Seq(Functor) /\ q \in Seq(Functor) /\ <<f>> \in Seq(Functor)
  BY RestType
<1>2. Rest(l)' = b \o Append(q, f) /\ Rest(l) = b \o q
  BY DEF Rest
<1> HIDE DEF b, q
<1>3. Append(q, f) = q \o <<f>> /\ Append(b \o q, f) = (b \o q) \o <<f>>
  BY <1>1, AppendIsConcat, ConcatProperties
<1>4. (b \o q) \o <<f>> = b \o (q \o <<f>>)
  BY <1>1, ConcatAssociative
<1> QED BY <1>2, <1>3, <1>4

LEMMA RestRun ==
  ASSUME LoopType, NEW l \in Loops, NEW fn, Run(l, fn)
  PROVE  /\ Rest(l) # << >> /\ Head(Rest(l)) = batch[l][done[l] + 1]
         /\ UNCHANGED queue[l] => Rest(l)' = Tail(Rest(l))
<1> DEFINE m == done[l] + 1
           n == Len(batch[l])
           x == batch[l][m]
           b == SubSeq(batch[l], m + 1, n)
           q == queue[l]
<1>1. /\ m \in 1..n /\ n \in m..n /\ x \in Functor /\ batch[l] \in Seq(Functor)
      /\ q \in Seq(Functor) /\ n \in Nat /\ <<x>> \in Seq(Functor)
  BY RunFunctor, RestType
<1>2. SubSeq(batch[l], m, n) = <<x>> \o b
  BY <1>1, SubSeqRecursiveFirst
<1>3. b \in Seq(Functor)
  <2>1. m + 1 \in Int /\ n \in Int /\ \A i \in (m + 1)..n : batch[l][i] \in Functor
    BY <1>1
  <2> QED BY <2>1, SubSeqProperties
<1>4. done'[l] = m /\ batch' = batch
  BY DEF Run, LoopType
<1>5. UNCHANGED queue[l] => Rest(l)' = b \o q
  BY <1>4 DEF Rest
<1>6. Rest(l) = (<<x>> \o b) \o q
  BY <1>2 DEF Rest
<1> HIDE DEF m, n, x, b, q
<1>7. Rest(l) = <<x>> \o (b \o q)
  BY <1>1, <1>3, <1>6, ConcatAssociative
<1> DEFINE r == b \o q
<1>8. r \in Seq(Functor)
  BY <1>1, <1>3
<1> HIDE DEF r
<1>9. <<x>> \o r # << >> /\ Head(<<x>> \o r) = x /\ Tail(<<x>> \o r) = r
  <2> DEFINE v == <<x>> \o r
  <2>1. /\ v \in Seq(Functor) /\ Len(v) = 1 + Len(r) /\ Len(r) \in Nat
        /\ \A i \in 1..(1 + Len(r)) : v[i] = IF i <= 1 THEN <<x>>[i] ELSE r[i - 1]
    BY <1>1, <1>8, ConcatProperties
  <2> HIDE DEF v
  <2>2. v # << >> /\ Head(v) = v[1] /\ v[1] = x
    BY <2>1
  <2>3. /\ Tail(v) \in Seq(Functor) /\ Len(Tail(v)) = Len(r)
        /\ \A i \in 1..Len(r) : Tail(v)[i] = v[i + 1]
    BY <2>1, <2>2, HeadTailProperties
  <2>4. \A i \in 1..Len(r) : v[i + 1] = r[i]
    BY <2>1
  <2>5. Tail(v) = r
    BY <1>8, <2>3, <2>4, SeqEqual
  <2> QED BY <2>2, <2>5 DEF v
<1> QED BY <1>5, <1>7, <1>9 DEF r, x, m

LEMMA RestSwap ==
  ASSUME LoopType, NEW l \in Loops, doPendingFunctors(l)
  PROVE  \A k \in Loops : Rest(k)' = Rest(k)
<1>1. pc[l] \in {"poll", "swap"}
  BY DEF doPendingFunctors, goto
<1>2. done[l] = 0 /\ batch[l] = << >> /\ Len(batch[l]) = 0 /\ queue[l] \in Seq(Functor)
  <2>1. pc[l] \notin {"functors", "undefined"}
    BY <1>1
  <2>2. batch[l] = << >> /\ done[l] = 0
    BY <2>1 DEF LoopType
  <2> QED BY <2>2, RestType
<1>3. /\ batch' = [batch EXCEPT ![l] = queue[l]] /\ queue' = [queue EXCEPT ![l] = << >>]
      /\ done' = done
  BY DEF doPendingFunctors
<1>4. /\ batch'[l] = queue[l] /\ queue'[l] = << >> /\ done'[l] = 0
  BY <1>2, <1>3 DEF LoopType
<1>5. SubSeq(batch[l], done[l] + 1, Len(batch[l])) = << >>
  BY <1>2, SubSeqEmpty
<1>6. Rest(l) = queue[l]
  BY <1>2, <1>5, ConcatEmptySeq DEF Rest
<1>7. Rest(l)' = SubSeq(queue[l], 1, Len(queue[l])) \o << >>
  BY <1>4 DEF Rest
<1>8. Rest(l)' = queue[l]
  BY <1>2, <1>7, SubSeqFull, ConcatEmptySeq
<1>9. ASSUME NEW k \in Loops, k # l PROVE Rest(k)' = Rest(k)
  BY <1>3, <1>9, RestKept DEF LoopType
<1> QED BY <1>6, <1>8, <1>9

LEMMA RestDone ==
  ASSUME LoopType, NEW l \in Loops, functorsDone(l)
  PROVE  /\ \A k \in Loops : k # l => Rest(k)' = Rest(k)
         /\ Rest(l)' = << >> \/ Rest(l)' = Rest(l)
         /\ Rest(l)' # Rest(l) => pc'[l] = "done"
<1>1. done[l] = Len(batch[l]) /\ Len(batch[l]) \in Nat /\ queue[l] \in Seq(Functor)
  BY RestType DEF functorsDone
<1>2. /\ batch' = [batch EXCEPT ![l] = << >>] /\ done' = [done EXCEPT ![l] = 0]
      /\ \/ queue' = queue
         \/ queue' = [queue EXCEPT ![l] = << >>] /\ pc' = [pc EXCEPT ![l] = "done"]
  BY DEF functorsDone, goto
<1>3. batch'[l] = << >> /\ done'[l] = 0 /\ Len(batch'[l]) = 0
  BY <1>2 DEF LoopType
<1>4. SubSeq(batch[l], done[l] + 1, Len(batch[l])) = << >>
  BY <1>1, SubSeqEmpty
<1>5. SubSeq(batch[l], done[l] + 1, Len(batch[l]))' = << >>
  BY <1>3, SubSeqEmpty
<1>6. Rest(l) = queue[l]
  BY <1>1, <1>4, ConcatEmptySeq DEF Rest
<1>7. Rest(l)' = << >> \o queue'[l]
  BY <1>5 DEF Rest
<1>8. queue'[l] = queue[l] \/ (queue'[l] = << >> /\ pc'[l] = "done")
  BY <1>2 DEF LoopType
<1>9. << >> \o << >> = << >> /\ << >> \o queue[l] = queue[l]
  <2>1. << >> \in Seq(Functor)
    OBVIOUS
  <2> QED BY <1>1, <2>1, ConcatEmptySeq
<1>10. ASSUME NEW k \in Loops, k # l PROVE Rest(k)' = Rest(k)
  <2>1. UNCHANGED <<batch[k], done[k], queue[k]>>
    BY <1>2, <1>10 DEF LoopType
  <2> QED BY <2>1, RestKept
<1> QED BY <1>6, <1>7, <1>8, <1>9, <1>10

-----------------------------------------------------------------------------
(* The functors of l are as before, or all dropped, or the first has run.  *)
Shrunk(l) == \/ Rest(l)' = Rest(l) \/ Rest(l)' = << >>
             \/ Rest(l) # << >> /\ Rest(l)' = Tail(Rest(l))

LEMMA ShrunkFacts ==
  ASSUME LoopType, NEW l \in Loops, Shrunk(l), IsInjective(Rest(l))
  PROVE  /\ IsInjective(Rest(l)')
         /\ \A g : Contains(Rest(l)', g) => Contains(Rest(l), g)
         /\ \A g, h : InOrder(Rest(l), g, h) => InOrder(Rest(l)', g, h)
<1>1. CASE Rest(l)' = Rest(l)
  BY <1>1
<1>2. CASE Rest(l)' = << >>
  BY <1>2 DEF IsInjective, Contains, InOrder
<1>3. CASE Rest(l) # << >> /\ Rest(l)' = Tail(Rest(l))
  BY <1>3, RestType, SeqTail
<1> QED BY <1>1, <1>2, <1>3 DEF Shrunk

LEMMA QueueShrunk ==
  ASSUME LoopType, NEW l \in Loops, QueueAt(l), Shrunk(l), Serving' => Serving,
         UNCHANGED <<state_, ioLoop, destroyed, connections_>>
  PROVE  QueueAt(l)'
<1>1. IsInjective(Rest(l))
  BY DEF QueueAt
<1>2. /\ IsInjective(Rest(l)')
      /\ \A g : Contains(Rest(l)', g) => Contains(Rest(l), g)
      /\ \A g, h : InOrder(Rest(l), g, h) => InOrder(Rest(l)', g, h)
  BY <1>1, ShrunkFacts
<1> QED BY <1>2 DEF QueueAt, WaitsRight

(* What a loop runs is the first of its functors.                          *)
LEMMA RunHead ==
  ASSUME LoopType, NEW l \in Loops, NEW fn, Run(l, fn)
  PROVE  /\ Rest(l) # << >>
         /\ UNCHANGED queue[l] => Rest(l)' = Tail(Rest(l))
         /\ Contains(Rest(l), Head(Rest(l)))
         /\ fn = "connectEstablished" => Head(Rest(l)) = Establishes(Arg(l))
         /\ fn = "connectDestroyed" => Head(Rest(l)) = Destroys(Arg(l))
         /\ fn = "remove" => Head(Rest(l)) = Removes(Arg(l))
         /\ fn # "listen" => Arg(l) \in Clients
         /\ \A k \in Loops : k # l /\ UNCHANGED queue[k] => Rest(k)' = Rest(k)
<1>1. /\ Rest(l) # << >> /\ Head(Rest(l)) = batch[l][done[l] + 1]
      /\ UNCHANGED queue[l] => Rest(l)' = Tail(Rest(l))
  BY RestRun
<1>2. /\ batch[l][done[l] + 1] \in Functor /\ batch[l][done[l] + 1].fn = fn
      /\ fn # "listen" => Arg(l) \in Clients
  BY RunFunctor
<1>3. Contains(Rest(l), Head(Rest(l)))
  <2>1. Rest(l) \in Seq(Functor)
    BY RestType
  <2> QED BY <1>1, <2>1 DEF Contains
<1>4. ASSUME NEW k \in Loops, k # l, UNCHANGED queue[k] PROVE Rest(k)' = Rest(k)
  <2>1. UNCHANGED <<batch[k], done[k], queue[k]>>
    BY <1>4 DEF Run, LoopType
  <2> QED BY <2>1, RestKept
<1> QED BY <1>1, <1>2, <1>3, <1>4, FunctorFacts DEF Arg

(* A connection that is in connections_, or waits for its removal, has its *)
(* loop among those of the threads.                                        *)
LEMMA HasLoop ==
  ASSUME LoopType, QueueInv, LifeInv
  PROVE  /\ \A c \in connections_ \cap Clients : ioLoop[c] \in IoLoops
         /\ Run(Base, "remove") => ioLoop[Arg(Base)] \in IoLoops /\ Arg(Base) \in Clients
<1>1. \A c \in connections_ \cap Clients : ioLoop[c] \in IoLoops
  BY DEF LifeInv, LifeAt
<1>2. ASSUME Run(Base, "remove") PROVE ioLoop[Arg(Base)] \in IoLoops /\ Arg(Base) \in Clients
  <2>1. Arg(Base) \in Clients /\ Contains(Rest(Base), Removes(Arg(Base)))
    BY <1>2, LoopFacts, RunHead
  <2>2. state_[Arg(Base)] = "kDisconnected"
    BY <2>1, LoopFacts DEF QueueInv, QueueAt, WaitsRight
  <2> QED BY <2>1, <2>2 DEF LifeInv, LifeAt
<1> QED BY <1>1, <1>2

LEMMA NextLoop == ASSUME DataType PROVE next_ + 1 \in IoLoops
BY TcpServerAssumption DEF TcpServerAssumption, DataType, IoLoops

LEMMA LoopStep ==
  ASSUME LoopType, DataType, ThreadInv, QueueInv, LifeInv, [Next]_vars
  PROVE  LoopType'
<1> USE LoopFacts DEF loops
<1>1. CASE poll \/ acceptDies \/ testErrno \/ reaccept \/ handled \/ leaveLoop \/ destroy
  BY <1>1, BaseGoto DEF poll, acceptDies, testErrno, reaccept, handled, leaveLoop, destroy,
     BasePcs
<1>2. CASE accept
  <2>1. CASE UNCHANGED queue
    BY <1>2, <2>1, BaseGoto DEF accept, BasePcs
  <2>2. CASE ~UNCHANGED queue
    <3>1. backlog # << >> /\ newConnection(Head(backlog))
      BY <1>2, <2>2 DEF accept
    <3>2. Head(backlog) \in Clients
      BY <3>1, HeadTailProperties DEF DataType
    <3>3. queueInLoop(next_ + 1, Establishes(Head(backlog)))
      BY <3>1 DEF newConnection, Establishes
    <3>4. queue' \in [Loops -> Seq(Functor)]
      BY <3>2, <3>3, NextLoop, QueueType, FunctorFacts
    <3>5. goto(Base, {"accept"}, "errno") /\ UNCHANGED <<batch, done, quit_>>
      BY <1>2 DEF accept
    <3>6. /\ pc' \in [Loops -> BasePcs \cup IoPcs] /\ pc'[Base] = "errno"
          /\ pc[Base] = "accept" /\ \A k \in Loops : k # Base => pc'[k] = pc[k]
      BY <3>5, GotoType DEF BasePcs
    <3> QED BY <3>4, <3>5, <3>6 DEF LoopType, BasePcs
  <2> QED BY <2>1, <2>2
<1>3. ASSUME NEW l \in Loops, doPendingFunctors(l) \/ functorsDone(l) PROVE LoopType'
  BY <1>3, LoopSwap, LoopDone
<1>4. ASSUME NEW l \in Loops, connectEstablished(l) \/ connectDestroyed(l) PROVE LoopType'
  BY <1>4, LoopRun DEF connectEstablished, connectDestroyed, LoopType
<1>5. ASSUME NEW c \in Clients, handleClose(c) PROVE LoopType'
  BY <1>5, LoopQueued, FunctorFacts DEF handleClose, Removes
<1>6. CASE removeConnectionInLoop
  <2>1. /\ ioLoop[Arg(Base)] \in Loops /\ Arg(Base) \in Clients /\ Run(Base, "remove")
        /\ queueInLoop(ioLoop[Arg(Base)], Destroys(Arg(Base))) /\ UNCHANGED pc
    BY <1>6, HasLoop DEF removeConnectionInLoop, queueDestroyed, Destroys
  <2>2. queue' \in [Loops -> Seq(Functor)]
    BY <2>1, QueueType, FunctorFacts
  <2> QED BY <2>1, <2>2, LoopRun
<1>7. CASE listenInLoop
  BY <1>7, LoopRun DEF listenInLoop, LoopType
<1>8. CASE runsOnDeadServer
  <2>1. PICK fn \in {"remove", "listen"} : Run(Base, fn)
    BY <1>8 DEF runsOnDeadServer
  <2>2. done[Base] \in Nat /\ done[Base] + 1 \in 1..Len(batch[Base])
    BY <2>1, RunFunctor DEF LoopType
  <2>3. /\ done' \in [Loops -> Nat] /\ done'[Base] = done[Base] + 1
        /\ \A k \in Loops : k # Base => done'[k] = done[k]
    BY <2>1, <2>2 DEF LoopType, Run
  <2>4. ASSUME NEW k \in Loops PROVE done'[k] <= Len(batch[k])
    <3>1. CASE k = Base
      BY <2>2, <2>3, <3>1
    <3>2. CASE k # Base
      BY <2>3, <3>2 DEF LoopType
    <3> QED BY <3>1, <3>2
  <2>5. /\ pc' \in [Loops -> BasePcs \cup IoPcs] /\ pc'[Base] = "undefined"
        /\ pc[Base] = "functors" /\ \A k \in Loops : k # Base => pc'[k] = pc[k]
    BY <1>8, <2>1 DEF runsOnDeadServer, Run, LoopType, BasePcs
  <2>6. UNCHANGED <<queue, batch, quit_>>
    BY <1>8, <2>1 DEF runsOnDeadServer, Run
  <2> QED BY <2>3, <2>4, <2>5, <2>6 DEF LoopType, BasePcs
<1>9. ASSUME NEW c \in Clients, dtorConnection(c) PROVE LoopType'
  BY <1>9, HasLoop, LoopQueued, FunctorFacts DEF dtorConnection, queueDestroyed, Destroys
<1>10. ASSUME NEW l \in IoLoops, dtorQuit(l) PROVE LoopType'
  BY <1>10 DEF dtorQuit, LoopType
<1>11. CASE dtorAcceptor
  BY <1>11, BaseGoto DEF dtorAcceptor, BasePcs
<1>12. CASE dtorBaseLoop
  <2>1. /\ goto(Base, {"left"}, "gone") /\ queue' = [queue EXCEPT ![Base] = << >>]
        /\ UNCHANGED <<batch, done, quit_>>
    BY <1>12 DEF dtorBaseLoop
  <2>2. << >> \in Seq(Functor)
    OBVIOUS
  <2>3. queue' \in [Loops -> Seq(Functor)]
    BY <2>1, <2>2 DEF LoopType
  <2>4. /\ pc' \in [Loops -> BasePcs \cup IoPcs] /\ pc'[Base] = "gone"
        /\ pc[Base] = "left" /\ \A k \in Loops : k # Base => pc'[k] = pc[k]
    BY <2>1, GotoType DEF BasePcs
  <2> QED BY <2>1, <2>3, <2>4 DEF LoopType, BasePcs
<1>13. CASE start
  <2>1. CASE started_ # 0
    BY <1>13, <2>1, LoopKept DEF start
  <2>2. CASE started_ = 0
    <3>1. queue' = queue \/ queueInLoop(Base, [fn |-> "listen"])
      BY <1>13, <2>2 DEF start
    <3>2. queue' \in [Loops -> Seq(Functor)]
      BY <3>1, QueueType, FunctorFacts DEF LoopType
    <3>3. pc' = [l \in Loops |-> IF l = Base THEN pc[l] ELSE "poll"]
      BY <1>13, <2>2 DEF start, startPool
    <3>4. /\ pc' \in [Loops -> BasePcs \cup IoPcs] /\ pc'[Base] = pc[Base]
          /\ \A l \in IoLoops : pc'[l] = "poll"
      BY <3>3 DEF LoopType, IoPcs
    <3>5. \A l \in IoLoops : batch[l] = << >> /\ done[l] = 0
      BY <2>2 DEF LoopType, ThreadInv, ThreadAt
    <3>6. UNCHANGED <<batch, done, quit_>>
      BY <1>13 DEF start
    <3> QED BY <3>2, <3>4, <3>5, <3>6 DEF LoopType, IoPcs
  <2> QED BY <2>1, <2>2
<1>14. CASE pollInterrupted \/ otherOpen \/ otherClose \/ UNCHANGED vars
  BY <1>14, LoopKept DEF pollInterrupted, otherOpen, otherClose, vars
<1>15. ASSUME NEW c \in Clients, connect(c) \/ withdraw(c) PROVE LoopType'
  BY <1>15, LoopKept DEF connect, withdraw
<1> QED BY <1>1, <1>2, <1>3, <1>4, <1>5, <1>6, <1>7, <1>8, <1>9, <1>10, <1>11, <1>12, <1>13,
           <1>14, <1>15 DEF Next, BaseStep, IoStep

LEMMA FollowingType ==
  ASSUME NEW n \in 0..(NumThreads - 1) PROVE Following(n) \in 0..(NumThreads - 1)
BY TcpServerAssumption DEF TcpServerAssumption, Following

LEMMA DataStep ==
  ASSUME LoopType, DataType, ThreadInv, QueueInv, LifeInv, [Next]_vars
  PROVE  DataType'
<1> USE LoopFacts DEF acceptor, server, conns, fds
<1>1. CASE poll \/ pollInterrupted \/ acceptDies \/ leaveLoop \/ dtorBaseLoop \/ UNCHANGED vars
  BY <1>1 DEF poll, pollInterrupted, acceptDies, leaveLoop, dtorBaseLoop, vars, DataType
<1>2. CASE accept
  <2>1. CASE UNCHANGED <<backlog, connections_, next_, state_, ioLoop>>
    BY <1>2, <2>1 DEF accept, DataType
  <2>2. CASE backlog # << >> /\ newConnection(Head(backlog)) /\ backlog' = Tail(backlog)
    <3>1. Head(backlog) \in Clients /\ backlog' \in Seq(Clients)
      BY <2>2, HeadTailProperties DEF DataType
    <3>2. next_' \in 0..(NumThreads - 1)
      BY <2>2, FollowingType DEF newConnection, DataType
    <3>3. ioLoop' \in [Clients -> 0..NumThreads]
      <4>1. next_ + 1 \in 0..NumThreads /\ ioLoop \in [Clients -> 0..NumThreads]
        BY NextLoop DEF IoLoops, DataType
      <4>2. ioLoop' = [ioLoop EXCEPT ![Head(backlog)] = next_ + 1]
        BY <2>2 DEF newConnection
      <4> QED BY <4>1, <4>2
    <3>4. state_' \in [Clients -> States] /\ connections_' \subseteq Clients
      BY <2>2, <3>1 DEF newConnection, DataType, States
    <3> QED BY <1>2, <3>1, <3>2, <3>3, <3>4 DEF accept, DataType
  <2> QED BY <1>2, <2>1, <2>2 DEF accept
<1>3. CASE testErrno
  BY <1>3 DEF testErrno, DataType
<1>4. CASE reaccept
  <2>1. backlog' = backlog \/ (backlog # << >> /\ backlog' = Tail(backlog))
    BY <1>4 DEF reaccept
  <2>2. backlog' \in Seq(Clients)
    <3>1. backlog \in Seq(Clients)
      BY DEF DataType
    <3>2. backlog # << >> => Tail(backlog) \in Seq(Clients)
      BY <3>1, HeadTailProperties
    <3> QED BY <2>1, <3>1, <3>2
  <2> QED BY <1>4, <2>2 DEF reaccept, DataType
<1>5. CASE handled
  <2>1. FdsFree \in BOOLEAN
    BY DEF FdsFree
  <2> QED BY <1>5, <2>1 DEF handled, reopen, DataType
<1>6. ASSUME NEW l \in Loops, doPendingFunctors(l) \/ functorsDone(l) PROVE DataType'
  BY <1>6 DEF doPendingFunctors, functorsDone, DataType
<1>7. ASSUME NEW l \in Loops, connectEstablished(l) \/ connectDestroyed(l) PROVE DataType'
  <2>1. Arg(l) \in Clients /\ UNCHANGED <<others, stolen>>
    BY <1>7, RunFunctor DEF connectEstablished, connectDestroyed, Run
  <2>2. state_' \in [Clients -> States]
    BY <1>7, <2>1 DEF connectEstablished, connectDestroyed, DataType, States
  <2>3. destroyed' \in [Clients -> Nat]
    <3>1. destroyed \in [Clients -> Nat] /\ destroyed[Arg(l)] + 1 \in Nat
      BY <2>1 DEF DataType
    <3>2. \/ destroyed' = destroyed
          \/ destroyed' = [destroyed EXCEPT ![Arg(l)] = destroyed[Arg(l)] + 1]
      BY <1>7 DEF connectEstablished, connectDestroyed
    <3> QED BY <3>1, <3>2
  <2> QED BY <1>7, <2>1, <2>2, <2>3 DEF connectEstablished, connectDestroyed, DataType
<1>8. ASSUME NEW c \in Clients, handleClose(c) PROVE DataType'
  BY <1>8 DEF handleClose, DataType, States
<1>9. CASE removeConnectionInLoop
  BY <1>9 DEF removeConnectionInLoop, Run, DataType
<1>10. CASE listenInLoop
  BY <1>10 DEF listenInLoop, listen, Run, DataType
<1>11. CASE runsOnDeadServer
  BY <1>11 DEF runsOnDeadServer, Run, DataType
<1>12. ASSUME NEW c \in Clients, dtorConnection(c) PROVE DataType'
  BY <1>12 DEF dtorConnection, DataType
<1>13. ASSUME NEW l \in IoLoops, dtorQuit(l) PROVE DataType'
  BY <1>13 DEF dtorQuit, DataType
<1>14. CASE dtorAcceptor
  <2>1. << >> \in Seq(Clients)
    OBVIOUS
  <2> QED BY <1>14, <2>1 DEF dtorAcceptor, closeSocket, closeSpare, DataType
<1>15. CASE start
  BY <1>15 DEF start, exchange, listen, DataType
<1>16. CASE destroy
  BY <1>16 DEF destroy, DataType
<1>17. CASE otherOpen
  <2>1. others' \in 0..MaxOthers
    BY <1>17, TcpServerAssumption DEF otherOpen, DataType, TcpServerAssumption
  <2> QED BY <1>17, <2>1 DEF otherOpen, DataType
<1>18. CASE otherClose
  <2>1. others' \in 0..MaxOthers
    BY <1>18, TcpServerAssumption DEF otherClose, DataType, TcpServerAssumption
  <2> QED BY <1>18, <2>1 DEF otherClose, DataType
<1>19. ASSUME NEW c \in Clients, connect(c) PROVE DataType'
  <2>1. backlog' \in Seq(Clients)
    BY <1>19 DEF connect, DataType
  <2> QED BY <1>19, <2>1 DEF connect, DataType
<1>20. ASSUME NEW c \in Clients, withdraw(c) PROVE DataType'
  <2>1. backlog' \in Seq(Clients)
    BY <1>20, SeqRemoveAt DEF withdraw, DataType
  <2> QED BY <1>20, <2>1 DEF withdraw, DataType
<1> QED BY <1>1, <1>2, <1>3, <1>4, <1>5, <1>6, <1>7, <1>8, <1>9, <1>10, <1>11, <1>12, <1>13,
           <1>14, <1>15, <1>16, <1>17, <1>18, <1>19, <1>20 DEF Next, BaseStep, IoStep

-----------------------------------------------------------------------------
(* The threads.                                                            *)

(* While the server accepts or serves, its threads run and none has quit.  *)
LEMMA ThreadsUp ==
  ASSUME LoopType, ThreadInv
  PROVE  /\ Serving => \A l \in IoLoops : ~quit_[l] /\ pc[l] # "done"
         /\ connections_ # {} => \A l \in IoLoops : pc[l] # "none" /\ (alive => pc[l] # "done")
         /\ listening_ => \A l \in IoLoops : pc[l] # "none"
         /\ backlog # << >> => \A l \in IoLoops : pc[l] # "none"
         /\ \A c \in Clients : state_[c] # "none" => \A l \in IoLoops : pc[l] # "none"
         /\ \A k \in Loops : queue[k] # << >> \/ batch[k] # << >>
                               => \A l \in IoLoops : pc[l] # "none"
         /\ \A l \in IoLoops : pc[l] \in {"poll", "functors"} => alive
BY DEF LoopType, ThreadInv, ThreadAt, Idle, Serving, ServerInv

LEMMA RunBatch ==
  ASSUME LoopType, NEW l \in Loops, NEW fn, Run(l, fn) PROVE batch[l] # << >>
<1>1. batch[l] \in Seq(Functor) /\ done[l] + 1 \in 1..Len(batch[l])
  BY RunFunctor DEF LoopType
<1> QED BY <1>1

(* The base loop goes on, and the rest of the threads' state is kept.      *)
LEMMA ThreadBase ==
  ASSUME LoopType, ThreadInv, NEW from, NEW to \in BasePcs, goto(Base, from, to),
         "dtor" \notin from, to # "gone",
         alive \/ to \notin {"accept", "errno", "reaccept", "reopen", "dtor"},
         UNCHANGED <<queue, batch, quit_, started_, connections_, alive, listening_, state_>>,
         idleFd_' => idleFd_ \/ alive, backlog = << >> => backlog' = << >>
  PROVE  ThreadInv'
<1>1. /\ pc'[Base] = to /\ pc[Base] \in from
      /\ \A k \in IoLoops : pc'[k] = pc[k]
  BY GotoType, LoopFacts
<1>2. pc[Base] # "dtor"
  BY <1>1
<1>3. Idle => Idle'
  BY DEF Idle
<1>4. ServerInv'
  BY <1>1 DEF ServerInv, ThreadInv
<1>5. ASSUME NEW l \in IoLoops PROVE ThreadAt(l)'
  BY <1>1, <1>2, <1>3 DEF ThreadAt, ThreadInv
<1> QED BY <1>4, <1>5 DEF ThreadInv

LEMMA ThreadKept ==
  ASSUME LoopType, ThreadInv, UNCHANGED <<queue, batch, pc, quit_, started_, alive, idleFd_>>,
         connections_' \subseteq connections_,
         Idle => UNCHANGED <<listening_, backlog, state_>>,
         listening_' => listening_ \/ alive
  PROVE  ThreadInv'
<1>1. Idle => Idle'
  BY DEF Idle
<1>2. ServerInv'
  BY DEF ServerInv, ThreadInv
<1>3. ASSUME NEW l \in IoLoops PROVE ThreadAt(l)'
  BY <1>1 DEF ThreadAt, ThreadInv
<1> QED BY <1>2, <1>3 DEF ThreadInv

(* A functor is queued while no thread waits for start() or is done.       *)
LEMMA ThreadQueued ==
  ASSUME LoopType, ThreadInv, UNCHANGED <<pc, quit_, started_, alive, idleFd_, listening_>>,
         connections_' \subseteq connections_, alive, \A l \in IoLoops : pc[l] # "none",
         Serving \/ connections_ # {} \/ \A l \in IoLoops : queue'[l] = queue[l]
  PROVE  ThreadInv'
<1>1. ServerInv'
  BY DEF ServerInv, ThreadInv
<1>2. ASSUME NEW l \in IoLoops PROVE ThreadAt(l)'
  <2>1. pc[l] # "done" \/ queue'[l] = queue[l]
    BY ThreadsUp
  <2> QED BY <2>1 DEF ThreadAt, ThreadInv
<1> QED BY <1>1, <1>2 DEF ThreadInv

LEMMA ThreadStep ==
  ASSUME LoopType, DataType, ThreadInv, QueueInv, LifeInv, [Next]_vars
  PROVE  ThreadInv'
<1> USE LoopFacts DEF acceptor, server, conns, fds, loops
<1>1. CASE poll \/ acceptDies \/ leaveLoop \/ destroy
  <2>1. CASE poll
    <3>1. alive
      BY <2>1 DEF poll, Ready, ThreadInv, ServerInv
    <3> QED BY <2>1, <3>1, ThreadBase DEF poll, BasePcs
  <2>2. CASE acceptDies \/ leaveLoop
    BY <2>2, ThreadBase DEF acceptDies, leaveLoop, BasePcs
  <2>3. CASE destroy
    <3>1. goto(Base, {"poll", "left"}, "dtor") /\ alive
      BY <2>3 DEF destroy
    <3> QED BY <2>3, <3>1, ThreadBase DEF destroy, BasePcs
  <2> QED BY <1>1, <2>1, <2>2, <2>3
<1>2. CASE testErrno \/ reaccept \/ handled
  <2>1. alive
    BY <1>2 DEF testErrno, reaccept, handled, ThreadInv, ServerInv, goto
  <2> QED BY <1>2, <2>1, ThreadBase DEF testErrno, reaccept, handled, BasePcs
<1>3. CASE accept
  <2>1. alive /\ pc[Base] = "accept" /\ goto(Base, {"accept"}, "errno")
    BY <1>3 DEF accept, ThreadInv, ServerInv, goto
  <2>2. CASE UNCHANGED <<backlog, connections_, next_, state_, ioLoop, queue>>
    BY <1>3, <2>1, <2>2, ThreadBase DEF accept, BasePcs
  <2>3. CASE backlog # << >>
    <3>1. \A l \in IoLoops : ~quit_[l] /\ pc[l] \notin {"none", "done"}
      BY <2>1, <2>3, ThreadsUp DEF Serving
    <3>2. pc'[Base] = "errno" /\ \A l \in IoLoops : pc'[l] = pc[l]
      BY <2>1, GotoType DEF BasePcs
    <3>3. UNCHANGED <<started_, alive, quit_>>
      BY <1>3 DEF accept
    <3>4. \A l \in IoLoops : ThreadAt(l)'
      BY <3>1, <3>2, <3>3, <2>1 DEF ThreadAt, ThreadInv
    <3>5. ServerInv'
      BY <2>1, <3>2, <3>3 DEF ServerInv
    <3> QED BY <3>4, <3>5 DEF ThreadInv
  <2> QED BY <1>3, <2>2, <2>3 DEF accept
<1>4. ASSUME NEW k \in Loops, doPendingFunctors(k) PROVE ThreadInv'
  <2>1. goto(k, {"poll", "swap"}, "functors")
    BY <1>4 DEF doPendingFunctors, goto
  <2>2. /\ pc'[k] = "functors" /\ pc[k] \in {"poll", "swap"}
        /\ \A l \in Loops : l # k => pc'[l] = pc[l]
    BY <2>1, GotoType DEF BasePcs
  <2>3. /\ batch' = [batch EXCEPT ![k] = queue[k]] /\ queue' = [queue EXCEPT ![k] = << >>]
        /\ UNCHANGED <<acceptor, server, quit_, state_>>
    BY <1>4 DEF doPendingFunctors
  <2>4. \A l \in Loops : queue'[l] = queue[l] \/ queue'[l] = << >>
    BY <2>3 DEF LoopType
  <2>5. Idle => Idle'
    BY <2>3 DEF Idle, LoopType
  <2>6. k # Base => alive /\ started_ # 0
    BY <2>2 DEF ThreadInv, ThreadAt
  <2>7. ASSUME NEW l \in IoLoops PROVE ThreadAt(l)'
    <3>1. CASE l = k
      BY <2>2, <2>3, <2>6, <3>1 DEF ThreadAt, ThreadInv
    <3>2. CASE l # k
      BY <2>2, <2>3, <2>4, <2>5, <3>2 DEF ThreadAt, ThreadInv
    <3> QED BY <3>1, <3>2
  <2>8. ServerInv'
    BY <2>2, <2>3, <2>4 DEF ServerInv, ThreadInv
  <2> QED BY <2>7, <2>8 DEF ThreadInv
<1>5. ASSUME NEW k \in Loops, functorsDone(k) PROVE ThreadInv'
  <2> DEFINE leaves == k # Base /\ quit_[k]
             to == IF leaves THEN "done" ELSE "poll"
  <2>1. goto(k, {"functors"}, to)
    BY <1>5 DEF functorsDone
  <2>2. /\ pc'[k] = to /\ pc[k] = "functors"
        /\ \A l \in Loops : l # k => pc'[l] = pc[l]
    BY <2>1, GotoType DEF BasePcs, IoPcs
  <2>3. /\ batch' = [batch EXCEPT ![k] = << >>]
        /\ queue' = IF leaves THEN [queue EXCEPT ![k] = << >>] ELSE queue
        /\ UNCHANGED <<acceptor, server, quit_, state_>>
    BY <1>5 DEF functorsDone
  <2>4. \A l \in Loops : queue'[l] = queue[l] \/ queue'[l] = << >>
    BY <2>3 DEF LoopType
  <2>5. Idle => Idle'
    BY <2>3, <2>4 DEF Idle, LoopType
  <2>6. k # Base => alive /\ started_ # 0
    BY <2>2 DEF ThreadInv, ThreadAt
  <2>7. leaves => queue'[k] = << >>
    BY <2>3 DEF LoopType
  <2>8. to \in {"done", "poll"} /\ (to = "done" => leaves) /\ (leaves => quit_[k] /\ k # Base)
        /\ (k = Base => to = "poll")
    OBVIOUS
  <2> HIDE DEF leaves, to
  <2>9. ASSUME NEW l \in IoLoops PROVE ThreadAt(l)'
    <3>1. CASE l = k
      BY <2>2, <2>3, <2>6, <2>7, <2>8, <3>1 DEF ThreadAt, ThreadInv
    <3>2. CASE l # k
      BY <2>2, <2>3, <2>4, <2>5, <2>8, <3>2 DEF ThreadAt, ThreadInv
    <3> QED BY <3>1, <3>2
  <2>10. ServerInv'
    BY <2>2, <2>3, <2>4, <2>8 DEF ServerInv, ThreadInv
  <2> QED BY <2>9, <2>10 DEF ThreadInv
<1>6. ASSUME NEW l \in Loops, connectEstablished(l) \/ connectDestroyed(l) PROVE ThreadInv'
  <2>1. batch[l] # << >> /\ UNCHANGED <<batch, quit_>>
    BY <1>6, RunBatch DEF connectEstablished, connectDestroyed, Run
  <2>2. ~Idle
    BY <2>1 DEF Idle
  <2> QED BY <1>6, <2>1, <2>2, ThreadKept DEF connectEstablished, connectDestroyed
<1>7. ASSUME NEW c \in Clients, handleClose(c) PROVE ThreadInv'
  <2>1. ioLoop[c] \in IoLoops /\ pc[ioLoop[c]] = "poll" /\ state_[c] # "none"
    BY <1>7 DEF handleClose, LifeInv, LifeAt
  <2>2. alive /\ \A l \in IoLoops : pc[l] # "none"
    BY <2>1, ThreadsUp
  <2>3. \A l \in IoLoops : queue'[l] = queue[l]
    BY <1>7 DEF handleClose, queueInLoop, LoopType
  <2> QED BY <1>7, <2>2, <2>3, ThreadQueued DEF handleClose
<1>8. CASE removeConnectionInLoop
  <2>1. /\ batch[Base] # << >> /\ pc[Base] = "functors" /\ alive /\ UNCHANGED quit_
    BY <1>8, RunBatch DEF removeConnectionInLoop, Run
  <2>2. Serving /\ \A l \in IoLoops : pc[l] # "none"
    BY <2>1, ThreadsUp DEF Serving
  <2> QED BY <1>8, <2>1, <2>2, ThreadQueued DEF removeConnectionInLoop
<1>9. CASE listenInLoop
  <2>1. batch[Base] # << >> /\ UNCHANGED <<batch, quit_>>
    BY <1>9, RunBatch DEF listenInLoop, Run
  <2>2. ~Idle
    BY <2>1 DEF Idle
  <2> QED BY <1>9, <2>1, <2>2, ThreadKept DEF listenInLoop
<1>10. CASE runsOnDeadServer
  <2>1. goto(Base, {"functors"}, "undefined") /\ UNCHANGED <<batch, quit_>>
    BY <1>10 DEF runsOnDeadServer, Run, goto
  <2> QED BY <1>10, <2>1, ThreadBase DEF runsOnDeadServer, BasePcs
<1>11. ASSUME NEW c \in Clients, dtorConnection(c) PROVE ThreadInv'
  <2>1. connections_ # {} /\ alive
    BY <1>11 DEF dtorConnection, ThreadInv, ServerInv
  <2> QED BY <1>11, <2>1, ThreadsUp, ThreadQueued DEF dtorConnection
<1>12. ASSUME NEW k \in IoLoops, dtorQuit(k) PROVE ThreadInv'
  <2>1. /\ UNCHANGED <<acceptor, server, queue, batch, pc, state_>>
        /\ pc[Base] = "dtor" /\ connections_ = {}
    BY <1>12 DEF dtorQuit
  <2>2. \A l \in IoLoops : quit_[l] => quit_'[l]
    BY <1>12 DEF dtorQuit, LoopType
  <2>3. Idle => Idle'
    BY <2>1 DEF Idle
  <2> QED BY <2>1, <2>2, <2>3 DEF ThreadInv, ThreadAt, ServerInv
<1>13. CASE dtorAcceptor
  <2>1. /\ pc'[Base] \in {"poll", "left"} /\ \A k \in IoLoops : pc'[k] = pc[k]
    <3>1. goto(Base, {"dtor"}, IF inLoop THEN "poll" ELSE "left")
      BY <1>13 DEF dtorAcceptor
    <3> QED BY <3>1, GotoType DEF BasePcs
  <2>2. /\ \A l \in IoLoops : pc[l] \in {"none", "done"}
        /\ connections_ = {} /\ ~alive' /\ ~listening_' /\ backlog' = << >> /\ ~idleFd_'
        /\ UNCHANGED <<connections_, started_, queue, batch, quit_, state_>>
    BY <1>13 DEF dtorAcceptor, Joined, closeSocket, closeSpare
  <2>3. Idle => Idle'
    BY <2>2 DEF Idle
  <2>4. \A l \in IoLoops : ThreadAt(l)'
    BY <2>1, <2>2, <2>3 DEF ThreadAt, ThreadInv
  <2>5. ServerInv'
    BY <2>1, <2>2 DEF ServerInv
  <2> QED BY <2>4, <2>5 DEF ThreadInv
<1>14. CASE dtorBaseLoop
  <2>1. /\ ~alive /\ pc'[Base] = "gone" /\ \A k \in IoLoops : pc'[k] = pc[k]
    BY <1>14, GotoType DEF dtorBaseLoop, BasePcs
  <2>2. /\ queue' = [queue EXCEPT ![Base] = << >>]
        /\ UNCHANGED <<acceptor, server, batch, quit_, state_>>
    BY <1>14 DEF dtorBaseLoop
  <2>3. queue'[Base] = << >> /\ \A l \in IoLoops : queue'[l] = queue[l]
    BY <2>2 DEF LoopType
  <2>4. Idle => Idle'
    BY <2>2, <2>3 DEF Idle
  <2>5. \A l \in IoLoops : ThreadAt(l)'
    BY <2>1, <2>2, <2>3, <2>4 DEF ThreadAt, ThreadInv
  <2>6. ServerInv'
    BY <2>1, <2>2, <2>3 DEF ServerInv, ThreadInv
  <2> QED BY <2>5, <2>6 DEF ThreadInv
<1>15. CASE start
  <2>1. CASE started_ # 0
    <3>1. Idle => Idle'
      BY <1>15, <2>1 DEF start, Idle
    <3> QED BY <1>15, <2>1, <3>1 DEF start, exchange, ThreadInv, ThreadAt, ServerInv
  <2>2. CASE started_ = 0
    <3>1. pc' = [l \in Loops |-> IF l = Base THEN pc[l] ELSE "poll"]
      BY <1>15, <2>2 DEF start, startPool
    <3>2. pc'[Base] = pc[Base] /\ \A l \in IoLoops : pc'[l] = "poll"
      BY <3>1
    <3>3. alive /\ started_' = 1 /\ UNCHANGED <<alive, quit_, connections_>>
      BY <1>15 DEF start, exchange
    <3>4. \A l \in IoLoops : ThreadAt(l)'
      BY <3>2, <3>3 DEF ThreadAt, ThreadInv
    <3>5. ServerInv'
      BY <3>2, <3>3 DEF ServerInv, ThreadInv
    <3> QED BY <3>4, <3>5 DEF ThreadInv
  <2> QED BY <2>1, <2>2
<1>16. CASE pollInterrupted \/ otherOpen \/ otherClose \/ UNCHANGED vars
  BY <1>16, ThreadKept DEF pollInterrupted, otherOpen, otherClose, vars
<1>17. ASSUME NEW c \in Clients, connect(c) \/ withdraw(c) PROVE ThreadInv'
  <2>1. ~Idle
    BY <1>17 DEF connect, withdraw, Idle
  <2> QED BY <1>17, <2>1, ThreadKept DEF connect, withdraw
<1> QED BY <1>1, <1>2, <1>3, <1>4, <1>5, <1>6, <1>7, <1>8, <1>9, <1>10, <1>11, <1>12, <1>13,
           <1>14, <1>15, <1>16, <1>17 DEF Next, BaseStep, IoStep

-----------------------------------------------------------------------------
(* The functors.                                                           *)

LEMMA FunctorsDiffer ==
  \A c, d : /\ Establishes(c) # Destroys(d) /\ Establishes(c) # Removes(d)
            /\ Destroys(c) # Removes(d) /\ [fn |-> "listen"] # Establishes(c)
            /\ [fn |-> "listen"] # Destroys(c) /\ [fn |-> "listen"] # Removes(c)
            /\ (Establishes(c) = Establishes(d) => c = d)
            /\ (Destroys(c) = Destroys(d) => c = d) /\ (Removes(c) = Removes(d) => c = d)
BY DEF Establishes, Destroys, Removes

LEMMA QueueRest ==
  ASSUME LoopType, NEW l \in Loops, QueueAt(l), Shrunk(l), \A c \in Clients : WaitsRight(l, c)'
  PROVE  QueueAt(l)'
<1>1. IsInjective(Rest(l))
  BY DEF QueueAt
<1>2. /\ IsInjective(Rest(l)')
      /\ \A g, h : InOrder(Rest(l), g, h) => InOrder(Rest(l)', g, h)
  BY <1>1, ShrunkFacts
<1> QED BY <1>2 DEF QueueAt

LEMMA QueuePushed ==
  ASSUME LoopType, NEW l \in Loops, QueueAt(l), NEW f \in Functor, ~Contains(Rest(l), f),
         Rest(l)' = Append(Rest(l), f),
         \A c \in Clients : f = Establishes(c) => ~Contains(Rest(l), Destroys(c)),
         \A c \in Clients : WaitsRight(l, c)'
  PROVE  QueueAt(l)'
<1> DEFINE s == Rest(l)
<1>1. s \in Seq(Functor)
  BY RestType
<1>2. IsInjective(s) /\ \A c \in Clients : InOrder(s, Establishes(c), Destroys(c))
  BY DEF QueueAt
<1>3. ~Contains(s, f) /\ \A c \in Clients : f = Establishes(c) => ~Contains(s, Destroys(c))
  OBVIOUS
<1> HIDE DEF s
<1>4. IsInjective(Append(s, f))
  BY <1>1, <1>2, <1>3, SeqAppend
<1>5. \A c \in Clients : InOrder(Append(s, f), Establishes(c), Destroys(c))
  BY <1>1, <1>2, <1>3, SeqAppend, FunctorsDiffer
<1>6. Rest(l)' = Append(s, f)
  BY DEF s
<1> QED BY <1>4, <1>5, <1>6 DEF QueueAt

(* What f adds to the functors of l, and what the others are then.         *)
LEMMA PushedFacts ==
  ASSUME LoopType, NEW l \in Loops, NEW f \in Functor, queueInLoop(l, f),
         UNCHANGED <<batch, done>>
  PROVE  /\ Rest(l)' = Append(Rest(l), f)
         /\ \A g : Contains(Rest(l)', g) <=> Contains(Rest(l), g) \/ g = f
         /\ \A k \in Loops : k # l => Rest(k)' = Rest(k)
<1>1. /\ queue'[l] = Append(queue[l], f)
      /\ \A k \in Loops : k # l => queue'[k] = queue[k]
  BY QueueType
<1>2. Rest(l)' = Append(Rest(l), f)
  BY <1>1, RestQueued
<1>3. \A k \in Loops : k # l => Rest(k)' = Rest(k)
  BY <1>1, RestKept
<1>4. Rest(l) \in Seq(Functor)
  BY RestType
<1> QED BY <1>2, <1>3, <1>4, SeqAppend

(* The steps that only run or drop functors, and change no connection.     *)
LEMMA QueueQuiet ==
  ASSUME LoopType, QueueInv, \A l \in Loops : Shrunk(l), Serving' => Serving,
         UNCHANGED <<state_, ioLoop, destroyed, connections_>>
  PROVE  QueueInv'
BY QueueShrunk DEF QueueInv

LEMMA QueueAccept ==
  ASSUME LoopType, DataType, ThreadInv, QueueInv, ClientInv, accept
  PROVE  QueueInv'
<1> USE LoopFacts
<1>1. Serving /\ Serving' /\ UNCHANGED <<batch, done, destroyed>>
  <2>1. pc[Base] = "accept" /\ alive /\ goto(Base, {"accept"}, "errno") /\ alive' = alive
    BY DEF accept, goto, ThreadInv, ServerInv
  <2>2. pc'[Base] = "errno"
    BY <2>1, GotoType DEF BasePcs
  <2> QED BY <2>1, <2>2 DEF Serving, accept
<1>2. CASE UNCHANGED <<connections_, state_, ioLoop, queue>>
  <2>1. \A l \in Loops : Shrunk(l)
    BY <1>1, <1>2, RestKept DEF Shrunk
  <2> QED BY <1>1, <1>2, <2>1, QueueQuiet
<1>3. CASE backlog # << >> /\ newConnection(Head(backlog))
  <2>0. Head(backlog) \in Clients /\ next_ + 1 \in Loops
    BY <1>3, HeadTailProperties, NextLoop DEF DataType
  <2> PICK c \in Clients, m \in Loops : c = Head(backlog) /\ m = next_ + 1
    BY <2>0
  <2> DEFINE f == Establishes(c)
  <2>1. c \in Clients /\ m \in Loops /\ f \in Functor /\ queueInLoop(m, f)
    BY <1>3, FunctorFacts DEF newConnection, Establishes
  <2>2. state_[c] = "none"
    <3>1. Contains(backlog, c)
      BY <1>3 DEF Contains, DataType
    <3> QED BY <2>1, <3>1 DEF ClientInv
  <2>3. /\ ioLoop' = [ioLoop EXCEPT ![c] = m] /\ connections_' = connections_ \cup {c}
        /\ state_' = [state_ EXCEPT ![c] = "kConnecting"]
    BY <1>3 DEF newConnection
  <2> HIDE DEF f
  <2>4. /\ ioLoop'[c] = m /\ state_'[c] = "kConnecting"
        /\ \A d \in Clients : d # c => /\ ioLoop'[d] = ioLoop[d] /\ state_'[d] = state_[d]
                                       /\ d \in connections_' <=> d \in connections_
    BY <2>1, <2>3 DEF DataType
  <2>5. \A l \in Loops : /\ ~Contains(Rest(l), Establishes(c)) /\ ~Contains(Rest(l), Destroys(c))
                         /\ ~Contains(Rest(l), Removes(c))
    BY <2>1, <2>2 DEF QueueInv, QueueAt, WaitsRight
  <2>6. /\ Rest(m)' = Append(Rest(m), f)
        /\ \A g : Contains(Rest(m)', g) <=> Contains(Rest(m), g) \/ g = f
        /\ \A k \in Loops : k # m => Rest(k)' = Rest(k)
    BY <1>1, <2>1, PushedFacts
  <2>7. ASSUME NEW l \in Loops, NEW d \in Clients PROVE WaitsRight(l, d)'
    <3>1. WaitsRight(l, d)
      BY DEF QueueInv, QueueAt
    <3>2. CASE d = c
      <4>1. ~Contains(Rest(l)', Destroys(d)) /\ ~Contains(Rest(l)', Removes(d))
        BY <2>5, <2>6, <3>2, FunctorsDiffer DEF f
      <4>2. Contains(Rest(l)', Establishes(d)) => l = m
        BY <2>5, <2>6, <3>2
      <4> QED BY <2>4, <3>2, <4>1, <4>2 DEF WaitsRight
    <3>3. CASE d # c
      <4>1. /\ Contains(Rest(l)', Establishes(d)) => Contains(Rest(l), Establishes(d))
            /\ Contains(Rest(l)', Destroys(d)) => Contains(Rest(l), Destroys(d))
            /\ Contains(Rest(l)', Removes(d)) => Contains(Rest(l), Removes(d))
        BY <2>6, <3>3, FunctorsDiffer DEF f
      <4> QED BY <1>1, <2>4, <3>1, <3>3, <4>1 DEF WaitsRight
    <3> QED BY <3>2, <3>3
  <2>8. ASSUME NEW l \in Loops PROVE QueueAt(l)'
    <3>1. QueueAt(l)
      BY DEF QueueInv
    <3>2. CASE l = m
      <4>1. ~Contains(Rest(l), f) /\ \A d \in Clients : f = Establishes(d) => ~Contains(Rest(l), Destroys(d))
        BY <2>5, FunctorsDiffer DEF f
      <4> QED BY <2>1, <2>6, <2>7, <3>1, <3>2, <4>1, QueuePushed
    <3>3. CASE l # m
      BY <2>6, <2>7, <3>1, <3>3, QueueRest DEF Shrunk
    <3> QED BY <3>2, <3>3
  <2> QED BY <2>8 DEF QueueInv
<1> QED BY <1>2, <1>3 DEF accept

(* A functor of c runs on loop m, and touches nothing but c.               *)
LEMMA QueueRun ==
  ASSUME LoopType, QueueInv, NEW m \in Loops, NEW fn, Run(m, fn), NEW c \in Clients, c = Arg(m),
         fn \in {"connectEstablished", "connectDestroyed"},
         UNCHANGED <<queue, pc, alive, connections_, ioLoop>>,
         \A d \in Clients : d # c => UNCHANGED <<state_[d], destroyed[d]>>,
         state_'[c] = IF fn = "connectEstablished" THEN "kConnected" ELSE "kDisconnected",
         fn = "connectEstablished" => UNCHANGED destroyed
  PROVE  QueueInv'
<1>1. /\ Rest(m) # << >> /\ Rest(m)' = Tail(Rest(m))
      /\ Contains(Rest(m), Head(Rest(m)))
      /\ fn = "connectEstablished" => Head(Rest(m)) = Establishes(c)
      /\ fn = "connectDestroyed" => Head(Rest(m)) = Destroys(c)
  BY RunHead
<1>2. \A k \in Loops : k # m => Rest(k)' = Rest(k)
  BY RunHead
<1>3. \A l \in Loops : Shrunk(l)
  BY <1>1, <1>2 DEF Shrunk
<1>4. QueueAt(m) /\ Rest(m) \in Seq(Functor) /\ IsInjective(Rest(m))
  BY RestType DEF QueueInv, QueueAt
<1>5. ~Contains(Rest(m)', Head(Rest(m)))
  BY <1>1, <1>4, SeqTail
<1>6. \A l \in Loops : \A g : Contains(Rest(l)', g) => Contains(Rest(l), g)
  BY <1>3, ShrunkFacts DEF QueueInv, QueueAt
<1>7. Serving' <=> Serving
  BY DEF Serving
<1>8. ASSUME NEW l \in Loops, NEW d \in Clients PROVE WaitsRight(l, d)'
  <2>1. WaitsRight(l, d) /\ WaitsRight(m, d)
    BY DEF QueueInv, QueueAt
  <2>2. /\ Contains(Rest(l)', Establishes(d)) => Contains(Rest(l), Establishes(d))
        /\ Contains(Rest(l)', Destroys(d)) => Contains(Rest(l), Destroys(d))
        /\ Contains(Rest(l)', Removes(d)) => Contains(Rest(l), Removes(d))
    BY <1>6
  <2>3. CASE d # c
    BY <1>7, <2>1, <2>2, <2>3 DEF WaitsRight
  <2>4. CASE d = c /\ fn = "connectEstablished"
    <3>1. state_[d] = "kConnecting" /\ m = ioLoop[d]
      BY <1>1, <2>1, <2>4 DEF WaitsRight
    <3>2. ~Contains(Rest(l)', Establishes(d))
      BY <1>1, <1>5, <2>1, <2>2, <2>4, <3>1 DEF WaitsRight
    <3>3. ~Contains(Rest(l)', Removes(d))
      BY <2>1, <2>2, <3>1 DEF WaitsRight
    <3> QED BY <2>1, <2>2, <2>4, <3>2, <3>3 DEF WaitsRight
  <2>5. CASE d = c /\ fn = "connectDestroyed"
    <3>1. m = ioLoop[d] /\ Head(Rest(m)) = Destroys(d)
      BY <1>1, <2>1, <2>5 DEF WaitsRight
    <3>2. ~Contains(Rest(l)', Destroys(d))
      BY <1>5, <2>1, <2>2, <3>1 DEF WaitsRight
    <3>3. ~Contains(Rest(m), Establishes(d))
      <4>1. InOrder(Rest(m), Establishes(d), Destroys(d))
        BY DEF QueueInv, QueueAt
      <4> QED BY <1>1, <1>4, <3>1, <4>1, SeqTail
    <3>4. ~Contains(Rest(l)', Establishes(d))
      BY <2>1, <2>2, <3>1, <3>3 DEF WaitsRight
    <3> QED BY <1>7, <2>1, <2>2, <2>5, <3>2, <3>4 DEF WaitsRight
  <2> QED BY <2>3, <2>4, <2>5
<1>9. ASSUME NEW l \in Loops PROVE QueueAt(l)'
  BY <1>3, <1>8, QueueRest DEF QueueInv
<1> QED BY <1>9 DEF QueueInv

LEMMA QueueClose ==
  ASSUME LoopType, DataType, QueueInv, LifeInv, NEW c \in Clients, handleClose(c)
  PROVE  QueueInv'
<1> USE LoopFacts
<1> DEFINE f == Removes(c)
<1>1. /\ f \in Functor /\ queueInLoop(Base, f) /\ state_[c] = "kConnected"
      /\ UNCHANGED <<batch, done, pc, alive, connections_, ioLoop, destroyed>>
  BY FunctorFacts DEF handleClose, Removes, server
<1>2. /\ state_'[c] = "kDisconnected" /\ \A d \in Clients : d # c => state_'[d] = state_[d]
  BY DEF handleClose, DataType
<1> HIDE DEF f
<1>3. Serving' <=> Serving
  BY <1>1 DEF Serving
<1>4. Serving => c \in connections_
  BY <1>1 DEF LifeInv, LifeAt
<1>5. \A l \in Loops : ~Contains(Rest(l), Establishes(c)) /\ ~Contains(Rest(l), f)
  BY <1>1 DEF QueueInv, QueueAt, WaitsRight, f
<1>6. /\ Rest(Base)' = Append(Rest(Base), f)
      /\ \A g : Contains(Rest(Base)', g) <=> Contains(Rest(Base), g) \/ g = f
      /\ \A k \in Loops : k # Base => Rest(k)' = Rest(k)
  BY <1>1, PushedFacts
<1>7. ASSUME NEW l \in Loops, NEW d \in Clients PROVE WaitsRight(l, d)'
  <2>1. WaitsRight(l, d)
    BY DEF QueueInv, QueueAt
  <2>2. /\ Contains(Rest(l)', Establishes(d)) => Contains(Rest(l), Establishes(d))
        /\ Contains(Rest(l)', Destroys(d)) => Contains(Rest(l), Destroys(d))
        /\ Contains(Rest(l)', Removes(d)) => Contains(Rest(l), Removes(d)) \/ (d = c /\ l = Base)
    BY <1>6, FunctorsDiffer DEF f
  <2>3. CASE d # c
    BY <1>1, <1>2, <1>3, <2>1, <2>2, <2>3 DEF WaitsRight
  <2>4. CASE d = c
    <3>1. ~Contains(Rest(l)', Establishes(d))
      BY <1>5, <2>2, <2>4
    <3>2. Contains(Rest(l)', Removes(d)) => l = Base
      BY <2>1, <2>2 DEF WaitsRight
    <3> QED BY <1>1, <1>2, <1>3, <1>4, <2>1, <2>2, <2>4, <3>1, <3>2 DEF WaitsRight
  <2> QED BY <2>3, <2>4
<1>8. ASSUME NEW l \in Loops PROVE QueueAt(l)'
  <2>1. QueueAt(l)
    BY DEF QueueInv
  <2>2. CASE l = Base
    <3>1. \A d \in Clients : f = Establishes(d) => ~Contains(Rest(l), Destroys(d))
      BY FunctorsDiffer DEF f
    <3> QED BY <1>1, <1>5, <1>6, <1>7, <2>1, <2>2, <3>1, QueuePushed
  <2>3. CASE l # Base
    BY <1>6, <1>7, <2>1, <2>3, QueueRest DEF Shrunk
  <2> QED BY <2>2, <2>3
<1> QED BY <1>8 DEF QueueInv

(* c leaves connections_, and its connectDestroyed is queued in m.         *)
LEMMA QueueLeaves ==
  ASSUME LoopType, QueueInv, LifeInv, NEW c \in Clients, c \in connections_,
         NEW m \in Loops, m = ioLoop[c], m # Base,
         Rest(m)' = Append(Rest(m), Destroys(c)),
         \A l \in Loops : l # m => Shrunk(l),
         connections_' = connections_ \ {c}, Serving' => Serving,
         Serving => ~Contains(Rest(Base)', Removes(c)),
         UNCHANGED <<state_, ioLoop, destroyed>>
  PROVE  QueueInv'
<1> DEFINE f == Destroys(c)
<1>1. f \in Functor
  BY FunctorFacts
<1>2. state_[c] # "none" /\ destroyed[c] = 0
  BY DEF LifeInv, LifeAt
<1>3. Rest(m) \in Seq(Functor) /\ Rest(m)' = Append(Rest(m), f)
  BY RestType
<1>4. ~Contains(Rest(m), f)
  BY DEF QueueInv, QueueAt, WaitsRight
<1> HIDE DEF f
<1>5. \A g : Contains(Rest(m)', g) <=> Contains(Rest(m), g) \/ g = f
  BY <1>1, <1>3, SeqAppend
<1>6. ASSUME NEW l \in Loops, NEW d \in Clients PROVE WaitsRight(l, d)'
  <2>1. WaitsRight(l, d)
    BY DEF QueueInv, QueueAt
  <2>2. /\ Contains(Rest(l)', Establishes(d)) => Contains(Rest(l), Establishes(d))
        /\ Contains(Rest(l)', Destroys(d)) => Contains(Rest(l), Destroys(d)) \/ (d = c /\ l = m)
        /\ Contains(Rest(l)', Removes(d)) => Contains(Rest(l), Removes(d))
    <3>1. CASE l = m
      BY <1>5, <3>1, FunctorsDiffer DEF f
    <3>2. CASE l # m
      <4>1. IsInjective(Rest(l))
        BY DEF QueueInv, QueueAt
      <4> QED BY <3>2, <4>1, ShrunkFacts
    <3> QED BY <3>1, <3>2
  <2>3. /\ Contains(Rest(l)', Destroys(d))
             => l = ioLoop[d] /\ destroyed[d] = 0 /\ d \notin connections_' /\ state_[d] # "none"
    BY <1>2, <2>1, <2>2 DEF WaitsRight
  <2>4. Contains(Rest(l)', Removes(d))
          => l = Base /\ state_[d] = "kDisconnected" /\ (Serving' => d \in connections_')
    BY <2>1, <2>2 DEF WaitsRight
  <2>5. Contains(Rest(l)', Establishes(d)) => l = ioLoop[d] /\ state_[d] = "kConnecting"
    BY <2>1, <2>2 DEF WaitsRight
  <2> QED BY <2>3, <2>4, <2>5 DEF WaitsRight
<1>7. ASSUME NEW l \in Loops PROVE QueueAt(l)'
  <2>1. QueueAt(l)
    BY DEF QueueInv
  <2>2. CASE l = m
    <3>1. \A d \in Clients : f = Establishes(d) => ~Contains(Rest(l), Destroys(d))
      BY FunctorsDiffer DEF f
    <3> QED BY <1>1, <1>3, <1>4, <1>6, <2>1, <2>2, <3>1, QueuePushed
  <2>3. CASE l # m
    BY <1>6, <2>1, <2>3, QueueRest
  <2> QED BY <2>2, <2>3
<1> QED BY <1>7 DEF QueueInv

LEMMA QueueRemove ==
  ASSUME LoopType, DataType, QueueInv, LifeInv, removeConnectionInLoop PROVE QueueInv'
<1> USE LoopFacts
<1>1. Run(Base, "remove") /\ ioLoop[Arg(Base)] \in IoLoops /\ Arg(Base) \in Clients
  BY HasLoop DEF removeConnectionInLoop
<1> PICK c \in Clients, m \in IoLoops : c = Arg(Base) /\ m = ioLoop[c]
  BY <1>1
<1>2. m \in Loops /\ m # Base /\ Destroys(c) \in Functor
  BY FunctorFacts
<1>3. /\ queueInLoop(m, Destroys(c)) /\ connections_' = connections_ \ {c}
      /\ UNCHANGED <<pc, alive, state_, ioLoop, destroyed>>
  BY DEF removeConnectionInLoop, queueDestroyed, Destroys, conns
<1>4. /\ queue'[m] = Append(queue[m], Destroys(c))
      /\ \A k \in Loops : k # m => queue'[k] = queue[k]
  BY <1>2, <1>3, QueueType
<1>5. Serving /\ Serving'
  BY <1>1, <1>3 DEF removeConnectionInLoop, Run, Serving
<1>6. Head(Rest(Base)) = Removes(c) /\ Contains(Rest(Base), Removes(c)) /\ Rest(Base) # << >>
  BY <1>1, RunHead
<1>7. Rest(Base)' = Tail(Rest(Base))
  BY <1>1, <1>2, <1>4, RunHead
<1>8. c \in connections_
  BY <1>5, <1>6 DEF QueueInv, QueueAt, WaitsRight
<1>9. ~Contains(Rest(Base)', Removes(c))
  <2>1. IsInjective(Rest(Base)) /\ Rest(Base) \in Seq(Functor)
    BY RestType DEF QueueInv, QueueAt
  <2> QED BY <1>6, <1>7, <2>1, SeqTail
<1>10. Rest(m)' = Append(Rest(m), Destroys(c))
  <2>1. UNCHANGED <<batch[m], done[m]>>
    BY <1>1, <1>2 DEF Run, LoopType
  <2> QED BY <1>2, <1>4, <2>1, RestQueued
<1>11. ASSUME NEW l \in Loops, l # m PROVE Shrunk(l)
  <2>1. CASE l = Base
    BY <1>6, <1>7, <2>1 DEF Shrunk
  <2>2. CASE l # Base
    BY <1>1, <1>4, <1>11, <2>2, RunHead DEF Shrunk
  <2> QED BY <2>1, <2>2
<1> QED BY <1>2, <1>3, <1>5, <1>8, <1>9, <1>10, <1>11, QueueLeaves

LEMMA QueueDtor ==
  ASSUME LoopType, QueueInv, LifeInv, NEW c \in Clients, dtorConnection(c) PROVE QueueInv'
<1> USE LoopFacts
<1>1. c \in connections_ /\ ioLoop[c] \in IoLoops
  BY HasLoop DEF dtorConnection
<1> PICK m \in IoLoops : m = ioLoop[c]
  BY <1>1
<1>2. m \in Loops /\ m # Base /\ Destroys(c) \in Functor
  BY FunctorFacts
<1>3. /\ queueInLoop(m, Destroys(c)) /\ connections_' = connections_ \ {c}
      /\ UNCHANGED <<batch, done, pc, alive, state_, ioLoop, destroyed>>
  BY DEF dtorConnection, queueDestroyed, Destroys, conns
<1>4. ~Serving /\ ~Serving'
  BY <1>3 DEF dtorConnection, Serving
<1>5. /\ Rest(m)' = Append(Rest(m), Destroys(c))
      /\ \A k \in Loops : k # m => Rest(k)' = Rest(k)
  BY <1>2, <1>3, PushedFacts
<1>6. \A l \in Loops : l # m => Shrunk(l)
  BY <1>5 DEF Shrunk
<1> QED BY <1>1, <1>2, <1>3, <1>4, <1>5, <1>6, QueueLeaves

LEMMA QueueStart ==
  ASSUME LoopType, ThreadInv, QueueInv, start PROVE QueueInv'
<1> USE LoopFacts
<1>1. UNCHANGED <<batch, done, alive, connections_, state_, ioLoop, destroyed>>
  BY DEF start, conns
<1>2. Serving' => Serving
  <2>1. pc'[Base] = pc[Base]
    BY DEF start, startPool
  <2> QED BY <1>1, <2>1 DEF Serving
<1>3. CASE UNCHANGED queue
  <2>1. \A l \in Loops : Shrunk(l)
    BY <1>1, <1>3, RestKept DEF Shrunk
  <2> QED BY <1>1, <1>2, <2>1, QueueQuiet
<1>4. CASE started_ = 0 /\ queueInLoop(Base, [fn |-> "listen"])
  <2> DEFINE f == [fn |-> "listen"]
  <2>1. f \in Functor /\ queueInLoop(Base, f)
    BY <1>4, FunctorFacts
  <2>2. \A d \in Clients : f # Establishes(d) /\ f # Destroys(d) /\ f # Removes(d)
    BY FunctorsDiffer
  <2> HIDE DEF f
  <2>3. \A l \in Loops : Rest(l) = << >>
    <3>1. 1 \in IoLoops
      BY TcpServerAssumption DEF TcpServerAssumption, IoLoops
    <3>2. Idle
      BY <1>4, <3>1 DEF ThreadInv, ThreadAt
    <3> SUFFICES ASSUME NEW l \in Loops PROVE Rest(l) = << >>
      OBVIOUS
    <3>3. batch[l] = << >> /\ queue[l] = << >> /\ done[l] \in Nat
      BY <3>2 DEF Idle, LoopType
    <3>4. Len(batch[l]) = 0
      BY <3>3
    <3>5. SubSeq(batch[l], done[l] + 1, Len(batch[l])) = << >>
      BY <3>3, <3>4, SubSeqEmpty
    <3>6. << >> \in Seq(Functor)
      OBVIOUS
    <3> QED BY <3>3, <3>5, <3>6, ConcatEmptySeq DEF Rest
  <2>4. /\ Rest(Base)' = Append(Rest(Base), f)
        /\ \A g : Contains(Rest(Base)', g) <=> Contains(Rest(Base), g) \/ g = f
        /\ \A k \in Loops : k # Base => Rest(k)' = Rest(k)
    BY <1>1, <2>1, PushedFacts
  <2>5. ASSUME NEW l \in Loops, NEW g PROVE ~Contains(Rest(l), g)
    BY <2>3 DEF Contains
  <2>6. ASSUME NEW l \in Loops, NEW d \in Clients PROVE WaitsRight(l, d)'
    <3>1. /\ ~Contains(Rest(l)', Establishes(d)) /\ ~Contains(Rest(l)', Destroys(d))
          /\ ~Contains(Rest(l)', Removes(d))
      BY <2>2, <2>4, <2>5
    <3> QED BY <3>1 DEF WaitsRight
  <2>7. ASSUME NEW l \in Loops PROVE QueueAt(l)'
    <3>1. QueueAt(l)
      BY DEF QueueInv
    <3>2. CASE l = Base
      BY <2>1, <2>2, <2>4, <2>5, <2>6, <3>1, <3>2, QueuePushed
    <3>3. CASE l # Base
      BY <2>4, <2>6, <3>1, <3>3, QueueRest DEF Shrunk
    <3> QED BY <3>2, <3>3
  <2> QED BY <2>7 DEF QueueInv
<1> QED BY <1>3, <1>4 DEF start

LEMMA QueueStep ==
  ASSUME LoopType, DataType, ThreadInv, QueueInv, LifeInv, ClientInv, [Next]_vars
  PROVE  QueueInv'
<1> USE LoopFacts DEF acceptor, server, conns, fds, loops
<1>1. CASE \/ poll \/ testErrno \/ reaccept \/ handled \/ acceptDies \/ leaveLoop \/ destroy
           \/ dtorAcceptor
  <2>1. /\ UNCHANGED <<queue, batch, done, state_, ioLoop, destroyed, connections_>>
        /\ alive' => alive
    BY <1>1 DEF poll, testErrno, reaccept, handled, acceptDies, leaveLoop, destroy, dtorAcceptor
  <2>2. Serving' => Serving
    BY <1>1, <2>1 DEF poll, testErrno, reaccept, handled, acceptDies, leaveLoop, destroy,
       dtorAcceptor, goto, Serving
  <2>3. \A l \in Loops : Shrunk(l)
    BY <2>1, RestKept DEF Shrunk
  <2> QED BY <2>1, <2>2, <2>3, QueueQuiet
<1>2. CASE accept
  BY <1>2, QueueAccept
<1>3. ASSUME NEW l \in Loops, doPendingFunctors(l) \/ functorsDone(l) PROVE QueueInv'
  <2>1. UNCHANGED <<alive, state_, ioLoop, destroyed, connections_>>
    BY <1>3 DEF doPendingFunctors, functorsDone
  <2>2. \A k \in Loops : Shrunk(k)
    BY <1>3, RestSwap, RestDone DEF Shrunk
  <2>3. Serving' => Serving
    BY <1>3, <2>1 DEF doPendingFunctors, functorsDone, goto, Serving, LoopType
  <2> QED BY <2>1, <2>2, <2>3, QueueQuiet
<1>4. ASSUME NEW l \in Loops, connectEstablished(l) PROVE QueueInv'
  <2>1. Run(l, "connectEstablished") /\ Arg(l) \in Clients
    BY <1>4, RunFunctor DEF connectEstablished
  <2> PICK c \in Clients : c = Arg(l)
    BY <2>1
  <2>2. state_'[c] = "kConnected" /\ \A d \in Clients : d # c => state_'[d] = state_[d]
    BY <1>4 DEF connectEstablished, DataType
  <2>3. UNCHANGED <<queue, pc, alive, connections_, ioLoop, destroyed>>
    BY <1>4 DEF connectEstablished
  <2> QED BY <2>1, <2>2, <2>3, QueueRun
<1>5. ASSUME NEW l \in Loops, connectDestroyed(l) PROVE QueueInv'
  <2>1. Run(l, "connectDestroyed") /\ Arg(l) \in Clients
    BY <1>5, RunFunctor DEF connectDestroyed
  <2> PICK c \in Clients : c = Arg(l)
    BY <2>1
  <2>2. state_'[c] = "kDisconnected" /\ \A d \in Clients : d # c => state_'[d] = state_[d]
    BY <1>5 DEF connectDestroyed, DataType
  <2>3. UNCHANGED <<queue, pc, alive, connections_, ioLoop>>
    BY <1>5 DEF connectDestroyed
  <2>4. \A d \in Clients : d # c => destroyed'[d] = destroyed[d]
    BY <1>5 DEF connectDestroyed, DataType
  <2> QED BY <2>1, <2>2, <2>3, <2>4, QueueRun
<1>6. ASSUME NEW c \in Clients, handleClose(c) PROVE QueueInv'
  BY <1>6, QueueClose
<1>7. CASE removeConnectionInLoop
  BY <1>7, QueueRemove
<1>8. CASE listenInLoop \/ runsOnDeadServer
  <2>1. PICK fn : Run(Base, fn)
    BY <1>8 DEF listenInLoop, runsOnDeadServer
  <2>2. UNCHANGED <<queue, alive, state_, ioLoop, destroyed, connections_>>
    BY <1>8 DEF listenInLoop, runsOnDeadServer
  <2>3. \A k \in Loops : Shrunk(k)
    BY <2>1, <2>2, RunHead DEF Shrunk
  <2>4. Serving' => Serving
    BY <1>8, <2>1, <2>2 DEF listenInLoop, runsOnDeadServer, Run, Serving
  <2> QED BY <2>2, <2>3, <2>4, QueueQuiet
<1>9. ASSUME NEW c \in Clients, dtorConnection(c) PROVE QueueInv'
  BY <1>9, QueueDtor
<1>10. CASE dtorBaseLoop
  <2>1. /\ ~alive /\ pc[Base] = "left" /\ queue' = [queue EXCEPT ![Base] = << >>]
        /\ UNCHANGED <<alive, batch, done, state_, ioLoop, destroyed, connections_>>
    BY <1>10 DEF dtorBaseLoop, goto
  <2>2. batch[Base] = << >> /\ done[Base] = 0 /\ queue'[Base] = << >>
    BY <2>1 DEF LoopType
  <2>3. Rest(Base)' = << >>
    <3>1. SubSeq(batch[Base], done[Base] + 1, Len(batch[Base])) = << >>
      BY <2>2, SubSeqEmpty
    <3>2. << >> \in Seq(Functor)
      OBVIOUS
    <3> QED BY <2>1, <2>2, <3>1, <3>2, ConcatEmptySeq DEF Rest
  <2>4. \A k \in Loops : k # Base => Rest(k)' = Rest(k)
    BY <2>1, RestKept DEF LoopType
  <2>5. \A k \in Loops : Shrunk(k)
    BY <2>3, <2>4 DEF Shrunk
  <2>6. Serving' => Serving
    BY <2>1 DEF Serving
  <2> QED BY <2>1, <2>5, <2>6, QueueQuiet
<1>11. CASE start
  BY <1>11, QueueStart
<1>12. ASSUME \/ pollInterrupted \/ otherOpen \/ otherClose \/ UNCHANGED vars
              \/ (\E l \in IoLoops : dtorQuit(l))
              \/ \E c \in Clients : connect(c) \/ withdraw(c)
       PROVE  QueueInv'
  <2>1. UNCHANGED <<queue, batch, done, pc, alive, state_, ioLoop, destroyed, connections_>>
    BY <1>12 DEF pollInterrupted, otherOpen, otherClose, vars, dtorQuit, connect, withdraw
  <2>2. \A l \in Loops : Shrunk(l)
    BY <2>1, RestKept DEF Shrunk
  <2> QED BY <2>1, <2>2, QueueQuiet DEF Serving
<1> QED BY <1>1, <1>2, <1>3, <1>4, <1>5, <1>6, <1>7, <1>8, <1>9, <1>10, <1>11, <1>12
        DEF Next, BaseStep, IoStep

-----------------------------------------------------------------------------
(* The lives of the connections.                                           *)

(* What waits in the loops of the threads goes on to wait.                 *)
StillWaits == \A l \in IoLoops :
  /\ pc[l] = "done" => pc'[l] = "done"
  /\ pc'[l] = "done" \/ \A d \in Clients : Contains(Rest(l), Destroys(d))
                                             => Contains(Rest(l)', Destroys(d))

(* The connection of c is as it was.                                       *)
LEMMA LifeKept ==
  ASSUME NEW c \in Clients, LifeAt(c), StillWaits, Serving' => Serving,
         UNCHANGED <<state_[c], ioLoop[c], destroyed[c]>>,
         c \in connections_' <=> c \in connections_
  PROVE  LifeAt(c)'
<1>1. ASSUME state_[c] # "none"
      PROVE  \/ c \in connections_ \/ Contains(Rest(ioLoop[c])', Destroys(c))
             \/ destroyed[c] = 1 \/ pc'[ioLoop[c]] = "done"
  <2>1. ioLoop[c] \in IoLoops
    BY <1>1 DEF LifeAt
  <2> PICK m \in IoLoops : m = ioLoop[c]
    BY <2>1
  <2>2. Rest(ioLoop[c])' = Rest(m)'
    BY DEF Rest
  <2> QED BY <1>1, <2>2 DEF LifeAt, StillWaits
<1> QED BY <1>1 DEF LifeAt

(* The steps that change no connection.                                    *)
LEMMA LifeQuiet ==
  ASSUME LifeInv, StillWaits, Serving' => Serving,
         UNCHANGED <<state_, ioLoop, destroyed, connections_>>
  PROVE  LifeInv'
BY LifeKept DEF LifeInv

(* A functor f is queued in m.                                             *)
LEMMA PushedWaits ==
  ASSUME LoopType, NEW m \in Loops, NEW f \in Functor, queueInLoop(m, f),
         UNCHANGED <<batch, done>>, \A l \in IoLoops : pc'[l] = pc[l]
  PROVE  StillWaits
<1>1. /\ \A g : Contains(Rest(m)', g) <=> Contains(Rest(m), g) \/ g = f
      /\ \A k \in Loops : k # m => Rest(k)' = Rest(k)
  BY PushedFacts
<1> QED BY <1>1, LoopFacts DEF StillWaits

(* A functor is run, in place of which no connectDestroyed is lost.        *)
LEMMA RunWaits ==
  ASSUME LoopType, NEW m \in Loops, NEW fn, Run(m, fn), fn # "connectDestroyed",
         UNCHANGED <<queue, pc>>
  PROVE  StillWaits
<1>1. Rest(m) # << >> /\ Rest(m)' = Tail(Rest(m)) /\ Rest(m) \in Seq(Functor)
  BY RunHead, RestType
<1>2. Head(Rest(m)).fn = fn
  BY RestRun, RunFunctor
<1>3. \A d : Head(Rest(m)) # Destroys(d)
  BY <1>2 DEF Destroys
<1>4. \A k \in Loops : k # m => Rest(k)' = Rest(k)
  BY RunHead
<1>5. \A d : Contains(Rest(m), Destroys(d)) => Contains(Rest(m)', Destroys(d))
  BY <1>1, <1>3, SeqTail
<1> QED BY <1>4, <1>5, LoopFacts DEF StillWaits

LEMMA LifeAccept ==
  ASSUME LoopType, DataType, ThreadInv, LifeInv, ClientInv, accept
  PROVE  LifeInv'
<1> USE LoopFacts
<1>1. /\ Serving /\ UNCHANGED <<batch, done, destroyed>> /\ \A l \in IoLoops : pc'[l] = pc[l]
  <2>1. pc[Base] = "accept" /\ alive /\ goto(Base, {"accept"}, "errno") /\ alive' = alive
    BY DEF accept, goto, ThreadInv, ServerInv
  <2>2. \A l \in IoLoops : pc'[l] = pc[l]
    BY <2>1, GotoType DEF BasePcs
  <2> QED BY <2>1, <2>2 DEF Serving, accept
<1>2. CASE UNCHANGED <<connections_, state_, ioLoop, queue>>
  <2>1. StillWaits
    BY <1>1, <1>2, RestKept DEF StillWaits
  <2> QED BY <1>1, <1>2, <2>1, LifeQuiet
<1>3. CASE backlog # << >> /\ newConnection(Head(backlog))
  <2>0. Head(backlog) \in Clients /\ next_ + 1 \in IoLoops
    BY <1>3, HeadTailProperties, NextLoop DEF DataType
  <2> PICK c \in Clients, m \in IoLoops : c = Head(backlog) /\ m = next_ + 1
    BY <2>0
  <2>1. queueInLoop(m, Establishes(c)) /\ Establishes(c) \in Functor
    BY <1>3, FunctorFacts DEF newConnection, Establishes
  <2>2. StillWaits
    BY <1>1, <2>1, PushedWaits
  <2>3. /\ ioLoop' = [ioLoop EXCEPT ![c] = m] /\ connections_' = connections_ \cup {c}
        /\ state_' = [state_ EXCEPT ![c] = "kConnecting"]
    BY <1>3 DEF newConnection
  <2>4. /\ ioLoop'[c] = m /\ state_'[c] = "kConnecting" /\ c \in connections_'
        /\ \A d \in Clients : d # c => /\ ioLoop'[d] = ioLoop[d] /\ state_'[d] = state_[d]
                                       /\ d \in connections_' <=> d \in connections_
    BY <2>3 DEF DataType
  <2>5. destroyed[c] = 0
    <3>1. Contains(backlog, c)
      BY <1>3 DEF Contains, DataType
    <3>2. state_[c] = "none"
      BY <3>1 DEF ClientInv
    <3> QED BY <3>2 DEF LifeInv, LifeAt
  <2>6. ASSUME NEW d \in Clients PROVE LifeAt(d)'
    <3>1. CASE d = c
      BY <1>1, <2>4, <2>5, <3>1 DEF LifeAt
    <3>2. CASE d # c
      BY <1>1, <2>2, <2>4, <3>2, LifeKept DEF LifeInv
    <3> QED BY <3>1, <3>2
  <2> QED BY <2>6 DEF LifeInv
<1> QED BY <1>2, <1>3 DEF accept

LEMMA LifeEstablished ==
  ASSUME LoopType, DataType, QueueInv, LifeInv, NEW l \in Loops, connectEstablished(l)
  PROVE  LifeInv'
<1>1. Run(l, "connectEstablished") /\ UNCHANGED <<queue, pc, alive, connections_, ioLoop, destroyed>>
  BY DEF connectEstablished, server
<1>2. StillWaits
  BY <1>1, RunWaits
<1>3. Arg(l) \in Clients /\ Contains(Rest(l), Establishes(Arg(l)))
  BY <1>1, RunHead
<1> PICK c \in Clients : c = Arg(l)
  BY <1>3
<1>4. state_[c] = "kConnecting"
  BY <1>3 DEF QueueInv, QueueAt, WaitsRight
<1>5. state_'[c] = "kConnected" /\ \A d \in Clients : d # c => state_'[d] = state_[d]
  BY DEF connectEstablished, DataType
<1>6. Serving' <=> Serving
  BY <1>1 DEF Serving
<1>7. LifeAt(c)'
  <2>1. LifeAt(c)
    BY DEF LifeInv
  <2>2. ioLoop[c] \in IoLoops /\ destroyed[c] = 0
    BY <1>4, <2>1 DEF LifeAt
  <2> PICK m \in IoLoops : m = ioLoop[c]
    BY <2>2
  <2>3. Rest(ioLoop[c])' = Rest(m)' /\ Rest(ioLoop[c]) = Rest(m)
    BY <1>1 DEF Rest
  <2>4. \/ c \in connections_ \/ Contains(Rest(ioLoop[c])', Destroys(c))
        \/ pc'[ioLoop[c]] = "done"
    BY <1>1, <1>2, <1>4, <2>1, <2>2, <2>3 DEF LifeAt, StillWaits
  <2> QED BY <1>1, <1>4, <1>5, <1>6, <2>1, <2>2, <2>4 DEF LifeAt
<1>8. ASSUME NEW d \in Clients, d # c PROVE LifeAt(d)'
  BY <1>1, <1>2, <1>5, <1>6, <1>8, LifeKept DEF LifeInv
<1> QED BY <1>7, <1>8 DEF LifeInv

LEMMA LifeDestroyed ==
  ASSUME LoopType, DataType, QueueInv, LifeInv, NEW l \in Loops, connectDestroyed(l)
  PROVE  LifeInv'
<1>1. Run(l, "connectDestroyed") /\ UNCHANGED <<queue, pc, alive, connections_, ioLoop>>
  BY DEF connectDestroyed, server
<1>2. Arg(l) \in Clients /\ Head(Rest(l)) = Destroys(Arg(l)) /\ Contains(Rest(l), Destroys(Arg(l)))
  BY <1>1, RunHead
<1> PICK c \in Clients : c = Arg(l)
  BY <1>2
<1>3. /\ state_[c] # "none" /\ destroyed[c] = 0 /\ c \notin connections_ /\ ioLoop[c] \in IoLoops
  BY <1>2 DEF QueueInv, QueueAt, WaitsRight, LifeInv, LifeAt
<1>4. /\ state_'[c] = "kDisconnected" /\ destroyed'[c] = 1
      /\ \A d \in Clients : d # c => state_'[d] = state_[d] /\ destroyed'[d] = destroyed[d]
  BY <1>3 DEF connectDestroyed, DataType
<1>5. Serving' <=> Serving
  BY <1>1 DEF Serving
<1>6. LifeAt(c)'
  BY <1>1, <1>3, <1>4 DEF LifeAt
<1>7. ASSUME NEW d \in Clients, d # c PROVE LifeAt(d)'
  <2>1. /\ Rest(l) # << >> /\ Rest(l)' = Tail(Rest(l)) /\ Rest(l) \in Seq(Functor)
        /\ \A k \in Loops : k # l => Rest(k)' = Rest(k)
    BY <1>1, RunHead, RestType
  <2>2. Contains(Rest(l), Destroys(d)) => Contains(Rest(l)', Destroys(d))
    BY <1>2, <1>7, <2>1, SeqTail, FunctorsDiffer
  <2>3. LifeAt(d)
    BY DEF LifeInv
  <2>4. state_[d] # "none" => ioLoop[d] \in Loops
    BY <2>3, LoopFacts DEF LifeAt
  <2>5. ASSUME state_[d] # "none", Contains(Rest(ioLoop[d]), Destroys(d))
        PROVE  Contains(Rest(ioLoop[d])', Destroys(d))
    <3> PICK m \in Loops : m = ioLoop[d]
      BY <2>4, <2>5
    <3>1. Rest(ioLoop[d])' = Rest(m)'
      BY <1>1 DEF Rest
    <3> QED BY <2>1, <2>2, <2>5, <3>1
  <2> QED BY <1>1, <1>4, <1>5, <1>7, <2>3, <2>5 DEF LifeAt
<1> QED BY <1>6, <1>7 DEF LifeInv

(* c leaves connections_, and its connectDestroyed is queued.              *)
LEMMA LifeLeaves ==
  ASSUME LoopType, LifeInv, NEW c \in Clients, c \in connections_, NEW m \in Loops, m = ioLoop[c],
         Contains(Rest(m)', Destroys(c)), StillWaits, Serving' => Serving,
         ~Serving' \/ state_[c] = "kDisconnected",
         connections_' = connections_ \ {c}, UNCHANGED <<state_, ioLoop, destroyed, pc>>
  PROVE  LifeInv'
<1>1. LifeAt(c)
  BY DEF LifeInv
<1>2. Rest(ioLoop[c])' = Rest(m)'
  BY DEF Rest
<1>3. LifeAt(c)'
  BY <1>1, <1>2 DEF LifeAt
<1>4. ASSUME NEW d \in Clients, d # c PROVE LifeAt(d)'
  BY <1>4, LifeKept DEF LifeInv
<1> QED BY <1>3, <1>4 DEF LifeInv

LEMMA LifeStep ==
  ASSUME LoopType, DataType, ThreadInv, QueueInv, LifeInv, ClientInv, [Next]_vars
  PROVE  LifeInv'
<1> USE LoopFacts DEF acceptor, server, conns, fds, loops
<1>1. CASE \/ poll \/ testErrno \/ reaccept \/ handled \/ acceptDies \/ leaveLoop \/ destroy
           \/ dtorAcceptor
  <2>1. /\ UNCHANGED <<queue, batch, done, state_, ioLoop, destroyed, connections_>>
        /\ alive' => alive
    BY <1>1 DEF poll, testErrno, reaccept, handled, acceptDies, leaveLoop, destroy, dtorAcceptor
  <2>2. pc[Base] # "dtor" \/ ~alive'
    BY <1>1 DEF poll, testErrno, reaccept, handled, acceptDies, leaveLoop, destroy,
       dtorAcceptor, goto
  <2>3. \A l \in IoLoops : pc'[l] = pc[l]
    BY <1>1 DEF poll, testErrno, reaccept, handled, acceptDies, leaveLoop, destroy,
       dtorAcceptor, goto, LoopType
  <2>4. StillWaits
    BY <2>1, <2>3, RestKept DEF StillWaits
  <2> QED BY <2>1, <2>2, <2>4, LifeQuiet DEF Serving
<1>2. CASE accept
  BY <1>2, LifeAccept
<1>3. ASSUME NEW l \in Loops, doPendingFunctors(l) PROVE LifeInv'
  <2>1. UNCHANGED <<alive, state_, ioLoop, destroyed, connections_>>
    BY <1>3 DEF doPendingFunctors
  <2>2. pc[l] \in {"poll", "swap"} /\ \A k \in Loops : k # l => pc'[k] = pc[k]
    BY <1>3 DEF doPendingFunctors, goto, LoopType
  <2>3. StillWaits
    BY <1>3, <2>2, RestSwap DEF StillWaits
  <2>4. Serving' => Serving
    BY <2>1, <2>2 DEF Serving
  <2> QED BY <2>1, <2>3, <2>4, LifeQuiet
<1>4. ASSUME NEW l \in Loops, functorsDone(l) PROVE LifeInv'
  <2>1. UNCHANGED <<alive, state_, ioLoop, destroyed, connections_>>
    BY <1>4 DEF functorsDone
  <2>2. pc[l] = "functors" /\ \A k \in Loops : k # l => pc'[k] = pc[k]
    BY <1>4 DEF functorsDone, goto, LoopType
  <2>3. StillWaits
    BY <1>4, <2>2, RestDone DEF StillWaits
  <2>4. Serving' => Serving
    BY <2>1, <2>2 DEF Serving
  <2> QED BY <2>1, <2>3, <2>4, LifeQuiet
<1>5. ASSUME NEW l \in Loops, connectEstablished(l) \/ connectDestroyed(l) PROVE LifeInv'
  BY <1>5, LifeEstablished, LifeDestroyed
<1>6. ASSUME NEW c \in Clients, handleClose(c) PROVE LifeInv'
  <2>1. /\ Removes(c) \in Functor /\ queueInLoop(Base, Removes(c)) /\ state_[c] = "kConnected"
        /\ UNCHANGED <<batch, done, pc, alive, connections_, ioLoop, destroyed>>
    BY <1>6, FunctorFacts DEF handleClose, Removes
  <2>2. /\ state_'[c] = "kDisconnected" /\ \A d \in Clients : d # c => state_'[d] = state_[d]
    BY <1>6 DEF handleClose, DataType
  <2>3. StillWaits
    BY <2>1, PushedWaits
  <2>4. Serving' <=> Serving
    BY <2>1 DEF Serving
  <2>5. LifeAt(c)'
    <3>1. LifeAt(c)
      BY DEF LifeInv
    <3>2. ioLoop[c] \in IoLoops
      BY <2>1, <3>1 DEF LifeAt
    <3> PICK m \in IoLoops : m = ioLoop[c]
      BY <3>2
    <3>3. Rest(ioLoop[c])' = Rest(m)' /\ Rest(ioLoop[c]) = Rest(m)
      BY <2>1 DEF Rest
    <3>4. \/ c \in connections_ \/ Contains(Rest(ioLoop[c])', Destroys(c))
          \/ destroyed[c] = 1 \/ pc'[ioLoop[c]] = "done"
      BY <2>1, <2>3, <3>1, <3>3 DEF LifeAt, StillWaits
    <3> QED BY <2>1, <2>2, <3>1, <3>2, <3>4 DEF LifeAt
  <2>6. ASSUME NEW d \in Clients, d # c PROVE LifeAt(d)'
    BY <2>1, <2>2, <2>3, <2>4, <2>6, LifeKept DEF LifeInv
  <2> QED BY <2>5, <2>6 DEF LifeInv
<1>7. CASE removeConnectionInLoop
  <2>1. Run(Base, "remove") /\ ioLoop[Arg(Base)] \in IoLoops /\ Arg(Base) \in Clients
    BY <1>7, HasLoop DEF removeConnectionInLoop
  <2> PICK c \in Clients, m \in IoLoops : c = Arg(Base) /\ m = ioLoop[c]
    BY <2>1
  <2>2. m \in Loops /\ m # Base /\ Destroys(c) \in Functor
    BY FunctorFacts
  <2>3. /\ queueInLoop(m, Destroys(c)) /\ connections_' = connections_ \ {c}
        /\ UNCHANGED <<pc, alive, state_, ioLoop, destroyed>>
    BY <1>7 DEF removeConnectionInLoop, queueDestroyed, Destroys
  <2>4. /\ queue'[m] = Append(queue[m], Destroys(c))
        /\ \A k \in Loops : k # m => queue'[k] = queue[k]
    BY <2>2, <2>3, QueueType
  <2>5. Serving /\ Contains(Rest(Base), Removes(c))
    BY <1>7, <2>1, RunHead DEF removeConnectionInLoop, Run, Serving
  <2>6. c \in connections_ /\ state_[c] = "kDisconnected"
    BY <2>5 DEF QueueInv, QueueAt, WaitsRight
  <2>7. Rest(m)' = Append(Rest(m), Destroys(c)) /\ Rest(m) \in Seq(Functor)
    <3>1. UNCHANGED <<batch[m], done[m]>>
      BY <2>1, <2>2 DEF Run, LoopType
    <3> QED BY <2>2, <2>4, <3>1, RestQueued, RestType
  <2>8. \A g : Contains(Rest(m)', g) <=> Contains(Rest(m), g) \/ g = Destroys(c)
    BY <2>2, <2>7, SeqAppend
  <2>9. \A l \in IoLoops : l # m => Rest(l)' = Rest(l)
    BY <2>1, <2>4, RunHead
  <2>10. StillWaits
    BY <2>3, <2>8, <2>9 DEF StillWaits
  <2> QED BY <2>2, <2>3, <2>5, <2>6, <2>8, <2>10, LifeLeaves
<1>8. CASE listenInLoop \/ runsOnDeadServer
  <2>1. PICK fn \in {"listen", "remove"} : Run(Base, fn)
    BY <1>8 DEF listenInLoop, runsOnDeadServer
  <2>2. /\ UNCHANGED <<queue, alive, state_, ioLoop, destroyed, connections_>>
        /\ \A l \in IoLoops : pc'[l] = pc[l]
    BY <1>8 DEF listenInLoop, runsOnDeadServer, LoopType
  <2>3. StillWaits
    BY <2>1, <2>2, RunHead DEF StillWaits
  <2>4. Serving' => Serving
    BY <2>1, <2>2 DEF Run, Serving
  <2> QED BY <2>2, <2>3, <2>4, LifeQuiet
<1>9. ASSUME NEW c \in Clients, dtorConnection(c) PROVE LifeInv'
  <2>1. c \in connections_ /\ ioLoop[c] \in IoLoops
    BY <1>9, HasLoop DEF dtorConnection
  <2> PICK m \in IoLoops : m = ioLoop[c]
    BY <2>1
  <2>2. m \in Loops /\ Destroys(c) \in Functor
    BY FunctorFacts
  <2>3. /\ queueInLoop(m, Destroys(c)) /\ connections_' = connections_ \ {c}
        /\ UNCHANGED <<batch, done, pc, alive, state_, ioLoop, destroyed>>
    BY <1>9 DEF dtorConnection, queueDestroyed, Destroys
  <2>4. ~Serving'
    BY <1>9, <2>3 DEF dtorConnection, Serving
  <2>5. Contains(Rest(m)', Destroys(c)) /\ StillWaits
    BY <2>2, <2>3, PushedFacts, PushedWaits
  <2> QED BY <2>1, <2>2, <2>3, <2>4, <2>5, LifeLeaves
<1>10. CASE dtorBaseLoop
  <2>1. /\ ~alive /\ queue' = [queue EXCEPT ![Base] = << >>]
        /\ UNCHANGED <<alive, batch, done, state_, ioLoop, destroyed, connections_>>
        /\ \A l \in IoLoops : pc'[l] = pc[l]
    BY <1>10 DEF dtorBaseLoop, goto, LoopType
  <2>2. \A k \in IoLoops : Rest(k)' = Rest(k)
    BY <2>1, RestKept DEF LoopType
  <2>3. StillWaits
    BY <2>1, <2>2 DEF StillWaits
  <2> QED BY <2>1, <2>3, LifeQuiet DEF Serving
<1>11. CASE start
  <2>1. UNCHANGED <<batch, done, alive, connections_, state_, ioLoop, destroyed>>
    BY <1>11 DEF start
  <2>2. \A l \in IoLoops : pc[l] # "done" \/ pc'[l] = pc[l]
    BY <1>11 DEF start, ThreadInv, ThreadAt
  <2>3. pc'[Base] = pc[Base]
    BY <1>11 DEF start, startPool
  <2>4. \A l \in IoLoops : queue'[l] = queue[l]
    BY <1>11 DEF start, queueInLoop, LoopType
  <2>5. \A l \in IoLoops : Rest(l)' = Rest(l)
    BY <2>1, <2>4, RestKept
  <2>6. StillWaits
    BY <2>2, <2>5 DEF StillWaits
  <2> QED BY <2>1, <2>3, <2>6, LifeQuiet DEF Serving
<1>12. ASSUME \/ pollInterrupted \/ otherOpen \/ otherClose \/ UNCHANGED vars
              \/ (\E l \in IoLoops : dtorQuit(l))
              \/ \E c \in Clients : connect(c) \/ withdraw(c)
       PROVE  LifeInv'
  <2>1. UNCHANGED <<queue, batch, done, pc, alive, state_, ioLoop, destroyed, connections_>>
    BY <1>12 DEF pollInterrupted, otherOpen, otherClose, vars, dtorQuit, connect, withdraw
  <2>2. StillWaits
    BY <2>1, RestKept DEF StillWaits
  <2> QED BY <2>1, <2>2, LifeQuiet DEF Serving
<1> QED BY <1>1, <1>2, <1>3, <1>4, <1>5, <1>6, <1>7, <1>8, <1>9, <1>10, <1>11, <1>12
        DEF Next, BaseStep, IoStep

-----------------------------------------------------------------------------
(* The clients.                                                            *)

LEMMA ClientStep ==
  ASSUME LoopType, DataType, ThreadInv, QueueInv, LifeInv, ClientInv, [Next]_vars
  PROVE  ClientInv'
<1> USE LoopFacts DEF acceptor, server, conns, fds, loops
<1>1. ASSUME \/ poll \/ testErrno \/ handled \/ acceptDies \/ leaveLoop \/ destroy
             \/ (\E l \in Loops : doPendingFunctors(l) \/ functorsDone(l))
             \/ removeConnectionInLoop \/ listenInLoop \/ runsOnDeadServer
             \/ (\E c \in Clients : dtorConnection(c)) \/ (\E l \in IoLoops : dtorQuit(l))
             \/ dtorBaseLoop \/ start \/ pollInterrupted \/ otherOpen \/ otherClose
             \/ UNCHANGED vars
      PROVE  ClientInv'
  <2>1. UNCHANGED <<backlog, wanting, state_>>
    BY <1>1 DEF poll, testErrno, handled, acceptDies, leaveLoop, destroy, doPendingFunctors,
       functorsDone, removeConnectionInLoop, listenInLoop, runsOnDeadServer, dtorConnection,
       dtorQuit, dtorBaseLoop, start, pollInterrupted, otherOpen, otherClose, vars
  <2> QED BY <2>1 DEF ClientInv
<1>2. ASSUME backlog # << >>, backlog' = Tail(backlog), wanting' = wanting,
             \A d \in Clients : d # Head(backlog) => state_'[d] = state_[d],
             state_'[Head(backlog)] = state_[Head(backlog)] \/ accept
      PROVE  ClientInv'
  <2>1. backlog \in Seq(Clients) /\ IsInjective(backlog)
    BY DEF DataType, ClientInv
  <2>2. /\ IsInjective(backlog') /\ ~Contains(backlog', Head(backlog))
        /\ \A g : Contains(backlog', g) => Contains(backlog, g)
    BY <1>2, <2>1, SeqTail
  <2>3. Contains(backlog, Head(backlog))
    BY <1>2, <2>1 DEF Contains
  <2>4. Head(backlog) \in Clients
    BY <1>2, <2>1, HeadTailProperties
  <2>5. Head(backlog) \notin wanting
    BY <2>3, <2>4 DEF ClientInv
  <2> QED BY <1>2, <2>2, <2>5 DEF ClientInv
<1>3. CASE accept
  <2>1. CASE UNCHANGED <<backlog, state_>>
    BY <1>3, <2>1 DEF accept, ClientInv
  <2>2. CASE backlog # << >> /\ backlog' = Tail(backlog) /\ newConnection(Head(backlog))
    <3>1. \A d \in Clients : d # Head(backlog) => state_'[d] = state_[d]
      BY <2>2 DEF newConnection, DataType
    <3> QED BY <1>2, <1>3, <2>2, <3>1 DEF accept
  <2> QED BY <1>3, <2>1, <2>2 DEF accept
<1>4. CASE reaccept
  <2>1. UNCHANGED <<wanting, state_>>
    BY <1>4 DEF reaccept
  <2>2. CASE backlog' = backlog
    BY <2>1, <2>2 DEF ClientInv
  <2>3. CASE backlog # << >> /\ backlog' = Tail(backlog)
    BY <1>2, <2>1, <2>3
  <2> QED BY <1>4, <2>2, <2>3 DEF reaccept
<1>5. ASSUME NEW c \in Clients, state_[c] # "none", UNCHANGED <<backlog, wanting>>,
             \A d \in Clients : d # c => state_'[d] = state_[d]
      PROVE  ClientInv'
  BY <1>5 DEF ClientInv
<1>6. ASSUME NEW l \in Loops, connectEstablished(l) PROVE ClientInv'
  <2>1. Arg(l) \in Clients /\ Contains(Rest(l), Establishes(Arg(l)))
    BY <1>6, RunHead DEF connectEstablished
  <2> PICK c \in Clients : c = Arg(l)
    BY <2>1
  <2>2. state_[c] # "none"
    BY <2>1 DEF QueueInv, QueueAt, WaitsRight
  <2>3. UNCHANGED <<backlog, wanting>> /\ \A d \in Clients : d # c => state_'[d] = state_[d]
    BY <1>6 DEF connectEstablished, DataType
  <2> QED BY <1>5, <2>2, <2>3
<1>7. ASSUME NEW l \in Loops, connectDestroyed(l) PROVE ClientInv'
  <2>1. Arg(l) \in Clients /\ Contains(Rest(l), Destroys(Arg(l)))
    BY <1>7, RunHead DEF connectDestroyed
  <2> PICK c \in Clients : c = Arg(l)
    BY <2>1
  <2>2. state_[c] # "none"
    BY <2>1 DEF QueueInv, QueueAt, WaitsRight
  <2>3. UNCHANGED <<backlog, wanting>> /\ \A d \in Clients : d # c => state_'[d] = state_[d]
    BY <1>7 DEF connectDestroyed, DataType
  <2> QED BY <1>5, <2>2, <2>3
<1>8. ASSUME NEW c \in Clients, handleClose(c) PROVE ClientInv'
  <2>1. /\ state_[c] # "none" /\ UNCHANGED <<backlog, wanting>>
        /\ \A d \in Clients : d # c => state_'[d] = state_[d]
    BY <1>8 DEF handleClose, DataType
  <2> QED BY <1>5, <2>1
<1>9. CASE dtorAcceptor
  <2>1. backlog' = << >> /\ UNCHANGED <<wanting, state_>>
    BY <1>9 DEF dtorAcceptor, closeSocket
  <2>2. IsInjective(backlog') /\ \A g : ~Contains(backlog', g)
    BY <2>1 DEF IsInjective, Contains
  <2> QED BY <2>1, <2>2 DEF ClientInv
<1>10. ASSUME NEW c \in Clients, connect(c) PROVE ClientInv'
  <2>1. /\ c \in wanting /\ wanting' = wanting \ {c} /\ backlog' = Append(backlog, c)
        /\ UNCHANGED state_
    BY <1>10 DEF connect
  <2>2. backlog \in Seq(Clients) /\ IsInjective(backlog) /\ ~Contains(backlog, c)
    BY <2>1 DEF DataType, ClientInv
  <2>3. /\ IsInjective(backlog') /\ \A g : Contains(backlog', g) <=> Contains(backlog, g) \/ g = c
    BY <2>1, <2>2, SeqAppend
  <2> QED BY <2>1, <2>3 DEF ClientInv
<1>11. ASSUME NEW c \in Clients, withdraw(c) PROVE ClientInv'
  <2>1. PICK i \in 1..Len(backlog) : backlog' = RemoveAt(backlog, i)
    BY <1>11 DEF withdraw
  <2>2. UNCHANGED <<wanting, state_>>
    BY <1>11 DEF withdraw
  <2>3. backlog \in Seq(Clients) /\ IsInjective(backlog)
    BY DEF DataType, ClientInv
  <2>4. /\ IsInjective(backlog') /\ \A g : Contains(backlog', g) => Contains(backlog, g)
    BY <2>1, <2>3, SeqRemoveAt
  <2> QED BY <2>2, <2>4 DEF ClientInv
<1> QED BY <1>1, <1>3, <1>4, <1>6, <1>7, <1>8, <1>9, <1>10, <1>11 DEF Next, BaseStep, IoStep

-----------------------------------------------------------------------------
(* The descriptors.                                                        *)

Conns == {c \in Clients : Alive(c)}

LEMMA ConnsFinite ==
  /\ IsFiniteSet(Conns) /\ Cardinality(Conns) \in Nat
  /\ \A S \in SUBSET Conns : IsFiniteSet(S) /\ Cardinality(S) <= Cardinality(Conns)
<1>1. Conns \subseteq Clients /\ IsFiniteSet(Clients)
  BY TcpServerAssumption DEF TcpServerAssumption, Conns
<1>2. IsFiniteSet(Conns)
  BY <1>1, FS_Subset
<1>3. ASSUME NEW S \in SUBSET Conns PROVE IsFiniteSet(S) /\ Cardinality(S) <= Cardinality(Conns)
  BY <1>2, FS_Subset
<1> QED BY <1>2, <1>3, FS_CardinalityType

LEMMA UsedType ==
  DataType => /\ Used = Cardinality(Conns) + others + (IF idleFd_ THEN 1 ELSE 0)
              /\ Used \in Nat
<1> HAVE DataType
<1>1. Used = Cardinality(Conns) + others + (IF idleFd_ THEN 1 ELSE 0)
  BY DEF Used, Conns
<1> QED BY <1>1, ConnsFinite DEF DataType

(* A connection that some loop or the server held before is held no more.  *)
LEMMA UsedShrinks ==
  ASSUME DataType, DataType', Conns' \subseteq Conns, others' = others
  PROVE  Used' <= Used - (IF idleFd_ THEN 1 ELSE 0) + (IF idleFd_' THEN 1 ELSE 0)
<1>1. Cardinality(Conns)' <= Cardinality(Conns) /\ Cardinality(Conns)' \in Nat
  <2>1. Conns' \in SUBSET Conns
    OBVIOUS
  <2>2. Cardinality(Conns') <= Cardinality(Conns)
    BY <2>1, ConnsFinite
  <2>3. (Cardinality(Conns) \in Nat)'
    BY ConnsFinite, PTL
  <2> QED BY <2>2, <2>3
<1>2. Used = Cardinality(Conns) + others + (IF idleFd_ THEN 1 ELSE 0) /\ Cardinality(Conns) \in Nat
  BY UsedType, ConnsFinite
<1>3. Used' = Cardinality(Conns)' + others' + (IF idleFd_' THEN 1 ELSE 0)
  BY DEF Used, Conns
<1>4. others \in Nat
  BY DEF DataType
<1> QED BY <1>1, <1>2, <1>3, <1>4

(* The spare descriptor has been given up for a moment.                    *)
Lent == pc[Base] \in {"reaccept", "reopen"}

LEMMA FdKept ==
  ASSUME DataType, DataType', FdInv, Conns' \subseteq Conns, UNCHANGED <<others, idleFd_, stolen>>,
         alive' => alive, Lent' <=> Lent
  PROVE  FdInv'
<1>1. Used' <= Used /\ Used \in Nat /\ Used' \in Nat /\ MaxFds \in Nat
  <2>1. Used' <= Used - (IF idleFd_ THEN 1 ELSE 0) + (IF idleFd_ THEN 1 ELSE 0)
    BY UsedShrinks
  <2>2. Used \in Nat
    BY UsedType
  <2>3. (Used \in Nat)'
    BY UsedType, PTL
  <2> QED BY <2>1, <2>2, <2>3, TcpServerAssumption DEF TcpServerAssumption
<1>2. FdsFree => FdsFree'
  BY <1>1 DEF FdsFree
<1>3. Used' <= MaxFds
  BY <1>1 DEF FdInv
<1> QED BY <1>2, <1>3 DEF FdInv, Lent

(* The functors that loop l keeps alive, those it has run included.        *)
Held(l) == ToSet(queue[l]) \cup ToSet(batch[l])

LEMMA ConnsKept ==
  ASSUME connections_' \subseteq connections_, \A l \in Loops : Held(l)' \subseteq Held(l)
  PROVE  Conns' \subseteq Conns
BY DEF Conns, Alive, Held

LEMMA RestHeld ==
  ASSUME LoopType, NEW l \in Loops, NEW f, Contains(Rest(l), f) PROVE f \in Held(l)
<1> DEFINE b == SubSeq(batch[l], done[l] + 1, Len(batch[l]))
           q == queue[l]
           m == done[l] + 1
           n == Len(batch[l])
<1>1. b \in Seq(Functor) /\ q \in Seq(Functor) /\ m \in Nat /\ n \in Nat /\ batch[l] \in Seq(Functor)
      /\ m >= 1 /\ DOMAIN batch[l] = 1..n /\ DOMAIN q = 1..Len(q)
  BY RestType
<1>2. /\ Len(b) = IF m <= n THEN n - m + 1 ELSE 0
      /\ \A i \in 1..(n - m + 1) : b[i] = batch[l][m + i - 1]
  <2>1. m \in Int /\ n \in Int /\ \A i \in m..n : batch[l][i] \in Functor
    BY <1>1
  <2> QED BY <2>1, SubSeqProperties
<1>3. PICK i \in 1..Len(Rest(l)) : Rest(l)[i] = f
  BY DEF Contains
<1>4. Rest(l) = b \o q
  BY DEF Rest
<1> HIDE DEF b, q, m, n
<1>5. /\ Len(Rest(l)) = Len(b) + Len(q) /\ Len(b) \in Nat /\ Len(q) \in Nat
      /\ f = IF i <= Len(b) THEN b[i] ELSE q[i - Len(b)]
  BY <1>1, <1>3, <1>4, ConcatProperties
<1>6. CASE i <= Len(b)
  <2>1. i \in 1..(n - m + 1) /\ m + i - 1 \in 1..n
    <3>1. CASE m <= n
      BY <1>1, <1>2, <1>3, <1>5, <1>6, <3>1
    <3>2. CASE ~(m <= n)
      <4>1. Len(b) = 0
        BY <1>2, <3>2
      <4> QED BY <1>3, <1>5, <1>6, <4>1
    <3> QED BY <3>1, <3>2
  <2>2. f = batch[l][m + i - 1]
    BY <1>2, <1>5, <1>6, <2>1
  <2> QED BY <1>1, <2>1, <2>2 DEF Held, ToSet
<1>7. CASE ~(i <= Len(b))
  <2>1. i - Len(b) \in 1..Len(q) /\ f = q[i - Len(b)]
    BY <1>3, <1>5, <1>7
  <2> QED BY <1>1, <2>1 DEF Held, ToSet, q
<1> QED BY <1>6, <1>7

LEMMA PushedHeld ==
  ASSUME LoopType, NEW m \in Loops, NEW f \in Functor, queueInLoop(m, f), UNCHANGED batch
  PROVE  \A l \in Loops : Held(l)' \subseteq Held(l) \cup {f}
<1>1. /\ queue'[m] = Append(queue[m], f) /\ queue[m] \in Seq(Functor)
      /\ \A k \in Loops : k # m => queue'[k] = queue[k]
  BY QueueType, RestType
<1>2. ToSet(Append(queue[m], f)) \subseteq ToSet(queue[m]) \cup {f}
  <2> DEFINE s == queue[m]
             n == Len(s)
  <2>1. /\ n \in Nat /\ DOMAIN s = 1..n /\ DOMAIN Append(s, f) = 1..(n + 1)
        /\ Append(s, f)[n + 1] = f /\ \A i \in 1..n : Append(s, f)[i] = s[i]
    BY <1>1, AppendProperties, LenProperties
  <2> HIDE DEF s, n
  <2>2. \A i \in 1..(n + 1) : i \in 1..n \/ i = n + 1
    BY <2>1
  <2>3. ToSet(Append(s, f)) \subseteq ToSet(s) \cup {f}
    BY <2>1, <2>2 DEF ToSet
  <2> QED BY <2>3 DEF s
<1> QED BY <1>1, <1>2 DEF Held

(* A functor that holds c is queued: the set of connections grows by c.    *)
LEMMA PushedConns ==
  ASSUME LoopType, NEW m \in Loops, NEW f \in Functor, queueInLoop(m, f), UNCHANGED batch,
         NEW c \in Clients, \A d \in Clients : Holds(f, d) => d = c,
         connections_' \subseteq connections_ \cup {c}
  PROVE  Conns' \subseteq Conns \cup {c}
<1>1. \A l \in Loops : Held(l)' \subseteq Held(l) \cup {f}
  BY PushedHeld
<1> QED BY <1>1 DEF Conns, Alive, Held

LEMMA HoldsFacts ==
  \A c, d : /\ Holds(Establishes(c), d) <=> d = c
            /\ Holds(Destroys(c), d) <=> d = c
            /\ Holds(Removes(c), d) <=> d = c
            /\ ~Holds([fn |-> "listen"], d)
BY DEF Holds, Establishes, Destroys, Removes

(* The steps that free descriptors, if any.                                *)
LEMMA FdQuiet ==
  ASSUME LoopType, DataType, DataType', ThreadInv, QueueInv, LifeInv, FdInv,
         \/ poll \/ acceptDies \/ leaveLoop \/ destroy \/ reaccept \/ runsOnDeadServer
         \/ (\E l \in Loops : \/ doPendingFunctors(l) \/ functorsDone(l)
                              \/ connectEstablished(l) \/ connectDestroyed(l))
         \/ removeConnectionInLoop \/ listenInLoop \/ dtorBaseLoop \/ start
         \/ (\E c \in Clients : dtorConnection(c) \/ handleClose(c))
         \/ (\E l \in IoLoops : dtorQuit(l)) \/ pollInterrupted \/ UNCHANGED vars
         \/ \E c \in Clients : connect(c) \/ withdraw(c)
  PROVE  FdInv'
<1> USE LoopFacts DEF acceptor, server, conns, fds, loops
<1>1. UNCHANGED <<others, idleFd_, stolen>> /\ alive' = alive
  BY DEF poll, acceptDies, leaveLoop, destroy, reaccept, runsOnDeadServer, doPendingFunctors,
     functorsDone, connectEstablished, connectDestroyed, removeConnectionInLoop, listenInLoop,
     dtorBaseLoop, start, dtorConnection, handleClose, dtorQuit, pollInterrupted, vars, connect,
     withdraw, Run
<1>2. Lent' <=> Lent
  <2>1. CASE poll \/ acceptDies \/ leaveLoop \/ destroy \/ reaccept \/ dtorBaseLoop
    BY <2>1 DEF poll, acceptDies, leaveLoop, destroy, reaccept, dtorBaseLoop, goto, Lent, LoopType
  <2>2. CASE runsOnDeadServer \/ start
    BY <2>2 DEF runsOnDeadServer, Run, start, startPool, Lent, LoopType
  <2>3. ASSUME NEW l \in Loops, doPendingFunctors(l) \/ functorsDone(l) PROVE Lent' <=> Lent
    BY <2>3 DEF doPendingFunctors, functorsDone, goto, Lent, LoopType
  <2>4. CASE UNCHANGED pc
    BY <2>4 DEF Lent
  <2> QED BY <2>1, <2>2, <2>3, <2>4 DEF connectEstablished, connectDestroyed,
             removeConnectionInLoop, listenInLoop, dtorConnection, handleClose, dtorQuit,
             pollInterrupted, vars, connect, withdraw
<1>3. Conns' \subseteq Conns
  <2>1. CASE UNCHANGED <<queue, batch, connections_>>
    BY <2>1, ConnsKept DEF Held
  <2>2. ASSUME NEW l \in Loops, doPendingFunctors(l) \/ functorsDone(l) PROVE Conns' \subseteq Conns
    <3>1. connections_' = connections_
      BY <2>2 DEF doPendingFunctors, functorsDone
    <3>2. ToSet(<< >>) = {}
      BY DEF ToSet
    <3>3. ASSUME NEW k \in Loops PROVE Held(k)' \subseteq Held(k)
      <4>1. /\ queue'[k] = queue[k] \/ queue'[k] = << >>
            /\ batch'[k] = batch[k] \/ batch'[k] = << >> \/ batch'[k] = queue[k]
        BY <2>2 DEF doPendingFunctors, functorsDone, LoopType
      <4> QED BY <3>2, <4>1 DEF Held
    <3> QED BY <3>1, <3>3, ConnsKept
  <2>3. CASE dtorBaseLoop
    <3>1. connections_' = connections_ /\ batch' = batch /\ queue' = [queue EXCEPT ![Base] = << >>]
      BY <2>3 DEF dtorBaseLoop
    <3>2. ToSet(<< >>) = {}
      BY DEF ToSet
    <3>3. \A k \in Loops : Held(k)' \subseteq Held(k)
      BY <3>1, <3>2 DEF Held, LoopType
    <3> QED BY <3>1, <3>3, ConnsKept
  <2>4. ASSUME NEW c \in Clients, NEW m \in Loops, c \in Conns, batch' = batch,
               connections_' \subseteq connections_,
               queueInLoop(m, Destroys(c)) \/ queueInLoop(m, Removes(c))
        PROVE  Conns' \subseteq Conns
    <3>1. Conns' \subseteq Conns \cup {c}
      <4>1. CASE queueInLoop(m, Destroys(c))
        BY <2>4, <4>1, FunctorFacts, HoldsFacts, PushedConns
      <4>2. CASE queueInLoop(m, Removes(c))
        BY <2>4, <4>2, FunctorFacts, HoldsFacts, PushedConns
      <4> QED BY <2>4, <4>1, <4>2
    <3> QED BY <2>4, <3>1
  <2>5. CASE removeConnectionInLoop
    <3>1. Run(Base, "remove") /\ ioLoop[Arg(Base)] \in IoLoops /\ Arg(Base) \in Clients
      BY <2>5, HasLoop DEF removeConnectionInLoop
    <3> PICK c \in Clients, m \in IoLoops : c = Arg(Base) /\ m = ioLoop[c]
      BY <3>1
    <3>2. Removes(c) \in Held(Base)
      BY <3>1, RunHead, RestHeld
    <3>3. c \in Conns
      BY <3>2, HoldsFacts DEF Conns, Alive, Held
    <3>4. queueInLoop(m, Destroys(c)) /\ connections_' \subseteq connections_ /\ batch' = batch
      BY <2>5, <3>1 DEF removeConnectionInLoop, queueDestroyed, Destroys, Run
    <3> QED BY <2>4, <3>3, <3>4
  <2>6. ASSUME NEW c \in Clients, dtorConnection(c) PROVE Conns' \subseteq Conns
    <3>1. c \in Conns /\ ioLoop[c] \in IoLoops
      BY <2>6, HasLoop DEF dtorConnection, Conns, Alive
    <3> PICK m \in IoLoops : m = ioLoop[c]
      BY <3>1
    <3>2. queueInLoop(m, Destroys(c)) /\ connections_' \subseteq connections_ /\ batch' = batch
      BY <2>6 DEF dtorConnection, queueDestroyed, Destroys
    <3> QED BY <2>4, <3>1, <3>2
  <2>7. ASSUME NEW c \in Clients, handleClose(c) PROVE Conns' \subseteq Conns
    <3>1. /\ queueInLoop(Base, Removes(c)) /\ UNCHANGED <<connections_, batch>>
          /\ state_[c] = "kConnected" /\ pc[ioLoop[c]] = "poll"
      BY <2>7 DEF handleClose, Removes
    <3>2. /\ ioLoop[c] \in IoLoops
          /\ c \in connections_ \/ Contains(Rest(ioLoop[c]), Destroys(c))
      BY <3>1 DEF LifeInv, LifeAt
    <3>3. c \in connections_ \/ Destroys(c) \in Held(ioLoop[c])
      BY <3>2, RestHeld
    <3>4. c \in Conns
      BY <3>2, <3>3, HoldsFacts DEF Conns, Alive, Held
    <3> QED BY <2>4, <3>1, <3>4
  <2>8. CASE start
    <3>1. batch' = batch /\ connections_' = connections_
      BY <2>8 DEF start
    <3>2. CASE queueInLoop(Base, [fn |-> "listen"])
      <4>1. \A l \in Loops : Held(l)' \subseteq Held(l) \cup {[fn |-> "listen"]}
        BY <3>1, <3>2, FunctorFacts, PushedHeld
      <4> QED BY <3>1, <4>1, HoldsFacts DEF Conns, Alive, Held
    <3>3. CASE UNCHANGED queue
      BY <2>1, <3>1, <3>3
    <3> QED BY <2>8, <3>2, <3>3 DEF start
  <2> QED BY <2>1, <2>2, <2>3, <2>5, <2>6, <2>7, <2>8 DEF poll, acceptDies, leaveLoop, destroy,
             reaccept, runsOnDeadServer, connectEstablished, connectDestroyed, listenInLoop,
             dtorQuit, pollInterrupted, vars, connect, withdraw, Run
<1> QED BY <1>1, <1>2, <1>3, FdKept

LEMMA FdStep ==
  ASSUME LoopType, DataType, DataType', ThreadInv, QueueInv, LifeInv, FdInv, [Next]_vars
  PROVE  FdInv'
<1> USE LoopFacts DEF acceptor, server, conns, fds, loops
<1>0. /\ Used \in Nat /\ Used = Cardinality(Conns) + others + (IF idleFd_ THEN 1 ELSE 0)
      /\ Cardinality(Conns) \in Nat /\ others \in Nat /\ MaxFds \in Nat /\ Used <= MaxFds
  BY UsedType, ConnsFinite, TcpServerAssumption DEF TcpServerAssumption, DataType, FdInv
<1>1. (Used \in Nat)'
  BY UsedType, PTL
<1>2. Used' = Cardinality(Conns)' + others' + (IF idleFd_' THEN 1 ELSE 0)
  BY DEF Used, Conns
<1>3. ASSUME UNCHANGED <<queue, batch, connections_>> PROVE Conns' = Conns
  BY <1>3 DEF Conns, Alive
<1>4. CASE accept
  <2>1. /\ pc[Base] = "accept" /\ alive /\ alive' /\ UNCHANGED <<others, idleFd_, stolen, batch>>
        /\ goto(Base, {"accept"}, "errno")
    BY <1>4 DEF accept, goto, ThreadInv, ServerInv
  <2>2. pc'[Base] = "errno"
    BY <2>1, GotoType DEF BasePcs
  <2>3. CASE UNCHANGED <<queue, connections_>>
    <3>1. Conns' \subseteq Conns /\ (Lent' <=> Lent)
      BY <1>3, <2>1, <2>2, <2>3 DEF Lent
    <3> QED BY <2>1, <3>1, FdKept
  <2>4. CASE FdsFree /\ backlog # << >> /\ newConnection(Head(backlog))
    <3>1. Head(backlog) \in Clients /\ next_ + 1 \in Loops
      BY <2>4, HeadTailProperties, NextLoop DEF DataType
    <3> PICK c \in Clients, m \in Loops : c = Head(backlog) /\ m = next_ + 1
      BY <3>1
    <3>2. queueInLoop(m, Establishes(c)) /\ connections_' = connections_ \cup {c}
      BY <2>4 DEF newConnection, Establishes
    <3>3. Conns' \subseteq Conns \cup {c}
      BY <2>1, <3>2, FunctorFacts, HoldsFacts, PushedConns
    <3>4. Cardinality(Conns') <= Cardinality(Conns) + 1 /\ Cardinality(Conns') \in Nat
      <4>1. IsFiniteSet(Conns)
        BY ConnsFinite
      <4>2. /\ IsFiniteSet(Conns \cup {c})
            /\ Cardinality(Conns \cup {c}) \in {Cardinality(Conns), Cardinality(Conns) + 1}
        BY <4>1, FS_AddElement
      <4>3. IsFiniteSet(Conns') /\ Cardinality(Conns') <= Cardinality(Conns \cup {c})
        <5>1. Conns' \in SUBSET (Conns \cup {c})
          BY <3>3
        <5> QED BY <4>2, <5>1, FS_Subset
      <4>4. Cardinality(Conns') \in Nat
        BY <4>3, FS_CardinalityType
      <4> QED BY <1>0, <4>2, <4>3, <4>4
    <3>5. Used' <= MaxFds
      <4>1. Used < MaxFds
        BY <2>4 DEF FdsFree
      <4>2. Used' <= Used + 1
        BY <1>0, <1>2, <2>1, <3>4
      <4> QED BY <1>0, <1>1, <4>1, <4>2
    <3>6. idleFd_ \/ stolen
      BY <2>1 DEF FdInv
    <3> QED BY <2>1, <2>2, <3>5, <3>6 DEF FdInv
  <2> QED BY <1>4, <2>3, <2>4 DEF accept
<1>5. CASE testErrno
  <2>1. /\ pc[Base] = "errno" /\ alive /\ alive' /\ UNCHANGED <<others, stolen>> /\ Conns' = Conns
    BY <1>3, <1>5 DEF testErrno, goto, ThreadInv, ServerInv
  <2>2. idleFd_ \/ stolen
    BY <2>1 DEF FdInv
  <2>3. CASE OutOfFds
    <3>1. pc'[Base] = "reaccept" /\ ~idleFd_'
      BY <1>5, <2>3, GotoType DEF testErrno, BasePcs
    <3>2. Used' <= Used - (IF idleFd_ THEN 1 ELSE 0)
      BY <1>0, <1>2, <2>1, <3>1
    <3>3. Used' <= MaxFds
      BY <1>0, <1>1, <3>2
    <3>4. idleFd_ => FdsFree'
      BY <1>0, <1>1, <3>2 DEF FdsFree
    <3> QED BY <2>1, <2>2, <3>1, <3>3, <3>4 DEF FdInv
  <2>4. CASE ~OutOfFds
    <3>1. pc'[Base] = "swap" /\ UNCHANGED idleFd_
      BY <1>5, <2>4, GotoType DEF testErrno, BasePcs
    <3>2. Lent' <=> Lent
      BY <2>1, <3>1 DEF Lent
    <3> QED BY <2>1, <3>1, <3>2, FdKept
  <2> QED BY <2>3, <2>4
<1>6. CASE handled
  <2>1. /\ pc[Base] = "reopen" /\ alive /\ alive' /\ UNCHANGED <<others, stolen>> /\ Conns' = Conns
        /\ idleFd_' = FdsFree
    BY <1>3, <1>6 DEF handled, reopen, goto, ThreadInv, ServerInv
  <2>2. pc'[Base] = "swap"
    BY <1>6, GotoType DEF handled, BasePcs
  <2>3. ~idleFd_ /\ (FdsFree \/ stolen)
    BY <2>1 DEF FdInv
  <2>4. Used' = Used + (IF FdsFree THEN 1 ELSE 0)
    BY <1>0, <1>2, <2>1, <2>3
  <2>5. Used' <= MaxFds
    BY <1>0, <1>1, <2>4 DEF FdsFree
  <2> QED BY <2>1, <2>2, <2>3, <2>5 DEF FdInv
<1>7. CASE otherOpen
  <2>1. /\ FdsFree /\ others' = others + 1 /\ UNCHANGED <<pc, idleFd_, alive>> /\ Conns' = Conns
        /\ stolen' = (stolen \/ pc[Base] \in {"reaccept", "reopen"})
    BY <1>3, <1>7 DEF otherOpen
  <2>2. Used' = Used + 1
    BY <1>0, <1>2, <2>1
  <2>3. Used' <= MaxFds
    BY <1>0, <2>1, <2>2 DEF FdsFree
  <2> QED BY <2>1, <2>3 DEF FdInv
<1>8. CASE otherClose
  <2>1. /\ others > 0 /\ others' = others - 1 /\ UNCHANGED <<pc, idleFd_, alive, stolen>>
        /\ Conns' = Conns
    BY <1>3, <1>8 DEF otherClose
  <2>2. Used' = Used - 1
    BY <1>0, <1>2, <2>1
  <2>3. Used' <= MaxFds /\ FdsFree'
    BY <1>0, <2>2 DEF FdsFree
  <2> QED BY <2>1, <2>3 DEF FdInv
<1>9. CASE dtorAcceptor
  <2>1. ~alive' /\ ~idleFd_' /\ UNCHANGED others /\ Conns' = Conns
    BY <1>3, <1>9 DEF dtorAcceptor, closeSpare
  <2>2. Used' <= Used
    BY <1>0, <1>2, <2>1
  <2>3. Used' <= MaxFds
    BY <1>0, <1>1, <2>2
  <2> QED BY <2>1, <2>3 DEF FdInv
<1> QED BY <1>4, <1>5, <1>6, <1>7, <1>8, <1>9, FdQuiet DEF Next, BaseStep, IoStep

-----------------------------------------------------------------------------
(* The theorems.                                                           *)

LEMMA ConnsInit == ASSUME Init PROVE Conns = {}
BY DEF Init, Conns, Alive, ToSet

LEMMA RestInit == ASSUME Init, NEW l \in Loops PROVE Rest(l) = << >>
<1>1. batch[l] = << >> /\ queue[l] = << >> /\ done[l] = 0 /\ Len(batch[l]) = 0
  BY DEF Init
<1>2. SubSeq(batch[l], done[l] + 1, Len(batch[l])) = << >>
  BY <1>1, SubSeqEmpty
<1>3. << >> \in Seq(Functor)
  OBVIOUS
<1> QED BY <1>1, <1>2, <1>3, ConcatEmptySeq DEF Rest

(* The inductive invariant of the server.                                  *)
ServInv == LoopType /\ DataType /\ ThreadInv /\ QueueInv /\ LifeInv /\ ClientInv /\ FdInv

LEMMA ServInit == Init => ServInv
<1> SUFFICES ASSUME Init PROVE ServInv
  OBVIOUS
<1> USE LoopFacts
<1>1. LoopType
  <2>1. << >> \in Seq(Functor) /\ Len(<< >>) = 0
    OBVIOUS
  <2> QED BY <2>1 DEF Init, LoopType, BasePcs, IoPcs
<1>2. DataType
  <2>1. << >> \in Seq(Clients) /\ NumThreads \in Nat \ {0} /\ MaxOthers \in Nat
    BY TcpServerAssumption DEF TcpServerAssumption
  <2>2. 0 \in 0..(NumThreads - 1) /\ 0 \in 0..NumThreads /\ 0 \in 0..MaxOthers
    BY <2>1
  <2> QED BY <2>1, <2>2 DEF Init, newAcceptor, DataType, States
<1>3. ThreadInv
  BY DEF Init, newAcceptor, ThreadInv, ThreadAt, ServerInv, Idle
<1>4. QueueInv
  <2>1. ASSUME NEW l \in Loops PROVE QueueAt(l)
    <3>1. Rest(l) = << >>
      BY RestInit
    <3>2. IsInjective(<< >>) /\ (\A g : ~Contains(<< >>, g)) /\ \A g, h : InOrder(<< >>, g, h)
      BY DEF IsInjective, Contains, InOrder
    <3> QED BY <3>1, <3>2 DEF QueueAt, WaitsRight
  <2> QED BY <2>1 DEF QueueInv
<1>5. LifeInv
  BY DEF Init, LifeInv, LifeAt
<1>6. ClientInv
  <2>1. backlog = << >> /\ IsInjective(<< >>) /\ \A g : ~Contains(<< >>, g)
    BY DEF Init, newAcceptor, IsInjective, Contains
  <2> QED BY <2>1 DEF ClientInv, Init
<1>7. FdInv
  <2>1. Cardinality(Conns) = 0
    BY ConnsInit, FS_EmptySet
  <2>2. Used = 1
    BY <2>1 DEF Used, Conns, Init, newAcceptor
  <2>3. Used <= MaxFds
    BY <2>2, TcpServerAssumption DEF TcpServerAssumption
  <2>4. idleFd_ /\ pc[Base] = "poll"
    BY DEF Init, newAcceptor
  <2> QED BY <2>3, <2>4 DEF FdInv
<1> QED BY <1>1, <1>2, <1>3, <1>4, <1>5, <1>6, <1>7 DEF ServInv

LEMMA ServStep == ServInv /\ [Next]_vars => ServInv'
<1> SUFFICES ASSUME ServInv, [Next]_vars PROVE ServInv'
  OBVIOUS
<1> USE DEF ServInv
<1>1. LoopType' /\ DataType'
  BY LoopStep, DataStep
<1>2. ThreadInv' /\ QueueInv'
  BY ThreadStep, QueueStep
<1>3. LifeInv' /\ ClientInv'
  BY LifeStep, ClientStep
<1>4. FdInv'
  BY <1>1, FdStep
<1> QED BY <1>1, <1>2, <1>3, <1>4

(* The server's threads, queues, connections, clients and descriptors keep *)
(* to the inductive invariant.                                             *)
THEOREM ServerSafe == Spec => []ServInv
BY ServInit, ServStep, PTL DEF Spec

(* The variables of the server keep their types, and no loop runs more     *)
(* functors than it has.                                                   *)
THEOREM TypeSafe == Spec => []TypeOK
<1>1. ServInv => TypeOK
  <2>1. ASSUME ServInv, NEW l \in Loops PROVE done[l] \in 0..Len(batch[l])
    BY <2>1, RestType DEF ServInv, LoopType
  <2> QED BY <2>1 DEF ServInv, LoopType, DataType, TypeOK
<1> QED BY <1>1, ServerSafe, PTL

(* The acceptor (Acceptor.cc:63-66) waits for clients with its spare       *)
(* descriptor, unless other code took the place it had given up.           *)
THEOREM SpareSafe == Spec => []SpareKept
<1>1. ServInv => SpareKept
  BY DEF ServInv, FdInv, SpareKept
<1> QED BY <1>1, ServerSafe, PTL

(* connectDestroyed (TcpServer.cc:29-34, 79-88) runs at most once for each *)
(* connection, and no connection vanishes without it unless its loop quit. *)
THEOREM DestroyedSafe == Spec => []DestroyedOnce
<1>1. ServInv => DestroyedOnce
  <2> SUFFICES ASSUME ServInv, NEW c \in Clients
               PROVE  /\ destroyed[c] <= 1
                      /\ state_[c] # "none" /\ ~Alive(c)
                           => destroyed[c] = 1 \/ pc[ioLoop[c]] = "done"
    BY DEF DestroyedOnce
  <2>1. LifeAt(c) /\ LoopType
    BY DEF ServInv, LifeInv
  <2>2. destroyed[c] <= 1
    BY <2>1 DEF LifeAt
  <2>3. ASSUME state_[c] # "none", ~Alive(c), destroyed[c] # 1
        PROVE  pc[ioLoop[c]] = "done"
    <3>1. ioLoop[c] \in Loops /\ c \notin connections_
      BY <2>1, <2>3, LoopFacts DEF LifeAt, Alive
    <3>2. ~Contains(Rest(ioLoop[c]), Destroys(c))
      <4> SUFFICES ASSUME Contains(Rest(ioLoop[c]), Destroys(c)) PROVE FALSE
        OBVIOUS
      <4>1. Destroys(c) \in Held(ioLoop[c])
        BY <2>1, <3>1, RestHeld
      <4> QED BY <2>3, <3>1, <4>1, HoldsFacts DEF Alive, Held
    <3> QED BY <2>1, <2>3, <3>1, <3>2 DEF LifeAt
  <2> QED BY <2>2, <2>3
<1> QED BY <1>1, ServerSafe, PTL

(* When the server and the base loop are gone (TcpServer.h:67-79) all of   *)
(* their descriptors are closed.                                           *)
THEOREM ReleaseSafe == Spec => []AllReleased
<1>1. ServInv => AllReleased
  <2> SUFFICES ASSUME ServInv, pc[Base] = "gone" PROVE Used = others
    BY DEF AllReleased
  <2>1. LoopType /\ DataType /\ ThreadInv
    BY DEF ServInv
  <2>2. ~alive /\ queue[Base] = << >> /\ connections_ = {} /\ ~idleFd_
    BY <2>1 DEF ThreadInv, ServerInv
  <2>3. \A l \in Loops : queue[l] = << >>
    BY <2>1, <2>2, LoopFacts DEF ThreadInv, ThreadAt, Idle
  <2>4. \A l \in Loops : batch[l] = << >>
    BY <2>1, <2>2, LoopFacts DEF ThreadInv, ThreadAt, LoopType
  <2>5. ToSet(<< >>) = {}
    BY DEF ToSet
  <2>6. Conns = {}
    BY <2>2, <2>3, <2>4, <2>5 DEF Conns, Alive
  <2>7. Cardinality(Conns) = 0
    BY <2>6, FS_EmptySet
  <2> QED BY <2>1, <2>2, <2>7, UsedType DEF DataType
<1> QED BY <1>1, ServerSafe, PTL
=============================================================================
