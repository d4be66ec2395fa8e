------------------------- MODULE TcpConnectionProofs -------------------------
(***************************************************************************)
(* One connection, for any number of users, messages and calls: the        *)
(* channel's index_ agrees with epoll's interest list, output stays in     *)
(* order, one close, no use of a destroyed object but by the three races   *)
(* the model names, and the refinement of BytePipe.                        *)
(***************************************************************************)
EXTENDS TcpConnection, SequenceTheorems, TLAPS

(* Consistent(c): index_ is kAdded exactly when the kernel knows the       *)
(* channel, and no epoll_ctl has failed so far.                            *)
Consistent(c) ==
  /\ c \in ChannelType /\ c.failed = FALSE
  /\ c.index_ = kAdded <=> Registered(c)

(* EpollPoller::updateChannel keeps the agreement, from every state of the *)
(* channel and for every new set of events.                                *)
LEMMA UpdateConsistent ==
  ASSUME NEW c \in ChannelType, Consistent(c), NEW evs \in SUBSET {"read", "write"}
  PROVE  Consistent(set_events(c, evs))
<1> USE ChannelAssumption DEF ChannelAssumption
<1> DEFINE d == [events_ |-> evs, index_ |-> c.index_, interest |-> c.interest,
                 failed |-> c.failed]
<1>1. d \in ChannelType /\ Consistent(d)
  BY DEF Consistent, ChannelType, Registered
<1> SUFFICES Consistent(updateChannel(d))
  BY DEF set_events
<1> HIDE DEF d
<1>2. CASE d.index_ \in {kNew, kDeleted}
  BY <1>1, <1>2 DEF Consistent, updateChannel, epoll_ctl, Registered, ChannelType
<1>3. CASE d.index_ = kAdded
  BY <1>1, <1>3 DEF Consistent, updateChannel, epoll_ctl, Registered, ChannelType
<1> QED BY <1>1, <1>2, <1>3 DEF ChannelType

(* EpollPoller::removeChannel keeps it too.                                *)
LEMMA RemoveConsistent ==
  ASSUME NEW c \in ChannelType, Consistent(c)
  PROVE  Consistent(removeChannel(c))
<1> USE ChannelAssumption DEF ChannelAssumption
<1> QED BY DEF Consistent, removeChannel, epoll_ctl, set_index, Registered, ChannelType

(* The operations of Channel keep it.                                      *)
LEMMA OperationsConsistent ==
  ASSUME NEW c, Consistent(c)
  PROVE  /\ Consistent(enableReading(c)) /\ Consistent(disableReading(c))
         /\ Consistent(enableWriting(c)) /\ Consistent(disableWriting(c))
         /\ Consistent(disableAll(c)) /\ Consistent(removeChannel(c))
<1>1. c \in ChannelType
  BY DEF Consistent
<1>2. c.events_ \in SUBSET {"read", "write"}
  BY <1>1 DEF ChannelType
<1>3. Consistent(enableReading(c))
  BY <1>1, <1>2, UpdateConsistent DEF enableReading
<1>4. Consistent(disableReading(c))
  BY <1>1, <1>2, UpdateConsistent DEF disableReading
<1>5. Consistent(enableWriting(c))
  BY <1>1, <1>2, UpdateConsistent DEF enableWriting
<1>6. Consistent(disableWriting(c))
  BY <1>1, <1>2, UpdateConsistent DEF disableWriting
<1>7. Consistent(disableAll(c))
  BY <1>1, UpdateConsistent DEF disableAll
<1> QED BY <1>1, <1>3, <1>4, <1>5, <1>6, <1>7, RemoveConsistent

(* What a step may do to the channel: nothing, or one of its operations.   *)
ChannelStep ==
  channel_' \in {channel_, enableReading(channel_), disableReading(channel_),
                 enableWriting(channel_), disableWriting(channel_), disableAll(channel_),
                 removeChannel(channel_), removeChannel(disableAll(channel_))}

(* Every action of the connection, of its users and of the loops changes   *)
(* the channel through the channel's operations only.                      *)
LEMMA NextIsChannelStep == [Next]_vars => ChannelStep
<1> USE DEF ChannelStep
<1> SUFFICES ASSUME [Next]_vars PROVE ChannelStep
  OBVIOUS
<1>1. ASSUME NEW op, InLoop(op) PROVE ChannelStep
  BY <1>1 DEF InLoop, sendInLoop, startReadInLoop, stopReadInLoop
<1>2. ASSUME handleClose \/ NotClosed PROVE ChannelStep
  BY <1>2 DEF handleClose, closeChannel, NotClosed
<1>3. CASE handleRead
  BY <1>2, <1>3 DEF handleRead
<1>4. CASE handleWrite
  BY <1>4 DEF handleWrite, Drained
<1>5. CASE runInLoop
  BY <1>1, <1>5 DEF runInLoop
<1>6. CASE forceCloseInLoop
  BY <1>2, <1>6 DEF forceCloseInLoop
<1>7. CASE connectEstablished \/ connectDestroyed
  BY <1>7 DEF connectEstablished, connectDestroyed
<1>8. CASE \/ doPendingFunctors \/ functorsDone \/ peerStep \/ removeConnectionInLoop
           \/ delayedForceClose \/ (\E rev \in Events : poll(rev))
  BY <1>8 DEF doPendingFunctors, functorsDone, peerStep, removeConnectionInLoop,
              delayedForceClose, poll, conn
<1>9. CASE \E u \in Users : userSetState(u) \/ userQueue(u) \/ release(u)
  BY <1>9 DEF userSetState, userQueue, release, conn
<1>10. CASE \/ \E u \in Users, op \in Ops : userCheck(u, op)
            \/ \E u \in Users, m \in Messages : userSendBuffer(u, m)
  BY <1>10 DEF userCheck, userSendBuffer, conn
<1>11. CASE \E op \in Ops : loopCall(op)
  BY <1>1, <1>11 DEF loopCall
<1>12. CASE UNCHANGED vars
  BY <1>12 DEF vars, conn
<1> QED BY <1>3, <1>4, <1>5, <1>6, <1>7, <1>8, <1>9, <1>10, <1>11, <1>12 DEF Next, IoStep

(* No interleaving of the close, the removal and the users' calls makes    *)
(* epoll_ctl fail (EpollPoller::update would abort): index_ and the        *)
(* kernel's interest list agree in every reachable state.                  *)
THEOREM EpollSafe == Spec => []EpollNeverFails
<1>1. Init => Consistent(channel_)
  BY ChannelAssumption DEF ChannelAssumption, Init, newChannel, Consistent, ChannelType,
                           Registered
<1>2. Consistent(channel_) /\ [Next]_vars => Consistent(channel_)'
  <2> SUFFICES ASSUME Consistent(channel_), [Next]_vars PROVE Consistent(channel_')
    BY DEF Consistent, Registered, ChannelType
  <2>1. ChannelStep
    BY NextIsChannelStep
  <2>2. Consistent(disableAll(channel_))
    BY OperationsConsistent
  <2> QED BY <2>1, <2>2, OperationsConsistent DEF ChannelStep
<1>3. Consistent(channel_) => EpollNeverFails
  BY DEF Consistent, EpollNeverFails
<1> QED BY <1>1, <1>2, <1>3, PTL DEF Spec

-----------------------------------------------------------------------------
(* The invariants behind the connection's other properties.                *)

Bytes == Messages \X {1, 2}

Functor == Ops \cup {[fn |-> "connectEstablished"], [fn |-> "connectDestroyed"]}

(* Types; the channel's entry in the interest list, if any, has its        *)
(* events; a batch exists only while functors are run.                     *)
ConnType ==
  /\ state_ \in States /\ Consistent(channel_)
  /\ channel_.interest \subseteq {channel_.events_}
  /\ pc \in {"poll", "dispatch", "guarded", "swap", "functors"}
  /\ pendingFunctors_ \in Seq(Functor) /\ batch \in Seq(Functor)
  /\ done \in 0..Len(batch) /\ (pc # "functors" => batch = << >>)
  /\ inMap \in BOOLEAN /\ baseQueue \in Nat /\ closes \in Nat
  /\ wrShut \in BOOLEAN /\ brokenWrite \in BOOLEAN /\ delayed \in BOOLEAN
  /\ upc \in [Users -> [op : Ops \cup {[fn |-> "idle"]}, set : BOOLEAN]]
  /\ revived \in BOOLEAN /\ late \in BOOLEAN /\ stale \in BOOLEAN

OutputType ==
  /\ wire \in Seq(Bytes) /\ outputBuffer_ \in Seq(Bytes) /\ sent \in Seq(Bytes)

(* A functor with one of these names is queued, or in the batch and not    *)
(* run yet.                                                                *)
Waiting(fns) == \/ \E i \in 1..Len(pendingFunctors_) : pendingFunctors_[i].fn \in fns
                \/ \E i \in (done + 1)..Len(batch) : batch[i].fn \in fns

(* Before connectEstablished nothing else can happen to the connection.    *)
Fresh ==
  state_ = "kConnecting" =>
    /\ held = {} /\ (\A u \in Users : upc[u] = idle) /\ ~delayed /\ ~wrShut
    /\ channel_.events_ = {} /\ outputBuffer_ = << >> /\ closes = 0
    /\ \/ /\ pendingFunctors_ = <<[fn |-> "connectEstablished"]>> /\ pc = "poll"
       \/ /\ pendingFunctors_ = << >> /\ pc = "functors" /\ done = 0
          /\ batch = <<[fn |-> "connectEstablished"]>>

Established == state_ # "kConnecting" => ~Waiting({"connectEstablished"})

(* Until the close the server keeps the connection, and no removal is on   *)
(* its way.                                                                *)
OpenInv == /\ closes = 0 => inMap /\ baseQueue = 0 /\ ~Waiting({"connectDestroyed"})
           /\ state_ = "kConnected" => closes = 0

(* After it, unless a race of setState or startRead undid it, the channel  *)
(* is silent, and connectDestroyed is to come or has run.                  *)
ClosedInv ==
  closes > 0 /\ ~revived /\ ~late =>
    /\ closes = 1 /\ state_ = "kDisconnected" /\ channel_.events_ = {} /\ pc # "dispatch"
    /\ inMap \/ Waiting({"connectDestroyed"}) \/ ~Registered(channel_)

(* Functors bound to the raw this, and those that keep the object alive.   *)
Raw(f)       == f.fn \notin Strong
Destroyer(f) == f.fn = "connectDestroyed"

(* Once the server has removed the connection, each functor bound to the   *)
(* raw this has a connectDestroyed behind it.                              *)
RawInv ==
  ~stale /\ ~inMap =>
    /\ \A i \in 1..Len(pendingFunctors_) : Raw(pendingFunctors_[i]) =>
         \E j \in (i + 1)..Len(pendingFunctors_) : Destroyer(pendingFunctors_[j])
    /\ \A i \in (done + 1)..Len(batch) : Raw(batch[i]) =>
         \/ \E j \in (i + 1)..Len(batch) : Destroyer(batch[j])
         \/ \E j \in 1..Len(pendingFunctors_) : Destroyer(pendingFunctors_[j])

(* With user code on the I/O loop only, nothing but functors of the server *)
(* and forceClose is queued, and a connection that has sent its FIN does   *)
(* not write again.                                                        *)
OnLoop == Users \subseteq {LoopUser}

PipeInv ==
  OnLoop =>
    /\ \A u \in Users : upc[u] = idle
    /\ ~Waiting({"send", "shutdown"} \cup Reads)
    /\ wrShut => state_ # "kConnected" /\ ~isWriting(channel_)

(* What the operations do to the events and to the interest list.          *)
LEMMA ChannelEvents ==
  ASSUME NEW c, Consistent(c), c.interest \subseteq {c.events_}
  PROVE  /\ enableReading(c).events_ = c.events_ \cup {"read"}
         /\ disableReading(c).events_ = c.events_ \ {"read"}
         /\ enableWriting(c).events_ = c.events_ \cup {"write"}
         /\ disableWriting(c).events_ = c.events_ \ {"write"}
         /\ disableAll(c).events_ = {}
         /\ removeChannel(c).events_ = c.events_ /\ removeChannel(c).interest = {}
         /\ \A d \in {enableReading(c), disableReading(c), enableWriting(c),
                      disableWriting(c), disableAll(c), removeChannel(c)} :
              d.interest \subseteq {d.events_}
<1>1. c \in ChannelType
  BY DEF Consistent
<1>2. ASSUME NEW evs PROVE /\ set_events(c, evs).events_ = evs
                           /\ set_events(c, evs).interest \subseteq {evs}
  BY <1>1 DEF set_events, updateChannel, epoll_ctl, ChannelType
<1>3. removeChannel(c).events_ = c.events_ /\ removeChannel(c).interest = {}
  BY <1>1 DEF removeChannel, epoll_ctl, set_index, Consistent, Registered, ChannelType
<1> QED BY <1>2, <1>3 DEF enableReading, disableReading, enableWriting, disableWriting,
                          disableAll

(* Every step leaves the channel consistent, and its entry with its events.*)
LEMMA ChannelKept ==
  ASSUME Consistent(channel_), channel_.interest \subseteq {channel_.events_}, [Next]_vars
  PROVE  Consistent(channel_') /\ channel_'.interest \subseteq {channel_'.events_}
<1>1. ChannelStep
  BY NextIsChannelStep
<1>2. /\ Consistent(disableAll(channel_))
      /\ disableAll(channel_).interest \subseteq {disableAll(channel_).events_}
  BY OperationsConsistent, ChannelEvents
<1>3. /\ Consistent(removeChannel(disableAll(channel_)))
      /\ LET d == removeChannel(disableAll(channel_)) IN d.interest \subseteq {d.events_}
  BY <1>2, OperationsConsistent, ChannelEvents
<1> QED BY <1>1, <1>3, OperationsConsistent, ChannelEvents DEF ChannelStep

LEMMA ConnTypeStep == ConnType /\ [Next]_vars => ConnType'
<1> SUFFICES ASSUME ConnType, [Next]_vars PROVE ConnType'
  OBVIOUS
<1>1. Consistent(channel_') /\ channel_'.interest \subseteq {channel_'.events_}
  BY ChannelKept DEF ConnType
<1>2. Consistent(channel_)' /\ (channel_.interest \subseteq {channel_.events_})'
  BY <1>1 DEF Consistent, Registered, ChannelType
<1>3. ASSUME NEW f \in Functor, queueInLoop(f) PROVE pendingFunctors_' \in Seq(Functor)
  BY <1>3 DEF ConnType, queueInLoop
<1>0. [fn |-> "connectDestroyed"] \in Functor /\ [fn |-> "forceClose"] \in Functor
  BY DEF Functor, Ops, Setters
<1>4. ASSUME handleClose PROVE /\ state_' \in States /\ closes' \in Nat
                               /\ inMap' \in BOOLEAN /\ baseQueue' \in Nat
                               /\ pendingFunctors_' \in Seq(Functor)
  <2>1. state_' \in States /\ closes' \in Nat
    BY <1>4 DEF handleClose, ConnType, States
  <2>2. CASE baseIsIo
    BY <1>0, <1>3, <1>4, <2>1, <2>2 DEF handleClose, removeConnection, erase, queueDestroyed,
       ConnType
  <2>3. CASE ~baseIsIo
    BY <1>4, <2>1, <2>3 DEF handleClose, removeConnection, ConnType
  <2> QED BY <2>2, <2>3
<1> USE <1>2 DEF ConnType, conn, out, io, server, users, flags
<1>5. CASE peerStep
  BY <1>5 DEF peerStep
<1>6. CASE handleRead
  BY <1>4, <1>6 DEF handleRead, handleEvent, NotClosed
<1>7. CASE handleWrite
  BY <1>7 DEF handleWrite, AfterWrite
<1>8. CASE doPendingFunctors \/ functorsDone
  <2>1. << >> \in Seq(Functor) /\ Len(pendingFunctors_) \in Nat
    OBVIOUS
  <2>2. CASE doPendingFunctors
    BY <2>1, <2>2 DEF doPendingFunctors
  <2>3. CASE functorsDone
    BY <2>1, <2>3 DEF functorsDone
  <2> QED BY <1>8, <2>2, <2>3
<1>9. CASE runInLoop
  <2>1. InLoop(batch[done + 1]) /\ Run({"send", "shutdown"} \cup Reads)
    BY <1>9 DEF runInLoop
  <2>2. wrShut' \in BOOLEAN /\ late' \in BOOLEAN /\ brokenWrite' \in BOOLEAN
    BY <2>1 DEF InLoop, sendInLoop, AfterWrite
  <2> QED BY <1>9, <2>2 DEF runInLoop, Run
<1>10. CASE forceCloseInLoop
  BY <1>4, <1>10 DEF forceCloseInLoop, Run, NotClosed
<1>11. CASE connectEstablished \/ connectDestroyed
  BY <1>11 DEF connectEstablished, connectDestroyed, Run, States
<1>12. CASE removeConnectionInLoop
  <2>1. pendingFunctors_' \in Seq(Functor)
    BY <1>0, <1>3, <1>12 DEF removeConnectionInLoop, queueDestroyed
  <2>2. baseQueue \in Nat /\ baseQueue > 0 /\ baseQueue' = baseQueue - 1
    BY <1>12 DEF removeConnectionInLoop
  <2>3. baseQueue' \in Nat
    BY <2>2
  <2>4. inMap' \in BOOLEAN
    BY <1>12 DEF removeConnectionInLoop, erase
  <2> QED BY <1>12, <2>1, <2>3, <2>4 DEF removeConnectionInLoop
<1>13. CASE delayedForceClose
  BY <1>0, <1>3, <1>13 DEF delayedForceClose, States
<1>14. CASE \E rev \in Events : poll(rev)
  BY <1>14 DEF poll
<1>15. ASSUME NEW u \in Users, userSetState(u) \/ release(u) PROVE ConnType'
  <2> DEFINE Call_ == [op : Ops \cup {[fn |-> "idle"]}, set : BOOLEAN]
  <2>1. upc' \in [Users -> Call_]
    <3>1. upc \in [Users -> Call_] /\ [upc[u] EXCEPT !.set = FALSE] \in Call_
      OBVIOUS
    <3> HIDE DEF Call_
    <3>2. upc' = upc \/ upc' = [upc EXCEPT ![u] = [upc[u] EXCEPT !.set = FALSE]]
      BY <1>15 DEF userSetState, release
    <3> QED BY <3>1, <3>2
  <2> QED BY <1>15, <2>1 DEF userSetState, release, States
<1>16. ASSUME NEW u \in Users, userQueue(u) PROVE ConnType'
  <2>1. upc[u].op \in Functor
    BY <1>16 DEF userQueue, idle, Functor
  <2> QED BY <1>3, <1>16, <2>1 DEF userQueue, idle
<1>17. ASSUME NEW u \in Users, NEW op \in Ops, userCheck(u, op) PROVE ConnType'
  BY <1>17 DEF userCheck, Call
<1>18. ASSUME NEW u \in Users, NEW m \in Messages, userSendBuffer(u, m) PROVE ConnType'
  BY <1>18 DEF userSendBuffer, Call
<1>19. ASSUME NEW op \in Ops, loopCall(op) PROVE ConnType'
  BY <1>3, <1>19 DEF loopCall, Call, InLoop, sendInLoop, startReadInLoop, stopReadInLoop,
                     AfterWrite, States, Functor
<1>20. CASE UNCHANGED vars
  BY <1>20 DEF vars
<1> QED BY <1>5, <1>6, <1>7, <1>8, <1>9, <1>10, <1>11, <1>12, <1>13, <1>14, <1>15, <1>16,
           <1>17, <1>18, <1>19, <1>20 DEF Next, IoStep

-----------------------------------------------------------------------------
(* The order of the output.                                                *)

(* A step takes over some bytes and writes some, both at the end.          *)
Grows == \E a, b \in Seq(Bytes) : sent' = sent \o a /\ wire' = wire \o b

(* A message, cut anywhere, is its two parts.                              *)
LEMMA Cut ==
  ASSUME NEW s \in Seq(Bytes), NEW n \in 0..Len(s)
  PROVE  /\ SubSeq(s, 1, n) \in Seq(Bytes) /\ SubSeq(s, n + 1, Len(s)) \in Seq(Bytes)
         /\ SubSeq(s, 1, n) \o SubSeq(s, n + 1, Len(s)) = s
<1>1. /\ n \in Int /\ Len(s) \in Nat /\ n \in (1 - 1)..Len(s)
      /\ 1 \in 1..(Len(s) + 1) /\ Len(s) \in n..Len(s)
  OBVIOUS
<1>2. SubSeq(s, 1, n) \in Seq(Bytes) /\ SubSeq(s, n + 1, Len(s)) \in Seq(Bytes)
  BY <1>1
<1>3. SubSeq(s, 1, n) \o SubSeq(s, n + 1, Len(s)) = SubSeq(s, 1, Len(s))
  BY <1>1, ConcatAdjacentSubSeq
<1>4. SubSeq(s, 1, Len(s)) = s
  BY SubSeqFull
<1> QED BY <1>2, <1>3, <1>4

(* The bytes of a functor that sends are those of a message.               *)
LEMMA OpMessage ==
  ASSUME NEW op \in Functor, op.fn = "send" PROVE op.msg \in Messages
BY DEF Functor, Ops, Setters, Reads

(* sendInLoop keeps the order, whether it writes nothing, some, or all.    *)
LEMMA SendOrder ==
  ASSUME OutputType, OutputOrder, NEW m \in Messages, sendInLoop(m)
  PROVE  OutputType' /\ OutputOrder' /\ Grows
<1> DEFINE d == Data(m)
<1>1. d \in Seq(Bytes) /\ Len(d) = 2 /\ << >> \in Seq(Bytes)
  BY DEF Data, Bytes
<1> HIDE DEF d
<1>2. CASE UNCHANGED out
  <2>1. sent = sent \o << >> /\ wire = wire \o << >>
    BY <1>1, ConcatEmptySeq DEF OutputType
  <2> QED BY <1>1, <1>2, <2>1 DEF out, OutputType, OutputOrder, Grows
<1>3. ASSUME NEW n \in {-1, 0, 1, 2}, n # 0 => outputBuffer_ = << >>,
             wire' = wire \o SubSeq(d, 1, n),
             sent' = IF n = -1 THEN sent ELSE sent \o d,
             outputBuffer_' = IF n \in 0..1 THEN outputBuffer_ \o SubSeq(d, n + 1, 2)
                                            ELSE outputBuffer_
      PROVE  OutputType' /\ OutputOrder' /\ Grows
  <2>1. CASE n = -1
    <3>1. SubSeq(d, 1, n) = << >>
      BY <2>1, SubSeqEmpty
    <3>2. wire' = wire /\ sent = sent \o << >> /\ outputBuffer_' = outputBuffer_
      BY <1>3, <2>1, <3>1, ConcatEmptySeq DEF OutputType
    <3> QED BY <1>1, <1>3, <2>1, <3>1, <3>2 DEF OutputType, OutputOrder, Grows
  <2>2. CASE n # -1
    <3> DEFINE a == SubSeq(d, 1, n)
               b == SubSeq(d, n + 1, 2)
    <3>0. n \in 0..Len(d) /\ b = SubSeq(d, n + 1, Len(d))
      BY <1>1, <2>2
    <3>1. a \in Seq(Bytes) /\ b \in Seq(Bytes) /\ a \o b = d
      BY <1>1, <3>0, Cut
    <3>2. sent' = sent \o d /\ wire' = wire \o a
      BY <1>3, <2>2
    <3>5. outputBuffer_' = IF n \in 0..1 THEN outputBuffer_ \o b ELSE outputBuffer_
      BY <1>3
    <3>6. (n = 0 => a = << >>) /\ (n = 2 => b = << >>)
      BY SubSeqEmpty
    <3> HIDE DEF a, b
    <3>3. CASE n = 0
      <4>1. wire' = wire /\ b = d
        BY <3>1, <3>2, <3>3, <3>6, ConcatEmptySeq DEF OutputType
      <4>2. outputBuffer_' = outputBuffer_ \o d
        BY <3>3, <3>5, <4>1
      <4>3. (wire \o outputBuffer_) \o d = wire \o (outputBuffer_ \o d)
        BY <1>1, ConcatAssociative DEF OutputType
      <4>4. sent \o d \in Seq(Bytes) /\ outputBuffer_ \o d \in Seq(Bytes)
        BY <1>1 DEF OutputType
      <4> QED BY <1>1, <3>1, <3>2, <4>1, <4>2, <4>3, <4>4 DEF OutputType, OutputOrder, Grows
    <3>4. CASE n # 0
      <4>1. outputBuffer_ = << >> /\ wire = sent
        BY <1>3, <3>4, ConcatEmptySeq DEF OutputType, OutputOrder
      <4>2. outputBuffer_' = b
        <5>1. CASE n = 1
          BY <3>1, <3>5, <4>1, <5>1, ConcatEmptySeq
        <5>2. CASE n = 2
          BY <3>5, <3>6, <4>1, <5>2
        <5> QED BY <1>3, <2>2, <3>4, <5>1, <5>2
      <4>3. (wire \o a) \o b = wire \o (a \o b)
        <5>1. a \in Seq(Bytes) /\ b \in Seq(Bytes)
          BY <3>1
        <5> QED BY <5>1, ConcatAssociative DEF OutputType
      <4>4. sent \o d \in Seq(Bytes) /\ wire \o a \in Seq(Bytes)
        BY <1>1, <3>1 DEF OutputType
      <4> QED BY <1>1, <3>1, <3>2, <4>1, <4>2, <4>3, <4>4 DEF OutputType, OutputOrder, Grows
    <3> QED BY <3>3, <3>4
  <2> QED BY <2>1, <2>2
<1>4. CASE ~UNCHANGED out
  <2>1. PICK n \in IF CanWriteDirectly THEN WriteResults(2) ELSE {0} :
          /\ wire' = wire \o SubSeq(Data(m), 1, n)
          /\ sent' = IF n = -1 THEN sent ELSE sent \o Data(m)
          /\ IF n \in 0..1
             THEN outputBuffer_' = outputBuffer_ \o Unwritten(m, n)
             ELSE UNCHANGED outputBuffer_
    BY <1>4 DEF sendInLoop
  <2>2. n \in {-1, 0, 1, 2} /\ (n # 0 => outputBuffer_ = << >>)
    BY <2>1 DEF WriteResults, CanWriteDirectly
  <2> QED BY <1>3, <2>1, <2>2 DEF Unwritten, d
<1> QED BY <1>2, <1>4

(* handleWrite moves the front of the buffer to the wire.                  *)
LEMMA WriteOrder ==
  ASSUME OutputType, OutputOrder, handleWrite
  PROVE  OutputType' /\ OutputOrder' /\ Grows
<1>1. << >> \in Seq(Bytes) /\ sent = sent \o << >> /\ wire = wire \o << >>
  BY ConcatEmptySeq DEF OutputType
<1>2. CASE UNCHANGED <<wire, outputBuffer_>>
  BY <1>1, <1>2 DEF handleWrite, OutputType, OutputOrder, Grows
<1>3. CASE ~UNCHANGED <<wire, outputBuffer_>>
  <2> DEFINE o == outputBuffer_
  <2>1. PICK n \in WriteResults(Len(outputBuffer_)) :
          /\ n > 0 /\ wire' = wire \o SubSeq(outputBuffer_, 1, n)
          /\ outputBuffer_' = SubSeq(outputBuffer_, n + 1, Len(outputBuffer_))
    BY <1>3 DEF handleWrite
  <2>2. n \in 0..Len(o) /\ o \in Seq(Bytes)
    BY <2>1 DEF WriteResults, OutputType
  <2> DEFINE a == SubSeq(o, 1, n)
             b == SubSeq(o, n + 1, Len(o))
  <2>3. a \in Seq(Bytes) /\ b \in Seq(Bytes) /\ a \o b = o
    BY <2>2, Cut
  <2>4. wire' = wire \o a /\ outputBuffer_' = b
    BY <2>1
  <2> HIDE DEF a, b
  <2>5. (wire \o a) \o b = wire \o (a \o b) /\ wire \o a \in Seq(Bytes)
    <3>1. a \in Seq(Bytes) /\ b \in Seq(Bytes)
      BY <2>3
    <3> QED BY <3>1, ConcatAssociative DEF OutputType
  <2>6. sent' = sent
    BY DEF handleWrite
  <2> QED BY <1>1, <2>3, <2>4, <2>5, <2>6 DEF OutputType, OutputOrder, Grows
<1> QED BY <1>2, <1>3

(* Every step keeps the order of the bytes.                                *)
LEMMA OrderStep ==
  ASSUME ConnType, OutputType, OutputOrder, [Next]_vars
  PROVE  OutputType' /\ OutputOrder' /\ Grows
<1>1. ASSUME UNCHANGED <<wire, outputBuffer_, sent>>
      PROVE  OutputType' /\ OutputOrder' /\ Grows
  <2>1. << >> \in Seq(Bytes) /\ sent = sent \o << >> /\ wire = wire \o << >>
    BY ConcatEmptySeq DEF OutputType
  <2> QED BY <1>1, <2>1 DEF OutputType, OutputOrder, Grows
<1>2. ASSUME NEW op \in Functor, InLoop(op) PROVE OutputType' /\ OutputOrder' /\ Grows
  <2>1. CASE op.fn = "send"
    BY <1>2, <2>1, OpMessage, SendOrder DEF InLoop
  <2>2. CASE op.fn # "send"
    BY <1>1, <1>2, <2>2 DEF InLoop, out
  <2> QED BY <2>1, <2>2
<1>3. CASE runInLoop
  BY <1>2, <1>3 DEF runInLoop, Run, ConnType
<1>4. CASE handleWrite
  BY <1>4, WriteOrder
<1>5. CASE \E op \in Ops : loopCall(op)
  <2>1. PICK op \in Ops : loopCall(op)
    BY <1>5
  <2> QED BY <1>1, <1>2, <2>1 DEF loopCall, out, Functor
<1> USE <1>1 DEF conn, out
<1>6. CASE \/ handleRead \/ doPendingFunctors \/ functorsDone \/ forceCloseInLoop
           \/ connectEstablished \/ connectDestroyed
  BY <1>6 DEF handleRead, doPendingFunctors, functorsDone, forceCloseInLoop,
              connectEstablished, connectDestroyed
<1>7. CASE \/ peerStep \/ removeConnectionInLoop \/ delayedForceClose
           \/ \E rev \in Events : poll(rev)
  BY <1>7 DEF peerStep, removeConnectionInLoop, delayedForceClose, poll
<1>8. CASE \/ \E u \in Users : userSetState(u) \/ userQueue(u) \/ release(u)
           \/ \E u \in Users, op \in Ops : userCheck(u, op)
           \/ \E u \in Users, m \in Messages : userSendBuffer(u, m)
  BY <1>8 DEF userSetState, userQueue, release, userCheck, userSendBuffer
<1>9. CASE UNCHANGED vars
  BY <1>9 DEF vars
<1> QED BY <1>3, <1>4, <1>5, <1>6, <1>7, <1>8, <1>9 DEF Next, IoStep

-----------------------------------------------------------------------------
(* What the operations on the queue do to the functors that wait.          *)

LEMMA WaitingKept ==
  ASSUME NEW fns, UNCHANGED <<pendingFunctors_, batch, done>>
  PROVE  Waiting(fns)' <=> Waiting(fns)
BY DEF Waiting

LEMMA WaitingQueue ==
  ASSUME NEW fns, NEW f \in Functor, ConnType, queueInLoop(f), UNCHANGED <<batch, done>>
  PROVE  Waiting(fns)' <=> Waiting(fns) \/ f.fn \in fns
<1> DEFINE s == pendingFunctors_
           t == pendingFunctors_'
<1>1. /\ Len(s) \in Nat /\ Len(t) = Len(s) + 1 /\ t[Len(s) + 1] = f
      /\ \A i \in 1..Len(s) : t[i] = s[i]
  BY AppendProperties DEF ConnType, queueInLoop
<1>2. (\E i \in 1..Len(t) : t[i].fn \in fns)
        <=> (\E i \in 1..Len(s) : s[i].fn \in fns) \/ f.fn \in fns
  <2> HIDE DEF s, t
  <2> QED BY <1>1
<1> QED BY <1>2 DEF Waiting

(* The next functor of the batch is run and, perhaps, another one queued.  *)
LEMMA WaitingRun ==
  ASSUME NEW fns, NEW g \in Functor, ConnType, done < Len(batch), done' = done + 1,
         batch' = batch, UNCHANGED pendingFunctors_ \/ queueInLoop(g)
  PROVE  /\ Waiting(fns)' => \/ Waiting(fns)
                             \/ g.fn \in fns /\ queueInLoop(g)
         /\ queueInLoop(g) /\ g.fn \in fns => Waiting(fns)'
         /\ Waiting(fns) => Waiting(fns)' \/ batch[done + 1].fn \in fns
<1> DEFINE s == pendingFunctors_
           t == pendingFunctors_'
<1>1. Len(s) \in Nat /\ Len(batch) \in Nat /\ done \in Nat
  BY DEF ConnType
<1>2. (\E i \in (done + 1)..Len(batch) : batch[i].fn \in fns)
        <=> \/ (\E i \in (done + 2)..Len(batch) : batch[i].fn \in fns)
            \/ batch[done + 1].fn \in fns
  BY <1>1
<1>3. CASE UNCHANGED pendingFunctors_ /\ ~queueInLoop(g)
  BY <1>1, <1>2, <1>3 DEF Waiting
<1>4. CASE queueInLoop(g)
  <2>1. /\ Len(t) = Len(s) + 1 /\ t[Len(s) + 1] = g
        /\ \A i \in 1..Len(s) : t[i] = s[i]
    BY <1>4, AppendProperties DEF ConnType, queueInLoop
  <2>2. (\E i \in 1..Len(t) : t[i].fn \in fns)
          <=> (\E i \in 1..Len(s) : s[i].fn \in fns) \/ g.fn \in fns
    <3> HIDE DEF s, t
    <3> QED BY <1>1, <2>1
  <2>3. done' + 1 = done + 2
    BY <1>1
  <2> HIDE DEF s, t
  <2>4. Waiting(fns) <=> \/ \E i \in 1..Len(s) : s[i].fn \in fns
                         \/ \E i \in (done + 1)..Len(batch) : batch[i].fn \in fns
    BY DEF Waiting, s
  <2>5. Waiting(fns)' <=> \/ \E i \in 1..Len(t) : t[i].fn \in fns
                          \/ \E i \in (done + 2)..Len(batch) : batch[i].fn \in fns
    BY <2>3 DEF Waiting, t
  <2> QED BY <1>2, <1>4, <2>2, <2>4, <2>5
<1> QED BY <1>3, <1>4

(* The swap of the queue into the batch, and the end of a batch.           *)
LEMMA WaitingSwap ==
  ASSUME NEW fns, ConnType, doPendingFunctors \/ functorsDone
  PROVE  Waiting(fns)' <=> Waiting(fns)
<1>1. CASE doPendingFunctors
  <2>1. batch = << >> /\ done = 0 /\ pendingFunctors_' = << >> /\ done' = 0
    BY <1>1 DEF doPendingFunctors, ConnType
  <2> QED BY <1>1, <2>1 DEF doPendingFunctors, Waiting
<1>2. CASE functorsDone
  <2>1. done = Len(batch) /\ Len(batch) \in Nat /\ batch' = << >>
    BY <1>2 DEF functorsDone, ConnType
  <2> QED BY <1>2, <2>1 DEF functorsDone, Waiting
<1> QED BY <1>1, <1>2

(* Everything that waits keeps the object alive, if it is strong.          *)
LEMMA WaitingAlive == ASSUME ConnType, Waiting(Strong) PROVE Alive
BY DEF ConnType, Waiting, Alive, ToSet

(* What is run was waiting.                                                *)
LEMMA RunWaits ==
  ASSUME NEW fns, ConnType, Run(fns) PROVE Waiting(fns)
<1>1. done + 1 \in (done + 1)..Len(batch)
  BY DEF Run, ConnType
<1> QED BY <1>1 DEF Run, Waiting

-----------------------------------------------------------------------------
(* Before connectEstablished, only the peer and the loop can move.         *)
LEMMA FreshSteps ==
  ASSUME ConnType, Fresh, OpenInv, state_ = "kConnecting", [Next]_vars
  PROVE  peerStep \/ doPendingFunctors \/ connectEstablished \/ UNCHANGED vars
<1>1. /\ held = {} /\ (\A u \in Users : upc[u] = idle) /\ ~delayed
      /\ channel_.events_ = {} /\ closes = 0 /\ pc \in {"poll", "functors"}
      /\ pc = "functors" => done = 0 /\ batch = <<[fn |-> "connectEstablished"]>>
  BY DEF Fresh
<1>2. pc = "functors" => Len(batch) = 1 /\ batch[1].fn = "connectEstablished"
  BY <1>1
<1>3. ASSUME NEW fns, Run(fns) PROVE "connectEstablished" \in fns
  BY <1>1, <1>2, <1>3 DEF Run
<1>4. ~runInLoop /\ ~forceCloseInLoop /\ ~connectDestroyed
  <2>1. ~Run({"send", "shutdown"} \cup Reads) /\ ~Run({"forceClose"})
        /\ ~Run({"connectDestroyed"})
    BY <1>3 DEF Reads
  <2> QED BY <2>1 DEF runInLoop, forceCloseInLoop, connectDestroyed
<1>5. ~handleRead /\ ~handleWrite /\ ~functorsDone
  BY <1>1, <1>2 DEF handleRead, handleEvent, handleWrite, functorsDone
<1>6. ~removeConnectionInLoop /\ ~delayedForceClose
  BY <1>1 DEF OpenInv, removeConnectionInLoop, delayedForceClose
<1>7. ASSUME NEW rev, poll(rev) PROVE FALSE
  <2>1. PICK evs \in channel_.interest : rev \subseteq evs /\ rev # {}
    BY <1>7 DEF poll
  <2>2. evs = {}
    BY <1>1, <2>1 DEF ConnType
  <2> QED BY <2>1, <2>2
<1>8. ASSUME NEW u \in Users PROVE ~userSetState(u) /\ ~userQueue(u) /\ ~release(u)
  <2>1. upc[u] = idle /\ idle.set = FALSE /\ u \notin held
    BY <1>1 DEF idle
  <2> QED BY <2>1 DEF userSetState, userQueue, release
<1>9. ASSUME NEW u, NEW op, Call(u, op) PROVE FALSE
  BY <1>1, <1>9 DEF Call
<1> QED BY <1>4, <1>5, <1>6, <1>7, <1>8, <1>9 DEF Next, IoStep, userCheck, userSendBuffer,
           loopCall

LEMMA FreshStep ==
  ASSUME ConnType, Fresh, OpenInv, [Next]_vars
  PROVE  Fresh'
<1>1. CASE state_ # "kConnecting"
  <2>1. state_' # "kConnecting"
    BY <1>1 DEF Next, IoStep, peerStep, handleRead, handleWrite, handleClose, NotClosed,
       doPendingFunctors, functorsDone, runInLoop, forceCloseInLoop, connectEstablished,
       connectDestroyed, removeConnectionInLoop, delayedForceClose, poll, userSetState,
       userQueue, release, userCheck, userSendBuffer, loopCall, vars, conn, server
  <2> QED BY <2>1 DEF Fresh
<1>2. CASE state_ = "kConnecting"
  <2> USE DEF Fresh, conn, out, io, server, users, flags
  <2>1. CASE peerStep
    BY <1>2, <2>1 DEF peerStep
  <2>2. CASE doPendingFunctors
    <3>1. pc = "poll"
      BY <1>2, <2>2 DEF doPendingFunctors
    <3> QED BY <1>2, <2>2, <3>1 DEF doPendingFunctors
  <2>3. CASE connectEstablished
    BY <2>3 DEF connectEstablished
  <2>4. CASE UNCHANGED vars
    BY <1>2, <2>4 DEF vars
  <2> QED BY <1>2, <2>1, <2>2, <2>3, <2>4, FreshSteps
<1> QED BY <1>1, <1>2

(* Who queues a functor: nobody connectEstablished again, handleClose or   *)
(* the base loop connectDestroyed, a user thread those with the raw this.  *)
Source(f) ==
  /\ f \in Functor /\ f.fn # "connectEstablished"
  /\ f.fn = "connectDestroyed" => baseQueue > 0 \/ closes' = closes + 1
  /\ f.fn \notin Strong => \E u \in Users : upc[u] # idle

(* What waits after a step was waiting before it, or was queued by it.     *)
LEMMA WaitingNext ==
  ASSUME NEW fns, ConnType, [Next]_vars
  PROVE  Waiting(fns)' => Waiting(fns) \/ \E f : Source(f) /\ f.fn \in fns
<1> DEFINE Goal == Waiting(fns)' => Waiting(fns) \/ \E f : Source(f) /\ f.fn \in fns
<1> SUFFICES Goal
  OBVIOUS
<1> DEFINE d == [fn |-> "connectDestroyed"]
           c == [fn |-> "forceClose"]
<1>0. d \in Functor /\ c \in Functor
  BY DEF Functor, Ops, Setters
<1>00. Source(c) /\ (baseQueue > 0 \/ closes' = closes + 1 => Source(d))
  BY <1>0 DEF Source, Strong
<1>1. ASSUME NEW f \in Functor, UNCHANGED pendingFunctors_ \/ (queueInLoop(f) /\ Source(f)),
             UNCHANGED <<batch, done>> PROVE Goal
  BY <1>1, WaitingKept, WaitingQueue
<1>2. ASSUME NEW f \in Functor, UNCHANGED pendingFunctors_ \/ (queueInLoop(f) /\ Source(f)),
             NEW S, Run(S) PROVE Goal
  <2>1. UNCHANGED pendingFunctors_ => ~queueInLoop(f)
    BY AppendProperties DEF ConnType, queueInLoop
  <2>2. Waiting(fns)' => Waiting(fns) \/ (f.fn \in fns /\ queueInLoop(f))
    BY <1>2, WaitingRun DEF Run
  <2> QED BY <1>2, <2>1, <2>2
<1>3. ASSUME handleClose \/ NotClosed
      PROVE  UNCHANGED pendingFunctors_ \/ (queueInLoop(d) /\ Source(d))
  <2>1. CASE NotClosed
    BY <2>1 DEF NotClosed
  <2>2. CASE handleClose
    <3>1. Source(d)
      BY <1>00, <2>2 DEF handleClose
    <3>2. UNCHANGED pendingFunctors_ \/ queueInLoop(d)
      BY <2>2 DEF handleClose, removeConnection, queueDestroyed
    <3> QED BY <3>1, <3>2
  <2> QED BY <1>3, <2>1, <2>2
<1> HIDE DEF Goal, d, c
<1>4. CASE doPendingFunctors \/ functorsDone
  BY <1>4, WaitingSwap DEF Goal
<1>5. CASE handleRead
  BY <1>0, <1>1, <1>3, <1>5 DEF handleRead
<1>6. CASE \/ runInLoop \/ connectEstablished \/ connectDestroyed
  BY <1>0, <1>2, <1>6 DEF runInLoop, connectEstablished, connectDestroyed
<1>7. CASE forceCloseInLoop
  BY <1>0, <1>2, <1>3, <1>7 DEF forceCloseInLoop
<1>8. CASE removeConnectionInLoop \/ delayedForceClose
  BY <1>0, <1>00, <1>1, <1>8 DEF removeConnectionInLoop, delayedForceClose, queueDestroyed, io,
     c, d
<1>9. ASSUME NEW u \in Users, userQueue(u) PROVE Goal
  <2>1. upc[u].op \in Ops /\ upc[u] # idle
    BY <1>9 DEF userQueue, idle, ConnType
  <2>2. upc[u].op \in Functor /\ Source(upc[u].op)
    BY <2>1 DEF Source, Functor, Ops, Setters, Reads
  <2> QED BY <1>1, <1>9, <2>2 DEF userQueue, io
<1>10. ASSUME NEW op \in Ops, loopCall(op) PROVE Goal
  <2>1. op.fn = "forceClose" => op = c
    BY DEF Ops, c
  <2> QED BY <1>0, <1>00, <1>1, <1>10, <2>1 DEF loopCall, io
<1>11. CASE peerStep \/ handleWrite \/ (\E rev \in Events : poll(rev)) \/ UNCHANGED vars
  BY <1>0, <1>1, <1>11 DEF peerStep, handleWrite, poll, vars, io
<1>12. CASE \/ \E u \in Users : userSetState(u) \/ release(u)
            \/ \E u \in Users, op \in Ops : userCheck(u, op)
            \/ \E u \in Users, m \in Messages : userSendBuffer(u, m)
  BY <1>0, <1>1, <1>12 DEF userSetState, release, userCheck, userSendBuffer, io
<1> QED BY <1>4, <1>5, <1>6, <1>7, <1>8, <1>9, <1>10, <1>11, <1>12 DEF Next, IoStep

(* Only the two callers of handleClose count a close.                      *)
LEMMA ClosesStep ==
  ASSUME [Next]_vars
  PROVE  closes' = closes \/ (handleClose /\ (handleRead \/ forceCloseInLoop))
<1> USE DEF server, users, flags
<1>1. CASE handleRead \/ forceCloseInLoop
  BY <1>1 DEF handleRead, forceCloseInLoop, NotClosed
<1>2. CASE \/ peerStep \/ handleWrite \/ doPendingFunctors \/ functorsDone \/ runInLoop
           \/ connectEstablished \/ connectDestroyed \/ delayedForceClose
           \/ removeConnectionInLoop \/ \E rev \in Events : poll(rev)
  BY <1>2 DEF peerStep, handleWrite, doPendingFunctors, functorsDone, runInLoop,
     connectEstablished, connectDestroyed, delayedForceClose, removeConnectionInLoop, poll
<1>3. CASE \/ \E u \in Users : userSetState(u) \/ userQueue(u) \/ release(u)
           \/ \E u \in Users, op \in Ops : userCheck(u, op)
           \/ \E u \in Users, m \in Messages : userSendBuffer(u, m)
           \/ \E op \in Ops : loopCall(op)
           \/ UNCHANGED vars
  BY <1>3 DEF userSetState, userQueue, release, userCheck, userSendBuffer, loopCall, vars
<1> QED BY <1>1, <1>2, <1>3 DEF Next, IoStep

(* connectEstablished runs once: from kConnecting.                         *)
LEMMA EstablishedStep ==
  ASSUME ConnType, Fresh, Established, OpenInv, [Next]_vars
  PROVE  Established'
<1> DEFINE e == {"connectEstablished"}
<1>1. CASE state_ # "kConnecting"
  <2>1. ~Waiting(e)
    BY <1>1 DEF Established
  <2>2. ~Waiting(e)'
    BY <2>1, WaitingNext DEF Source
  <2> QED BY <2>2 DEF Established
<1>2. CASE state_ = "kConnecting"
  <2>1. CASE peerStep \/ doPendingFunctors \/ UNCHANGED vars
    BY <1>2, <2>1 DEF peerStep, doPendingFunctors, vars, conn, Established
  <2>2. CASE connectEstablished
    <3>1. /\ pendingFunctors_' = << >> /\ batch' = <<[fn |-> "connectEstablished"]>>
          /\ done' = 1
      BY <1>2, <2>2 DEF connectEstablished, Run, Fresh
    <3>2. ~Waiting(e)'
      BY <3>1 DEF Waiting
    <3> QED BY <3>2 DEF Established
  <2> QED BY <1>2, <2>1, <2>2, FreshSteps
<1> QED BY <1>1, <1>2

(* connectEstablished finds the connection as newConnection left it.       *)
LEMMA EstablishFresh ==
  ASSUME ConnType, Established, connectEstablished PROVE state_ = "kConnecting"
BY RunWaits DEF connectEstablished, Established

(* A connection that is not closed has not been removed by the server.     *)
LEMMA OpenStep ==
  ASSUME ConnType, Fresh, Established, OpenInv, [Next]_vars
  PROVE  OpenInv'
<1>1. closes' \in Nat
  BY ConnTypeStep DEF ConnType
<1>2. /\ closes' = closes => inMap' = inMap \/ baseQueue > 0
      /\ closes' = closes => baseQueue' = baseQueue \/ baseQueue > 0
      /\ closes' = closes \/ (closes' = closes + 1 /\ state_' = "kDisconnected")
      /\ state_' = "kConnected" => state_ = "kConnected" \/ state_ = "kConnecting"
  <2> USE DEF server, users, flags, conn
  <2>1. CASE connectEstablished
    BY <2>1, EstablishFresh DEF connectEstablished
  <2>2. CASE handleRead \/ forceCloseInLoop
    <3>1. CASE handleClose
      BY <3>1 DEF handleClose, ConnType
    <3>2. CASE NotClosed
      BY <3>2 DEF NotClosed
    <3> QED BY <2>2, <3>1, <3>2 DEF handleRead, forceCloseInLoop
  <2>3. CASE removeConnectionInLoop
    BY <2>3 DEF removeConnectionInLoop
  <2>4. CASE \/ peerStep \/ handleWrite \/ doPendingFunctors \/ functorsDone \/ runInLoop
             \/ connectDestroyed \/ delayedForceClose
    BY <2>4 DEF peerStep, handleWrite, doPendingFunctors, functorsDone, runInLoop,
       connectDestroyed, delayedForceClose, Run
  <2>5. CASE \/ \E rev \in Events : poll(rev)
             \/ \E u \in Users : userSetState(u) \/ userQueue(u) \/ release(u)
             \/ \E u \in Users, op \in Ops : userCheck(u, op)
             \/ \E u \in Users, m \in Messages : userSendBuffer(u, m)
             \/ UNCHANGED vars
    BY <2>5 DEF poll, userSetState, userQueue, release, userCheck, userSendBuffer, vars
  <2>6. CASE \E op \in Ops : loopCall(op)
    BY <2>6 DEF loopCall
  <2> QED BY <2>1, <2>2, <2>3, <2>4, <2>5, <2>6 DEF Next, IoStep
<1>3. closes' = 0 => closes = 0
  BY <1>1, <1>2 DEF ConnType
<1>4. closes' = 0 => inMap' /\ baseQueue' = 0 /\ ~Waiting({"connectDestroyed"})'
  <2> SUFFICES ASSUME closes' = 0 PROVE inMap' /\ baseQueue' = 0 /\ ~Waiting({"connectDestroyed"})'
    OBVIOUS
  <2>1. inMap /\ baseQueue = 0 /\ ~Waiting({"connectDestroyed"}) /\ closes = 0
    BY <1>3 DEF OpenInv
  <2>2. ~(baseQueue > 0 \/ closes' = closes + 1)
    BY <2>1
  <2>3. ~Waiting({"connectDestroyed"})'
    BY <2>1, <2>2, WaitingNext DEF Source
  <2> QED BY <1>2, <2>1, <2>3
<1>5. state_' = "kConnected" => closes' = 0
  BY <1>2 DEF Fresh, OpenInv
<1> QED BY <1>4, <1>5 DEF OpenInv

(* What waits before a step waits after it, or is run by it.               *)
LEMMA WaitingStays ==
  ASSUME NEW fns, ConnType, [Next]_vars, Waiting(fns)
  PROVE  Waiting(fns)' \/ Run(fns)
<1> DEFINE Goal == Waiting(fns)' \/ Run(fns)
<1> SUFFICES Goal
  OBVIOUS
<1> DEFINE d == [fn |-> "connectDestroyed"]
           c == [fn |-> "forceClose"]
<1>0. d \in Functor /\ c \in Functor
  BY DEF Functor, Ops, Setters
<1>1. ASSUME NEW f \in Functor, UNCHANGED pendingFunctors_ \/ queueInLoop(f),
             UNCHANGED <<batch, done>> PROVE Goal
  BY <1>1, WaitingKept, WaitingQueue
<1>2. ASSUME NEW f \in Functor, UNCHANGED pendingFunctors_ \/ queueInLoop(f),
             NEW S, Run(S) PROVE Goal
  <2>1. Waiting(fns)' \/ batch[done + 1].fn \in fns
    BY <1>2, WaitingRun DEF Run
  <2> QED BY <1>2, <2>1 DEF Run
<1>3. ASSUME handleClose \/ NotClosed PROVE UNCHANGED pendingFunctors_ \/ queueInLoop(d)
  BY <1>3 DEF handleClose, removeConnection, queueDestroyed, NotClosed
<1> HIDE DEF Goal, d, c
<1>4. CASE doPendingFunctors \/ functorsDone
  BY <1>4, WaitingSwap DEF Goal
<1>5. CASE handleRead
  BY <1>0, <1>1, <1>3, <1>5 DEF handleRead
<1>6. CASE \/ runInLoop \/ connectEstablished \/ connectDestroyed
  BY <1>0, <1>2, <1>6 DEF runInLoop, connectEstablished, connectDestroyed
<1>7. CASE forceCloseInLoop
  BY <1>0, <1>2, <1>3, <1>7 DEF forceCloseInLoop
<1>8. CASE removeConnectionInLoop \/ delayedForceClose
  BY <1>0, <1>1, <1>8 DEF removeConnectionInLoop, delayedForceClose, queueDestroyed, io, c, d
<1>9. ASSUME NEW u \in Users, userQueue(u) PROVE Goal
  <2>1. upc[u].op \in Functor
    BY <1>9 DEF userQueue, idle, ConnType, Functor
  <2> QED BY <1>1, <1>9, <2>1 DEF userQueue, io
<1>10. ASSUME NEW op \in Ops, loopCall(op) PROVE Goal
  BY <1>1, <1>10 DEF loopCall, io, Functor
<1>11. CASE peerStep \/ handleWrite \/ (\E rev \in Events : poll(rev)) \/ UNCHANGED vars
  BY <1>0, <1>1, <1>11 DEF peerStep, handleWrite, poll, vars, io
<1>12. CASE \/ \E u \in Users : userSetState(u) \/ release(u)
            \/ \E u \in Users, op \in Ops : userCheck(u, op)
            \/ \E u \in Users, m \in Messages : userSendBuffer(u, m)
  BY <1>0, <1>1, <1>12 DEF userSetState, release, userCheck, userSendBuffer, io
<1> QED BY <1>4, <1>5, <1>6, <1>7, <1>8, <1>9, <1>10, <1>11, <1>12 DEF Next, IoStep

-----------------------------------------------------------------------------
(* POLLOUT and the buffer.                                                 *)

(* sendInLoop enables POLLOUT exactly when it leaves bytes in the buffer.  *)
LEMMA SendWriting ==
  ASSUME ConnType, OutputType, NEW m \in Messages, sendInLoop(m),
         isWriting(channel_) <=> outputBuffer_ # << >>
  PROVE  isWriting(channel_') <=> outputBuffer_' # << >>
<1>1. CASE UNCHANGED <<channel_, outputBuffer_>>
  BY <1>1
<1>2. CASE ~UNCHANGED <<channel_, outputBuffer_>>
  <2>1. PICK n \in 0..1 :
          /\ outputBuffer_' = outputBuffer_ \o Unwritten(m, n)
          /\ channel_' = IF isWriting(channel_) THEN channel_ ELSE enableWriting(channel_)
    BY <1>2 DEF sendInLoop, out
  <2>2. isWriting(channel_')
    BY <2>1, ChannelEvents DEF isWriting, ConnType
  <2>3. Data(m) \in Seq(Bytes) /\ Len(Data(m)) = 2
    BY DEF Data, Bytes
  <2>4. Unwritten(m, n) \in Seq(Bytes) /\ Len(Unwritten(m, n)) = 2 - n
    BY <2>3, SubSeqProperties DEF Unwritten
  <2>5. outputBuffer_' \in Seq(Bytes) /\ Len(outputBuffer_') = Len(outputBuffer_) + (2 - n)
    BY <2>1, <2>4, ConcatProperties DEF OutputType
  <2>6. outputBuffer_' # << >>
    BY <2>5 DEF OutputType
  <2> QED BY <2>2, <2>6
<1> QED BY <1>1, <1>2

LEMMA WritingStep ==
  ASSUME ConnType, OutputType, Fresh, Established, OpenInv, WritingIffBuffered, [Next]_vars
  PROVE  WritingIffBuffered'
<1> DEFINE Good == isWriting(channel_') <=> outputBuffer_' # << >>
<1> SUFFICES ASSUME closes' = 0, state_' # "kConnecting" PROVE Good
  BY DEF WritingIffBuffered, isWriting
<1>1. CASE connectEstablished
  <2>1. channel_.events_ = {} /\ outputBuffer_ = << >>
    BY <1>1, EstablishFresh DEF Fresh
  <2>2. channel_'.events_ = {"read"}
    BY <1>1, <2>1, ChannelEvents DEF connectEstablished, ConnType
  <2>3. outputBuffer_' = << >>
    BY <1>1, <2>1 DEF connectEstablished, out
  <2> QED BY <2>2, <2>3 DEF isWriting
<1>2. CASE state_ = "kConnecting" /\ ~connectEstablished
  BY <1>2, FreshSteps DEF peerStep, doPendingFunctors, vars, conn
<1>3. CASE state_ # "kConnecting" /\ ~connectEstablished
  <2>1. ASSUME handleClose PROVE FALSE
    BY <2>1 DEF handleClose, ConnType
  <2> USE DEF conn, out, server, flags
  <2>2. closes' = closes
    BY <2>1, ClosesStep
  <2>3. isWriting(channel_) <=> outputBuffer_ # << >>
    BY <1>3, <2>2 DEF WritingIffBuffered
  <2>4. ASSUME NEW op \in Functor, InLoop(op) PROVE Good
    <3>1. CASE op.fn = "send"
      BY <2>3, <2>4, <3>1, SendWriting, OpMessage DEF InLoop
    <3>2. CASE op.fn # "send"
      BY <2>3, <2>4, <3>2, ChannelEvents DEF InLoop, startReadInLoop, stopReadInLoop,
         isWriting, ConnType
    <3> QED BY <3>1, <3>2
  <2> HIDE DEF Good
  <2>0. ASSUME UNCHANGED <<channel_, outputBuffer_>> PROVE Good
    BY <2>0, <2>3 DEF Good
  <2>5. CASE handleRead \/ forceCloseInLoop
    BY <2>0, <2>1, <2>5 DEF handleRead, forceCloseInLoop, NotClosed
  <2>6. CASE handleWrite
    <3>1. CASE UNCHANGED <<channel_, outputBuffer_>>
      BY <2>0, <3>1
    <3>2. CASE ~UNCHANGED <<channel_, outputBuffer_>>
      <4>1. PICK n \in WriteResults(Len(outputBuffer_)) :
              /\ n > 0
              /\ outputBuffer_' = SubSeq(outputBuffer_, n + 1, Len(outputBuffer_))
              /\ IF n = Len(outputBuffer_) THEN channel_' = Drained(channel_)
                                           ELSE channel_' = channel_ /\ isWriting(channel_)
        BY <2>6, <3>2 DEF handleWrite
      <4>2. n \in 1..Len(outputBuffer_) /\ Len(outputBuffer_) \in Nat
        BY <4>1 DEF WriteResults, OutputType
      <4>3. CASE n = Len(outputBuffer_)
        <5>1. outputBuffer_' = << >>
          BY <4>1, <4>2, <4>3, SubSeqEmpty
        <5>2. ~isWriting(channel_')
          BY <4>1, <4>3, ChannelEvents DEF Drained, isWriting, ConnType
        <5> QED BY <5>1, <5>2 DEF Good
      <4>4. CASE n # Len(outputBuffer_)
        <5>1. /\ outputBuffer_' \in Seq(Bytes)
              /\ Len(outputBuffer_') = Len(outputBuffer_) - (n + 1) + 1
          <6>1. /\ n + 1 \in Int /\ n + 1 <= Len(outputBuffer_)
                /\ \A i \in (n + 1)..Len(outputBuffer_) : outputBuffer_[i] \in Bytes
            BY <4>2, <4>4 DEF OutputType
          <6> QED BY <4>1, <4>2, <6>1, SubSeqProperties
        <5>2. outputBuffer_' # << >>
          BY <4>2, <4>4, <5>1
        <5> QED BY <4>1, <4>4, <5>2 DEF Good
      <4> QED BY <4>3, <4>4
    <3> QED BY <3>1, <3>2
  <2>7. CASE runInLoop
    BY <2>4, <2>7 DEF runInLoop, Run, ConnType
  <2>8. CASE connectDestroyed
    <3>1. Waiting({"connectDestroyed"})
      BY <2>8, RunWaits DEF connectDestroyed
    <3> QED BY <2>2, <3>1 DEF OpenInv
  <2>9. CASE \/ peerStep \/ doPendingFunctors \/ functorsDone \/ delayedForceClose
             \/ removeConnectionInLoop \/ (\E rev \in Events : poll(rev)) \/ UNCHANGED vars
    BY <2>0, <2>9 DEF peerStep, doPendingFunctors, functorsDone, delayedForceClose,
       removeConnectionInLoop, poll, vars
  <2>10. CASE \/ \E u \in Users : userSetState(u) \/ userQueue(u) \/ release(u)
              \/ \E u \in Users, op \in Ops : userCheck(u, op)
              \/ \E u \in Users, m \in Messages : userSendBuffer(u, m)
    BY <2>0, <2>10 DEF userSetState, userQueue, release, userCheck, userSendBuffer
  <2>11. CASE \E op \in Ops : loopCall(op)
    BY <2>0, <2>4, <2>11 DEF loopCall, Functor
  <2> QED BY <1>3, <2>5, <2>6, <2>7, <2>8, <2>9, <2>10, <2>11 DEF Next, IoStep
<1> QED BY <1>1, <1>2, <1>3

-----------------------------------------------------------------------------
(* After the close.                                                        *)

LEMMA QueuedWaits ==
  ASSUME NEW fns, NEW f \in Functor, ConnType, queueInLoop(f), f.fn \in fns
  PROVE  Waiting(fns)'
<1>1. /\ Len(pendingFunctors_) \in Nat
      /\ Len(pendingFunctors_') = Len(pendingFunctors_) + 1
      /\ pendingFunctors_'[Len(pendingFunctors_) + 1] = f
  BY AppendProperties DEF ConnType, queueInLoop
<1>2. Len(pendingFunctors_) + 1 \in 1..Len(pendingFunctors_')
  BY <1>1
<1> QED BY <1>1, <1>2 DEF Waiting

(* A connectDestroyed is run by the action of that name.                   *)
LEMMA WhoDestroys ==
  ASSUME ConnType, [Next]_vars, Run({"connectDestroyed"}) PROVE connectDestroyed
<1>1. /\ pc = "functors" /\ done < Len(batch) /\ done' = done + 1 /\ done \in Nat
      /\ batch[done + 1].fn = "connectDestroyed"
  BY DEF Run, ConnType
<1>2. done' # done
  BY <1>1
<1>3. ~doPendingFunctors /\ ~functorsDone
  BY <1>1 DEF doPendingFunctors, functorsDone
<1>4. ASSUME NEW S, Run(S) PROVE "connectDestroyed" \in S
  BY <1>1, <1>4 DEF Run
<1>5. ~runInLoop /\ ~forceCloseInLoop /\ ~connectEstablished
  <2>1. /\ ~Run({"send", "shutdown"} \cup Reads) /\ ~Run({"forceClose"})
        /\ ~Run({"connectEstablished"})
    BY <1>4 DEF Reads
  <2> QED BY <2>1 DEF runInLoop, forceCloseInLoop, connectEstablished
<1>6. ~peerStep /\ ~handleRead /\ ~handleWrite /\ ~removeConnectionInLoop
      /\ ~delayedForceClose /\ ~UNCHANGED vars
  BY <1>2 DEF peerStep, handleRead, handleWrite, removeConnectionInLoop, delayedForceClose,
     vars, io
<1>7. \A rev : ~poll(rev)
  BY <1>2 DEF poll
<1>8. \A u : ~userSetState(u) /\ ~userQueue(u) /\ ~release(u)
  BY <1>2 DEF userSetState, userQueue, release, io
<1>9. \A u, op : ~userCheck(u, op) /\ ~userSendBuffer(u, op) /\ ~loopCall(op)
  BY <1>2 DEF userCheck, userSendBuffer, loopCall, io
<1> QED BY <1>3, <1>5, <1>6, <1>7, <1>8, <1>9 DEF Next, IoStep

(* The history of the races is not forgotten.                              *)
LEMMA RacesStay ==
  ASSUME ConnType, [Next]_vars PROVE (revived => revived') /\ (late => late')
<1>1. revived \in BOOLEAN /\ late \in BOOLEAN
  BY DEF ConnType
<1>2. ASSUME NEW op, InLoop(op) PROVE late => late'
  BY <1>1, <1>2 DEF InLoop
<1>3. CASE runInLoop
  BY <1>2, <1>3 DEF runInLoop, Run
<1>4. ASSUME NEW op, loopCall(op) PROVE (revived => revived') /\ (late => late')
  BY <1>2, <1>4 DEF loopCall
<1>5. ASSUME NEW u, userSetState(u) PROVE (revived => revived') /\ (late => late')
  BY <1>1, <1>5 DEF userSetState
<1> USE DEF flags
<1>6. CASE \/ handleRead \/ handleWrite \/ doPendingFunctors \/ functorsDone
           \/ forceCloseInLoop \/ connectEstablished \/ connectDestroyed
  BY <1>6 DEF handleRead, handleWrite, doPendingFunctors, functorsDone, forceCloseInLoop,
     connectEstablished, connectDestroyed, Run
<1>7. CASE \/ peerStep \/ removeConnectionInLoop \/ delayedForceClose
           \/ (\E rev \in Events : poll(rev)) \/ UNCHANGED vars
  BY <1>7 DEF peerStep, removeConnectionInLoop, delayedForceClose, poll, vars
<1>8. ASSUME NEW u, userQueue(u) \/ release(u) PROVE (revived => revived') /\ (late => late')
  BY <1>8 DEF userQueue, release
<1>9. ASSUME NEW u, NEW op, userCheck(u, op) \/ userSendBuffer(u, op)
      PROVE  (revived => revived') /\ (late => late')
  BY <1>9 DEF userCheck, userSendBuffer
<1> QED BY <1>3, <1>4, <1>5, <1>6, <1>7, <1>8, <1>9 DEF Next, IoStep

(* Without such a race, a closed connection changes only when              *)
(* connectDestroyed takes its channel out of the interest list.            *)
LEMMA ClosedSteps ==
  ASSUME ConnType, Fresh, Established, OpenInv, ClosedInv, [Next]_vars,
         closes > 0, ~revived', ~late'
  PROVE  /\ closes' = closes /\ state_' = state_ /\ pc' # "dispatch"
         /\ \/ channel_' = channel_
            \/ channel_' = removeChannel(channel_)
         /\ connectDestroyed => channel_' = removeChannel(channel_)
         /\ inMap' = inMap \/ queueInLoop([fn |-> "connectDestroyed"])
<1> DEFINE Goal == /\ closes' = closes /\ state_' = state_ /\ pc' # "dispatch"
                   /\ \/ channel_' = channel_ /\ ~connectDestroyed
                      \/ channel_' = removeChannel(channel_)
                   /\ inMap' = inMap \/ queueInLoop([fn |-> "connectDestroyed"])
<1> SUFFICES Goal
  OBVIOUS
<1>1. /\ state_ = "kDisconnected" /\ channel_.events_ = {} /\ pc # "dispatch"
  BY RacesStay DEF ClosedInv
<1>2. state_ \notin ClosableStates /\ ~isWriting(channel_)
  BY <1>1 DEF ClosableStates, isWriting
<1>3. ~connectEstablished
  BY <1>1, EstablishFresh
<1>4. ASSUME ~Run({"connectDestroyed"}), UNCHANGED <<closes, state_, channel_>>,
             pc' # "dispatch", inMap' = inMap \/ queueInLoop([fn |-> "connectDestroyed"])
      PROVE  Goal
  BY <1>4 DEF connectDestroyed
<1>5. ASSUME NEW op, InLoop(op) PROVE UNCHANGED channel_
  <2>1. CASE op.fn \in Reads
    BY <1>5, <2>1 DEF InLoop
  <2>2. CASE op.fn \notin Reads
    BY <1>1, <1>5, <2>2 DEF InLoop, sendInLoop, Reads
  <2> QED BY <2>1, <2>2
<1>6. CASE connectDestroyed
  BY <1>1, <1>6 DEF connectDestroyed, Run, server
<1> USE DEF conn, server, flags, io
<1>7. CASE runInLoop \/ forceCloseInLoop
  <2>1. ~Run({"connectDestroyed"})
    BY <1>7 DEF runInLoop, forceCloseInLoop, Run, Reads
  <2> HIDE DEF Goal
  <2>2. CASE runInLoop
    BY <1>1, <1>4, <1>5, <2>1, <2>2 DEF runInLoop, Run
  <2>3. CASE forceCloseInLoop
    BY <1>1, <1>2, <1>4, <2>1, <2>3 DEF forceCloseInLoop, Run, NotClosed
  <2> QED BY <1>7, <2>2, <2>3
<1>8. CASE ~runInLoop /\ ~forceCloseInLoop /\ ~connectDestroyed
  <2>1. ~Run({"connectDestroyed"})
    BY <1>8, WhoDestroys
  <2> HIDE DEF Goal
  <2> USE <1>4, <2>1
  <2>2. CASE handleWrite
    BY <1>2, <2>2 DEF handleWrite
  <2>3. CASE handleRead
    BY <1>1, <2>3 DEF handleRead, handleEvent
  <2>4. CASE \/ peerStep \/ doPendingFunctors \/ functorsDone \/ removeConnectionInLoop
             \/ UNCHANGED vars
    BY <1>1, <2>4 DEF peerStep, doPendingFunctors, functorsDone, removeConnectionInLoop,
       queueDestroyed, vars
  <2>5. CASE delayedForceClose
    BY <1>1, <1>2, <2>5 DEF delayedForceClose
  <2>6. ASSUME NEW rev, poll(rev) PROVE Goal
    <3>1. PICK evs \in channel_.interest : rev \subseteq evs /\ rev # {}
      BY <2>6 DEF poll
    <3>2. evs = {}
      BY <1>1, <3>1 DEF ConnType
    <3> QED BY <3>1, <3>2
  <2>7. ASSUME NEW u \in Users, userSetState(u) \/ userQueue(u) \/ release(u) PROVE Goal
    <3>1. ~userSetState(u)
      BY <1>1 DEF userSetState
    <3> QED BY <1>1, <2>7, <3>1 DEF userQueue, release
  <2>8. CASE \/ \E u \in Users, op \in Ops : userCheck(u, op)
             \/ \E u \in Users, m \in Messages : userSendBuffer(u, m)
    BY <1>1, <2>8 DEF userCheck, userSendBuffer
  <2>9. ASSUME NEW op \in Ops, loopCall(op) PROVE Goal
    <3>1. op.fn \in Reads
      BY <1>1, <1>2, <2>9 DEF loopCall, Call, Allowed, Ops, Setters, Reads
    <3>2. InLoop(op)
      BY <2>9, <3>1 DEF loopCall, Reads
    <3> QED BY <3>1, <3>2 DEF InLoop
  <2> QED BY <1>3, <1>8, <2>2, <2>3, <2>4, <2>5, <2>6, <2>7, <2>8, <2>9 DEF Next, IoStep
<1> QED BY <1>6, <1>7, <1>8

LEMMA ClosedStep ==
  ASSUME ConnType, Fresh, Established, OpenInv, ClosedInv, [Next]_vars
  PROVE  ClosedInv'
<1> DEFINE dd == {"connectDestroyed"}
           d == [fn |-> "connectDestroyed"]
<1>0. d \in Functor /\ d.fn \in dd
  BY DEF Functor
<1> SUFFICES ASSUME closes' > 0, ~revived', ~late'
             PROVE  /\ closes' = 1 /\ state_' = "kDisconnected" /\ channel_'.events_ = {}
                    /\ pc' # "dispatch"
                    /\ inMap' \/ Waiting(dd)' \/ ~Registered(channel_')
  BY DEF ClosedInv, Registered
<1>1. ~revived /\ ~late
  BY RacesStay
<1>2. CASE closes = 0
  <2>1. handleClose /\ (handleRead \/ forceCloseInLoop)
    BY <1>2, ClosesStep
  <2>2. closes' = 1 /\ state_' = "kDisconnected" /\ channel_' = disableAll(channel_)
    BY <1>2, <2>1 DEF handleClose, closeChannel
  <2>3. channel_'.events_ = {}
    BY <2>2, ChannelEvents DEF ConnType
  <2>4. pc' # "dispatch"
    BY <2>1 DEF handleRead, handleEvent, forceCloseInLoop, Run
  <2>5. inMap
    BY <1>2 DEF OpenInv
  <2>6. inMap' \/ queueInLoop(d)
    BY <2>1, <2>5 DEF handleClose, removeConnection, queueDestroyed
  <2>7. queueInLoop(d) => Waiting(dd)'
    BY <1>0, QueuedWaits
  <2> QED BY <2>2, <2>3, <2>4, <2>6, <2>7
<1>3. CASE closes > 0
  <2>1. /\ closes = 1 /\ state_ = "kDisconnected" /\ channel_.events_ = {}
        /\ inMap \/ Waiting(dd) \/ ~Registered(channel_)
    BY <1>1, <1>3 DEF ClosedInv
  <2>2. /\ closes' = closes /\ state_' = state_ /\ pc' # "dispatch"
        /\ channel_' = channel_ \/ channel_' = removeChannel(channel_)
        /\ connectDestroyed => channel_' = removeChannel(channel_)
        /\ inMap' = inMap \/ queueInLoop(d)
    BY <1>3, ClosedSteps
  <2>8. removeChannel(channel_).events_ = {} /\ removeChannel(channel_).interest = {}
    BY <2>1, ChannelEvents DEF ConnType
  <2>3. channel_'.events_ = {} /\ ~Registered(removeChannel(channel_))
    BY <2>1, <2>2, <2>8 DEF Registered
  <2>4. queueInLoop(d) => Waiting(dd)'
    BY <1>0, QueuedWaits
  <2>5. CASE inMap
    BY <2>1, <2>2, <2>3, <2>4, <2>5
  <2>6. CASE Waiting(dd)
    <3>1. Waiting(dd)' \/ connectDestroyed
      BY <2>6, WaitingStays, WhoDestroys
    <3> QED BY <2>1, <2>2, <2>3, <3>1
  <2>7. CASE ~Registered(channel_)
    BY <2>1, <2>2, <2>3, <2>7
  <2> QED BY <2>1, <2>5, <2>6, <2>7
<1> QED BY <1>2, <1>3 DEF ConnType

-----------------------------------------------------------------------------
(* Functors bound to the raw this.                                         *)

(* The queue and the batch are as before, or one functor of it has run.    *)
LEMMA RawKept ==
  ASSUME ConnType, RawInv, UNCHANGED <<pendingFunctors_, batch, inMap>>, stale => stale',
         done' \in {done, done + 1}
  PROVE  RawInv'
<1>1. done \in Nat /\ Len(batch) \in Nat /\ (done' = done \/ done' = done + 1)
  BY DEF ConnType
<1>2. \A i \in (done' + 1)..Len(batch) : i \in (done + 1)..Len(batch)
  <2>1. CASE done' = done
    BY <2>1
  <2>2. CASE done' = done + 1
    <3>1. \A i \in ((done + 1) + 1)..Len(batch) : i \in (done + 1)..Len(batch)
      BY <1>1
    <3> QED BY <2>2, <3>1
  <2> QED BY <1>1, <2>1, <2>2
<1> QED BY <1>2 DEF RawInv

(* A functor is queued: one that keeps the object alive, or one with the   *)
(* raw this while the server still has the connection.                     *)
LEMMA RawQueued ==
  ASSUME ConnType, RawInv, NEW f \in Functor, queueInLoop(f), batch' = batch,
         done' \in {done, done + 1}, stale => stale', inMap' = inMap \/ Destroyer(f),
         Raw(f) => stale' \/ inMap'
  PROVE  RawInv'
<1> DEFINE s == pendingFunctors_
           t == pendingFunctors_'
           n == Len(s) + 1
<1>1. /\ Len(s) \in Nat /\ Len(t) = n /\ t[n] = f /\ \A i \in 1..Len(s) : t[i] = s[i]
  BY AppendProperties DEF ConnType, queueInLoop
<1>2. done \in Nat /\ Len(batch) \in Nat /\ (done' = done \/ done' = done + 1)
  BY DEF ConnType
<1>3. \A i \in (done' + 1)..Len(batch) : i \in (done + 1)..Len(batch)
  <2>1. CASE done' = done
    BY <2>1
  <2>2. CASE done' = done + 1
    <3>1. \A i \in ((done + 1) + 1)..Len(batch) : i \in (done + 1)..Len(batch)
      BY <1>2
    <3> QED BY <2>2, <3>1
  <2> QED BY <1>2, <2>1, <2>2
<1>4. n \in 1..Len(t) /\ \A i \in 1..Len(t) : i = n \/ i \in 1..Len(s)
  BY <1>1
<1> SUFFICES ASSUME ~stale', ~inMap'
             PROVE  /\ \A i \in 1..Len(t) : Raw(t[i]) =>
                         \E j \in (i + 1)..Len(t) : Destroyer(t[j])
                    /\ \A i \in (done' + 1)..Len(batch) : Raw(batch[i]) =>
                         \/ \E j \in (i + 1)..Len(batch) : Destroyer(batch[j])
                         \/ \E j \in 1..Len(t) : Destroyer(t[j])
  BY DEF RawInv
<1>5. ~Raw(f)
  OBVIOUS
<1>6. CASE Destroyer(f)
  <2>1. \A i \in 1..Len(s) : n \in (i + 1)..Len(t)
    BY <1>1
  <2> HIDE DEF s, t, n
  <2> QED BY <1>1, <1>4, <1>5, <1>6, <2>1
<1>7. CASE ~inMap
  <2>1. /\ \A i \in 1..Len(s) : Raw(s[i]) => \E j \in (i + 1)..Len(s) : Destroyer(s[j])
        /\ \A i \in (done + 1)..Len(batch) : Raw(batch[i]) =>
             \/ \E j \in (i + 1)..Len(batch) : Destroyer(batch[j])
             \/ \E j \in 1..Len(s) : Destroyer(s[j])
    BY <1>7 DEF RawInv
  <2>2. \A i \in 1..Len(s) : \A j \in (i + 1)..Len(s) : j \in (i + 1)..Len(t) /\ t[j] = s[j]
    BY <1>1
  <2>3. \A j \in 1..Len(s) : j \in 1..Len(t) /\ t[j] = s[j]
    BY <1>1
  <2> HIDE DEF s, t, n
  <2>4. ASSUME NEW i \in 1..Len(t), Raw(t[i])
        PROVE  \E j \in (i + 1)..Len(t) : Destroyer(t[j])
    <3>1. i \in 1..Len(s) /\ Raw(s[i])
      BY <1>1, <1>4, <1>5, <2>4
    <3> QED BY <2>1, <2>2, <3>1
  <2>5. ASSUME NEW i \in (done' + 1)..Len(batch), Raw(batch[i])
        PROVE  \/ \E j \in (i + 1)..Len(batch) : Destroyer(batch[j])
               \/ \E j \in 1..Len(t) : Destroyer(t[j])
    BY <1>3, <2>1, <2>3, <2>5
  <2> QED BY <2>4, <2>5
<1> QED BY <1>6, <1>7

LEMMA RawStep == ASSUME ConnType, RawInv, [Next]_vars PROVE RawInv'
<1> DEFINE d == [fn |-> "connectDestroyed"]
           c == [fn |-> "forceClose"]
<1>0. /\ d \in Functor /\ c \in Functor /\ Destroyer(d) /\ ~Raw(d) /\ ~Raw(c)
  BY DEF Functor, Ops, Setters, Destroyer, Raw, Strong
<1>1. ASSUME handleClose \/ NotClosed, UNCHANGED <<batch, stale>>, done' \in {done, done + 1}
      PROVE  RawInv'
  <2>1. CASE NotClosed
    BY <1>1, <2>1, RawKept DEF NotClosed, server
  <2>2. CASE handleClose
    <3>1. \/ queueInLoop(d)
          \/ UNCHANGED <<pendingFunctors_, inMap>>
      BY <2>2 DEF handleClose, removeConnection, queueDestroyed
    <3> QED BY <1>0, <1>1, <3>1, RawKept, RawQueued
  <2> QED BY <1>1, <2>1, <2>2
<1> HIDE DEF d, c
<1> USE DEF server, flags, io
<1>2. CASE handleRead
  BY <1>1, <1>2 DEF handleRead
<1>3. CASE forceCloseInLoop
  BY <1>1, <1>3 DEF forceCloseInLoop, Run
<1>4. CASE runInLoop \/ connectEstablished \/ connectDestroyed
  BY <1>4, RawKept DEF runInLoop, connectEstablished, connectDestroyed, Run
<1>5. CASE doPendingFunctors
  <2>1. batch' = pendingFunctors_ /\ pendingFunctors_' = << >> /\ done' = 0
        /\ inMap' = inMap /\ stale' = stale
    BY <1>5 DEF doPendingFunctors
  <2> QED BY <2>1 DEF RawInv
<1>6. CASE functorsDone
  <2>1. batch' = << >> /\ pendingFunctors_' = pendingFunctors_ /\ done' = 0
        /\ inMap' = inMap /\ stale' = stale
    BY <1>6 DEF functorsDone
  <2> QED BY <2>1 DEF RawInv
<1>7. CASE removeConnectionInLoop
  BY <1>0, <1>7, RawQueued DEF removeConnectionInLoop, queueDestroyed, d
<1>8. CASE delayedForceClose
  BY <1>0, <1>8, RawKept, RawQueued DEF delayedForceClose, c
<1>9. ASSUME NEW u \in Users, userQueue(u) PROVE RawInv'
  <2>1. upc[u].op \in Functor
    BY <1>9 DEF userQueue, idle, ConnType, Functor
  <2>2. CASE upc[u].op.fn = "forceCloseWithDelay"
    BY <1>9, <2>2, RawKept DEF userQueue
  <2>3. CASE upc[u].op.fn # "forceCloseWithDelay"
    <3>1. /\ queueInLoop(upc[u].op) /\ UNCHANGED <<batch, done, inMap>>
          /\ stale' = (stale \/ (upc[u].op.fn \notin Strong /\ ~inMap))
      BY <1>9, <2>3 DEF userQueue
    <3>2. (stale => stale') /\ (Raw(upc[u].op) => stale' \/ inMap')
      BY <3>1 DEF ConnType, Raw
    <3> QED BY <2>1, <3>1, <3>2, RawQueued
  <2> QED BY <2>2, <2>3
<1>10. ASSUME NEW op \in Ops, loopCall(op) PROVE RawInv'
  <2>1. op.fn = "forceClose" => op = c
    BY DEF Ops, c
  <2> QED BY <1>0, <1>10, <2>1, RawKept, RawQueued DEF loopCall
<1>11. CASE peerStep \/ handleWrite \/ UNCHANGED vars
  BY <1>11, RawKept DEF peerStep, handleWrite, vars
<1>12. ASSUME NEW rev, poll(rev) PROVE RawInv'
  BY <1>12, RawKept DEF poll
<1>13. ASSUME NEW u, userSetState(u) \/ release(u) PROVE RawInv'
  BY <1>13, RawKept DEF userSetState, release
<1>14. ASSUME NEW u, NEW op, userCheck(u, op) \/ userSendBuffer(u, op) PROVE RawInv'
  BY <1>14, RawKept DEF userCheck, userSendBuffer
<1> QED BY <1>2, <1>3, <1>4, <1>5, <1>6, <1>7, <1>8, <1>9, <1>10, <1>11, <1>12, <1>13, <1>14
        DEF Next, IoStep

-----------------------------------------------------------------------------
(* User code on the I/O loop only.                                         *)

(* The descriptor on which the FIN was sent is not written to again.       *)
LEMMA PipeStep ==
  ASSUME ConnType, Fresh, Established, OpenInv, PipeInv, [Next]_vars
  PROVE  PipeInv'
<1> DEFINE raw == {"send", "shutdown"} \cup Reads
           Fin == wrShut' => state_' # "kConnected" /\ ~isWriting(channel_')
<1> SUFFICES ASSUME OnLoop
             PROVE  (\A u \in Users : upc'[u] = idle) /\ ~Waiting(raw)' /\ Fin
  BY DEF PipeInv, isWriting
<1>1. /\ \A u \in Users : upc[u] = idle
      /\ ~Waiting(raw) /\ (wrShut => state_ # "kConnected" /\ ~isWriting(channel_))
  BY DEF PipeInv
<1>2. ~Waiting(raw)'
  BY <1>1, WaitingNext DEF Source, Strong, Reads
<1>3. /\ idle.set = FALSE /\ \A u \in Users : u = LoopUser
  BY DEF idle, OnLoop
<1>4. \A u \in Users : ~userSetState(u) /\ ~userQueue(u)
  BY <1>1, <1>3 DEF userSetState, userQueue
<1>5. \A u \in Users : \A op : ~userCheck(u, op) /\ ~userSendBuffer(u, op)
  BY <1>3 DEF userCheck, userSendBuffer
<1>6. ~runInLoop
  BY <1>1, RunWaits DEF runInLoop
<1>7. UNCHANGED upc
  <2>1. CASE IoStep
    BY <2>1 DEF IoStep, handleRead, handleWrite, doPendingFunctors, functorsDone, runInLoop,
       forceCloseInLoop, connectEstablished, connectDestroyed, Run, users
  <2>2. CASE \/ peerStep \/ removeConnectionInLoop \/ delayedForceClose
             \/ (\E rev \in Events : poll(rev)) \/ UNCHANGED vars
    BY <2>2 DEF peerStep, removeConnectionInLoop, delayedForceClose, poll, users, vars
  <2>3. ASSUME NEW op, loopCall(op) PROVE UNCHANGED upc
    BY <2>3 DEF loopCall
  <2>4. ASSUME NEW u, release(u) PROVE UNCHANGED upc
    BY <2>4 DEF release
  <2> QED BY <1>4, <1>5, <2>1, <2>2, <2>3, <2>4 DEF Next
<1>8. Fin
  <2> HIDE DEF Fin
  <2>0. ASSUME UNCHANGED <<wrShut, channel_>>, state_' # "kConnected" \/ UNCHANGED state_
        PROVE  Fin
    BY <1>1, <2>0 DEF Fin
  <2>1. ASSUME handleClose, UNCHANGED wrShut PROVE Fin
    <3>1. channel_' = disableAll(channel_) /\ state_' = "kDisconnected"
      BY <2>1 DEF handleClose, closeChannel
    <3>2. channel_'.events_ = {}
      BY <3>1, ChannelEvents DEF ConnType
    <3> QED BY <3>1, <3>2 DEF Fin, isWriting
  <2> USE DEF conn
  <2>2. CASE handleRead
    BY <2>0, <2>1, <2>2 DEF handleRead, NotClosed
  <2>3. CASE forceCloseInLoop
    BY <2>0, <2>1, <2>3 DEF forceCloseInLoop, NotClosed
  <2>4. CASE handleWrite
    <3>1. CASE UNCHANGED <<wrShut, channel_>>
      BY <2>0, <2>4, <3>1 DEF handleWrite
    <3>2. CASE ~UNCHANGED <<wrShut, channel_>>
      <4>1. isWriting(channel_) /\ channel_' = disableWriting(channel_)
        BY <2>4, <3>2 DEF handleWrite, Drained
      <4>2. wrShut' = (wrShut \/ FinWhenDrained(channel_')) /\ state_' = state_ /\ ~wrShut
        BY <1>1, <2>4, <3>2, <4>1 DEF handleWrite
      <4>3. wrShut' => state_' = "kDisconnecting"
        BY <4>2 DEF FinWhenDrained
      <4>4. ~isWriting(channel_')
        BY <4>1, ChannelEvents DEF isWriting, ConnType
      <4> QED BY <4>3, <4>4 DEF Fin
    <3> QED BY <3>1, <3>2
  <2>5. CASE connectEstablished
    <3>1. ~wrShut /\ wrShut' = wrShut
      BY <2>5, EstablishFresh DEF connectEstablished, Fresh
    <3> QED BY <3>1 DEF Fin
  <2>6. CASE connectDestroyed
    <3>1. CASE wrShut
      <4>1. channel_' = removeChannel(channel_) /\ state_' = state_
        BY <1>1, <2>6, <3>1 DEF connectDestroyed
      <4>2. channel_'.events_ = channel_.events_
        BY <4>1, ChannelEvents DEF ConnType
      <4> QED BY <1>1, <3>1, <4>1, <4>2 DEF Fin, isWriting
    <3>2. CASE ~wrShut
      BY <2>6, <3>2 DEF connectDestroyed, Fin
    <3> QED BY <3>1, <3>2
  <2>7. CASE \/ peerStep \/ doPendingFunctors \/ functorsDone \/ removeConnectionInLoop
             \/ delayedForceClose \/ UNCHANGED vars
    BY <2>0, <2>7 DEF peerStep, doPendingFunctors, functorsDone, removeConnectionInLoop,
       delayedForceClose, vars
  <2>8. ASSUME NEW rev, poll(rev) PROVE Fin
    BY <2>0, <2>8 DEF poll
  <2>9. ASSUME NEW u, release(u) PROVE Fin
    BY <2>0, <2>9 DEF release
  <2>10. ASSUME NEW op \in Ops, loopCall(op) PROVE Fin
    <3>1. CASE op.fn = "send"
      <4>1. state_ = "kConnected"
        BY <2>10, <3>1 DEF loopCall, Call, Allowed
      <4>2. ~wrShut /\ wrShut' = wrShut
        BY <1>1, <2>10, <3>1, <4>1 DEF loopCall, InLoop
      <4> QED BY <4>2 DEF Fin
    <3>2. CASE op.fn = "shutdown"
      <4>1. /\ wrShut' = (wrShut \/ ~isWriting(channel_)) /\ channel_' = channel_
            /\ state_' = "kDisconnecting"
        BY <2>10, <3>2 DEF loopCall, InLoop, shutdownInLoop, Setters
      <4> QED BY <1>1, <4>1 DEF Fin
    <3>3. CASE op.fn \in {"forceClose", "forceCloseWithDelay"}
      BY <2>0, <2>10, <3>3 DEF loopCall, Setters
    <3>4. CASE op.fn \in Reads
      <4>1. InLoop(op) /\ state_' = state_
        BY <2>10, <3>4 DEF loopCall, Setters, Reads
      <4>2. /\ wrShut' = wrShut
            /\ channel_' \in {channel_, enableReading(channel_), disableReading(channel_)}
        BY <3>4, <4>1 DEF InLoop, Reads, startReadInLoop, stopReadInLoop
      <4>3. isWriting(channel_') <=> isWriting(channel_)
        BY <4>2, ChannelEvents DEF isWriting, ConnType
      <4> QED BY <1>1, <4>1, <4>2, <4>3 DEF Fin
    <3> QED BY <3>1, <3>2, <3>3, <3>4 DEF Ops, Setters, Reads
  <2> QED BY <1>4, <1>5, <1>6, <2>2, <2>3, <2>4, <2>5, <2>6, <2>7, <2>8, <2>9, <2>10
          DEF Next, IoStep
<1> QED BY <1>1, <1>2, <1>7, <1>8

(* What a step does at the end of the stream: after the FIN nothing, and   *)
(* the FIN itself is sent with an empty buffer.                            *)
AtEnd ==
  /\ wrShut => UNCHANGED <<sent, wire, wrShut, brokenWrite>>
  /\ ~wrShut => /\ UNCHANGED brokenWrite
                /\ wrShut' = wrShut \/ (wrShut' = TRUE /\ outputBuffer_' = << >>)

LEMMA EndStep ==
  ASSUME OnLoop, ConnType, OutputType, OpenInv, WritingIffBuffered, PipeInv, [Next]_vars
  PROVE  AtEnd
<1>1. /\ \A u \in Users : upc[u] = idle
      /\ ~Waiting({"send", "shutdown"} \cup Reads)
      /\ wrShut => state_ # "kConnected" /\ ~isWriting(channel_)
      /\ wrShut \in BOOLEAN /\ brokenWrite \in BOOLEAN
  BY DEF PipeInv, ConnType
<1>2. ~runInLoop
  BY <1>1, RunWaits DEF runInLoop
<1>3. ASSUME UNCHANGED <<sent, wire, wrShut, brokenWrite>> PROVE AtEnd
  BY <1>3 DEF AtEnd
<1>4. AfterWrite /\ ~wrShut => UNCHANGED brokenWrite
  BY <1>1 DEF AfterWrite
<1>5. CASE handleWrite
  <2>1. CASE ~(handleEventWithGuard("write") /\ isWriting(channel_))
    BY <1>3, <1>5, <2>1 DEF handleWrite
  <2>2. CASE handleEventWithGuard("write") /\ isWriting(channel_)
    <3>1. ~wrShut /\ UNCHANGED brokenWrite
      BY <1>1, <1>4, <1>5, <2>2 DEF handleWrite
    <3>2. CASE wrShut' = wrShut
      BY <3>1, <3>2 DEF AtEnd
    <3>3. CASE wrShut' # wrShut
      <4>1. /\ outputBuffer_' = SubSeq(outputBuffer_, Len(outputBuffer_) + 1, Len(outputBuffer_))
            /\ wrShut' = (wrShut \/ FinWhenDrained(channel_'))
        BY <1>5, <2>2, <3>3 DEF handleWrite
      <4>2. outputBuffer_' = << >>
        BY <4>1, SubSeqEmpty DEF OutputType
      <4>3. wrShut' = TRUE
        <5>1. wrShut = FALSE /\ wrShut' \in BOOLEAN
          BY <1>1, <3>1, <4>1
        <5> QED BY <3>3, <5>1
      <4> QED BY <3>1, <4>2, <4>3 DEF AtEnd
    <3> QED BY <3>2, <3>3
  <2> QED BY <2>1, <2>2
<1> USE DEF conn, out
<1>6. ASSUME NEW op \in Ops, loopCall(op) PROVE AtEnd
  <2>1. CASE op.fn = "send"
    <3>1. state_ = "kConnected" /\ InLoop(op)
      BY <1>6, <2>1 DEF loopCall, Call, Allowed
    <3>2. ~wrShut /\ wrShut' = wrShut /\ sendInLoop(op.msg)
      BY <1>1, <2>1, <3>1 DEF InLoop
    <3>3. UNCHANGED brokenWrite
      BY <1>4, <3>2 DEF sendInLoop
    <3> QED BY <3>2, <3>3 DEF AtEnd
  <2>2. CASE op.fn = "shutdown"
    <3>1. state_ = "kConnected" /\ InLoop(op)
      BY <1>6, <2>2 DEF loopCall, Call, Allowed
    <3>2. /\ ~wrShut /\ wrShut' = (wrShut \/ ~isWriting(channel_))
          /\ UNCHANGED <<brokenWrite, outputBuffer_>>
      BY <1>1, <2>2, <3>1 DEF InLoop, shutdownInLoop
    <3>3. isWriting(channel_) <=> outputBuffer_ # << >>
      BY <3>1 DEF WritingIffBuffered, OpenInv
    <3>4. wrShut = FALSE /\ wrShut' \in BOOLEAN
      BY <1>1, <3>2
    <3>5. wrShut' = wrShut \/ (wrShut' = TRUE /\ outputBuffer_' = << >>)
      BY <3>2, <3>3, <3>4
    <3> QED BY <3>2, <3>5 DEF AtEnd
  <2>3. CASE op.fn \notin {"send", "shutdown"}
    <3>1. UNCHANGED <<sent, wire, wrShut, brokenWrite>>
      BY <1>6, <2>3 DEF loopCall, InLoop
    <3> QED BY <1>3, <3>1
  <2> QED BY <2>1, <2>2, <2>3
<1>7. CASE \/ handleRead \/ doPendingFunctors \/ functorsDone \/ forceCloseInLoop
           \/ connectEstablished \/ connectDestroyed
  BY <1>3, <1>7 DEF handleRead, doPendingFunctors, functorsDone, forceCloseInLoop,
     connectEstablished, connectDestroyed
<1>8. CASE \/ peerStep \/ removeConnectionInLoop \/ delayedForceClose \/ UNCHANGED vars
  BY <1>3, <1>8 DEF peerStep, removeConnectionInLoop, delayedForceClose, vars
<1>9. ASSUME NEW rev, poll(rev) PROVE AtEnd
  BY <1>3, <1>9 DEF poll
<1>10. ASSUME NEW u, userSetState(u) \/ userQueue(u) \/ release(u) PROVE AtEnd
  BY <1>3, <1>10 DEF userSetState, userQueue, release
<1>11. ASSUME NEW u, NEW op, userCheck(u, op) \/ userSendBuffer(u, op) PROVE AtEnd
  BY <1>3, <1>11 DEF userCheck, userSendBuffer
<1> QED BY <1>2, <1>5, <1>6, <1>7, <1>8, <1>9, <1>10, <1>11 DEF Next, IoStep

LEMMA PrefixOfConcat ==
  ASSUME NEW s \in Seq(Bytes), NEW t \in Seq(Bytes)
  PROVE  Pipe!IsPrefix(s, s \o t)
<1>1. Len(s) \in Nat /\ Len(t) \in Nat /\ Len(s \o t) = Len(s) + Len(t)
  BY ConcatProperties
<1>2. SubSeq(s, 1, Len(s)) = SubSeq(s \o t, 1, Len(s))
  <2>1. CASE Len(s) = 0
    BY <2>1, SubSeqEmpty
  <2>2. CASE Len(s) # 0
    <3>1. 1 \in 1..Len(s) /\ Len(s) \in 1..Len(s)
      BY <1>1, <2>2
    <3> QED BY <3>1, SubSeqOfConcat1
  <2> QED BY <2>1, <2>2
<1> QED BY <1>1, <1>2 DEF Pipe!IsPrefix

-----------------------------------------------------------------------------
ConnInv ==
  /\ ConnType /\ OutputType /\ OutputOrder /\ Fresh /\ Established /\ OpenInv
  /\ WritingIffBuffered /\ ClosedInv /\ RawInv /\ PipeInv

LEMMA InitConnInv == Init => ConnInv
<1> SUFFICES ASSUME Init PROVE ConnInv
  OBVIOUS
<1> DEFINE e == [fn |-> "connectEstablished"]
<1>1. e \in Functor
  BY DEF Functor
<1>2. Consistent(channel_) /\ channel_.interest \subseteq {channel_.events_}
      /\ channel_.events_ = {}
  BY ChannelAssumption DEF ChannelAssumption, Init, newChannel, Consistent, ChannelType,
                           Registered
<1>3. /\ pendingFunctors_ = <<e>> /\ batch = << >> /\ done = 0 /\ inMap = TRUE
  BY DEF Init, newConnection
<1>4. pendingFunctors_ \in Seq(Functor) /\ batch \in Seq(Functor) /\ Len(batch) = 0
      /\ Len(pendingFunctors_) = 1 /\ pendingFunctors_[1] = e
  BY <1>1, <1>3
<1>5. ASSUME NEW fns, "connectEstablished" \notin fns PROVE ~Waiting(fns)
  BY <1>3, <1>4, <1>5 DEF Waiting
<1>6. upc \in [Users -> [op : Ops \cup {[fn |-> "idle"]}, set : BOOLEAN]]
  BY DEF Init, idle
<1>7. ConnType
  <2>1. /\ state_ \in States /\ pc \in {"poll", "dispatch", "guarded", "swap", "functors"}
        /\ done \in 0..Len(batch) /\ baseQueue \in Nat /\ closes \in Nat
    BY <1>3, <1>4 DEF Init, States
  <2>2. /\ inMap \in BOOLEAN /\ wrShut \in BOOLEAN /\ brokenWrite \in BOOLEAN
        /\ delayed \in BOOLEAN /\ revived \in BOOLEAN /\ late \in BOOLEAN
        /\ stale \in BOOLEAN
    BY <1>3 DEF Init
  <2> QED BY <1>2, <1>3, <1>4, <1>6, <2>1, <2>2 DEF ConnType
<1>8. OutputType /\ OutputOrder
  BY DEF Init, OutputType, OutputOrder
<1>9. Fresh /\ Established
  BY <1>2, <1>3 DEF Init, Fresh, Established
<1>10. OpenInv /\ WritingIffBuffered /\ ClosedInv /\ RawInv
  BY <1>3, <1>5 DEF Init, OpenInv, WritingIffBuffered, ClosedInv, RawInv
<1>11. PipeInv
  BY <1>5 DEF Init, PipeInv, Reads
<1> QED BY <1>7, <1>8, <1>9, <1>10, <1>11 DEF ConnInv

LEMMA NextConnInv == ConnInv /\ [Next]_vars => ConnInv'
BY ConnTypeStep, OrderStep, FreshStep, EstablishedStep, OpenStep, WritingStep, ClosedStep,
   RawStep, PipeStep DEF ConnInv

(* The inductive invariant of the connection, for any number of users,     *)
(* messages and calls, and whether or not the base loop is the I/O loop.   *)
THEOREM ConnectionSafe == Spec => []ConnInv
BY InitConnInv, NextConnInv, PTL DEF Spec

(* The bytes written and those buffered are the bytes taken over, in       *)
(* order, through every partial write (sendInLoop, handleWrite).           *)
THEOREM OutputSafe == Spec => []OutputOrder
<1>1. ConnInv => OutputOrder
  BY DEF ConnInv
<1> QED BY <1>1, ConnectionSafe, PTL

(* An open connection asks for POLLOUT exactly while bytes wait.           *)
THEOREM WritingSafe == Spec => []WritingIffBuffered
<1>1. ConnInv => WritingIffBuffered
  BY DEF ConnInv
<1> QED BY <1>1, ConnectionSafe, PTL

(* handleClose runs at most once, unless a setState raced with it or a     *)
(* startRead came after it.                                                *)
THEOREM CloseSafe == Spec => []CloseOnce
<1>1. ConnInv => CloseOnce
  BY DEF ConnInv, ClosedInv, CloseOnce, ConnType
<1> QED BY <1>1, ConnectionSafe, PTL

(* A closed connection reports no events, and a destroyed one has left the *)
(* interest list, with the same exceptions.                                *)
THEOREM SilentSafe == Spec => []ClosedIsSilent
<1>1. ConnInv => ClosedIsSilent
  <2> SUFFICES ASSUME ConnInv, ~revived, ~late
               PROVE  /\ closes > 0 => channel_.interest \subseteq {{}}
                      /\ ~Alive => ~Registered(channel_)
    BY DEF ClosedIsSilent
  <2>1. closes \in Nat /\ channel_.interest \subseteq {channel_.events_}
    BY DEF ConnInv, ConnType
  <2>2. Waiting({"connectDestroyed"}) => Alive
    <3>1. Waiting({"connectDestroyed"}) => Waiting(Strong)
      BY DEF Waiting, Strong
    <3> QED BY <3>1, WaitingAlive DEF ConnInv
  <2>3. inMap => Alive
    BY DEF Alive
  <2>4. CASE closes = 0
    BY <2>3, <2>4 DEF ConnInv, OpenInv
  <2>5. CASE closes > 0
    BY <2>1, <2>2, <2>3, <2>5 DEF ConnInv, ClosedInv
  <2> QED BY <2>1, <2>4, <2>5
<1> QED BY <1>1, ConnectionSafe, PTL

(* Events are dispatched, and functors bound to the raw this are run, on a *)
(* live object only: connectDestroyed, which keeps it alive, is the last   *)
(* of its functors unless one was queued after the removal.                *)
THEOREM LifetimeSafe == Spec => []NoUseAfterFree
<1>1. ConnInv => NoUseAfterFree
  <2> SUFFICES ASSUME ConnInv PROVE NoUseAfterFree
    OBVIOUS
  <2>1. inMap => Alive
    BY DEF Alive
  <2>2. ASSUME NEW fns, fns \subseteq Strong, Waiting(fns) PROVE Alive
    <3>1. Waiting(Strong)
      BY <2>2 DEF Waiting
    <3> QED BY <3>1, WaitingAlive DEF ConnInv
  <2>3. pc = "dispatch" => Alive \/ revived \/ late
    <3>1. pc = "dispatch" /\ ~revived /\ ~late => closes = 0
      BY DEF ConnInv, ClosedInv, ConnType
    <3> QED BY <2>1, <3>1 DEF ConnInv, OpenInv
  <2>4. ASSUME pc = "functors", done < Len(batch), ~stale PROVE Alive
    <3>1. done + 1 \in (done + 1)..Len(batch)
      BY <2>4 DEF ConnInv, ConnType
    <3>2. CASE batch[done + 1].fn \in Strong
      BY <2>2, <3>1, <3>2 DEF Waiting
    <3>3. CASE Raw(batch[done + 1]) /\ ~inMap
      <4>1. \/ \E j \in (done + 1 + 1)..Len(batch) : Destroyer(batch[j])
            \/ \E j \in 1..Len(pendingFunctors_) : Destroyer(pendingFunctors_[j])
        BY <2>4, <3>1, <3>3 DEF ConnInv, RawInv
      <4>2. \A j \in (done + 1 + 1)..Len(batch) : j \in (done + 1)..Len(batch)
        BY DEF ConnInv, ConnType
      <4>3. Waiting({"connectDestroyed"})
        BY <4>1, <4>2 DEF Waiting, Destroyer
      <4> QED BY <2>2, <4>3 DEF Strong
    <3> QED BY <2>1, <3>2, <3>3 DEF Raw
  <2> QED BY <2>3, <2>4 DEF NoUseAfterFree
<1> QED BY <1>1, ConnectionSafe, PTL

(* With user code on the I/O loop only, the sending side of the connection *)
(* implements the pipe of bytes: the FIN follows all the bytes taken over, *)
(* also when it has to wait for the buffer, and nothing comes after it.    *)
THEOREM PipeRefinement == ASSUME OnLoop PROVE Spec => ImplementsBytePipe
<1>1. Init => Pipe!AbsInit
  BY DEF Init, Pipe!AbsInit
<1>2. ConnInv /\ [Next]_vars => [Pipe!AbsNext]_(Pipe!absVars)
  <2> SUFFICES ASSUME ConnInv, [Next]_vars PROVE [Pipe!AbsNext]_(Pipe!absVars)
    OBVIOUS
  <2>1. OutputType /\ OutputType' /\ OutputOrder' /\ Grows /\ AtEnd
    BY OrderStep, EndStep DEF ConnInv
  <2>2. CASE wrShut
    BY <2>1, <2>2 DEF AtEnd, Pipe!absVars
  <2>3. CASE ~wrShut
    <3>1. Pipe!Transfer
      <4>1. Pipe!IsPrefix(wire', sent')
        BY <2>1, PrefixOfConcat DEF OutputType, OutputOrder
      <4>2. Pipe!IsPrefix(sent, sent') /\ Pipe!IsPrefix(wire, wire')
        BY <2>1, PrefixOfConcat DEF OutputType, Grows
      <4> QED BY <4>1, <4>2 DEF Pipe!Transfer
    <3>2. outputBuffer_' = << >> => wire' = sent'
      BY <2>1, ConcatEmptySeq DEF OutputType, OutputOrder
    <3>3. Pipe!End \/ wrShut' = wrShut
      BY <2>1, <2>3, <3>2 DEF AtEnd, Pipe!End
    <3> QED BY <2>1, <2>3, <3>1, <3>3 DEF AtEnd, Pipe!AbsNext
  <2> QED BY <2>2, <2>3
<1> QED BY <1>1, <1>2, ConnectionSafe, PTL DEF Spec, ImplementsBytePipe, Pipe!AbsSpec
=============================================================================
