---------------------------- MODULE TcpConnection ----------------------------
(***************************************************************************)
(* The life of one TcpConnection: from TcpServer::newConnection, which has *)
(* put it into connections_ and queued connectEstablished, to its last     *)
(* shared_ptr.  Actors: the I/O loop that owns it, the server's base loop, *)
(* user threads that hold a shared_ptr to it, the peer.                    *)
(*                                                                         *)
(* A functor bound to shared_from_this() keeps the object alive, one bound *)
(* to a raw this (send, shutdown, startRead, stopRead) does not.  The      *)
(* functors of a batch are destroyed together when the batch is done.      *)
(* writeCompleteCallback_ is not set, as by default.  outputBuffer_ has no *)
(* limit here: the model stands for the code while no more output waits    *)
(* than fits into a Buffer, which does not grow (NeverOverrun in Buffer).  *)
(***************************************************************************)
EXTENDS Channel, Integers, Sequences, SequencesExt

CONSTANTS Users,      \* threads given a shared_ptr by the connection callback
          LoopUser,   \* as a member of Users: user code on the I/O loop
          Messages,   \* each is sent at most once
          MaxCalls    \* bound on user calls

ASSUME TcpConnectionAssumption == MaxCalls \in Nat

VARIABLES state_, reading_, channel_, outputBuffer_,
          peer,              \* "open", "fin", "reset", "gone": reset and read
          wrShut, wire,      \* the socket: FIN sent, bytes taken by write()
          pendingFunctors_, batch, done,   \* I/O loop: queue, batch, number run
          pc, revents_,      \* I/O loop: where it is, events reported
          baseIsIo,          \* TcpServer::loop_ is the I/O loop: no I/O threads
          inMap, baseQueue,  \* TcpServer::connections_, queued removals
          held, upc,         \* shared_ptrs of users, where each user is
          delayed,           \* a forceCloseWithDelay timer is set
          calls, asked,      \* user calls made, messages passed to send()
          sent,              \* history: bytes sendInLoop took over
          closes,            \* history: number of handleClose calls
          revived,           \* history: setState overwrote kDisconnected
          late,              \* history: start/stopRead ran after the close
          stale,             \* history: raw functor queued after the removal
          brokenWrite        \* history: write() after shutdownWrite()

out    == <<outputBuffer_, sent, wire, peer, brokenWrite>>
conn   == <<state_, reading_, channel_, wrShut, out>>
io     == <<batch, done, pc, revents_>>
server == <<baseIsIo, inMap, baseQueue>>
users  == <<held, upc, calls, asked>>
flags  == <<closes, revived, late, stale>>
vars   == <<conn, io, pendingFunctors_, server, users, delayed, flags>>

States == {"kConnecting", "kConnected", "kDisconnecting", "kDisconnected"}
Strong == {"connectEstablished", "connectDestroyed", "forceClose"}
Setters == {"shutdown", "forceClose", "forceCloseWithDelay"}
Reads == {"startRead", "stopRead"}
Ops == {[fn |-> f] : f \in Setters \cup Reads}
         \cup {[fn |-> "send", msg |-> m] : m \in Messages}

idle == [op |-> [fn |-> "idle"], set |-> FALSE]    \* a user between calls

Data(m) == << <<m, 1>>, <<m, 2>> >>    \* a message of two bytes

Alive == \/ inMap \/ baseQueue > 0 \/ held # {} \/ pc = "guarded"
         \/ \E f \in ToSet(pendingFunctors_) \cup ToSet(batch) : f.fn \in Strong

(* TcpServer::newConnection, with I/O threads or, as by default, without.  *)
(* If the base loop is the I/O loop, runInLoop calls connectEstablished at *)
(* once, before anything else can happen.                                  *)
newConnection ==
  /\ baseIsIo \in BOOLEAN
  /\ inMap = TRUE /\ pendingFunctors_ = <<[fn |-> "connectEstablished"]>>

Init ==
  /\ newConnection
  /\ state_ = "kConnecting" /\ reading_ = TRUE /\ channel_ = newChannel
  /\ outputBuffer_ = << >> /\ sent = << >> /\ wire = << >>
  /\ wrShut = FALSE /\ peer = "open"
  /\ batch = << >> /\ done = 0 /\ pc = "poll" /\ revents_ = {}
  /\ baseQueue = 0
  /\ held = {} /\ upc = [u \in Users |-> idle] /\ calls = 0 /\ asked = {}
  /\ delayed = FALSE /\ closes = 0
  /\ revived = FALSE /\ late = FALSE /\ stale = FALSE /\ brokenWrite = FALSE

(* The peer closes its side or resets the connection.                      *)
peerStep ==
  /\ \/ peer = "open" /\ peer' \in {"fin", "reset"}
     \/ peer = "fin" /\ peer' = "reset"
  /\ UNCHANGED <<state_, reading_, channel_, wrShut, outputBuffer_, sent, wire, brokenWrite,
                 io, pendingFunctors_, server, users, delayed, flags>>

(* Results of write() of k bytes: the count taken (0: EWOULDBLOCK), or -1  *)
(* for EPIPE and ECONNRESET.  The process is taken to ignore SIGPIPE: the  *)
(* repository leaves that to the program that uses it, and without it such *)
(* a write would end the process (SocketOops.cc:133).                      *)
WriteResults(k) == IF wrShut \/ peer \in {"reset", "gone"} THEN {-1} ELSE 0..k

AfterWrite ==
  /\ peer' = IF peer = "reset" THEN "gone" ELSE peer
  /\ brokenWrite' = (brokenWrite \/ wrShut)

queueInLoop(f) == pendingFunctors_' = Append(pendingFunctors_, f)

-----------------------------------------------------------------------------
(* Deliberate defects of the definitions below, used to see the properties *)
(* fail.                                                                   *)

(* Writes to the socket although older data waits in outputBuffer_.        *)
CanWriteDirectly_always == TRUE

(* shutdownWrite() without a test of isWriting().                          *)
shutdownInLoop_atOnce(c) == TRUE

(* No test of state_ before the close.                                     *)
ClosableStates_all == States

(* POLLOUT stays enabled when the buffer has been written.                 *)
Drained_keepsWriting(c) == c

(* The drained buffer is not followed by the pending shutdown.             *)
FinWhenDrained_never(c) == FALSE

(* The base loop leaves the connection in connections_.                    *)
removeConnectionInLoop_keeps ==
  /\ baseQueue > 0 /\ baseQueue' = baseQueue - 1
  /\ queueInLoop([fn |-> "connectDestroyed"])
  /\ UNCHANGED <<inMap, baseIsIo, conn, io, users, delayed, flags>>

(* The close leaves the channel's events as they are.                      *)
closeChannel_keepsEvents(c) == c

(* removeConnectionInLoop posts no connectDestroyed.                       *)
queueDestroyed_not == UNCHANGED pendingFunctors_

(* The end of the stream is read and no close follows.                     *)
EndOfStream_ignored == {}

-----------------------------------------------------------------------------
(* The connection's functions, as they run on the I/O loop.                *)

CanWriteDirectly == ~isWriting(channel_) /\ outputBuffer_ = << >>

Unwritten(m, n) == SubSeq(Data(m), n + 1, 2)

sendInLoop(m) ==
  \/ state_ = "kDisconnected" /\ UNCHANGED <<channel_, out>>
  \/ /\ state_ # "kDisconnected"
     /\ \E n \in IF CanWriteDirectly THEN WriteResults(2) ELSE {0} :
          /\ wire' = wire \o SubSeq(Data(m), 1, n)
          /\ sent' = IF n = -1 THEN sent ELSE sent \o Data(m)
          /\ IF n \in 0..1
             THEN /\ outputBuffer_' = outputBuffer_ \o Unwritten(m, n)
                  /\ channel_' = IF isWriting(channel_) THEN channel_
                                                        ELSE enableWriting(channel_)
             ELSE UNCHANGED <<outputBuffer_, channel_>>
     /\ IF CanWriteDirectly THEN AfterWrite ELSE UNCHANGED <<peer, brokenWrite>>

(* Whether shutdownInLoop calls shutdownWrite().                           *)
shutdownInLoop(c) == ~isWriting(c)

startReadInLoop ==
  IF ~reading_ \/ ~isReading(channel_)
  THEN channel_' = enableReading(channel_) /\ reading_' = TRUE
  ELSE UNCHANGED <<channel_, reading_>>

stopReadInLoop ==
  IF reading_ \/ isReading(channel_)
  THEN channel_' = disableReading(channel_) /\ reading_' = FALSE
  ELSE UNCHANGED <<channel_, reading_>>

(* What send, shutdown, startRead and stopRead do once on the loop.        *)
InLoop(op) ==
  /\ \/ op.fn = "send" /\ sendInLoop(op.msg) /\ UNCHANGED <<reading_, wrShut>>
     \/ /\ op.fn = "shutdown" /\ wrShut' = (wrShut \/ shutdownInLoop(channel_))
        /\ UNCHANGED <<channel_, reading_, out>>
     \/ op.fn = "startRead" /\ startReadInLoop /\ UNCHANGED <<wrShut, out>>
     \/ op.fn = "stopRead" /\ stopReadInLoop /\ UNCHANGED <<wrShut, out>>
  /\ late' = (late \/ (op.fn \in Reads /\ closes > 0))

(* TcpServer::removeConnectionInLoop, run by the base loop.                *)
erase == inMap' = FALSE
queueDestroyed == queueInLoop([fn |-> "connectDestroyed"])

(* TcpServer::removeConnection, the close callback.                        *)
removeConnection ==
  /\ IF baseIsIo THEN erase /\ queueDestroyed /\ UNCHANGED baseQueue
                 ELSE baseQueue' = baseQueue + 1 /\ UNCHANGED <<inMap, pendingFunctors_>>
  /\ UNCHANGED baseIsIo

closeChannel(c) == disableAll(c)

handleClose ==
  /\ state_' = "kDisconnected" /\ channel_' = closeChannel(channel_)
  /\ closes' = closes + 1
  /\ removeConnection

ClosableStates == {"kConnected", "kDisconnecting"}

(* States of the peer in which readFd returns 0.                           *)
EndOfStream == {"fin", "gone"}

NotClosed == UNCHANGED <<state_, channel_, closes, server, pendingFunctors_>>

-----------------------------------------------------------------------------
(* Calls by user code.                                                     *)

Allowed(op) ==
  /\ op.fn \in {"send", "shutdown"} => state_ = "kConnected"
  /\ op.fn \in {"forceClose", "forceCloseWithDelay"} => state_ \in ClosableStates

Call(u, op) ==
  /\ u \in held /\ upc[u] = idle /\ Allowed(op)
  /\ calls < MaxCalls /\ calls' = calls + 1
  /\ op.fn = "send" => op.msg \notin asked
  /\ asked' = IF op.fn = "send" THEN asked \cup {op.msg} ELSE asked

(* Another thread: the test of state_, setState, and the hand-over to the  *)
(* loop are separate steps.                                                *)
userCheck(u, op) ==
  /\ u # LoopUser /\ Call(u, op)
  /\ upc' = [upc EXCEPT ![u] = [op |-> op, set |-> op.fn \in Setters]]
  /\ UNCHANGED <<conn, io, pendingFunctors_, server, held, delayed, flags>>

userSetState(u) ==
  /\ upc[u].set /\ upc' = [upc EXCEPT ![u].set = FALSE]
  /\ state_' = "kDisconnecting" /\ revived' = (revived \/ state_ = "kDisconnected")
  /\ UNCHANGED <<reading_, channel_, wrShut, out, io, pendingFunctors_, server, held, calls,
                 asked, delayed, closes, late, stale>>

userQueue(u) ==
  /\ upc[u] # idle /\ ~upc[u].set /\ upc' = [upc EXCEPT ![u] = idle]
  /\ LET op == upc[u].op IN
     IF op.fn = "forceCloseWithDelay"
     THEN delayed' = TRUE /\ UNCHANGED <<pendingFunctors_, stale>>
     ELSE /\ queueInLoop(op) /\ UNCHANGED delayed
          /\ stale' = (stale \/ (op.fn \notin Strong /\ ~inMap))
  /\ UNCHANGED <<conn, io, server, held, calls, asked, closes, revived, late>>

(* The Buffer* overload of send, called from another thread, empties the   *)
(* user's buffer and drops the bound functor: nothing is queued.           *)
userSendBuffer(u, m) ==
  /\ u # LoopUser /\ Call(u, [fn |-> "send", msg |-> m])
  /\ UNCHANGED <<conn, io, pendingFunctors_, server, held, upc, delayed, flags>>

(* User code on the I/O loop: runInLoop calls the function directly.       *)
loopCall(op) ==
  /\ Call(LoopUser, op)
  /\ state_' = IF op.fn \in Setters THEN "kDisconnecting" ELSE state_
  /\ IF op.fn \in {"forceClose", "forceCloseWithDelay"}
     THEN UNCHANGED <<channel_, reading_, wrShut, out, late>>
     ELSE InLoop(op)
  /\ IF op.fn = "forceClose" THEN queueInLoop(op) ELSE UNCHANGED pendingFunctors_
  /\ delayed' = (delayed \/ op.fn = "forceCloseWithDelay")
  /\ UNCHANGED <<io, server, held, upc, closes, revived, stale>>

(* A user drops its shared_ptr, with its functors perhaps still queued.    *)
release(u) ==
  /\ u \in held /\ upc[u] = idle /\ held' = held \ {u}
  /\ UNCHANGED <<conn, io, pendingFunctors_, server, upc, calls, asked, delayed, flags>>

(* The timer of forceCloseWithDelay holds a weak_ptr and calls forceClose. *)
delayedForceClose ==
  /\ delayed /\ delayed' = FALSE
  /\ IF Alive /\ state_ \in ClosableStates
     THEN state_' = "kDisconnecting" /\ queueInLoop([fn |-> "forceClose"])
     ELSE UNCHANGED <<state_, pendingFunctors_>>
  /\ UNCHANGED <<reading_, channel_, wrShut, out, io, server, users, flags>>

-----------------------------------------------------------------------------
(* The I/O loop: channel events.  The descriptor of a destroyed connection *)
(* is closed, which takes it out of the interest list.                     *)
poll(rev) ==
  /\ pc = "poll" /\ pc' = "dispatch"
  /\ Alive /\ rev # {} /\ \E evs \in channel_.interest : rev \subseteq evs
  /\ revents_' = rev
  /\ UNCHANGED <<conn, batch, done, pendingFunctors_, server, users, delayed, flags>>

(* Channel::handleEvent locks the tie, which holds a shared_ptr until both *)
(* callbacks, chosen by revents_, have returned.                           *)
handleEvent == pc = "dispatch" /\ Alive /\ pc' = "guarded"
handleEventWithGuard(ev) == ev \in revents_

(* The read callback: data, end of file, or an error that is only logged.  *)
handleRead ==
  /\ handleEvent
  /\ \/ /\ ~handleEventWithGuard("read") \/ peer \notin EndOfStream \cup {"reset"}
        /\ NotClosed /\ UNCHANGED peer
     \/ /\ handleEventWithGuard("read") /\ peer \in EndOfStream
        /\ handleClose /\ UNCHANGED peer
     \/ /\ handleEventWithGuard("read") /\ peer = "reset" /\ peer' = "gone"
        /\ NotClosed
  /\ UNCHANGED <<reading_, wrShut, outputBuffer_, sent, wire, brokenWrite, batch, done,
                 revents_, users, delayed, revived, late, stale>>

Drained(c) == disableWriting(c)
FinWhenDrained(c) == state_ = "kDisconnecting" /\ shutdownInLoop(c)

handleWrite ==
  /\ pc = "guarded" /\ pc' = "swap" /\ revents_' = {}
  /\ IF handleEventWithGuard("write") /\ isWriting(channel_)
     THEN /\ AfterWrite
          /\ \E n \in WriteResults(Len(outputBuffer_)) :
               IF n > 0
               THEN /\ wire' = wire \o SubSeq(outputBuffer_, 1, n)
                    /\ outputBuffer_' = SubSeq(outputBuffer_, n + 1, Len(outputBuffer_))
                    /\ IF n = Len(outputBuffer_)
                       THEN /\ channel_' = Drained(channel_)
                            /\ wrShut' = (wrShut \/ FinWhenDrained(channel_'))
                       ELSE UNCHANGED <<channel_, wrShut>>
               ELSE UNCHANGED <<wire, outputBuffer_, channel_, wrShut>>
     ELSE UNCHANGED <<wire, outputBuffer_, channel_, wrShut, peer, brokenWrite>>
  /\ UNCHANGED <<state_, reading_, sent, batch, done, pendingFunctors_, server, users,
                 delayed, flags>>

-----------------------------------------------------------------------------
(* The I/O loop: functors.                                                 *)

doPendingFunctors ==
  /\ pc \in {"poll", "swap"} /\ pc' = "functors"
  /\ batch' = pendingFunctors_ /\ pendingFunctors_' = << >> /\ done' = 0
  /\ UNCHANGED <<conn, revents_, server, users, delayed, flags>>

(* The next functor of the batch; it is run only on a live object: calling *)
(* it on a destroyed one is undefined, and the model goes no further.      *)
Run(fns) ==
  /\ pc = "functors" /\ done < Len(batch) /\ Alive
  /\ batch[done + 1].fn \in fns /\ done' = done + 1
  /\ UNCHANGED <<batch, pc, revents_, upc, calls, asked, delayed, revived, stale>>

runInLoop ==
  /\ Run({"send", "shutdown"} \cup Reads) /\ InLoop(batch[done + 1])
  /\ UNCHANGED <<state_, pendingFunctors_, server, held, closes>>

forceCloseInLoop ==
  /\ Run({"forceClose"})
  /\ IF state_ \in ClosableStates THEN handleClose ELSE NotClosed
  /\ UNCHANGED <<reading_, wrShut, out, held, late>>

(* The connection callback hands the shared_ptr to the users.              *)
connectEstablished ==
  /\ Run({"connectEstablished"})
  /\ state_' = "kConnected" /\ channel_' = enableReading(channel_) /\ held' = Users
  /\ UNCHANGED <<reading_, wrShut, out, pendingFunctors_, server, closes, late>>

(* Here it follows handleClose.  The branch for a connection that is still *)
(* kConnected is the one that ~TcpServer takes; module TcpServer has that. *)
connectDestroyed ==
  /\ Run({"connectDestroyed"})
  /\ state_' = IF state_ = "kConnected" THEN "kDisconnected" ELSE state_
  /\ channel_' = removeChannel(IF state_ = "kConnected" THEN disableAll(channel_)
                                                        ELSE channel_)
  /\ UNCHANGED <<reading_, wrShut, out, pendingFunctors_, server, held, closes, late>>

functorsDone ==
  /\ pc = "functors" /\ done = Len(batch) /\ pc' = "poll"
  /\ batch' = << >> /\ done' = 0
  /\ UNCHANGED <<conn, revents_, pendingFunctors_, server, users, delayed, flags>>

(* The base loop.                                                          *)
removeConnectionInLoop ==
  /\ baseQueue > 0 /\ baseQueue' = baseQueue - 1
  /\ erase /\ queueDestroyed
  /\ UNCHANGED <<baseIsIo, conn, io, users, delayed, flags>>

-----------------------------------------------------------------------------
IoStep == \/ handleRead \/ handleWrite \/ doPendingFunctors \/ functorsDone
          \/ runInLoop \/ forceCloseInLoop \/ connectEstablished \/ connectDestroyed

Events == {{"read"}, {"write"}, {"read", "write"}}

Next ==
  \/ peerStep \/ IoStep \/ removeConnectionInLoop \/ delayedForceClose
  \/ \E rev \in Events : poll(rev)
  \/ \E u \in Users : userSetState(u) \/ userQueue(u) \/ release(u)
  \/ \E u \in Users, op \in Ops : userCheck(u, op)
  \/ \E u \in Users, m \in Messages : userSendBuffer(u, m)
  \/ LoopUser \in Users /\ \E op \in Ops : loopCall(op)

Spec == Init /\ [][Next]_vars

(* The loops run and the user threads finish their calls; epoll is level   *)
(* triggered, so a readable socket is reported by every poll; the peer     *)
(* keeps reading, so a socket with data to write takes some in the end;    *)
(* the timer fires.                                                        *)
FairSpec ==
  /\ Spec
  /\ WF_vars(IoStep) /\ WF_vars(removeConnectionInLoop) /\ WF_vars(delayedForceClose)
  /\ WF_vars(\E u \in Users : userSetState(u) \/ userQueue(u))
  /\ SF_vars(\E rev \in Events : "read" \in rev /\ peer # "open" /\ poll(rev))
  /\ SF_vars(\E rev \in Events : "write" \in rev /\ poll(rev))
  /\ SF_vars(handleWrite /\ wire' # wire)

-----------------------------------------------------------------------------
TypeOK ==
  /\ state_ \in States /\ reading_ \in BOOLEAN /\ channel_ \in ChannelType
  /\ peer \in {"open", "fin", "reset", "gone"} /\ wrShut \in BOOLEAN
  /\ pc \in {"poll", "dispatch", "guarded", "swap", "functors"}
  /\ revents_ \subseteq {"read", "write"} /\ done \in 0..Len(batch)
  /\ baseIsIo \in BOOLEAN /\ baseQueue \in Nat /\ held \subseteq Users /\ closes \in Nat
  /\ Len(wire \o outputBuffer_) \in 0 .. 2 * Cardinality(asked)

(* No sequence of updates and removals of the channel, however the close,  *)
(* the removal and the users' startRead and stopRead interleave, makes     *)
(* epoll_ctl fail: index_ always agrees with the interest list             *)
(* (EpollPoller::update would abort with LOG_FATAL).                       *)
EpollNeverFails == ~channel_.failed

(* The bytes written and the bytes buffered are, together and in order,    *)
(* the bytes that sendInLoop took over: no direct write overtakes the      *)
(* buffer and a partial write neither loses nor repeats a byte.            *)
OutputOrder == wire \o outputBuffer_ = sent

(* Until the connection is closed POLLOUT is enabled exactly while data    *)
(* waits: otherwise the data is stuck, or the loop spins on handleWrite.   *)
WritingIffBuffered ==
  closes = 0 /\ state_ # "kConnecting" => (isWriting(channel_) <=> outputBuffer_ # << >>)

(* handleClose runs once, although end of file, forceClose and the delayed *)
(* forceClose may all ask for it; twice only after a setState that raced   *)
(* with the close, or a startRead after it.                                *)
CloseOnce == closes <= 1 \/ revived \/ late

(* No event the handlers act on can reach a closed connection between      *)
(* handleClose and connectDestroyed, and a destroyed one has left the      *)
(* interest list through connectDestroyed, with the same exceptions.       *)
ClosedIsSilent ==
  \/ revived \/ late
  \/ /\ closes > 0 => channel_.interest \subseteq {{}}
     /\ ~Alive => ~Registered(channel_)

(* An event is dispatched, and a functor bound to the raw this is run,     *)
(* only on a live object, even when the user drops its shared_ptr at once: *)
(* connectDestroyed, which holds one, comes after it in the queue.  The    *)
(* exceptions are functors queued after the server removed the connection, *)
(* and channels that are enabled again after the close.                    *)
NoUseAfterFree ==
  /\ pc = "dispatch" => Alive \/ revived \/ late
  /\ pc = "functors" /\ done < Len(batch) => Alive \/ stale

(* With user code on the I/O loop only: the connection is a pipe of bytes  *)
(* that ends with the FIN.  The FIN follows all data taken over, also when *)
(* it had to wait for the buffer over several partial writes, and nothing  *)
(* is written, or taken over, after it (TcpConnection.cc:162 and 308).     *)
Pipe == INSTANCE BytePipe
          WITH accepted <- sent, delivered <- wire, ended <- wrShut, misused <- brokenWrite

ImplementsBytePipe == Pipe!AbsSpec

(* The end of the peer's stream, or its reset, leads to the close of a     *)
(* connection that keeps reading.                                          *)
PeerCloseSeen ==
  (peer # "open" /\ isReading(channel_)) ~> (closes > 0 \/ ~isReading(channel_))

(* A closed connection is destroyed once no user holds it: the removal     *)
(* travels to the base loop, which forgets it, and back to the I/O loop,   *)
(* whose functors let go of it (TcpServer.cc:74-88).                       *)
ClosedIsFreed == closes > 0 ~> (held # {} \/ ~Alive)

(* shutdown and its relatives lead to the FIN or to the close while the    *)
(* peer is there, also when data was waiting at the time of the call.      *)
ShutdownEnds ==
  state_ = "kDisconnecting" ~> (wrShut \/ closes > 0 \/ peer # "open")
=============================================================================
