------------------------------ MODULE TcpServer ------------------------------
(***************************************************************************)
(* A TcpServer with its Acceptor: several clients, the base loop, the I/O  *)
(* loops of its threads, the process's descriptors, and the destructor.    *)
(*                                                                         *)
(* A connection is reduced to its life (TcpConnection has the rest): the   *)
(* functors that hold its shared_ptr, connections_, and the descriptor     *)
(* that is closed with the last of them.  User code keeps no shared_ptr,   *)
(* neither of a connection nor of the thread pool.  The server is          *)
(* destroyed on the base thread: in a callback of its loop or after loop().*)
(* setThreadNum was called: with its default of no threads the connections *)
(* are on the base loop, the case baseIsIo of TcpConnection.               *)
(***************************************************************************)
EXTENDS Naturals, Sequences, FiniteSets, SequencesExt

CONSTANTS Clients,
          NumThreads,   \* setThreadNum's argument, at least one
          MaxFds,       \* descriptors left to the spare, connections, others
          MaxOthers,    \* bound on the descriptors other code holds
          Base          \* the base loop; the I/O loops are 1..NumThreads

ASSUME TcpServerAssumption ==
  /\ NumThreads \in Nat \ {0} /\ MaxFds \in Nat \ {0} /\ MaxOthers \in Nat
  /\ Base \notin 1..NumThreads /\ IsFiniteSet(Clients)

VARIABLES started_, connections_, next_,
          listening_, idleFd_,     \* the Acceptor; is the spare descriptor open
          errno,                   \* of the base thread: EMFILE or not
          backlog,                 \* connections the kernel has not handed out
          others,                  \* descriptors held by other code
          queue, batch, done,      \* per loop: pendingFunctors_, batch, number run
          pc, quit_,               \* per loop: where it is; quit_ (I/O loops)
          state_, ioLoop,          \* per client: its TcpConnection, the loop of it
          alive, inLoop,           \* the server exists; it is destroyed in loop()
          called, garbage,         \* history: start() called; started_ was not 0
          wanting, dropped,        \* history: clients to come, clients refused
          destroyed,               \* history, per client: connectDestroyed calls
          stolen                   \* history: others took the spare's place

acceptor == <<listening_, idleFd_, errno, backlog, wanting, dropped>>
server   == <<started_, connections_, next_, alive, inLoop, called, garbage>>
loops    == <<queue, batch, done, pc, quit_>>
conns    == <<state_, ioLoop, destroyed>>
fds      == <<others, stolen>>
vars     == <<acceptor, server, loops, conns, fds>>

IoLoops == 1..NumThreads
Loops   == IoLoops \cup {Base}

Functor == [fn : {"connectEstablished", "connectDestroyed", "remove"}, conn : Clients]
             \cup [fn : {"listen"}]

Holds(f, c) == f.fn # "listen" /\ f.conn = c

(* The shared_ptr count of c's connection is positive.                     *)
Alive(c) == \/ c \in connections_
            \/ \E l \in Loops : \E f \in ToSet(queue[l]) \cup ToSet(batch[l]) : Holds(f, c)

Used    == Cardinality({c \in Clients : Alive(c)}) + others + (IF idleFd_ THEN 1 ELSE 0)
FdsFree == Used < MaxFds

newAcceptor == listening_ = FALSE /\ idleFd_ = TRUE /\ backlog = << >>

(* started_ is not initialised: any value, of which only zero matters.     *)
Init ==
  /\ started_ \in {0, 1} /\ garbage = (started_ # 0) /\ called = FALSE
  /\ connections_ = {} /\ next_ = 0 /\ alive = TRUE /\ inLoop = FALSE
  /\ newAcceptor /\ errno = "other" /\ wanting = Clients /\ dropped = {} /\ others = 0 /\ stolen = FALSE
  /\ queue = [l \in Loops |-> << >>] /\ batch = [l \in Loops |-> << >>]
  /\ done = [l \in Loops |-> 0] /\ quit_ = [l \in IoLoops |-> FALSE]
  /\ pc = [l \in Loops |-> IF l = Base THEN "poll" ELSE "none"]
  /\ state_ = [c \in Clients |-> "none"] /\ ioLoop = [c \in Clients |-> 0]
  /\ destroyed = [c \in Clients |-> 0]

goto(l, from, to) == pc[l] \in from /\ pc' = [pc EXCEPT ![l] = to]
queueInLoop(l, f) == queue' = [queue EXCEPT ![l] = Append(@, f)]

-----------------------------------------------------------------------------
(* Deliberate defects of the definitions below, used to see the properties *)
(* fail.                                                                   *)

(* The acceptor does not react to EMFILE.                                  *)
OutOfFds_never == FALSE

(* The spare descriptor is not opened again.                               *)
reopen_not == idleFd_' = FALSE /\ UNCHANGED errno

(* removeConnectionInLoop posts no connectDestroyed.                       *)
queueDestroyed_not(c) == UNCHANGED queue

(* ~Acceptor leaves the spare descriptor open.                             *)
closeSpare_not == UNCHANGED idleFd_

-----------------------------------------------------------------------------
(* The world outside.                                                      *)

connect(c) ==
  /\ listening_ /\ c \in wanting /\ wanting' = wanting \ {c}
  /\ backlog' = Append(backlog, c)
  /\ UNCHANGED <<listening_, idleFd_, errno, dropped, server, loops, conns, fds>>

(* A client resets its connection before it is accepted.                   *)
withdraw(c) ==
  /\ \E i \in 1..Len(backlog) : backlog[i] = c /\ backlog' = RemoveAt(backlog, i)
  /\ UNCHANGED <<listening_, idleFd_, errno, wanting, dropped, server, loops, conns, fds>>

otherOpen ==
  /\ others < MaxOthers /\ FdsFree /\ others' = others + 1
  /\ stolen' = (stolen \/ pc[Base] \in {"reaccept", "reopen"})
  /\ UNCHANGED <<acceptor, server, loops, conns>>

otherClose ==
  /\ others > 0 /\ others' = others - 1
  /\ UNCHANGED <<acceptor, server, loops, conns, stolen>>

-----------------------------------------------------------------------------
(* start(), on the base thread or on another one.                          *)

listen == listening_' = TRUE

exchange == called' = TRUE /\ started_' = 1 /\ alive

startPool == pc' = [l \in Loops |-> IF l = Base THEN pc[l] ELSE "poll"]

start ==
  /\ exchange
  /\ \/ started_ # 0 /\ UNCHANGED <<pc, queue, listening_>>
     \/ /\ started_ = 0 /\ startPool
        /\ \/ pc[Base] = "poll" /\ listen /\ UNCHANGED queue
           \/ queueInLoop(Base, [fn |-> "listen"]) /\ UNCHANGED listening_
  /\ UNCHANGED <<idleFd_, errno, backlog, wanting, dropped, connections_, next_, alive,
                 inLoop, garbage, batch, done, quit_, conns, fds>>

-----------------------------------------------------------------------------
(* The base loop: Acceptor::handleRead.                                    *)

Ready == listening_ /\ backlog # << >>

(* epoll_wait reports the listening socket, or is interrupted.             *)
poll ==
  /\ Ready /\ goto(Base, {"poll"}, "accept")
  /\ UNCHANGED <<acceptor, server, queue, batch, done, quit_, conns, fds>>

pollInterrupted ==
  /\ pc[Base] = "poll" /\ errno = "EMFILE" /\ errno' = "other"
  /\ UNCHANGED <<listening_, idleFd_, backlog, wanting, dropped, server, loops, conns, fds>>

Following(n) == IF n + 1 >= NumThreads THEN 0 ELSE n + 1

newConnection(c) ==
  /\ next_' = Following(next_) /\ ioLoop' = [ioLoop EXCEPT ![c] = next_ + 1]
  /\ connections_' = connections_ \cup {c}
  /\ state_' = [state_ EXCEPT ![c] = "kConnecting"]
  /\ queueInLoop(next_ + 1, [fn |-> "connectEstablished", conn |-> c])

(* sockets::accept: a descriptor, EMFILE, or an error that is expected (no *)
(* connection is left); errno is written only on errors.                   *)
accept ==
  /\ goto(Base, {"accept"}, "errno")
  /\ \/ /\ backlog # << >> /\ FdsFree /\ backlog' = Tail(backlog)
        /\ newConnection(Head(backlog)) /\ UNCHANGED errno
     \/ /\ backlog = << >> \/ ~FdsFree
        /\ errno' = IF FdsFree THEN "other" ELSE "EMFILE"
        /\ UNCHANGED <<backlog, connections_, next_, state_, ioLoop, queue>>
  /\ UNCHANGED <<listening_, idleFd_, wanting, dropped, started_, alive, inLoop, called,
                 garbage, batch, done, quit_, destroyed, fds>>

(* Any other error of accept, and of listen or bind, is LOG_FATAL.         *)
acceptDies ==
  /\ goto(Base, {"accept"}, "aborted")
  /\ UNCHANGED <<acceptor, server, queue, batch, done, quit_, conns, fds>>

OutOfFds == errno = "EMFILE"

(* The test of errno, also after a successful accept; close(idleFd_).      *)
testErrno ==
  /\ IF OutOfFds THEN goto(Base, {"errno"}, "reaccept") /\ idleFd_' = FALSE
                 ELSE goto(Base, {"errno"}, "swap") /\ UNCHANGED idleFd_
  /\ errno' = IF OutOfFds /\ ~idleFd_ THEN "other" ELSE errno
  /\ UNCHANGED <<listening_, backlog, wanting, dropped, server, queue, batch, done, quit_,
                 conns, fds>>

(* accept() and close() of what it returns, which may be -1.               *)
reaccept ==
  /\ goto(Base, {"reaccept"}, "reopen")
  /\ IF backlog # << >> /\ FdsFree
     THEN /\ dropped' = dropped \cup {Head(backlog)} /\ backlog' = Tail(backlog)
          /\ UNCHANGED errno
     ELSE errno' = "other" /\ UNCHANGED <<dropped, backlog>>
  /\ UNCHANGED <<listening_, idleFd_, wanting, server, queue, batch, done, quit_, conns, fds>>

reopen == /\ idleFd_' = FdsFree
          /\ errno' = IF FdsFree THEN errno ELSE "EMFILE"

handled ==
  /\ goto(Base, {"reopen"}, "swap") /\ reopen
  /\ UNCHANGED <<listening_, backlog, wanting, dropped, server, queue, batch, done, quit_,
                 conns, fds>>

-----------------------------------------------------------------------------
(* All loops: functors.  The base loop handles the listening socket, which *)
(* epoll reports as long as it is ready, before it runs functors.          *)

doPendingFunctors(l) ==
  /\ \/ l # Base /\ goto(l, {"poll"}, "functors")
     \/ l = Base /\ goto(l, IF Ready THEN {"swap"} ELSE {"poll", "swap"}, "functors")
  /\ batch' = [batch EXCEPT ![l] = queue[l]] /\ queue' = [queue EXCEPT ![l] = << >>]
  /\ UNCHANGED <<acceptor, server, done, quit_, conns, fds>>

Run(l, fn) ==
  /\ pc[l] = "functors" /\ done[l] < Len(batch[l]) /\ batch[l][done[l] + 1].fn = fn
  /\ done' = [done EXCEPT ![l] = @ + 1]
  /\ UNCHANGED <<batch, quit_, fds>>

Arg(l) == batch[l][done[l] + 1].conn

(* The loop of an I/O thread is destroyed when it leaves loop(), with the  *)
(* functors that have not run.                                             *)
functorsDone(l) ==
  LET leaves == l # Base /\ quit_[l] IN
  /\ done[l] = Len(batch[l]) /\ goto(l, {"functors"}, IF leaves THEN "done" ELSE "poll")
  /\ batch' = [batch EXCEPT ![l] = << >>] /\ done' = [done EXCEPT ![l] = 0]
  /\ queue' = IF leaves THEN [queue EXCEPT ![l] = << >>] ELSE queue
  /\ UNCHANGED <<acceptor, server, quit_, conns, fds>>

connectEstablished(l) ==
  /\ Run(l, "connectEstablished") /\ state_' = [state_ EXCEPT ![Arg(l)] = "kConnected"]
  /\ UNCHANGED <<acceptor, server, queue, pc, ioLoop, destroyed>>

connectDestroyed(l) ==
  /\ Run(l, "connectDestroyed") /\ state_' = [state_ EXCEPT ![Arg(l)] = "kDisconnected"]
  /\ destroyed' = [destroyed EXCEPT ![Arg(l)] = @ + 1]
  /\ UNCHANGED <<acceptor, server, queue, pc, ioLoop>>

(* TcpConnection::handleClose calls removeConnection of the server.        *)
handleClose(c) ==
  /\ state_[c] = "kConnected" /\ pc[ioLoop[c]] = "poll"
  /\ state_' = [state_ EXCEPT ![c] = "kDisconnected"]
  /\ queueInLoop(Base, [fn |-> "remove", conn |-> c])
  /\ UNCHANGED <<acceptor, server, batch, done, pc, quit_, ioLoop, destroyed, fds>>

queueDestroyed(c) == queueInLoop(ioLoop[c], [fn |-> "connectDestroyed", conn |-> c])

removeConnectionInLoop ==
  /\ Run(Base, "remove") /\ alive
  /\ connections_' = connections_ \ {Arg(Base)} /\ queueDestroyed(Arg(Base))
  /\ UNCHANGED <<acceptor, started_, next_, alive, inLoop, called, garbage, pc, conns>>

listenInLoop ==
  /\ Run(Base, "listen") /\ alive /\ listen
  /\ UNCHANGED <<idleFd_, errno, backlog, wanting, dropped, server, queue, pc, conns>>

(* Both functors are bound to raw pointers.                                *)
runsOnDeadServer ==
  /\ ~alive /\ \E fn \in {"remove", "listen"} : Run(Base, fn)
  /\ pc' = [pc EXCEPT ![Base] = "undefined"]
  /\ UNCHANGED <<acceptor, server, queue, conns>>

-----------------------------------------------------------------------------
(* The base thread leaves loop(), destroys the server, then its EventLoop. *)

leaveLoop ==
  /\ goto(Base, {"poll"}, "left")
  /\ UNCHANGED <<acceptor, server, queue, batch, done, quit_, conns, fds>>

destroy ==
  /\ alive /\ goto(Base, {"poll", "left"}, "dtor") /\ inLoop' = (pc[Base] = "poll")
  /\ UNCHANGED <<acceptor, started_, connections_, next_, alive, called, garbage, queue,
                 batch, done, quit_, conns, fds>>

(* One iteration of the destructor's loop over connections_.               *)
dtorConnection(c) ==
  /\ pc[Base] = "dtor" /\ c \in connections_ /\ connections_' = connections_ \ {c}
  /\ queueDestroyed(c)
  /\ UNCHANGED <<acceptor, started_, next_, alive, inLoop, called, garbage, batch, done, pc,
                 quit_, conns, fds>>

(* threadPool_ is destroyed: each loop is told to quit, and joined.        *)
dtorQuit(l) ==
  /\ pc[Base] = "dtor" /\ connections_ = {} /\ pc[l] # "none" /\ ~quit_[l]
  /\ \A k \in 1..(l - 1) : pc[k] = "done"
  /\ quit_' = [quit_ EXCEPT ![l] = TRUE]
  /\ UNCHANGED <<acceptor, server, queue, batch, done, pc, conns, fds>>

Joined == \A l \in IoLoops : pc[l] \in {"none", "done"}

closeSpare == idleFd_' = FALSE

(* Closing the listening socket resets the clients in its backlog.         *)
closeSocket == listening_' = FALSE /\ backlog' = << >>

(* acceptor_ is destroyed, its sockets are closed.                         *)
dtorAcceptor ==
  /\ connections_ = {} /\ Joined /\ goto(Base, {"dtor"}, IF inLoop THEN "poll" ELSE "left")
  /\ alive' = FALSE /\ closeSocket /\ closeSpare
  /\ UNCHANGED <<errno, wanting, dropped, started_, connections_, next_, inLoop, called,
                 garbage, queue, batch, done, quit_, conns, fds>>

dtorBaseLoop ==
  /\ ~alive /\ goto(Base, {"left"}, "gone") /\ queue' = [queue EXCEPT ![Base] = << >>]
  /\ UNCHANGED <<acceptor, server, batch, done, quit_, conns, fds>>

-----------------------------------------------------------------------------
BaseStep ==
  \/ poll \/ accept \/ testErrno \/ reaccept \/ handled
  \/ doPendingFunctors(Base) \/ functorsDone(Base)
  \/ removeConnectionInLoop \/ listenInLoop \/ runsOnDeadServer
  \/ (\E c \in Clients : dtorConnection(c)) \/ (\E l \in IoLoops : dtorQuit(l))
  \/ dtorAcceptor \/ dtorBaseLoop

(* The process has neither aborted nor touched a destroyed server.         *)
Running == pc[Base] \notin {"aborted", "undefined"}

IoStep(l) == /\ Running
             /\ \/ doPendingFunctors(l) \/ functorsDone(l)
                \/ connectEstablished(l) \/ connectDestroyed(l)

Next ==
  \/ BaseStep \/ (\E l \in IoLoops : IoStep(l))
  \/ /\ Running
     /\ \/ start \/ leaveLoop \/ destroy \/ pollInterrupted \/ acceptDies
        \/ otherOpen \/ otherClose
        \/ \E c \in Clients : connect(c) \/ withdraw(c) \/ handleClose(c)

Spec == Init /\ [][Next]_vars

(* The threads run; a client that wants to connect does.                   *)
FairSpec ==
  /\ Spec /\ WF_vars(BaseStep) /\ \A l \in IoLoops : WF_vars(IoStep(l))
  /\ \A c \in Clients : WF_vars(Running /\ connect(c))

-----------------------------------------------------------------------------
TypeOK ==
  /\ started_ \in {0, 1} /\ connections_ \subseteq Clients /\ next_ \in 0..(NumThreads - 1)
  /\ listening_ \in BOOLEAN /\ idleFd_ \in BOOLEAN /\ errno \in {"EMFILE", "other"}
  /\ backlog \in Seq(Clients) /\ others \in 0..MaxOthers
  /\ \A l \in Loops : /\ queue[l] \in Seq(Functor) /\ batch[l] \in Seq(Functor)
                      /\ done[l] \in 0..Len(batch[l])
  /\ quit_ \in [IoLoops -> BOOLEAN]

(* Acceptor.cc:63-66.  Whenever the acceptor waits for clients it has its  *)
(* spare descriptor, unless other code opened a descriptor in the short    *)
(* time in which the acceptor had given it up.                             *)
SpareKept == pc[Base] = "poll" /\ alive => idleFd_ \/ stolen

(* TcpServer.cc:44, Acceptor.cc:61-67.  Once start() has been called each  *)
(* client that wants to connect, or waits to be accepted, is served or     *)
(* refused, also when descriptors run out: the loop does not spin on a     *)
(* listening socket it cannot accept from.  Excepted are a start() that    *)
(* found garbage in started_, a spare descriptor lost to other code, and a *)
(* server that has ended.                                                  *)
Waits(c) == c \in wanting \cup ToSet(backlog)
Ended    == ~alive \/ pc[Base] \in {"left", "dtor", "gone", "aborted", "undefined"}

ClientAnswered ==
  \A c \in Clients : (called /\ Waits(c)) ~> (~Waits(c) \/ garbage \/ stolen \/ Ended)

(* TcpServer.cc:29-34 and 79-88.  connectDestroyed runs at most once for a *)
(* connection, whether it is closed by its client, by the destructor or by *)
(* both; and a connection does not vanish without it, unless its loop had  *)
(* been told to quit and left before it ran its last functors.             *)
DestroyedOnce ==
  \A c \in Clients :
    /\ destroyed[c] <= 1
    /\ state_[c] # "none" /\ ~Alive(c) => destroyed[c] = 1 \/ pc[ioLoop[c]] = "done"

(* TcpServer.h:67-79, the order in which the members are destroyed.  When  *)
(* server and base loop are gone no descriptor of theirs is left, also     *)
(* those of connections whose removal was still queued somewhere.          *)
AllReleased == pc[Base] = "gone" => Used = others
=============================================================================
