# A TLA+ verification of highperformance_webserver

The repository is a small network library in the style of muduo: an event loop
per thread over epoll, timers, TCP connections with non-blocking output, a
server that spreads connections over I/O threads, and an asynchronous logger.
This directory holds TLA+ models of its parts, TLC configurations that check
them on small instances, and TLAPS proofs of the most important facts for every
size of the instance. `PROJECT.json` lists the components, the runs, the
mutants, the source lines behind each definition, the hazards and the theorems.

Run a check with `tlc -config X.cfg M` and the proofs with `tlapm M.tla`.

## Inventory

| Part | State | Operations | What makes it correct |
|---|---|---|---|
| `EventLoop` | `quit_`, `pendingFunctors_` (mutex), `callingPendingFunctors_`, the eventfd | `loop`, `quit`, `runInLoop`, `queueInLoop`, `wakeup`, `doPendingFunctors` | no lost wake-up, no lost or reordered functor, `quit` ends the loop |
| `Channel`, `EpollPoller` | `events_`, `index_`, the kernel's interest list, the event array | `enable…/disable…`, `updateChannel`, `removeChannel`, `Poll` | `index_` agrees with the kernel, so `epoll_ctl` (fatal on error) never fails |
| `TimerQueue`, `Timer`, `TimeStamp` | `timers_`, `activeTimers_`, `cancelingTimers_`, the timerfd, 32-bit time stamps | `addTimer`, `cancel`, `handleRead`, `getExpired`, `reset`, `insert`, the destructor | the two sets agree, each timer is owned once, the timerfd is armed while timers wait, a cancel is final |
| `TcpConnection` | `state_`, `reading_`, `outputBuffer_`, its channel, its `shared_ptr` count | `send`, `shutdown`, `forceClose`, `forceCloseWithDelay`, `startRead`, `stopRead`, `connectEstablished`, `connectDestroyed`, `handleRead/Write/Close/Error` | output in order, FIN after the data, one close, no use after destruction, no leak |
| `Buffer` | the vector and two indices | `append`, `retrieve…`, `readFd`, `makeSpace` | a byte queue; never beyond the storage |
| `TcpServer` | `connections_`, `started_`, the thread pool | `start`, `newConnection`, `removeConnection`, the destructor | each connection is destroyed once, on its loop; none is forgotten; nothing of the server outlives it |
| `Acceptor` | `listening_`, the spare descriptor, and `errno` | `listen`, `handleRead`, the destructor | every client is accepted or refused, also without free descriptors; the spare is kept |
| `EventLoopThread(Pool)`, `Thread` | `loop_` (mutex), `loops_`, `next_` | `start`, `startLoop`, `threadFunc`, `getNextLoop`, destructors | `loop_` points to a live loop, threads are joined, loops used evenly |
| `AsyncLogging`, `FixedBuffer` | current, next and full buffers (mutex), two spares of the thread | `append`, `threadFunc`, `start`, `stop` | no null buffer, no lost line, `stop` returns |
| `LogFile`, `AppendFile` | the file, `writtenBytes_`, `count_`, `lastRoll_`, `lastFlush_`, `startOfPeriod_` (mutex) | `append`, `append_unlocked`, `rollFile`, `flush` | files roll with size and day, lines are flushed in time |
| `Logging` (`Logger`) | the log level, the output and flush callbacks | a log statement, `~Logger` | the line of a `LOG_FATAL` is on disk before the abort |
| `LogStream` | the line under construction | `operator<<`, `convert`, `formatInteger` | numbers are printed right and fit |
| `Socket`, `SocketOops`, `InetAddress`, … | none of their own | wrappers of system calls | – |

How they interact: user threads reach a loop only through its mutex-protected
functor queue and the eventfd; a connection, its channel and the timers belong
to one loop. A close travels from the I/O loop to the base loop (which erases
the connection from `connections_`) and back (`connectDestroyed`). The hard
behaviours are the races between a user thread and the close, functors that
hold a raw `this`, wake-ups and notifications that may come too early, stale
events and stale `TimerId`s, partial writes, buffer exchange between two
threads, arithmetic on truncated time stamps, a process without free
descriptors, and objects that are destroyed while calls on them are queued.

`DefaultPoller.cc` returns no poller in this commit (both returns are commented
out); the models describe the program with the `EpollPoller` it is written for.

## Modules

- **SerialExecutor** – what `queueInLoop` promises: functors run once and in
  order. **EventLoop** – the loop thread step by step, and other threads that are
  preempted between the locked push (or the store to `quit_`) and the write to
  the eventfd. The eventfd counter is bounded, the event array grows as in
  `EpollPoller::Poll`. **EventLoopProofs** holds the proofs.
- **TimerQueue** – one tick is 100 µs, the shortest time the timerfd is armed
  with. The clock is a natural number; a `TimeStamp` keeps its low `W` bits,
  signed, and `Deadline` subtracts two of them in `W` bits as the code does. Timer
  objects live at addresses that are reused. Callbacks add and cancel timers; other
  threads go through the functor queue, and read the new timer's sequence in a step of
  its own after they handed it over (`addReturns`): the loop may have run and deleted
  it by then, and what is read is anything (`misread`). `handleRead` is split where
  callbacks run, and `reset` into its iterations. A real run has `W = 32`, and its time
  stamps wrap every 72 minutes; a small `W` makes the wrap reachable. `Window` counts the
  wraps: two times in the same window have comparable stamps. `misarmed` records that the timerfd
  was set, or left, by stamps that cannot be relied on. `destroy` is the destructor,
  which `~EventLoop` runs after `loop()`. **TimerQueueProofs** holds the proofs.
- **Channel** – a channel and its epoll entry as operators on a record.
  **TcpConnection** – one connection from `newConnection` to its last
  `shared_ptr`: the I/O loop, the base loop, the peer, user threads (their test
  of `state_`, `setState` and the hand-over are separate steps), user code on
  the loop. Functors bound to `shared_from_this()` keep the object alive, those
  bound to `this` do not. `Alive` is the reference count being positive. The base loop
  is the I/O loop (a server without I/O threads, the default) or another thread
  (`baseIsIo`, chosen in the initial state). Two idealisations: `outputBuffer_` has no
  limit, so that `OutputOrder` and `BytePipe` speak of the code while no more output waits
  than a `Buffer` holds (beyond its 1024 bytes it overruns, see `buffer_overrun`); and a
  write after the FIN or a reset returns -1, which presumes a program that ignores
  SIGPIPE (the repository does not, and `::write` would end the process). The branch of
  `connectDestroyed` for an open connection is taken by `~TcpServer` only, which is in
  module TcpServer. The
  history variables `revived` (a user's `setState` overwrote `kDisconnected`),
  `late` (`startRead`/`stopRead` ran after the close) and `stale` (a raw functor
  was queued after the server had removed the connection) name the three races the
  code has, and the properties say that nothing else goes wrong.
  **BytePipe** is what the sending side promises to its user: bytes in order, then
  the end of the stream, and no write after it; `ImplementsBytePipe` maps the
  bytes taken over by `sendInLoop`, the bytes on the wire and the FIN to it.
  **TcpConnectionProofs** holds the proofs, that of the refinement included.
- **TcpServer** – the server with its `Acceptor`: several clients, the base loop, the
  I/O loops, the descriptors of the process (the spare, connections, those of
  other code) and the destructor. A connection is reduced to its life: which
  functors and whether `connections_` hold its `shared_ptr`; the descriptor is
  freed with the last of them. There is at least one I/O thread; without any the
  connections are on the base loop, which is a case of `TcpConnection`.
  `Acceptor::handleRead` is split at each system
  call, because other threads open and close descriptors between them, and `errno`
  is what the last failing call of the base thread left. The destructor is split
  into its loop over `connections_`, the end of the thread pool (quit and join, one
  loop after the other) and the end of the acceptor; an I/O loop that leaves
  drops the functors it has not run. `TcpServer` and `TcpConnection` share the
  operations `newConnection`, `removeConnection`, `connectDestroyed`: one for many
  reduced connections, the other for a single full one. **TcpServerProofs** holds the
  proofs.
- **Buffer**, **BufferProofs** – indices and bytes; after an overrun nothing is
  said. `makeSpace` has no caller and is described by its result.
- **AsyncLogging**, **MCAsyncLogging**, **AsyncLoggingProofs** – front end and
  logging thread; a moved-from pointer is `Null`. The 25-buffer limit is a constant.
- **LogStream** – operators: `convert` with its table of digits, and the length of a
  `FixedBuffer` after a string or an integer. **Logging**, **MCLogging** – threads that
  log into one `LogFile` through `Logger`: a log statement up to the lock, the write
  to the stdio buffer (or its failure), rolling in two steps (the new file, then the
  close of the old one), and the flush and abort of `LOG_FATAL`, which take no
  lock. A line is its number, its length and the time of its write. **LoggingProofs**
  holds the proofs about the files and the digits.
- **EventLoopThreadPool** – the pool, its `EventLoopThread`s and their `Thread`s:
  `sem_wait`, the condition variable (with spurious wake-ups), the loop on the
  thread's stack, the destructors. **EventLoopThreadPoolProofs** holds the proofs.

Definitions with a suffix (`push_front`, `clear_not`, `FlushDue_offByOne`, …) are
deliberate defects: replacing the definition by its defect makes the property
named beside it in `PROJECT.json` fail.

## Runs

| Run | Bounds | Shows |
|---|---|---|
| `loop` | 2 callers, 1 channel, 2 functors, event array of 1 | `NoLostWakeup` (functors and `quit`), `Conservation`; `RunsPromptly`, `QuitReturns`, `LastBatchRuns`, refinement of `SerialExecutor` |
| `timer_wrap` | 2 addresses, 3 timers, 2 queued calls, 4-bit time that wraps after two ticks | `SetsAgree`, `OwnedOnce`, `NoTimerLost`, `CancelHolds` |
| `timer_time` | 2 timers, 1 queued call, 3-bit time that starts at stamp 0 and wraps once | `NeverEarly`, `ArmedInTime`; `TimersRun` |
| `timer_cancel` | 2 timers, 1 queued call, no wrap | violated: `TimersArmed` |
| `conn_loop` | user code on the loop, the base loop the same or another, 2 messages of 2 bytes, 4 calls | `OutputOrder`, `WritingIffBuffered`; `PeerCloseSeen`, `ClosedIsFreed`, `ShutdownEnds`, refinement of `BytePipe` |
| `conn_threads` | a user thread and loop code, the base loop the same or another, 3 calls | `EpollNeverFails`, `CloseOnce`, `ClosedIsSilent`, `NoUseAfterFree` |
| `server` | 3 clients, 1 I/O thread, 3 descriptors, other code holds up to 1 | `SpareKept`, `DestroyedOnce`, `AllReleased`; `ClientAnswered` |
| `pool` | 0 to 3 threads | `LoopPointerValid` (with the round robin's index), `JoinedBeforeFree`; `StartReturns`, `DestroyReturns` |
| `buffer_fifo` | 4 + 1 bytes, data of up to 3 | `Fifo` |
| `buffer_overrun` | the same | violated: `NeverOverrun` |
| `log` | 4 lines and an oversized one, 2 lines per buffer, drop limit 2 | `BuffersSuffice`, `LinesConserved`; `LinesReachFile`, `StopReturns` |
| `logging` | 2 threads, 4 lines, short and longer than `rollSize_`; 4 seconds with a change of day; thirteen integers | `FatalReachesDisk`, `RollsWhenDue`, `FlushedInTime`, `ConvertRight` |

Why the bounds are enough for the cases of interest: two callers race with each
other and with the loop; an event array of one is full at once, so the wake-up
channel can be left out; three timers at two addresses force reuse while a stale
`TimerId` exists; a clock of 3 bits that starts at stamp 0, which is not `valid()`, is
comparable at first, wraps, and goes through negative stamps; two bytes allow a partial write and two messages an overtaking
one; three user calls suffice for the check, set and queue of one call to
surround a whole close and for another call after it; drop limit 2 is exceeded
by three small buffers. Two queued timer calls let a cancel stand behind the add
it belongs to, or overtake it. Three clients with three descriptors, one of them
the spare, run out of descriptors with a client left, also after a connection
ended and with an `EMFILE` of an earlier call; other code that holds one can
take the place of the spare. Four lines with a check on every second one cross the
check twice; the day changes between the first and the last second, and a line
longer than `rollSize_` makes a file roll at any point. `ConvertRight` takes the
integers where the number of digits, the sign or the width changes, with one at the
limit of what TLC can negate, and the ones every line prints. The long message fills a line's
buffer up to one byte less than `formatInteger` asks for.

`TypeOK` is no property of a run: for `EventLoop`, `Buffer`, `AsyncLogging`, `TcpServer` and
`TimerQueue` it is part of what is proved, elsewhere it documents the types. Deadlock is
not checked where the system may really stop: after destruction, after an abort or undefined behaviour, and where the
clock or the number of calls ends.

Violated, and what it means:

- `timer_cancel`: `reset()` arms the timerfd inside its loop over the expired
  timers. When the timerfd fires for a timer that was cancelled nothing has expired,
  nothing is armed, and the other timers are stranded until a new earliest one is added.
- `buffer_overrun`: `append` never calls `makeSpace`; the "dynamic buffer" of the
  repository's README has its initial size for ever.

Observed without a sentence in the repository that contradicts it, and therefore
written into the properties as exceptions:

- `EventLoop`: a functor the owner queues before `loop()` waits for the poll
  timeout (`early`); a functor queued while the last functors run is left behind by a
  loop that was told to quit.
- `EventLoopThreadPool`: a `quit()` that comes before `loop()` is lost (`lost`).
- `TimerQueue`: a truncated expiration that is not positive is not `valid()`, and
  `reset` leaves the timerfd as it is for it; time stamps compared across a wrap order
  the timers wrongly and arm the timerfd for a wrong time (both `misarmed`), and make a
  timer run early; `addTimer` on another thread may read the sequence of a timer that is
  already deleted, so that its `TimerId` may name another timer (`misread`); a cancel by
  the loop thread is lost while the add is still queued by another thread (`missed`); a
  timer that an earlier callback of its own batch cancels still runs once; a timer whose
  add is still queued when the loop is destroyed is leaked.
- `TcpConnection`: with `send`, `send`, `shutdown` from another thread the FIN can be
  sent before the second message (so `ImplementsBytePipe` is checked for code on
  the loop); `send(Buffer*)` from another thread sends nothing (`userSendBuffer`);
  `stopRead` followed by a close puts the channel back into the interest list,
  without events, until `connectDestroyed`.
- `TcpServer`: `started_` is not initialised, and with garbage in it `start()` does
  nothing (`garbage`); `connectDestroyed` is dropped when its I/O loop is told to
  quit while it runs functors; a removal that is queued when the server is destroyed
  in a callback runs on a dead server (`runsOnDeadServer`, where the model stops).
- `Acceptor`: `errno` is tested also after a successful `accept`, so an old `EMFILE`
  drops a client although descriptors are free; the spare is lost for good when other
  code opens a descriptor while it is given up (`stolen`).
- `LogFile`: `flush()` takes no lock (the declaration that looks like one declares a
  pointer), so it races with an append, may use a closed file, and misses the line of
  a `LOG_FATAL` whose file is just being replaced; `writtenBytes_` holds the last
  append only, so a file has no bound on its size and rolls only after a single
  long line or with a new day.
- `LogStream`: the right half of `digits` has no "1", so positive integers get the
  wrong characters; characters are printed as integers, so a line has no newline.
- `AsyncLogging`: lines that are buffered when the logger is stopped are not written.

## Fairness

The operating system schedules every runnable thread and callbacks return: weak
fairness of the loop's, the logging thread's and the pool's own steps, and of
the rest of a call once it has begun. No fairness of user calls, of `quit`, or of
the peer. `EventLoop` gets no fairness of the poll timeout, because
`RunsPromptly` is about the wake-up alone. epoll is used
level-triggered, so a readable or writable socket is reported by every poll that
finds it: strong fairness of those polls in `TcpConnection`; `ShutdownEnds`
assumes also that a peer that stays takes data in the end. `AsyncLogging` needs
the timeout of `wait_for`: without it `StopReturns` fails, as its mutant shows.
`TimerQueue` assumes that time passes until the modelled end and that the loop
thread runs, until it is destroyed. `TcpServer` has weak fairness of the base thread
(one conjunct: the thread takes some step, not each of its steps), of each I/O
thread, and of clients that want to connect; none of closes, of other code's
descriptors or of the destructor. Once the process has aborted, or a dead server was
used, no step is owed.

## Proofs

Each theorem is for every value of the constants that satisfies the named assumption
of its module. Those say what the code's types say: sizes and
limits are natural numbers, there are finitely many clients (`TcpServer`), a time
stamp has at least one bit and the mark of a free address is no timer (`TimerQueue`),
and `kMaxnumericSize` has room for an integer and its NUL (`LogStream`; the code's 48 is
more than the 20 characters that `ConvertIsShort` proves to be enough for 64 bits).
`TcpServer` is restricted to servers with at least one I/O thread; the default is
none. One theorem has a hypothesis of its own, `OnLoop` below, which the run that checks
the same property satisfies.

- **EventLoopProofs**: `TypeCorrect`; `WakeupSafe`, from the lemmas `FunctorSafe` and
  `QuitSafe`, whose invariants follow the owner through its cycle (a functor is
  pending only with a wake-up under way, or while the owner will still swap the
  queue before polling);
  `QueueConserved` (what was queued is what ran, then the batch, then the queue);
  `RefinesSerialExecutor`: conservation gives the head of the batch as the next
  element of `accepted`.
- **TimerQueueProofs**: `TimerSafe`, the inductive `TimerInv`. `SetsAgree` alone is not
  inductive: while a batch runs, its timers are in neither set, and a queued add
  owns a timer that no set knows. `OwnerInv` says that a live timer is in exactly
  one of `timers_`, the batch and the queue; `IdInv` that ids are never reused, so a
  stale `TimerId` matches no later timer at the same address; `CancelInv` follows a
  cancel through the queue and `cancelingTimers_` to `reset()`; `RanInv` which callbacks
  of the batch have run. `SetsSafe`, `OwnedSafe`, `LostSafe`, `CancelSafe` and `TypeSafe`
  follow. `TimeSafe` adds `TimeInv` (an expiration is the truncated time at which its timer
  is due, and those of the batch are not after the stamp that `handleRead` has read)
  and `ArmInv` (unless `misarmed`, the timerfd fires by the time each
  waiting timer is due); `EarlySafe` and `ArmedSafe` follow. None of them assumes
  anything about the clock: the lemmas `StampOrder` and `DeadlineExact` say that stamps are
  ordered as the times they stand for, and `W`-bit differences exact, for times in one
  window, and the steps that set the timerfd from other stamps set `misarmed`.
- **TcpConnectionProofs**: `EpollSafe`: every action changes the channel through
  its operations only, and each keeps "`index_` is `kAdded` exactly when the
  descriptor is registered". `ConnectionSafe`, the inductive `ConnInv`: before
  `connectEstablished` nothing else happens (`Fresh`, `Established`); an open
  connection is in `connections_` (`OpenInv`); after the close the server's removal
  or `connectDestroyed` is on its way (`ClosedInv`); a functor with a raw `this` is
  followed by `connectDestroyed` (`RawInv`), unless one of the races that `revived`,
  `late` and `stale` record has happened. `OutputSafe`, `WritingSafe`, `CloseSafe`,
  `SilentSafe` and `LifetimeSafe` follow. `PipeRefinement`: under `OnLoop` (user code
  runs on the I/O loop) every step is a step of `BytePipe` or a stutter; `PipeInv`
  adds that after the FIN nothing is buffered or written.
- **TcpServerProofs**: `ServerSafe`, the inductive `ServInv`: the functors of a
  connection wait in the right loop, at most once, `connectDestroyed` last
  (`QueueInv`); a connection is in `connections_`, or `connectDestroyed` is to
  come or has run, or its loop has left (`LifeInv`); the destructor quits a loop
  only when no connection is left (`ThreadInv`); the descriptors in use never exceed
  the limit, and while the spare is given up there is room for it unless it was
  stolen (`FdInv`). `DestroyedSafe`, `SpareSafe`, `ReleaseSafe` and `TypeSafe` follow.
- **EventLoopThreadPoolProofs**: `PoolSafe`, the inductive `PoolInv`, which says for
  each point of the base thread where a loop thread can be; `PointerSafe`, `JoinSafe`.
- **AsyncLoggingProofs**: `LoggerSafe`, the invariant that says which of the four
  buffer pointers can be null at each point and how many written buffers are there
  to replace them; `BuffersAlwaysSuffice` follows. `LinesSafe`: what was appended, without
  the lines that were thrown away, is the file, then the lines in flight, then those in
  `buffers_`, then those in `currentBuffer_`. This is inductive only with `LineInv`: the
  spare buffers are empty wherever they wait (`append` fills them and `collect` puts them in
  front without a reset), and no line was appended twice, so that a filter by the
  dropped lines takes out their place in the log and nothing else (`KeptWithout`).
- **LoggingProofs**: from the types, the mutex (`LockInv`) and one invariant per
  property. `FatalSafe`: a line that was written is on disk, in the current file, in
  the one being closed or in the one about to be flushed (`FatalInv`). `FlushSafe`:
  the buffered lines are not older than `lastFlush_`, and all but the last `count_` of
  them are within the interval after it (`FlushInv`). `RollSafe`: the file was opened
  at `lastRoll_` and, unless it is about to roll, at most `count_` of its lines are of
  another day (`RollInv`; `Period` is monotone, so on the file's day none is).
  `ConvertSafe`: `lsdFirst` satisfies its equation (`LsdDef`); by induction along the
  quotients a negative number is printed as its decimal number (`NegativeDecimal`) and a
  number has as many figures as its negative (`LsdLen`); every length that `append` and
  `formatInteger` leave is below `SIZE` (`AppendFits`), so also the one behind a line
  (`LensFit`). `ConvertIsShort`: ten times the numbers need one figure more, twenty times.
- **BufferProofs**: `BufferIsFifo` and `MakeSpaceIsRight`, by cases on the two
  branches of `retrieve`, `readFd` and `makeSpace`.

Induction over data is done with sets: `NatSetInduction` says that a set with 0 and every
successor holds all natural numbers (from the library's well-foundedness of `<`), and
`SeqSetInduction` and `QuotInduction` follow for sequences and for the loop of `convert`.
They replace the library's induction theorems, whose operator parameter the provers
cannot instantiate. That a recursively defined function satisfies its equation is
proved from approximations on initial segments.

Only model-checked: liveness (fairness is beyond these provers), and the two violated
properties.

## Not modelled

- Callers that use an `EventLoop` after its destruction, and the two global
  callbacks of `Logger` being replaced while threads log.
- `EpollPoller::channels_` and a descriptor that is reused by a later channel while
  the old one is still registered: a connection closes its descriptor only after
  `removeChannel`, which `EpollNeverFails` and `CloseOnce` cover for one descriptor.
- Formatting of time stamps and file names, socket options, addresses, getters,
  `StringPiece`, `Endian`: they change no state.
- `writeCompleteCallback_` (unset by default); errors of `bind`, `eventfd` and
  `timerfd_create`, which end the process at start; a failing `fopen`.
- `DefaultPoller` (returns nothing in this commit) and the test program.

See "components" in `PROJECT.json` for each part.

## Plan

The models are complete for the parts listed as modelled, and every invariant, action
property and refinement that a run checks is a theorem. What could follow: a
second descriptor in `TcpConnection`, to cover the reuse of a descriptor number that is
listed above; and liveness, once a prover for fairness is at hand.
