# TcpMysqlServer: TLA+ models, checks and proofs

The program is a TCP front end to a MySQL database (`src/src/tcpmysql`,
`src/src/main`) on an edited copy of the muduo network library
(`src/src/muduo`). It is built with `-O2 -DNDEBUG`, so the asserts of the
source are not executed; here they are claims to be checked.

## The system

| Part | Source | What it does | Module |
|---|---|---|---|
| EventLoop | `net/EventLoop.cc` | reactor of one thread: poll, dispatch, pending functors; woken through an eventfd | `EventLoop`, abstractly `FunctorQueue` |
| EventLoopThread, Thread, CountDownLatch | `net/EventLoopThread.cc`, `base/` | start, quit and join of a loop thread | `EventLoopThread` |
| TcpServer, EventLoopThreadPool, life of a TcpConnection | `net/TcpServer.cc`, ... | accept in the base loop, hand to an I/O loop, remove in the base loop | `TcpServer`, abstractly `ConnectionLife` |
| TcpConnection, Channel | `net/TcpConnection.cc`, `Channel.cc` | sending, buffering, shutting down, closing | `TcpConnection`, abstractly `ByteStream` |
| Acceptor, round robin | `net/Acceptor.cc`, `EventLoopThreadPool.cc` | accept when descriptors run out | `Acceptor` |
| EPollPoller, PollPoller | `net/poller/` | what the kernel is told about channels | `Poller` |
| TimerQueue, Timer | `net/TimerQueue.cc` | timers of a loop on one timerfd | `TimerQueue` |
| Buffer | `net/Buffer.h`, `Buffer.cc` | vector with a reader and a writer index | `Buffer` |
| TcpClient, Connector | `net/TcpClient.cc`, `Connector.cc` | connect, retry, reconnect, stop | `TcpClient` |
| Protobuf codec, RPC | `net/protobuf/`, `net/protorpc/` | framing; calls and answers | `ProtobufCodecLite`, `RpcChannel` |
| TcpMysqlServer | `tcpmysql/TcpMysqlServer.cc` | callbacks: LRU list of connections, query, cache in a time wheel | `TcpMysqlServer` |
| AsyncLogging, LogFile | `base/` | double-buffered logging thread, rolled files | `AsyncLogging`, `LogFile` |
| Logger, LogStream | `base/` | a line and its text | `Logging`, `LogStream` |
| ThreadPool, blocking queues, Condition | `base/` | bounded queues and their waits | `ThreadPool`, `BlockingQueue`, `Condition` |
| Date, TimeZone | `base/` | calendar, UTC and local time | `Date`, `TimeZone` |

`PROJECT.json` has the complete list, with the reason for each part left out.
The `.ccr` and `.hr` files beside the sources are not compiled.

Threads meet in a loop's `pendingFunctors_`, guarded by its mutex and announced
through its eventfd (`EventLoop`), in the shared pointers that functors carry from
loop to loop (`TcpServer`, `TcpConnection`, `TcpClient`), and in queues under a
mutex (`ThreadPool`, `BlockingQueue`, `AsyncLogging`). The modules above
`EventLoop` rely on what it establishes: functors that are pushed are run, once
each and in order.

## Modules

**EventLoop** has one variable per member that the threads share, `loopPc` for
the place of the loop thread and `pc` for the calls of all threads. `QueueInLoop`
and `Quit` end where the code releases the mutex or has set the flag; `Wakeup`
is the write to the eventfd that follows. The eventfd's counter is kept as
"readable or not". `early` is a history variable: functors that the loop thread
queued while it was not in `loop()`. For those `queueInLoop` does not write the
eventfd, and they wait for the first event or for the ten seconds of poll.
`Loop` resets `quit_`, as line 108 does. **FunctorQueue** is what `queueInLoop`
promises: a first-in first-out queue.

**EventLoopThread** composes the owner and the new thread with that loop. A step
of the owner ends where it waits for the latch, for the condition or for the
thread; the destructor's test of `loop_`, its `quit()` and the wakeup inside that
are three steps. A call on a loop that is gone may never return. The initial
choice `managed` also gives a loop that is used without an EventLoopThread.

**TcpServer** has a set of connections and a sequence `loops_` of I/O loops,
one of the constant `Pools`, as `setThreadNum` chose it; the empty sequence is a
single reactor. Each loop runs one handler or functor per step. `Destruct`, the
last conjunct of every step that can drop a pointer, runs the destructor of the
connections that nobody references: not the map, not user code (`userRef`), no
queued functor, not the batch being run. User code is a parameter of the
handlers: it may call one of `shutdown`, `forceClose`, `forceCloseWithDelay` on a
connection of its own loop, and keep or drop pointers. Serving (`Next`) and
destruction of the server (`Shutdown`) are separate, since the program never
destroys its server while it serves. `Init` is the state after `start()`, with
the I/O threads inside `loop()`. **ConnectionLife** is what user code may expect
of a connection: up, down, freed, each once and in this order.

**TcpConnection** is the data path of one connection that is up. A byte is its
sender and a number. Calls of the loop thread are one step; those of other
threads are three (test `state_`, set it, queue), which is where the code has no
lock. The socket takes any part of what it is given. `pending` holds the functors
of this connection; `freed` says that no shared pointer is left, so that a functor
bound to a bare `this` would find a dead object. **ByteStream** is what the
connection promises: bytes in order, each once, and the FIN after the last.

**Acceptor** makes each system call of `handleRead` a step, with other threads
opening and closing descriptors between them. **Poller** gives both pollers the
same calls and keeps what the kernel holds next to `index_`, `channels_` and
`pollfds_`; that they agree is about the events asked for. `onceIdle` is a history
variable: channels whose only update asked for nothing, which PollPoller enters as
they are and does not ignore. **TimerQueue** has a heap with addresses that are
reused; times are ticks that are left, the timerfd counts down by itself, and the
wall clock can be set back or forward. `addTimer` in another thread is two steps:
it hands the `Timer` over, and then reads its sequence number (line 123), from
whatever is at the address by then; memory that has been freed gives any number.
**Buffer** has bytes of base `Base`, so that integers of `Width` bytes
keep sign and wrap-around. **TcpClient** runs the rounds of a loop (events, then
the functors queued until then) around `Connector` and `TcpClient`; each connect
ends in one of the outcomes of the `switch` on `errno`. The timer with which the
destructor keeps the connector for a second may fire in any later round; `hasty`
records that it came within the first `SafeRounds`.

**ProtobufCodecLite** sends frames of cells, hands them over in pieces of any size
and may damage a cell; the payload's encoding is the generated code's and
`adler32` is taken to tell contents apart. **RpcChannel** is both ends; the request
is registered and sent in two steps, so the answer may come before the caller
returns.

**TcpMysqlServer** instantiates `TcpServer` with one loop and puts the user code
in: `userRef` is the set of connections in `lrulist_` and `lrumap_`. A list node
is named by its connection and by which of its `onConnection` calls made it,
since an iterator stays with its node. A message ends the process: with
`bad_any_cast` after the query, or, for a connection that was evicted, in the
splice of a null iterator. The cache is therefore never filled, so the hit
branch and the contents of the time wheel do not exist in any reachable state
and the model has no variables for them; `onTimer` rotates empty buckets.

**AsyncLogging** has a buffer as a sequence of lines and the four buffers of the
source; `LogFile` gives operators on a record with the files opened so far. The
file may take only the first lines of a piece; `append` then gives up the rest,
and the line that is cut, and counts all of it as written. **Logging** and
**LogStream** model a Logger and the text it holds, the latter with the digits
that `convert` produces. **ThreadPool** and **BlockingQueue** have one step per
critical section, and the pool one more between taking a task and starting it,
where a second worker can overtake the first; **Condition** is `notify` as a
choice of a waiter, and waits may end for no reason. **Date** and **TimeZone** put
the closed forms beside a calendar that counts days and beside the periods of a
zone.

Definitions whose comment begins with "Fault" are deliberate errors. No
specification uses them; each shows that some property would notice it.

**EventLoopProofs**, **TcpConnectionProofs**, **TcpServerLoops**,
**TcpServerSteps**, **TcpServerProofs**, **TimerQueueProofs**, **ProgressProofs** and
**BufferProofs** hold the theorems. The `MC*` modules give the model values. `MCParts`
and `MCProgress` are sums: a behaviour chooses one part in its initial state and runs
it while the variables of the others keep their initial values, which satisfy their
properties. A part that does not run has, in its initial state, no step that its
fairness asks for, so the fairness conditions can be conjoined.

## Runs

A property that a run checks is often the conjunction of several that are stated
and explained in the module (`ThreadInv`, `ConnectorInv`, `AsyncInv`, ...); the last
definitions of a module say which. Some have a deliberate error for more than one
of their conjuncts.

| Run | Instance | Shows |
|---|---|---|
| `event_loop` | 2 threads and the loop thread, 2 functors, 1 channel, with and without EventLoopThread | no lost wakeup, quit ends the loop, refinement of `FunctorQueue`, every functor starts, channels are not starved; `startLoop` and `~EventLoopThread` return except in two named races |
| `server_serve` | 2 connections, no or 1 I/O loop | state and channel at destruction, events only for live connections, torn down once, refinement of `ConnectionLife`, every closed connection is destroyed |
| `server_shutdown` | 2 connections, no or 1 I/O loop | `~TcpServer`: callbacks in order, nothing leaks |
| `server_dtor_returns` | 1 connection, at most 2 I/O loops | `~TcpServer` returns |
| `connection` | the loop thread and 1 other, 3 calls, messages of 1 or 2 bytes | interest in POLLOUT, order per sender, what may be lost, functors on live objects, high-water mark, refinement of `ByteStream`, writes complete, shutdown takes effect |
| `parts` | see `Parts.cfg` | safety of `Poller`, `TcpClient`, `Buffer`, `ProtobufCodecLite`, `BlockingQueue`, `Date`, `TimeZone`, `LogStream`, `Logging` |
| `progress` | see `Progress.cfg` | safety and liveness of `TimerQueue`, `Acceptor`, `RpcChannel`, `ThreadPool`, `AsyncLogging` with `LogFile` |
| `app_lru` | 4 connections, `SIZECONN` = 2 | iterators valid, connected ones tracked, at most `SIZECONN` up |

Four runs end in a violation, and show where the code departs from what it or
its documents say:

- `server_dtor_state`: `~TcpServer` destroys a connection that is shutting down
  in state `kDisconnecting` (assert at `TcpConnection.cc:71`), because
  `connectDestroyed` changes the state only from `kConnected`.
- `server_dtor_channel`: with I/O threads, a loop may see `quit_` before it runs
  the `connectDestroyed` that `~TcpServer` queued; the connection then dies
  with its channel registered (assert at `Channel.cc:40`).
- `app_closed`: a closed connection stays in `lrulist_`, and gets a second node;
  the LRU figure empties its slot.
- `app_answer`: a request is never answered, because the `any_cast` at
  `TcpMysqlServer.cc:74` throws; the sequence diagram shows a response.

The first two need a server that is destroyed, which `main.cc` never does; the
last two are in the program as it is shipped.

### Exceptions that the properties name

Several properties hold only up to a case that the code leaves open, and say so:

- a `quit()` between the publication of `loop_` and `loop()` is cleared, and the
  join then waits (`ThreadDtorReturns`); a loop that is quit before `startLoop`
  looks leaves it waiting (`StartLoopReturns`);
- a loop that user code has quit may be gone when `~EventLoopThread` calls `quit()`
  on it, and any loop may go once that call has set `quit_`, before it writes to the
  eventfd (`DtorQuitsLiveLoop`, the comments at `EventLoopThread.cc:32` and
  `EventLoop.cc:139`);
- what another thread sends can be lost to a shutdown or close that overtakes
  `sendInLoop` (`LostOnlyToRace`), and a call that tested `state_` before a close
  can queue a functor that outlives the connection (`QueuedWhileUpIsSafe`);
- a TcpClient destroyed outside its loop can be called back
  (`DeadClientUntouched`); one destroyed while it has a connection and a functor
  of its connector waits does not keep the connector, and a second may be too short
  for a loop that does not come round three times in it (`ConnectorOutlives`);
- `addTimer` in another thread may return the TimerId of a later timer at the same
  address, if the loop has run and deleted its own before line 123; cancelling it
  cancels the other (`TimerRuns`);
- a wall clock that is set forward makes timers late by as much, since nobody sets
  the timerfd again (`TimerfdInTime`);
- a channel whose only update asked for nothing is in `pollfds_` with its descriptor,
  against the assert at `PollPoller.cc:122` (`PollfdsMirrorChannels`): the acceptor's,
  when a server that never listened is destroyed (`Acceptor.cc:42`);
- if another thread takes the spare descriptor, the base loop spins on a backlog
  it cannot accept (`IdleFdKept`, `BacklogServed`);
- tasks that call `run()` on a full queue can leave all workers waiting, and after
  `stop()` nobody makes room for a caller that waits for it (`QueuedTaskStarts`,
  `CallerGetsRoom`, `StopReturns`); two workers may start tasks in another order than
  they took them (`PoolInOrder`);
- lines appended after the logging thread's last swap are not written by `stop()`
  (`StopKeepsLines`), nor are lines that the file did not take (`LinesAccounted`);
- a line that leaves one byte of its buffer free has no newline (`LineEnds`);
- `rawCb_` sees a frame before its checksum is looked at (`DeliveredInOrder`);
- a clock that is set back by other than an hour of summer time is not undone by
  `fromLocalTime` (`LocalRoundTrip`).

`ConnectorAsserts` is checked for a client whose `connect()` is called once
(`Reconnects = FALSE`). With `Reconnects = TRUE` TLC finds it violated: a second
`connect()` while an attempt or its retry timer is pending starts another one,
against the asserts at `Connector.cc:49` and `:131`.

### Bounds

- `event_loop`: two foreign threads can be between push and write at once; two
  functors make a batch with one queued behind it.
- `server_*`: a connection interacts with another only through pointers that user
  code keeps and through the order of handlers in a loop, for which two are enough.
  Connections are not reused: `Conn` bounds how many are accepted.
- `connection`: three calls let one send be buffered, one race with it and one
  close; the high-water mark is the longest message, so that one or two messages
  reach it.
- `app_lru`: four connections and two places let a closed connection hold two
  nodes while others are evicted.
- `parts`: three channels on three descriptors, one of them descriptor 0, let the
  entry that is moved, the one that goes and a third differ. Three sockets and
  calls give a refused attempt, a retry and a connection. `SafeRounds` is the least
  number of rounds for which `ConnectorOutlives` holds. The vector of a buffer
  moves and grows within 6 bytes. Two messages, with one that is too long and one
  that `rawCb_` rejects, can be cut anywhere. Three producers and three consumers
  let one overtake another that is woken. The years have every kind of leap year
  and century; seconds are checked for those within TLC's 32 bits. The zones are
  listed in `MCParts`. A stream of 9 bytes is filled by three values.
- `progress`: two addresses and two timers can be in a batch together or follow
  each other, also at one address, with the first one's number read when the second
  is there; longer reuse is cut off by `MaxTimers`, the clock is set once. Three
  descriptors and four arrivals fill the process. Three calls can be answered out
  of order. Five tasks, two workers and two places block callers inside and
  outside the pool. Three lines fill, drop and roll with a limit of two buffers, and
  one piece is cut short.

Symmetry is used in runs of invariants only.

### Fairness

- `EventLoop`, `EventLoopThread`: both threads keep running, callbacks return, poll
  returns when the eventfd is readable (level-triggered epoll), a thread between
  push and write gets to its write, as long as the loop exists. That poll
  also returns after `kPollTimeMs` is not assumed, so no result rests on the
  timeout. `startLoop` and the destructor are called by choice.
- `TcpServer`: every loop thread keeps running. That a loop with work leaves poll
  is what `EventLoop` establishes; the timeout gives it in any case. In the
  shutdown runs `~TcpServer` runs on.
- `TcpConnection`: the loop runs functors and handles events, a socket that is not
  broken becomes writable, threads finish their calls, the server handles a close.
- `TcpMysqlServer`: the loop runs while the process lives.
- `TimerQueue`: the loop goes on, callbacks return, time passes. `Acceptor`: the
  base loop goes on; nobody has to close a descriptor. `RpcChannel`: threads and
  loops run and services answer. `ThreadPool`: threads run and get the mutex, and
  tasks return; that a notified thread wins the mutex is not assumed.
  `AsyncLogging`: the thread runs, and its timed wait ends.

`CHECK_DEADLOCK FALSE` is used where the program or a part comes to an end: after
destruction, when the process dies, when all calls that the bounds allow are made.

## Proofs

`EventLoopProofs`, under `LoopAssumption` (the loop thread, "no functor" and the
wakeup channel are not among the other threads, functors and channels):

- `TypeCorrect`: the types of `EventLoop`.
- `NoWakeupIsLost` and `QuitReachesPoll`: the loop never sleeps in poll on a functor
  or a quit that no write to the eventfd will announce. `NoLostWakeup` is not
  inductive: it speaks of poll, but a functor that is pending there was pushed
  earlier. `WakeupInv` extends it to every place from the swap of one round to the
  poll of the next and to the time outside `loop()`; between poll and swap it demands
  nothing. It adds where `callingPendingFunctors_` is set and that a batch exists
  only while functors run.
- `LoopImplementsFunctorQueue`: the queue is `functors \o pendingFunctors_`. A push
  appends, the swap leaves the concatenation alone because the batch is empty, and
  the start of a functor takes the head.

- `ThreadImplementsLoop`: each step of `EventLoopThread` is one of `EventLoop` or
  leaves the loop alone, so that the theorems above hold of a pool thread's loop.
- `ThreadIsQuitAlive`: `ThreadInv`. `ThreadIInv` adds who can have set `quit_`: user
  code, or a destructor that has gone on to `join()`; and that `loop()` returns only
  when `quit_` is set. `OwnerInv` adds which call the owner can be in: none when the
  destructor tests `loop_` and when it has returned, and only `quit()` in between.

`TcpConnectionProofs`, under `ConnAssumption` (the loop thread is not one of the
others, the high-water mark is not 0), for any number of threads and calls and any
length of messages:

- `OutputIsWatched`: interest in POLLOUT and the high-water mark follow the output
  buffer. Inductive with the types, to which `MessagesInv` adds that a message in
  flight is not empty and is that of a thread, since `RunSend` reads its sender.
- `LostOnlyInRace`: `StateInv` says that `state_` never returns to `kConnected`:
  until it is left no FIN was sent, no `shutdownInLoop` is queued and no call is
  about to queue one.
- `QueuedWhileUpRunsLive`: `DestroyInv` says that what stands behind a
  `connectDestroyed` in the queue, or is left after it has run, was queued when the
  connection was down.
- `ConnImplementsByteStream`: `wire \o outputBuffer_` is what was accepted. `FinInv`,
  that nothing waits once the FIN is sent, is what makes a send after it harmless.
- `SendersStayInOrder`: `OrderInv` looks at a message from the call that carries it to
  the wire. The output, each queued message and the call of each thread are in order,
  and of one sender the output comes before what is queued, and that before what the
  sender is about to queue.

`TcpServerLoops`, `TcpServerSteps` and `TcpServerProofs` are one proof, under
`ServerAssumption` (the loops of a pool are distinct and none is the base loop; "no
loop" and the acceptor's channel are no loop and no connection), for any number of
connections and loops:

- `TcpServerLoops`: types, and `LoopsInv`: a loop has a batch only while it runs
  functors and channels to handle only while it dispatches; the pointers bound in a
  batch are held until its end; `~TcpServer` finds the base loop out of `loop()`.
- `TcpServerSteps`: with the queue of a loop read as the batch and then the pending
  functors, each step of the server and of its destructor accepts, establishes,
  closes, destroys or removes one connection, or none (`Steps`). User code may shut
  down other connections in the same step. The invariants below are shown for these
  six kinds instead of for twenty actions.
- `PlaceInv` holds in the destructor too: where the functors of a connection can be,
  and what user code was told, follow from `state_` and its loop; `connectEstablished`
  waits once at most, and only for `kConnecting`. It gives `ShutdownKeepsOrder`:
  callbacks in order, and when the loops have ended no functor is left to hold a
  connection.
- `StageInv` holds while the server is up: the map, the poller and the two queued
  functors of the teardown are the stages of one path, and `removeConnectionInLoop`
  and `connectDestroyed` wait once at most. `DeadInv`, that a destroyed connection is
  at the end of that path, follows because every earlier stage owns a pointer. They
  give `ServeCorrect`, `DestroyedAreDisconnected` and `DestroyedAreUnpolled`. In the
  destructor both fail, as the runs `server_dtor_state` and `server_dtor_channel` show.
- `ServerImplementsConnectionLife`: establishing is Up, closing is Down, and every step
  may free connections that were down before it.

`TimerQueueProofs`, under `TimerAssumption` (the bounds are numbers), for any set
of addresses and any number of timers, calls and jumps of the clock:

- `TimersOwnedInTime`: `TimerInv`. `OwnedInv` gives a live `Timer` one owner: the sets,
  the batch of `handleRead` or a queued `addTimerInLoop`, which is queued once; so no
  pointer of the queue's own meets an address that is reused. TimerIds may be stale
  or misread, which costs a timer at worst and no memory. `CancelInv` is what keeps a
  cancelled timer out: one that is still there is in the batch and in
  `cancelingTimers_`, where `reset` finds it; a new timer is not among the cancelled
  because its number is new. `InTimeInv` is `TimerfdInTime` for each timer, with a
  timerfd that is set, up to what the wall clock was set forward since. It holds
  outside `handleRead` only: between `getExpired` and `reset` the timerfd may be off
  with timers left.

`ProgressProofs`, for any number of descriptors, loops, connections, threads, calls and
tasks:

- `AcceptorCorrect`, under `AcceptorAssumption` (there is a place for `idleFd_`):
  `SpareInv` counts that place at every step of `handleRead`; `DealtInv` says that the
  loops before `next_` are one connection ahead of the others.
- `RpcCallsAnsweredOnce`: the n-th call has the id n wherever it is (`CallingInv`,
  `WireInv`), and `OnePlace` says where it can be. A response for a call that is not
  outstanding finds nothing.
- `PoolKeepsOrder`, under `PoolAssumption`: the numbers in the queue go on where those
  of the tasks taken from it end (`NumberedInv`), and each of these is with one worker
  or has started (`HeldInv`). `AloneInv` is the order of a single worker, which starts
  what it has taken before it takes another. `NoThreadsInv`, for a pool that runs tasks
  in `run()`, says that nothing is queued there.

`BufferProofs`, under `BufferAssumption`, for every size of the vector, of the room
to prepend and of `extrabuf`:

- `IndicesStayOrdered`: inductive with `kCheapPrepend <= Len(buffer_)`, because
  `retrieveAll` sets both indices to `kCheapPrepend` whatever the vector has become.
- `ContentsAreKept`: the first half of `BytesKept`. The three cases of `append` come
  down to one lemma, `PutBehind`, about bytes written behind others. The second
  half, that integers read back, is arithmetic of digits by a recursive function
  and is checked by TLC only.

Liveness under fairness is out of the prover's reach, as is what needs induction
over data (`Date`, `TimeZone`, `LogStream`, the codec's loop, the lines that
`AsyncLogging` accounts for). These and the remaining invariants, those of `Poller`,
`TcpClient`, `BlockingQueue`, `Logging` and `TcpMysqlServer`, are checked by TLC only.

## Not modelled

- `MysqlServer`: one blocking call of the MySQL library per request. `Lru.h`: not
  included anywhere, and does not compile. `ZlibStream`, `GzipFile`, `ProcessInfo`,
  `InetAddress`, most of `SocketsOps`: wrappers of libraries and system calls.
  Thread-local and singleton templates: the work is pthread's.
- The start of the server before `listen`; `Acceptor`'s test of `errno` after a log
  call that may change it; TCP options; contexts of connections.
- `forceClose` from another thread in `TcpServer`, which the source marks with a FIXME
  (`TcpConnection.cc:241`): there user code closes connections of its own loop.
  `TcpConnection` has the calls of other threads.
- Output that is buffered when a connection closes is dropped, and is not among the
  messages that `LostOnlyToRace` counts: it had been taken, and the peer or the user
  closed before it was written.
- Hang-ups of a channel that asks for no events: epoll may report them where
  PollPoller ignores the entry. Failures of `fopen`, `fflush` and `fclose`. The
  codec's `kParseError`, which depends on the generated code.
- Destructors of `TimerQueue`, `Acceptor` and the pollers, which run when their
  loop ends.
- A done closure that a service runs after its channel is gone
  (`RpcChannel.cc:139`), a zone file without any type (`TimeZone.cc:220`) and a
  channel that is enabled again after `remove()` under `PollPoller`: undefined
  behaviour for which the code promises nothing.
- Text: formatting of dates, addresses and floating-point numbers. Wording of log
  lines. The encoding of protobuf messages.
- What a kernel does beyond the outcomes that the source distinguishes.
