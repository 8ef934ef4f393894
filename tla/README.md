# A TLA+ model of ImplementMuduo

ImplementMuduo is a rewrite in C++11 of the TCP server half of Muduo: a reactor
library with one event loop per thread. This directory holds TLA+ modules
translated from its source, the TLC configurations that check them on small
instances, and theorems about them whose proofs TLAPS checks for every value of
the constants.

## The system

```
           TcpServer ── owns ── Acceptor (Socket + Channel on the main loop)
              │  connections_, EventLoopThreadPool (EventLoopThread → Thread)
              │  newConnection / removeConnection
              ▼
        TcpConnection ── owns ── Socket, Channel, inputBuffer_, outputBuffer_
              │  send, shutdown: from any thread          (Buffer)
              ▼
          EventLoop ── owns ── EPollPoller, wakeup eventfd + Channel
              │  runInLoop / queueInLoop / quit: from any thread
              ▼
          EPollPoller ── epoll_ctl, epoll_wait ── kernel
```

| Component | State it keeps | Operations | What is hard |
|---|---|---|---|
| EventLoop | `quit_`, `pendingFunctors_`, `callingPendingFunctors_`, `activeChannels_`, the eventfd | `loop`, `quit`, `runInLoop`, `queueInLoop`, `doPendingFunctors` | other threads queue and quit at any moment of the loop's round; a wakeup may be lost, an early quit undone |
| Channel | `events_`, `revents_`, `index_`, the tie | enable, disable, `remove`, `handleEvent` | several callbacks for one report, the first of which may tear the connection down |
| EPollPoller | `channels_`, `events_`, epoll's own list | `updateChannel`, `removeChannel`, `poll` | three records of one fact, reused descriptors, raw pointers of a batch whose callbacks free channels, `LOG_FATAL` on a refused `epoll_ctl` |
| Buffer | a vector and two indexes | `append`, `retrieve…`, `readFd`, `writeFd` | growth or compaction at the exact boundary, the second iovec |
| TcpConnection | `state_`, the channel, two buffers | the four handlers, `send`, `shutdown`, `connectEstablished`, `connectDestroyed` | partial writes, half close, reset, removal through two loops, calls from other threads, its own lifetime |
| TcpServer | `connections_`, `nextConnId_`, `started_` | `start`, `newConnection`, `removeConnection(InLoop)`, destructor | destruction racing removal; a bare `this` in callbacks; functors lost with a loop; names given twice |
| Acceptor, Socket | the listening socket | `listen`, `handleRead`, destructor | descriptors exhausted under level triggering |
| EventLoopThread, Thread | `loop_`, `started_`, `joined_`, the thread | `startLoop`, `threadFunc`, `start`, `join`, destructors | handshake with a condition variable, quit against the start and the end of the loop |
| EventLoopThreadPool | `threads_`, `loops_`, `next_` | `start`, `getNextLoop`, destructor | round robin at the end of the list, threads ended in order |
| LogStream, Timestamp | the mutex of the file, `localtime`'s structure | a statement and its destructor | a stamp taken outside the mutex, the fatal exit of a logger that cannot open its file |
| InetAddress, CurrentThread, Callbacks, DefaultPoller | little or none | look-ups | |

A correct EventLoop starts every functor once, in order, and never sleeps on
work; a correct poller keeps its records and the kernel's in step; a correct
Buffer is a FIFO of bytes; a correct TcpConnection delivers what was sent, in
order, closes when and only when it should, tells the user once, and is freed
exactly when nothing can reach it any more. A correct pool hands out loops that
are ready and ends them in order; a correct server lets every connection come up
and go down once, loses none, is not used after its end, and accepts whoever
waits once it can. A correct logger writes whole lines and ends the process
where `LOG_FATAL` says so. `PROJECT.json` lists the hazards at their lines with
the properties that watch them.

## The modules

| Module | Models | State and actions |
|---|---|---|
| `FunctorQueue` | what an EventLoop promises | a FIFO of functors; submit, start, close |
| `EventLoop` | `EventLoop.cc` | one step per access to shared state: the locked append, the stores to `quit_`, the eventfd's write and read, the return of `epoll_wait`; `pc` is the place in `loop()`, `call[t]` the wakeup a thread still owes |
| `EventLoopProofs` | | its theorems |
| `Channel` | `Channel.h`, `Channel.cc`, the index part of `EPollPoller.cc` | operators on a channel value `[events, index]`; used by the next two |
| `EPollPoller` | `EPollPoller.cc`, the lifetime of channels and descriptors in a round of the loop | below |
| `EPollPollerProofs` | | its theorems |
| `ByteQueue` | what a Buffer promises | a FIFO of bytes and the last operation |
| `Buffer` | `Buffer.h`, `Buffer.cc` | operators on a buffer value; a client calls them in any order, with any lengths |
| `BufferProofs` | | its theorems |
| `TcpConnection` | `TcpConnection.cc`, and of `TcpServer.cc` what a connection sees | below |
| `TcpConnectionProofs` | | its theorems, for any threads |
| `TcpConnectionLoopProofs` | | its theorems for a connection that its loop only calls |
| `EventLoopThreadPool` | the pool's `start` and destructor, `EventLoopThread.cc`, `Thread.cc`, the life of an EventLoop | below |
| `EventLoopThreadPoolProofs` | | its theorems |
| `ServerCallbacks` | what a TcpServer promises | each connection up once, down once, nothing after the end |
| `TcpServer` | `TcpServer.cc`, `Acceptor.cc`, `getNextLoop`, all connections and loops | below |
| `TcpServerProofs` | | its theorems |
| `LogStream` | `LogStream.cc`, `Timestamp.cc` | `pc[t]` is the place of a thread in `~LogStream`; `tm` is `localtime`'s structure, `file` the files by date |
| `LogStreamProofs` | | its theorems |
| `MCEventLoop`, `MCEPollPoller` | | symmetry for TLC |

In `EPollPoller` every Channel call is an action; `ptr` and `interest` are the
kernel's list and `exited` is `LOG_FATAL`. `at` is the loop's place: it polls,
hands the channels of the batch their events one by one (`current`), and runs
the functors. The calls interleave with that as callbacks and functors make
them. A connection's channel (`Tied`) ends by a `connectDestroyed` that
`removeConnectionInLoop` has queued, and is freed when nothing shares the
connection: neither the server, which holds it while it is in the poller, nor
the queued functor, nor the tie of the channel being handled. What a user holds
on to only delays that. A destructor (`~TcpServer`, `~Acceptor`, `~EventLoop`)
removes a channel at once, also in a callback in mid-batch; `cut` remembers the
channels of the batch that went this way.

In `TcpConnection` the loop thread is an *agenda*: the calls it has still to
run, innermost first. `handleEventWithGuard` puts the due handlers on it,
`doPendingFunctors` the swapped-out functors, and a handler that calls user code
puts the callback on it; other threads, the server's loop, the peer and the
server's destructor interleave between two entries, which is where the code can
be preempted. The entry `disconnect` and the entry `remove` are the two parts of
`connectDestroyed`, around its callback. Lifetime is counted by who owns a
share: the server's map, a queued functor bound to `shared_from_this()`, the
running batch, the tie while an event is handled, another thread. A functor
bound to a bare `this` owns none. What it stands on was checked below it:
`EventLoop` implements the FIFO it queues functors in, `EPollPoller` keeps the
kernel's list equal to `index_` and `events_`, so only these two are kept, and
`Buffer` is the byte sequence `outputBuffer_`. A message is one byte, so a
partial write is a write of some of the messages.

In `EventLoopThreadPool` one thread, the owner, starts the pool and destroys it;
each sub-loop has a thread of its own. Every access to `loop_`, `quit_`, the
eventfd, the semaphore and `mutex_` is a step. Of the loop only `quit_` and the
eventfd are kept, so that any user code may run in it and call `quit()`. The
EventLoop lives on the stack of `threadFunc`, the EventLoopThread until the
owner frees it, and `touched` records a use of either after its end: from there
on the model stops, the behaviour being undefined. The unlocked test of `loop_`
in the destructor and the use that follows are two steps, and a compiler may
read it once or twice: both are behaviours of `destructorQuits`.

`TcpServer` composes the rest at a coarser grain. A loop is a round: callbacks
of ready channels, the swap of its queue, the batch, the test of `quit_`; that
the queue is a FIFO and that queueing wakes the loop is what `EventLoop` shows.
A connection is its `state_`, its registration and its callbacks; that its
handlers treat the stream well is what `TcpConnection` shows. What is new is what
only several connections and loops have: `connections_` as a function of names,
the descriptors, the choice of the loop, `removeConnectionInLoop` queued in the
base loop with a bare `this`, and the order in which `~TcpServer` ends them all.
The server may be destroyed after the base loop has returned, as the example's
`main` does, or in a callback of that loop (`inside`). Two histories name what
the code loses: `displaced`, the connections whose entry in `connections_` was
overwritten or erased for another one of the same name, and `dropped`, those
whose `connectDestroyed` was in the queue of a loop when it was destroyed.

Tests that a property hinges on are operators of their own
(`wakesAfterQueueing`, `mayShutDown`, `unwritten` …) beside a *mutant*: the
same operator with a plausible slip. Each property of a passing run fails under
the mutant `PROJECT.json` names for it.

## The runs

Passing runs:

| Run | Shows | Bounds |
|---|---|---|
| `loop` (`EventLoop_loop.cfg`) | `NoLostWakeup`, `NoSleepAfterQuit`, the refinement `FunctorQueueSpec`, and, with fairness, `FunctorStarts` and `QuitStopsRunningLoop` | two callers, three functors and one queued before `loop()`, one I/O channel that can fill the event array, eventfd counter up to 2 |
| `poller_calls` (`EPollPoller_calls.cfg`) | `NeverExits`, `KernelMirrorsChannels`, `MapIsExact`, `ActiveAreLive` | three channels, two of them tied, over two descriptors, so that descriptors are reused and a batch has two channels |
| `buffer_fifo` (`Buffer_fifo.cfg`) | index order, bounded growth, the refinement `ByteQueueSpec` | header 1, initial size 2, second iovec 2, four bytes, lengths up to one more than can be readable: every branch of `makeSpace` and `readFd` at its boundary |
| `conn_loop` (`TcpConnection_loop.cfg`) | the stream, the half close, EPOLLOUT, callbacks and single destruction, registration; with fairness `GoneIsFreed`, `ShutdownCompletes` | with and without sub-loops, three messages against a socket that holds two, high-water mark at two |
| `conn_threads` (`TcpConnection_threads.cfg`) | what another thread cannot break: `WritingIffBuffered`, `SentOnce`, and `DisconnectedIsFinal` but for its own overwriting store | one such thread, two messages, a socket that holds one |
| `thread_life` (`EventLoopThreadPool_life.cfg`) | `StartedIsReady`, `EndsInOrder`; with fairness `StartReturns`, `DestructorReturns` | two sub-loops, every interleaving, any number of rounds |
| `server` (`TcpServer_life.cfg`) | `RegisteredIsOwned`, `UsedOnlyAlive`, `EveryoneIsTold`, the refinement `ServerCallbacksSpec`; with fairness `WaitingIsAccepted` | no sub-loop or two, three connections, two descriptors, two names, two calls of `start` |
| `log` (`LogStream_lines.cfg`) | `LinesSound`, `FatalEndsProcess` | two threads, three statements of any level, three ticks of the clock over two days |

Runs that TLC refutes, each a disagreement between the code and what it says of
itself (quoted in `PROJECT.json` under `findings`):

| Run | The code |
|---|---|
| `conn_garbage` (`TcpConnection_garbage.cfg`) | a cross-thread `send()` reads `message.c_str()` after the string may be gone |
| `thread_join` (`EventLoopThreadPool_join.cfg`) | forgets a `quit()` that comes between the loop's publication and `loop()`; the destructor then joins for ever |
| `server_pool` (`TcpServer_pool.cfg`) | `getNextLoop` reads `loops_` one past its end |
| `server_dropped` (`TcpServer_dropped.cfg`) | hands `connectDestroyed` to a sub-loop that may leave without running it; the connection is freed while it is up, and nobody is told |

Under the configuration of `conn_garbage` `ShutdownFlushes`, `CallbacksPaired` and
`NeverDestroyedRegistered` fail as well (a late `sendInLoop` registers the channel
again), which is why `conn_threads` lists so few.

### Exceptions the properties state

Where the code gives up on something in a case of its own, the property of the
passing run names the case. Some of these cases contradict what the code says of
itself, and the runs of the second table show some of them without the exception.

* `FunctorStarts`: a functor that the loop's own thread queues before `loop()`
  wakes nobody (`EventLoop.cc:157`); it starts with the next wakeup.
* `StartedIsReady`, `StartReturns`: user code on the new thread that ends its loop
  at once takes `loop_` back, and `startLoop` may wait for ever.
* `EndsInOrder`: a loop that user code ended changes `loop_` while the destructor
  reads it, and its thread is not joined, so that the EventLoopThread may be freed
  under it; and the wakeup that the destructor's `quit()` writes may come after
  the loop saw `quit_` and was destroyed. The first exception is
  for the loop that was ended and for its EventLoopThread, the second for the
  loop the destructor is at.
* `ActiveAreLive`: a channel that a destructor removed while it was in the batch
  may be gone before its turn; one that is not tied, such as the
  Acceptor's, even while it is being handled.
* `ByteQueueSpec`: `retrieveAsString` asked for more than is readable hands out
  everything that is, in order, then bytes nobody put in (`Overtake` of
  `ByteQueue`), and leaves the queue empty.
* `CallbacksPaired`, `EveryoneIsTold`: a connection in `kDisconnecting` is torn down
  without a DOWN (`TcpConnection.cc:179`).
* `EveryoneIsTold`: a connection whose `connectDestroyed` was still in a loop's queue
  when that loop was destroyed (`dropped`; `server_dropped`). A connection of a
  sub-loop that was never handed over is not excused.
* `RegisteredIsOwned`, `EveryoneIsTold`: a connection that lost its entry in
  `connections_` to another of the same name, once `nextConnId_` had come round
  (`displaced`). It is destroyed while its channel is registered. The
  connection that took the name is excused only if its own entry is then erased
  on behalf of the first.
* `UsedOnlyAlive`: a server destroyed in a callback of its own loop is used after
  its end by the `removeConnectionInLoop` functors its connections queued.
* `DisconnectedIsFinal`: `shutdown()` on another thread tests `state_`, is overtaken by
  `handleClose`, and stores `kDisconnecting` over `kDisconnected`.
* `GoneIsFreed`: a half close waits for the peer, for ever if it never closes.
* `LinesSound`: another thread's `localtime` between a thread's own call and its
  reading of the fields changes the stamp, or half of it.
* `FatalEndsProcess`: a `LOG_FATAL` whose file cannot be opened, or into which nothing
  was streamed, returns.

### Bounds

Every bound is a constant named as one: `MaxSends`, `MaxInput`, `MaxReadable`,
and the real limits `EventListSize` and `MaxEventfd` given small values. The
eventfd at 2 saturates with two callers; the event array of one entry is filled
by one I/O channel, the case in which the wakeup channel is not reported. Three
messages against a socket of two give partial writes with bytes left over; more
messages only repeat them. The doubling of epoll's event array is left out: a
fixed size is the worst case for liveness. One byte is all the model of a
connection needs of a message, two bytes (0 and 1) all that `Buffer_fifo` needs to
tell two contents apart.

In `TcpServer`, `IdSpace` is the number of values of the `int` `nextConnId_` (2^32),
made 2 so that a third connection meets the name of the first (4 in
`server_dropped`, where nothing may come round); `MaxFds` below
`MaxConns` fills the table while a peer waits. The backlog is a FIFO and
connections are numbered in its order, which loses no behaviour. Two sub-loops
are enough for `next_` to go past the end with the third connection, and for
`~EventLoopThread` of one to run while the other still has its connections. Two
sub-loops in `EventLoopThreadPool` distinguish the one being started or ended
from the one left alone. Three ticks over days of two give `LogStream` two
moments of one day and a midnight.

### Fairness

The loop thread and other threads in the middle of a call keep running, user
code returns, and `epoll_wait` returns when the eventfd is readable; no channel
has to become ready, nobody has to call, and the ten-second timeout is not
assumed: what is live is live through the wakeup. For a connection the peer
takes what the socket holds; it need not send or close. In the pool the owner and
the threads run on and a readable eventfd ends `epoll_wait`; spurious wakeups of
the condition variable may happen and are not relied upon, nobody has to quit or
to destroy the pool. In the server every loop goes round and hears of its
sockets; a peer need not close, no user has to end anything, so `WaitingIsAccepted`
holds against connections that stay open only by naming them. No strong fairness
is used. `LogStream` has safety only and checks for deadlock.

## The theorems

Proved by TLAPS for all threads, functors, channels, descriptors and sizes the
assumptions of the modules allow.

* **EventLoop** (`EventLoopProofs`): `TypeCorrect`, `LostWakeupFree`,
  `QuitIsSeen`, `ImplementsFunctorQueue`. `NoLostWakeup` is not inductive: when
  the loop enters `epoll_wait` with a functor in the queue the reason it is awake
  lies in the past. The invariant says, for every place `pc` can be, who still
  owes the wakeup: another thread that has appended and not yet written, the
  counter, or a round of the loop that has not reached the swap yet; a functor
  of the loop's own thread is covered by the flag while functors run and by the
  coming swap in an I/O callback. The refinement maps the abstract queue to what
  is left of the batch followed by `pendingFunctors_`.
* **EPollPoller** (`EPollPollerProofs`): `TypeCorrect`, `CtlNeverFails`,
  `KernelAgrees`, `MapAgrees`, `ActiveStayLive`. The records are inductive
  together with two facts on descriptors: live channels have different ones, and
  what is registered is the descriptor of a live channel. For the batch the
  invariant (`BatchSound`) says why a channel still to be handled cannot be freed:
  it is in the poller still, as a queued `connectDestroyed` runs only when the batch
  is empty, or a destructor removed it and it is in `cut`; and a tied channel
  being handled is shared by its tie.
* **Buffer** (`BufferProofs`): `TypeCorrect`, `IndexesStayOrdered`,
  `GrowthStaysBounded`, `EmptyStaysReset`, `IsByteQueue`. Lemmas say of each
  operation what it does to the indexes and to the contents: `Resized` and
  `Compacted` keep the contents, `Ensured` makes the room, `AppendTakes` and
  `ReadFdTakes` add to their end, `Retrieved` takes from their front, `HandedOut` and
  `HandsOutAll` say what `retrieveAsString` returns for a length within and beyond
  what is readable. The growth
  bound needs the history variable `peak`: `makeSpace` grows only when the free
  front is smaller than what is asked for plus the header, so the new size is
  below the header plus twice what the buffer then holds; later operations may
  empty the buffer and keep the size. `EmptyStaysReset` needs the stronger fact that
  an empty buffer's indexes are at the header.
* **TcpConnection** (`TcpConnectionProofs`), for any threads that hold it:
  `TypeCorrect`, `WritingExactlyWhenBuffered`, `EachSentOnce`,
  `DisconnectedStays`. That a channel in epoll writes exactly while bytes are
  buffered rests on where the calls stand on the agenda (`InPlace`): a close, a
  read or a removal is next, or only behind what cannot free the channel, so the
  poll that reported it still holds; on a connection that is up being in epoll
  and reading; and on a connection that is `kConnecting` having done nothing
  (`Fresh`). `SentOnce` and the bound on the wire come from `BytesTraced`: there
  is an injective assignment of the bytes written and buffered to messages none
  of which still waits in a queue; a functor that runs moves its message from
  the queue to the end of the buffer, `handleWrite` from the buffer to the wire.
* **TcpConnection called by its loop only** (`TcpConnectionLoopProofs`):
  `StreamStaysIntact`, `WriteSideGoesLast`, `CallbacksStayPaired`,
  `RegisteredStaysReferenced`, each under `User = {}` and for any sizes, with
  sub-loops or without. The hypothesis is needed: with one thread that holds
  the connection TLC breaks each of them. Its queued `sendInLoop` buffers
  bytes behind a closed write side, or registers the channel again after
  `remove`, and its `shutdown()` stores `kDisconnecting` over `kDisconnected`,
  after which the end is reported a second time. The invariant `LInv` follows
  the end of a connection: handlers and the calls of `connectDestroyed` never
  share a round of the loop (`RoundsApart`), because a poll starts a round of
  its own and functors run at its end; so the close is reported while the
  server still has the connection (`OneClose`), whoever takes it out of
  `connections_` queues the one `connectDestroyed` (`OneDestroy`), and until
  `remove` has run something on this way owns the connection (`Owned`).
  `Moves` reduces every action to what it does to the names in the two queues
  and to the flags; each part is then kept move by move.
* **TcpServer** (`TcpServerProofs`): `TypeCorrect`, `RegisteredStaysOwned`,
  `NotUsedAfterLoop`, `EveryoneHears`, `ImplementsServerCallbacks`. The invariant
  says what a functor in a queue means (`FunctorsMeant`: one that establishes is
  in the connection's own loop while it is `kConnecting`, one that removes or, in
  the base loop, destroys finds it down), that `connectEstablished` comes ahead
  of everything else about its connection (`EstablishedFirst`), and that what is
  registered, or is still to be, has somebody who will remove it (`Rooted`): its
  entry in `connections_`, or a `connectDestroyed` in its loop's queue, unless it is
  `displaced`. A loop that is gone has an empty queue (`LoopsEndEmpty`), so that what
  was rooted in a queue has either run or is in `dropped`, and both histories only
  grow. What the user has been told follows the
  state (`ToldByState`), which is what the refinement maps.
* **EventLoopThreadPool** (`EventLoopThreadPoolProofs`): `TypeCorrect`,
  `StartHandsOutReady`, `LivesEndInOrder`. The invariant says who has reached
  what: `loop_` is set exactly between the thread's two locked blocks, threads are
  started in turn and `startLoop` waits for each, a loop that is quitting or has
  returned was told to by user code or by the destructor, and an
  EventLoopThread is freed after its thread unless user code ended its loop
  (`FreedAfterThread`). The last two are what `EndsInOrder` rests on, loop by
  loop: without a quit of the user's the destructor is the only one to end it,
  and it joins.
* **LogStream** (`LogStreamProofs`): `TypeCorrect`, `LinesStaySound`,
  `FatalEnds`. `LinesSound` needs to know where a line may be incomplete: the
  mutex is held exactly inside the locked block, and the last fragment of a
  file is a head exactly while its thread is writing (`OneLineOpen`), so the next
  line finds the file ended and a tail finds its own head. `StampSound` follows
  the stamp from `localtime` to the lock.

Out of the prover's reach, and checked by TLC only: what holds under fairness, and
the absence of deadlock.

## Left out

* The growth of epoll's event array, errors of `epoll_wait`, `readv` interrupted.
* `sendInLoop`'s direct write stays in the model though no state reaches it: the
  code asks for `writableBytes() == 0` (`TcpConnection.cc:89`), which an empty buffer
  never has (`EmptyStaysReset`).
* Callbacks that are not set: a connection is taken to have its write-complete
  and high-water-mark callbacks.
* The data of a message, addresses, the text of names and log lines, socket
  options, `bindAddress` (which ends the process when it fails).
* After `SIGPIPE` (`killed`) nothing happens any more; the program has to ignore
  the signal, the library does not.
* A call through a pointer to an object that is gone is not continued.
* In `TcpServer`: the user quitting a sub-loop or destroying the server on a
  thread that is not the base loop's; the shares that functors of a batch keep
  after they have run (a descriptor comes back a little earlier in the model);
  the start of the pool's threads, which is `EventLoopThreadPool`'s.
* `getLoopForHash` and `getAllLoops`, which read `loops_` and which nothing calls.
* `InetAddress` (conversions), `DefaultPoller` (a factory; with `MUDUO_USE_POLL` set
  it returns a null pointer that the EventLoop then uses), `Callbacks`,
  `noncopyable`, the build files: no state that changes.

## Plan

Modelled: every component with state. Proved: every invariant, action property
and refinement that a passing run checks. What remains are shorter arguments for
the larger proofs.
