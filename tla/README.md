# TLA+ models of SimpleHttpServer

SimpleHttpServer is a multi-reactor HTTP server in the manner of muduo: an
event loop per thread, a `TcpServer` that spreads its connections over a pool
of loops, an HTTP layer on top, and a pool of MySQL connections for the example
site.  This directory models the library, from the buffer's indices to the
teardown of the server, checks the models with TLC and proves their safety
properties, for every value of the constants, with TLAPS.

`PROJECT.json` holds the machine-readable side of this document: the runs, the
lines each definition stands for, a mutant for each property, the hazards and
the theorems.

## Inventory

Paths are relative to `src/mymuduo/`.

| component | state | operations | how it meets the others | model |
|---|---|---|---|---|
| `EventLoop` (net) | `quit_`, `callingPendingFunctors_`, `pendingFunctors_` under `mutex_`, `wakeupFd_`, `activeChannels_` | `loop`, `quit`, `runInLoop`, `queueInLoop`, `wakeup`, `handleRead`, `doPendingFunctors` | any thread queues functors and quits; the owner runs callbacks that call back into the loop | `EventLoop`, `FunctorQueue` |
| `Channel`, `EPollPoller` | `events_`, `revents_`, `index_`, `tie_`; `channels_`, the kernel's epoll set | `enable…`/`disable…`, `remove`, `handleEvent`; `poll`, `updateChannel`, `removeChannel` | owned by connections, called by their loop; raw `Channel*` in epoll_data and `activeChannels_` | `Channel` |
| `TcpConnection` | `state_`, `outputBuffer_`, `inputBuffer_`, channel, socket | `send`, `sendInLoop`, `shutdown`, `shutdownInLoop`, `handleRead/Write/Close/Error`, `connectEstablished`, `connectDestroyed` | its handlers run in its loop; `send` and `shutdown` from any thread; close goes to `TcpServer` | `TcpConnection` |
| `Acceptor`, `TcpServer` | listening socket; `connections_`, `started_`, `nextConnId_` | `handleRead`; `start`, `newConnection`, `removeConnection`, `removeConnectionInLoop`, `~TcpServer` | base loop hands connections to the pool's loops, closes come back, the destruction goes out again | `TcpServer`, `ConnectionLifecycle`; `~TcpServer` in `EventLoopThread` |
| `EventLoopThreadPool`, `EventLoopThread`, `Thread` | `loops_`, `next_`; `loop_` under a mutex and condition; a start semaphore | `start`, `getNextLoop`; `startLoop`, `threadFunc`, destructor | publish a loop before it runs, quit and join it | `EventLoopThread` |
| `SqlConnectionPool`, `SqlOperation` (sql) | `connList`, `m_FreeConn`, `m_CurConn`, `mtx`, `cv` | `init`, `GetConnection` (waits 3 s), `ReleaseConnection`, `DestroyPool`; `getQueryRes`, `insertNewUser` | called by the loops' threads in `/login` and `/register` | `SqlConnectionPool` |
| `HttpContext`, `HttpRequest`, `HttpServer`, `HttpResponse` (http) | the parser's state, the request | `parseRequest`, `onMessage`, `onRequest` | a message callback of `TcpServer` | `HttpServer` |
| `Buffer` | `readerIndex_`, `writerIndex_`, the vector | `append`, `retrieve`, `makeSpace`, `readFd`, `writeFd` | input and output of a connection | `Buffer`, `ByteStream` |
| `TimerQueue`, `Timer`, `TimerId`, `Timestamp` | `timers_`, `activeTimers_`, `cancelingTimers_`, `callingExpiredTimers_` | `addTimer`, `cancel`, `handleRead`, `getExpired`, `reset` | a channel of the loop; the loop's `runAt/After/Every` and `cancel` | `TimerQueue` |
| `Socket`, `InetAddress`, `CurrentThread`, `Atomic`, … | none of their own | system calls, thread ids | | not modelled |
| the example site (`../example/`) | files, routes | | uses the HTTP layer and the SQL pool | not modelled |

The hard behaviours are of eight sorts.

* **Wakeups.** A loop sleeps in `epoll_wait`; a functor queued by another
  thread, or by a functor that is running, must wake it, and so must `quit()`.
  `callingPendingFunctors_` is tested outside the mutex.
* **Lifetimes.** The kernel and the poller keep raw `Channel*`.  A connection
  lives as long as a `TcpConnectionPtr` to it: in `connections_`, in a queued
  functor, in the guard of `Channel::handleEvent`, or in user code.  Its close
  passes from its loop to the base loop and back.
* **Output.** `sendInLoop` may write a part, or nothing; `handleWrite` takes the
  rest later; `shutdown()` has to wait for it.  `send()` and `shutdown()` of
  other threads test `state_` and act later.
* **The pool of connections.** `GetConnection` reads the list's size without the
  lock, sleeps on a condition variable with a timeout and is notified outside
  the lock; each path of a request must give its connection back.
* **The parser.** A request arrives in any number of reads, or several in one;
  `HttpContext` keeps its state between them and must leave nothing of one
  request to the next.
* **Start and teardown.** The loops of the pool are local variables of their
  threads, handed out by pointer.  Starting waits for them on a condition
  variable; `~TcpServer` takes connections down while their loops run, and
  `~EventLoopThread` reads `loop_` without its mutex to decide whether to join.
* **Indices.** A buffer is reused, moved and grown; reads are split over two
  iovecs.  The differences of its indices are unsigned.
* **Timers.** Each is in two sets under two keys, leaves both while callbacks run
  that may add and cancel timers, and is deleted by hand; ids outlive timers and
  addresses are reused; expirations and the timerfd follow different clocks.

## Modules

| module | what it is |
|---|---|
| `FunctorQueue` | abstract: one FIFO of functors, each started once, in order |
| `EventLoop` | one loop, its owner and other threads |
| `EventLoop_proofs` | theorems about it |
| `Channel` | a channel and the poller's treatment of it, as functions on records |
| `TcpConnection` | a connection and its socket, as functions on records; extends `Channel` |
| `ConnectionLifecycle` | abstract: each connection is reported up, then down, then destroyed |
| `TcpServer` | base loop, pool loops, acceptor, connections, clients and user threads; extends `TcpConnection` |
| `TcpServer_proofs` | theorems about it, one connection at a time |
| `ConnectionLifecycle_proofs` | theorems about the connections across the loops, and the refinement; extends `TcpServer_proofs` |
| `MCTcpServer` | the pools TLC is given |
| `EventLoopThread` | the pool's threads and loops from their start to the teardown of the server |
| `EventLoopThread_proofs` | theorems about it |
| `ByteStream` | abstract: a queue of bytes that is put, looked at and taken, by length or by line |
| `Buffer` | the vector of a `Buffer` and its indices, as functions on records, and its calls |
| `Buffer_proofs` | theorems about it |
| `TimerQueue` | the timers of a loop, its thread and other threads, the two clocks |
| `TimerQueue_proofs` | theorems about it |
| `SqlConnectionPool` | the pool and the requests that use it |
| `SqlConnectionPool_proofs` | theorems about it |
| `HttpServer` | `HttpContext`'s parser and `HttpServer`'s message callback on one connection, and a client |
| `HttpServer_proofs` | theorems about it |
| `MCHttpServer` | the requests TLC is given |

### EventLoop

A step is what a thread does between two accesses to state another thread can
see.  `queueInLoop` is two steps (the push under `mutex_`; the test of
`callingPendingFunctors_` with the wakeup), and so is `quit()` (`quit_`; the
wakeup).  `loop()` is one step for each of: clearing `quit_`, the test of
`quit_`, `poll`, each channel, each entry to and return from a callback, setting
`callingPendingFunctors_`, the swap, each functor, resetting the flag.  The
owner makes calls only from inside a callback (`MayCall`); other threads at any
time, also before `loop()` is entered, since `EventLoopThread::threadFunc`
publishes the loop first.  The eventfd is a counter with a largest value, where
`write` fails with EAGAIN.  `runInLoop` is `queueInLoop` for other threads and a
plain call for the owner, which is no step of the loop.

Functors are numbers in the order they were queued.  `io` stands for all other
channels.

### Channel, TcpConnection and TcpServer

A loop here is what `EventLoop` shows it to be: it sleeps until a channel is
ready or a functor is queued (`NoStrandedFunctor`, `EveryFunctorStarts`), and
its functors run once and in order (`StartsInOrder`).  So the eventfd and the
two halves of `queueInLoop` do not appear again: a functor in `queue[l]` makes
`Poll(l)` possible.  A step is one callback of a channel, one call made by the
message callback, or one functor; other threads and the clients step in between.
`Ready(l)` is computed once per poll and `active[l]` then holds those `revents`
though the socket goes on changing, as in the code.

A connection is one record.  Bytes are numbered as they reach `sendInLoop`, so
that `wire \o outputBuffer_` tells lost, repeated and reordered bytes apart.
Input is a flag: nothing here depends on what a message says.  The socket is
external and modelled by what `epoll_wait`, `read`, `write`, `shutdown` and
`getsockopt` show: a send buffer of `SndBuf` bytes, the peer open, closed or
reset, `SO_ERROR`.

`Referenced(c)` lists every place that keeps a `TcpConnectionPtr`; a connection
with none is destroyed.  `sendInLoop` and `shutdownInLoop` are bound to a bare
`this` (`RawFns`) and keep nothing alive.

Assumptions about what is outside of the code:

* SIGPIPE is ignored by the host program, as the EPIPE branch of `sendInLoop`
  presupposes; nothing in the repository does so.
* A user thread that is given connections keeps their `TcpConnectionPtr`s for good
  (`UserHolds`), and the string it passes to `send` until the functor has run;
  `send` binds neither.  To keep the pointer only until then would not do: a late
  `sendInLoop` may put the channel of a closed connection back into epoll
  (finding 2), and the connection would go with its channel registered.
* The connection callback makes no calls into the connection; the message
  callback may send and shut down any number of times.
* `accept` may fail at any time.
* A direct `write` takes a part of the data or fails with EWOULDBLOCK, EPIPE or
  ECONNRESET.  Another error would keep the data for `handleWrite`, as EWOULDBLOCK
  does.
* Urgent data (EPOLLPRI) is one with EPOLLIN: the code asks for both and handles
  them alike.

### EventLoopThread

The main thread runs `EventLoopThreadPool::start`, then the base loop, then
`~TcpServer`; the thread of each member runs `threadFunc`.  A step is what a
thread does between two accesses to shared state: `queueInLoop` and `quit` are
again two steps each.  The io loops are `EventLoop`'s cycle of test, poll, swap
and functors; since only the main thread calls them from outside,
`callingPendingFunctors_` is left out.  Of a connection there are `state_`, whether
its channel is in epoll (`registered`), and the history of what the user has been
told.  `connectEstablished` reports up; `handleClose`, an event of a registered
channel, reports down and tests nothing; `connectDestroyed` reports down if `state_`
is `kConnected`; and the message callback may call `shutdown()`, after which a
`connectDestroyed` of `~TcpServer` finds `kDisconnecting` and says nothing.  The rest
of channels and sockets is `TcpServer`'s matter, and so is the time between
`removeConnectionInLoop` and the destruction.  `alive[w]` says that the local
`EventLoop` of a thread exists, `destroyed[w]` that its `EventLoopThread`, with the
mutex that `threadFunc` locks at its end, does not.

### Buffer

The object is a record of the vector and the two indices, counted from 0 as in
the code.  `makeSpace`, `append`, `readFd` and `retrieve` are functions on it, line
by line; `std::copy` and `resize` are what the library does, and the bytes that
`resize` adds are 0, so that bytes which were never received can be told apart.
`readFd` is a `Store` of what fits and an `append` of the rest.  `retrieve` of more
than there is happens (finding 3) and is an input here.

`ByteStream` knows nothing of indices: a call puts bytes at the end, looks at the
first ones or takes them; a line ends at the first CRLF.

### TimerQueue

No `EventLoop` of the repository constructs its `timerQueue_`; the module is of the
class as an `EventLoop` that constructs one would use it.  A Timer is an address
with fields; `delete` frees the address and `new` may take it again.  Calls of the
loop's thread run at once, also inside a timer's callback; calls of other threads
go through `pending`.  `handleRead` is cut at each callback: `HandleRead` (read,
`getExpired`, `cancelingTimers_.clear()`), one `RunTimer` for each timer in the
order of the set, and `Reset`.  `PollTimerfd` is apart from `HandleRead` because
other channels of the same poll come in between and may set the timerfd again.
`addTimer` of another thread ends with a step of its own (`AddTimerReturns`), where
it reads the sequence of a Timer that may be gone (finding 4): then it reads whatever
is there, and the `TimerId` it returns may name a later Timer at the address.

A tick is a microsecond of the monotonic clock, which the timerfd follows.
`Timestamp::now()` is `time(NULL)`: one for `kMicroSecondsPerSecond` ticks, and it
may be set back and forth (`Lags`).

### SqlConnectionPool

A step is a critical section on `mtx`, the unlocked read of `connList.size()`,
a `notify_one`, or a query.  A sleeping thread is in `waiting`, a notified one
that has not run yet in `notified`; a timeout may hit either, and ends, as
`wait_for` with a predicate does, with a last look at `m_FreeConn`.
`insertNewUser` is a `getQueryRes` followed by an INSERT on a second connection
taken from the pool.  The database is external: rows per name, and queries that
may fail.  The repository has no schema, so a second row of a name is allowed
and may be refused (`QueryFails`).

### HttpServer

One connection; others share nothing with it.  The client puts the lines and
pieces of bodies of its requests into `network` one by one, and `HandleRead` takes all
that is there, so the stream is cut into reads in every way; a read that ends
inside a line tells `findCRLF` no more than one that ends before it.  One
iteration of `parseRequest`'s loop is one step, and so is the rest of
`onMessage`: the 400 with its shutdown, or `onRequest` with `reset`.  Of the
headers only `Connection` and `Content-Length` are kept, of a body its length,
of a response its status and whether it announces the close, which `httpCallback_`
may set, clear or leave.

A client may send a body with any method and any `Content-Length`: the true one, one
that is too large or too small, or none.  A piece of a body is text without a line
end or text up to one, and counts as one byte.  The parser takes bodies of POSTs
only, and takes what is there; what it leaves it reads as lines.  Since such a line
is made of body bytes, `Reads` lets it be any line, a request line with a method
included, and if it stays in the buffer it stays what it was read as.  When
`retrieve` drops more than the pieces of a body, it may end inside of a line behind
them (`retrieveBody`).  A `Content-Length` that is missing, no number or negative
(`NoLength`) makes `stoi` or the `assign` of `setBody` throw, and the process ends
(`terminated`), as it does when `setMethod`'s assertion
fails (the build does not define NDEBUG).  `send` and `shutdown` are those of
`TcpConnection`, refused unless `kConnected`; that what is sent reaches the
socket in order is the matter of `TcpServer`.

## Runs

| run | instance | states | what it shows |
|---|---|---|---|
| `event_loop` | 2 threads and the owner, 1 functor before `loop()`, 4 in all, eventfd limit 2 | 9 k | `NoStrandedFunctor`, `StartsInOrder`, `EveryFunctorStarts`, `QuitLeavesLoop` |
| `event_loop_early_quit` | 1 thread | violation | a `quit()` before `loop()` is lost |
| `server` | 1 client, no pool and a pool of 1 loop, 0, 1 or 2 of 2 threads outside the loop, sends of 2 bytes on a send buffer of 1, high-water mark 2, both callbacks set | 401 k | `ChannelsInStep`, `NoDanglingChannel`, `OneLoopPerConnection`, `StreamInOrder`, `WritesWhileBuffered`, `FinAfterOutput`, `NothingSentAfterFin`, `ClosedClientReleased`, `ShutdownCompletes`, and that the server implements `ConnectionLifecycle` |
| `server_give_up_writing` | 1 client, 1 thread outside the loop | violation | `sendInLoop` on a closed connection still writes |
| `event_loop_threads` | pools of 0, 1 and 2 threads, 2 connections | 119 k | `LoopOutlivesUse`, `ThreadEndsFirst`, `UpThenDown`, `PoolStarts`, `QuitThreadIsJoined` |
| `buffer` | 3 byte values, initial size 2, 1 reserved byte, extrabuf of 2, up to 2 bytes a call and 4 waiting | 43 k | `IndicesInOrder`, `MemoryBounded`, and that the buffer implements `ByteStream` |
| `timer_queue` | 2 Timers at 2 addresses, each of `runAt`, `runAfter`, `runEvery`, 5 ticks, a clock set back and forth by 1, 2 functors waiting | 337 k | `SetsAgree`, `OneOwner`, `WakesForTimers`, `CancelHolds`, `CancelsOnlyItsTimer`, `EveryTimerRuns` |
| `timer_add_from_thread` | the same | violation | `addTimer` of another thread reads a Timer that is gone |
| `sql_pool` | 3 threads, 2 connections, 1 name, 1 request each | 62 k | `Conservation`, `NoSleepOnFree`, `RequestsEnd` |
| `http` | 12 kinds of requests, 2 requests, client waiting for replies or not | 343 k | `RequestsAsSent`, `CloseIsLast`, `AssertionAfterShutdown`, `EveryRequestAnswered` |
| `http_whole_requests` | 1 POST with a body of 1 byte | violation | a body that comes later is not waited for |
| `http_assertion` | the instance of `http` | violation | `setMethod`'s assertion fails |

Why the bounds are enough for the cases of interest:

* `event_loop`: two threads make two wakeups meet one read; four functors give
  one that is running, one in the local vector, one behind it and one left over
  from before `loop()`; an eventfd limit of 2 is reached, so that a failed
  `write` happens.
* `server`: a send is larger than the socket takes, so each one is written in part
  and buffered: EPOLLOUT is asked for and dropped again, a second send or a shutdown
  meets the buffered rest, and a close or reset meets all of these.  After a close
  the late send of another thread enters the channel again.  Two threads give two
  sends, a send against a shutdown, and two shutdowns, each with its test before and
  its effect after a close; they are given the connection or not, so the server
  without them is in the run too.  With a pool the close passes through two loops,
  without one accept, events and functors share one.  Two connections meet only in
  the base loop's queue and in `next_`: that is `event_loop_threads`' instance, and
  all safety properties of this run are proved for any number of them.
* `event_loop_threads`: two threads give one that is being joined while the other
  runs, and one that is started while the other serves; two connections meet in
  one loop with a pool of one and wrap `next_` with a pool of two.
* `buffer`: with sizes this small every call meets the boundary: reads fill the
  vector and overflow into extrabuf, `makeSpace` moves and grows, and a CRLF is cut
  at every place.  The proofs cover all sizes.
* `timer_queue`: two Timers give a repeated one that is cancelled by another's
  callback, a timer added in a callback that is earlier than the first, and an old
  id whose address is in use again.  The clock gets far enough for a `runAfter` made
  at the start to expire and be followed by another; past its bound the timerfd
  still fires.
* `sql_pool`: three threads on two connections exhaust the pool; a registration
  takes two connections one after the other, so a waiter can be overtaken.
* `http`: two requests give one whose rest, or whose unread body, is read as part of
  the next, and one that arrives with it; the kinds cover each branch of
  `processRequestLine`, of the end of the headers and of `onRequest`'s rule for
  closing, a body that is longer and one that is shorter than it should be, and one
  that does not belong to a POST; a body of 2 pieces can be cut off before, inside and
  after.  The safety properties are proved for any number of requests.

Deadlock is checked in `event_loop`, where the loop ends in `exited` and other
threads may still call `quit()`, and in `event_loop_threads`, `buffer` and
`timer_queue`.  In `event_loop_threads` the process goes on when the server is gone;
any other state without a step would be a deadlock of the start or the teardown.
The server, SQL and HTTP runs come to rest when clients and threads have used up
their bounds, and do not check it.

No symmetry is used: the runs are small enough, and most of them check
temporal properties, for which it would not be sound.

### Fairness

* `EventLoop`: a thread inside `queueInLoop` or `quit` gets to its end, the
  owner's thread keeps running, user callbacks return, and `epoll_wait` returns
  when the eventfd is readable.  Strong fairness is used only for the return of
  a callback, which is not possible while the callback is inside a call.
  Nothing is assumed of the 10 s timeout `kPollTimeMs`, of other descriptors, or
  of callers: so `EveryFunctorStarts` and `QuitLeavesLoop` hold because of the
  wakeup and not because the loop looks up every 10 seconds.
* `TcpServer`: the loops keep running, the message callback returns, a user
  thread inside `send` or `shutdown` gets to its end.  Clients owe nothing:
  `ClosedClientReleased` is about clients that have closed, and
  `ShutdownCompletes` excludes a client that stops reading for good, which
  keeps the send buffer full for ever.
* `EventLoopThread`: the main thread and the pool's threads keep running, and
  `epoll_wait` returns when the eventfd is readable.  Nothing is assumed of the
  timeout, of spurious wakeups of the condition variable, of clients, or of when the
  base loop ends.
* `TimerQueue`: time goes on, the loop runs queued functors, polls, and gets through
  `handleRead`.  No one has to add or cancel a timer, or to leave the clock alone.
* `SqlConnectionPool`: threads keep running, and `wait_for` ends after its 3 s.
* `HttpServer`: the connection's loop keeps running.  `EveryRequestAnswered` is
  about clients that wait for each reply: a client that does not may leave its
  last request in the buffer, because `onMessage` handles one request.

## Proofs

The proofs hold for all values of the constants, under the named assumptions of
the modules: the owner is not one of the other threads, the eventfd can hold at
least 1, `InitPosts` is a natural number; `nullptr` is no connection, the set of
connections is finite, `MaxRequests` is a natural number; a request has the
fields of `RequestType`, with natural numbers for `Content-Length`; CR, LF and 0 are
bytes and the sizes of a buffer natural numbers; `setThreadNum()` is given natural numbers; a
pool is a sequence of loops other than the base loop, the acceptor is no connection,
sends are not empty and a socket takes at least one byte; addresses and expirations
are integers, delays natural, intervals and the shortest delay of the timerfd
positive; the bounds of the runs (`MaxMsgs`, `MaxCalls`, `MaxTimers`, `MaxPending`)
are natural numbers.

**EventLoop.** `NoStrandedFunctor` speaks of the moment of the sleep and is not
inductive.  The invariant `Inv` adds

* `WakeupBeforePoll`: from the swap of `doPendingFunctors` to the next
  `epoll_wait` a waiting late functor has its wakeup on the way, where the
  owner's own `queueInLoop` counts;
* `FlagCoversFunctors`: that `queueInLoop` will write the eventfd, because
  `callingPendingFunctors_` is set while functors run;
* `OwnerCallsFromCallback`: the owner is inside a call only within a callback,
  so it cannot reach `epoll_wait` with the wakeup still to come;
* `TypeOK`, for a `write` that meets the limit leaves the counter positive.

A `HandleWakeup` between two polls consumes the wakeup, but the swap always
follows it before the next sleep; that is why the condition starts at the swap.

Theorems: `TypeCorrect`, `NoLostWakeup` (`NoStrandedFunctor`),
`ImplementsFunctorQueue` (`StartsInOrder`, with `queue <- functors \o
pendingFunctors_`; the swap is a stutter because the local vector is empty then,
`LocalVector`), and `ExactlyOnceInOrder`, which proves of the abstract queue that
it holds exactly the functors after the last one started, in order, and carries
that over to the loop.

**Buffer.** `IndicesInOrder` (`Ordered`, stated of any object) and `MemoryBounded`
are inductive together: `makeSpace` grows the vector only if the free bytes on both
sides are too few, and then what waits after the append is at least half of the new
vector, which `peak` records.  The refinement
(`BufferIsByteStream`) rests on one lemma for each function: `CopyInPlace` for the
move to the front, whose source and target overlap, `ResizeKeeps`, `StoreAppends`,
`MakeSpaceMakesRoom`, `AppendAppends`, `ReadFdAppends`, `RetrieveDrops`: each says
what becomes of the readable bytes.  The three theorems are
`IndicesAlwaysInOrder`, `MemoryAlwaysBounded` and `BufferIsByteStream`.

**EventLoopThread.** Neither `LoopOutlivesUse` nor `ThreadEndsFirst` is inductive.
`IInv` ties `loop_` and the life of the local `EventLoop` to where `threadFunc` is
(`ThreadsInv`: it leaves `loop()` only after a quit), says that only
`~EventLoopThread` quits a loop (`QuitInv`), and follows the main thread: members
are started in turn (`StartInv`), all of them are published while it serves
(`ServeInv`), and they end in turn (`EndInv`).  So the unlocked read of `loop_` in
the destructor always finds the loop, and the thread is joined.  `ToldInv`, for
`UpThenDown`, ties the history of a connection to its state (`StatesInv`): while the
user has heard nothing it is `kConnecting` and not registered; `kConnected`,
`kDisconnecting` and a registered channel are of connections reported up and not
down.  It adds that a `connectEstablished` still in a queue is the only one of its
connection, in its own loop, and of a connection the user has not heard of.  So
`handleClose`, which tests nothing, comes once because `disableAll` takes the channel
out of epoll, and `connectDestroyed` reports only what nobody has reported;
each functor then takes a history one stage on or leaves it.  Theorems:
`LoopsOutliveUse`, `ThreadsEndFirst`, `UpBeforeDown`.

**SqlConnectionPool.** `Conservation` is inductive together with `Types`, the
type invariant without the bound on `m_FreeConn`.  `PoolConserves` proves it;
`PoolTypes` adds the bound, because a list without repetitions is an injection
into the finite set of connections.  `NoSleepOnFree` is not inductive:
one woken thread satisfies it with two connections free, and takes only one of them
while others sleep.  `WaitInv` counts: while anyone sleeps, the free connections are no
more than the threads that are notified and have not run plus the `notify_one` calls
still to be made.  A `notify_one` that finds nobody leaves nobody asleep, a timeout
of a notified thread takes a connection if one is free, and a thread goes to sleep
only when none is (`NobodySleepsOnFree`).

**TimerQueue.** `IInv` has four parts.  `Types` adds to the type invariant that
`timers_` has a first entry if it has any (`begin()` is a CHOOSE over a set of
integers) and that sequences are numbers already given out.  `Own` follows each
Timer: an entry's key is the expiration of its Timer (`EntryInv`), which is why
`restart()` must not happen inside the set; `activeTimers_` is the same set under the
other key (`ActiveInv`); sets, `expired` vector and queued functors have each a Timer
of their own and between them all (`OwnerInv`), and functors name the Timer they were
made for (`QueueInv`), so that `new` at an old address meets no owner.  Theorems
`SetsAlwaysAgree`, `EveryTimerHasOneOwner`, `CancelsNoOther`.  `CancelInv` adds that
a cancelled id is in no functor and is no larger than the last sequence, so a new
Timer is never one that was cancelled (`CancelAlwaysHolds`).  `WakeInv` is stronger
than `WakesForTimers` in two ways.  It bounds the timerfd by what
`howMuchTimeFromNow` would say with a clock that does not lag (`Ahead`), because the
property's own bound moves when the clock is set; and it holds already in the
callbacks for timers whose expiration is not `valid()`, which `reset()` does not set
the timerfd for: `addTimerInLoop` has done so (`AlwaysWakesForTimers`).

**TcpServer.** `TcpServer_proofs` is about one connection record at a time.
`ConnInv` says that the channel is in step with the poller and the kernel, that
written and waiting bytes are numbered from 1 on and are all that were sent unless
the socket takes no more and none wait (`Stream`), and that bytes wait
whenever the write event is asked for and, before the close, only then (`Buffered`).
Each function of `Channel` and `TcpConnection` has a lemma that it keeps these, and
`FinStep` says of each what it may do to `shutWr`; the actions only choose the
function and the connection.  That a late `sendInLoop` on a closed connection
(finding 2) keeps the stream in order is part of the proof.  Theorems:
`ChannelsAlwaysInStep`, `StreamAlwaysInOrder`, `AlwaysWritesWhileBuffered`,
`FinComesAfterOutput`, for any loops, connections, user threads and sizes.

**Connections across the loops.** `ConnectionLifecycle_proofs` first places things:
`Placed` says that what a loop has in `active`, in hand, in its queue or its vector
is of connections whose `ioLoop` it is, `removeConnectionInLoop` of the base loop
excepted.  It is kept because `ioLoop` is set when nothing knows the connection yet
and is never set again, and because what was constructed or up stays so (`Stable`);
hence `AlwaysOneLoopPerConnection`.

For the end of a connection the order of the functors counts.  A connection is
`Early`, `Up` or `Down` (`Stage`), and each stage says how many
`connectEstablished`, `removeConnectionInLoop` and `connectDestroyed` of it are still
to run, and where.  After the close no loop has an event or a handler of it that ends
it again (`Quiet`); `Tidy` says why that is so: one round of events has at most one
handler that closes (`OneEnd`), and functors run when no event is in hand.  `Down`
ends with the channel unknown to the poller or a `connectDestroyed` still queued,
which keeps the connection.  So what nothing refers to is unknown to kernel, poller
and `activeChannels_`: `NoChannelDangles`.  `Tidy` and `Stage` hold in a server whose
connections only their loops use.  With user threads the theorem holds for
another reason, the assumption above that a user keeps its `TcpConnectionPtr`: what
was up is never destroyed.

`ImplementsLifecycle` is the refinement: `ComesUp` is `newConnection` on the base loop
or the functor `connectEstablished`, `GoesDown` the step that runs `handleClose`, and
`Go` whatever step drops the last reference (the end of a vector of functors, mostly,
and then of several connections at once); all other steps stutter.
`NothingIsSentAfterFin` follows from the same invariant with `Refuses`: `shutWr` is
set only after `state_` left `kConnected`, and a loop tests and sends in one step.
Both properties are of servers that give no connection to another thread (`users` is
empty), and the theorems need no more.  With user threads a `send()` that tested
`state_` before the shutdown or the close is carried out after it, may put the channel back into epoll
(finding 2), and a reset of the client is then handled as a second close and reported
as a second down.

**HttpServer.** `HttpTypes` needs that `findCRLF`, a CHOOSE, finds a first line
when there is one: the least element of a set of natural numbers, from the
well-foundedness theorems of the library.  `CloseIsLast` is inductive with the
types (`LastReplyCloses`).  `AssertionAfterShutdown` is not: `MethodUnset` adds that a
method is set at a request line only if the 400 and its shutdown are next or the
connection is shut down already.  `reset()` is what makes that so after a request,
and the 400 after a bad line, whatever the line was made of
(`AssertionHoldsWhileConnected`).

`RequestsAsSent` needs the parser's place in the stream (`InPlace`): the stream, that
is `inputBuffer_`, `network` and `unsent` in a row, begins with what is left of the
request the parser is in and goes on with the requests sent after it, and what the
parser has of that request is what was sent of it.  At a request line the method is
set only if the line was read before and found bad, in which case it stays in the
buffer and is never handed over.  That a stream is a row of requests is said without
recursion, by the places where they begin (`Marks`); `FlatAppend` and
`FlatFirst` add a request at the end and take one from the front.  All of this is
under `~astray`, that is, until what is taken for a body is not the one that was sent:
it is not there yet (finding 3), its `Content-Length` is wrong, or the request is no
POST.  Up to there no line is made of body bytes.  Theorem `RequestsAlwaysAsSent`.

**Only model-checked:** everything under fairness (`EveryFunctorStarts`,
`QuitLeavesLoop`, `ClosedClientReleased`, `ShutdownCompletes`, `RequestsEnd`,
`EveryRequestAnswered`, `PoolStarts`, `QuitThreadIsJoined`, `EveryTimerRuns`), which
is out of TLAPS's reach.  Every invariant, action property and refinement of the
passing runs is stated by a theorem.

## Findings

1. `quit()` made after `EventLoopThread` has published the loop and before
   `loop()` runs is overwritten by `quit_ = false` (`net/EventLoop.cpp:85`), so
   the loop runs on, against the comment at `net/EventLoop.cpp:121`.  With an
   `EventLoopThread` destroyed that early, the join does not return.  Run
   `event_loop_early_quit`.
2. `sendInLoop` finds `kDisconnected`, logs "disconnected, give up writing"
   (`net/TcpConnection.cpp:87-90`) and does not return.  A `send()` of another
   thread that tested `state_` before the close is then written, or kept in the
   output buffer with the channel put back into epoll; if the client then resets,
   the connection callback reports the connection down a second time.  Run
   `server_give_up_writing`.
3. `parseRequest` takes `Content-Length` bytes for the body without looking how
   many are in the buffer (`http/HttpContext.cpp:118-121`), so a POST whose body
   comes in a later read is handled without it, against the comment at
   `http/HttpServer.cpp:50`; the body is then read as the next request line.
   Run `http_whole_requests`.
4. `addTimer` gives the Timer to the loop and then reads `timer->sequence()`
   (`net/TimerQueue.cpp:108`).  Called by another thread, it reads a Timer that the
   loop may have run and deleted, or one that has got its address since, against
   "Safe to call from other threads." (`net/EventLoop.h:54`).  Run
   `timer_add_from_thread`.
5. When `processRequestLine` fails after `setMethod`, for a wrong version, the line
   stays in the buffer and the method in the request, and nothing resets the context
   (`http/HttpContext.cpp:76-79`, `http/HttpServer.cpp:57-61`).  Data that comes after
   it, which a client may send until it sees the connection's end, makes
   `parseRequest` read the line again, and `assert(method_ == kInvalid)`
   (`http/HttpRequest.h:37`) ends the process.  Run `http_assertion`.

Seen while modelling and covered by no run, because they are plain from the
code or depend on what the repository does not say: the unread `m_CurConn`
becomes negative after `DestroyPool`; `insertNewUser` answers "taken" also when
the database fails; two registrations of one name may both insert; a POST
without `Content-Length`, or with one that is no number or negative, ends the process;
the body of a PUT, DELETE, HEAD or GET is read as the next request line; a NULL column
(`sql/SqlOperation.cpp:44`) throws before its connection is given back; a functor that
the loop's own thread queues before `loop()` waits for the first timeout; `quit()` may write the eventfd
of a loop that is gone, and a loop that sees `quit_` first drops the
`connectDestroyed` of `~TcpServer`, so that the user does not hear of the end, nor
does it of a connection that was `kDisconnecting` then;
`httpCallback_` is destroyed before the threads that call it are joined.

Of the timers: `timerQueue_` is never constructed, so `runAt()` would dereference
null; `now()` gives seconds where microseconds are meant, so that a timer of d
seconds expires after d * 10^6; the Timers of functors that never ran are not deleted
with the queue; a cancel by the loop's thread that overtakes an add which another
thread has queued is lost, and a `TimerId` with a late read's sequence (finding 4)
cancels the Timer it names and not the caller's; a timer cancelled by the callback of
one that expired with it is called once more.  All of this is in the model's behaviours, and none of it is
excluded by the properties.

## Not modelled

Wrappers of system calls (`Socket`, `InetAddress`), thread ids and language
utilities have no state of their own.  Routing, HTML, file contents and form
parsing of the example site are data and I/O.  `connectionRAII` has no user.
`Channel::disableReading`, `EventLoopThreadPool::getAllLoops` and most of `Atomic`
have no caller.  The growth of the poller's event list only bounds how many channels
one poll returns.  `~Acceptor` takes the listening channel out of a poller whose loop
has ended.  Paths, queries and other headers of HTTP requests are data that no
property tells apart.  A row of the database has no NULL columns.

## Plan

All parts with state of their own are modelled, and every safety property that a
run checks is proved.  What is left:

* the part of `ConnectionLifecycle` that does hold with user threads: up at most
  once, down only after up, and destruction only after both;
* lemmas for the liveness properties that are safety: that each wait has the wakeup
  it needs (as `NoStrandedFunctor`, `WakesForTimers` and `NoSleepOnFree` are for
  theirs), for `startLoop()` and for a shutdown left to `handleWrite`;
* the type invariants of `TcpServer` and `TimerQueue`, proved as parts of `Types`,
  as theorems of their own.
