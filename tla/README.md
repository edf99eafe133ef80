# A TLA+ model of NavServer

NavServer is a TCP server that collects GNSS and IMU data from devices. It is a
reactor: one main event loop accepts connections, sub event loops on I/O
threads serve them, an optional pool of worker threads handles the messages.
This directory models its concurrent core, checks the models with TLC and
proves their main invariants with TLAPS. Source references are to `src/`.

## 1. Inventory

| Part | State | Operations | Correct means |
|---|---|---|---|
| `EventLoop` | task queue with mutex, eventfd, timerfd, table of its connections, queue of expired fds, `m_stop` | `run`, `stop`, `addTaskToQueueInLoop`, `handleWakeup`, `handleTimer`, `addNewConnection` | a queued task runs once, in order, without waiting for a timeout; stop is prompt; only idle connections expire |
| `TcpServer` | main loop, sub loops, I/O pool, table of all connections | `newConnection`, `closeConnection`, `errorConnection`, `handleMessage`, `timeoutRemoveConnection`, `stopLoopRun` | its table and the loops' agree; an entry is a live connection of that descriptor; what is closed is reclaimed |
| `Acceptor`, `Socket` | listening socket, descriptors | `newConnection`, `accept`, `~Socket` | a descriptor belongs to one connection |
| `Connection`, `Channel`, `Epoll` | socket, input and output buffer, registered and reported events, `m_disconnect`, `m_lastTime` | `handleMessage`, `writeCallback`, `closeCallback`, `errorCallback`, `sendMessage`, `handleEvent`, `updateChannel`, `removeChannel` | no edge is lost, requests are handled, replies are sent |
| `Buffer` | bytes | `append`, `appendWithSeparator`, `pickMessage`, `erase` | the messages that come out are those that went in |
| `ThreadPool` | queue, mutex, condition variable, `m_stop` | `addTask`, `stopThread`, the worker function | no task lost or run twice, no lost notification, stop terminates |
| `Navigation`, `DeviceInfo` | map fd -> DeviceInfo with its mutex; login flag, id, two output streams | `handleNewConnection`, `handleCloseConnection`, `handleMessageToThreadPool`, `handleConnectionTimeout`, `deviceInit`, `deviceClose` | a message meets its own DeviceInfo; acknowledged data reach the device's file |
| `navServer.cpp` | the server object | `main`, `Stop` on SIGINT/SIGTERM | an orderly stop |

**How they interact.** The main thread runs `Acceptor::newConnection` ->
`TcpServer::newConnection`: it makes the `Connection` (which registers its
`Channel` with the epoll of sub loop `fd % threadNum` at once), sets its
callbacks, enters it in `TcpServer`'s table, in the loop's table and, through
`Navigation`, in the device map. The I/O thread of that loop may handle events
of the `Connection` from the moment it is registered. Close and error take it
out of the device map and `TcpServer`'s table; the loop's table keeps it until
the loop's timer finds it idle. Ownership is by `shared_ptr`: whoever drops the
last one closes the descriptor, which the next accept reuses, and all three
tables are keyed by descriptor. Each table has its mutex, not always used.

**What is hard here.** Main thread against I/O threads during `newConnection`;
raw `Channel` pointers in a batch of epoll events; two-step erasures with
descriptor reuse in between; the condition variable against a flag set without
its mutex; eventfd against queue; edge-triggered epoll with only one event
handled per report; streams that fail silently; a signal handler that stops
everything. Nothing is persisted but the output files, which are truncated at
login: there is no recovery to model. `PROJECT.json` lists the hazards one by
one, at their lines.

## 2. Plan

Modules, in the order of importance; all are done.

1. `ConnLifecycle`: connections, tables, timer, reuse (the heart of the server);
   implements the abstract `Registry`.
2. `ThreadPool`, which implements the abstract `WorkQueue`.
3. `EventLoop`, which implements the abstract `Mailbox`.
4. `Buffer`: framing; implements `Mailbox` too.
5. `ConnectionIO`: one connection against the kernel, resets included.
6. `DeviceSession`: logins, data and files.
7. `WorkerMode`: the server with worker threads. Composes connections, event
   loop, pool and device map, each coarser than in its own module; of the pool
   it uses what `WorkQueue` promises.
8. `Shutdown`: `Stop` as a signal handler, at any step of any thread, with the
   loops, the I/O pool and the destructors it goes through.

Theorems: every safety property that a passing run checks is proved, and each
of the four refinements. What is left to do: that `WorkerMode`, whose idle timer
may leave bare pointers behind, implements `Registry` as far as that allows; an
abstract request and reply stream that `ConnectionIO` implements.

## 3. Modules and the code

**`ConnLifecycle`** and **`Registry`** (`MCConnLifecycle`,
`ConnLifecycleProofs`). Main thread:
`Accept` (with the `Connection` constructor), `WireCallbacks`,
`InsertServerMap`, `LockLoopMap`/`InsertLoopMap`, `LockDeviceMap`/
`InsertDevice`, `ReturnToLoop`; `mpc` is its place in `newConnection`, `mconn`
its local `shared_ptr`. I/O thread of loop `l`: `EpollWait` takes a batch,
`HandleRead`, `HandleHangup`, `HandleTimer` handle an item of it, then
`LookupDevice`, `CloseDevice`, `CloseServer` and `Scan`, `ExpireFromLoop`,
`ForgetInServer` are the steps the handlers consist of: one for each critical
section or unprotected access to shared state. Locking is a separate step only
where the source has an access that ignores the mutex; other critical sections
are one step. `Held` is the reference count, `DestroyUnheld` ends every step
that drops a reference. Undefined behaviour and uncaught exceptions may end the
process with a `fault`, and what holds is claimed of the program until then:

* `unset_callback`: the `Connection` is polled from its constructor on
  (`Connection.cpp:11`), its callbacks are set later (`TcpServer.cpp:65`); an
  event in between calls an empty `std::function`;
* `dangling_channel`: the timer destroys a `Connection` whose event comes later
  in the same batch of raw pointers (`EventLoop.cpp:51`);
* `torn_map`: the timer walks `m_elConnectionMap` (`EventLoop.cpp:146`), or a
  message uses `m_deviceInfoMap` (`Navigation.cpp:113`), without the mutex while
  another thread changes it. A race that is survived has the outcome of one
  order or the other;
* `null_device`: that lookup found no entry and made an empty one;
* `bad_accept`: out of descriptors, `accept` returns -1 and nobody asks.

Three more things the code does are plain steps here. A message handled before
`InsertDevice` meets the `DeviceInfo` an earlier connection left at the
descriptor (`LookupDevice`). The timer's two erasures are two critical
sections, so the second, `ForgetInServer`, may remove a new connection that got
the descriptor in between from `TcpServer`'s table. And `ForgetInServer` leaves
the device entry, for `TcpServer.cpp:160` names the timeout callback without
calling it. Items of a batch are handled in any order. `HandleRead` handles at
most one message of what it has read: the handling of further ones changes
nothing this module's properties see. The epoll timeout does nothing, as
`Navigation` sets no callback for it. `newConnection` may take longer than the
10 seconds of `m_timeout`, so a connection can expire while it is being entered.

`Registry` is what a client may count on: its descriptor names no other live
connection, it is closed at most once and not heard after that, and the server
lets go of it only if it was closed or silent for too long. The mapping
(`StatusOf`) takes a connection as expired when its loop's table had it and has
it no more: this is the moment from which nothing but `newConnection` or a
callback in progress still holds it. One that expired while it was being
entered may speak again and is destroyed all the same; `Registry` allows this.

**`ThreadPool`** and **`WorkQueue`** (`MCThreadPool`, `ThreadPoolProofs`). `TestStop`, `Lock`,
`Check`, `Block`, `Take`, `Run` are the worker function, with
`wait(lock, predicate)` split into test and blocking; `Push` and `NotifyOne`
are `addTask`; `CallStop`, `SetStop`, `NotifyAll`, `Join` are `stopThread`,
`CallStopAgain` the destructor's second call. Spurious wakeups are included.
`WorkQueue` is what whoever adds a task may count on: it is begun after those
added before it, by one thread that has no other task, and executed once. The
mapping is by name: queue, each worker's task, what is executed.

**`EventLoop`** and **`Mailbox`** (`MCEventLoop`, `EventLoopProofs`). `run`,
`handleWakeup`, `addTaskToQueueInLoop` and `stop` step by step; all other
Channels are one event, `other`. `Mailbox` is what the callers may count on:
posted tasks are run once, oldest first. The mapping takes the task that
`fn()` has run but `pop` has not removed as run already.

**`Buffer`** (`MCBuffer`, `BufferProofs`). Bytes have `Base` values, so that a
four-digit length field can be examined with short messages; what a one is worth
in each digit is written as a product, for the prover knows no powers. To its
users, the two buffers and the stream between them are a `Mailbox` of numbered
messages (`OnTheWay`, `Arrived`). `memcpy` of 4 bytes from a
shorter string reads its terminating 0 and then whatever is there (`Junk`).

**`ConnectionIO`** (`MCConnectionIO`, `ConnectionIOProofs`). Streams counted in
pieces; the kernel's two buffers, its ready list with edge-triggered reports
and the `SOCK_NOSPACE` flag that decides whether new space is an event. The
client sends, shuts down, resets and reads at its own pace. `HandleIn`
takes up a report that has both IN and OUT and drops the OUT, as the `else if`
chain of `Channel::handleEvent` does (`Channel.cpp:80`): a reply may wait in
`m_outputBuffer` until the client sends more, so that every reply is sent is not
among the properties. `ReplyWaitsForCause` says when it waits: for room, whose
coming the kernel will report; for the next `epoll_wait`; or, and this is the
dropped OUT, for the rest of a request of which a part has come. With whole
requests it is no loss, for each reply registers the write event anew. A reset (`ClientReset`) throws away what is unsent.
`ReadError` is the `read()` that returns -1 with `ECONNRESET`: no branch is for
it, the loop reads again, and gets 0. `HandleOutReset` is the `send` that meets
a reset: `SIGPIPE` or `exit(-1)`, the process is gone (`peer_reset`).

**`DeviceSession`** (`MCDeviceSession`, `DeviceSessionProofs`). A session is a
connection and the `DeviceInfo` made for it (which of them a message meets is
`ConnLifecycle`'s question). `Login` and `LoginImu` are `deviceInit`; `Output` the two data
messages; `Logout`, `CloseImu` are `deviceClose`; `End` is its destructor.
Streams have a path, a failbit, a buffer and a file offset, as libstdc++ has
them. What is acknowledged (`Message`) is not what is put out (`Line`): the
result of `getXMLBuffer` is ignored (`Navigation.cpp:153`, `167`), so a message
whose data are not between the tags `gnssdata` or `imudata` is answered ok like
any other and gives an empty line (`LineOf`). The comment at
`Navigation.cpp:117` and the test client (`navClient.cpp:90`) send `navdata`:
such data are acknowledged and lost, and `LinePerAck` promises no more than
their empty line. Messages that change nothing (not logged in, no id, unknown code) are no
actions. A full disk is left out. `spoilt` notes a file that two logins had at
once, or whose login was repeated without a logout.

**`WorkerMode`** (`MCWorkerMode`, `WorkerModeProofs`).
`workThreadNum > 0`, the default of `Navigation`'s constructor; `navServer.cpp`
passes 0. `HandOver` is `addTask` with the `shared_ptr` and a copy of the
message; `TakeTask`, `Lookup`, `Process`, `SendTest`, `Post`, `Return` are a
worker's way through `handleMessageToThreadPool` and `sendMessage`;
`HandleWakeup`, `SendInLoop`, `EndWakeup` run the queued `sendInLoop` calls. A
request and the reply to it are one number, its place in the order of arrival.
The pool's references count (`Held`): a worker may be the one to destroy a
`Connection`. Coarser than in the modules above, which treat them in full:
`newConnection` is split only before it enters the device, a close is one step,
so is each use of a queue (`WorkQueue` shows that the pool's is no more to its
users), there is one event loop, and which connections have been idle is left open, so the timer may take
any. Its walk through the loop's
table is one step (`HandleTimer`; its race with `addNewConnection` is in
`ConnLifecycle`), its two erasures are two critical sections for each
descriptor (`ExpireFromLoop`, `ForgetInServer`): a descriptor may get a new
owner between them, whose entry in `TcpServer`'s table then goes. A `Channel` in epoll is
`read` or, after `sendInLoop` has put it back behind a close, `bare`. The
process may end with `dangling_channel`, `dangling_this`, `dangling_data` (the
bound pointers are bare), `null_device`, `torn_map`, `device_race` (two workers
in one `DeviceInfo`) or `send_failed`.

**`Shutdown`** (`MCShutdown`, `ShutdownProofs`). The constructors (`Construct`), the I/O threads
as far as the shutdown meets them, and `Stop` (`Enter` to `Exit`) as a stack of
activations `act` per thread: a signal interrupts whatever the thread does, one
of the other kind interrupts `Stop`, one of the same kind goes to an I/O
thread. What a thread was interrupted in matters by the locks it holds: the
maps' mutexes, that of `stdout`, which its owner may take again, and that of
the heap, which it may not. `Join`, `DeleteTables`, `DeletePool` have the ways
in which `join` throws and destruction is undefined as faults; `lost` notes a
line accepted after the streams were written out, and `missed` the threads that
were awake at the `notify_all`. `EventLoop` shows that
`stop()` makes `run()` return, which is one step here (`PollStopped`); the
main loop's own `stop()` (`TcpServer.cpp:30`) is left out, for its thread never
comes back from `Stop` to see the flag. `PollEvents` gives a batch at most `MaxSections` critical sections.

## 4. Runs that pass

| Run | Instance | Checks | Why that is enough |
|---|---|---|---|
| `conn` | 2 connections, 2 fds, 1 loop, fair | `TypeOK`, `TablesAgree`, `OwnDevice`, `PolledIsTracked`, `NoEventAfterClose`, `ImplementsRegistry`, `ClosedIsReclaimed` | a descriptor is reused while one timer run handles both; a connection expires inside `newConnection`; more loops and connections are the theorems' |
| `pool` | 3 workers, 3 tasks, fair | `TypeOK`, `ImplementsWorkQueue`, `EnoughAwake`, `QueuedIsExecuted` | one worker asleep, one about to sleep, one busy |
| `loop` | 2 callers with 2 calls each, fair | `TypeOK`, `NoStrandedTask`, `ImplementsMailbox`, `QueuedIsRun`, `StopIsPrompt` | pushes and a stop before, during and after a drain |
| `framing` | base 4, 3 payloads, 3 messages | `TypeOK`, `ImplementsMailbox`, `OnlyPartialFrameWaits`, `JunkIsHarmless` | all fragmentations, a two-digit length, an empty message |
| `io` | 2 pieces, 4 requests, send buffer 3, fair | `TypeOK`, `ReplyWaitsForCause`, `PiecesConserved`, `NoLostReadEdge`, `NeverSendsWhenFull`, `RequestsAreHandled`, `ShutdownIsNoticed` | several requests in one read; the buffer fills in mid-message, repeatedly; a reset at each of these points; half a request comes with the write event |
| `device` | 2 sessions, 2 devices, 2 data messages, symmetry | `TypeOK`, `LoginMatchesStreams`, `NotMisfiled`, `LinePerAck` | sessions overlap or follow each other on a file; a change of id within and across sessions; messages with and without the tags, in either order |
| `worker` | 2 connections, 1 fd, 2 workers, 3 requests, symmetry | `TypeOK`, `OwnDevice`, `OvertakingBounded`, `OnlyExpiredDangle`, `EntriesEndForCause` | the second connection gets the first one's descriptor while workers still have requests, and replies, of the first, and also between the timer's two erasures |
| `shutdown` | 2 I/O threads, 1 table, 2 signals, 1 section, fair | `TypeOK`, `OneSignalIsSafe`, `CleanExit`, `StopEnds` | a second signal inside `Stop` and on an I/O thread; one thread between loops while the other runs one; a lock held by each |

Deadlock is not checked anywhere: the server rightly stops when its clients,
its bounded inputs or its owner are done.

**Bounds.** `Conns`, `Fds`, `MaxCalls`, `Tasks`, `MaxSent`, `MaxMsgs`,
`MaxData`, `MaxRequests`, `MaxSignals` and `MaxSections` bound what would be
unbounded; they are constants, and the theorems hold for all their values.
`FirstSignal` says which of the two signals, handled alike, comes first.
Symmetry is used on interchangeable model values, in runs of safety properties
only.

**Fairness.** Each thread is scheduled (weak fairness of its program steps,
which the kernel and the pthreads library give); a call that has begun goes on.
`conn` adds the clock (timers expire, a silent connection grows idle), `io` a
client that goes on reading. `shutdown` has strong fairness: a thread gets a
mutex that is released again and again. Nothing is assumed of clients
otherwise, of calls nobody is bound to make, of spurious wakeups, of a second
signal, or of the 10 second timeout of `epoll_wait`. `worker` and `device`
check safety only.

**What they show.** As long as none of the faults above ends the process, the
ownership scheme works: no two live connections ever share a descriptor, no
table holds another connection's object, an open and active connection is never
destroyed, a closed one has no further event and always is, and the device map
is right once `newConnection` has returned. The reactor loses no wakeup, no
notification and no input edge, and `send` is never tried on a full buffer. A
file that one login at a time uses has a line for each message acknowledged, but
only data that came between the tags are in it. A reply that is not sent waits
for the client, to read or to finish the request it has begun. With worker
threads a table entry goes only with its own connection, except that the second
erasure of the timer may take a new connection's entry in `TcpServer`'s table,
which the loop's table makes up for; and only connections that the idle timer took out
are ever used after their end; requests overtake each other by less than the
number of workers. One signal ends the server without using what it destroyed,
and with more an exit is orderly or does not come about. Once a signal has come
the process ends, unless a lock of interrupted code, or a thread that was awake
at the notification and went to sleep after it, holds it up for good:
`StopEnds` asks that one of these be so from some moment on, not in passing.

## 5. Where code and comments part

Each of these runs checks one statement of a comment and ends in a
counterexample; the quotes are in `PROJECT.json`.

| Run | What happens |
|---|---|
| `pool_drain` | tasks queued at the stop are dropped |
| `pool_stop` | a worker sleeps through the stop and `join` never returns |
| `device_acked` | after a second login data are acknowledged and dropped |
| `worker_reply` | a worker posts a reply and returns; the string is gone when the I/O thread sends it |

## 6. Proofs

All are of the form: an invariant `IInv`, `Init => IInv`,
`IInv /\ [Next]_vars => IInv'`, `IInv` implies the property. A refinement adds
that under the invariant each step is a step of the abstract specification or
changes nothing there. They assume only the `ASSUME`s on the constants.

* `ConnLifecycleProofs`: `TypeCorrect`, `TablesAlwaysAgree`, for any number of
  connections, descriptors and loops. `TablesAgree` is not inductive: that an
  entry of descriptor `f` is a live connection of `f` follows only if every
  reference, also those of main's local and of a callback in progress, is to a
  live object, and if main's and the loops' references are there exactly in
  the steps that use them. `IInv` adds this; the lemma `DestroyKeeps` then
  treats all steps that drop a reference alike.
  In the second part, `PolledAlwaysTracked`, `NoEventEverAfterClose`,
  `AlwaysOwnDevice`, `OnlyIdleEverLeaveLoop`, `ActiveAlwaysSurvives`: `TInv`
  adds to `IInv` where each loop is with which connection, that a closed one is
  neither polled nor in a batch, that what a timer has queued is idle still when
  its turn comes, that `addNewConnection` finds no entry at its descriptor, and
  that whatever `TcpServer`'s table holds the loop's table holds too
  (except between the two erasures). The last is what saves an active
  connection from the erasure meant for its predecessor on the descriptor.
  In the third, `ServerImplementsRegistry`: `RInv` adds that every live
  connection is held by someone, so each step that drops a reference can destroy
  one connection only, the one it let go of (`DropRefines`); that this one was
  closed, expired or idle follows from `TInv`.
* `ThreadPoolProofs`: `TypeCorrect`, `TasksAreConserved`, `NoLostNotification`,
  `PoolImplementsWorkQueue`, for any workers and tasks. `IInv` adds who holds the mutex at which step,
  when a worker has a task, and that a worker between test and blocking holds
  the mutex with the queue empty, so nothing can be pushed unnoticed.
  `NoLostNotification` is `EnoughAwake`, an inequality of cardinalities that
  each step changes on both sides alike. `TasksConserved` is in no run of its
  own: `ImplementsWorkQueue`, which a run checks, says it and more.
* `EventLoopProofs`: `TypeCorrect`, `NoLostWakeup`, `LoopImplementsMailbox`,
  for any callers and calls. `IInv` adds that the mutex is held exactly while
  the queue is drained, that between `fn()` and `pop` the task is still at the
  front, and that a call's task is nowhere before the call.
* `BufferProofs`: `TypeCorrect`, `MessagesComeInOrder`,
  `BufferImplementsMailbox`, `OnlyPartialFramesWait`, `JunkIsAlwaysHarmless`, for
  any size of a byte, any messages, any number of them and any fragmentation.
  First the arithmetic of the length field: four digits of a number are bytes,
  and add up to the number again. Then `Framed`: there are positions `at`, one
  for each message sent and one for the end, at which input buffer, wire and
  output buffer, put together, fall into the frames of what is under way. What
  `pickMessage` finds is then the first of them, or the first is not there
  whole. Such a witness takes the place of an induction over the stream, which
  the prover could not do. `WaitInv` adds that a reader that has gone idle had
  found no message.
* `ConnectionIOProofs`: `NoReadEdgeIsLost`, `SendAlwaysHasRoom`,
  `PiecesAlwaysConserved`, `TypeCorrect`, `RepliesAlwaysWaitForCause`, for any message
  size, send buffer and number of requests. `IInv` adds where unread input is
  known of, that reported room is room still (only the loop fills the send
  buffer), and that a full buffer with output left was noticed by the kernel. `ReplyInv`
  and `Unfinished` add that a loop which drops the write event has a message to
  handle, which registers it anew, or part of one.
  The bounds of the types then follow from the conservation of pieces.
* `DeviceSessionProofs`: `TypeCorrect`, `LoginAlwaysMatchesStreams`,
  `NothingIsMisfiled`, `AlwaysLinePerAck`, for any sessions, devices and
  messages. `IInv` adds how flag, id and streams go together in the middle of a
  login or a logout: a stream that takes lines has the file of the id the
  session has now. `RecordInv` adds that a file which is not `spoilt` has one
  writer at most, which stands at its end, and that a session whose stream has
  failed has a spoilt file; writing at the end is appending (`FlushedAtEnd`), and
  one more message is one more line (`OneMoreLine`).
* `WorkerModeProofs`: `TypeCorrect`, `AlwaysOwnDevice`, `OnlyExpiredEverDangle`,
  `EntriesAlwaysEndForCause`, `OvertakingIsBounded`,
  `WorkersUseTheWorkQueue`, for any number of connections, descriptors, workers and requests (the last for a finite set of
  workers). `IInv` says that tables and tasks refer to live connections, and
  that until the idle timer takes it out a connection, closed or not, is in the
  loop's table: so its descriptor is not used again, and what a close erases by
  descriptor is its own. `TimerInv` says that what the timer's queue has is
  still in the loop's table until its turn comes, so what is taken out there is
  what the walk found.
  `OrderInv` adds what bounds the overtaking: a request
  is queued, in a worker's hand, or finished; the queue is in the order of
  arrival and behind all that was taken; and for every finished request some
  worker's hand is free of older ones. The older, unfinished ones are in the
  others' hands, one in each.
* `ShutdownProofs`: `TypeCorrect`, `OneSignalIsAlwaysSafe`, `ExitIsAlwaysClean`,
  for any number of I/O threads, tables, kinds of signals and signals. `IInv`
  says that joined threads have exited, that exited ones are in nobody's
  `Stop`, and that who is past setting the pool's flag finds it set. With one
  signal the main thread is alone in `Stop`, and its place there tells what has
  been done. For `CleanExit`: if the maps are destroyed before all threads have
  exited, or a line is lost, an orderly exit is out of reach (`Hopeless`): an
  I/O thread is in `Stop` and can never be joined, or the main thread has
  passed the joining by.

Only model-checked: liveness (`ClosedIsReclaimed`, `QueuedIsExecuted`,
`QueuedIsRun`, `StopIsPrompt`, `RequestsAreHandled`, `ShutdownIsNoticed`,
`StopEnds`), which is beyond the prover. Proved and in no run, for one that is
says it already: `InOrder`, `TasksConserved`, `ActiveSurvives`,
`OnlyIdleLeaveLoop`. `UsesWorkQueue` is proved and in no run either: it is a
statement about how `WorkerMode` uses its pool, not about the code's outcome.

## 7. Not modelled

Malformed frames and separators 0 and 2 of `Buffer`, which no code of the
server uses; XML parsing (`getXMLBuffer`) beyond the business code and whether the
tags that are looked for are there; failures of `epoll_wait` and `epoll_ctl`, which
end the process, and of creating the eventfd, the timerfd and epoll; a full
disk; descriptors of
other kinds (the streams' too); worker threads during the shutdown, as
`navServer.cpp` configures none, and more than one event loop with them; the
sockets' options and addresses, time stamps, the test client and the build
scripts, which keep no state the server's steps depend on.
