# A verification of the RS485 gateway and its reactor

The program reads sensors on RS485 lines and stores what they report. It has
two layers:

- a reactor in the style of muduo (`src/src/port`, `src/src/utils`): an event
  loop per thread, timers, pollers, TCP client and server, buffers, a thread
  pool and an asynchronous log;
- the gateway (`src/src/*.cpp`, `src/src/protocols`): a device manager loads
  ports, units and measure points from XML files, a timer per unit sends a query
  through the codec of its protocol, and a reader thread per port parses what
  comes back.

The TLA+ modules here model the concurrent and stateful parts of both, TLC checks
them on small instances, and TLAPS proves the main safety properties for any size: of
the timer queue, the event loop, the two pollers, a connection and its buffer, the
client, the server, the queues, the buffers of the asynchronous log, the loading of the
devices and the polling of the serial ports.

## Inventory

`PROJECT.json` lists every part with its status, and every hazard with its line.
In short:

| part | sources | module | status |
|---|---|---|---|
| timers | `port/TimerQueue.cpp`, `Timer.*` | `TimerQueue` | modelled but for the destructor |
| event loop | `port/EventLoop.cpp` | `EventLoop` | modelled but for the destructor |
| loop in a thread | `port/EventLoopThread.cpp` | `EventLoopThread` (extends `EventLoop`) | modelled |
| pollers, channels | `port/EPollPoller.cpp`, `PollPoller.cpp`, `DefaultPoller.cpp`, `Channel.*` | `EPollPoller`, `PollPoller`, `DefaultPoller` | modelled |
| TCP client | `port/Connector.cpp`, `TcpClient.cpp` | `TcpClient` | modelled but for the destructor |
| TCP connection | `port/TcpConnection.cpp` | `TcpConnection` | one connection, byte by byte |
| TCP server | `port/TcpServer.cpp`, `Acceptor.cpp`, `EventLoopThreadPool.cpp` | `TcpServer` | modelled |
| buffer | `port/Buffer.*` | `Buffer` | modelled |
| thread pool, queues, latch | `utils/ThreadPool.cpp`, `BlockingQueue.h`, `BoundedBlockingQueue.h`, `CountDownLatch.*` | `ThreadPool`, `BlockingQueue`, `CountDownLatch`, `Queues` | modelled |
| asynchronous log | `utils/AsyncLogging.*`, `LogFile.*` | `AsyncLogging`, `LogFile`, `AsyncLogFile` | modelled |
| log statements | `utils/Logging.*`, `LogStream.*` | `Logger` | one thread's |
| dates | `utils/Date.*`, `TimeZone.cpp` | `Calendar` | without zone files |
| polling of a serial port | `SerialPort.cpp` | `SerialPort` | without the termios settings |
| devices | `DeviceManager.cpp`, `MonitorUnit.cpp`, `MeasurePoint.cpp` | `DeviceManager`, `Configuration` | loading and start |
| codec libraries | `CodecFactory.cpp` | `CodecFactory` | modelled |
| settings | `ConfigUtil.cpp` | `ConfUtil` | modelled |
| frames | `protocols/MMXN`, `protocols/ZSAR`, `crc.h` | `Codecs` | commands, CRC, parsers |
| the rest | see "Not modelled" | | |

How they meet: a thread of the program runs one `EventLoop`; its poller returns
channels, its timer queue is one of them, and other threads reach it through the
queue of functors. `TcpClient` and `TcpServer` make connections on such loops. The
gateway runs on the same loops: `DeviceManager` starts a timer per unit, whose callback
takes a codec from `CodecFactory` and writes to the line; `SerialPort` is that callback
against the reader thread. Everything logs through `Logger` into `AsyncLogging` and
`LogFile`.

Some modules compose others. `EventLoopThread` puts a loop into its thread,
`AsyncLogFile` puts the log files behind the logging thread, and `Configuration` lets
a timer's callback use the result of `load()` and the libraries found; there the parts
take steps in turn on shared state. `Queues`, `DefaultPoller`, `Sequential` and the
settings half of `Configuration` are sums: a selector says which part a behaviour is
about, because the parts are alternatives or have nothing in common.

`TaskQueue` (a queue that hands over each item once, in order) and `ByteQueue` (a
sequence of bytes) are abstract: `EventLoop` is shown to implement the first, `Buffer` the
second. The `MC*` modules only hold values
of constants for TLC.

## Conventions

- Each module says in its header what it models. Variables and actions keep the
  names of the source where possible; `PROJECT.json` maps every definition to
  its lines.
- A section under one mutex, or a handler on the loop thread that touches only
  data of that thread, is one step. Calls from other threads are split where they
  read something they do not hold a lock for (`shutdown()` in `TcpConnection`,
  `quit()` in `EventLoop`, `connect()` and `stop()` in `TcpClient`, `setConfig()` against
  `parser()` in `SerialPort`).
- An `assert` is a state of its own: a variable `failed` keeps its line or its
  place, and a property says that none is reached. In `EventLoop`, where any user code may
  call `removeChannel()`, its assert ends the program (`pc` is `"aborted"`) as it does in
  the default build (Debug).
- Undefined behaviour is either a choice of values (bytes of the stack, a string read
  while it is assigned) or, for a write outside of an array, a last state.
- The text of messages and names is left out, but for the digits of numbers in `Logger`
  and the number in a connection's name in `TcpServer`. Bytes are model values where
  only their order matters (`Buffer`, `TcpConnection`) and numbers where their values
  do (`Codecs`).
- A definition whose comment starts with "Mutant" is a plausible mistake in the
  definition after it. Replacing the one by the other makes TLC report the property
  `PROJECT.json` names for it; it is not part of the specification.

## Modules, state and actions

**TimerQueue.** `heap` maps addresses to timers, so that a deleted timer's address
can be used again; `timers_`, `activeTimers_` and `cancelingTimers_` are
sets as in the code. Threads create timers and call `cancel()`; the loop
runs the queued halves, `handleRead()` takes the expired ones, runs their callbacks
one at a time (which may add and cancel) and `reset()` inserts the repeating ones
again. The wall clock can be set (`MaxAdjust`) while the timerfd counts on.

**EventLoop, EventLoopThread.** The loop's program counter goes through poll,
dispatch and `doPendingFunctors()`; other threads queue functors, wake the loop and
quit it in separate steps. Only registered channels become ready: the kernel forgets
an event with the registration. User code, that is a handler, a functor or what runs before
`loop()`, removes any channel, and meets the assert of `removeChannel()`. `EventLoopThread` adds the thread that owns the loop,
`startLoop()` and the destructor.

**EPollPoller, PollPoller, DefaultPoller.** Channels are enabled, disabled and
removed; the epoll set and the array of `pollfd` are variables, and so is what is
ready. `DefaultPoller` is `newDefaultPoller()`: it chooses one of the two at the
start and takes its steps.

**TcpClient.** The connector's state, its channel, the retry timer, the functors
queued to the loop and the caller's `connect()`, `disconnect()` and `stop()`, from
another thread, from a functor or from a handler (`CallFrom`). On another thread a call
sets `connect_` of the client, then that of the connector, then queues its functor
(`call`); on the loop thread `removeConnection()` tests the first, `restart()` sets the
second and `startInLoop()` reads it (`c.step`): other threads come in between.

**TcpConnection.** One connection between a server on its base loop and an I/O
loop; threads send and shut down, the peer reads slowly, closes or resets,
and the server may be destroyed.

**TcpServer.** The descriptors of the process with their owners, `idleFd_`, the
connections with the loops they belong to, and per loop the functors pending and the
batch being run. `handleRead()` of the acceptor is split where another thread may take
the descriptor that `close(idleFd_)` has freed. `~TcpServer()` gives up its connections one
by one, in any order, while the loops of the pool go on; these end one after the other
when it is done, and what is pending in them is dropped.

**Buffer.** The vector and both indexes; the content between the indexes is the
queue of `ByteQueue`.

**ThreadPool, BlockingQueue, CountDownLatch, Queues.** Workers, callers and the owner
with their program counters, and the threads waiting on each condition. Waiters wake
spuriously, and `notify()` wakes any one of them. A worker takes a task under the mutex
and begins it without (`Take`, `Begin`).

**AsyncLogging, LogFile, AsyncLogFile.** The buffers of the front end and of the
thread. A buffer is the sequence of its lines; an empty spare buffer is only there or
not. `LogFile` has the files by name, the lines in the buffer of stdio and the
counters that decide when the file is rolled or flushed; a write may fail and the
wall clock may be set.

**Logger.** A statement inserts pieces into the fixed buffer; integers and pointers
are converted digit by digit as in `LogStream.cpp`. The text of the last second is kept
from statement to statement.

**Calendar.** The functions of `Date` and the UTC half of `TimeZone` with the division
of C. A behaviour walks through a year day by day and counts the calendar by itself.

**SerialPort.** Ports, units and the codecs they share; a timer callback is split
where the reader thread can come in between, and so is a `parser()` where the loop thread
can: it reads the precisions, `lnInst_` and `lnInst_` again, without a lock. `setConfig()`
merges the precisions, so that those of earlier units stay. Cells of the line carry the
unit that sent them, so that a record can be traced to its sender, and whether they have
an over-long length byte, for which `parser()` of MMXN returns `PARSE_SUCCESS` and leaves the record as
it is. `n` of `listen()` starts with any value.

**DeviceManager, CodecFactory, Configuration.** `load()` reads the files in any order
`readdir()` may choose and inserts ports, units, points and parameters one by one;
`start()` opens the ports and starts the timers of the units with a numeric interval;
`CodecFactory` loads the libraries in any order, or none if `opendir()` fails. `Configuration` adds the first callback of
a timer: which codec it finds and for which unit.

**ConfUtil.** The file as the items and comments in `<configs>` and the nodes behind it,
the settings read from it over the defaults, and `saveItem2File()`, which loads and changes
the file and saves it in a step of its own: the write may fail, which nobody asks, or the
process may end. Then the file is a part of the document, cut between two nodes or within
one; TinyXML drops an attribute that is cut off, so that an item without attributes is left.

**Codecs.** Pure operators for the CRC (the two tables of `crc.h`), the commands and
the parsers of MMXN and ZSAR, and a device that answers, whose CRC is computed
bit by bit from the Modbus polynomial. A parser returns a set of results, because MMXN
leaves the bytes of `data[]` that the length byte does not cover as they were. Times are
64-bit numbers of seconds, cut to an `int` as in the code. The state machine only
enumerates inputs.

## What is checked

| run | instance | shows |
|---|---|---|
| `timerqueue` | 2 addresses, 2 timers, 1 other thread, the clock set once forward or back | the two sets agree; a cancelled timer never comes back; a queued cancel takes effect; stale ids are harmless; the timerfd is armed in time; a queued timer expires |
| `eventloop` | 2 channels, 1 other thread, 3 functors, in an `EventLoopThread` | no wakeup is lost; no removed channel is dispatched, whoever removes what; the loop implements `TaskQueue`; functors run; the destructor returns if the loop had been entered |
| `pollers` | `EPollPoller`: 3 channels on 2 descriptors; `PollPoller`: 3 descriptors | epoll set, `channels_` and indexes agree; array and indexes agree through the swaps of `removeChannel()`; no assert fails |
| `tcpclient` | 1 connect, 3 stops | no assert fails; sockets are closed once; no attempt is forgotten; after `stop()` the attempts end, unless a restart overtook it |
| `tcpserver` | no pool or 2 threads, 3 peers, 3 descriptors, numbers of 2 binary digits | every descriptor has one owner, also when they run out and in the destructor; no assert fails; a waiting peer is accepted or turned away |
| `tcpconnection` | 2 threads and the loop, a message of 2 bytes each | output in order, FIN after it; a shutdown completes; a closed connection is removed |
| `queues` | 2 workers, 3 callers, 5 tasks, queue of 2; each of the four kinds | nobody sleeps while there is work, a place or an open latch; no task is lost, begun twice or passed over; callers and `stop()` return |
| `logging` | 6 lines, 2 per buffer, drop above 2, files of 3 lines, a period of 2 seconds, 2 changes of the clock | spare buffers never run out; the files, read by name, have the lines in order and once; every line gets to the disk or is accounted for; `stop()` returns |
| `serialport` | 2 ports, 3 units, one codec for two of them, one of which has a precision and one over-long answers; a buffer and lines of 2 cells; `n` below, at and behind the ends of the buffer | what a record can be attributed to; which reads overflow the buffer; the reader recovers; units are polled for ever |
| `configuration` | 4 files, 6 libraries, 6 settings files, 4 saves | units of a file with its own port are loaded in any order, and polled with the codec and the interval of their element; what was saved is what is read |
| `sequential` | values and times at the limits of 8, 16 and 32 bits, 14 length bytes, 3 contents of the stack and a 16-bit window of damage; every day of 12 years; a line of 72 bytes and 3 insertions; a buffer of up to 8 bytes | commands carry a right CRC, what answers are decoded to, damage is found; dates and times convert both ways; a log line has whole pieces in order and the right second; `Buffer` implements `ByteQueue` |

The bounds are the smallest at which every action fires and the cases the hazards
name happen: an address used twice, a descriptor used twice, two waiters on
one condition, a buffer that is exactly full, more buffers than the drop limit, two
units of one protocol on two ports, a peer that waits when no descriptor is left, a
file rolled twice in a second, a log line without room for the next number. The years
are those next to the rules for leap years (1896 to 2100). Thresholds of the code that
would only make the instance large are constants (25 buffers in `AsyncLogging`, 1024
lines between looks at the clock in `LogFile`, 4000 bytes in `Logger`, 1024 in `Buffer`,
256 bytes in `SerialPort`). With the 2 cells of the run nothing follows a whole reply in the
buffer; 3 cells, with which it does, have four times as many states, and the four
properties hold there too. No run uses symmetry.

Deadlock checking is off where the program really ends or where bounded counters
are used up.

### Where the code and its assertions disagree

One run is expected to be violated. `tcpconnection_race` checks
`assert(isNoneEvent())` of `Channel::remove()`: `shutdown()` of another thread tests
`state_`, `handleClose()` sets `kDisconnected`, and `shutdown()` overwrites it; a send
that was queued then enables the channel again before it is removed.

The other disagreements met while modelling are in the models too, and show up
with other constants than those of the runs:

| module | constants | what happens |
|---|---|---|
| `TcpClient` | `MaxConnects = 2` | a retry timer survives `stop()` and meets `assert(state_ == kDisconnected)` (`Connector.cpp:42`): `NoAssertFails` |
| `TcpClient` | `MaxConnects = 2`, `CallFrom = {"functor"}` | `connect()` right after `stop()` meets `assert(!channel_)` (`Connector.cpp:128`): `NoAssertFails` |
| `TcpClient` | `CallFrom = {"handler"}` | `stop()` in a handler meets the assert of `removeChannel()`, because it removes a channel that is about to be handled (`EventLoop.cpp:200`): `NoAssertFails` |
| `TcpConnection` | `MayDestroy = TRUE`, `ShutdownFrom = {"loop"}` | `~TcpServer()` removes the channel of a connection that is shutting down while it still reads: `RemovesDisabledChannel` |
| `PollPoller` | `Uses = {"reenable"}` | a channel that is disabled and enabled again keeps a negative descriptor and is not found (`PollPoller.cpp:52`): `PollersAgree` |
| `PollPoller` | `Uses = {"unused"}` | a channel that is removed without having been enabled, as by `~Acceptor()` without `listen()`, has no disabled entry (`PollPoller.cpp:105`): `PollersAgree` |
| `TcpServer` | `NameDigits = 1`, `Radix = 2` | the number of a connection is cut to fit the 32 bytes of its name, the second connection takes the name of the first, and `assert(n == 1)` of `removeConnectionInLoop()` fails: `NoAssertFails` |
| `Buffer` | `Starts = {0, 1}` | `findEOL(start)` finds a line end beyond the content (`Buffer.h:116`): `failed` becomes `"retrieveUntil"` |

Others are visible in the definitions:

- `Visited` in `PollPoller` is not `HasRevents`, because `fillActiveChannels()` tests
  `events` where `revents` is meant: a ready descriptor may have to wait, and no
  property of delivery holds for this poller.
- `stop()` of another thread is lost when it comes between the test of `removeConnection()`
  (`TcpClient.cpp:147`) and the assignment of `restart()` (`Connector.cpp:121`):
  `StopQuiesces` excepts that case (`ended` is `"overtaken"`).
- In `SerialPort` the first `read()` goes to an address that was never set
  (`SerialPort.cpp:219`), a later one may return more than there is room for (line 252), and
  the loop over an unfilled record has no bound (line 292). All three end in `"undefined"`,
  after which the model takes no step. A unit that gives no precision is scaled by that of a unit
  polled before.
- `parser` in `Codecs`: the time of a record is an `int`, 2^32 seconds too early from
  19 January 2038 on; `SmpTm` has eight hours added and `LastOpTm` has not; ZSAR keeps the lower byte of its values;
  for an over-long frame MMXN returns 0, which is `PARSE_SUCCESS`, without a record; behind a
  short length byte MMXN reads what is on the stack and ZSAR zeros, and with a length below 2
  ZSAR copies a negative number of bytes. `CodecsExact` states each of these.
- `DeviceManager` can give a unit two measure points, where `MonitorUnit.h:30` assumes one.
- In `ConfUtil` a comment behind the first item sends the reading of the settings to the
  node behind `</configs>`, where it reads an item or, if there is a comment too, never
  ends; saving an item that comes after a comment ends the program; `last_upload` is stored
  from a variable that was never set (`ConfigUtil.cpp:192`); and a write that fails or is
  interrupted leaves a part of the file, with which the next start takes defaults or throws.
- In `TcpServer`, another thread that opens a file in the middle of `handleRead()` takes
  the reserve: `idleFd_` is -1 from then on, and the loop spins while a peer waits and
  no descriptor is free.
- `stop()` of `ThreadPool` does not wake a caller that waits for a place in the queue.
- `readTimeZoneFile()` has `if (head != "TZif");` (`TimeZone.cpp:170`) and throws for every
  file, so that no zone but a fixed one has data.
- `SerialPort::cancelTimers()` cancels nothing, because nothing is put into `timers_`.

### Fairness

Liveness is checked under weak fairness of the steps a running thread takes: the
loop threads, the worker threads, the logging thread, a thread inside a call. What a
thread waits for needs more:

- `TcpConnection`: strong fairness of a write that makes progress, which says that the
  peer keeps reading;
- `TcpClient`: besides weak fairness of a thread within `connect()` or `stop()`, strong fairness of polls that report the channel or the timer, which says
  that neither is passed over for ever;
- `TcpServer`: strong fairness of the acceptor's `handleRead()`, because the base loop comes
  back to `poll()` again and again and a level-triggered poller reports a waiting peer
  each time;
- `SerialPort`: timers of a running loop fire, a unit that can be polled answers now and then,
  and the listening thread of its port runs;
- `AsyncLogFile`: a timed wait ends.

Nothing is assumed about callers: nobody has to send, stop or quit.

`TimersExpire`, `LinesOnDisk` and `BacklogServed` speak of all timers, lines or peers at once:
there comes a time when none is left. Lines and peers are only added, and a timer that
is left behind would be one of those that are left, so that each formula implies the
same for every single timer, line or peer.

## What is proved

Each proof module extends the modules it is about and holds for every value of their
constants; the named assumptions on the constants are evaluated by TLC in the runs.
Two of them are about parts that do not share state: `EventLoopProofs` about a loop in its
thread, the `Buffer` of a connection and the logging thread, `PollerDeviceProofs` about the
pollers and the loading of the devices.

### Timers: `TimerQueueProofs`

- `TypeCorrect`: `Spec => []TypeOK`;
- `QueueAgrees`: `Spec => []SetsAgree`, the asserts that the two sets have the same
  timers;
- `ExpiredStaysAlive`: `Spec => []ExpiredAlive`, so that `reset()` touches no deleted
  timer;
- `TimerfdArmed`: `Spec => []ArmedInTime`, no queued timer is left without a running
  timerfd;
- `CancelCorrect`: `Spec => []CancelIsFinal`;
- `StaleIdsHarmless`: `Spec => OnlyNamedTimersDie`;
- `QueuedCancelTaken`: `Spec => QueuedCancelEffective`, a `cancel()` of another thread finds
  its timer when the loop runs it.

The only assumption is `ConstantsAssumption`, the types of the constants.

`SetsAgree` alone is not inductive, because a queued `addTimerInLoop()` could name a timer
that is already in the queue. `IInv` adds that the timers in the queue, in the batch
being run and in pending functors are disjoint and alive (`ExpiredAlive`, `PendingInv`) and
that sequence numbers of live timers are distinct and have been given out
(`SequenceInv`). The other theorems add to it:

- `ArmInv`: `handleRead()` leaves the timerfd alone until `reset()`, so that in the middle of
  one `ArmedInTime` says nothing. What is needed there is that a timer a callback adds
  with an expiration that is no valid time, for which `reset()` does not rearm, has
  armed the timerfd itself. That `reset()` looks at the earliest timer rests on the
  lemma that a finite set of entries has one.
- `CancelInv`: a cancelled timer is deleted or recorded in `cancelingTimers_` until
  `reset()`; `NamedInv`: only ids that were passed to `cancel()` are recorded.
- `PlacedInv`, `IssuedInv`, `FifoInv`: a live timer is in the queue, in the batch or in a
  queued `addTimerInLoop()`, ids are known only after the sequence number was given out,
  and so the functor that adds a timer is queued before those that cancel it.

### The loop: `EventLoopProofs`

Of a loop in its thread (`ThreadSpec`), for any channels, threads and number of functors:

- `NoWakeupIsLost`: `ThreadSpec => []NoLostWakeup`. The property speaks of `poll()` only,
  so that it is not inductive; `WakeInv` extends it to every place from which the loop
  gets to `poll()` without another swap, and
  `PlaceInv` says that `callingPendingFunctors_` is set where functors run, so that a
  functor queued by a functor wakes the loop.
- `NoRemovedIsHandled`: `ThreadSpec => []NoStaleDispatch`. While events are handled a channel
  that is still to come is one of `activeChannels_` and not the current one, so that the assert of
  `removeChannel()` stops its removal; what is needed besides is that nothing is left to
  handle wherever else user code runs.
- `FunctorsKeepOrder`: `ThreadSpec => FunctorsInOrder`, the refinement of `TaskQueue`. The
  abstract queue is the batch taken by `doPendingFunctors()` followed by
  `pendingFunctors_`, so that the swap is no step of it.

### The pollers: `PollerDeviceProofs`

`PollersCorrect`: `PollerSpec => []PollersAgree` under `Uses = {}`, for any channels and
descriptors and whichever poller is chosen. With the other uses the property is false
(see the table above), so that the hypothesis is needed. `PollersAgree` is not inductive:

- for `EPollPoller` the kernel agrees with `channels_` only if `channels_` agrees with the
  states of the channels (`MapInv`), if every watched descriptor has a channel that is
  `kAdded` (`KernelInv`), and if only such channels ask for events (`EventsInv`);
- for `PollPoller` the moved entry of `removeChannel()` must belong to somebody
  (`OwnedInv`), and an entry must hold the negated descriptor exactly while its
  channel asks for nothing (`PositionsInv`). From the second it follows that two channels
  never remember the same position (`PositionsDiffer`), which is what the swap needs.

### A connection: `TcpConnectionProofs`

For any threads, messages and sizes of the kernel's buffer:

- `OutputOrdered`: `Spec => []OutputInOrder`, and `FinComesLast`: `Spec => []FinAfterOutput`.
  `ConnInv` says that what was written and what is buffered are what was sent, that data is
  buffered exactly while `POLLOUT` is asked for as long as the connection reads, and that
  nothing was sent before `connectEstablished()`; `OutputInv` gets the last from
  `connectEstablished()` being the first functor of the loop.
- `LoopShutdownSafe`: if `shutdown()` is only called on the loop of the connection and the
  server outlives it (`"thread" \notin ShutdownFrom`, `~MayDestroy`), no assert fails and
  the channel that is removed is disabled. This is the property that the run
  `tcpconnection_race` finds violated with a `shutdown()` of another thread: the theorem says
  that nothing else breaks it. `CloseInv` says where the functors
  `connectEstablished()`, `connectDestroyed()` and `removeConnectionInLoop()` can be queued.

### The client: `TcpClientProofs`

`ClientAssertsHold`: `Spec => []NoAssertFails`, and `ClientAttemptsAccounted`:
`Spec => []AttemptsAccounted`, under `ConnectOnce`: one `connect()`, and no `connect()` or `stop()`
out of a handler; any number of `stop()` and `disconnect()`, any delays. With two
`connect()`, or with `stop()` in a handler, the first is false (see the table above). By
`ClientInv` an attempt is at one place at a time (a call of another thread, a queued
`startInLoop()`, a retry timer, a connecting socket, a connection, a restart between its steps), and a
channel is removed exactly while its `resetChannel()` is queued, which runs before anything can
start the next attempt.

### The server: `TcpServerProofs`

`DescriptorsStayOwned`: `Spec => []DescriptorsOwned`, and `ServerAssertsHold`:
`Spec => []NoAssertFails`, for any number of threads, peers and descriptors, from
`TcpServerAssumption` (types, and a largest number of threads) and under `NumbersFit`: the
numbers of the connections have no more digits than fit into their names. That leaves
8 digits of the 32 bytes behind the longest address; beyond, the second is false (see the
table above). `ServerInv` follows a connection through the functors of two loops:

- A loop runs what is left of its batch and then what is pending. `TodoInv` says what each
  functor that is still to be run promises: `connectEstablished()` is queued once, on the
  connection's own loop, before any `connectDestroyed()`, and only while the state is
  `kConnecting`; `removeConnectionInLoop()` is queued once, on the base loop, for a
  connection that is still in `connections_` unless the base loop has ended.
- `ConnInv`: whoever takes a connection out of `connections_` has queued
  `connectDestroyed()` for it, or its loop has ended; `OpenInv`: a connection has its
  descriptor as long as `connections_`, a pending functor or a batch refers to it. Together
  they say that no Channel outlives the descriptor in a loop that runs.
- `FdInv` says what `idleFd_` is at each step of `handleRead()`, with other threads opening and
  closing descriptors in between; `LoopInv` that the base loop ends first and that no thread
  of the pool is told to quit before `connections_` is empty.

### The serial ports: `SerialPortProofs`

- `RepliesAttributed`: `Spec => []Attribution`, for any ports, units, protocols and
  interleavings of the loop thread with the listening threads: a reply is stored under
  the name of its sender, or of a unit of the same protocol that was configured after the
  sender was asked, or what is read while that name is assigned; and scaled by the precision of
  one of these, or by any older one if the sender gives none. The invariants say the same
  already of a reply on the line or in a buffer, of a record that `parser()` has filled in part,
  and of a unit that has been asked, and what `onQueryDataTimer()` has set at each of its steps.
- `ReadsThatFit`: `Spec => ReadsFit`, without a hypothesis on the line, the noise or the first
  `n`: from the second `read()` on, the buffer holds less than one reply whenever `listen()`
  reads, whichever codec the port had in between, so that only a single read that is too
  long overflows it.

### The devices: `PollerDeviceProofs`

`UnitsAreLoaded`: `LoadSpec => []OwnUnitsLoaded`, for any finite set of files, from
`DeviceManagerAssumption` (the lists of elements are sequences) and under `ParamsNamed`: no
parameter has an empty name, which `insertParam()` refuses. `LoadSpec` is `DeviceManager` by
itself; `Configuration` takes no other step on its variables. `OwnUnitsLoaded` speaks of the
end of `load()` only. `LoadInv` says of every moment that a file is still to be read or has
its port, and that each of its own units, and in turn each of their points and
parameters, is in its map or still to come in the loop that `load()` is in. It holds
although an element that repeats another one is inserted into the map of that one:
the invariant is about keys, and the maps only grow.

### The queues: `QueuesProofs`

Of `QueuesSpec` (`Queues` without fairness), for any capacity, any number of tasks and
finitely many threads (`QueuesAssumption`, `ThreadPoolAssumption`):

- `NobodySleepsForNothing`: `QueuesSpec => []NoneLeftSleeping`. For the queues the
  invariant counts: if somebody sleeps for want of an item there are no more items than
  awake takers (`SleepInv`), and the same for places; each notification moves one thread
  from the sleepers to the awake, which the lemmas on `Count` follow. For the latch it says that
  `count_` is the number of threads that have still to count down.
- `TasksBegin`: `QueuesSpec => []TasksBeginInTurn`. `TurnInv` says that the tasks that have
  left the queue are the first ones of those that entered it, that the queue has the rest in
  order, and that each of the former is begun or in the hands of one worker.

### The buffer and the log: `EventLoopProofs`

`BufferIsQueue`: `BufferSpec => IsByteQueue`, and `BufferAssertsHold`:
`BufferSpec => [](failed = None)` under `Starts \subseteq {0}` (with other offsets it is false,
see the table above), from `BufferAssumption`, the types of the constants. The invariant is
that the indexes are in order and within the vector, which has room for
`kCheapPrepend` bytes. The lemma `PartIs` turns equality of bytes in memory into
equality of a part of one content with the other; each operation then shows where
the bytes are afterwards.

`AssertsHold`: `LoggingSpec => []NoAssertFails`, the six asserts of
`AsyncLogging::threadFunc()`, from `AsyncLoggingAssumption` (buffers hold a line, and
at least two buffers are kept when lines are dropped). The invariant is
`SpareBuffers`: `nextBuffer_` is away only while the buffer it replaced waits in
`buffers_`, so that a thread that gives `newBuffer2` away has taken two buffers
to recycle. `StartsOnce` (no step of the thread before `start()`) is needed because
`start()` sets the thread's program counter.

## Only model-checked

- Liveness: it needs fairness and `ENABLED`, which are out of the prover's reach.
- `CodecsExact`, `CalendarExact`, `LinesExact`: `Codecs`, `Calendar` and `Logger` compute with
  recursive definitions, bitwise operators or digits, about which nothing can be proved by
  induction here.
- `FilesInOrder`, `OwnUnitsPolled`, `SavedIsRead`: `AsyncLogFile`, `Configuration` and
  `ConfUtil` say with folds over sequences what is in the files and which elements are
  polled or read; a fold is a recursive definition too.

## Not modelled

- `UdpServer`: a socket and one handler without state of its own.
- `SocketsOps` and the other wrappers of system calls: their results are choices in
  the models. So are the results of `dlopen()`, `opendir()` and `readdir()`.
- `FileUtil`, `Singleton`, `ThreadLocal`, `Atomic`, `ProcessInfo`, `StringPiece`, `Exception`: wrappers
  of the C library, of pthread and of compiler intrinsics.
- The reading and search of zone files in `TimeZone.cpp`: no file is ever accepted.
- The termios settings of `SerialPort::init()`, which is success or failure here, and
  the dumps of `DeviceManager`.
- `dbhelper` (a thin wrapper of the MySQL connector), the protocols other than MMXN and
  ZSAR (empty stubs), `DataQueue` and `pdu` (nothing uses them), `com_service` and
  `com_main` (they call what `Configuration` starts with), and `third_party` but for what
  `ConfUtil` needs of TinyXML.
- Destructors of `TimerQueue`, `EventLoop` and `TcpClient`, and uses of freed memory: where an
  object may be destroyed under a queued functor (`TimerQueue::addTimer`), the hazards in
  `PROJECT.json` say so; the models keep the objects.
- `SerialPort::listen()` never returns, so that a `ThreadPool` that runs it is never
  stopped by `stop()`; `ThreadPool` assumes that tasks end.
- `LogFile` with its mutex, for several threads: the program has one thread that writes.

## Plan

What is left of the safety properties waits for induction over data (see "Only
model-checked"). A delivery property for `PollPoller` waits for a correction of
`fillActiveChannels()`.
