# Code Vault: a verification development

Code Vault is a C++ class library (`src/source`): strings, containers, streams, files, threads,
sockets and a message-based server framework. This directory models its server core, its sockets and
much of its toolbox in TLA+, checks the models with TLC and proves the most important results with TLAPS.

Everything is written from the source. A name in a module is the name of the field, function or class
it models; `PROJECT.json` gives for every definition the lines it stands for.

## 1. Inventory

| Component (under `src/source/`) | State it keeps | Operations | What is hard | What makes it correct |
|---|---|---|---|---|
| Message queue, `server/vmessagequeue.*` | a deque of messages, its byte total, a mutex, a condition variable | `postMessage`, `blockUntilNextMessage`, `getNextMessage`, `wakeUp`, `releaseAllMessages`, unlocked size getters | the wait uses a mutex of its own, so a signal can be lost; sizes are read with no lock | FIFO, nothing lost or doubled; exact byte total; every message and every stop is noticed |
| Sessions, `server/vclientsession.*` | pointers to two i/o threads, a standby queue, `mIsShuttingDown`, the socket | `initIOThreads`, `shutdown`, `postOutputMessage`, `sendMessageToClient`, standby move, destruction | threads that delete themselves, a reference-counted session, a socket shared by two threads, three mutexes | no dangling pointer, no use of a deleted socket, no deadlock, complete tear-down, no broadcast lost |
| Listener, `server/vlistenerthread.*`, `vlistenersocket.*` | the list of socket threads and its mutex, `mShouldListen` | accept and create a session, `socketThreadEnded`, `stop`, `stopSocketThread`, `enumerateActiveSockets` | a session is set up while its threads already run; `stop` races an accept | every thread stopped, none used after its end |
| Message i/o threads, `server/vmessageinputthread.*`, `vmessageoutputthread.*`, `sockets/vsocketthread.*` | run flag, output queue with limits and a grace period, `mHasOutputThread` | read and dispatch, wait and send, `stop`, the hand-shake at the end | the input thread must outlive the output thread; a queue at its limit | see sessions |
| Server list, `server/vserver.*` | the sessions and their mutex | add, remove, broadcast (by the concrete server) | removed before added; a broadcast holds the mutex while it sends | removed for good |
| Threads, `threads/*` | run flag, thread id, pthread objects | start, stop, join, lock, wait, signal | self deletion, start after stop | as its users need it |
| Connection strategies, `sockets/vsocket.*` | a runner with its workers, the addresses yet to try, the answer | `connect`, `hasAnswer`, `detachFromStrategy`, worker success and failure | a race of attempts, objects that delete themselves, a timeout | one owner per socket, no call on a deleted runner, no early failure |
| Sockets and streams on them, `sockets/vsocket*.cpp` | descriptor, timeouts, counters | read, write, connect, close, listen | partial transfers, close by another thread | all or an exception |
| Event producer and comm sessions, `sockets/_unix/veventproducer.cpp`, `vcommsession*`, handlers | epoll set, map of sessions, status of each session | add, remove, event loop, worker tasks, handlers | unlocked map, one-shot rearm, cancellation | each close reported once, no event lost, stop ends |
| Event producer on Windows, `sockets/_win/vwsaeventproducer.cpp` | event arrays per worker, a barrier | update sessions, wait, join | a barrier that may give up waiting | arrays never rebuilt under a reader |
| Network monitor, `sockets/networkmonitor.*` | bounded histories of traffic | add, get, clear | two mutexes, full histories | bounded, newest kept |
| Tokens, `toolbox/vwaittoken*`, `vcancellationtoken*` | a flag, a condition variable | wait, notify, cancel | notification before the wait | none is missed |
| Shutdown registry and singletons, `toolbox/vshutdownregistry.*`, `vsingleton.h`, `vclassregistry.*` | registered handlers, instances, mutexes | register, shutdown, instance, delete | handlers that take other mutexes | each handler runs once, no deadlock |
| Logger, `toolbox/vlogger.*` | loggers, appenders, repetition filter, mutexes | emit, register, find | nested mutexes, static initialization | no deadlock, no line lost |
| Instants and the clock, `containers/vinstant.*` | milliseconds of which three values are special; the clock's offset and its frozen value, static | arithmetic, comparison, set, move and freeze the clock, to and from fields and text | static variables without a mutex, turns of days, months and years, before 1970 | the present is what was asked for; conversions agree |
| Settings, bento, strings, geometry, colours, deque, streams, files, utilities | values of one thread | pure or sequential code | boundaries, encodings, special values | agreement with a reference definition |

How they interact: the listener's thread accepts a connection and, under `mSocketThreadsMutex`, has a
factory build a session with its threads and register it with the server. The input thread reads and
dispatches messages to handlers, which post replies to the session. The session queues them for its
output thread, or sends them itself when it has none. A broadcast walks the server's list under
`mSessionsMutex`. Each i/o thread, as it ends, calls `shutdown` on the session, which stops the other
one and removes the session from the list. The thread objects delete themselves, and the last
reference to the session deletes the socket.

`PROJECT.json` lists all the components with their status, and under `hazards` what can go wrong at
which line, with the property that covers it or the reason why none does.

## 2. The modules

| Module | Models |
|---|---|
| `MessageChannel` | what a message queue promises, with no threads: a FIFO channel; abstract specification |
| `VMessageQueue` | the message queue, its callers, and the output thread's loop as its consumer; implements `MessageChannel` |
| `VClientSession` | listener, server list, sessions, i/o threads, sockets, peers, an application thread and an administrator; its output queue is the FIFO that `VMessageQueue` is shown to be |
| `VSocketConnectionStrategyThreaded` | `connect()`, the runner and the workers |
| `VSocket` | the loops of `read()` and `write()` with `select()`, time-outs and `close()` |
| `VEventProducer` | the epoll loop, `Start`, `Stop`, `UpdateSessions`, `ReArmSession` |
| `VCommSessionEventProducer` | the subscribers of an event producer |
| `VWSAEventProducer` | the Windows event producer with its barrier |
| `NetworkMonitor` | the bounded histories and their mutexes |
| `VSingleton` | singleton holders and the shutdown registry |
| `VLogger` | named loggers, default logger, maximum active level |
| `VLoggerRepetitionFilter` | `VNamedLogger::log()`: level, repetition filter, stack traces |
| `VFSNode` | `safelyOverwriteFile()` |
| `VMemoryStream` | the memory stream, and the write buffer that flushes it |
| `VTextIOStream` | reading lines and code points |
| `VTextStreamTailer` | the thread that follows a text; extends `VTextIOStream` |
| `VString` | the buffer of a string and what changes it |
| `VBento` | Bento as text and as a stream, written and read |
| `VSettings` | the tree of settings, written and parsed |
| `VInstant` | durations, instants, the simulated clock |
| `VInstantStruct` | calendar fields, local offset, an instant as text |
| `VInstantFormatter` | the parser of formats |
| `Time` | the last three together |
| `MCComponents` | one instance of the fifteen from `VSocket` to `VSettings` |
| `MCTime` | one instance of `Time` |
| other `MC...` | constants for TLC |
| `VMessageQueueProofs`, `VClientSessionProofs`, `VInstantProofs` | inductive invariants and theorems of the module they are named after, `VInstantProofs` of all of `Time` |
| `InputOutputProofs` | those of `VSocket`, `VSocketConnectionStrategyThreaded`, `NetworkMonitor`, `VFSNode` and `VMemoryStream` |
| `TextProofs` | those of `VTextIOStream` and `VTextStreamTailer` |
| `VStringProofs` | those of `VString` |
| `VEventProducerProofs` | those of both event producers and of the subscribers |
| `ToolboxProofs` | those of `VSingleton`, `VLogger`, `VLoggerRepetitionFilter` and `VSettings` |

### VMessageQueue

Threads have a program counter (`pc`). A critical section is two steps, because `getQueueSize()` and
`getQueueDataSize()` take no lock and can see between them: `PostPush`/`PostCount`, `GetPop`/`GetCount`,
`ReleasePop`/`ReleaseCount`. `blockUntilNextMessage()` is `GetPop` or `GetNothing`, then `EnterWait`,
then `Signal` (by another thread) or `WaitTimedOut`, then `GetPop` or `GetNothing` again. The semaphore
is a bare condition variable: `Signal` moves one thread out of `Waiters`, or does nothing. Stopping an
output thread clears its flag and signals. `posted`, `bytesPosted`, `popped` and `taken` are histories.
A message is posted at most once and its length does not change while it is queued. Null messages and
the logging of delays are left out.

### VClientSession

One action per section between two mutex or blocking operations. A section run under a session's
`mMutex` is atomic, except a synchronous send, which blocks there (`replying`, `sending`). The other
two mutexes have owners in the model: `mSocketThreadsMutex` is held from `CreateSession` to
`AddToServer` and through `stopAllSocketThreads()`, `mSessionsMutex` through a broadcast.

* Listener: `Accept`, `AcceptThrows`, `StopListening`, `CreateSession`, `StartInput`, `StartOutput`,
  `TrackThreads`, `AddToServer`.
* Input thread: `InLoop`, `InReceive`, `InEof`, `InThrows`; `HandleQuietly`, `HandlePosting` with
  `ReplyEnds`, `GoOnline`, `Logout`; `Shutdown`, `Remove`, `Spin`, `DropSession`, `SocketThreadEnded`.
* Output thread: `OutLoop`, `OutWait`, `OutSend`, `OutSent`, `OutGivesUp`, `Shutdown`, `Remove`,
  `ClearFlag`, `DropSession`, `SocketThreadEnded`.
* Posting (`Post`): `PostRefused`, `PostStandby`, `PostToOutputThread`, or the caller sends itself.
* Application: `BroadcastBegin`, `BroadcastPost`, `BroadcastSend`, `BroadcastSent`,
  `BroadcastThrows`, `BroadcastEnd`; `TakeSession`, `AppShutdown`, `AppRemove`.
* Administrator (`VListenerThread::stop`): `StopListener`, `StopAllBegin`, `CheckSocket`,
  `CloseSocket`, `StopThread`, `StopAllEnd`, `StopEnd`.
* Peers read, stall, resume or leave.

`holders[s]` is the reference count of a `VClientSessionPtr` with names; together with `mSessions` it
says when `~VClientSession` runs (`ReleaseSession`). `mInputThread` and `mOutputThread` say whether the
session still points to the thread. A period of time (standby limit, grace period) is a choice: once
begun it may be over at any later call. `accepted` and `sent` are histories of broadcasts.

External, modelled from how the code uses it: the concrete server's `postBroadcastMessage`, the
concrete session's protocol state (`clientState`), the application that shuts a session down, and the
peers. A concrete session is assumed to go online only with its output thread in place or with no
standby messages: otherwise `_postStandbyMessageToAsyncOutputQueue` would use a null pointer.

What is undefined in the code and how it is treated: closing a socket that has been deleted after
`closeAndStop()` looked at the pointer follows the outcome in which nothing happens. Two threads
closing one descriptor at a time, and the reuse of its number, are not modelled.

### VSocketConnectionStrategyThreaded

Every section under the runner's `mMutex` is one action. The first is not: it holds the mutex while the
host name is resolved (`CanLock`). `FirstBatch` is what the loop over the addresses starts,
`NextWorker` the replacement of a failed worker, `LastWorkerFailed` the two places that set
`mAllWorkersFailed`. `tempSocket` is the socket ID in a worker's stack `VSocket`, whose destructor
closes it (`WorkerEnds`). `Expire` passes `mExpiry`; nothing makes it happen, since the timeout may be
infinite. A call on a runner that is gone is not followed further. OS threads can always be created,
and a descriptor of `FD_SETSIZE` or more is not considered.

### VSocket

One call at a time: `transfer` says where its loop is, `select()` waiting, interrupted or timed out,
then `recv()` or `send()` with any portion. Bytes are numbered, so that order and duplicates show.
`timeLeft` is what `select()` has left; `selectWritesBack` says whether it is written to the member,
as Linux does. `close()` is by another thread and is two steps: the descriptor goes, then the ID; in
between the system may give the number away. `write()` is the same loop with another direction.

### VEventProducer and VCommSessionEventProducer

`epoll` is what epoll knows of a descriptor (absent, armed, disarmed by its event), `sessions` the map
that `UpdateSessions()` changes under `startStopMutex` and the polling thread reads under none: a
lookup that overlaps an update has any outcome, also the exception of `at()` that ends the program
(`crashed`, with `raced` as witness). The polling thread is `PollerLoops`, `Polls` or `PollFails`, `TakesEvent`
or `LookupFails`, `RaisesEvents`; whether a descriptor hung up is what it was when `epoll_wait()` returned (`hungUp`).
Who uses it is external: the application updates from one thread,
rearms what it has read, and closes a session after its closed event.

Raising an event copies the weak pointers that are alive under the mutex, then calls each without it.
`faithful` are those subscribed when the raise began and ever since. The maps of read and closed events
have the same code: one is modelled.

### VWSAEventProducer

The list is its length and a version; a thread's share is an offset and a number, and what it copied
(`local`). `UpdateSessions()` is the seven steps of the source, of which 2 and 7 wait for the join
events of all the threads or time out. Bound: a wait that has once worked times out again only for
threads that may really never join (`MayTimeOut`, `MayNeverJoin`), since a time-out with threads that
are about to join tells nothing new. `trust` begins with the first update that found every thread
paused, and ends with a time-out.

### NetworkMonitor, VSingleton, VLogger, VLoggerRepetitionFilter

`NetworkMonitor`: an access to a history begins with its mutex and ends with it, so that two
accesses that do not exclude each other show. `VSingleton`: `doing` says where a thread is inside
`instance()` or `shutdown()`. A call on a holder that was deleted (`dangling`, `deletedTwice`) is
not followed further. `VLogger`: all is one step under the mutex, but `setLevel()`, whose store comes
before (`SetsLevel`, `AdjustsMax`). `VLoggerRepetitionFilter`: a message stands for its level, place and
text; `timesLogged` and `emitted` count what went in and came out, the count of a printed summary
included.

### VFSNode, VMemoryStream

`safelyOverwriteFile()` is one step for each call of the file system, with each one's failure; the
program may end anywhere, which needs no action of its own since the invariant speaks of the files
alone. A file has an identity apart from its names, so that two calls with one temporary name write
the same file. `VMemoryStream`: `contents` is what a file would hold and `fileOffset` where its offset would be, by
the seek of Unix (`UnixOffset`); `requestedOffset` and `seek` are the code's, for each `whence`, and
`DepartsFromUnix` names where the two differ, after which the file's offset is set to the stream's. Bytes never
written are `Junk`. `rawBytes` is what the other end of the write buffer received, `flushed` what each flush had to
send. Streams that refuse to write, and raw streams that fail in a flush, are modelled.

### VTextIOStream, VTextStreamTailer

`text` is what the raw stream comes to hold, `written` how much of it is there: another party writes on.
A read that finds the end waits or gives up, as the stream is used. `argumentOrder` is the order in
which the build evaluates arguments, chosen once. The tailer's thread is `BeginsLine`, `ReadsOn`,
`EndsItself`, `DiesOfInvalidText`; what two threads do in one stream, after a second `start()`, is not
followed (`twoReaders`).

### VString, VBento, VSettings

Sequential code, as state machines over the calls: any sequence of calls within the bounds. `VString`
keeps the buffer byte by byte, with its terminator and the bytes never written, and the number of code
points that is counted lazily; `intended` is what the calls say the text should be, by definitions of
their own. `VBento` writes one of `Hierarchies` and reads it step by step: the text by the automaton
of the parser, one character a step, the stream by nested constructors, one field a step. A hierarchy is
its nodes in the order of writing, each with its parent's index; the limits of the dynamic counts are small constants.
`VSettings` is an outline: nodes with their depth. Writing is
`writeToStream`, reading the automaton `ParserSteps`. Both are operators, so that what every reachable tree
would read like is asked of every state. `callEnds` is "undefined" where an end tag with no start tag is
dereferenced, and nothing follows.

### VInstant, VInstantStruct, VInstantFormatter, Time

A duration and an instant to which any operation is applied, with the special values at the ends of a
small Vs64 that wraps; and the two static variables of the clock, which any number of threads read and change
without a mutex. Each read and each write is a step of its thread, which `pc` has between them: `setNow()`
is `LooksWhetherFrozen`, then `ReadsSystemTime` or the second read of the frozen value, then `EndsReading`; an
increment is `ReadsOffset` and `IncrementsOffset`, a shift `ReadsFrozenValue` and `ShiftsFrozenTime`, and
`setSimulatedClockValue()` is `BeginsToSet`, such a reading, and `SetsValue`. A load or a store is of the
whole 64 bits. `promisedOffset` and `promisedFrozen` are histories of what the calls ask for, `offsetStray` and `frozenStray`
say that they asked for what the code does not do, `disturbed` which threads another has overtaken, and
`measuredAt` the system's time each has read. `VInstantStruct` converts one date or one instant a step, and is
compared with a calendar counted in eras of 400 years. `VInstantFormatter` takes one character a step. It
keeps what is appended, with a field as its letters; `passedOver` says that it has dropped a character that is not
ASCII. External: `localtime()`. `Time` has the four parts (arithmetic,
clock, calendar, parser) as one system; they share no state, and `MCTime` runs one of them a behaviour.

### MCComponents

These fifteen share no state. One instance holds them all, and a behaviour picks the one that runs
(`component`), so that the state space is the sum of theirs and not the product.

## 3. The runs

| Run | Asks | Bounds, and why they are enough |
|---|---|---|
| `queue` | byte total, refinement of `MessageChannel`, no message or stop unnoticed | 2 callers, 2 consumers, 2 messages of lengths 1 and 2: two of each actor give every pair of racing sections, a signal that wakes the wrong consumer or nobody, and totals that can be wrong either way |
| `session` | type invariant, pointers, socket lifetime, mutex order; release of a registered session, raced by `stop()` | 1 session, synchronous or not, 1 message, the listener may stop. Sessions share only the lists and mutexes, and one broadcast or reply is enough to hold each of the mutexes; the theorems of section 4 cover more sessions and messages |
| `session_live` | no broadcast lost, the same release, end of a broadcast | 2 messages, queues of 1 with a grace period, no stop: the queues are full with one message, and two messages show order |
| `connect` | ownership of sockets and of the runner, early failures, `connect()` returns, what becomes of the runner after a success and after a failure | 3 addresses, 2 threads: two workers race, a third address waits for a worker to fail |
| `components` | what makes each of the fifteen from `VSocket` to `VSettings` correct | see below; about 200,000 states |
| `time` | `TimeHolds`: arithmetic, clock, calendar and formats | see below; about 190,000 states |
| `teardown`, `over_limit`, `atomic_send`, `stop_listener`, `connect_no_socket`, `connect_unresolved` | whether what a header says is so | it is not: see section 5 |

`CHECK_DEADLOCK FALSE` is set throughout. The systems may stop for good reasons: a
session with its peer gone, a queue whose consumers were all stopped, a finished connection attempt, a text that was read.
That nothing gets stuck before its time is stated as liveness instead.

Bounds in the guards: `MaxMessages` (broadcasts and queued replies of a behaviour), `MayStop`, each
session accepted once, `AcceptThrows` only while a connection may still come. `NumAddresses` and
`MaxNumThreads` are parameters of the code, as are the queue limits.

Bounds of `components` and, the last four, of `time`:

* producer: 3 sessions on 2 descriptors: one descriptor is used again, one takes part in the same batch.
* handlers: 3, so that one leaves, one expires and one stays in a single walk.
* polling: 2 updates, lists of at most 2 sessions, one for each thread: threads are added, retired and kept.
* singleton: 2 threads and 2 classes, of which one is deleted at shutdown; each is made at most twice.
* monitor: limits of 2, and 3 entries, so that a full history takes one more; 2 threads.
* stream: a buffer of 4, grown by doubling, crossed by writes, adoption and seeks by -4 to 4 from each `whence`; 3 bytes
  flushed, so that a second flush follows one that sent more than a byte. The bytes written are all the same: what an
  offset means shows in the places that are `Junk`, and the theorem has any bytes.
* file: 2 saves, with equal or different time stamps, with and without keeping the old version.
* logger: a logger below another by name, and the one made by default; 2 threads set levels.
* filter: 3 messages (one filtered, one with a stack), each logged up to 3 times.
* bento: names and values of up to 2 of the parser's special characters, trees of 4 nodes, lengths on both sides of each limit of the dynamic counts.
* text and tail: every kind of line ending after every other, code points of one to four bytes after a carriage return and at a start; 2 threads.
* socket: 2 bytes, calls for 2, a time-out of 1: a transfer in portions, and a second wait.
* string: a text of 4 bytes, an internal buffer of 2, pieces of 0, 1 and 3 bytes with a code point of two.
* settings: 5 nodes, six paths of up to three names, of which some have an index; texts with all kinds of tags, attributes, comments and unbalanced ends.
* arithmetic: all values of a Vs64 of five bits (`V_MAX_S64` is 15), which has the special values, a boundary to
  overflow at, and room between; factors of both signs and zero.
* clock: 2 threads (`Threads`), a tick (`MaxSystemTime`), moved, set and frozen by or at -1 to 1 (`MaxOffset`, which
  also guards the sums) or the infinite past: two threads give every pair of racing reads and writes, an offset that is
  set, then undone by the other, then added to. The threads are symmetric (`ThreadSymmetry`): no action or property tells
  one from another.
* calendar: `Years` around the epoch and the centuries, `Days` around the turns of every month, zones at both ends; instants
  on either side of the epoch, with and without a fraction.
* format: all formats of at most 5 characters (`MaxFormat`), of two letters of fields, one without a meaning, one plain,
  one that is not ASCII, and quotes.

### Properties

* `DataSizeAccounted`, `ImplementsChannel`, `EveryMessageLeaves`, `StopEndsConsumer` (queue).
* `PointersLive`: nothing refers to an i/o thread that is being destroyed: the session that would stop
  it, the output thread that clears its input thread's flag, the listener's list.
* `SocketOutlivesUse`: the socket is deleted after the last use by a thread, the listener, a broadcast
  or a shutdown.
* `LockOrder`: nobody waits for a mutex that ranks before, or equals, one it holds; the ranks are
  `mSocketThreadsMutex`, `mSessionsMutex`, a session's `mMutex`. This excludes a circle of waiters.
* `NothingLost`: while a session is in order, the broadcasts it took on are those sent, in hand, queued
  and on standby, in this order.
* `RegisteredSessionReleased`, `BroadcastEnds`: provided every peer in the end reads or leaves.
* `RunnerOutlivesCallers`, `SocketsAreOwned`, `ThrowsWhenAllFailed`, `ConnectEnds` (connection
  strategy). The last has three parts: `connect()` returns (`ConnectReturns`), after a success the runner goes
  (`RunnerEnds`), and after a failure it stays for ever (`ThrowingLeavesRunner`), against its documentation.
* `DiesOnlyOfRace`, `NewSessionsMonitored`, `HangUpReported`, `StopReturnsIfEvents` (epoll): the map and
  epoll agree on what is monitored, through descriptors used again; a hang-up comes through.
* `SubscribersHearEvents`, `RaiseReturns` (subscribers).
* `UpdatesAreWhole`, `WSAStopEnds` (Windows): the list changes only while all the threads pause, and
  afterwards each session is in the share of exactly one thread.
* `InstancesAreRegistered`, `ShutdownCompletes` (singletons); `HistoriesAreWhole` (monitor).
* `AVersionSurvives` (files): wherever the program ends, one complete version is left.
* `ActiveLevelsPass`, `LoggedIsCounted` (logger): the cached maximum refuses nothing a logger would
  print; every repetition is printed or counted.
* `StreamIsAFile`, `LinesMakeTheText`, `TailFollows` (streams); `TransfersAreWhole` (socket).
* `StringKeepsText`, `WrittenIsReadBack` (Bento and settings): what was put in is what comes out, after
  any calls, and in any form.
* `TimeHolds`: sums, differences, quotients and extremes of durations fit together (`DurationsAddUp`), instants are
  ordered and moving them keeps the order (`InstantsAreOrdered`), the present is what the clock was last told
  (`PresentAsPromised`) and a reading of it such a present whatever comes between its steps
  (`ReadingsAsPromised`), offsets and texts agree with the calendar (`ConversionsAgree`), formats are read as
  in the documentation they refer to (`FormatsAsSpecified`).

Where the code falls short of a property in a way that section 5 lists, the property names the
exception, by a disjunct or a history variable, and asks for the rest.

Every property of a passing run has a mutant in `PROJECT.json`: a variant of a definition, kept beside
it and marked `variant`, with which TLC finds the property violated.

### Fairness

Weak fairness of a thread's own steps: a thread that can go on does. In the queue, a call that has
begun is finished, and a consumer's timed wait ends; nothing makes a caller begin. In the sessions,
nothing makes a peer act, a connection arrive, a blocked read or write give up, or the application or
the administrator begin something; `PeersRead` is a hypothesis of the liveness properties, since a
socket need not have a timeout. The application's steps have strong fairness: a synchronous
session whose client asks without end takes and frees `mMutex` for ever, and a mutex that is free again
and again is in the end given to the one who waits. pthread mutexes do not promise this, schedulers
provide it; safety does not depend on it. In the connection strategy, name resolution returns and every
attempt ends one way or the other; the timeout need not come.

* `ProducerFairness`: the threads run, the application reads what it is told to read, and epoll
  reports a ready descriptor that it could report again and again (strong, for each: its ready list
  is a queue). Nothing makes `epoll_wait()` fail (`PollFails` is no part of `PollerAdvances`), a peer act or the
  application update or stop: a thread with no event stays in the inner loop for ever.
* `HandlersFairness`: the walk goes on, and a handler's call returns, strongly, since it may
  unsubscribe from inside, again and again.
* `WSAFairness`: the threads, the update and the stop go on. A wait for join events returns.
* `SingletonFairness`: strong for each thread's steps, as for mutexes above.
* `TailFairness`: a thread that was created starts and reads on. Nothing makes anyone write or stop.

In `components` the strong conditions of three components are one (`StrongFairness`): only one of them
takes steps in a behaviour and the others' steps are disabled in their initial states, so that strong
fairness of the disjunction is that of the component that runs.

## 4. What is proved

The theorems hold for every value of the constants, under the modules' named assumptions only. The assumptions
say that limits are numbers, that names of nobody and nothing are nobody's and nothing's, and what the code
itself sees to: histories of at least two entries (`HistoryConstants`), at least one polling thread and slots enough for
the minimum (`PollingConstants`), days, hours
and zones that there are (`CalendarConstants`), characters of one kind each (`FormatConstants`), paths and texts that are sequences, the
paths not empty (`SettingsConstants`). One is a premise that the code does not see to: `RangeAssumption`, with the guards
that keep offsets within `MaxOffset`, says that the clock is not moved out of the range of a Vs64.
`setSimulatedClockOffset()` (`vinstant.cpp:1011`) stores whatever it is given, the infinities too; who moves the clock has to keep
to it.

* `VMessageQueueProofs`: `TypeCorrect`, `MutexDiscipline`, `FifoOrder`, `BytesAccounted` and
  `QueueImplementsChannel` (the refinement). The invariant `IInv` adds `Ledger` (the history of byte totals
  grows by each message's length) and `HandMatches` (what a thread inside a critical section has in its
  hand) to the invariants themselves. Without the second, neither subtraction of a length could be
  accounted for; the first gives the bound `>= 0`. `MutexHeldInside` and `QueueIsPostedSuffix` are
  stated by theorems alone.
* `VClientSessionProofs`: `MutexesOrdered`, `PointersStayLive`, `SocketsOutliveUse`, `SessionsTyped` and
  `BroadcastsNotLost`, for any number of sessions, messages and limits. The invariants stand on each other.
  `LockInv`: who holds a mutex is at a point of its code inside that section. `PointerInv`: up to which control point a
  pointer is kept, and that the flag `mHasOutputThread` covers the life of the output thread. `HolderInv`: which reference
  keeps a session alive at each control point of the listener, the threads and the application. `QueueTypes`: the
  flags, the queues and the message in a thread's hand. `QueueUses`: a session that is online has nothing on standby,
  and an output thread that was not born nothing queued, so that what is posted next comes after all that was posted
  before. `Delivered`: as long as a session is in order, the broadcasts accepted are those sent, then the one in the
  output thread's hand, then those queued, then those on standby. `SessionInvariant` is all of them.
* `InputOutputProofs`: `TransfersWhole` by `TransferInv`: `CallOK` says what a call under way has transferred and has
  left, `InOrder` that the bytes that came through and those in the buffer are numbered without a gap, `WriteBuffer` that
  a write holds the last bytes it was given, `TimeOK` that a `select()` that leaves the time-out alone has been waited for
  as long as it says. `HistoriesWhole` by `MonitorInv`: a history is its first entry and
  the newest ones (`SessionsKept`, `LogsKept`), and no two threads hold the same mutex (`AccessOK`).
  `OverwritingIsSafe`, for any number of calls and any clock. `FileInv` says, as long as
  nothing that `AVersionSurvives` excludes has happened, that the target is whole (`TargetOK`) and what
  each call has in its temporary file at each of its steps (`Holds`); a step of one call leaves
  the others' alone since their names differ. `StreamsAreFiles` by `StreamInv`: the offset is the file's, it and the end lie
  in the buffer (`StreamOffsets`), which holds what a file would up to the end (`HoldsContents`), and the raw stream of a
  write buffer has what the flushes had to send (`HoldsFlushed`). `RunnerIsSafe`, `OneOwnerPerSocket`, `NoEarlyFailure` and `LimitedBatches`, for any number of
  addresses and threads, by `ConnectInv`: `Callers` (the runner's list is exactly the workers yet to report),
  `Leftovers` (the addresses not yet tried have no worker, and are all the others), `Sockets` (which object holds
  which socket at which control point) and `Failures` (what a failed worker stands for). `BatchesAreLimited` is
  stated by a theorem alone.
* `TextProofs`: `TextKept`, for any UTF-8 text written while it is read, and `TailKeepsText`, the same under threads
  that are started and stopped, by `TextInv`, which both have. `Switched` says what the switch on line ends has made of
  the bytes so far: where each line ended, what is in work, whether a carriage return waits; `TextIsSwitched` where
  the kept character came from. A property of what was consumed is not enough: how a line ends depends on
  the character before it, which may be in the stream's hand and not yet in a line.
* `VStringProofs`: `StringKept` by `StringInv`: as long as nothing was damaged, the buffer has room for the text and its
  terminator (`StringTypes`), holds what was asked for (`HoldsText`), and the number of code points is unknown, stale or
  right (`CountIsKnown`). On the way: `AlteredIs` (`replace()` of any sequence by any other makes the replacements of one scan
  from the left), `SplitsHold` (items and delimiters make any text again, with each of the property's delimiters and
  limits), and that code points lie where their first bytes say.
* `VEventProducerProofs`: `EventsReachSubscribers` by `HandlersInv` (who has to hear the event is alive, and
  was called or is about to be); `LookupsFailOnlyInRaces` and `AllNewSessionsMonitored` by
  `ProducerInv`: `Descriptive` says at which stage of its life each session is, `Mapped` that a session the
  application counts on has the map's entry of its descriptor, `Places` where the threads are with the
  mutex. A batch refers to descriptors and the map may change behind it: only with `Mapped`
  is a lookup outside an update sure to find its session. On Windows, `UpdatesWhole` by `PollingInv`: `Signals` says
  which events of the hand-shake are set in which of the seven steps, `SlotsInOrder` that threads are made in the order of their slots and used
  once, `Barrier` that while `trust` holds each thread is where the step expects it (`Follows`) and has the
  current list or will look (`HasList`), and `Divided` that the shares are those of the list's length.
* `ToolboxProofs`: `NoRepetitionLost` by `FilterInv`, whose `WithinLimit` says that the stack traces printed and
  the countdown add up to at most the maximum; `MaximumCoversLoggers` by `LoggerInv`, where `RegisteredPass`
  says it of every registered logger and not only of those that some path finds, and a
  bounded set of naturals has a greatest element. `NoInstanceForgotten` by `SingletonInv`: who holds which mutex
  (`MutexesOK`), one object at most (`OneInstance`), and that a shutdown under way will still come to every holder
  whose instance is settled (`SettledRegistered`). `SettingsTypeCorrect`, for any paths, values and texts, by
  `SettingsInv`: the nodes are an outline (`Outline`), where what may come after a node depends on its depth and on
  whether it is a tag or an attribute (`MayFollow`). Types are not inductive here: the parser counts on
  everything after the current tag lying below it (`IsCurrent`), and on nothing but its attributes until its `>`
  (`StillOpen`). `WithoutKeepsOutline` says that an outline without any of its parts is one, `ParentIs` that the
  parent is the nearest node that is less deep. The theorem states the outline too.
* `VInstantProofs`: `TimeIsRight`, all of `TimeHolds`, for every width of a Vs64, all years, zones, instants and formats
  of any length. The arithmetic needs only its types (`ArithmeticTypes`); what it promises of any two values is
  proved for the specific ones by their numbers, with wrapping, and for the infinities case by case. `ClockInv` says
  what the calls have asked for of the frozen time and of the offset (`FrozenAsPromised`, `OffsetAsPromised`), and of each
  thread inside a call what it knows of them as long as none has overtaken it (`Undisturbed`): without that, what it
  stores would be anything. For the calendar, the library's way of counting (years, leap years and months one by one)
  and the reference (eras of 400 years from March) are both shown to be the same closed form. For the parser,
  `FormatInv` says that what is appended, followed by what the rest of the format means from a place that depends on the
  flags, is what the whole format means (`RestIsToCome`); letters that wait are the run read last (`PendingIsRun`), and the
  quote that opened a text or may close it is the character before (`QuotesAreRead`); nothing is claimed once a
  character was passed over.

Each of these modules also proves type correctness.

Some facts need an induction over data: the number of leap years before a year, the messages of a sequence that
are broadcasts, that a function defined by recursion exists. The library's induction theorems take a predicate as an
operator, which the provers cannot instantiate. They are proved instead from the well-foundedness of `<` on the naturals: the set of
counterexamples, if it is not empty, has a least element (`SomeIsLeast`), and that one is refuted. For what is
defined by recursion (`SpecifiedFrom`, `BroadcastsIn`, the loops of `VString` and `VSettings`) existence is shown in the same way, by extending a
function that is right up to some place to the next one (`IterationExists`, `WalkExists`).

Model-checked only:

* the eleven temporal properties that say something must happen, which are liveness under fairness and beyond
  this prover;
* `ComponentsTypeOK` as one formula; its conjuncts are theorems of their modules, except those for Bento;
* `WrittenIsReadBack`: writing and parsing Bento and settings are several recursions and folds each. The method above
  applies to them, one definition at a time; it has not been carried out.

## 5. Where the code and its documentation part

* `teardown`: `shutdown()` "triggers a tear-down of the client session" (`vclientsession.h:102`). If
  the input thread ends while the listener still sets the session up, the session is added to the list
  after it was removed, and stays; or `start()` of the output thread undoes `stop()`, and both threads
  stay.
* `over_limit`: a post over the limit "will just close the socket and return"
  (`vmessageoutputthread.h:49`). It stops the output thread and leaves the socket open.
* `atomic_send`: test and send are "done in an atomic fashion with respect to the session state"
  (`vclientsession.h:130`). No mutex is held.
* `stop_listener`: stopping the listener "stops the socket threads" (`vlistenerthread.h:88`). Not those of a
  connection accepted before and set up after.
* `connect_no_socket`: addresses are tried "until one succeeds or a specified timeout is reached"
  (`vsocket.h:630`). A failing `::socket()` counts as a success and ends the attempt.
* `connect_unresolved`: the runner self-destructs after `detachFromStrategy()` (`vsocket.cpp:741`). When
  the name does not resolve it does so before, while `connect()` polls it.

The following are exceptions that properties of `connect`, `components` and `time` name; `PROJECT.json` quotes the documents.

* `UpdatesAreWhole`: "At this point all the threads should have paused" (`vwsaeventproducer.cpp:193`). Not in
  the first update: a thread sets its join event once as it begins (414), and the barrier opens at once. Nor
  after a wait that timed out.
* `ConnectEnds`: the runner "hangs around until all worker threads have communicated their completion"
  (`vsocket.cpp:727`) and self-destructs after `detachFromStrategy()` (741). A `connect()` that throws (998) never comes to
  that call: its runner polls for ever (876), with the socket of a worker that won too late, which `SocketsAreOwned`
  counts as the runner's.
* `StopReturnsIfEvents`: without an event, epoll's inner loop (`veventproducer.cpp:126`) never looks at
  the cancellation, and `Stop()` joins for ever. The property is about a `Stop()` that finds an event there or
  the thread out of `epoll_wait()`.
* `ShutdownCompletes`: `shutdown()` holds the registry's mutex and takes a class's; `instance()` takes them
  in the other order: a deadlock (`vshutdownregistry.cpp:33`, `vsingleton.h:124`).
* `HistoriesAreWhole`: a full history drops its second entry, not its oldest (`networkmonitor.cpp:233`); sent
  transactions are added under the mutex of the received ones (248).
* `StreamIsAFile`: `seek()` has "Unix seek() semantics" (`vmemorystream.h:127`), but ignores the offset from the end
  (`vmemorystream.cpp:192`), takes an offset before the start for the start (201), and is left at the end by an
  exception (210). A stream that it extends is not filled with zeroes (212).
* `AVersionSurvives`: when the last rename fails both versions are lost (`vfsnode.cpp:227`); two saves in one
  millisecond share a temporary file; a source that ends early is not noticed.
* `ActiveLevelsPass`: with nothing configured, nothing is logged: the maximum level is 0 until a logger is
  registered (`vlogger.cpp:516`, against `vlogger.h:98`).
* `LoggedIsCounted`: `checkTimeout()` comes after the test of the level (`vlogger.cpp:59`, against
  `vlogger.h:437`).
* `WrittenIsReadBack`, Bento: in a text, a string is read back without some of its backslashes (`vbento.cpp:606`), an
  array with a backslash or an apostrophe in an element is not read back (459), nor is a value of unknown
  type (748); in a stream, the length of such a value covers the whole attribute (579), so that reading it eats what
  follows. Of a hierarchy with such an array or such a value nothing is asked in that format (`Broken`), of a string with
  backslashes everything else.
* `LinesMakeTheText`: a line ends after each character that is not ASCII (`vtextiostream.cpp:116`), and a
  character kept after a carriage return can be lost (105); a code point of three bytes is put
  together in the order in which the compiler evaluates arguments (`vcodepoint.cpp:134`), and one of four bytes
  likewise; text that is not UTF-8 is not told from it.
* `TailFollows`: the tailer hands over incomplete lines (`vtextstreamtailer.cpp:65`).
* `TransfersAreWhole`: `select()` shortens the time-out that was set, on Linux (`vsocket.cpp:381`).
* `StringKeepsText`: `trim()` strips what is not ASCII, where `char` is signed (`vstring.cpp:1663`); the number of
  code points is stale after `set()` and `operator[]` (1549); `split()` reads before the first item
  and never meets a limit of 1 (1633); `replace()` loses the text if memory runs out (1437, as its own
  comment says).
* `WrittenIsReadBack`, settings: an attribute without a value before ">", a quote in a value, "<" in a text are written
  and not read (`vsettings.cpp:1415`, 1129, 1208); what was there is deleted (572) before the text is
  found to be bad. An end tag with no start tag dereferences a null pointer. At the top level
  `countNodes()` is 0 for any name, and an index is not looked at.
* `TimeHolds`: `setSimulatedClockValue()` measures from the frozen value if time is frozen (`vinstant.cpp:1018`),
  time cannot be frozen at the epoch, and a shift freezes a clock that runs. No mutex protects the variables: an
  increment (1007) or a shift (1034) loses what another thread writes between its read and its write, and so does a
  clock being set; a reading while time is unfrozen can show the epoch (618). The library's `timegm()`
  takes a year too much before 1970 (395); an instant before 1970 has negative milliseconds and loses a digit
  in a text, and one second before the epoch is refused (439); two quotes are lost at the end of a
  format (1577), and a character that is not ASCII anywhere outside of quotes (1517);
  the difference with an infinite instant is zero (`vinstant.h:938`).

Seen while modelling, and part of no property:

* `blockUntilNextMessage()` "blocks until a message is available" (`vmessagequeue.h:28`), but returns null
  after five seconds or a spurious wakeup; its only caller in the library expects that.
* `appendFromIStream()` (`vstring.cpp:745`) goes on for ever at the end of a stream that gives nothing.
* An iteration over a string that ends with a cut-off code point steps past `end()`.
* `getIdleTime()` is documented as the time without activity, but `write()` does not count as any.

## 6. What is not modelled

In the modelled components:

* Sessions: `stopSocketThread`, `enumerateActiveSockets` and `getSessionInfo` (queries that use pointers
  which may be stale; what follows is undefined), a listener with a thread factory only, listening again after
  a stop, a thread that cannot be created, the destruction of a listener. A message without handler
  (`vmessageinputthread.cpp:138`) is one that posts nothing (`HandleQuietly`); where `_handleNoMessageHandler()` is overridden to
  answer on the stream itself (176), that the answer fails is `InThrows`, and the bytes it mixes with the output thread's are not
  modelled.
* The queue's condition variable is waited for with a mutex nobody has locked (`vmessagequeue.cpp:54`), which is
  undefined; modelled is what the usual implementations do. The length of a message is constant while it is queued.
* Sockets: the Single and Linear strategies, options, addresses, half-closing.
* Event producers: the kqueue variant, the handlers for reception, dispatch and lifetime, which pass calls on,
  the blocking reads and writes of a `VCommSession`, failures of the Windows event functions. Events that are
  neither a hang-up nor data (`veventproducer.cpp:159`) are only logged, and a one-shot registration they disarm is not
  followed. On Windows a thread copies its share in one step (`vwsaeventproducer.cpp:373`): what it reads
  changes only while all the threads pause, as `UpdatesAreWhole` shows of the updates it is about; a copy torn by one of
  the others is not followed.
* Shutdown registry: registered functions, holders that are not thread-safe.
* Loggers: appenders, formats, configuration. `log()` tests the time-out and the message in two sections under one mutex
  (`vlogger.cpp:65`, 70), of which another thread may come between; here they are one step, since the counts are changed
  in whole sections only. Files: the wrappers of single calls.
* Bento: types whose text differs only in its value, the XML form, `find`. Settings: values as numbers and
  durations, which are strings here, the Bento form. Strings: formats, numbers, comparison, UTF-16.
  Streams: copying, byte order, tailing by code points. Instants: dates and times of day as classes of their
  own, the look of a format's fields, duration strings, remote time zones.

Not at all: messages and their handlers (the applications'), geometry and colours
(arithmetic that unit tests reach as well), the compacting deque, diagnostics, platform types. A quarter of the
lines of `src/` are unit tests and code that walks stacks, and much of the rest declares, converts and
formats: no behaviour of this kind, and a bound on what the mapping to the source can cover.

## 7. Plan

1. Done: message queue, sessions, connection strategy, both event producers, sockets, singletons, monitor,
   loggers, files, streams, strings, Bento, settings, instants; eight modules of proofs.
2. Proofs: what a single attribute of Bento or a line of settings reads as, as lemmas towards `WrittenIsReadBack`.
3. In `VClientSession`: a thread that cannot be created, `stopSocketThread` and `enumerateActiveSockets` up to the
   use of a stale pointer.
4. The compacting deque and the stream copier, as small modules.
5. A composition of the unix producer with its subscribers and the status of a `VCommSession`.

The tools read the modules from this directory, for instance

    tlc -config MCComponents.cfg MCComponents
    tlapm InputOutputProofs.tla
