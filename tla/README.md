# A TLA+ verification of muduo-c11

muduo-c11 is a C++11 version of the muduo network library: one event loop per
thread, non-blocking sockets, callbacks. `net/` is the library, `base/` the
utilities it rests on, `reactor/s00` to `s13` are the drafts that led to `net/`.
This directory holds TLA+ models of `net/`, where threads, callbacks, timers and
peers interleave, and of the algorithms of `base/`; the TLC runs that check them
on small instances; and TLAPS proofs of all their safety properties for all
instances.
`PROJECT.json` ties every definition to the lines it models.

## Inventory

| Component | State | Operations | Hard part |
|---|---|---|---|
| EventLoop | `quit_`, `pendingFunctors_`, active channels, eventfd counter | `loop`, `quit`, `runInLoop`, `queueInLoop`, `updateChannel`, `removeChannel` | any thread queues and quits while the loop sleeps, dispatches or swaps; callbacks remove channels |
| Channel, EPollPoller | `events_`, `index_`, epoll set | `enable*/disable*`, `update`, `remove`, `handleEvent` | a channel may be in the poller's map and out of the epoll set, HUP is reported unasked |
| PollPoller | `pollfds_`, indices | the same | not usable as it stands, see below |
| TimerQueue, Timer, TimerId | two sets of timers, the cancelled ones, a timerfd | `addTimer`, `cancel`, `handleRead`, `reset` | cancel from callbacks, reuse of freed addresses, two clocks, other threads |
| TcpConnection | `state_`, `reading_`, buffers, shared pointers | `send`, `shutdown`, `forceClose`, `startRead`, `stopRead`, four event handlers, `connectEstablished`, `connectDestroyed` | lifetime, close from many sides, partial writes, calls of other threads |
| Connector, TcpClient | `connect_`, `state_`, retry delay, `connection_` | `start`, `stop`, `restart`, `connect`, `disconnect` | retry timers against stop and restart, destructor |
| Acceptor, TcpServer | `connections_`, round robin | `newConnection`, `removeConnection`, destructor | connections live in other loops |
| EventLoopThread(Pool), Thread, CountDownLatch | `loop_`, `exiting_`, `next_` | `startLoop`, `threadFunc`, destructor | hand-over of a stack object, quit against loop |
| Buffer | two indices | `retrieve`, `append`, `makeSpace`, `readFd` | index boundaries |
| Logging, LogStream | a fixed buffer, a cached time stamp | `<<`, `formatTime`, `finish`, `formatSI/IEC` | the last bytes of the buffer, the smallest integer, a stale stamp |
| LogFile, FileUtil | file, last roll, last flush | `append`, `flush`, `rollFile` | a wall clock that stands still or goes back |
| Date, TimeZone | transitions of a zone | conversions both ways | leap years, negative times, repeated hours |
| Thread, Mutex, Condition, ProcessInfo, StringPiece ... | | | wrappers of system calls and plain data |

The parts interact by calls in the loop thread (Channel -> EventLoop -> Poller),
by functors queued from other threads, by callbacks bound to raw or shared
pointers, and through the kernel (eventfd, timerfd, sockets). What is hard to
test is listed, line by line, under `hazards` in `PROJECT.json`.

What makes each part correct: the loop loses no wakeup and runs functors in
order; the poller dispatches to live channels; timers run once per expiration,
stop when cancelled and are freed once; a connection writes what it was given,
in order, goes down once and is destroyed after that; a client has at most one
attempt under way, retries with growing delays and stops when told to; a server's
map matches the connections of its loops and every descriptor comes back; a pool
hands out loops that exist and joins its threads; a buffer is a queue of bytes;
dates and times convert back; the library's assertions hold.

## Modules

- `FunctorQueue` is the abstract promise of `queueInLoop()`: one queue, taken
  from the front, one functor at a time.
- `EventLoop` models `net/EventLoop.cpp` and `EPollPoller::poll()`. `lpc` is the
  place of the loop thread in `loop()`; `pc[t] = "wakeup"` is a thread between
  the unlock in `queueInLoop()` (or the store in `quit()`) and `wakeup()`. User
  code runs wherever a functor or a channel callback runs, and may call
  everything. `currentActiveChannel_`, `eventHandling_` and
  `callingPendingFunctors_` are functions of the place. Calls that would fail an
  assertion on the caller (`removeChannel()` of another active channel) are not
  made: the assertion is the guard.
- `TimerQueue` models `net/TimerQueue.cpp` and `Timer`. `heap` maps addresses to
  live Timers, so that a use of a deleted one is a type error and a reused
  address is possible; `handleRead()` is split at its callbacks (`HandleRead`,
  `RunTimer`, `Reset`), during which user code adds and cancels timers. The unit
  of time is the 100 microseconds of `howMuchTimeFromNow()`. The functors of
  other threads are a queue, which is what `EventLoop` shows them to be.
- `TcpConnection` models `net/TcpConnection.cpp` with its Channel, the index the
  EPollPoller keeps of it, the pending functors that concern it, the pointers
  that keep it alive, the owner (`removeConnection()`, `~TcpServer()`) and the
  peer. `todo` is the rest of the call stack of the loop thread, so that user
  code called in the middle of a handler can call the connection. A failed
  assertion is recorded in `failed` and ends the behaviour, as `abort()` would.
  A functor bound to a raw `this` asserts that the object is alive.

- `Connector` has the operations of `net/Connector.cpp` as operators and actions
  on `connect_`, `state_`, `channel_`, the retry timers and the pending functors;
  `TcpClient` extends it with the client, the loop thread (`Poll`, `Dispatch`,
  `doPendingFunctors`), the connection as the client sees it, and another thread,
  whose calls are two steps: the store and the queueing. `wanted` records what
  the user has asked for last; `sockets` counts descriptors; `waited` is the delay
  of the last retry since a connection was handed over, from which `Backoff` says
  what the next one must be.
- `EventLoopThread` has a pool, its owner's thread (`opc`) and the threads it
  starts (`tpc`), with Thread, CountDownLatch and Condition. A wait may return
  without a notification.
- `TcpServer` has the server, the Acceptor and connections spread over loops,
  each a queue of functors (which `EventLoop` shows it to be). A connection is
  accepted in the base loop, closed in its io loop, erased in the base loop and
  destroyed in its io loop. `closing[l]` is an io loop inside `handleClose()`,
  `forcing[l]` one between the test of `state_` and its store in `forceClose()`.
  `~TcpServer()` takes one step per connection, one per io loop that `threadPool_`
  quits and joins (`LoopEnds`), and one for `acceptor_`. A loop that quits drops
  its queue; in the code only what was queued after it last took its functors, so
  that `LoopEnds` allows a little more.
- `Buffer` keeps the vector and both indices beside `stream`, the queue they
  stand for. Operators named as in the code return the new buffer; a failed
  assertion clears `ok`.
- `Date` has the closed formulas of `Date.cpp`, `toUtcTime()` and
  `fromUtcTime()`, and a calendar that is walked day by day both ways from the
  epoch. `CInteger` has the division of C++.
- `TimeZone` has `readTimeZoneFile()`, `findLocaltime()` and the two local
  conversions; the state is a zone and an instant. The reference, `InForce`, takes
  the first standard time before the first transition, as a comment in the code
  demands; the code takes the first kind of time of all.
- `LogFile` has rolling and flushing with a clock that may be set to any time
  between calls and goes on during one, where it is read twice.
- `LogStream` has a log record from `Logger`'s constructor to its destructor, with
  `FixedBuffer`, the digits of numbers, and the time stamp cache. An amount given to
  `formatSI()` or `formatIEC()` is a count, or ten thousandths of its unit; a `wide`
  one is above 2^53, where `static_cast<double>` may round it up to the next ten
  thousandth (`double`). `formatIEC()` compares and prints the double alone, so its
  amount is the double's.
- `MCBase` puts the last five side by side for one run; one of them moves.
- `EventLoopProofs`, `TimerQueueProofs`, `TcpConnectionProofs`, `TcpClientProofs`
  (with Connector), `TcpServerProofs`, `EventLoopThreadProofs`, `BufferProofs` and
  `BaseProofs` (LogFile, Date, TimeZone, LogStream) extend those modules with theorems and their proofs.

External behaviour, modelled from how the code uses it: epoll (level triggered,
HUP and ERR always reported), `shutdown(2)` failing after a reset, `SO_ERROR`
cleared when read, timerfd disarmed by a zero delay, the heap, `shared_ptr`,
the outcomes of `connect(2)`, `accept(2)` out of descriptors, `pthread_cond_wait`,
`readv(2)`, `std::lower_bound`, `gmtime_r`, the rounding of `snprintf`.

Assumptions on users: a thread that has queued functors bound to a raw `this`
keeps a `TcpConnectionPtr` until they have run (`Release`); `startRead()` and
`stopRead()` are called on a connection that is not down (`LoopCall`);
`~TcpServer()` finds its connections in a state of `OwnerLeaves` and in a loop of
`DestroyWith`, the io loops outside it idle; `forceClose()` of a server's connection
is called in that connection's loop (`ForeignClose`); a client is not connected again after `stop()` (`Reconnects`), not
stopped by another thread while it reconnects (`StopsRetrying`), and not destroyed
while the Connector has functors queued (`EarlyDestroy`); the one second for which
`~TcpClient()` keeps the Connector is longer than an iteration of the loop; only
destructors quit a pool's loops (`UserQuits`), and only once they run
(`DestroyBeforeLoop`); `pthread_create()` succeeds (`CreateOutcomes`); daylight
saving is one hour, zone files are complete and list a standard time first
(`ZoneFiles`, `Cuts`); the log's zone is set before the first record (`LateZone`);
`formatSI()` gets no amount above 2^53 (`Amounts`); the clock is not put back between
the two readings of one `LogFile::append()` (`LogAppend`). Each of them is needed, none is
documented in the code, and TLC finds a failure without it; the hazards say which.

Definitions commented `Mutant:` are small errors of the kind a change to the code
might bring in; each shows that a property notices it.

## Runs

| Run | Result | What it shows |
|---|---|---|
| `event_loop` | passes | no lost wakeup, sound dispatch, refinement of `FunctorQueue`, quit is honoured, functors run |
| `timer_queue` | passes | set agreement, single ownership, the timerfd is armed in time, cancel, stale TimerIds, every timer runs |
| `timer_foreign_add` | violation | `addTimer()` of another thread reads a Timer it no longer owns (`TimerQueue.cpp:92`) |
| `tcp_connection` | passes | assertions, stream order, write interest, FIN after data, down once, close noticed, destroyed, shutdown completes |
| `tcp_reset_then_shutdown` | violation | a reset before `shutdownInLoop()` aborts in `sockets::shutdownWrite()` (`SocketsOps.cpp:134`) |
| `tcp_stop_read_then_close` | violation | `stopRead()`, `forceClose()` and a hangup run `handleClose()` twice (`EPollPoller.cpp:83`) |
| `tcp_foreign_shutdown` | violation | `shutdown()` of another thread against `handleClose()` (`TcpConnection.cpp:136`) |
| `tcp_client` | passes | assertions, no socket leaks, stop stops, delays that double and begin anew after a connection, the client gets its connection |
| `tcp_client_reconnect` | violation | `stop()` and then `connect()` during an attempt abort in `startInLoop()` (`Connector.cpp:33`) |
| `loop_thread` | passes | loops handed out exist, round robin is even, threads are joined, start and destruction finish |
| `tcp_server` | passes | assertions, map against connections, descriptors come back, accepting resumes after EMFILE |
| `base_library` | passes | Buffer is a queue, the calendar is right from 1900 to 2500, local times convert back, logs roll in time, records are sound |

`AssertionsHold` in `tcp_connection` leaves out the two assertions that
`tcp_reset_then_shutdown` and `tcp_stop_read_then_close` refute; calls of other
threads there are `send()` only, because of `tcp_foreign_shutdown`.

Four more failures can be had by changing a constant of a passing run, and are the
reason for its value:

| Run | Change | What TLC finds |
|---|---|---|
| `tcp_server` | `ForeignClose = TRUE` | `forceClose()` of another thread against `handleClose()`: the connection is closed and erased twice, `assert(1 == n)` fails (`TcpConnection.cpp:151`, `TcpServer.cpp:79`) |
| `tcp_server` | `DestroyWith = {0, 1, 2}` | `~TcpServer()` quits io loops before they have run `connectDestroyed()`, a connection is deleted while it is up (`TcpServer.cpp:32`, `EventLoop.cpp:82`, `TcpConnection.cpp:40`); or `removeConnection()` is called on the server that is gone |
| `base_library` | `ZoneFiles <- MCDaylightFirst` | before the first transition the first kind of time is used though it is daylight saving; the comment "FIXME: should be first non dst time zone" (`TimeZone.cpp:191`) says so |
| `base_library` | `Amounts <- MCWideAmounts` | `formatSI(99949999999999999)` is "100.0P", six characters, though "The returned string is atmost 5 characters long." (`LogStream.cpp:87`, `LogStream.h:211`) |

Bounds. `event_loop`: two threads and the loop's, two channels (one can remove
the other), three functors (one running, one in the vector, one pending), one
quit, two calls of `loop()` (functors queued outside it). `timer_queue`: two
addresses and two timers, so that an address is reused and two timers share a
batch, one-shot and periodic, due at once or later, one adjustment of the clock,
time up to 4. `tcp_connection`: three API calls, messages of two units, a high
water mark of one message, one arrival, a fin and a reset, one other thread.
`tcp_client`: four calls in the loop or in another thread and the real delays of
500 to 30000 ms (seven doublings); attempts are not bounded. `loop_thread`: up to
three threads, six requests for loops, hashes below and above the number of
threads. `tcp_server`: up to two io loops, four clients and three descriptors, so
that accepting stops and resumes. `base_library`: a buffer of four bytes with two
in front, calls of up to three bytes and an extra array of two, so that moving,
growing and both cases of `readFd()` happen; every day of the years that `Date.h`
promises, with `time_t` checked where it fits 32 bits (1902 to 2037), TLC's
integers; zones in steps of ten minutes through their transitions; a day of four
seconds, files of three bytes, a check every three lines; a record buffer of 100
bytes with the real `kMaxNumericSize`, both ends of `int` and both sides of every
bound of `formatSI()` and `formatIEC()`.
Every action and disjunct is taken in a passing run.

Deadlock is not checked where the system may rightly stop: a loop after `quit()`,
a connection that is idle or destroyed, a client that was stopped, a server
without clients, and the walks of `base_library`, which end at their bounds. The
timer queue and the thread pool never stop before their end.

## Fairness

- The loop thread is scheduled and user code returns: weak fairness of its steps.
- `poll()` returns when the eventfd (or the connection's channel) is readable:
  weak fairness of that return only. `RunPromptly` and `QuitHonoured` assume
  nothing of the poll timeout; `RunEventually` adds it, as the code's
  `kPollTimeMs` does.
- A thread inside `queueInLoop()` or `quit()` comes to its `wakeup()`; a thread
  inside a call on a connection comes to its end. Nobody is assumed to call.
- Time passes and the timerfd is reported. Functors get strong fairness
  (`RunTask`): the loop is away in `handleRead()` now and then and comes back.
- A peer that has not reset the connection goes on reading: strong fairness of a
  writable report. Without it no shutdown could be promised to finish.
- A server that is asked again and again accepts a client now and then: strong
  fairness of an attempt in progress becoming writable without an error, and of
  a due retry timer; without it `Connects` could not hold against a dead server.
- Every loop of a server runs its functors, the Acceptor's channel is polled, and
  peers close their connections in the end: without that no descriptor need ever
  come back, and `AcceptsAgain` could not hold.
- The owner of a pool and its threads are scheduled; a notified wait returns.
  Wakeups without a notification may happen, and are not relied on.

## Proofs

Every invariant of the runs, both action properties of the client and the refinement
are proved for all values of the constants: any number of threads, channels,
timers, connections, loops, descriptors and calls, any sizes and delays, all days,
all zones, every `int`. The
assumptions are the named ASSUMEs of the modules, which say little more than that
sizes are natural numbers, and what a theorem states under its own ASSUME. Each
inductive invariant was first checked with TLC on the constants of its run, that of
the client also with more calls. The step lemmas have one case per action.

| Module | Theorem | Property | Proviso |
|---|---|---|---|
| `EventLoopProofs` | `TypeCorrect`, `WakeupNeverLost`, `DispatchIsSound` | `TypeOK`, `NoLostWakeup`, `DispatchSound` | |
| | `QueueRefinement` | `ImplementsFunctorQueue` | |
| `TimerQueueProofs` | `TimerSetsAgree`, `TimersOwnedOnce`, `CancelledTimersStop`, `TimersNotForgotten`, `OneShotsRunOnce`, `TimerfdArmed` | `SetsAgree`, `OwnedOnce`, `CancelStops`, `NotForgotten`, `OneShotOnce`, `Armed` | |
| `TcpConnectionProofs` | `StreamStaysIntact` | `StreamIntact` | |
| | `WritesWhileBuffered`, `ShutdownAfterData`, `DownCallbackOnce` | `WritingWhileBuffered`, `FinAfterData`, `DownOnce` | other threads only send and start or stop reading |
| | `ConnectionAssertions` | `AssertionsHold` | other threads only send, and the owner leaves connections that are up |
| `TcpClientProofs` | `DelaysBackOff`, `SocketsBalance` | `Backoff`, `SocketsAccounted` | |
| | `StopEndsAttempts` | `StopStops` | `~StopsRetrying` |
| | `ConnectorAssertions` | `ConnectorAssertionsHold` | `~Reconnects`, `~StopsRetrying`, `~EarlyDestroy` |
| `TcpServerProofs` | `ServerMapMatches` | `MapMatches` | `~ForeignClose` |
| | `ServerAssertions` | `ServerAssertionsHold` | the same, and `~TcpServer()` finds connections of its own loop that are up, and idle io loops |
| `EventLoopThreadProofs` | `SpreadsEvenly` | `RoundRobin` | |
| | `LoopsAreLive`, `AllJoined` | `LoopsLive`, `Joined` | `~UserQuits` |
| `BufferProofs` | `BufferIsAQueue` | `BufferIsQueue` | |
| `BaseProofs` | `LogRollsInTime` | `RollsInTime` | |
| | `CalendarCorrect` | `CalendarAgrees` | |
| | `ZoneInForce` | `LocalTimeInForce` | files are read to their end and begin with a standard time |
| | `ZoneRoundTrips` | `LocalTimeRoundTrips` | the same, and `RepeatsOneHour` |
| | `RecordsStaySound` | `RecordsSound` | `~LateZone`, and no amount is `wide` |

The provisos are the assumptions on users listed under Modules. They are not for
the proofs' convenience: `tcp_foreign_shutdown`, `tcp_client_reconnect` and the four
changes of constants listed under Runs show what happens without six of them, and the
hazards describe the others. That of `ConnectionAssertions` leaves no call out that could
be let in: with any of `shutdown`, `forceClose`, `startRead` and `stopRead` added to
`ForeignCalls` TLC finds a failed assertion. Where a property holds without one, the theorem does not have it: the streams, the
sockets, the delays and the even spread hold whatever the user does.

Why the invariants of the runs are not inductive, and what was added:

- *Event loop* (`LoopInv`). `NoLostWakeup` speaks of `poll()` only; it is true there
  because a wakeup is read only by an iteration that will swap the functors out
  afterwards. So `WakeupOwed` says for every place but the event loop that pending
  functors have a wakeup written or owed, `LoopThreadOwes` that the loop thread
  itself owes one only inside `doPendingFunctors()`, `QuitOwed` the same for
  `quit_`. `DispatchSound` needs `ActiveOnce`: poll reports no channel twice, so the
  current channel, which a callback may remove, and the wakeup channel, whose
  counter is emptied, do not come up again. `BatchInPlace` gives the refinement its
  empty vector outside `doPendingFunctors()`.
- *Timers* (`QueueInv`). `Placed`: a Timer is in a functor, in the sets or in the
  batch, and only there, under its own expiration. `Filed`: `activeTimers_` follows
  `timers_`. `Numbered`: sequence numbers are not shared, which is what makes a
  stale TimerId harmless when its address is used again. `Cancelled` and `Fired` tie
  the histories to `cancelingTimers_` and to the part of the batch that has run:
  only inside a batch is a Timer alive that is cancelled or has fired. `Kept`: any
  other added Timer is alive. `Armed` is inductive given these: the earliest timer
  changes only where the timerfd is set again.
- *Connection*. `StreamIntact` needs types only. The next three rest on `OpenInv`:
  a `shutdown()` that is not queued runs in a state where it may (`Places`), nothing
  touches the connection before `connectEstablished()` (`Unborn`), and that comes
  once (`Born`). The assertions need `LifeInv` too: `Stages` says how far the
  connection has been closed and that exactly one of `closeCallback_`,
  `connectDestroyed()` and the channel's removal is on its way, in the call stack,
  in the batch or in the pending functors; `Reading` that a connection that is down
  is not registered again; `Holders` who keeps the object alive for each functor.
- *Client*, in layers that need more of the user one by one. `DelayInv` ties
  `retryDelayMs_` to `waited`. `StageInv` has no proviso: `Stages` relates the loop, the Connector and the
  connection (a removed channel has exactly one `resetChannel()` queued), and
  `Accounted` is `SocketsAccounted`. `Stopped` says what `stop()` leaves behind at
  each of its two steps. `Attempts` says that at most one of `connect()`, a functor
  and a timer will start an attempt and that no queued stop is overtaken;
  `Pending` that a timer or the end of a connection is handled only once the
  channel before it has been reset; `Lives` what keeps the Connector alive.
- *Server* (`ServerInv`). `Phases` says for each state of a connection what its
  channel is, whether `connections_` has it and which functors about it exist;
  `AtHome` that they are in the queue of the loop they belong to. While the server
  is up this is inductive by itself. `Forced` says that a loop inside `forceClose()` is
  the connection's own, so that nothing closes it meanwhile. `Parting` carries the assertions through
  `~TcpServer()`.
- *Pool* (`PoolInv`). `LoopsInOrder`: the k-th loop is that of thread k. `Rounds`:
  the loops up to `next_` are one ahead of the others. `MembersTell`: what
  `loop_`, the latch and the mutex say of where a thread is. `PoolLives`: where each
  thread can be while the owner starts, uses and destroys the pool.
- *Buffer* (`BufferInv`). The readable bytes compared with `stream` as sequences
  lead nowhere, so `Holds` compares them index by index, and `Sound` has the order
  of the indices. One lemma per operation of Buffer.
- *Log file* (`LogInv`). `LogMembers`: the file is named after the second of the
  last roll, its day is that second's, and `late <= count_ < checkEveryN_`.
- *Date* (`DateInv`). The date that is walked to has the Julian day number of its
  days since 1970. Both formulas count from March, so that the leap day comes last:
  `DayNumber` writes `getJulianDayNumber()` as days before the year, before the month
  and in it, from which the next day, month and year have the next number.
  `YearMonthDayInverse` takes the divisions of `getYearMonthDay()` one at a time
  (`Centuries`, `YearsOfCentury`, `MonthsOfYear`), each with the bound on the last
  day, which is where it could go wrong. `DaysSplit` has the division of a negative
  time. The years start at -4712 (`YearAssumption`), before which a division would
  truncate the other way. Integers are unbounded: the formulas leave `int` only
  more than a million years away.
- *Zone* (`ZoneInv`). The zone is what `readTimeZoneFile()` makes of the file; the
  rest is about one conversion. `LocaltimeFound`: the search returns the kind of time
  after the transitions passed, given that their keys are split by the time sought.
  By UTC they are because the file is sorted. By local time
  (`FoundByLocalTime`) they are split at the same transition or, in the hour that is
  repeated, at the next one, because transitions are further apart than offsets;
  then the second look of `fromLocalTime()` finds the hour before. `RepeatsOneHour`
  is what that takes, and the code takes it for granted: it subtracts 3600.
  `ZoneInForce` needs nothing of the kind, only `StandardFirst`.
- *Log stream* (`RecordsInv`). `Inside`: no stream has written past its buffer and one
  byte is left, which `FixedBuffer::append()` and `formatInteger()` keep, so that every
  header and trailer does. `StampKept`: the cached stamp is that of its second and of
  the zone. `DecimalReads` and `HexReads`: the digits of an `int` read back as that
  `int`, `INT_MIN` included, in at most ten and eight digits; `SIAmounts` and
  `IECAmounts`: the rounding of `printf` makes no fourth digit of an amount that is
  exactly a double, below each bound.

What a loop computes is an induction over data, for which the library's induction
theorems cannot be used; they take an operator. `LeastNat` does instead: a set of
natural numbers has a least element, by `WFMin` and `NatLessThanWellFounded`, so that
a least counterexample, or a least range without a function that does the rounds,
is led to a contradiction (`LoopExists`, `LoopReads`, `ReadingExists`, `Counted`).

Some definitions were written so that they can be reasoned about, with the same
meaning: `SocketsAccounted` counts queued functors with `Cardinality`; the assumptions
of Buffer, LogFile, Date, TimeZone and LogStream say of every size that it is a number
and of every zone file that it is `WellFormed`; the loops of `convert()` and
`convertHex()` are recursive functions on `int` rather than RECURSIVE operators.

Only model-checked is all liveness (`QuitHonoured`, `RunPromptly`, `RunEventually`,
`TimersRun`, `CloseNoticed`, `DownIsDestroyed`, `ShutdownCompletes`, `Connects`,
`OwnerProceeds`, `Reclaimed`, `AcceptsAgain`): fairness and ENABLED are beyond the
prover.

## Not modelled

- The `reactor/` drafts s00 to s13, three quarters of the repository's lines: each
  stage is mostly a copy of the one before, and `net/` supersedes the last. The
  share of all lines that the models cover is small for that reason; of `net/` all
  parts with state are modelled.
- PollPoller. `updateChannel()` tests `events() < 0` (`PollPoller.cpp:56`) where
  the drafts test the index; no channel can be added, and the constructor of an
  EventLoop that uses it fails an assertion. There is no behaviour to check.
- The destructors of EventLoop and TimerQueue; growth of the epoll event list;
  ReadSmallFile; Singleton and WeakCallback; ProcessInfo, Exception, StringPiece;
  socket options, addresses and byte order; names, texts and debug printing: pure
  I/O, plain data, or one call into the system.
- The digits of 64 bit numbers and of `double`; only their length is (`WideLengths`).
- Two LogFile users of which one calls `rollFile()`, which takes no lock, while
  the other appends: a data race that no caller in the repository has.

## Plan

What may follow: weaker theorems that say what is left when a user breaks one of the
assumptions of the client or of `~TcpServer()`; the conversions that are still right
after a zone file was cut short (`Cuts`); 64 bit numbers digit by digit.
