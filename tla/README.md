# TLA+ models of async-io

`async-io` lets futures wait for I/O and for time. It has one global reactor, a set of
handles and timers that leave wakers in it, and whatever threads happen to drive it: those
inside `block_on()` and a fallback thread called "async-io". The crate is small; what makes
it hard is that wakers are stored, moved, replaced and woken by different threads under
three locks and a handful of atomics, and that every lost wake is a task that hangs.

This directory holds models of these parts, TLC configurations, and TLAPS proofs.

## Inventory

| Part | State | Operations | Shares with |
|---|---|---|---|
| I/O sources (`reactor.rs`) | slab `sources`; per source and direction `tick`, `ticks`, `waker`, `wakers`; `ticker`; the poller's oneshot interests | `insert_io`, `remove_io`, `poll_ready`, `Ready::poll`, drop of `Ready`, the event loop of `react()` | all tasks, the driver, the operating system |
| Timer queue and map (`reactor.rs`) | bounded queue `timer_ops`, ordered map `timers` | `insert_timer`, `remove_timer`, `process_timer_ops`, `process_timers`, timeout of `react()` | timers of all tasks, the driver |
| `Timer` (`lib.rs`) | `id_and_waker`, `when`, `period` | constructors, `set_at`, `set_after`, `set_interval(_at)`, `clear`, `poll_next`, drop | the timer queue |
| Driver (`driver.rs`) | `BLOCK_ON_COUNT`, a cached parker and `io_blocked` per thread, `IO_POLLING`, `last_tick`, `sleeps`, the lock on `events` | `block_on()`, its waker, `main_loop()` | the reactor lock, `Poller::notify` |
| `Async<T>` (`lib.rs`) | the handle and its source | `new`, `into_inner`, drop, `readable`/`writable`, `poll_*`; retry loops `read_with`, `write_with`, `optimistic`, `AsyncRead`/`AsyncWrite` | I/O sources |
| Networking types (`lib.rs`) | none | one retry loop per operation; `connect()`: a socket is made, wrapped, awaited and examined | `Async<T>` |
| Platform registrations (`reactor/*.rs`) | none | add/modify/delete of descriptors, kqueue filters and waitables | the poller |
| OS extensions (`os/*.rs`) | none | `Filter`, `Waitable`: a handle with one direction | `Async<T>` |

Interactions. `react()` runs under the lock on `events`, so once at a time; it processes
timers, bumps the ticker, waits, handles events under the lock on `sources` and, for each
event, that of the source, and wakes what it collected after releasing them. A poll of a
handle takes the source's lock only. `insert_timer` pushes to the queue and calls
`notify()`, which interrupts the wait. A waker of `block_on()` unparks its thread and calls
`notify()` if that thread is inside the wait.

What is hard: events handled after they were collected, keys reused in between; one event
disarming two directions; a wake that falls between two looks at the parker; a timer
inserted while the reactor sleeps, through a queue that is full; a system call failing half
way. `PROJECT.json` lists each of these at its line.

What makes each part correct:
* sources: the slab and the poller agree; a stored waker is armed; a task told Pending is
  woken; a poll says Ready only for an event that came after it began to wait;
* timers: a set timer is in the map or on its way there, nothing else is, and the reactor
  never sleeps past it;
* operations: an `Async` operation behaves like the blocking one: it is answered once, when the
  descriptor can answer it, and does not sleep on with its answer at hand; every poll returns;
* handles: what is registered is open, and `connect()` returns connected streams only;
* driver: a future's wake is never slept through, one thread at a time drives, a call whose
  event comes returns, I/O of others is delivered.

## Modules

| Module | What it is |
|---|---|
| `IoSource` | the I/O half of the reactor |
| `IoSourceProofs` | its safety invariants, proved |
| `Async` | the retry loops of `Async<T>` over `IoSource`, with a concrete operating system |
| `BlockingIo` | what an operation promises: a blocking call; `Async` implements it |
| `AsyncProofs` | the refinement, proved step by step |
| `Handles` | making, connecting, sharing, unwrapping and closing handles, over `IoSource` |
| `HandlesProofs` | its safety invariants, proved from those of `IoSource` |
| `Timers` | `Timer`, the queue, the map, the timer half of `react()` |
| `TimersHistory` | `Timers` with two history variables, for what the documentation says about past calls |
| `TimersProofs` | the safety invariants of `Timers`, proved |
| `Driver` | `block_on()`, its wakers, the async-io thread |
| `DriverProofs` | its safety invariants, proved |
| `MCIoSource`, `MCAsync`, `MCHandles`, `MCTimers`, `MCDriver` | the modules of the runs: symmetry sets, and the view of `Handles` |

`Async` and `Handles` extend `IoSource` and conjoin its actions: a poll of an operation *is* a
`Ready::poll` or `poll_ready()` of the source underneath.

Operators whose name has an underscore and a suffix (`Delivered_tickOnly`) are deliberate
mistakes ("Mutant"): put in the place of the operator they are named after, they must make
a property fail. They are no part of the specifications.

### IoSource

`slab`, `ticker`, `tick`, `ticks`, `waker` and `wakers` are the fields of that name;
`wakers[f]` is the slab entry a future owns, so that `Direction::wakers` of a side is the
set `Entries`. `interest` is the poller: one oneshot registration per descriptor.
`events` and `toWake` are the event list and the local vector of `react()`, `phase` where it
is. `fut`, `waiting` and `notified` are the tasks' side: what each was told last, and whether
it was woken since. `fresh` and `freshDir` are ghosts: an event was reported by `wait()` since
the ticks were remembered.

What is done under a source's lock is one step, except that `modify()`, which ends a
registration, is a step of its own (`registering`): `wait()` may return between the read of
the ticker and `modify()`. The handling of events is one step per event, the wakes are one
step each. `add()` may fail at any time and always does for a descriptor already there;
`modify()` may fail `Faults` times, in a poll or in the event loop. `wait()` may report an armed
descriptor in the directions it is armed for, or in both (hang-up, error). `delete()` is
assumed to succeed: `Drop` ignores its error and closes the descriptor, which removes it;
`into_inner()` returns the error, and drops the object too.

Two wakers are equal iff they are of the same task. A task awaits one thing at a time.

`Filters` and `Waitables` are the registrations that are not sockets: they are awaited for
readability only (`Awaitable`), and a filter is armed whenever it is registered, because
`add_filter()` and `modify_filter()` have no interest to choose (`Registered`). One restriction:
a signal or process that has a source gets no second one (`OneSourcePerFilter`), because whether
kqueue refuses the second registration or replaces the first by it is not in this repository.

### Async and BlockingIo

`call` is the operation of a task: its place in the loop, its source, its direction and whether it
takes what it finds (peeking and flushing do not; the runs use operations that take, the proof of
`BlocksLikeIo` covers all). The method tables (`ReadMethods`, `UdpMethods`, ...) say
which methods there are; tasks of `Pollers` use the poll loops, the others the async methods.
`avail` and `hup` are the operating system: an operation succeeds if its direction has something,
and on a hang-up (with an error or an end of file); `wait()` reports exactly what is there. After
`optimistic()` has polled its future once, any further poll of the task drops the future and retries
(`Resume`), whether the task was woken or is polled for other reasons.

`BlockingIo` knows neither polls nor wakers: a call begins, is answered at a moment its descriptor
can answer it (taking one unit), or is given up. Its `Progress` says that no call is answerable
from some point on and never answered, as long as no registration has failed. `Async` is shown to
implement it under the mapping that forgets everything but `avail`, `hup` and which task is in
which operation (`Busy`, `Blocking`): `BlocksLikeIo` is the safety part, `AnsweredWhenReady` its `Progress`.

### Handles

`sock` is what the operating system knows of a descriptor: closed, connecting, refused,
unconnected (a Unix socket whose `connect()` answered AGAIN) or open. A closed number can be
handed out again at once. `op` is what a task does to its handle, from `connect()`, or a
descriptor from `bind()`, `accept()`, `pair()`, `Filter::new()` or another handle (`Share`), through the two
halves of `insert_io()`, to `remove_io()` and the close that follows it. A failing
`set_nonblocking()` ends like a failing registration. I/O on an open socket is in `Async`.

### Timers

Time is `0 .. Horizon`; an instant beyond it is one `checked_add()` refuses. An operation
changes the Timer's fields in its first step (nobody else sees them) and leaves the calls it
makes to the reactor in `todo`; each push is a step, and so is `notify()`. A push to a full queue is
refused (`refused`); the operation then waits for the lock on the map, drains whatever is in the queue
by then, one operation per step, at most `Cap` of them, and tries again.
`react()` locks and drains in the same way, before its wait and, if the wait ended with
nothing and its timeout was not zero, after it. `WaitOther` is a wait that ended with I/O events or an
error, `DispatchFails` one whose events led to a failing `modify()`, which drops the wakers of
the timers that were due (`dropped`). IDs are unique: a new one
is one that no timer, entry or operation has.

### Driver

One step per access to something shared: a parker's token, `io_blocked`, the lock,
`BLOCK_ON_COUNT`, the wait. `react()` is reduced to what a driver sees of it. `ticked` says
whether the ticker differs from `last_tick`; `sleeps` counts to `SleepLimit` (10 in the code).
Whether a thread has held the lock for 500 microseconds is a free choice. Futures wait for
an I/O event or for a signal, which another thread gives and then wakes them; a future of
`Unruly` may wake itself while it is polled, or panic. A recursive `block_on()` is a member of
`Nested`: it begins while `Host` polls its future (before or after that future left its waker), has
a parker of its own, and the code of `Host` goes on when it is over.

## Runs

| Run | Checks | Shows |
|---|---|---|
| `IoSource_sides` | `TypeOK` `WakersAreArmed` `SleepersHaveWakers` `OnlyFreshEvents` | two tasks, two `Ready` futures, both directions, one failing `modify()` |
| `Async_live` | `BlocksLikeIo` `AnsweredWhenReady` `PollsReturn` | a poll loop reading and an async method writing on one handle |
| `Async_poll` | `OnlyFreshEvents` `SleepersHaveWakers` `AnsweredWhenReady` `PollsReturn` | two poll loops competing for one direction, one failing `modify()` |
| `Handles` | `ConnectedIsConnected` `RegisteredIsOpen` `PollerMatchesSlab` `OnlyFreshEvents` | two tasks, two sources and keys, a reused descriptor and a filter; duplicates, failures, cancellations |
| `Timers_one` | `TypeOK` `SetTimersPending` `NoOrphanEntries` `ReactorWakesInTime` `TimersFire` | one timer, two tasks, periods 0 and 1, queue of one, failing `react()` |
| `Timers_two` | `SetTimersPending` `NoOrphanEntries` `ReactorWakesInTime` | two timers racing for the full queue |
| `Driver_two` | `TypeOK` `WokenIsNotBlocked` `NoLostWake` `OneDriver` `BlockOnReturns` `IoIsDelivered` | two threads in `block_on()`, for I/O and for a signal, one signaller |
| `Driver_nested` | `WokenIsNotBlocked` `NoLostWake` `OneDriver` `BlockOnReturns` `IoIsDelivered` | a recursive `block_on()` for I/O in one that waits for a signal, self-wakes, panics, an outside task's I/O |

Runs that end in a violation, each a disagreement between the code and what is said of it:

| Run | Property | What happens |
|---|---|---|
| `IoSource_lost` | `NoLostSleeper` | `modify()` fails in the event loop of `react()`; `?` drops the wakers already collected, of I/O and (`dropped` in `Timers`) of timers that were due |
| `IoSource_stuck` | `EveryWaiterIsWoken` | `modify()` fails in `poll_ready()`; the stored waker keeps every later poll of the task from registering |
| `Timers_once` | `OnceIsOnce` | `set_at()` ("once") on an interval timer keeps the period |
| `Timers_lastpoller` | `LastPollerIsWoken` | a poll of an unset timer does not store the waker; a later `set_at()` wakes nobody, or an earlier poller |

Bounds. One source has both directions and two contenders per direction: every conflict
in the code is between two parties on one source, or between two sources over a key or a
descriptor (`Handles`). `TickMod` 2 makes the ticker wrap at every other round, which the code
allows for; the proofs cover every width. `Supply` 1 gives one unit of data or room, which two
tasks then compete for; a hang-up answers everyone. In `Handles` one descriptor is reused by
every socket in turn, the second is a filter; its `VIEW` leaves out which tasks were woken, as
tasks are polled at any time there and no property mentions it. `Cap` 1 makes the queue full at every
other push. `Horizon` 1 has a timer that is due, one that is not, an interval that fires twice and
one that overflows. `MaxIds` is large enough for a free ID at every insertion of these runs (an
insertion without one would be disabled). `SleepLimit` 1 has both ways of taking the lock. Deadlock
is checked in every run.

Fairness. `Async`: the reactor is run and is not starved of a source's lock by tasks that take
and release it again and again; a running task goes on, and one that was woken is polled again, as
every executor does. Nothing has to arrive, nobody has to call or to hang up, and spurious polls
need not happen. `IoSource` (`IoSource_stuck`): `react()` is run again and again (what `Driver` shows of the threads),
whoever stored a waker goes on to `modify()`; the event loop is not starved of a source's
lock, which is held only for the length of a poll (strong fairness of `Dispatch`); a
descriptor armed again and again is sooner or later reported, since otherwise nothing is due to
its waiters. `Timers`: begun operations go on, the reactor runs, time passes,
and a thread that waits for the lock on the map, which the reactor takes and releases again and
again, gets it sooner or later (strong fairness of `Finish`; with a mutex that starves it, an
operation that met a full queue never ends). `Driver`:
each thread runs its own code; nobody has to call `block_on()`, to signal or to make I/O
happen. `IoIsDelivered` is claimed only while `block_on()` calls do not begin and end forever:
each return resets the naps of async-io, whose `try_lock` may meet the lock held each time.

## Proofs

Every invariant that a run checks is proved for every value of the constants, and so is the
refinement of `BlockingIo`. In each module one lemma per part of the inductive invariant, or per
group of actions, shows that a step keeps it, action by action.

| Module | Theorem | Property |
|---|---|---|
| `IoSourceProofs` | `TypeCorrect` | `TypeOK` |
| | `TablesAgree` | `PollerMatchesSlab` |
| | `NoForgottenWaker` | `WakersAreArmed` |
| | `NoLostWakeup` | `SleepersHaveWakers` |
| | `NoStaleReadiness` | `OnlyFreshEvents` |
| `AsyncProofs` | `AsyncBlocksLikeIo` | `BlocksLikeIo` |
| | `AsyncOnlyFresh`, `AsyncNoLostWakeup` | `OnlyFreshEvents`, `SleepersHaveWakers` of `AsyncSpec` |
| `HandlesProofs` | `AlwaysConnectedIsConnected` | `ConnectedIsConnected` |
| | `AlwaysRegisteredIsOpen` | `RegisteredIsOpen` |
| | `HandlesTablesAgree`, `HandlesOnlyFresh` | `PollerMatchesSlab`, `OnlyFreshEvents` of `HandlesSpec` |
| `TimersProofs` | `TypeCorrect` | `TypeOK` |
| | `AlwaysSetTimersPending` | `SetTimersPending` |
| | `AlwaysNoOrphanEntries` | `NoOrphanEntries` |
| | `AlwaysReactorWakesInTime` | `ReactorWakesInTime` |
| `DriverProofs` | `TypeCorrect` | `TypeOK` |
| | `AlwaysOneDriver` | `OneDriver` |
| | `AlwaysWokenIsNotBlocked` | `WokenIsNotBlocked` |
| | `AlwaysNoLostWake` | `NoLostWake` |
| | `CountExact` | that `BLOCK_ON_COUNT` is the number of calls (`CountIsExact`, stated there) |

The assumptions are those on the constants, which TLC evaluates in the runs: `None` is outside all
other sets (tuples and records included), futures and tasks are disjoint, `TickMod` and `Cap` are
positive, the threads of `Driver` are finitely many and neither signallers nor tasks outside, and a task that
reads (writes) has a direction `READ` (`WRITE`) to do it in. Where there are `Filters`, the theorems are about
a program that registers each of them once at a time (`OneSourcePerFilter`), `TablesAgree` and
`HandlesTablesAgree` above all. No property is inductive alone; what
each invariant adds, and why:

`IoSource` (`IInv`).
* `Shape`: who waits on a source keeps it live; a source not in use is in its default state;
  the event list is empty outside the handling of events. Without it `remove_io()` could leave
  wakers of one source to the next user of its slot.
* `FreshInv`: as long as no event was reported since ticks `<<a, b>>` were remembered, the
  direction's tick is `a` or `b`, and an event of the list that is still to be handled for it
  belongs to the round in which they were remembered, so that handling it sets the tick to `a`.
  This is the reason the code remembers two ticks: `b` covers the events handled before, `a` the
  one collected before and handled after. It holds for any width of the ticker.

`Async` (`AInv`). `AsyncSteps` shows that whatever a retry loop does to the reactor is one of the
operations of `IoSource`, so that `IInv` carries over; it needs `CallShape`, that a call in progress
has a live source, and a future where it waits on one. That source stays as it is while the call
lasts (`HandleKept`), so `Busy`, the abstract state, changes only where a call begins or ends.
`RefinementStep` then maps `Begin` to `Begin`, `Answered` to `Complete`, `Cancel` and `Fail` to
`Return`, arrivals, hang-ups and failing registrations to the environment, and the rest to nothing.

`Handles` (`HInv`). `HandlesSteps` carries `IInv` over in the same way. `InHand` and `OneEach` say
what a task at each place has in hand (an open descriptor, a source, a future), that no other task
has the same source or future, and that every source is in somebody's hand; `RegisteredIsOpen`
follows. `EventsTell` is the heart of `ConnectedIsConnected`: a future that has heard of an event
since it registered (by `FreshInv` nothing else makes it Ready) belongs to a socket that is no
longer connecting, since its descriptor cannot have been closed and reopened in between.

`Timers` (`IInv`). `Calls` describes what an operation still has to do: remove the registration
the timer has given up, insert the one it has now, `notify()`, in that order. With it `InEffect`
extends `SetTimersPending` to the middle of an operation, and `LateInsertions` says that an
insertion which the drain before a poll will not reach (it stops after `Cap` operations) has its
`notify()` still to come; that is what `ReactorWakesInTime` needs when the drain ends and the
timeout is computed. `LeastExists` shows that the minima the model chooses exist.

`Driver` (`IInv`). `Control` and `LockHolder` tie the flags and the lock to the place each thread
is at, `CountIsExact` the counter to the threads that are inside, `Wakers` says from where a thread
or a signaller wakes others, and `WakesArrive` extends `NoLostWake` to every place between the
poll of a future and the next one.

Only model-checked: liveness (`AnsweredWhenReady`, `PollsReturn`, `TimersFire`, `BlockOnReturns`,
`IoIsDelivered`), as the prover does not handle fairness.

## Plan

1. Proofs: action properties, such as that a timer's entry leaves the map only by firing or by a
   call of its timer, and that a wake is taken out of a source only towards its task.
2. `Timers`: the drop of a task, and of its timers, inside `process_timer_ops()`.
3. A composition of `IoSource` and `Timers` in one `react()`, with the failing `modify()`; so far each
   module has its own view of that failure.

## Not modelled

`reactor_fd()` reads a descriptor; what another event loop does with it is outside. What kqueue
does with a second registration of one signal or process, or with an event nobody waited for yet,
is not in this repository. Addresses, socket options and the choice of system calls in `connect()`
do not change what it waits for. `IoSafe`, conversions and the `get_ref()` family have no behaviour.
Tracing, formatting and trait plumbing are left out. A poisoned
lock (a panic under one) is not considered. `poll_readable()` of a task whose waker is stored keeps the
ticks of the earlier call, so "since the last time this task has called the method" in its
documentation holds of the first of several calls in a row that return Pending.
