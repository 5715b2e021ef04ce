------------------------------ MODULE IoSource ------------------------------
(***************************************************************************)
(* The I/O half of the reactor (src/reactor.rs): the slab of registered    *)
(* sources, the per-direction wakers and ticks of a Source, the two ways   *)
(* of waiting on it (the Ready future behind readable()/writable(), and    *)
(* poll_ready() behind poll_readable()/poll_writable()), and the I/O part  *)
(* of ReactorLock::react().                                                *)
(*                                                                         *)
(* One react() call runs at a time: it needs the lock on `events`, which   *)
(* module Driver models.  The calls react() makes for timers are in module *)
(* Timers.  The poller (epoll and its like, external) holds one oneshot    *)
(* interest per file descriptor: an event of a descriptor disarms it in    *)
(* both directions.                                                        *)
(*                                                                         *)
(* Atomicity.  Everything done under source.state.lock() is one step,      *)
(* except that the poller's modify() call that ends a registration is a    *)
(* step of its own, so that wait() can return between the read of the      *)
(* ticker and modify().  insert_io() is two steps (slab, then poller).     *)
(* remove_io() holds the sources lock throughout; an event collected       *)
(* between its two effects is one collected just before it.                *)
(***************************************************************************)
EXTENDS Naturals

CONSTANTS
  Sources,   \* slots for Source objects; a slot is reused after remove_io()
  Fds,       \* what is registered: raw file descriptors, signals, processes, handles
  Filters,   \* those that are kqueue filters: signals and processes
  Waitables, \* those that are waitable handles of Windows
  Keys,      \* keys of the slab `sources`
  Dirs,      \* {READ, WRITE}; a run about something else may use one of them
  Tasks,     \* tasks, each with one waker: two wakers will_wake iff same task
  Pollers,   \* the tasks that call poll_ready(); the others await Ready futures
  Futures,   \* slots for Ready futures
  TickMod,   \* the ticker wraps at TickMod (2^64 for a 64-bit usize)
  Faults,    \* how many modify() calls the operating system may fail
  None

ASSUME ConstantsAssumption ==
  /\ TickMod \in Nat \ {0}
  /\ Faults \in Nat
  /\ Pollers \subseteq Tasks
  /\ Filters \cup Waitables \subseteq Fds
  /\ None \notin Sources \cup Fds \cup Keys \cup Tasks \cup Futures
  /\ Futures \cap Tasks = {}

VARIABLES
  ticker,       \* Reactor::ticker
  slab,         \* Reactor::sources
  src,          \* Source: [st, key, fd], one per slot
  tick,         \* Direction::tick, per source and direction
  ticks,        \* Direction::ticks
  waker,        \* Direction::waker
  wakers,       \* Direction::wakers: the entry a future owns there, or None
  fut,          \* Ready: [st, src, dir, ticks, task]; task is the last that polled it
  waiting,      \* what a task that called poll_ready() was told Pending about
  registering,  \* who is between storing its waker in a source and modify()
  interest,     \* poller: per descriptor None or [key, dirs]
  phase,        \* where the running react() is
  events,       \* ReactorLock::events, as far as not yet handled
  toWake,       \* the local `wakers` of react()
  notified,     \* tasks that were woken and not polled since
  faults,       \* failures of modify() left
  fresh,        \* ghost: wait() returned an event for this future since it registered
  freshDir      \* ghost: the same for the ticks poll_ready() stored, and not answered since

reactorVars == <<phase, events, toWake>>
sourceVars == <<tick, ticks, waker, wakers>>
ghostVars == <<fresh, freshDir>>
vars == <<ticker, slab, src, tick, ticks, waker, wakers, fut, waiting, registering,
          interest, phase, events, toWake, notified, faults, fresh, freshDir>>

Sides == Sources \X Dirs

Event == [key : Keys, dirs : SUBSET Dirs]

TickPair == (0 .. TickMod - 1) \X (0 .. TickMod - 1)

ASSUME NoneAssumption == None \notin Event \cup Sides \cup TickPair

NoSource == [st |-> "none", key |-> None, fd |-> None]
Future(st, s, d, remembered, t) ==
  [st |-> st, src |-> s, dir |-> d, ticks |-> remembered, task |-> t]
NoFuture == Future("none", None, None, None, None)

\* The index of a Ready future: assigned together with its ticks.
HasIndex(f) == fut[f].ticks # None

\* The futures that own an entry of the wakers of direction d of source s.
Entries(s, d) == {f \in Futures : fut[f].src = s /\ fut[f].dir = d /\ HasIndex(f)}

\* Direction::is_empty()
is_empty(s, d) == waker[<<s, d>>] = None /\ \A f \in Entries(s, d) : wakers[f] = None

\* Filter and Waitable are awaited by ready() and poll_ready() only, which is readability.
Awaitable(p) == IF p \in Filters \cup Waitables THEN Dirs \cap {"READ"} ELSE Dirs

\* Registration::add() and modify(): what the poller is armed for when the reactor asks
\* for dirs.  A filter has no interest to choose: it is armed whenever it is registered.
Registered(p, dirs) == IF p \in Filters THEN dirs \cup Awaitable(p) ELSE dirs

\* The event built before every modify(): the directions with a waker.
Interested(s) == {d \in Dirs : ~is_empty(s, d)}

\* Mutant: only the waker of poll_ready() is moved out.
Drained_pollerOnly(s, d) == {waker[<<s, d>>]} \ {None}

\* Direction::drain_into() on direction d of s: the wakers it moves out.
Drained(s, d) ==
  ({waker[<<s, d>>]} \cup {wakers[f] : f \in Entries(s, d)}) \ {None}

\* Mutant: emptiness is tested after the waker was stored, so nobody calls modify().
Registrar_late(s, d, who) == None

\* Who stores a waker calls modify() if the direction was empty.
Registrar(s, d, who) == IF is_empty(s, d) THEN who ELSE None

\* Mutant: the waker that is replaced is not woken.
Replaced_silent(s, d) == {}

\* poll_ready() wakes the waker it replaces.
Replaced(s, d) == {waker[<<s, d>>]} \ {None}

\* Mutant: the ticker does not wrap.
NextTick_noWrap == ticker + 1

NextTick == (ticker + 1) % TickMod

\* Mutant: a source with wakers left is not registered again.
Rearmed_never(s, left) == interest

\* The end of an iteration of the event loop: modify() if wakers are left.
Rearmed(s, left) ==
  IF left = {} THEN interest
  ELSE [interest EXCEPT ![src[s].fd] =
          [key |-> src[s].key, dirs |-> Registered(src[s].fd, left)]]

\* Mutant: the ticker remembered with the tick is not compared.
Delivered_tickOnly(remembered, s, d) ==
  remembered # None /\ tick[<<s, d>>] # remembered[2]

\* "A newer reactor tick has delivered an event": the test on remembered ticks.
Delivered(remembered, s, d) ==
  remembered # None /\ tick[<<s, d>>] # remembered[1] /\ tick[<<s, d>>] # remembered[2]

\* A task is between awaits, or is polling again what it already awaits.
FreeFor(t, f) ==
  /\ t \notin Pollers
  /\ \A g \in Futures \ {f} : fut[g].task # t

Init ==
  /\ ticker = 0
  /\ slab = [k \in Keys |-> None]
  /\ src = [s \in Sources |-> NoSource]
  /\ tick = [x \in Sides |-> 0]
  /\ ticks = [x \in Sides |-> None]
  /\ waker = [x \in Sides |-> None]
  /\ wakers = [f \in Futures |-> None]
  /\ fut = [f \in Futures |-> NoFuture]
  /\ waiting = [t \in Tasks |-> None]
  /\ registering = [s \in Sources |-> None]
  /\ interest = [p \in Fds |-> None]
  /\ phase = "idle"
  /\ events = {}
  /\ toWake = {}
  /\ notified = {}
  /\ faults = Faults
  /\ fresh = [f \in Futures |-> FALSE]
  /\ freshDir = [x \in Sides |-> FALSE]

-----------------------------------------------------------------------------
(* Handles: Async::new() and the end of an Async. *)

\* react() holds the lock on `sources` while it walks the event list.
SourcesUnlocked == phase # "dispatch"

\* A restriction of the model: while a signal or process has a source, no second one is
\* registered for it.  What kqueue makes of a second add_filter() (it may fail, or
\* replace the first entry) is not in this repository.
OneSourcePerFilter(p) == p \in Filters => \A s \in Sources : src[s].fd # p

\* insert_io(), first half: a vacant slab entry and a Source in its default state.
\* (Which vacant key the slab picks is left open.)
InsertSource(s, k, p) ==
  /\ SourcesUnlocked
  /\ src[s].st = "none"
  /\ OneSourcePerFilter(p)
  /\ slab[k] = None
  /\ slab' = [slab EXCEPT ![k] = s]
  /\ src' = [src EXCEPT ![s] = [st |-> "inserted", key |-> k, fd |-> p]]
  /\ UNCHANGED <<ticker, sourceVars, fut, waiting, registering, interest, reactorVars,
                 notified, faults, ghostVars>>

\* insert_io(), second half: what is no filter is added with no interest, and only if the
\* poller does not have it already.
AddRegistration(s) ==
  /\ src[s].st = "inserted"
  /\ interest[src[s].fd] = None
  /\ interest' = [interest EXCEPT ![src[s].fd] =
                    [key |-> src[s].key, dirs |-> Registered(src[s].fd, {})]]
  /\ src' = [src EXCEPT ![s] = [st |-> "live", key |-> src[s].key, fd |-> src[s].fd]]
  /\ UNCHANGED <<ticker, slab, sourceVars, fut, waiting, registering,
                 reactorVars, notified, faults, ghostVars>>

\* Mutant: the failure path also deletes the descriptor from the poller.
AddFails_deletes(s) ==
  /\ src[s].st = "inserted"
  /\ SourcesUnlocked
  /\ slab' = [slab EXCEPT ![src[s].key] = None]
  /\ src' = [src EXCEPT ![s] = NoSource]
  /\ tick' = [x \in Sides |-> IF x[1] = s THEN 0 ELSE tick[x]]
  /\ interest' = [interest EXCEPT ![src[s].fd] = None]
  /\ UNCHANGED <<ticker, ticks, waker, wakers, fut, waiting, registering, reactorVars,
                 notified, faults, ghostVars>>

\* insert_io(), add() failed: always when the descriptor is registered already,
\* and for reasons of the operating system otherwise.  Only the slab is undone.
AddFails(s) ==
  /\ src[s].st = "inserted"
  /\ SourcesUnlocked
  /\ slab' = [slab EXCEPT ![src[s].key] = None]
  /\ src' = [src EXCEPT ![s] = NoSource]
  /\ tick' = [x \in Sides |-> IF x[1] = s THEN 0 ELSE tick[x]]
  /\ UNCHANGED <<ticker, ticks, waker, wakers, fut, waiting, registering, interest,
                 reactorVars, notified, faults, ghostVars>>

\* remove_io(), from Drop for Async or into_inner(), and the end of the Source with the
\* wakers in it.  A Ready future borrows (or co-owns) the Async, so none is left; a task
\* that used poll_ready() can no longer call it on this source.
remove_io(s) ==
  /\ src[s].st = "live"
  /\ SourcesUnlocked
  /\ registering[s] = None
  /\ \A f \in Futures : fut[f].src # s
  /\ slab' = [slab EXCEPT ![src[s].key] = None]
  /\ interest' = [interest EXCEPT ![src[s].fd] = None]
  /\ src' = [src EXCEPT ![s] = NoSource]
  /\ tick' = [x \in Sides |-> IF x[1] = s THEN 0 ELSE tick[x]]
  /\ ticks' = [x \in Sides |-> IF x[1] = s THEN None ELSE ticks[x]]
  /\ waker' = [x \in Sides |-> IF x[1] = s THEN None ELSE waker[x]]
  /\ freshDir' = [x \in Sides |-> IF x[1] = s THEN FALSE ELSE freshDir[x]]
  /\ waiting' = [t \in Tasks |-> IF \E d \in Dirs : waiting[t] = <<s, d>>
                                 THEN None ELSE waiting[t]]
  /\ UNCHANGED <<ticker, wakers, fut, registering, reactorVars, notified, faults, fresh>>

-----------------------------------------------------------------------------
(* Waiting on a source. *)

\* readable(), writable() and their owned forms: Source::ready()
NewReady(f, s, d) ==
  /\ src[s].st = "live" /\ d \in Awaitable(src[s].fd)
  /\ fut[f] = NoFuture
  /\ fut' = [fut EXCEPT ![f] = Future("new", s, d, None, None)]
  /\ UNCHANGED <<ticker, slab, src, sourceVars, waiting, registering, interest,
                 reactorVars, notified, faults, ghostVars>>

\* Ready::poll() by task t, when an event was delivered.
ReadyPollReady(f, t) ==
  LET s == fut[f].src
      d == fut[f].dir
  IN /\ fut[f].st \in {"new", "pending"}
     /\ FreeFor(t, f)
     /\ registering[s] = None
     /\ Delivered(fut[f].ticks, s, d)
     /\ fut' = [fut EXCEPT ![f] = Future("ready", s, d, fut[f].ticks, None)]
     /\ notified' = notified \ {t}
     /\ UNCHANGED <<ticker, slab, src, sourceVars, waiting, registering, interest,
                    reactorVars, faults, ghostVars>>

\* Ready::poll() by task t, no event yet: store the waker (and, the first time, the
\* ticks); whoever finds the direction empty goes on to modify().
ReadyPollPending(f, t) ==
  LET s == fut[f].src
      d == fut[f].dir
      first == ~HasIndex(f)
      remembered == IF first THEN <<ticker, tick[<<s, d>>]>> ELSE fut[f].ticks
  IN /\ fut[f].st \in {"new", "pending"}
     /\ FreeFor(t, f)
     /\ registering[s] = None
     /\ ~Delivered(fut[f].ticks, s, d)
     /\ fut' = [fut EXCEPT ![f] = Future("pending", s, d, remembered, t)]
     /\ wakers' = [wakers EXCEPT ![f] = t]
     /\ registering' = [registering EXCEPT ![s] = Registrar(s, d, f)]
     /\ fresh' = [fresh EXCEPT ![f] = ~first /\ @]
     /\ notified' = notified \ {t}
     /\ UNCHANGED <<ticker, slab, src, tick, ticks, waker, waiting, interest,
                    reactorVars, faults, freshDir>>

\* Drop for Ready: a finished future, or one whose task lost interest in it.
DropReady(f) ==
  /\ fut[f].st # "none"
  /\ HasIndex(f) => registering[fut[f].src] = None
  /\ fut' = [fut EXCEPT ![f] = NoFuture]
  /\ wakers' = [wakers EXCEPT ![f] = None]
  /\ fresh' = [fresh EXCEPT ![f] = FALSE]
  /\ UNCHANGED <<ticker, slab, src, tick, ticks, waker, waiting, registering, interest,
                 reactorVars, notified, faults, freshDir>>

\* Mutant: the ticks stay stored when they are answered.
PollReadyReady_keepsTicks(t, s, d) ==
  /\ src[s].st = "live" /\ d \in Awaitable(src[s].fd)
  /\ waiting[t] \in {None, <<s, d>>}
  /\ registering[s] = None
  /\ Delivered(ticks[<<s, d>>], s, d)
  /\ waiting' = [waiting EXCEPT ![t] = None]
  /\ freshDir' = [freshDir EXCEPT ![<<s, d>>] = FALSE]
  /\ notified' = notified \ {t}
  /\ UNCHANGED <<ticker, slab, src, sourceVars, fut, registering, interest,
                 reactorVars, faults, fresh>>

\* poll_ready() by task t, when an event was delivered.
PollReadyReady(t, s, d) ==
  /\ src[s].st = "live" /\ d \in Awaitable(src[s].fd)
  /\ waiting[t] \in {None, <<s, d>>}
  /\ registering[s] = None
  /\ Delivered(ticks[<<s, d>>], s, d)
  /\ ticks' = [ticks EXCEPT ![<<s, d>>] = None]
  /\ waiting' = [waiting EXCEPT ![t] = None]
  /\ freshDir' = [freshDir EXCEPT ![<<s, d>>] = FALSE]
  /\ notified' = notified \ {t}
  /\ UNCHANGED <<ticker, slab, src, tick, waker, wakers, fut, registering, interest,
                 reactorVars, faults, fresh>>

\* poll_ready() by task t, no event and its own waker already stored.
PollReadySame(t, s, d) ==
  /\ src[s].st = "live" /\ d \in Awaitable(src[s].fd)
  /\ waiting[t] \in {None, <<s, d>>}
  /\ registering[s] = None
  /\ ~Delivered(ticks[<<s, d>>], s, d)
  /\ waker[<<s, d>>] = t
  /\ waiting' = [waiting EXCEPT ![t] = <<s, d>>]
  /\ notified' = notified \ {t}
  /\ UNCHANGED <<ticker, slab, src, sourceVars, fut, registering, interest,
                 reactorVars, faults, ghostVars>>

\* poll_ready() by task t, no event: a different waker is woken and replaced.
PollReadyPending(t, s, d) ==
  /\ src[s].st = "live" /\ d \in Awaitable(src[s].fd)
  /\ waiting[t] \in {None, <<s, d>>}
  /\ registering[s] = None
  /\ ~Delivered(ticks[<<s, d>>], s, d)
  /\ waker[<<s, d>>] # t
  /\ waker' = [waker EXCEPT ![<<s, d>>] = t]
  /\ ticks' = [ticks EXCEPT ![<<s, d>>] = <<ticker, tick[<<s, d>>]>>]
  /\ registering' = [registering EXCEPT ![s] = Registrar(s, d, t)]
  /\ waiting' = [waiting EXCEPT ![t] = <<s, d>>]
  /\ notified' = (notified \ {t}) \cup Replaced(s, d)
  /\ freshDir' = [freshDir EXCEPT ![<<s, d>>] = FALSE]
  /\ UNCHANGED <<ticker, slab, src, tick, wakers, fut, interest, reactorVars,
                 faults, fresh>>

\* A task stops calling poll_ready(); nothing tells the source.
Abandon(t) ==
  /\ waiting[t] # None
  /\ registering[waiting[t][1]] # t
  /\ waiting' = [waiting EXCEPT ![t] = None]
  /\ UNCHANGED <<ticker, slab, src, sourceVars, fut, registering, interest,
                 reactorVars, notified, faults, ghostVars>>

\* The end of both polls: interest in every direction that has a waker.
Modify(s) ==
  /\ registering[s] # None
  /\ interest' = [interest EXCEPT ![src[s].fd] =
                    [key |-> src[s].key, dirs |-> Registered(src[s].fd, Interested(s))]]
  /\ registering' = [registering EXCEPT ![s] = None]
  /\ UNCHANGED <<ticker, slab, src, sourceVars, fut, waiting, reactorVars,
                 notified, faults, ghostVars>>

\* modify() fails: the poll returns the error and the stored waker stays behind.
ModifyFails(s) ==
  /\ registering[s] # None
  /\ faults > 0
  /\ faults' = faults - 1
  /\ registering' = [registering EXCEPT ![s] = None]
  /\ fut' = [f \in Futures |-> IF f = registering[s]
                               THEN Future("err", s, fut[f].dir, fut[f].ticks, None)
                               ELSE fut[f]]
  /\ waiting' = [t \in Tasks |-> IF t = registering[s] THEN None ELSE waiting[t]]
  /\ UNCHANGED <<ticker, slab, src, sourceVars, interest, reactorVars,
                 notified, ghostVars>>

-----------------------------------------------------------------------------
(* ReactorLock::react(), and the operating system. *)

\* The ticker is bumped and the event list cleared before polling.
BumpTicker ==
  /\ phase = "idle"
  /\ ticker' = NextTick
  /\ phase' = "wait"
  /\ events' = {}
  /\ UNCHANGED <<slab, src, sourceVars, fut, waiting, registering, interest,
                 toWake, notified, faults, ghostVars>>

OwnedBy(s, p) == src[s].st = "live" /\ src[s].fd = p

\* External: what one wait() may report.  Which descriptors are ready is up to the
\* operating system; one that is armed is reported in directions it is armed for, or
\* in both if it hung up or failed.
Reportable(emitted) ==
  /\ \E p \in Fds : emitted[p] # {}
  /\ \A p \in Fds : emitted[p] # {} =>
       /\ interest[p] # None
       /\ interest[p].dirs # {}
       /\ emitted[p] \subseteq interest[p].dirs \/ emitted[p] = Awaitable(p)

\* wait() returns events; each disarms its descriptor.
WaitEvents(emitted) ==
  LET hit == {p \in Fds : emitted[p] # {}}
  IN /\ phase = "wait"
     /\ Reportable(emitted)
     /\ events' = {[key |-> interest[p].key, dirs |-> emitted[p]] : p \in hit}
     /\ interest' = [p \in Fds |-> IF p \in hit
                                   THEN [key |-> interest[p].key, dirs |-> {}]
                                   ELSE interest[p]]
     /\ phase' = "polled"
     /\ fresh' = [f \in Futures |->
                    \/ fresh[f]
                    \/ HasIndex(f) /\ \E p \in hit :
                         OwnedBy(fut[f].src, p) /\ fut[f].dir \in emitted[p]]
     /\ freshDir' = [x \in Sides |->
                    \/ freshDir[x]
                    \/ ticks[x] # None /\ \E p \in hit :
                         OwnedBy(x[1], p) /\ x[2] \in emitted[p]]
     /\ UNCHANGED <<ticker, slab, src, sourceVars, fut, waiting, registering,
                    toWake, notified, faults>>

\* wait() returns Ok(0) or an error: no event is handled in this round.
WaitNothing ==
  /\ phase = "wait"
  /\ phase' = "waking"
  /\ UNCHANGED <<ticker, slab, src, sourceVars, fut, waiting, registering, interest,
                 events, toWake, notified, faults, ghostVars>>

LockSources ==
  /\ phase = "polled"
  /\ phase' = "dispatch"
  /\ UNCHANGED <<ticker, slab, src, sourceVars, fut, waiting, registering, interest,
                 events, toWake, notified, faults, ghostVars>>

\* The wakers, ticks and interest after an event for source s is handled.
Drain(e, s) ==
  /\ tick' = [x \in Sides |-> IF x[1] = s /\ x[2] \in e.dirs THEN ticker ELSE tick[x]]
  /\ waker' = [x \in Sides |-> IF x[1] = s /\ x[2] \in e.dirs THEN None ELSE waker[x]]
  /\ wakers' = [f \in Futures |-> IF fut[f].src = s /\ fut[f].dir \in e.dirs
                                  THEN None ELSE wakers[f]]

\* One iteration of the event loop; the source is re-registered if wakers are left.
DispatchEvent(e) ==
  LET s == slab[e.key]
      left == Interested(s) \ e.dirs
  IN /\ phase = "dispatch"
     /\ s # None
     /\ registering[s] = None
     /\ Drain(e, s)
     /\ toWake' = toWake \cup UNION {Drained(s, d) : d \in e.dirs}
     /\ interest' = Rearmed(s, left)
     /\ events' = events \ {e}
     /\ UNCHANGED <<ticker, slab, src, ticks, fut, waiting, registering, phase,
                    notified, faults, ghostVars>>

\* One iteration, no source in the table with this key.
DispatchVacant(e) ==
  /\ phase = "dispatch"
  /\ slab[e.key] = None
  /\ events' = events \ {e}
  /\ UNCHANGED <<ticker, slab, src, sourceVars, fut, waiting, registering, interest,
                 phase, toWake, notified, faults, ghostVars>>

\* modify()? fails in the event loop: react() returns at once, and the local vector of
\* wakers is dropped with it.
DispatchFails(e) ==
  LET s == slab[e.key]
  IN /\ phase = "dispatch"
     /\ s # None
     /\ registering[s] = None
     /\ Interested(s) \ e.dirs # {}
     /\ faults > 0
     /\ faults' = faults - 1
     /\ Drain(e, s)
     /\ toWake' = {}
     /\ events' = {}
     /\ phase' = "idle"
     /\ UNCHANGED <<ticker, slab, src, ticks, fut, waiting, registering, interest,
                    notified, ghostVars>>

EndDispatch ==
  /\ phase = "dispatch"
  /\ events = {}
  /\ phase' = "waking"
  /\ UNCHANGED <<ticker, slab, src, sourceVars, fut, waiting, registering, interest,
                 events, toWake, notified, faults, ghostVars>>

Wake(t) ==
  /\ phase = "waking"
  /\ t \in toWake
  /\ toWake' = toWake \ {t}
  /\ notified' = notified \cup {t}
  /\ UNCHANGED <<ticker, slab, src, sourceVars, fut, waiting, registering, interest,
                 phase, events, faults, ghostVars>>

EndReact ==
  /\ phase = "waking"
  /\ toWake = {}
  /\ phase' = "idle"
  /\ UNCHANGED <<ticker, slab, src, sourceVars, fut, waiting, registering, interest,
                 events, toWake, notified, faults, ghostVars>>

-----------------------------------------------------------------------------
Dispatch == \E e \in events : DispatchEvent(e) \/ DispatchVacant(e) \/ DispatchFails(e)

React ==
  \/ BumpTicker
  \/ \E emitted \in [Fds -> SUBSET Dirs] : WaitEvents(emitted)
  \/ WaitNothing
  \/ LockSources
  \/ Dispatch
  \/ EndDispatch
  \/ \E t \in Tasks : Wake(t)
  \/ EndReact

Handle(s) ==
  \/ \E k \in Keys, p \in Fds : InsertSource(s, k, p)
  \/ AddRegistration(s)
  \/ AddFails(s)
  \/ remove_io(s)

ReadyFuture(f) ==
  \/ \E s \in Sources, d \in Dirs : NewReady(f, s, d)
  \/ \E t \in Tasks : ReadyPollReady(f, t) \/ ReadyPollPending(f, t)
  \/ DropReady(f)

PollReady(t) ==
  \/ \E s \in Sources, d \in Dirs :
        PollReadyReady(t, s, d) \/ PollReadySame(t, s, d) \/ PollReadyPending(t, s, d)
  \/ Abandon(t)

Next ==
  \/ React
  \/ \E s \in Sources : Handle(s) \/ Modify(s) \/ ModifyFails(s)
  \/ \E f \in Futures : ReadyFuture(f)
  \/ \E t \in Pollers : PollReady(t)

Spec == Init /\ [][Next]_vars

-----------------------------------------------------------------------------
(* Properties. *)

TypeOK ==
  /\ ticker \in 0 .. TickMod - 1
  /\ slab \in [Keys -> Sources \cup {None}]
  /\ src \in [Sources -> [st : {"none", "inserted", "live"},
                          key : Keys \cup {None}, fd : Fds \cup {None}]]
  /\ tick \in [Sides -> 0 .. TickMod - 1]
  /\ ticks \in [Sides -> TickPair \cup {None}]
  /\ waker \in [Sides -> Tasks \cup {None}]
  /\ wakers \in [Futures -> Tasks \cup {None}]
  /\ fut \in [Futures -> [st : {"none", "new", "pending", "ready", "err"},
                          src : Sources \cup {None}, dir : Dirs \cup {None},
                          ticks : TickPair \cup {None}, task : Tasks \cup {None}]]
  /\ waiting \in [Tasks -> Sides \cup {None}]
  /\ registering \in [Sources -> Futures \cup Tasks \cup {None}]
  /\ interest \in [Fds -> Event \cup {None}]
  /\ phase \in {"idle", "wait", "polled", "dispatch", "waking"}
  /\ events \subseteq Event
  /\ toWake \subseteq Tasks
  /\ notified \subseteq Tasks
  /\ faults \in 0 .. Faults
  /\ fresh \in [Futures -> BOOLEAN]
  /\ freshDir \in [Sides -> BOOLEAN]

\* A descriptor is in the poller exactly while one live source owns it, and the key the
\* poller reports for it is the slab key of that source: insert_io() and remove_io()
\* keep the two tables together, also when add() fails for a duplicate descriptor (with
\* one source per filter).
PollerMatchesSlab ==
  /\ \A p \in Fds : interest[p] # None => \E s \in Sources : OwnedBy(s, p)
  /\ \A s \in Sources : src[s].st = "live" =>
       interest[src[s].fd] # None /\ interest[src[s].fd].key = src[s].key
  /\ \A s \in Sources : src[s].st # "none" => slab[src[s].key] = s
  /\ \A k \in Keys : slab[k] # None => src[slab[k]].st # "none" /\ src[slab[k]].key = k

\* An event of the list of the running react() is still to be handled for source s.
EventPending(s) == \E e \in events : e.key = src[s].key

\* The poller is armed for direction d of s, or an event of s is about to be handled
\* (which drains or re-arms d), or whoever stored a waker is about to modify().
Armed(s, d) ==
  \/ d \in interest[src[s].fd].dirs
  \/ EventPending(s)
  \/ registering[s] # None

\* As long as no modify() has failed, a waker stored in a source is never forgotten by
\* the poller, in whatever order polls, drops, registrations and event handling of the
\* two directions interleave.
WakersAreArmed ==
  faults = Faults =>
    \A s \in Sources : src[s].st = "live" => \A d \in Interested(s) : Armed(s, d)

\* A task told Pending sleeps only while its waker is stored in the source: once react()
\* takes the waker, or poll_ready() replaces it, the task is woken, also if react() returns
\* early.  ("The purpose of this thread is to wait for I/O events reported by the operating
\* system, and then wake appropriate futures blocked on I/O or timers when they can be
\* resumed.")
NoLostSleeper ==
  /\ \A f \in Futures : fut[f].st = "pending" =>
       wakers[f] = fut[f].task \/ fut[f].task \in toWake \cup notified
  /\ \A t \in Pollers : waiting[t] # None =>
       waker[waiting[t]] = t \/ t \in toWake \cup notified

\* As long as no modify() has failed, no sleeper is lost.
SleepersHaveWakers == faults = Faults => NoLostSleeper

\* A poll is answered Ready only if wait() returned an event for this very source and
\* direction after the ticks were remembered: neither an event collected earlier and
\* handled late, nor one of a removed source whose slab key was reused, is accepted.
OnlyFreshEvents ==
  /\ \A f \in Futures :
       HasIndex(f) /\ Delivered(fut[f].ticks, fut[f].src, fut[f].dir) => fresh[f]
  /\ \A s \in Sources, d \in Dirs : Delivered(ticks[<<s, d>>], s, d) => freshDir[<<s, d>>]

-----------------------------------------------------------------------------
(* Liveness.  Some thread runs react() again and again (module Driver), a thread   *)
(* in the middle of a poll goes on to modify(), react() is not starved forever of  *)
(* a state lock that is released again and again, and a descriptor that is polled  *)
(* again and again while armed for d is sooner or later reported in d: the peer    *)
(* writes, reads or hangs up.                                                      *)

Fairness ==
  /\ WF_vars(React)
  /\ SF_vars(Dispatch)
  /\ \A s \in Sources : WF_vars(Modify(s))
  /\ \A p \in Fds, d \in Dirs :
       SF_vars(\E emitted \in [Fds -> SUBSET Dirs] : d \in emitted[p] /\ WaitEvents(emitted))

FairSpec == Spec /\ Fairness

\* Whoever was told Pending is woken, whatever the other direction, other tasks and
\* registrations do in the meantime, unless it stops waiting or is answered first.
EveryWaiterIsWoken ==
  /\ \A f \in Futures :
       fut[f].st = "pending" ~> fut[f].st # "pending" \/ fut[f].task \in notified
  /\ \A t \in Pollers : waiting[t] # None ~> waiting[t] = None \/ t \in notified
=============================================================================
