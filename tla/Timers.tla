------------------------------- MODULE Timers -------------------------------
(***************************************************************************)
(* Timers: the Timer type (src/lib.rs), the bounded queue of timer         *)
(* operations and the ordered map of armed timers (src/reactor.rs), and    *)
(* the timer part of ReactorLock::react(): process_timers() before         *)
(* polling, the timeout it gives to the poll, and process_timers() after.  *)
(*                                                                         *)
(* Operations of different timers run concurrently, each timer being used  *)
(* by one thread at a time (&mut self).  An operation changes the fields   *)
(* of its Timer, which nobody else sees, in its first step and leaves in   *)
(* `todo` the calls to make: pushes to the queue and notify().  A push to  *)
(* a full queue is refused, and the operation then waits for the lock on   *)
(* `timers` and drains the queue, whatever is in it by then; draining      *)
(* takes one operation per step, so that others push meanwhile.            *)
(*                                                                         *)
(* Time is 0 .. Horizon; an Instant beyond Horizon is what checked_add()   *)
(* refuses to build.                                                       *)
(***************************************************************************)
EXTENDS Naturals, Sequences

CONSTANTS
  Timers,        \* slots for Timer objects
  Tasks,         \* the tasks that poll them, one waker each
  Horizon,       \* the last Instant
  Periods,       \* periods of interval timers
  Cap,           \* TIMER_QUEUE_SIZE
  MaxIds,        \* how many IDs of a timer may be in use at a time
  ZeroTimeouts,  \* may the caller of react() give a zero timeout: a part of BOOLEAN
  MayFail,       \* may the handling of I/O events in react() fail
  Reactor,
  None

ASSUME TimersAssumption ==
  /\ Horizon \in Nat
  /\ Cap \in Nat \ {0}
  /\ Periods \subseteq Nat
  /\ Reactor \notin Timers
  /\ MaxIds \in Nat
  /\ ZeroTimeouts \subseteq BOOLEAN
  /\ MayFail \in BOOLEAN
  /\ None \notin Timers \cup Tasks \cup {Reactor} \cup Nat
  /\ None \notin Timers \X Nat

Instants == 0 .. Horizon

VARIABLES
  now,       \* Instant::now()
  timer,     \* Timer: [st, when, period, id, task]; id and task are id_and_waker
  todo,      \* the calls the running operation of a timer has still to make
  ops,       \* Reactor::timer_ops
  map,       \* Reactor::timers
  lock,      \* the lock on it: Reactor, the timer whose operation holds it, or None
  budget,    \* what process_timer_ops() may still take
  refused,   \* the timers whose operation met a full queue and waits for the lock
  phase,     \* where react() is
  deadline,  \* when the poll times out; None if never
  notified,  \* poller: a notify() that no wait() has consumed
  toWake,    \* `wakers` of react()
  woken,     \* the wakers that were woken, until their task polls the timer again
  dropped    \* ghost: the same for the wakers a react() that failed did not wake

reactorVars == <<phase, deadline, toWake>>
queueVars == <<ops, map, lock, budget, refused>>
taskVars == <<woken, dropped>>
vars == <<now, timer, todo, ops, map, lock, budget, refused, phase, deadline, notified,
          toWake, woken, dropped>>

NoTimer == [st |-> "none", when |-> None, period |-> None, id |-> None, task |-> None]

\* TimerOp::Insert and TimerOp::Remove, and the call of notify().  The waker of an
\* entry is that of a task polling a timer.
Insert(w, i, x, t) == [op |-> "Insert", when |-> w, id |-> i, waker |-> <<x, t>>]
Remove(w, i) == [op |-> "Remove", when |-> w, id |-> i]
Notify == [op |-> "Notify"]

Entry(o) == [when |-> o.when, id |-> o.id, waker |-> o.waker]

Init ==
  /\ now = 0
  /\ timer = [x \in Timers |-> NoTimer]
  /\ todo = [x \in Timers |-> << >>]
  /\ ops = << >>
  /\ map = {}
  /\ lock = None
  /\ budget = 0
  /\ refused = {}
  /\ phase = "idle"
  /\ deadline = None
  /\ notified = FALSE
  /\ toWake = {}
  /\ woken = {}
  /\ dropped = {}

\* ID_GENERATOR gives an ID that nothing refers to; here, the first free one of those
\* set aside for timer x.
Unused(i) ==
  /\ \A x \in Timers : timer[x].id # i
  /\ \A e \in map : e.id # i
  /\ \A k \in 1 .. Len(ops) : ops[k].id # i
FreeNumbers(x) == {n \in 1 .. MaxIds : Unused(<<x, n>>)}
FreshId(x) == <<x, CHOOSE n \in FreeNumbers(x) : \A m \in FreeNumbers(x) : n <= m>>

\* The timer exists and none of its operations is running.
Usable(x) == timer[x].st = "live" /\ todo[x] = << >>

Registered(x) == timer[x].id # None

\* Task t polls timer x, and has no wake for it outstanding.
Awake(x, t) ==
  /\ woken' = woken \ {<<x, t>>}
  /\ dropped' = dropped \ {<<x, t>>}

-----------------------------------------------------------------------------
(* Timer *)

Set(x, w, p, i, t) ==
  timer' = [timer EXCEPT ![x] = [st |-> "live", when |-> w, period |-> p, id |-> i, task |-> t]]

\* never(), at(), after(), interval(), interval_at(): `when` is None for never() and for
\* an instant that overflows, period is None for Duration::MAX.
NewTimer(x, w, p) ==
  /\ timer[x].st = "none" /\ todo[x] = << >>
  /\ Set(x, w, p, None, None)
  /\ UNCHANGED <<now, todo, queueVars, reactorVars, notified, taskVars>>

\* remove_timer(), if (when, id) may be in the reactor.
Removal(x) ==
  IF timer[x].when # None /\ Registered(x) THEN <<Remove(timer[x].when, timer[x].id)>> ELSE << >>

\* insert_timer()
Insertion(w, i, x, t) == <<Insert(w, i, x, t), Notify>>

\* Mutant: the timer is set without telling the reactor to forget its old entry.
SetTimer_keepsOld(x, w, p) ==
  /\ Set(x, w, p, IF Registered(x) THEN FreshId(x) ELSE None, timer[x].task)
  /\ todo' = [todo EXCEPT ![x] =
       IF Registered(x) THEN Insertion(w, FreshId(x), x, timer[x].task) ELSE << >>]
  /\ UNCHANGED <<now, queueVars, reactorVars, notified, taskVars>>

\* clear(), the new instant, and a registration for the waker of the last one.
SetTimer(x, w, p) ==
  /\ Registered(x) => FreeNumbers(x) # {}
  /\ Set(x, w, p, IF Registered(x) THEN FreshId(x) ELSE None, timer[x].task)
  /\ todo' = [todo EXCEPT ![x] = Removal(x) \o
       IF Registered(x) THEN Insertion(w, FreshId(x), x, timer[x].task) ELSE << >>]
  /\ UNCHANGED <<now, queueVars, reactorVars, notified, taskVars>>

\* set_at(), set_after(): the period stays what it was.
set_at(x, w) == Usable(x) /\ SetTimer(x, w, timer[x].period)

\* set_interval_at(), set_interval()
set_interval_at(x, w, p) == Usable(x) /\ SetTimer(x, w, p)

\* clear(), also from set_after() and set_interval() of an instant that overflows.
clear(x) ==
  /\ Usable(x)
  /\ Set(x, None, timer[x].period, timer[x].id, timer[x].task)
  /\ todo' = [todo EXCEPT ![x] = Removal(x)]
  /\ UNCHANGED <<now, queueVars, reactorVars, notified, taskVars>>

\* Drop for Timer
DropTimer(x) ==
  /\ Usable(x)
  /\ timer' = [timer EXCEPT ![x] = NoTimer]
  /\ todo' = [todo EXCEPT ![x] = Removal(x)]
  /\ woken' = {v \in woken : v[1] # x}
  /\ dropped' = {v \in dropped : v[1] # x}
  /\ UNCHANGED <<now, queueVars, reactorVars, notified>>

\* Mutant: the next instant of an interval is computed without a check for overflow.
PollFired_unchecked(x, t) ==
  LET next == timer[x].when + timer[x].period
      again == timer[x].period # None
  IN /\ Usable(x)
     /\ timer[x].when # None /\ now >= timer[x].when
     /\ again => FreeNumbers(x) # {}
     /\ IF again THEN Set(x, next, timer[x].period, FreshId(x), t)
                 ELSE Set(x, None, timer[x].period, None, None)
     /\ todo' = [todo EXCEPT ![x] = Removal(x) \o
                   IF again THEN Insertion(next, FreshId(x), x, t) ELSE << >>]
     /\ Awake(x, t)
     /\ UNCHANGED <<now, queueVars, reactorVars, notified>>

\* poll_next(), the timer has fired: a periodic timer registers its next instant.
PollFired(x, t) ==
  LET next == timer[x].when + timer[x].period
      again == timer[x].period # None /\ next <= Horizon
  IN /\ Usable(x)
     /\ timer[x].when # None /\ now >= timer[x].when
     /\ again => FreeNumbers(x) # {}
     /\ IF again THEN Set(x, next, timer[x].period, FreshId(x), t)
                 ELSE Set(x, None, timer[x].period, None, None)
     /\ todo' = [todo EXCEPT ![x] = Removal(x) \o
                   IF again THEN Insertion(next, FreshId(x), x, t) ELSE << >>]
     /\ Awake(x, t)
     /\ UNCHANGED <<now, queueVars, reactorVars, notified>>

\* Mutant: a new waker is remembered, and the entry in the reactor keeps the old one.
PollWaits_keepsEntry(x, t) ==
  /\ Usable(x)
  /\ timer[x].when # None /\ now < timer[x].when
  /\ FreeNumbers(x) # {}
  /\ IF ~Registered(x)
     THEN /\ Set(x, timer[x].when, timer[x].period, FreshId(x), t)
          /\ todo' = [todo EXCEPT ![x] = Insertion(timer[x].when, FreshId(x), x, t)]
     ELSE /\ Set(x, timer[x].when, timer[x].period, timer[x].id, t)
          /\ todo' = todo
  /\ Awake(x, t)
  /\ UNCHANGED <<now, queueVars, reactorVars, notified>>

\* poll_next(), not fired yet: a new waker takes the place of the old one.
PollWaits(x, t) ==
  /\ Usable(x)
  /\ timer[x].when # None /\ now < timer[x].when
  /\ \/ /\ timer[x].task # t
        /\ FreeNumbers(x) # {}
        /\ Set(x, timer[x].when, timer[x].period, FreshId(x), t)
        /\ todo' = [todo EXCEPT ![x] = Removal(x) \o Insertion(timer[x].when, FreshId(x), x, t)]
     \/ timer[x].task = t /\ UNCHANGED <<timer, todo>>
  /\ Awake(x, t)
  /\ UNCHANGED <<now, queueVars, reactorVars, notified>>

\* poll_next() of a timer that never fires.
PollNever(x, t) ==
  /\ Usable(x)
  /\ timer[x].when = None
  /\ Awake(x, t)
  /\ UNCHANGED <<now, timer, todo, queueVars, reactorVars, notified>>

-----------------------------------------------------------------------------
(* insert_timer(), remove_timer() and process_timer_ops() *)

\* The calls of an operation, one by one.
Push(x) ==
  /\ todo[x] # << >> /\ Head(todo[x]) # Notify
  /\ lock # x /\ x \notin refused
  /\ Len(ops) < Cap
  /\ ops' = Append(ops, Head(todo[x]))
  /\ todo' = [todo EXCEPT ![x] = Tail(@)]
  /\ UNCHANGED <<now, timer, map, lock, budget, refused, reactorVars, notified, taskVars>>

\* Mutant: no notify() after an insertion.
CallNotify_silent(x) ==
  /\ todo[x] # << >> /\ Head(todo[x]) = Notify
  /\ notified' = notified
  /\ todo' = [todo EXCEPT ![x] = Tail(@)]
  /\ UNCHANGED <<now, timer, queueVars, reactorVars, taskVars>>

CallNotify(x) ==
  /\ todo[x] # << >> /\ Head(todo[x]) = Notify
  /\ notified' = TRUE
  /\ todo' = [todo EXCEPT ![x] = Tail(@)]
  /\ UNCHANGED <<now, timer, queueVars, reactorVars, taskVars>>

\* The queue is full: push() returns the operation.
PushRefused(x) ==
  /\ todo[x] # << >> /\ Head(todo[x]) # Notify
  /\ lock # x /\ x \notin refused
  /\ Len(ops) = Cap
  /\ refused' = refused \cup {x}
  /\ UNCHANGED <<now, timer, todo, ops, map, lock, budget, reactorVars, notified, taskVars>>

\* After that the operation locks the map, to drain what the queue then holds.
LockToDrain(x) ==
  /\ x \in refused
  /\ lock = None
  /\ lock' = x
  /\ budget' = Cap
  /\ refused' = refused \ {x}
  /\ UNCHANGED <<now, timer, todo, ops, map, reactorVars, notified, taskVars>>

\* Mutant: a removal matches the instant only up to its ID.
Applied_anyId(o) ==
  IF o.op = "Insert" THEN map \cup {Entry(o)}
                     ELSE {e \in map : e.when # o.when}

\* What one operation makes of the map.
Applied(o) ==
  IF o.op = "Insert" THEN map \cup {Entry(o)}
                     ELSE {e \in map : e.when # o.when \/ e.id # o.id}

\* One operation is taken from the queue and applied, by whoever holds the lock.
Drain ==
  /\ lock # None /\ budget > 0 /\ ops # << >>
  /\ map' = Applied(Head(ops))
  /\ ops' = Tail(ops)
  /\ budget' = budget - 1
  /\ UNCHANGED <<now, timer, todo, lock, refused, reactorVars, notified, taskVars>>

DrainDone == lock # None /\ (budget = 0 \/ ops = << >>)

\* The operation found the queue full, drained it, and tries its push again.
UnlockAfterDrain(x) ==
  /\ lock = x
  /\ DrainDone
  /\ lock' = None
  /\ budget' = 0
  /\ UNCHANGED <<now, timer, todo, ops, map, refused, reactorVars, notified, taskVars>>

-----------------------------------------------------------------------------
(* react() *)

\* process_timers() before the poll ("before"), or after it ("after").
LockTimers ==
  /\ lock = None
  /\ \/ phase = "idle" /\ phase' = "before"
     \/ phase = "timedout" /\ phase' = "after"
  /\ lock' = Reactor
  /\ budget' = Cap
  /\ UNCHANGED <<now, timer, todo, ops, map, refused, deadline, notified, toWake, taskVars>>

\* The first instant among these entries, None if there is none.
FirstInstant(entries) ==
  IF entries = {} THEN None
  ELSE CHOOSE w \in {e.when : e \in entries} : \A e \in entries : w <= e.when

\* Mutant: the timeout is that of a timer that is due.
Timeout_due(due, zero) ==
  IF zero THEN phase' = "wait0" /\ deadline' = None
          ELSE phase' = "wait" /\ deadline' = FirstInstant(due)

\* The timeout of wait(): zero if the caller says so or timers are about to fire, else
\* until the next timer (the caller gives no other).
Timeout(due, zero) ==
  IF zero \/ due # {} THEN phase' = "wait0" /\ deadline' = None
                      ELSE phase' = "wait" /\ deadline' = FirstInstant(map)

\* Timers that are due, now included, leave the map.
ProcessTimers ==
  LET due == {e \in map : e.when <= now}
  IN /\ lock = Reactor /\ DrainDone
     /\ map' = map \ due
     /\ toWake' = toWake \cup {e.waker : e \in due}
     /\ \/ phase = "before" /\ \E zero \in ZeroTimeouts : Timeout(due, zero)
        \/ phase = "after" /\ phase' = "waking" /\ deadline' = None
     /\ lock' = None /\ budget' = 0
     /\ UNCHANGED <<now, timer, todo, ops, refused, notified, taskVars>>

\* wait() returns Ok(0): at once if the timeout is zero, else notified or timed out,
\* and only then the timers are processed again.
WaitZero ==
  /\ \/ phase = "wait0" /\ phase' = "waking"
     \/ /\ phase = "wait" /\ phase' = "timedout"
        /\ notified \/ (deadline # None /\ deadline <= now)
  /\ notified' = FALSE
  /\ UNCHANGED <<now, timer, todo, queueVars, deadline, toWake, taskVars>>

\* wait() returns I/O events, or an error: the timers wait for the next react().
WaitOther ==
  /\ phase \in {"wait", "wait0"}
  /\ notified' \in {notified, FALSE}
  /\ phase' = "waking"
  /\ deadline' = None
  /\ UNCHANGED <<now, timer, todo, queueVars, toWake, taskVars>>

\* wait() returns I/O events, and modify()? fails while they are handled: react()
\* returns at once, and the wakers of the timers it collected are dropped.
DispatchFails ==
  /\ MayFail
  /\ phase \in {"wait", "wait0"}
  /\ notified' \in {notified, FALSE}
  /\ phase' = "idle"
  /\ deadline' = None
  /\ toWake' = {}
  /\ dropped' = dropped \cup toWake
  /\ UNCHANGED <<now, timer, todo, queueVars, woken>>

\* The collected wakers are woken, and react() returns.
WakeAll ==
  /\ phase = "waking"
  /\ woken' = woken \cup toWake
  /\ toWake' = {}
  /\ phase' = "idle"
  /\ UNCHANGED <<now, timer, todo, queueVars, deadline, notified, dropped>>

Tick ==
  /\ now < Horizon
  /\ now' = now + 1
  /\ UNCHANGED <<timer, todo, queueVars, reactorVars, notified, taskVars>>

-----------------------------------------------------------------------------
Polls(x, t) == PollFired(x, t) \/ PollWaits(x, t) \/ PollNever(x, t)

Create(x) ==
  \/ NewTimer(x, None, None)
  \/ \E w \in Instants, p \in Periods \cup {None} : NewTimer(x, w, p)

Sets(x) ==
  \/ Create(x)
  \/ \E w \in Instants : set_at(x, w)
  \/ \E w \in Instants, p \in Periods : set_interval_at(x, w, p)
  \/ clear(x)
  \/ DropTimer(x)

\* The rest of an operation that has begun.
Finish(x) ==
  \/ Push(x)
  \/ PushRefused(x)
  \/ CallNotify(x)
  \/ LockToDrain(x)
  \/ lock = x /\ Drain
  \/ UnlockAfterDrain(x)

React ==
  \/ LockTimers
  \/ lock = Reactor /\ Drain
  \/ ProcessTimers
  \/ WaitZero
  \/ WakeAll

Next ==
  \/ \E x \in Timers : Sets(x) \/ Finish(x) \/ \E t \in Tasks : Polls(x, t)
  \/ React
  \/ WaitOther
  \/ DispatchFails
  \/ Tick

Spec == Init /\ [][Next]_vars

\* Operations that have begun go on, also when they wait for a lock that is released
\* again and again; the reactor is run (module Driver); time passes.
Fairness ==
  /\ \A x \in Timers : SF_vars(Finish(x))
  /\ WF_vars(React)
  /\ WF_vars(Tick)

FairSpec == Spec /\ Fairness

-----------------------------------------------------------------------------
(* Properties. *)

Wakers == Timers \X Tasks
Ids == Timers \X (1 .. MaxIds)
Queued == [op : {"Insert"}, when : Instants, id : Ids, waker : Wakers]
            \cup [op : {"Remove"}, when : Instants, id : Ids]

TypeOK ==
  /\ now \in Instants
  /\ timer \in [Timers -> [st : {"none", "live"}, when : Instants \cup {None},
                           period : Periods \cup {None}, id : Ids \cup {None},
                           task : Tasks \cup {None}]]
  /\ \A x \in Timers : Len(todo[x]) <= 3
       /\ \A k \in 1 .. Len(todo[x]) : todo[x][k] \in Queued \cup {Notify}
  /\ Len(ops) <= Cap /\ \A k \in 1 .. Len(ops) : ops[k] \in Queued
  /\ map \subseteq [when : Instants, id : Ids, waker : Wakers]
  /\ lock \in Timers \cup {Reactor, None}
  /\ budget \in 0 .. Cap
  /\ refused \subseteq Timers
  /\ phase \in {"idle", "before", "wait", "wait0", "timedout", "after", "waking"}
  /\ deadline \in Instants \cup {None}
  /\ notified \in BOOLEAN
  /\ toWake \subseteq Wakers /\ woken \subseteq Wakers /\ dropped \subseteq Wakers

\* The entry of a timer.
EntryOf(x) == [when |-> timer[x].when, id |-> timer[x].id, waker |-> <<x, timer[x].task>>]

\* The entries that are in the map once the queue is drained.
Inserted(e, k) == ops[k].op = "Insert" /\ Entry(ops[k]) = e
Removed(e, k) == ops[k].op = "Remove" /\ ops[k].when = e.when /\ ops[k].id = e.id
Pending(e) ==
  \/ e \in map /\ \A k \in 1 .. Len(ops) : ~Removed(e, k)
  \/ \E k \in 1 .. Len(ops) :
       Inserted(e, k) /\ \A m \in (k + 1) .. Len(ops) : ~Removed(e, m)
PendingEntries ==
  {e \in map \cup {Entry(ops[k]) : k \in {j \in 1 .. Len(ops) : ops[j].op = "Insert"}} : Pending(e)}

\* A timer that is set and registered is in effect, whatever became of its earlier
\* entries in the queue: it will be in the map when the queue is drained, or its waker
\* is being woken or was, and its task has not polled the timer since.  Only a react()
\* that fails loses it.
SetTimersPending ==
  \A x \in Timers : Usable(x) /\ timer[x].when # None /\ Registered(x) =>
    \/ Pending(EntryOf(x))
    \/ now >= timer[x].when /\ <<x, timer[x].task>> \in toWake \cup woken \cup dropped

\* Nothing is left behind: an entry that is in effect belongs to a timer that is set to
\* fire just then, or whose running operation is about to remove it.
NoOrphanEntries ==
  \A e \in PendingEntries :
    LET x == e.waker[1]
    IN \/ timer[x].st = "live" /\ EntryOf(x) = e
       \/ \E k \in 1 .. Len(todo[x]) : todo[x][k] = Remove(e.when, e.id)

\* While the reactor is in wait(), it will time out no later than the first timer that
\* is in effect, or it is being interrupted: a notify() is pending, or the operation
\* that inserted the timer has its notify() still to make.
ReactorWakesInTime ==
  phase = "wait" /\ ~notified =>
    \A e \in PendingEntries :
      \/ deadline # None /\ deadline <= e.when
      \/ \E k \in 1 .. Len(todo[e.waker[1]]) : todo[e.waker[1]][k] = Notify

\* A registered timer is woken at its time, unless it is polled, set again or dropped
\* before: neither a full queue nor a poll that began without the timer holds it up
\* (only a react() that fails drops its waker).
TimersFire ==
  \A x \in Timers, i \in Ids :
    timer[x].when # None /\ timer[x].id = i ~>
      timer[x].id # i \/ timer[x].when = None \/ <<x, timer[x].task>> \in woken \cup dropped
=============================================================================
