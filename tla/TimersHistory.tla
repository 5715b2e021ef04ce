--------------------------- MODULE TimersHistory ---------------------------
(***************************************************************************)
(* Timers with two history variables, for what the documentation of Timer  *)
(* says about past calls.                                                  *)
(***************************************************************************)
EXTENDS Timers

VARIABLES
  sleeper,  \* the task that was last told Pending by a timer, or None
  shot      \* what the last call that set a timer asked for ("once" or "many"), and
            \* "spent" when the event asked for once was emitted

Told(x, t) == sleeper' = [sleeper EXCEPT ![x] = t]
Asked(x, what) == shot' = [shot EXCEPT ![x] = what]

HInit ==
  /\ Init
  /\ sleeper = [x \in Timers |-> None]
  /\ shot = [x \in Timers |-> "many"]

HTimer(x) ==
  \/ Create(x) /\ Asked(x, IF timer'[x].period = None THEN "once" ELSE "many") /\ Told(x, None)
  \/ \E w \in Instants : set_at(x, w) /\ Asked(x, "once") /\ UNCHANGED sleeper
  \/ \E w \in Instants, p \in Periods :
        set_interval_at(x, w, p) /\ Asked(x, "many") /\ UNCHANGED sleeper
  \/ clear(x) /\ Asked(x, "many") /\ UNCHANGED sleeper
  \/ DropTimer(x) /\ Asked(x, "many") /\ Told(x, None)
  \/ \E t \in Tasks :
        \/ /\ PollFired(x, t)
           /\ Told(x, None)
           /\ Asked(x, IF shot[x] = "many" THEN "many" ELSE "spent")
        \/ (PollWaits(x, t) \/ PollNever(x, t)) /\ Told(x, t) /\ UNCHANGED shot
  \/ Finish(x) /\ UNCHANGED <<sleeper, shot>>

HNext ==
  \/ \E x \in Timers : HTimer(x)
  \/ (React \/ WaitOther \/ DispatchFails \/ Tick) /\ UNCHANGED <<sleeper, shot>>

HSpec == HInit /\ [][HNext]_<<vars, sleeper, shot>>

\* "Sets the timer to emit an event once at the given time instant": after the event
\* that follows set_at(), set_after(), at() or after(), the timer is not set any more.
OnceIsOnce == \A x \in Timers : shot[x] = "spent" => timer[x].when = None

\* A Timer keeps its "ID and last waker that polled it": the task last told Pending by a
\* timer that is set to fire is the one that will be woken.
LastPollerIsWoken ==
  \A x \in Timers : Usable(x) /\ timer[x].when # None /\ sleeper[x] # None =>
    \/ \E e \in PendingEntries : e.waker = <<x, sleeper[x]>> /\ e.when = timer[x].when
    \/ <<x, sleeper[x]>> \in toWake \cup woken
=============================================================================
