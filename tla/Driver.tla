------------------------------- MODULE Driver -------------------------------
(***************************************************************************)
(* Who drives the reactor (src/driver.rs): the threads inside block_on(),  *)
(* the fallback thread "async-io", and the wakers of block_on(), which     *)
(* decide whether a wake has to interrupt a poll of the operating system.  *)
(*                                                                         *)
(* One action per shared access: a parker's token, `io_blocked`, the lock  *)
(* on the events, BLOCK_ON_COUNT and poller.wait() are each read or        *)
(* written in a step of their own (poller.notify() in that of the          *)
(* `io_blocked` it depends on: a later one only interrupts a poll that has *)
(* no need of it).  react() is reduced to what a driver sees of it: the    *)
(* ticker moves, wait() blocks until an event or a notify(), the wakers of *)
(* the events are woken (modules IoSource and Timers have the rest).       *)
(*                                                                         *)
(* A future of a block_on() call waits for an I/O event, or for a signal   *)
(* another thread gives before it wakes the future.  A client outside      *)
(* block_on() is a task of some executor that waits for I/O.  A recursive  *)
(* block_on() is a thread of its own that runs while its host is polling   *)
(* its future, and the host's code waits for it.                           *)
(***************************************************************************)
EXTENDS Naturals, FiniteSets

CONSTANTS
  Threads,     \* threads that call block_on(), and recursive calls in them
  Nested,      \* the recursive calls
  Host,        \* the thread they are made on
  Signallers,  \* threads outside the reactor that wake futures
  Outside,     \* tasks of other executors
  Unruly,      \* the threads whose futures may wake themselves, or panic
  IoThreads,     \* the threads whose futures may wait for I/O
  SignalThreads, \* the threads whose futures may wait for a signal
  Main,        \* the thread "async-io"
  SleepLimit,  \* naps before main_loop() blocks on the lock (10 in the code)
  None

ASSUME DriverAssumption ==
  /\ SleepLimit \in Nat
  /\ IoThreads \cup SignalThreads = Threads
  /\ Unruly \subseteq Threads
  /\ Nested \subseteq Threads \ {Host}
  /\ IsFiniteSet(Threads)
  /\ Main \notin Threads \cup Signallers \cup Outside
  /\ Threads \cap Signallers = {} /\ Threads \cap Outside = {}
  /\ None \notin Threads \cup Signallers \cup Outside \cup {Main}

Kinds(t) == {k \in {"io", "signal"} : t \in IF k = "io" THEN IoThreads ELSE SignalThreads}

Drivers == Threads \cup {Main}
Clients == Threads \cup Outside

VARIABLES
  pc,         \* where a driver is
  lock,       \* Reactor::events: the driver that holds it, or None
  count,      \* BLOCK_ON_COUNT
  token,      \* the drivers whose Parker holds a notification
  ioBlocked,  \* the threads with io_blocked set
  ioPolling,  \* the threads with IO_POLLING set
  ticked,     \* main_loop(): the ticker differs from last_tick
  sleeps,     \* main_loop(): naps since react(), counted up to SleepLimit
  notified,   \* poller: a notify() that no wait() has consumed
  kind,       \* what the future of a thread waits for
  yielded,    \* the threads whose future woke itself in this call
  happened,   \* the clients whose awaited event or signal was delivered
  armed,      \* the clients whose waker waits in the reactor
  ready,      \* the clients whose event the operating system has
  toWake,     \* `wakers` of the running react()
  waking,     \* who is inside BlockOnWaker::wake(), past unpark(), and for whom
  signalled   \* the thread a signaller gave its signal to and is about to wake

envVars == <<kind, yielded, happened, armed, ready, signalled>>
mainVars == <<ticked, sleeps>>
flagVars == <<ioBlocked, ioPolling>>
vars == <<pc, lock, count, token, ioBlocked, ioPolling, ticked, sleeps, notified, kind,
          yielded, happened, armed, ready, toWake, waking, signalled>>

Init ==
  /\ pc = [r \in Drivers |-> IF r = Main THEN "top" ELSE "out"]
  /\ lock = None
  /\ count = 0
  /\ token = {}
  /\ ioBlocked = {}
  /\ ioPolling = {}
  /\ ticked = FALSE
  /\ sleeps = 0
  /\ notified = FALSE
  /\ kind = [t \in Threads |-> "none"]
  /\ yielded = {}
  /\ happened = {}
  /\ armed = {}
  /\ ready = {}
  /\ toWake = {}
  /\ waking = [r \in Drivers \cup Signallers |-> None]
  /\ signalled = [w \in Signallers |-> None]

\* The thread is in a recursive call: its own code does not go on.
Inside(t) == t = Host /\ \E n \in Nested : pc[n] # "out"

Goto(r, from, to) ==
  /\ pc[r] = from
  /\ pc' = [pc EXCEPT ![r] = to]

-----------------------------------------------------------------------------
(* The operating system, tasks outside block_on(), and other threads. *)

IoEvent(c) ==
  /\ c \in armed \ ready
  /\ ready' = ready \cup {c}
  /\ UNCHANGED <<pc, lock, count, token, flagVars, mainVars, notified, kind, yielded,
                 happened, armed, toWake, waking, signalled>>

OutsideWaits(c) ==
  /\ c \notin armed
  /\ armed' = armed \cup {c}
  /\ happened' = happened \ {c}
  /\ UNCHANGED <<pc, lock, count, token, flagVars, mainVars, notified, kind, yielded,
                 ready, toWake, waking, signalled>>

\* A signaller makes the future of thread t ready; it wakes it next.
Signal(w, t) ==
  /\ signalled[w] = None /\ waking[w] = None
  /\ kind[t] = "signal" /\ t \notin happened
  /\ happened' = happened \cup {t}
  /\ signalled' = [signalled EXCEPT ![w] = t]
  /\ UNCHANGED <<pc, lock, count, token, flagVars, mainVars, notified, kind, yielded,
                 armed, ready, toWake, waking>>

-----------------------------------------------------------------------------
(* BlockOnWaker::wake_by_ref() *)

\* Mutant: a recursive call takes the parker of its host.
Parker_cached(t) == IF t \in Nested THEN Host ELSE t

\* The parker of a call: that of its thread, or a fresh one of a recursive call.
Parker(t) == t

\* The first half, run by r: unpark() says whether the token is new.
Unpark(r, t) ==
  /\ token' = token \cup {Parker(t)}
  /\ waking' = [waking EXCEPT ![r] = IF Parker(t) \in token THEN None ELSE t]

SignallerWakes(w) ==
  /\ signalled[w] # None
  /\ Unpark(w, signalled[w])
  /\ signalled' = [signalled EXCEPT ![w] = None]
  /\ UNCHANGED <<pc, lock, count, flagVars, mainVars, notified, kind, yielded, happened,
                 armed, ready, toWake>>

\* Mutant: a wake never interrupts the poll.
WakeCheck_silent(r) ==
  /\ waking[r] # None
  /\ notified' = notified
  /\ waking' = [waking EXCEPT ![r] = None]
  /\ UNCHANGED <<pc, lock, count, token, flagVars, mainVars, envVars, toWake>>

\* The second half: "waking from another thread and currently blocked on I/O".
WakeCheck(r) ==
  /\ waking[r] # None
  /\ notified' = (notified \/ (r \notin ioPolling /\ waking[r] \in ioBlocked))
  /\ waking' = [waking EXCEPT ![r] = None]
  /\ UNCHANGED <<pc, lock, count, token, flagVars, mainVars, envVars, toWake>>

-----------------------------------------------------------------------------
(* react(), run by the driver that holds the lock: with no timeout at the labels bump, *)
(* wait and wake, with a zero timeout at bump0, wait0 and wake0.                       *)

Bump(r) ==
  /\ \/ Goto(r, "bump", "wait")
     \/ Goto(r, "bump0", "wait0")
  /\ ticked' = TRUE
  /\ UNCHANGED <<lock, count, token, flagVars, sleeps, notified, envVars, toWake, waking>>

\* wait() returns: at once if the timeout is zero, else for an event or a notify().
Wait(r) ==
  LET hit == armed \cap ready
  IN /\ \/ Goto(r, "wait", "wake") /\ (notified \/ hit # {})
        \/ Goto(r, "wait0", "wake0")
     /\ notified' = FALSE
     /\ toWake' = hit
     /\ armed' = armed \ hit
     /\ ready' = ready \ hit
     /\ happened' = happened \cup hit
     /\ UNCHANGED <<lock, count, token, flagVars, mainVars, kind, yielded, waking, signalled>>

\* wait() returns without an event: for a timer, or interrupted by a signal.
WaitNothing(r) ==
  /\ Goto(r, "wait", "wake")
  /\ ~notified /\ armed \cap ready = {}
  /\ UNCHANGED <<lock, count, token, flagVars, mainVars, notified, envVars, toWake, waking>>

WakeClient(r, c) ==
  /\ pc[r] \in {"wake", "wake0"}
  /\ waking[r] = None
  /\ c \in toWake
  /\ toWake' = toWake \ {c}
  /\ IF c \in Threads THEN Unpark(r, c) ELSE UNCHANGED <<token, waking>>
  /\ UNCHANGED <<pc, lock, count, flagVars, mainVars, notified, envVars>>

WokeAll(r) == toWake = {} /\ waking[r] = None

-----------------------------------------------------------------------------
(* block_on() *)

\* A thread calls block_on(); a recursive call is made by its host's future, before or
\* after it left its own waker somewhere.
MayCall(t) ==
  IF t \in Nested
  THEN pc[Host] \in {"poll", "check"} /\ waking[Host] = None /\ ~Inside(Host)
  ELSE TRUE

\* The parker and waker that a recursive call makes: who still wakes one that an earlier
\* call made does not reach it.
Fresh(t) ==
  /\ token' = token \ {t}
  /\ toWake' = toWake \ {t}
  /\ waking' = [r \in DOMAIN waking |-> IF waking[r] = t THEN None ELSE waking[r]]
  /\ signalled' = [w \in Signallers |-> IF signalled[w] = t THEN None ELSE signalled[w]]

\* Mutant: the call is not counted.
Counted_not == count

\* BLOCK_ON_COUNT when a call begins.
Counted == count + 1

\* A call is counted, and takes the cached parker as the last call left it.
Call(t) ==
  /\ Goto(t, "out", "poll")
  /\ MayCall(t)
  /\ count' = Counted
  /\ \E k \in Kinds(t) : kind' = [kind EXCEPT ![t] = k]
  /\ IF t \in Nested THEN Fresh(t) ELSE UNCHANGED <<token, toWake, waking, signalled>>
  /\ UNCHANGED <<lock, flagVars, mainVars, notified, yielded, happened, armed, ready>>

\* The future panics: block_on() unwinds, and the parker is left as it is.
Panic(t) ==
  /\ Goto(t, "poll", "leave")
  /\ waking[t] = None
  /\ armed' = armed \ {t}
  /\ ready' = ready \ {t}
  /\ UNCHANGED <<lock, count, token, flagVars, mainVars, notified, kind, yielded, happened,
                 toWake, waking, signalled>>

\* The future is polled.  It is ready once what it waits for has happened; else it
\* leaves its waker with the reactor or with a signaller.
PollFuture(t) ==
  /\ \/ Goto(t, "poll", "reset") /\ t \in happened /\ armed' = armed
     \/ /\ Goto(t, "poll", "check") /\ t \notin happened
        /\ armed' = IF kind[t] = "io" THEN armed \cup {t} ELSE armed
  /\ UNCHANGED <<lock, count, token, flagVars, mainVars, notified, kind, yielded, happened,
                 ready, toWake, waking, signalled>>

\* The future wakes itself while it is polled, once in a call.
SelfWake(t) ==
  /\ pc[t] = "poll" /\ t \notin yielded /\ waking[t] = None
  /\ yielded' = yielded \cup {t}
  /\ Unpark(t, t)
  /\ UNCHANGED <<pc, lock, count, flagVars, mainVars, notified, kind, happened, armed,
                 ready, toWake, signalled>>

\* park_timeout(0) that finds a notification, or none.
TakeToken(t, from, found, none) ==
  /\ IF Parker(t) \in token THEN Goto(t, from, found) ELSE Goto(t, from, none)
  /\ token' = token \ {Parker(t)}

\* The token is cleared for the next call.
Reset(t) ==
  /\ waking[t] = None
  /\ TakeToken(t, "reset", "leave", "leave")
  /\ UNCHANGED <<lock, count, flagVars, mainVars, notified, envVars, toWake, waking>>

\* The future is gone, and the guard of block_on() runs in two steps: the count, then
\* unparking "async-io".
Leave(t) ==
  /\ Goto(t, "leave", "leaving")
  /\ count' = count - 1
  /\ kind' = [kind EXCEPT ![t] = "none"]
  /\ happened' = happened \ {t}
  /\ yielded' = yielded \ {t}
  /\ UNCHANGED <<lock, token, flagVars, mainVars, notified, armed, ready, toWake, waking,
                 signalled>>

UnparkMain(t) ==
  /\ \/ Goto(t, "leaving", "out")
     \/ Goto(t, "hogged", "parked")
  /\ token' = token \cup {Main}
  /\ UNCHANGED <<lock, count, flagVars, mainVars, notified, envVars, toWake, waking>>

\* Mutant: after a notification the thread goes on to wait instead of polling again.
Check_noContinue(t) ==
  /\ waking[t] = None
  /\ TakeToken(t, "check", "lock", "lock")
  /\ UNCHANGED <<lock, count, flagVars, mainVars, notified, envVars, toWake, waking>>

Check(t) ==
  /\ waking[t] = None
  /\ TakeToken(t, "check", "trylock0", "lock")
  /\ UNCHANGED <<lock, count, flagVars, mainVars, notified, envVars, toWake, waking>>

\* Notified: process available I/O if the lock is free, and poll the future again.
TryLock0(t) ==
  /\ \/ /\ Goto(t, "trylock0", "bump0") /\ lock = None
        /\ lock' = t /\ ioPolling' = ioPolling \cup {t}
     \/ /\ Goto(t, "trylock0", "poll") /\ lock # None
        /\ UNCHANGED <<lock, ioPolling>>
  /\ UNCHANGED <<count, token, ioBlocked, mainVars, notified, envVars, toWake, waking>>

\* End of react(Some(0)): the guard, then the lock.
EndReact0(t) ==
  /\ WokeAll(t)
  /\ Goto(t, "wake0", "poll")
  /\ ioPolling' = ioPolling \ {t}
  /\ lock' = None
  /\ UNCHANGED <<count, token, ioBlocked, mainVars, notified, envVars, toWake, waking>>

\* Not notified: wait on I/O if the lock is free, else park.
TryLock(t) ==
  /\ \/ Goto(t, "lock", "block") /\ lock = None /\ lock' = t
     \/ Goto(t, "lock", "park") /\ lock # None /\ lock' = lock
  /\ UNCHANGED <<count, token, flagVars, mainVars, notified, envVars, toWake, waking>>

\* "First let wakers know this parker is blocked on I/O."
Block(t) ==
  /\ Goto(t, "block", "blocked")
  /\ ioPolling' = ioPolling \cup {t}
  /\ ioBlocked' = ioBlocked \cup {t}
  /\ UNCHANGED <<lock, count, token, mainVars, notified, envVars, toWake, waking>>

\* Mutant: no look at the parker between io_blocked and react().
CheckBlocked_skip(t) ==
  /\ Goto(t, "blocked", "bump")
  /\ UNCHANGED <<lock, count, token, flagVars, mainVars, notified, envVars, toWake, waking>>

\* "Check if a notification has been received before io_blocked was updated."
CheckBlocked(t) ==
  /\ TakeToken(t, "blocked", "unlock", "bump")
  /\ UNCHANGED <<lock, count, flagVars, mainVars, notified, envVars, toWake, waking>>

\* After react(None): notified, or held the lock for long, or another round.
CheckReacted(t) ==
  /\ WokeAll(t)
  /\ \/ TakeToken(t, "wake", "unlock", "hog")
     \/ TakeToken(t, "wake", "unlock", "again")
  /\ UNCHANGED <<lock, count, flagVars, mainVars, notified, envVars, toWake, waking>>

\* The guard of an iteration, and, when the loop is left, the lock.
Unblock(t) ==
  /\ \/ Goto(t, "again", "block") /\ lock' = lock
     \/ Goto(t, "unlock", "poll") /\ lock' = None
  /\ ioPolling' = ioPolling \ {t}
  /\ ioBlocked' = ioBlocked \ {t}
  /\ UNCHANGED <<count, token, mainVars, notified, envVars, toWake, waking>>

\* "Stops hogging the reactor": drops the lock; then unparks "async-io" and parks.
Hog(t) ==
  /\ Goto(t, "hog", "hogged")
  /\ lock' = None
  /\ UNCHANGED <<count, token, flagVars, mainVars, notified, envVars, toWake, waking>>

\* Mutant: io_blocked is not reset on the way out of the loop.
Park_keepsFlag(t) ==
  /\ Parker(t) \in token
  /\ \E l \in {"park", "parked"} : Goto(t, l, "poll")
  /\ token' = token \ {Parker(t)}
  /\ UNCHANGED <<lock, count, flagVars, mainVars, notified, envVars, toWake, waking>>

\* park() returns; leaving the loop drops the guard of the iteration.
Park(t) ==
  /\ Parker(t) \in token
  /\ \/ Goto(t, "park", "poll") /\ UNCHANGED flagVars
     \/ /\ Goto(t, "parked", "poll")
        /\ ioPolling' = ioPolling \ {t}
        /\ ioBlocked' = ioBlocked \ {t}
  /\ token' = token \ {Parker(t)}
  /\ UNCHANGED <<lock, count, mainVars, notified, envVars, toWake, waking>>

-----------------------------------------------------------------------------
(* main_loop() *)

\* Mutant: the thread leaves the reactor alone whenever block_on() runs somewhere.
MainTop_yields ==
  /\ \/ /\ ~ticked /\ count = 0
        /\ Goto(Main, "top", "trylock")
     \/ /\ ticked \/ count > 0
        /\ Goto(Main, "top", "nap")
  /\ ticked' = FALSE
  /\ UNCHANGED <<lock, count, token, flagVars, sleeps, notified, envVars, toWake, waking>>

\* New ticks: nothing to do.  None: take the lock, waiting for it after SleepLimit naps.
MainTop ==
  /\ \/ ~ticked /\ Goto(Main, "top", IF sleeps >= SleepLimit THEN "lock" ELSE "trylock")
     \/ ticked /\ Goto(Main, "top", "nap")
  /\ ticked' = FALSE
  /\ UNCHANGED <<lock, count, token, flagVars, sleeps, notified, envVars, toWake, waking>>

MainLock ==
  /\ \/ lock = None /\ lock' = Main /\ \E l \in {"lock", "trylock"} : Goto(Main, l, "bump")
     \/ lock # None /\ lock' = lock /\ Goto(Main, "trylock", "nap")
  /\ UNCHANGED <<count, token, flagVars, mainVars, notified, envVars, toWake, waking>>

MainReacted ==
  /\ WokeAll(Main)
  /\ Goto(Main, "wake", "nap")
  /\ ticked' = FALSE
  /\ sleeps' = 0
  /\ lock' = None
  /\ UNCHANGED <<count, token, flagVars, notified, envVars, toWake, waking>>

\* BLOCK_ON_COUNT decides whether the thread naps.
MainNap ==
  /\ \/ count > 0 /\ Goto(Main, "nap", "napping")
     \/ count = 0 /\ Goto(Main, "nap", "top")
  /\ UNCHANGED <<lock, count, token, flagVars, mainVars, notified, envVars, toWake, waking>>

\* The nap ends by a notification, or by its timeout.
MainNapEnds ==
  /\ Goto(Main, "napping", "top")
  /\ \/ Main \in token /\ ticked' = FALSE /\ sleeps' = 0
     \/ /\ Main \notin token
        /\ ticked' = ticked
        /\ sleeps' = IF sleeps < SleepLimit THEN sleeps + 1 ELSE sleeps
  /\ token' = token \ {Main}
  /\ UNCHANGED <<lock, count, flagVars, notified, envVars, toWake, waking>>

-----------------------------------------------------------------------------
React(r) ==
  \/ Bump(r)
  \/ Wait(r)
  \/ \E c \in Clients : WakeClient(r, c)
  \/ WakeCheck(r)

BlockOn(t) ==
  /\ ~Inside(t)
  /\ \/ PollFuture(t) \/ Reset(t) \/ Leave(t) \/ UnparkMain(t)
     \/ Check(t) \/ TryLock0(t) \/ EndReact0(t)
     \/ TryLock(t) \/ Block(t) \/ CheckBlocked(t) \/ CheckReacted(t) \/ Unblock(t)
     \/ Hog(t) \/ Park(t)

MainLoop == MainTop \/ MainLock \/ MainReacted \/ MainNap \/ MainNapEnds

Environment ==
  \/ \E c \in Clients : IoEvent(c)
  \/ \E c \in Outside : OutsideWaits(c)
  \/ \E w \in Signallers, t \in Threads : Signal(w, t)
  \/ \E t \in Threads : Call(t)
  \/ \E t \in Unruly : ~Inside(t) /\ (SelfWake(t) \/ Panic(t))
  \/ \E r \in Drivers : WaitNothing(r)

Next ==
  \/ Environment
  \/ \E w \in Signallers : SignallerWakes(w) \/ WakeCheck(w)
  \/ \E r \in Drivers : React(r)
  \/ \E t \in Threads : BlockOn(t)
  \/ MainLoop

\* Every thread runs its own code; nobody has to call block_on(), to signal, to make
\* I/O happen or to interrupt a system call.
Fairness ==
  /\ \A w \in Signallers : WF_vars(SignallerWakes(w) \/ WakeCheck(w))
  /\ \A t \in Threads : WF_vars(React(t) \/ BlockOn(t))
  /\ WF_vars(React(Main) \/ MainLoop)

Spec == Init /\ [][Next]_vars
FairSpec == Spec /\ Fairness

-----------------------------------------------------------------------------
(* Properties. *)

Labels == {"out", "poll", "reset", "leave", "leaving", "check", "trylock0", "bump0", "wait0",
           "wake0", "lock", "park", "block", "blocked", "bump", "wait", "wake", "unlock",
           "hog", "hogged", "parked", "again", "top", "trylock", "nap", "napping"}

TypeOK ==
  /\ pc \in [Drivers -> Labels]
  /\ lock \in Drivers \cup {None}
  /\ count \in 0 .. Cardinality(Threads)
  /\ token \subseteq Drivers
  /\ ioBlocked \subseteq Threads
  /\ ioPolling \subseteq Threads
  /\ ticked \in BOOLEAN
  /\ sleeps \in 0 .. SleepLimit
  /\ notified \in BOOLEAN
  /\ kind \in [Threads -> {"none", "io", "signal"}]
  /\ yielded \subseteq Threads
  /\ happened \subseteq Clients
  /\ armed \subseteq Clients
  /\ ready \subseteq Clients
  /\ toWake \subseteq Clients
  /\ waking \in [Drivers \cup Signallers -> Threads \cup {None}]
  /\ signalled \in [Signallers -> Threads \cup {None}]

\* A thread blocked in the system call, or about to enter it, is not asleep on a wake it
\* already got: a notify() is pending, or whoever unparked it is about to notify().
WokenIsNotBlocked ==
  \A t \in Threads \cap token : pc[t] \in {"bump", "wait"} =>
    \/ notified
    \/ \E r \in (Drivers \cup Signallers) \ ioPolling : waking[r] = t

\* The future's condition came true while the thread was past polling it: the wake is
\* under way or the token is there to be taken.
WakeUnderWay(t) ==
  \/ t \in token
  \/ t \in toWake
  \/ \E w \in Signallers : signalled[w] = t

\* No order of parking, blocking on I/O, hogging and waking loses the last wake of a
\* future: a thread that will wait before it polls again still has a wake to come.
NoLostWake ==
  \A t \in Threads \cap happened :
    pc[t] \in {"check", "lock", "park", "block", "blocked", "bump", "wait", "again",
               "hog", "hogged", "parked"} => WakeUnderWay(t)

\* Only the holder of the lock runs react() or blocks on I/O, and a thread shown as
\* blocked on I/O holds the lock or has just given it up and parks: no wake of a thread
\* that neither parks nor polls interrupts somebody else's poll.
OneDriver ==
  /\ \A r \in Drivers :
       pc[r] \in {"bump", "wait", "wake", "bump0", "wait0", "wake0", "block", "blocked",
                  "hog", "again", "unlock"} <=> lock = r
  /\ \A t \in ioBlocked : lock = t \/ pc[t] \in {"hogged", "parked"}
  /\ toWake # {} => lock # None

\* A block_on() call does not stay forever after its event was delivered or its signal was
\* given, wherever it parks or polls by then, unless its future is in a recursive call; nor
\* does the recursive call.
BlockOnReturns ==
  \A t \in Threads : []<>(pc[t] = "out" \/ t \notin happened \/ Inside(t))

\* I/O is delivered to everyone who waits for it, whether the threads in block_on() wait
\* for I/O themselves, are parked, or hold the lock for others; unless block_on() calls
\* return forever (each may hold the lock, without polling I/O, just when "async-io" tries
\* it, and its end resets the count of naps after which "async-io" would insist).
IoIsDelivered ==
  \/ []<>(\E t \in Threads : pc[t] = "leave")
  \/ \A c \in Clients : []<>(c \notin ready)
=============================================================================
