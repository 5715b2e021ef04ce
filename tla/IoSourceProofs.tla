--------------------------- MODULE IoSourceProofs ---------------------------
(***************************************************************************)
(* The safety invariants of IoSource for every set of sources, descriptors, *)
(* keys, tasks and futures, every ticker width and any number of failures   *)
(* of modify().                                                             *)
(***************************************************************************)
EXTENDS IoSource, TLAPS

-----------------------------------------------------------------------------
(* The inductive invariant: the properties, and what connects them. *)

\* A source that is not registered is in its default state, and whoever waits on a
\* source, or is registering with it, keeps it live.
Shape ==
  /\ \A s \in Sources :
       /\ src[s].st # "none" => src[s].key \in Keys /\ src[s].fd \in Fds
       /\ registering[s] # None => src[s].st = "live"
       /\ registering[s] \in Futures =>
            fut[registering[s]].st = "pending" /\ fut[registering[s]].src = s
       /\ src[s].st # "live" => \A d \in Dirs : waker[<<s, d>>] = None /\ ticks[<<s, d>>] = None
  /\ \A f \in Futures :
       /\ fut[f].st = "none" => fut[f] = NoFuture
       /\ fut[f].st # "none" =>
            fut[f].src \in Sources /\ fut[f].dir \in Dirs /\ src[fut[f].src].st = "live"
       /\ fut[f].st = "pending" => HasIndex(f) /\ fut[f].task \in Tasks
       /\ fut[f].task \notin Pollers
  /\ \A t \in Tasks : waiting[t] # None => src[waiting[t][1]].st = "live"
  /\ phase \notin {"polled", "dispatch"} => events = {}

\* Direction d of source s cannot be taken for newly delivered by whoever remembers
\* these ticks: the tick of the direction is one of them, and an event still to be
\* handled will set it to the ticker, which is the first of them.
Stale(remembered, s, d) ==
  /\ tick[<<s, d>>] \in {remembered[1], remembered[2]}
  /\ (\E e \in events : e.key = src[s].key /\ d \in e.dirs) => remembered[1] = ticker

FreshInv ==
  /\ \A f \in Futures : HasIndex(f) /\ ~fresh[f] => Stale(fut[f].ticks, fut[f].src, fut[f].dir)
  /\ \A s \in Sources, d \in Dirs :
       ticks[<<s, d>>] # None /\ ~freshDir[<<s, d>>] => Stale(ticks[<<s, d>>], s, d)

IInv ==
  /\ TypeOK
  /\ Shape
  /\ PollerMatchesSlab
  /\ FreshInv
  /\ WakersAreArmed
  /\ SleepersHaveWakers

\* A registration covers what the reactor asks for.
LEMMA RegisteredDirs ==
  ASSUME NEW p, NEW dirs \in SUBSET Dirs
  PROVE  dirs \subseteq Registered(p, dirs) /\ Registered(p, dirs) \in SUBSET Dirs
BY DEF Registered, Awaitable

\* A source that is not live has no waker in either direction.
LEMMA ClosedIsEmpty ==
  ASSUME TypeOK, Shape, NEW s \in Sources, src[s].st # "live"
  PROVE  Interested(s) = {}
<1>1. \A f \in Futures : fut[f].src # s
  BY ConstantsAssumption DEF Shape, NoFuture, Future
<1>2. \A d \in Dirs : Entries(s, d) = {}
  BY <1>1 DEF Entries
<1> QED
  BY <1>2 DEF Shape, Interested, is_empty

\* Two live sources have different descriptors.
LEMMA OneOwner ==
  ASSUME TypeOK, PollerMatchesSlab, NEW s \in Sources, NEW q \in Sources,
         src[s].st = "live", src[q].st = "live", src[s].fd = src[q].fd
  PROVE  s = q
BY DEF TypeOK, PollerMatchesSlab

\* Every step keeps the types.
LEMMA TypeStep ==
  ASSUME TypeOK, Shape, PollerMatchesSlab, [Next]_vars
  PROVE  TypeOK'
<1> USE ConstantsAssumption, NoneAssumption DEF reactorVars, sourceVars, ghostVars, Sides,
     Event, NoSource, NoFuture, Future, TickPair
<1>0. 0 \in 0 .. TickMod - 1
  OBVIOUS
<1>1. ASSUME BumpTicker PROVE TypeOK'
  BY <1>1 DEF TypeOK, BumpTicker, NextTick
<1>2. ASSUME NEW emitted \in [Fds -> SUBSET Dirs], WaitEvents(emitted) PROVE TypeOK'
  BY <1>2 DEF TypeOK, WaitEvents, Reportable, Awaitable
<1>3. ASSUME WaitNothing PROVE TypeOK'
  BY <1>3 DEF TypeOK, WaitNothing
<1>4. ASSUME LockSources PROVE TypeOK'
  BY <1>4 DEF TypeOK, LockSources
<1>5. ASSUME NEW e \in events, DispatchEvent(e) PROVE TypeOK'
  <2>1. slab[e.key] \in Sources /\ src[slab[e.key]].key \in Keys
    BY <1>5 DEF TypeOK, DispatchEvent, PollerMatchesSlab
  <2>2. \A d \in Dirs : Drained(slab[e.key], d) \subseteq Tasks
    BY <2>1 DEF TypeOK, Drained, Entries
  <2>3. (toWake \subseteq Tasks)'
    BY <1>5, <2>2 DEF TypeOK, DispatchEvent
  <2>4. (interest \in [Fds -> Event \cup {None}])'
    <3> DEFINE s == slab[e.key]
               left == Interested(s) \ e.dirs
    <3>1. Registered(src[s].fd, left) \in SUBSET Dirs
      BY RegisteredDirs DEF Interested
    <3>2. [key |-> src[s].key, dirs |-> Registered(src[s].fd, left)] \in Event
      BY <2>1, <3>1
    <3>3. interest' = Rearmed(s, left)
      BY <1>5 DEF DispatchEvent
    <3> QED
      BY <3>2, <3>3 DEF TypeOK, Rearmed
  <2> QED
    BY <1>5, <2>1, <2>3, <2>4 DEF TypeOK, DispatchEvent, Drain
<1>6. ASSUME NEW e \in events, DispatchVacant(e) PROVE TypeOK'
  BY <1>6 DEF TypeOK, DispatchVacant
<1>7. ASSUME NEW e \in events, DispatchFails(e) PROVE TypeOK'
  BY <1>7 DEF TypeOK, DispatchFails, Drain
<1>8. ASSUME EndDispatch PROVE TypeOK'
  BY <1>8 DEF TypeOK, EndDispatch
<1>9. ASSUME NEW t \in Tasks, Wake(t) PROVE TypeOK'
  BY <1>9 DEF TypeOK, Wake
<1>10. ASSUME EndReact PROVE TypeOK'
  BY <1>10 DEF TypeOK, EndReact
<1>11. ASSUME NEW s \in Sources, NEW k \in Keys, NEW p \in Fds, InsertSource(s, k, p)
      PROVE  TypeOK'
  BY <1>11 DEF TypeOK, InsertSource
<1>12. ASSUME NEW s \in Sources, AddRegistration(s) PROVE TypeOK'
  BY <1>12, RegisteredDirs DEF TypeOK, Shape, PollerMatchesSlab, AddRegistration
<1>13. ASSUME NEW s \in Sources, AddFails(s) PROVE TypeOK'
  BY <1>0, <1>13 DEF TypeOK, AddFails
<1>14. ASSUME NEW s \in Sources, remove_io(s) PROVE TypeOK'
  BY <1>0, <1>14 DEF TypeOK, remove_io
<1>15. ASSUME NEW s \in Sources, Modify(s) PROVE TypeOK'
  BY <1>15, RegisteredDirs DEF TypeOK, Shape, PollerMatchesSlab, Modify, Interested
<1>16. ASSUME NEW s \in Sources, ModifyFails(s) PROVE TypeOK'
  BY <1>16 DEF TypeOK, Shape, PollerMatchesSlab, ModifyFails
<1>17. ASSUME NEW f \in Futures, NEW s \in Sources, NEW d \in Dirs, NewReady(f, s, d)
      PROVE  TypeOK'
  BY <1>17 DEF TypeOK, NewReady
<1>18. ASSUME NEW f \in Futures, NEW t \in Tasks, ReadyPollReady(f, t) PROVE TypeOK'
  BY <1>18 DEF TypeOK, Shape, PollerMatchesSlab, ReadyPollReady
<1>19. ASSUME NEW f \in Futures, NEW t \in Tasks, ReadyPollPending(f, t) PROVE TypeOK'
  BY <1>19 DEF TypeOK, Shape, PollerMatchesSlab, ReadyPollPending, Registrar, HasIndex
<1>20. ASSUME NEW f \in Futures, DropReady(f) PROVE TypeOK'
  BY <1>20 DEF TypeOK, DropReady
<1>21. ASSUME NEW t \in Pollers, NEW s \in Sources, NEW d \in Dirs, PollReadyReady(t, s, d)
      PROVE  TypeOK'
  BY <1>21 DEF TypeOK, PollReadyReady
<1>22. ASSUME NEW t \in Pollers, NEW s \in Sources, NEW d \in Dirs, PollReadySame(t, s, d)
      PROVE  TypeOK'
  BY <1>22 DEF TypeOK, PollReadySame
<1>23. ASSUME NEW t \in Pollers, NEW s \in Sources, NEW d \in Dirs, PollReadyPending(t, s, d)
      PROVE  TypeOK'
  BY <1>23 DEF TypeOK, PollReadyPending, Registrar, Replaced
<1>24. ASSUME NEW t \in Pollers, Abandon(t) PROVE TypeOK'
  BY <1>24 DEF TypeOK, Abandon
<1>25. CASE UNCHANGED vars
  BY <1>25 DEF TypeOK, vars
<1> QED
  BY <1>1, <1>2, <1>3, <1>4, <1>5, <1>6, <1>7, <1>8, <1>9, <1>10, <1>11, <1>12, <1>13,
       <1>14, <1>15, <1>16, <1>17, <1>18, <1>19, <1>20, <1>21, <1>22, <1>23, <1>24, <1>25
     DEF Next, React, Dispatch, Handle, ReadyFuture, PollReady

\* Every step keeps sources live for those who wait on them.
LEMMA ShapeStep ==
  ASSUME TypeOK, Shape, PollerMatchesSlab, [Next]_vars
  PROVE  Shape'
<1> USE ConstantsAssumption, NoneAssumption DEF reactorVars, sourceVars, ghostVars, Sides,
     Event, NoSource, NoFuture, Future, HasIndex, TickPair
<1>1. ASSUME BumpTicker PROVE Shape'
  BY <1>1 DEF TypeOK, Shape, BumpTicker
<1>2. ASSUME NEW emitted \in [Fds -> SUBSET Dirs], WaitEvents(emitted) PROVE Shape'
  BY <1>2 DEF TypeOK, Shape, WaitEvents, Reportable
<1>3. ASSUME WaitNothing PROVE Shape'
  BY <1>3 DEF TypeOK, Shape, WaitNothing
<1>4. ASSUME LockSources PROVE Shape'
  BY <1>4 DEF TypeOK, Shape, LockSources
<1>5. ASSUME NEW e \in events, DispatchEvent(e) PROVE Shape'
  BY <1>5 DEF TypeOK, Shape, DispatchEvent, Drain
<1>6. ASSUME NEW e \in events, DispatchVacant(e) PROVE Shape'
  BY <1>6 DEF TypeOK, Shape, DispatchVacant
<1>7. ASSUME NEW e \in events, DispatchFails(e) PROVE Shape'
  BY <1>7 DEF TypeOK, Shape, DispatchFails, Drain
<1>8. ASSUME EndDispatch PROVE Shape'
  BY <1>8 DEF TypeOK, Shape, EndDispatch
<1>9. ASSUME NEW t \in Tasks, Wake(t) PROVE Shape'
  BY <1>9 DEF TypeOK, Shape, Wake
<1>10. ASSUME EndReact PROVE Shape'
  BY <1>10 DEF TypeOK, Shape, EndReact
<1>11. ASSUME NEW s \in Sources, NEW k \in Keys, NEW p \in Fds, InsertSource(s, k, p)
      PROVE  Shape'
  BY <1>11 DEF TypeOK, Shape, InsertSource
<1>12. ASSUME NEW s \in Sources, AddRegistration(s) PROVE Shape'
  BY <1>12 DEF TypeOK, Shape, AddRegistration
<1>13. ASSUME NEW s \in Sources, AddFails(s) PROVE Shape'
  BY <1>13 DEF TypeOK, Shape, AddFails
<1>14. ASSUME NEW s \in Sources, remove_io(s) PROVE Shape'
  BY <1>14 DEF TypeOK, Shape, remove_io
<1>15. ASSUME NEW s \in Sources, Modify(s) PROVE Shape'
  BY <1>15 DEF TypeOK, Shape, Modify
<1>16. ASSUME NEW s \in Sources, ModifyFails(s) PROVE Shape'
  BY <1>16 DEF TypeOK, Shape, ModifyFails
<1>17. ASSUME NEW f \in Futures, NEW s \in Sources, NEW d \in Dirs, NewReady(f, s, d)
      PROVE  Shape'
  BY <1>17 DEF TypeOK, Shape, NewReady
<1>18. ASSUME NEW f \in Futures, NEW t \in Tasks, ReadyPollReady(f, t) PROVE Shape'
  BY <1>18 DEF TypeOK, Shape, ReadyPollReady, FreeFor
<1>19. ASSUME NEW f \in Futures, NEW t \in Tasks, ReadyPollPending(f, t) PROVE Shape'
  BY <1>19 DEF TypeOK, Shape, ReadyPollPending, Registrar, HasIndex, FreeFor
<1>20. ASSUME NEW f \in Futures, DropReady(f) PROVE Shape'
  BY <1>20 DEF TypeOK, Shape, DropReady
<1>21. ASSUME NEW t \in Pollers, NEW s \in Sources, NEW d \in Dirs, PollReadyReady(t, s, d)
      PROVE  Shape'
  BY <1>21 DEF TypeOK, Shape, PollReadyReady
<1>22. ASSUME NEW t \in Pollers, NEW s \in Sources, NEW d \in Dirs, PollReadySame(t, s, d)
      PROVE  Shape'
  BY <1>22 DEF TypeOK, Shape, PollReadySame
<1>23. ASSUME NEW t \in Pollers, NEW s \in Sources, NEW d \in Dirs, PollReadyPending(t, s, d)
      PROVE  Shape'
  BY <1>23 DEF TypeOK, Shape, PollReadyPending, Registrar
<1>24. ASSUME NEW t \in Pollers, Abandon(t) PROVE Shape'
  BY <1>24 DEF TypeOK, Shape, Abandon
<1>25. CASE UNCHANGED vars
  BY <1>25 DEF TypeOK, Shape, vars
<1> QED
  BY <1>1, <1>2, <1>3, <1>4, <1>5, <1>6, <1>7, <1>8, <1>9, <1>10, <1>11, <1>12, <1>13,
       <1>14, <1>15, <1>16, <1>17, <1>18, <1>19, <1>20, <1>21, <1>22, <1>23, <1>24, <1>25
     DEF Next, React, Dispatch, Handle, ReadyFuture, PollReady

\* Every step keeps the poller and the slab together.
LEMMA TablesStep ==
  ASSUME TypeOK, Shape, PollerMatchesSlab, [Next]_vars
  PROVE  PollerMatchesSlab'
<1> USE ConstantsAssumption, NoneAssumption DEF reactorVars, sourceVars, ghostVars, Sides,
     Event, NoSource, NoFuture, Future, HasIndex, TickPair, OwnedBy
<1>1. ASSUME BumpTicker PROVE PollerMatchesSlab'
  BY <1>1 DEF TypeOK, Shape, PollerMatchesSlab, BumpTicker
<1>2. ASSUME NEW emitted \in [Fds -> SUBSET Dirs], WaitEvents(emitted)
      PROVE  PollerMatchesSlab'
  BY <1>2 DEF TypeOK, Shape, PollerMatchesSlab, WaitEvents, Reportable
<1>3. ASSUME WaitNothing PROVE PollerMatchesSlab'
  BY <1>3 DEF TypeOK, Shape, PollerMatchesSlab, WaitNothing
<1>4. ASSUME LockSources PROVE PollerMatchesSlab'
  BY <1>4 DEF TypeOK, Shape, PollerMatchesSlab, LockSources
<1>5. ASSUME NEW e \in events, DispatchEvent(e) PROVE PollerMatchesSlab'
  <2> DEFINE s == slab[e.key]
             left == Interested(s) \ e.dirs
  <2>1. s \in Sources /\ src[s].st # "none" /\ src[s].key = e.key
    BY <1>5 DEF TypeOK, PollerMatchesSlab, DispatchEvent
  <2>2. [key |-> src[s].key, dirs |-> Registered(src[s].fd, left)] \in Event
    <3>1. Registered(src[s].fd, left) \in SUBSET Dirs
      BY RegisteredDirs DEF Interested
    <3> QED
      BY <2>1, <3>1 DEF TypeOK
  <2>3. left # {} => src[s].st = "live"
    BY <2>1, ClosedIsEmpty
  <2>4. interest' = Rearmed(s, left)
    BY <1>5 DEF DispatchEvent
  <2>5. CASE left = {}
    BY <1>5, <2>4, <2>5 DEF TypeOK, Shape, PollerMatchesSlab, DispatchEvent, Drain, Rearmed,
       OwnedBy
  <2>6. CASE left # {}
    <3>1. UNCHANGED <<src, slab>>
      BY <1>5 DEF DispatchEvent
    <3>2. src[s].st = "live" /\ src[s].fd \in Fds
      BY <2>1, <2>3, <2>6 DEF Shape
    <3>3. \A p \in Fds : p # src[s].fd => interest'[p] = interest[p]
      BY <2>4, <2>6 DEF TypeOK, Rearmed
    <3>4. interest'[src[s].fd] = [key |-> src[s].key, dirs |-> Registered(src[s].fd, left)]
      BY <2>4, <2>6, <3>2 DEF TypeOK, Rearmed
    <3>5. interest'[src[s].fd] # None /\ interest'[src[s].fd].key = src[s].key
      BY <2>2, <3>4
    <3> QED
      BY <2>1, <3>1, <3>2, <3>3, <3>5 DEF TypeOK, Shape, PollerMatchesSlab
  <2> QED
    BY <2>5, <2>6
<1>6. ASSUME NEW e \in events, DispatchVacant(e) PROVE PollerMatchesSlab'
  BY <1>6 DEF TypeOK, Shape, PollerMatchesSlab, DispatchVacant
<1>7. ASSUME NEW e \in events, DispatchFails(e) PROVE PollerMatchesSlab'
  BY <1>7 DEF TypeOK, Shape, PollerMatchesSlab, DispatchFails, Drain
<1>8. ASSUME EndDispatch PROVE PollerMatchesSlab'
  BY <1>8 DEF TypeOK, Shape, PollerMatchesSlab, EndDispatch
<1>9. ASSUME NEW t \in Tasks, Wake(t) PROVE PollerMatchesSlab'
  BY <1>9 DEF TypeOK, Shape, PollerMatchesSlab, Wake
<1>10. ASSUME EndReact PROVE PollerMatchesSlab'
  BY <1>10 DEF TypeOK, Shape, PollerMatchesSlab, EndReact
<1>11. ASSUME NEW s \in Sources, NEW k \in Keys, NEW p \in Fds, InsertSource(s, k, p)
      PROVE  PollerMatchesSlab'
  BY <1>11 DEF TypeOK, Shape, PollerMatchesSlab, InsertSource
<1>12. ASSUME NEW s \in Sources, AddRegistration(s) PROVE PollerMatchesSlab'
  <2>1. [key |-> src[s].key, dirs |-> Registered(src[s].fd, {})] \in Event
    BY <1>12, RegisteredDirs DEF Shape, AddRegistration
  <2> QED
    BY <1>12, <2>1 DEF TypeOK, Shape, PollerMatchesSlab, AddRegistration
<1>13. ASSUME NEW s \in Sources, AddFails(s) PROVE PollerMatchesSlab'
  BY <1>13 DEF TypeOK, Shape, PollerMatchesSlab, AddFails
<1>14. ASSUME NEW s \in Sources, remove_io(s) PROVE PollerMatchesSlab'
  BY <1>14 DEF TypeOK, Shape, PollerMatchesSlab, remove_io
<1>15. ASSUME NEW s \in Sources, Modify(s) PROVE PollerMatchesSlab'
  <2>1. [key |-> src[s].key, dirs |-> Registered(src[s].fd, Interested(s))] \in Event
    BY <1>15, RegisteredDirs DEF TypeOK, Shape, Modify, Interested
  <2> QED
    BY <1>15, <2>1 DEF TypeOK, Shape, PollerMatchesSlab, Modify
<1>16. ASSUME NEW s \in Sources, ModifyFails(s) PROVE PollerMatchesSlab'
  BY <1>16 DEF TypeOK, Shape, PollerMatchesSlab, ModifyFails
<1>17. ASSUME NEW f \in Futures, NEW s \in Sources, NEW d \in Dirs, NewReady(f, s, d)
      PROVE  PollerMatchesSlab'
  BY <1>17 DEF TypeOK, Shape, PollerMatchesSlab, NewReady
<1>18. ASSUME NEW f \in Futures, NEW t \in Tasks, ReadyPollReady(f, t)
      PROVE  PollerMatchesSlab'
  BY <1>18 DEF TypeOK, Shape, PollerMatchesSlab, ReadyPollReady
<1>19. ASSUME NEW f \in Futures, NEW t \in Tasks, ReadyPollPending(f, t)
      PROVE  PollerMatchesSlab'
  BY <1>19 DEF TypeOK, Shape, PollerMatchesSlab, ReadyPollPending, Registrar, HasIndex
<1>20. ASSUME NEW f \in Futures, DropReady(f) PROVE PollerMatchesSlab'
  BY <1>20 DEF TypeOK, Shape, PollerMatchesSlab, DropReady
<1>21. ASSUME NEW t \in Pollers, NEW s \in Sources, NEW d \in Dirs, PollReadyReady(t, s, d)
      PROVE  PollerMatchesSlab'
  BY <1>21 DEF TypeOK, Shape, PollerMatchesSlab, PollReadyReady
<1>22. ASSUME NEW t \in Pollers, NEW s \in Sources, NEW d \in Dirs, PollReadySame(t, s, d)
      PROVE  PollerMatchesSlab'
  BY <1>22 DEF TypeOK, Shape, PollerMatchesSlab, PollReadySame
<1>23. ASSUME NEW t \in Pollers, NEW s \in Sources, NEW d \in Dirs, PollReadyPending(t, s, d)
      PROVE  PollerMatchesSlab'
  BY <1>23 DEF TypeOK, Shape, PollerMatchesSlab, PollReadyPending
<1>24. ASSUME NEW t \in Pollers, Abandon(t) PROVE PollerMatchesSlab'
  BY <1>24 DEF TypeOK, Shape, PollerMatchesSlab, Abandon
<1>25. CASE UNCHANGED vars
  BY <1>25 DEF TypeOK, Shape, PollerMatchesSlab, vars
<1> QED
  BY <1>1, <1>2, <1>3, <1>4, <1>5, <1>6, <1>7, <1>8, <1>9, <1>10, <1>11, <1>12, <1>13,
       <1>14, <1>15, <1>16, <1>17, <1>18, <1>19, <1>20, <1>21, <1>22, <1>23, <1>24, <1>25
     DEF Next, React, Dispatch, Handle, ReadyFuture, PollReady

\* Every step keeps remembered ticks stale until an event is reported.
LEMMA FreshStep ==
  ASSUME TypeOK, Shape, PollerMatchesSlab, FreshInv, [Next]_vars
  PROVE  FreshInv'
<1> USE ConstantsAssumption DEF reactorVars, sourceVars, ghostVars, Sides, NoFuture,
     Future, HasIndex
<1>0. /\ \A f \in Futures : HasIndex(f) =>
           fut[f].src \in Sources /\ fut[f].dir \in Dirs /\ src[fut[f].src].st = "live"
      /\ \A s \in Sources, d \in Dirs : ticks[<<s, d>>] # None => src[s].st = "live"
  BY DEF TypeOK, Shape
<1>1. ASSUME BumpTicker PROVE FreshInv'
  BY <1>1 DEF TypeOK, Shape, FreshInv, Stale, BumpTicker
<1>2. ASSUME NEW emitted \in [Fds -> SUBSET Dirs], WaitEvents(emitted) PROVE FreshInv'
  <2>1. ASSUME NEW s \in Sources, NEW d \in Dirs, src[s].st = "live",
               NEW e \in events', e.key = src[s].key, d \in e.dirs
        PROVE  \E p \in Fds : emitted[p] # {} /\ OwnedBy(s, p) /\ d \in emitted[p]
    <3>1. PICK p \in Fds : emitted[p] # {} /\ e = [key |-> interest[p].key, dirs |-> emitted[p]]
      BY <1>2, <2>1 DEF WaitEvents
    <3>2. interest[p] # None
      BY <1>2, <3>1 DEF WaitEvents, Reportable
    <3>3. PICK q \in Sources : OwnedBy(q, p)
      BY <3>2 DEF PollerMatchesSlab
    <3>4. q = s
      BY <2>1, <3>1, <3>3 DEF PollerMatchesSlab, OwnedBy, TypeOK
    <3> QED
      BY <2>1, <3>1, <3>3, <3>4
  <2>2. ASSUME NEW r, NEW s \in Sources, NEW d \in Dirs, src[s].st = "live", Stale(r, s, d),
               ~ \E p \in Fds : emitted[p] # {} /\ OwnedBy(s, p) /\ d \in emitted[p]
        PROVE  Stale(r, s, d)'
    <3>1. ~ \E e \in events' : e.key = src[s].key /\ d \in e.dirs
      BY <2>1, <2>2
    <3> QED
      BY <1>2, <2>2, <3>1 DEF Stale, WaitEvents
  <2>3. ASSUME NEW f \in Futures, HasIndex(f), ~fresh'[f]
        PROVE  ~fresh[f] /\ Stale(fut[f].ticks, fut[f].src, fut[f].dir)'
    BY <1>0, <1>2, <2>2, <2>3 DEF FreshInv, WaitEvents, TypeOK
  <2>4. ASSUME NEW s \in Sources, NEW d \in Dirs, ticks[<<s, d>>] # None, ~freshDir'[<<s, d>>]
        PROVE  ~freshDir[<<s, d>>] /\ Stale(ticks[<<s, d>>], s, d)'
    BY <1>0, <1>2, <2>2, <2>4 DEF FreshInv, WaitEvents, TypeOK
  <2> QED
    BY <1>2, <2>3, <2>4 DEF FreshInv, WaitEvents
<1>3. ASSUME WaitNothing PROVE FreshInv'
  BY <1>3 DEF TypeOK, Shape, FreshInv, Stale, WaitNothing
<1>4. ASSUME LockSources PROVE FreshInv'
  BY <1>4 DEF TypeOK, Shape, FreshInv, Stale, LockSources
<1>5. ASSUME NEW e \in events, DispatchEvent(e) PROVE FreshInv'
  <2>1. slab[e.key] \in Sources /\ src[slab[e.key]].key = e.key
    BY <1>5 DEF TypeOK, Event, PollerMatchesSlab, DispatchEvent
  <2>2. ASSUME NEW r, NEW s \in Sources, NEW d \in Dirs, Stale(r, s, d)
        PROVE  Stale(r, s, d)'
    BY <1>5, <2>1, <2>2 DEF Stale, DispatchEvent, Drain, TypeOK
  <2> QED
    BY <1>0, <1>5, <2>2 DEF FreshInv, DispatchEvent
<1>6. ASSUME NEW e \in events, DispatchVacant(e) PROVE FreshInv'
  BY <1>6 DEF TypeOK, Shape, FreshInv, Stale, DispatchVacant
<1>7. ASSUME NEW e \in events, DispatchFails(e) PROVE FreshInv'
  <2>1. slab[e.key] \in Sources /\ src[slab[e.key]].key = e.key
    BY <1>7 DEF TypeOK, Event, PollerMatchesSlab, DispatchFails
  <2>2. ASSUME NEW r, NEW s \in Sources, NEW d \in Dirs, Stale(r, s, d)
        PROVE  Stale(r, s, d)'
    BY <1>7, <2>1, <2>2 DEF Stale, DispatchFails, Drain, TypeOK
  <2> QED
    BY <1>0, <1>7, <2>2 DEF FreshInv, DispatchFails
<1>8. ASSUME EndDispatch PROVE FreshInv'
  BY <1>8 DEF TypeOK, Shape, FreshInv, Stale, EndDispatch
<1>9. ASSUME NEW t \in Tasks, Wake(t) PROVE FreshInv'
  BY <1>9 DEF TypeOK, Shape, FreshInv, Stale, Wake
<1>10. ASSUME EndReact PROVE FreshInv'
  BY <1>10 DEF TypeOK, Shape, FreshInv, Stale, EndReact
<1>11. ASSUME NEW s \in Sources, NEW k \in Keys, NEW p \in Fds, InsertSource(s, k, p)
      PROVE  FreshInv'
  <2>1. ASSUME NEW r, NEW q \in Sources, NEW d \in Dirs, src[q].st = "live", Stale(r, q, d)
        PROVE  Stale(r, q, d)'
    BY <1>11, <2>1 DEF Stale, InsertSource, TypeOK
  <2> QED
    BY <1>0, <1>11, <2>1 DEF FreshInv, InsertSource
<1>12. ASSUME NEW s \in Sources, AddRegistration(s) PROVE FreshInv'
  BY <1>12 DEF TypeOK, Shape, FreshInv, Stale, AddRegistration
<1>13. ASSUME NEW s \in Sources, AddFails(s) PROVE FreshInv'
  BY <1>13 DEF TypeOK, Shape, FreshInv, Stale, AddFails
<1>14. ASSUME NEW s \in Sources, remove_io(s) PROVE FreshInv'
  <2>1. ASSUME NEW r, NEW q \in Sources, NEW d \in Dirs, q # s, Stale(r, q, d)
        PROVE  Stale(r, q, d)'
    BY <1>14, <2>1 DEF Stale, remove_io, TypeOK
  <2>2. \A f \in Futures : fut'[f] = fut[f] /\ fut[f].src # s /\ fresh'[f] = fresh[f]
    BY <1>14 DEF remove_io
  <2>3. \A q \in Sources, d \in Dirs : ticks'[<<q, d>>] # None =>
          q # s /\ ticks'[<<q, d>>] = ticks[<<q, d>>] /\ freshDir'[<<q, d>>] = freshDir[<<q, d>>]
    BY <1>14 DEF remove_io
  <2> QED
    BY <1>0, <2>1, <2>2, <2>3 DEF FreshInv
<1>15. ASSUME NEW s \in Sources, Modify(s) PROVE FreshInv'
  BY <1>15 DEF TypeOK, Shape, FreshInv, Stale, Modify
<1>16. ASSUME NEW s \in Sources, ModifyFails(s) PROVE FreshInv'
  BY <1>16 DEF TypeOK, Shape, FreshInv, Stale, ModifyFails
<1>17. ASSUME NEW f \in Futures, NEW s \in Sources, NEW d \in Dirs, NewReady(f, s, d)
      PROVE  FreshInv'
  BY <1>17 DEF TypeOK, Shape, FreshInv, Stale, NewReady
<1>18. ASSUME NEW f \in Futures, NEW t \in Tasks, ReadyPollReady(f, t) PROVE FreshInv'
  BY <1>18 DEF TypeOK, Shape, FreshInv, Stale, ReadyPollReady
<1>19. ASSUME NEW f \in Futures, NEW t \in Tasks, ReadyPollPending(f, t) PROVE FreshInv'
  <2>1. ASSUME NEW r, NEW s, NEW d
        PROVE  Stale(r, s, d)' <=> Stale(r, s, d)
    BY <1>19 DEF Stale, ReadyPollPending
  <2>2. ASSUME NEW g \in Futures, HasIndex(g)', ~fresh'[g]
        PROVE  Stale(fut[g].ticks, fut[g].src, fut[g].dir)'
    <3>1. CASE g = f /\ fut[f].ticks = None
      <4>1. /\ fut'[g].ticks = <<ticker, tick[<<fut[f].src, fut[f].dir>>]>>
            /\ fut'[g].src = fut[f].src
            /\ fut'[g].dir = fut[f].dir
        BY <1>19, <3>1 DEF ReadyPollPending, TypeOK
      <4> QED
        BY <1>19, <4>1 DEF ReadyPollPending, Stale
    <3>2. CASE g # f \/ fut[f].ticks # None
      <4>1. /\ fut'[g].ticks = fut[g].ticks
            /\ fut'[g].src = fut[g].src
            /\ fut'[g].dir = fut[g].dir
        BY <1>19, <3>2 DEF ReadyPollPending, TypeOK
      <4>2. ~fresh[g]
        BY <1>19, <2>2, <3>2 DEF ReadyPollPending, TypeOK
      <4> QED
        BY <2>1, <2>2, <4>1, <4>2 DEF FreshInv
    <3> QED
      BY <3>1, <3>2
  <2>3. UNCHANGED <<ticks, freshDir>>
    BY <1>19 DEF ReadyPollPending
  <2> QED
    BY <2>1, <2>2, <2>3 DEF FreshInv
<1>20. ASSUME NEW f \in Futures, DropReady(f) PROVE FreshInv'
  BY <1>20 DEF TypeOK, Shape, FreshInv, Stale, DropReady
<1>21. ASSUME NEW t \in Pollers, NEW s \in Sources, NEW d \in Dirs, PollReadyReady(t, s, d)
      PROVE  FreshInv'
  BY <1>21 DEF TypeOK, Shape, FreshInv, Stale, PollReadyReady
<1>22. ASSUME NEW t \in Pollers, NEW s \in Sources, NEW d \in Dirs, PollReadySame(t, s, d)
      PROVE  FreshInv'
  BY <1>22 DEF TypeOK, Shape, FreshInv, Stale, PollReadySame
<1>23. ASSUME NEW t \in Pollers, NEW s \in Sources, NEW d \in Dirs, PollReadyPending(t, s, d)
      PROVE  FreshInv'
  <2>1. ASSUME NEW r, NEW q, NEW c
        PROVE  Stale(r, q, c)' <=> Stale(r, q, c)
    BY <1>23 DEF Stale, PollReadyPending
  <2>2. Stale(<<ticker, tick[<<s, d>>]>>, s, d)
    BY DEF Stale
  <2>3. \A q \in Sources, c \in Dirs :
          IF q = s /\ c = d
          THEN ticks'[<<q, c>>] = <<ticker, tick[<<s, d>>]>>
          ELSE ticks'[<<q, c>>] = ticks[<<q, c>>] /\ freshDir'[<<q, c>>] = freshDir[<<q, c>>]
    BY <1>23 DEF PollReadyPending, TypeOK
  <2>4. UNCHANGED <<fut, fresh>>
    BY <1>23 DEF PollReadyPending
  <2> QED
    BY <2>1, <2>2, <2>3, <2>4 DEF FreshInv
<1>24. ASSUME NEW t \in Pollers, Abandon(t) PROVE FreshInv'
  BY <1>24 DEF TypeOK, Shape, FreshInv, Stale, Abandon
<1>25. CASE UNCHANGED vars
  BY <1>25 DEF TypeOK, Shape, FreshInv, Stale, vars
<1> QED
  BY <1>1, <1>2, <1>3, <1>4, <1>5, <1>6, <1>7, <1>8, <1>9, <1>10, <1>11, <1>12, <1>13,
       <1>14, <1>15, <1>16, <1>17, <1>18, <1>19, <1>20, <1>21, <1>22, <1>23, <1>24, <1>25
     DEF Next, React, Dispatch, Handle, ReadyFuture, PollReady

\* Every step without a failure keeps or wakes the sleepers.
LEMMA SleepersStep ==
  ASSUME TypeOK, Shape, SleepersHaveWakers, [Next]_vars
  PROVE  SleepersHaveWakers'
<1> USE ConstantsAssumption DEF reactorVars, sourceVars, ghostVars, Sides, NoFuture,
     Future, HasIndex
<1>1. ASSUME BumpTicker PROVE SleepersHaveWakers'
  BY <1>1 DEF TypeOK, Shape, SleepersHaveWakers, NoLostSleeper, BumpTicker
<1>2. ASSUME NEW emitted \in [Fds -> SUBSET Dirs], WaitEvents(emitted)
      PROVE  SleepersHaveWakers'
  BY <1>2 DEF TypeOK, Shape, SleepersHaveWakers, NoLostSleeper, WaitEvents, Reportable
<1>3. ASSUME WaitNothing PROVE SleepersHaveWakers'
  BY <1>3 DEF TypeOK, Shape, SleepersHaveWakers, NoLostSleeper, WaitNothing
<1>4. ASSUME LockSources PROVE SleepersHaveWakers'
  BY <1>4 DEF TypeOK, Shape, SleepersHaveWakers, NoLostSleeper, LockSources
<1>5. ASSUME NEW e \in events, DispatchEvent(e) PROVE SleepersHaveWakers'
  <2> SUFFICES ASSUME faults = Faults PROVE NoLostSleeper'
    BY <1>5 DEF SleepersHaveWakers, DispatchEvent
  <2>1. ASSUME NEW f \in Futures, fut[f].st = "pending", wakers'[f] # wakers[f]
        PROVE  wakers[f] = None \/ wakers[f] \in toWake'
    <3>1. fut[f].src = slab[e.key] /\ fut[f].dir \in e.dirs
      BY <1>5, <2>1 DEF DispatchEvent, Drain, TypeOK
    <3>2. f \in Entries(slab[e.key], fut[f].dir)
      BY <2>1, <3>1 DEF Entries, Shape
    <3>3. wakers[f] = None \/ wakers[f] \in Drained(slab[e.key], fut[f].dir)
      BY <3>2 DEF Drained
    <3> QED
      BY <1>5, <3>1, <3>3 DEF DispatchEvent
  <2>2. ASSUME NEW t \in Pollers, waiting[t] # None, waker'[waiting[t]] # waker[waiting[t]]
        PROVE  waker[waiting[t]] = None \/ waker[waiting[t]] \in toWake'
    <3>1. PICK s \in Sources, d \in Dirs : waiting[t] = <<s, d>>
      BY <2>2 DEF TypeOK
    <3>2. s = slab[e.key] /\ d \in e.dirs
      BY <1>5, <2>2, <3>1 DEF DispatchEvent, Drain, TypeOK
    <3>3. waker[<<s, d>>] = None \/ waker[<<s, d>>] \in Drained(slab[e.key], d)
      BY <3>2 DEF Drained
    <3> QED
      BY <1>5, <3>1, <3>2, <3>3 DEF DispatchEvent
  <2>3. toWake \subseteq toWake' /\ UNCHANGED <<fut, waiting, notified>>
    BY <1>5 DEF DispatchEvent
  <2> QED
    BY <2>1, <2>2, <2>3 DEF SleepersHaveWakers, NoLostSleeper, TypeOK, Shape
<1>6. ASSUME NEW e \in events, DispatchVacant(e) PROVE SleepersHaveWakers'
  BY <1>6 DEF TypeOK, Shape, SleepersHaveWakers, NoLostSleeper, DispatchVacant
<1>7. ASSUME NEW e \in events, DispatchFails(e) PROVE SleepersHaveWakers'
  BY <1>7 DEF TypeOK, Shape, SleepersHaveWakers, NoLostSleeper, DispatchFails, Drain
<1>8. ASSUME EndDispatch PROVE SleepersHaveWakers'
  BY <1>8 DEF TypeOK, Shape, SleepersHaveWakers, NoLostSleeper, EndDispatch
<1>9. ASSUME NEW t \in Tasks, Wake(t) PROVE SleepersHaveWakers'
  BY <1>9 DEF TypeOK, Shape, SleepersHaveWakers, NoLostSleeper, Wake
<1>10. ASSUME EndReact PROVE SleepersHaveWakers'
  BY <1>10 DEF TypeOK, Shape, SleepersHaveWakers, NoLostSleeper, EndReact
<1>11. ASSUME NEW s \in Sources, NEW k \in Keys, NEW p \in Fds, InsertSource(s, k, p)
      PROVE  SleepersHaveWakers'
  BY <1>11 DEF TypeOK, Shape, SleepersHaveWakers, NoLostSleeper, InsertSource
<1>12. ASSUME NEW s \in Sources, AddRegistration(s) PROVE SleepersHaveWakers'
  BY <1>12 DEF TypeOK, Shape, SleepersHaveWakers, NoLostSleeper, AddRegistration
<1>13. ASSUME NEW s \in Sources, AddFails(s) PROVE SleepersHaveWakers'
  BY <1>13 DEF TypeOK, Shape, SleepersHaveWakers, NoLostSleeper, AddFails
<1>14. ASSUME NEW s \in Sources, remove_io(s) PROVE SleepersHaveWakers'
  BY <1>14 DEF TypeOK, Shape, SleepersHaveWakers, NoLostSleeper, remove_io
<1>15. ASSUME NEW s \in Sources, Modify(s) PROVE SleepersHaveWakers'
  BY <1>15 DEF TypeOK, Shape, SleepersHaveWakers, NoLostSleeper, Modify
<1>16. ASSUME NEW s \in Sources, ModifyFails(s) PROVE SleepersHaveWakers'
  BY <1>16 DEF TypeOK, Shape, SleepersHaveWakers, NoLostSleeper, ModifyFails
<1>17. ASSUME NEW f \in Futures, NEW s \in Sources, NEW d \in Dirs, NewReady(f, s, d)
      PROVE  SleepersHaveWakers'
  BY <1>17 DEF TypeOK, Shape, SleepersHaveWakers, NoLostSleeper, NewReady
<1>18. ASSUME NEW f \in Futures, NEW t \in Tasks, ReadyPollReady(f, t)
      PROVE  SleepersHaveWakers'
  BY <1>18 DEF TypeOK, Shape, SleepersHaveWakers, NoLostSleeper, ReadyPollReady, FreeFor
<1>19. ASSUME NEW f \in Futures, NEW t \in Tasks, ReadyPollPending(f, t)
      PROVE  SleepersHaveWakers'
  BY <1>19 DEF TypeOK, Shape, SleepersHaveWakers, NoLostSleeper, ReadyPollPending,
       HasIndex, FreeFor
<1>20. ASSUME NEW f \in Futures, DropReady(f) PROVE SleepersHaveWakers'
  BY <1>20 DEF TypeOK, Shape, SleepersHaveWakers, NoLostSleeper, DropReady
<1>21. ASSUME NEW t \in Pollers, NEW s \in Sources, NEW d \in Dirs, PollReadyReady(t, s, d)
      PROVE  SleepersHaveWakers'
  BY <1>21 DEF TypeOK, Shape, SleepersHaveWakers, NoLostSleeper, PollReadyReady
<1>22. ASSUME NEW t \in Pollers, NEW s \in Sources, NEW d \in Dirs, PollReadySame(t, s, d)
      PROVE  SleepersHaveWakers'
  BY <1>22 DEF TypeOK, Shape, SleepersHaveWakers, NoLostSleeper, PollReadySame
<1>23. ASSUME NEW t \in Pollers, NEW s \in Sources, NEW d \in Dirs, PollReadyPending(t, s, d)
      PROVE  SleepersHaveWakers'
  <2> SUFFICES ASSUME faults = Faults PROVE NoLostSleeper'
    BY <1>23 DEF SleepersHaveWakers, PollReadyPending
  <2>1. ASSUME NEW f \in Futures, fut'[f].st = "pending"
        PROVE  wakers'[f] = fut'[f].task \/ fut'[f].task \in toWake' \cup notified'
    BY <1>23, <2>1 DEF SleepersHaveWakers, NoLostSleeper, PollReadyPending, Shape
  <2>2. ASSUME NEW u \in Pollers, waiting'[u] # None
        PROVE  waker'[waiting'[u]] = u \/ u \in toWake' \cup notified'
    <3>1. CASE u = t
      BY <1>23, <3>1 DEF PollReadyPending, TypeOK
    <3>2. CASE u # t
      <4>1. waiting'[u] = waiting[u] /\ waiting[u] \in Sources \X Dirs
        BY <1>23, <2>2, <3>2 DEF PollReadyPending, TypeOK
      <4>2. waker[waiting[u]] = u \/ u \in toWake \cup notified
        BY <2>2, <4>1 DEF SleepersHaveWakers, NoLostSleeper
      <4>3. CASE waiting[u] = <<s, d>>
        <5>1. waker[<<s, d>>] = u => u \in notified'
          BY <1>23, <3>2 DEF PollReadyPending, Replaced
        <5>2. toWake' = toWake /\ notified \ {t} \subseteq notified'
          BY <1>23 DEF PollReadyPending
        <5> QED
          BY <3>2, <4>2, <4>3, <5>1, <5>2
      <4>4. CASE waiting[u] # <<s, d>>
        <5>1. waker'[waiting[u]] = waker[waiting[u]]
          BY <1>23, <4>1, <4>4 DEF PollReadyPending, TypeOK
        <5>2. toWake' = toWake /\ notified \ {t} \subseteq notified'
          BY <1>23 DEF PollReadyPending
        <5> QED
          BY <3>2, <4>1, <4>2, <5>1, <5>2
      <4> QED
        BY <4>3, <4>4
    <3> QED
      BY <3>1, <3>2
  <2> QED
    BY <2>1, <2>2 DEF NoLostSleeper
<1>24. ASSUME NEW t \in Pollers, Abandon(t) PROVE SleepersHaveWakers'
  BY <1>24 DEF TypeOK, Shape, SleepersHaveWakers, NoLostSleeper, Abandon
<1>25. CASE UNCHANGED vars
  BY <1>25 DEF TypeOK, Shape, SleepersHaveWakers, NoLostSleeper, vars
<1> QED
  BY <1>1, <1>2, <1>3, <1>4, <1>5, <1>6, <1>7, <1>8, <1>9, <1>10, <1>11, <1>12, <1>13,
       <1>14, <1>15, <1>16, <1>17, <1>18, <1>19, <1>20, <1>21, <1>22, <1>23, <1>24, <1>25
     DEF Next, React, Dispatch, Handle, ReadyFuture, PollReady

\* Every step without a failure keeps the poller armed for stored wakers.
LEMMA ArmedStep ==
  ASSUME TypeOK, Shape, PollerMatchesSlab, WakersAreArmed, [Next]_vars
  PROVE  WakersAreArmed'
<1> USE ConstantsAssumption DEF reactorVars, sourceVars, ghostVars, Sides, NoFuture,
     Future, HasIndex
<1>1. ASSUME BumpTicker PROVE WakersAreArmed'
  BY <1>1 DEF TypeOK, Shape, WakersAreArmed, Interested, is_empty, Entries, Armed,
       EventPending, BumpTicker
<1>2. ASSUME NEW emitted \in [Fds -> SUBSET Dirs], WaitEvents(emitted) PROVE WakersAreArmed'
  <2> SUFFICES ASSUME faults = Faults, NEW q \in Sources, src'[q].st = "live",
                      NEW c \in Dirs, c \in Interested(q)'
               PROVE  Armed(q, c)'
    BY <1>2 DEF WakersAreArmed, WaitEvents, Interested
  <2>1. Interested(q)' = Interested(q)
    BY <1>2 DEF Interested, is_empty, Entries, WaitEvents
  <2>2. src[q].fd \in Fds /\ interest[src[q].fd] # None /\ interest[src[q].fd].key = src[q].key
    BY <1>2 DEF WaitEvents, Shape, PollerMatchesSlab
  <2>3. events = {} /\ src' = src /\ registering' = registering
    BY <1>2 DEF WaitEvents, Shape
  <2>4. c \in interest[src[q].fd].dirs \/ registering[q] # None
    BY <2>1, <2>3 DEF WakersAreArmed, Armed, EventPending
  <2>5. CASE emitted[src[q].fd] # {}
    <3>1. [key |-> interest[src[q].fd].key, dirs |-> emitted[src[q].fd]] \in events'
      BY <1>2, <2>2, <2>5 DEF WaitEvents
    <3> QED
      BY <2>2, <2>3, <3>1 DEF Armed, EventPending
  <2>6. CASE emitted[src[q].fd] = {}
    <3>1. interest'[src[q].fd] = interest[src[q].fd]
      BY <1>2, <2>2, <2>6 DEF WaitEvents, TypeOK
    <3> QED
      BY <2>3, <2>4, <3>1 DEF Armed
  <2> QED
    BY <2>5, <2>6
<1>3. ASSUME WaitNothing PROVE WakersAreArmed'
  BY <1>3 DEF TypeOK, Shape, WakersAreArmed, Interested, is_empty, Entries, Armed,
       EventPending, WaitNothing
<1>4. ASSUME LockSources PROVE WakersAreArmed'
  BY <1>4 DEF TypeOK, Shape, WakersAreArmed, Interested, is_empty, Entries, Armed,
       EventPending, LockSources
<1>5. ASSUME NEW e \in events, DispatchEvent(e) PROVE WakersAreArmed'
  <2> SUFFICES ASSUME faults = Faults, NEW q \in Sources, src'[q].st = "live",
                      NEW c \in Dirs, c \in Interested(q)'
               PROVE  Armed(q, c)'
    BY <1>5 DEF WakersAreArmed, DispatchEvent, Interested
  <2> DEFINE s == slab[e.key]
             left == Interested(s) \ e.dirs
  <2>1. s \in Sources /\ src[s].key = e.key /\ src' = src /\ registering' = registering
    BY <1>5 DEF TypeOK, Event, PollerMatchesSlab, DispatchEvent
  <2>2. CASE q = s
    <3>1. waker'[<<s, c>>] = (IF c \in e.dirs THEN None ELSE waker[<<s, c>>])
      BY <1>5, <2>1 DEF DispatchEvent, Drain
    <3>2. \A f \in Entries(s, c) : wakers'[f] = (IF c \in e.dirs THEN None ELSE wakers[f])
      BY <1>5, <2>1 DEF DispatchEvent, Drain, Entries
    <3>3. Entries(s, c)' = Entries(s, c)
      BY <1>5, <2>1 DEF DispatchEvent, Entries, PollerMatchesSlab
    <3>4. waker'[<<s, c>>] # None \/ \E f \in Entries(s, c) : wakers'[f] # None
      <4>1. slab' = slab
        BY <1>5 DEF DispatchEvent
      <4> QED
        BY <2>2, <3>3, <4>1 DEF Interested, is_empty
    <3>5. c \in left
      BY <3>1, <3>2, <3>4 DEF is_empty, Interested
    <3>6. src[s].fd \in Fds
      BY <2>1, <2>2 DEF Shape
    <3>7. left \in SUBSET Dirs /\ interest'[src[s].fd].dirs = Registered(src[s].fd, left)
      BY <1>5, <3>5, <3>6 DEF DispatchEvent, Rearmed, Interested, TypeOK
    <3> QED
      BY <2>1, <2>2, <3>5, <3>7, RegisteredDirs DEF Armed
  <2>3. CASE q # s
    <3>1. Interested(q)' = Interested(q)
      BY <1>5, <2>3 DEF DispatchEvent, Drain, Interested, is_empty, Entries, TypeOK
    <3>2. Armed(q, c)
      BY <2>1, <3>1 DEF WakersAreArmed
    <3>3. EventPending(q) => EventPending(q)'
      BY <1>5, <2>1, <2>3 DEF EventPending, DispatchEvent, PollerMatchesSlab
    <3>4. left # {} => src[s].st = "live"
      BY <2>1, ClosedIsEmpty
    <3>5. interest'[src[q].fd] = interest[src[q].fd]
      BY <1>5, <2>1, <2>3, <3>4, OneOwner DEF DispatchEvent, Rearmed, TypeOK, Shape
    <3> QED
      BY <2>1, <3>2, <3>3, <3>5 DEF Armed
  <2> QED
    BY <2>2, <2>3
<1>6. ASSUME NEW e \in events, DispatchVacant(e) PROVE WakersAreArmed'
  <2> SUFFICES ASSUME faults = Faults, NEW q \in Sources, src'[q].st = "live",
                      NEW c \in Dirs, c \in Interested(q)'
               PROVE  Armed(q, c)'
    BY <1>6 DEF WakersAreArmed, DispatchVacant, Interested
  <2>1. Interested(q)' = Interested(q)
    BY <1>6 DEF Interested, is_empty, Entries, DispatchVacant
  <2>2. Armed(q, c) /\ slab[src[q].key] = q
    BY <1>6, <2>1 DEF WakersAreArmed, DispatchVacant, PollerMatchesSlab
  <2> QED
    BY <1>6, <2>2 DEF Armed, EventPending, DispatchVacant
<1>7. ASSUME NEW e \in events, DispatchFails(e) PROVE WakersAreArmed'
  BY <1>7 DEF TypeOK, Shape, WakersAreArmed, Interested, is_empty, Entries, Armed,
       EventPending, DispatchFails, Drain
<1>8. ASSUME EndDispatch PROVE WakersAreArmed'
  BY <1>8 DEF TypeOK, Shape, WakersAreArmed, Interested, is_empty, Entries, Armed,
       EventPending, EndDispatch
<1>9. ASSUME NEW t \in Tasks, Wake(t) PROVE WakersAreArmed'
  BY <1>9 DEF TypeOK, Shape, WakersAreArmed, Interested, is_empty, Entries, Armed,
       EventPending, Wake
<1>10. ASSUME EndReact PROVE WakersAreArmed'
  BY <1>10 DEF TypeOK, Shape, WakersAreArmed, Interested, is_empty, Entries, Armed,
       EventPending, EndReact
<1>11. ASSUME NEW s \in Sources, NEW k \in Keys, NEW p \in Fds, InsertSource(s, k, p)
      PROVE  WakersAreArmed'
  BY <1>11 DEF TypeOK, Shape, WakersAreArmed, Interested, is_empty, Entries, Armed,
       EventPending, InsertSource
<1>12. ASSUME NEW s \in Sources, AddRegistration(s) PROVE WakersAreArmed'
  <2> SUFFICES ASSUME faults = Faults, NEW q \in Sources, src'[q].st = "live",
                      NEW c \in Dirs, c \in Interested(q)'
               PROVE  Armed(q, c)'
    BY <1>12 DEF WakersAreArmed, AddRegistration, Interested
  <2>1. Interested(q)' = Interested(q)
    BY <1>12 DEF Interested, is_empty, Entries, AddRegistration
  <2>2. q # s /\ src[q].st = "live" /\ src'[q] = src[q]
    BY <1>12, <2>1, ClosedIsEmpty DEF AddRegistration, TypeOK
  <2>3. Armed(q, c)
    BY <2>1, <2>2 DEF WakersAreArmed
  <2>4. src[q].fd # src[s].fd
    BY <1>12, <2>2 DEF AddRegistration, PollerMatchesSlab
  <2>5. interest'[src[q].fd] = interest[src[q].fd]
    BY <1>12, <2>2, <2>4 DEF AddRegistration, TypeOK, Shape
  <2> QED
    BY <1>12, <2>2, <2>3, <2>5 DEF Armed, EventPending, AddRegistration
<1>13. ASSUME NEW s \in Sources, AddFails(s) PROVE WakersAreArmed'
  BY <1>13 DEF TypeOK, Shape, WakersAreArmed, Interested, is_empty, Entries, Armed,
       EventPending, AddFails
<1>14. ASSUME NEW s \in Sources, remove_io(s) PROVE WakersAreArmed'
  <2> SUFFICES ASSUME faults = Faults, NEW q \in Sources, src'[q].st = "live",
                      NEW c \in Dirs, c \in Interested(q)'
               PROVE  Armed(q, c)'
    BY <1>14 DEF WakersAreArmed, remove_io, Interested
  <2>1. q # s /\ src[q].st = "live" /\ src'[q] = src[q]
    BY <1>14 DEF remove_io, TypeOK, NoSource
  <2>2. Interested(q)' = Interested(q)
    BY <1>14, <2>1 DEF remove_io, Interested, is_empty, Entries, TypeOK
  <2>3. Armed(q, c)
    BY <2>1, <2>2 DEF WakersAreArmed
  <2>4. src[q].fd # src[s].fd
    BY <1>14, <2>1, OneOwner DEF remove_io
  <2>5. interest'[src[q].fd] = interest[src[q].fd]
    BY <1>14, <2>1, <2>4 DEF remove_io, TypeOK, Shape
  <2> QED
    BY <1>14, <2>1, <2>3, <2>5 DEF Armed, EventPending, remove_io
<1>15. ASSUME NEW s \in Sources, Modify(s) PROVE WakersAreArmed'
  <2> SUFFICES ASSUME faults = Faults, NEW q \in Sources, src'[q].st = "live",
                      NEW c \in Dirs, c \in Interested(q)'
               PROVE  Armed(q, c)'
    BY <1>15 DEF WakersAreArmed, Modify, Interested
  <2>1. Interested(q)' = Interested(q)
    BY <1>15 DEF Interested, is_empty, Entries, Modify
  <2>2. CASE q = s
    <3>1. interest'[src[s].fd].dirs = Registered(src[s].fd, Interested(s))
      BY <1>15, <2>2 DEF Modify, TypeOK, Shape
    <3>2. Interested(s) \in SUBSET Dirs
      BY DEF Interested
    <3> QED
      BY <1>15, <2>1, <2>2, <3>1, <3>2, RegisteredDirs DEF Armed, Modify
  <2>3. CASE q # s
    <3>1. src[q].st = "live" /\ src[s].st = "live"
      BY <1>15 DEF Modify, Shape
    <3>2. src[q].fd # src[s].fd
      BY <2>3, <3>1, OneOwner
    <3>3. Armed(q, c)
      BY <2>1, <3>1 DEF WakersAreArmed
    <3>4. interest'[src[q].fd] = interest[src[q].fd]
      BY <1>15, <3>1, <3>2 DEF Modify, TypeOK, Shape
    <3> QED
      BY <1>15, <2>3, <3>3, <3>4 DEF Armed, EventPending, Modify, TypeOK
  <2> QED
    BY <2>2, <2>3
<1>16. ASSUME NEW s \in Sources, ModifyFails(s) PROVE WakersAreArmed'
  BY <1>16 DEF TypeOK, Shape, WakersAreArmed, Interested, is_empty, Entries, Armed,
       EventPending, ModifyFails
<1>17. ASSUME NEW f \in Futures, NEW s \in Sources, NEW d \in Dirs, NewReady(f, s, d)
      PROVE  WakersAreArmed'
  BY <1>17 DEF TypeOK, Shape, WakersAreArmed, Interested, is_empty, Entries, Armed,
       EventPending, NewReady
<1>18. ASSUME NEW f \in Futures, NEW t \in Tasks, ReadyPollReady(f, t) PROVE WakersAreArmed'
  BY <1>18 DEF TypeOK, Shape, WakersAreArmed, Interested, is_empty, Entries, Armed,
       EventPending, ReadyPollReady
<1>19. ASSUME NEW f \in Futures, NEW t \in Tasks, ReadyPollPending(f, t)
      PROVE  WakersAreArmed'
  BY <1>19 DEF TypeOK, Shape, WakersAreArmed, Interested, is_empty, Entries, Armed,
       EventPending, ReadyPollPending, Registrar, HasIndex
<1>20. ASSUME NEW f \in Futures, DropReady(f) PROVE WakersAreArmed'
  BY <1>20 DEF TypeOK, Shape, WakersAreArmed, Interested, is_empty, Entries, Armed,
       EventPending, DropReady
<1>21. ASSUME NEW t \in Pollers, NEW s \in Sources, NEW d \in Dirs, PollReadyReady(t, s, d)
      PROVE  WakersAreArmed'
  BY <1>21 DEF TypeOK, Shape, WakersAreArmed, Interested, is_empty, Entries, Armed,
       EventPending, PollReadyReady
<1>22. ASSUME NEW t \in Pollers, NEW s \in Sources, NEW d \in Dirs, PollReadySame(t, s, d)
      PROVE  WakersAreArmed'
  BY <1>22 DEF TypeOK, Shape, WakersAreArmed, Interested, is_empty, Entries, Armed,
       EventPending, PollReadySame
<1>23. ASSUME NEW t \in Pollers, NEW s \in Sources, NEW d \in Dirs, PollReadyPending(t, s, d)
      PROVE  WakersAreArmed'
  BY <1>23 DEF TypeOK, Shape, WakersAreArmed, Interested, is_empty, Entries, Armed,
       EventPending, PollReadyPending, Registrar
<1>24. ASSUME NEW t \in Pollers, Abandon(t) PROVE WakersAreArmed'
  BY <1>24 DEF TypeOK, Shape, WakersAreArmed, Interested, is_empty, Entries, Armed,
       EventPending, Abandon
<1>25. CASE UNCHANGED vars
  BY <1>25 DEF TypeOK, Shape, WakersAreArmed, Interested, is_empty, Entries, Armed,
       EventPending, vars
<1> QED
  BY <1>1, <1>2, <1>3, <1>4, <1>5, <1>6, <1>7, <1>8, <1>9, <1>10, <1>11, <1>12, <1>13,
       <1>14, <1>15, <1>16, <1>17, <1>18, <1>19, <1>20, <1>21, <1>22, <1>23, <1>24, <1>25
     DEF Next, React, Dispatch, Handle, ReadyFuture, PollReady

-----------------------------------------------------------------------------
(* The theorems. *)

\* Init establishes the inductive invariant.
LEMMA InitIInv == Init => IInv
<1> SUFFICES ASSUME Init PROVE IInv
  OBVIOUS
<1> USE ConstantsAssumption, NoneAssumption DEF Init, Sides, NoSource, NoFuture, Future,
     HasIndex
<1>1. TypeOK
  <2>1. 0 \in 0 .. TickMod - 1 /\ Faults \in 0 .. Faults
    OBVIOUS
  <2> QED
    BY <2>1 DEF TypeOK
<1>2. Shape
  BY DEF Shape
<1>3. PollerMatchesSlab
  BY DEF PollerMatchesSlab
<1>4. FreshInv
  BY DEF FreshInv
<1>5. WakersAreArmed
  BY DEF WakersAreArmed
<1>6. SleepersHaveWakers
  BY DEF SleepersHaveWakers, NoLostSleeper
<1> QED
  BY <1>1, <1>2, <1>3, <1>4, <1>5, <1>6 DEF IInv

\* Every step of the specification preserves the inductive invariant.
LEMMA NextIInv == IInv /\ [Next]_vars => IInv'
BY TypeStep, ShapeStep, TablesStep, FreshStep, SleepersStep, ArmedStep DEF IInv

\* Every reachable state satisfies the inductive invariant.
THEOREM Invariance == Spec => []IInv
BY InitIInv, NextIInv, PTL DEF Spec

\* Types: in particular the ticker, the ticks and the count of failures stay in range
\* whatever the ticker width.
THEOREM TypeCorrect == Spec => []TypeOK
<1>1. IInv => TypeOK
  BY DEF IInv
<1> QED
  BY <1>1, Invariance, PTL

\* The poller and the slab of sources agree, for any number of handles opened and closed
\* in any order, with descriptors and keys reused and add() failing at will (one source
\* per filter at a time, OneSourcePerFilter).
THEOREM TablesAgree == Spec => []PollerMatchesSlab
<1>1. IInv => PollerMatchesSlab
  BY DEF IInv
<1> QED
  BY <1>1, Invariance, PTL

\* Without failures of modify(), no stored waker is forgotten by the poller.
THEOREM NoForgottenWaker == Spec => []WakersAreArmed
<1>1. IInv => WakersAreArmed
  BY DEF IInv
<1> QED
  BY <1>1, Invariance, PTL

\* Without failures of modify(), no sleeping task loses its waker.
THEOREM NoLostWakeup == Spec => []SleepersHaveWakers
<1>1. IInv => SleepersHaveWakers
  BY DEF IInv
<1> QED
  BY <1>1, Invariance, PTL

\* Ready is answered only after an event was reported for this source and direction
\* since the ticks were remembered, also when the ticker wraps around.
THEOREM NoStaleReadiness == Spec => []OnlyFreshEvents
<1>1. IInv => OnlyFreshEvents
  <2> SUFFICES ASSUME IInv PROVE OnlyFreshEvents
    OBVIOUS
  <2>1. ASSUME NEW r, NEW s, NEW d, Stale(r, s, d)
        PROVE  ~Delivered(r, s, d)
    BY <2>1 DEF Stale, Delivered
  <2>2. \A s \in Sources, d \in Dirs : Delivered(ticks[<<s, d>>], s, d) => ticks[<<s, d>>] # None
    BY DEF Delivered
  <2> QED
    BY <2>1, <2>2 DEF IInv, FreshInv, OnlyFreshEvents
<1> QED
  BY <1>1, Invariance, PTL
=============================================================================
