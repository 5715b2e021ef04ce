---------------------------- MODULE DriverProofs ----------------------------
(***************************************************************************)
(* The safety invariants of Driver for any number of threads in block_on(), *)
(* recursive calls, signallers and tasks outside, and any limit of naps.    *)
(***************************************************************************)
EXTENDS Driver, FiniteSetTheorems, TLAPS

-----------------------------------------------------------------------------
(* The inductive invariant: the properties, and what connects them. *)

MainLabels == {"top", "lock", "trylock", "bump", "wait", "wake", "nap", "napping"}
ThreadLabels == Labels \ {"top", "trylock", "nap", "napping"}

\* Where the guard of an iteration of block_on()'s inner loop lives: io_blocked is set.
BlockedLabels == {"blocked", "bump", "wait", "wake", "unlock", "hog", "hogged", "parked",
                  "again"}
PollingLabels == BlockedLabels \cup {"bump0", "wait0", "wake0"}

\* Each thread runs its own code, and its two flags say where in it the thread is.
Control ==
  /\ pc[Main] \in MainLabels
  /\ \A t \in Threads :
       /\ pc[t] \in ThreadLabels
       /\ t \in ioBlocked <=> pc[t] \in BlockedLabels
       /\ t \in ioPolling <=> pc[t] \in PollingLabels

\* The lock is held where it is needed, and wakers are collected by who then wakes them.
LockHolder ==
  /\ \A r \in Drivers :
       pc[r] \in {"bump", "wait", "wake", "bump0", "wait0", "wake0", "block", "blocked",
                  "hog", "again", "unlock"} <=> lock = r
  /\ toWake # {} => \E r \in Drivers : pc[r] \in {"wake", "wake0"}

\* The calls of block_on() between the two halves of its prologue and its guard.
Counting == {t \in Threads : pc[t] \notin {"out", "leaving"}}

\* BLOCK_ON_COUNT is the number of calls.
CountIsExact == count = Cardinality(Counting)

\* Who wakes is where the code wakes: a thread between unpark() and the look at the flags
\* does not change its own flags, and a signaller wakes one thread at a time.
Wakers ==
  /\ \A t \in Threads : waking[t] # None => pc[t] \in {"wake", "wake0", "poll", "check", "reset"}
  /\ \A w \in Signallers : signalled[w] # None => waking[w] = None

\* NoLostWake, and the thread that is waking others after its own poll.
WakesArrive ==
  \A t \in Threads \cap happened :
    pc[t] \in {"check", "lock", "park", "block", "blocked", "bump", "wait", "wake", "again",
               "hog", "hogged", "parked"} => WakeUnderWay(t)

IInv ==
  /\ TypeOK
  /\ Control
  /\ LockHolder
  /\ CountIsExact
  /\ Wakers
  /\ WokenIsNotBlocked
  /\ WakesArrive

-----------------------------------------------------------------------------
(* Each part of the invariant is kept by every action. *)

\* The calls are some of the threads.
LEMMA CountingFinite ==
  /\ IsFiniteSet(Threads) /\ IsFiniteSet(Counting)
  /\ Cardinality(Counting) \in 0 .. Cardinality(Threads)
<1>1. Counting \in SUBSET Threads
  BY DEF Counting
<1>2. IsFiniteSet(Threads)
  BY DriverAssumption
<1> QED
  BY <1>1, <1>2, FS_Subset, FS_CardinalityType

\* The same in the next state.
LEMMA CountingFiniteNext ==
  Cardinality(Counting') \in 0 .. Cardinality(Threads)
<1>1. Counting' \in SUBSET Threads
  BY DEF Counting
<1>2. IsFiniteSet(Threads)
  BY DriverAssumption
<1> QED
  BY <1>1, <1>2, FS_Subset, FS_CardinalityType

\* Every step keeps the types.
LEMMA TypeStep ==
  ASSUME TypeOK, Control, Next, CountIsExact'
  PROVE  TypeOK'
<1> USE DriverAssumption DEF Goto, envVars, mainVars, flagVars, Drivers, Clients, TypeOK,
      Labels
<1>1. CASE \E c \in Clients : IoEvent(c)
  BY <1>1 DEF IoEvent
<1>2. CASE \E c \in Outside : OutsideWaits(c)
  BY <1>2 DEF OutsideWaits
<1>3. CASE \E w \in Signallers, t \in Threads : Signal(w, t)
  BY <1>3 DEF Signal
<1>4. CASE \E t \in Threads : Call(t)
  <2>1. PICK t \in Threads : Call(t)
    BY <1>4
  <2>2. PICK k \in Kinds(t) : kind' = [kind EXCEPT ![t] = k]
    BY <2>1 DEF Call
  <2>3. k \in {"io", "signal"}
    BY DEF Kinds
  <2>4. kind' \in [Threads -> {"none", "io", "signal"}]
    BY <2>2, <2>3
  <2>5. waking' \in [Drivers \cup Signallers -> Threads \cup {None}]
    BY <2>1 DEF Call, Fresh
  <2>6. signalled' \in [Signallers -> Threads \cup {None}]
    BY <2>1 DEF Call, Fresh
  <2>7. token' \subseteq token /\ toWake' \subseteq toWake
    BY <2>1 DEF Call, Fresh
  <2>8. count' \in 0 .. Cardinality(Threads)
    BY CountingFiniteNext DEF CountIsExact
  <2> QED
    BY <2>1, <2>4, <2>5, <2>6, <2>7, <2>8 DEF Call
<1>5. CASE \E t \in Threads : SelfWake(t)
  BY <1>5 DEF SelfWake, Unpark, Parker
<1>6. CASE \E t \in Threads : Panic(t)
  BY <1>6 DEF Panic
<1>7. CASE \E r \in Drivers : WaitNothing(r)
  BY <1>7 DEF WaitNothing
<1>8. CASE \E w \in Signallers : SignallerWakes(w)
  BY <1>8 DEF SignallerWakes, Unpark, Parker
<1>9. CASE \E r \in Drivers \cup Signallers : WakeCheck(r)
  BY <1>9 DEF WakeCheck
<1>10. CASE \E r \in Drivers : Bump(r)
  BY <1>10 DEF Bump
<1>11. CASE \E r \in Drivers : Wait(r)
  <2>1. notified' \in BOOLEAN
    BY <1>11 DEF Wait
  <2> QED
    BY <1>11, <2>1 DEF Wait
<1>12. CASE \E r \in Drivers, c \in Clients : WakeClient(r, c)
  BY <1>12 DEF WakeClient, Unpark, Parker
<1>13. CASE \E t \in Threads : PollFuture(t)
  BY <1>13 DEF PollFuture
<1>14. CASE \E t \in Threads : Reset(t)
  BY <1>14 DEF Reset, TakeToken, Parker
<1>15. CASE \E t \in Threads : Leave(t)
  <2>1. count' \in 0 .. Cardinality(Threads)
    BY CountingFiniteNext DEF CountIsExact
  <2> QED
    BY <1>15, <2>1 DEF Leave
<1>16. CASE \E t \in Threads : UnparkMain(t)
  BY <1>16 DEF UnparkMain
<1>17. CASE \E t \in Threads : Check(t)
  BY <1>17 DEF Check, TakeToken, Parker
<1>18. CASE \E t \in Threads : TryLock0(t)
  BY <1>18 DEF TryLock0
<1>19. CASE \E t \in Threads : EndReact0(t)
  BY <1>19 DEF EndReact0, WokeAll
<1>20. CASE \E t \in Threads : TryLock(t)
  BY <1>20 DEF TryLock
<1>21. CASE \E t \in Threads : Block(t)
  BY <1>21 DEF Block
<1>22. CASE \E t \in Threads : CheckBlocked(t)
  BY <1>22 DEF CheckBlocked, TakeToken, Parker
<1>23. CASE \E t \in Threads : CheckReacted(t)
  BY <1>23 DEF CheckReacted, TakeToken, Parker, WokeAll
<1>24. CASE \E t \in Threads : Unblock(t)
  BY <1>24 DEF Unblock
<1>25. CASE \E t \in Threads : Hog(t)
  BY <1>25 DEF Hog
<1>26. CASE \E t \in Threads : Park(t)
  BY <1>26 DEF Park, Parker
<1>27. CASE MainTop
  <2>1. ticked' \in BOOLEAN
    BY <1>27 DEF MainTop
  <2> QED
    BY <1>27, <2>1 DEF MainTop
<1>28. CASE MainLock
  BY <1>28 DEF MainLock
<1>29. CASE MainReacted
  <2>1. ticked' \in BOOLEAN
    BY <1>29 DEF MainReacted
  <2> QED
    BY <1>29, <2>1 DEF MainReacted
<1>30. CASE MainNap
  BY <1>30 DEF MainNap
<1>31. CASE MainNapEnds
  <2>1. ticked' \in BOOLEAN
    BY <1>31 DEF MainNapEnds
  <2>2. sleeps' \in 0 .. SleepLimit
    BY <1>31 DEF MainNapEnds
  <2> QED
    BY <1>31, <2>1, <2>2 DEF MainNapEnds
<1> QED
    BY <1>1, <1>2, <1>3, <1>4, <1>5, <1>6, <1>7, <1>8, <1>9, <1>10, <1>11, <1>12, <1>13,
     <1>14, <1>15, <1>16, <1>17, <1>18, <1>19, <1>20, <1>21, <1>22, <1>23, <1>24, <1>25,
     <1>26, <1>27, <1>28, <1>29, <1>30, <1>31 DEF Next, Environment, React, BlockOn,
     MainLoop

\* Every step keeps the flags of a thread in line with where it is.
LEMMA ControlStep ==
  ASSUME TypeOK, Control, Next
  PROVE  Control'
<1> USE DriverAssumption DEF Goto, envVars, mainVars, flagVars, Drivers, Clients, TypeOK,
      Control, MainLabels, ThreadLabels, Labels, BlockedLabels, PollingLabels
<1>1. CASE \E c \in Clients : IoEvent(c)
  BY <1>1 DEF IoEvent
<1>2. CASE \E c \in Outside : OutsideWaits(c)
  BY <1>2 DEF OutsideWaits
<1>3. CASE \E w \in Signallers, t \in Threads : Signal(w, t)
  BY <1>3 DEF Signal
<1>4. CASE \E t \in Threads : Call(t)
  BY <1>4 DEF Call, MayCall, Fresh, Counted
<1>5. CASE \E t \in Threads : SelfWake(t)
  BY <1>5 DEF SelfWake, Unpark, Parker
<1>6. CASE \E t \in Threads : Panic(t)
  BY <1>6 DEF Panic
<1>7. CASE \E r \in Drivers : WaitNothing(r)
  BY <1>7 DEF WaitNothing
<1>8. CASE \E w \in Signallers : SignallerWakes(w)
  BY <1>8 DEF SignallerWakes, Unpark, Parker
<1>9. CASE \E r \in Drivers \cup Signallers : WakeCheck(r)
  BY <1>9 DEF WakeCheck
<1>10. CASE \E r \in Drivers : Bump(r)
  BY <1>10 DEF Bump
<1>11. CASE \E r \in Drivers : Wait(r)
  BY <1>11 DEF Wait
<1>12. CASE \E r \in Drivers, c \in Clients : WakeClient(r, c)
  BY <1>12 DEF WakeClient, Unpark, Parker
<1>13. CASE \E t \in Threads : PollFuture(t)
  BY <1>13 DEF PollFuture
<1>14. CASE \E t \in Threads : Reset(t)
  BY <1>14 DEF Reset, TakeToken, Parker
<1>15. CASE \E t \in Threads : Leave(t)
  BY <1>15 DEF Leave
<1>16. CASE \E t \in Threads : UnparkMain(t)
  BY <1>16 DEF UnparkMain
<1>17. CASE \E t \in Threads : Check(t)
  BY <1>17 DEF Check, TakeToken, Parker
<1>18. CASE \E t \in Threads : TryLock0(t)
  BY <1>18 DEF TryLock0
<1>19. CASE \E t \in Threads : EndReact0(t)
  BY <1>19 DEF EndReact0, WokeAll
<1>20. CASE \E t \in Threads : TryLock(t)
  BY <1>20 DEF TryLock
<1>21. CASE \E t \in Threads : Block(t)
  BY <1>21 DEF Block
<1>22. CASE \E t \in Threads : CheckBlocked(t)
  BY <1>22 DEF CheckBlocked, TakeToken, Parker
<1>23. CASE \E t \in Threads : CheckReacted(t)
  BY <1>23 DEF CheckReacted, TakeToken, Parker, WokeAll
<1>24. CASE \E t \in Threads : Unblock(t)
  BY <1>24 DEF Unblock
<1>25. CASE \E t \in Threads : Hog(t)
  BY <1>25 DEF Hog
<1>26. CASE \E t \in Threads : Park(t)
  BY <1>26 DEF Park, Parker
<1>27. CASE MainTop
  BY <1>27 DEF MainTop
<1>28. CASE MainLock
  BY <1>28 DEF MainLock
<1>29. CASE MainReacted
  BY <1>29 DEF MainReacted, WokeAll
<1>30. CASE MainNap
  BY <1>30 DEF MainNap
<1>31. CASE MainNapEnds
  BY <1>31 DEF MainNapEnds
<1> QED
    BY <1>1, <1>2, <1>3, <1>4, <1>5, <1>6, <1>7, <1>8, <1>9, <1>10, <1>11, <1>12, <1>13,
     <1>14, <1>15, <1>16, <1>17, <1>18, <1>19, <1>20, <1>21, <1>22, <1>23, <1>24, <1>25,
     <1>26, <1>27, <1>28, <1>29, <1>30, <1>31 DEF Next, Environment, React, BlockOn,
     MainLoop

\* Every step keeps the lock with who uses the reactor.
LEMMA LockStep ==
  ASSUME TypeOK, Control, LockHolder, Next
  PROVE  LockHolder'
<1> USE DriverAssumption DEF Goto, envVars, mainVars, flagVars, Drivers, Clients, TypeOK,
      Control, MainLabels, ThreadLabels, Labels, LockHolder
<1>1. CASE \E c \in Clients : IoEvent(c)
  BY <1>1 DEF IoEvent
<1>2. CASE \E c \in Outside : OutsideWaits(c)
  BY <1>2 DEF OutsideWaits
<1>3. CASE \E w \in Signallers, t \in Threads : Signal(w, t)
  BY <1>3 DEF Signal
<1>4. CASE \E t \in Threads : Call(t)
  BY <1>4 DEF Call, MayCall, Fresh, Counted
<1>5. CASE \E t \in Threads : SelfWake(t)
  BY <1>5 DEF SelfWake, Unpark, Parker
<1>6. CASE \E t \in Threads : Panic(t)
  BY <1>6 DEF Panic
<1>7. CASE \E r \in Drivers : WaitNothing(r)
  BY <1>7 DEF WaitNothing
<1>8. CASE \E w \in Signallers : SignallerWakes(w)
  BY <1>8 DEF SignallerWakes, Unpark, Parker
<1>9. CASE \E r \in Drivers \cup Signallers : WakeCheck(r)
  BY <1>9 DEF WakeCheck
<1>10. CASE \E r \in Drivers : Bump(r)
  BY <1>10 DEF Bump
<1>11. CASE \E r \in Drivers : Wait(r)
  BY <1>11 DEF Wait
<1>12. CASE \E r \in Drivers, c \in Clients : WakeClient(r, c)
  BY <1>12 DEF WakeClient, Unpark, Parker
<1>13. CASE \E t \in Threads : PollFuture(t)
  BY <1>13 DEF PollFuture
<1>14. CASE \E t \in Threads : Reset(t)
  BY <1>14 DEF Reset, TakeToken, Parker
<1>15. CASE \E t \in Threads : Leave(t)
  BY <1>15 DEF Leave
<1>16. CASE \E t \in Threads : UnparkMain(t)
  BY <1>16 DEF UnparkMain
<1>17. CASE \E t \in Threads : Check(t)
  BY <1>17 DEF Check, TakeToken, Parker
<1>18. CASE \E t \in Threads : TryLock0(t)
  BY <1>18 DEF TryLock0
<1>19. CASE \E t \in Threads : EndReact0(t)
  BY <1>19 DEF EndReact0, WokeAll
<1>20. CASE \E t \in Threads : TryLock(t)
  BY <1>20 DEF TryLock
<1>21. CASE \E t \in Threads : Block(t)
  BY <1>21 DEF Block
<1>22. CASE \E t \in Threads : CheckBlocked(t)
  BY <1>22 DEF CheckBlocked, TakeToken, Parker
<1>23. CASE \E t \in Threads : CheckReacted(t)
  BY <1>23 DEF CheckReacted, TakeToken, Parker, WokeAll
<1>24. CASE \E t \in Threads : Unblock(t)
  BY <1>24 DEF Unblock
<1>25. CASE \E t \in Threads : Hog(t)
  BY <1>25 DEF Hog
<1>26. CASE \E t \in Threads : Park(t)
  BY <1>26 DEF Park, Parker
<1>27. CASE MainTop
  BY <1>27 DEF MainTop
<1>28. CASE MainLock
  BY <1>28 DEF MainLock
<1>29. CASE MainReacted
  BY <1>29 DEF MainReacted, WokeAll
<1>30. CASE MainNap
  BY <1>30 DEF MainNap
<1>31. CASE MainNapEnds
  BY <1>31 DEF MainNapEnds
<1> QED
    BY <1>1, <1>2, <1>3, <1>4, <1>5, <1>6, <1>7, <1>8, <1>9, <1>10, <1>11, <1>12, <1>13,
     <1>14, <1>15, <1>16, <1>17, <1>18, <1>19, <1>20, <1>21, <1>22, <1>23, <1>24, <1>25,
     <1>26, <1>27, <1>28, <1>29, <1>30, <1>31 DEF Next, Environment, React, BlockOn,
     MainLoop

\* Only a call and its guard change BLOCK_ON_COUNT, and they change it with the calls.
LEMMA CountStep ==
  ASSUME TypeOK, Control, CountIsExact, Next
  PROVE  CountIsExact'
<1> USE DriverAssumption DEF Goto, envVars, mainVars, flagVars, Drivers, Clients, TypeOK,
      Control, MainLabels, ThreadLabels, Labels, Counting
<1> DEFINE Same == Counting' = Counting /\ count' = count
<1>1. ASSUME \E c \in Clients : IoEvent(c) PROVE Same
  BY <1>1 DEF IoEvent
<1>2. ASSUME \E c \in Outside : OutsideWaits(c) PROVE Same
  BY <1>2 DEF OutsideWaits
<1>3. ASSUME \E w \in Signallers, t \in Threads : Signal(w, t) PROVE Same
  BY <1>3 DEF Signal
<1>4. CASE \E t \in Threads : Call(t)
  <2>1. PICK t \in Threads : Call(t)
    BY <1>4
  <2>2. Counting' = Counting \cup {t} /\ t \notin Counting
    BY <2>1 DEF Call
  <2>3. Cardinality(Counting \cup {t}) = Cardinality(Counting) + 1
    BY <2>2, CountingFinite, FS_AddElement
  <2> QED
    BY <2>1, <2>2, <2>3 DEF Call, Counted, CountIsExact
<1>5. ASSUME \E t \in Threads : SelfWake(t) PROVE Same
  BY <1>5 DEF SelfWake, Unpark, Parker
<1>6. ASSUME \E t \in Threads : Panic(t) PROVE Same
  BY <1>6 DEF Panic
<1>7. ASSUME \E r \in Drivers : WaitNothing(r) PROVE Same
  BY <1>7 DEF WaitNothing
<1>8. ASSUME \E w \in Signallers : SignallerWakes(w) PROVE Same
  BY <1>8 DEF SignallerWakes, Unpark, Parker
<1>9. ASSUME \E r \in Drivers \cup Signallers : WakeCheck(r) PROVE Same
  BY <1>9 DEF WakeCheck
<1>10. ASSUME \E r \in Drivers : Bump(r) PROVE Same
  BY <1>10 DEF Bump
<1>11. ASSUME \E r \in Drivers : Wait(r) PROVE Same
  BY <1>11 DEF Wait
<1>12. ASSUME \E r \in Drivers, c \in Clients : WakeClient(r, c) PROVE Same
  BY <1>12 DEF WakeClient, Unpark, Parker
<1>13. ASSUME \E t \in Threads : PollFuture(t) PROVE Same
  BY <1>13 DEF PollFuture
<1>14. ASSUME \E t \in Threads : Reset(t) PROVE Same
  BY <1>14 DEF Reset, TakeToken, Parker
<1>15. CASE \E t \in Threads : Leave(t)
  <2>1. PICK t \in Threads : Leave(t)
    BY <1>15
  <2>2. Counting' = Counting \ {t} /\ t \in Counting
    BY <2>1 DEF Leave
  <2> HIDE DEF Counting
  <2>3. Cardinality(Counting \ {t}) = Cardinality(Counting) - 1
    BY <2>2, CountingFinite, FS_RemoveElement
  <2> QED
    BY <2>1, <2>2, <2>3 DEF Leave, CountIsExact
<1>16. ASSUME \E t \in Threads : UnparkMain(t) PROVE Same
  BY <1>16 DEF UnparkMain
<1>17. ASSUME \E t \in Threads : Check(t) PROVE Same
  BY <1>17 DEF Check, TakeToken, Parker
<1>18. ASSUME \E t \in Threads : TryLock0(t) PROVE Same
  BY <1>18 DEF TryLock0
<1>19. ASSUME \E t \in Threads : EndReact0(t) PROVE Same
  BY <1>19 DEF EndReact0, WokeAll
<1>20. ASSUME \E t \in Threads : TryLock(t) PROVE Same
  BY <1>20 DEF TryLock
<1>21. ASSUME \E t \in Threads : Block(t) PROVE Same
  BY <1>21 DEF Block
<1>22. ASSUME \E t \in Threads : CheckBlocked(t) PROVE Same
  BY <1>22 DEF CheckBlocked, TakeToken, Parker
<1>23. ASSUME \E t \in Threads : CheckReacted(t) PROVE Same
  BY <1>23 DEF CheckReacted, TakeToken, Parker, WokeAll
<1>24. ASSUME \E t \in Threads : Unblock(t) PROVE Same
  BY <1>24 DEF Unblock
<1>25. ASSUME \E t \in Threads : Hog(t) PROVE Same
  BY <1>25 DEF Hog
<1>26. ASSUME \E t \in Threads : Park(t) PROVE Same
  BY <1>26 DEF Park, Parker
<1>27. ASSUME MainTop PROVE Same
  BY <1>27 DEF MainTop
<1>28. ASSUME MainLock PROVE Same
  BY <1>28 DEF MainLock
<1>29. ASSUME MainReacted PROVE Same
  BY <1>29 DEF MainReacted, WokeAll
<1>30. ASSUME MainNap PROVE Same
  BY <1>30 DEF MainNap
<1>31. ASSUME MainNapEnds PROVE Same
  BY <1>31 DEF MainNapEnds
<1>32. Same => CountIsExact'
  BY DEF CountIsExact
<1> QED
    BY <1>1, <1>2, <1>3, <1>4, <1>5, <1>6, <1>7, <1>8, <1>9, <1>10, <1>11, <1>12, <1>13,
     <1>14, <1>15, <1>16, <1>17, <1>18, <1>19, <1>20, <1>21, <1>22, <1>23, <1>24, <1>25,
     <1>26, <1>27, <1>28, <1>29, <1>30, <1>31, <1>32 DEF Next, Environment, React,
     BlockOn, MainLoop

\* Every step keeps the wakes where the code makes them.
LEMMA WakersStep ==
  ASSUME TypeOK, Control, Wakers, Next
  PROVE  Wakers'
<1> USE DriverAssumption DEF Goto, envVars, mainVars, flagVars, Drivers, Clients, TypeOK,
      Control, MainLabels, ThreadLabels, Labels, Wakers
<1>1. CASE \E c \in Clients : IoEvent(c)
  BY <1>1 DEF IoEvent
<1>2. CASE \E c \in Outside : OutsideWaits(c)
  BY <1>2 DEF OutsideWaits
<1>3. CASE \E w \in Signallers, t \in Threads : Signal(w, t)
  BY <1>3 DEF Signal
<1>4. CASE \E t \in Threads : Call(t)
  BY <1>4 DEF Call, MayCall, Fresh, Counted
<1>5. CASE \E t \in Threads : SelfWake(t)
  BY <1>5 DEF SelfWake, Unpark, Parker
<1>6. CASE \E t \in Threads : Panic(t)
  BY <1>6 DEF Panic
<1>7. CASE \E r \in Drivers : WaitNothing(r)
  BY <1>7 DEF WaitNothing
<1>8. CASE \E w \in Signallers : SignallerWakes(w)
  BY <1>8 DEF SignallerWakes, Unpark, Parker
<1>9. CASE \E r \in Drivers \cup Signallers : WakeCheck(r)
  BY <1>9 DEF WakeCheck
<1>10. CASE \E r \in Drivers : Bump(r)
  BY <1>10 DEF Bump
<1>11. CASE \E r \in Drivers : Wait(r)
  BY <1>11 DEF Wait
<1>12. CASE \E r \in Drivers, c \in Clients : WakeClient(r, c)
  BY <1>12 DEF WakeClient, Unpark, Parker
<1>13. CASE \E t \in Threads : PollFuture(t)
  BY <1>13 DEF PollFuture
<1>14. CASE \E t \in Threads : Reset(t)
  BY <1>14 DEF Reset, TakeToken, Parker
<1>15. CASE \E t \in Threads : Leave(t)
  BY <1>15 DEF Leave
<1>16. CASE \E t \in Threads : UnparkMain(t)
  BY <1>16 DEF UnparkMain
<1>17. CASE \E t \in Threads : Check(t)
  BY <1>17 DEF Check, TakeToken, Parker
<1>18. CASE \E t \in Threads : TryLock0(t)
  BY <1>18 DEF TryLock0
<1>19. CASE \E t \in Threads : EndReact0(t)
  BY <1>19 DEF EndReact0, WokeAll
<1>20. CASE \E t \in Threads : TryLock(t)
  BY <1>20 DEF TryLock
<1>21. CASE \E t \in Threads : Block(t)
  BY <1>21 DEF Block
<1>22. CASE \E t \in Threads : CheckBlocked(t)
  BY <1>22 DEF CheckBlocked, TakeToken, Parker
<1>23. CASE \E t \in Threads : CheckReacted(t)
  BY <1>23 DEF CheckReacted, TakeToken, Parker, WokeAll
<1>24. CASE \E t \in Threads : Unblock(t)
  BY <1>24 DEF Unblock
<1>25. CASE \E t \in Threads : Hog(t)
  BY <1>25 DEF Hog
<1>26. CASE \E t \in Threads : Park(t)
  BY <1>26 DEF Park, Parker
<1>27. CASE MainTop
  BY <1>27 DEF MainTop
<1>28. CASE MainLock
  BY <1>28 DEF MainLock
<1>29. CASE MainReacted
  BY <1>29 DEF MainReacted, WokeAll
<1>30. CASE MainNap
  BY <1>30 DEF MainNap
<1>31. CASE MainNapEnds
  BY <1>31 DEF MainNapEnds
<1> QED
    BY <1>1, <1>2, <1>3, <1>4, <1>5, <1>6, <1>7, <1>8, <1>9, <1>10, <1>11, <1>12, <1>13,
     <1>14, <1>15, <1>16, <1>17, <1>18, <1>19, <1>20, <1>21, <1>22, <1>23, <1>24, <1>25,
     <1>26, <1>27, <1>28, <1>29, <1>30, <1>31 DEF Next, Environment, React, BlockOn,
     MainLoop

\* Every step keeps a woken thread out of a poll that nobody interrupts.
LEMMA WokenStep ==
  ASSUME TypeOK, Control, LockHolder, Wakers, WokenIsNotBlocked, Next
  PROVE  WokenIsNotBlocked'
<1> USE DriverAssumption DEF Goto, envVars, mainVars, flagVars, Drivers, Clients, TypeOK,
      Control, MainLabels, ThreadLabels, Labels, Wakers, LockHolder, WokenIsNotBlocked,
      BlockedLabels, PollingLabels
<1>1. CASE \E c \in Clients : IoEvent(c)
  BY <1>1 DEF IoEvent
<1>2. CASE \E c \in Outside : OutsideWaits(c)
  BY <1>2 DEF OutsideWaits
<1>3. CASE \E w \in Signallers, t \in Threads : Signal(w, t)
  BY <1>3 DEF Signal
<1>4. CASE \E t \in Threads : Call(t)
  BY <1>4 DEF Call, MayCall, Fresh, Counted
<1>5. CASE \E t \in Threads : SelfWake(t)
  BY <1>5 DEF SelfWake, Unpark, Parker
<1>6. CASE \E t \in Threads : Panic(t)
  BY <1>6 DEF Panic
<1>7. CASE \E r \in Drivers : WaitNothing(r)
  BY <1>7 DEF WaitNothing
<1>8. CASE \E w \in Signallers : SignallerWakes(w)
  BY <1>8 DEF SignallerWakes, Unpark, Parker
<1>9. CASE \E r \in Drivers \cup Signallers : WakeCheck(r)
  <2>1. PICK r \in Drivers \cup Signallers : WakeCheck(r)
    BY <1>9
  <2> SUFFICES ASSUME NEW t \in Threads, t \in token, pc[t] \in {"bump", "wait"}
               PROVE  notified' \/ \E q \in (Drivers \cup Signallers) \ ioPolling : waking'[q] = t
    BY <2>1 DEF WakeCheck
  <2>2. CASE notified
    BY <2>1, <2>2 DEF WakeCheck
  <2>3. CASE \E q \in (Drivers \cup Signallers) \ ioPolling : waking[q] = t
    <3>1. PICK q \in (Drivers \cup Signallers) \ ioPolling : waking[q] = t
      BY <2>3
    <3>2. CASE q = r
      <4>1. t \in ioBlocked
        OBVIOUS
      <4> QED
        BY <2>1, <3>1, <3>2, <4>1 DEF WakeCheck
    <3>3. CASE q # r
      BY <2>1, <3>1, <3>3 DEF WakeCheck
    <3> QED
      BY <3>2, <3>3
  <2> QED
    BY <2>2, <2>3
<1>10. CASE \E r \in Drivers : Bump(r)
  BY <1>10 DEF Bump
<1>11. CASE \E r \in Drivers : Wait(r)
  BY <1>11 DEF Wait
<1>12. CASE \E r \in Drivers, c \in Clients : WakeClient(r, c)
  BY <1>12 DEF WakeClient, Unpark, Parker
<1>13. CASE \E t \in Threads : PollFuture(t)
  BY <1>13 DEF PollFuture
<1>14. CASE \E t \in Threads : Reset(t)
  BY <1>14 DEF Reset, TakeToken, Parker
<1>15. CASE \E t \in Threads : Leave(t)
  BY <1>15 DEF Leave
<1>16. CASE \E t \in Threads : UnparkMain(t)
  BY <1>16 DEF UnparkMain
<1>17. CASE \E t \in Threads : Check(t)
  BY <1>17 DEF Check, TakeToken, Parker
<1>18. CASE \E t \in Threads : TryLock0(t)
  BY <1>18 DEF TryLock0
<1>19. CASE \E t \in Threads : EndReact0(t)
  BY <1>19 DEF EndReact0, WokeAll
<1>20. CASE \E t \in Threads : TryLock(t)
  BY <1>20 DEF TryLock
<1>21. CASE \E t \in Threads : Block(t)
  BY <1>21 DEF Block
<1>22. CASE \E t \in Threads : CheckBlocked(t)
  BY <1>22 DEF CheckBlocked, TakeToken, Parker
<1>23. CASE \E t \in Threads : CheckReacted(t)
  BY <1>23 DEF CheckReacted, TakeToken, Parker, WokeAll
<1>24. CASE \E t \in Threads : Unblock(t)
  BY <1>24 DEF Unblock
<1>25. CASE \E t \in Threads : Hog(t)
  BY <1>25 DEF Hog
<1>26. CASE \E t \in Threads : Park(t)
  BY <1>26 DEF Park, Parker
<1>27. CASE MainTop
  BY <1>27 DEF MainTop
<1>28. CASE MainLock
  BY <1>28 DEF MainLock
<1>29. CASE MainReacted
  BY <1>29 DEF MainReacted, WokeAll
<1>30. CASE MainNap
  BY <1>30 DEF MainNap
<1>31. CASE MainNapEnds
  BY <1>31 DEF MainNapEnds
<1> QED
    BY <1>1, <1>2, <1>3, <1>4, <1>5, <1>6, <1>7, <1>8, <1>9, <1>10, <1>11, <1>12, <1>13,
     <1>14, <1>15, <1>16, <1>17, <1>18, <1>19, <1>20, <1>21, <1>22, <1>23, <1>24, <1>25,
     <1>26, <1>27, <1>28, <1>29, <1>30, <1>31 DEF Next, Environment, React, BlockOn,
     MainLoop

\* Every step keeps the last wake of a thread under way.
LEMMA ArriveStep ==
  ASSUME TypeOK, Control, LockHolder, WakesArrive, Next
  PROVE  WakesArrive'
<1> USE DriverAssumption DEF Goto, envVars, mainVars, flagVars, Drivers, Clients, TypeOK,
      Control, MainLabels, ThreadLabels, Labels, LockHolder, WakesArrive, WakeUnderWay
<1>1. CASE \E c \in Clients : IoEvent(c)
  BY <1>1 DEF IoEvent
<1>2. CASE \E c \in Outside : OutsideWaits(c)
  BY <1>2 DEF OutsideWaits
<1>3. CASE \E w \in Signallers, t \in Threads : Signal(w, t)
  BY <1>3 DEF Signal
<1>4. CASE \E t \in Threads : Call(t)
  BY <1>4 DEF Call, MayCall, Fresh, Counted
<1>5. CASE \E t \in Threads : SelfWake(t)
  BY <1>5 DEF SelfWake, Unpark, Parker
<1>6. CASE \E t \in Threads : Panic(t)
  BY <1>6 DEF Panic
<1>7. CASE \E r \in Drivers : WaitNothing(r)
  BY <1>7 DEF WaitNothing
<1>8. CASE \E w \in Signallers : SignallerWakes(w)
  BY <1>8 DEF SignallerWakes, Unpark, Parker
<1>9. CASE \E r \in Drivers \cup Signallers : WakeCheck(r)
  BY <1>9 DEF WakeCheck
<1>10. CASE \E r \in Drivers : Bump(r)
  BY <1>10 DEF Bump
<1>11. CASE \E r \in Drivers : Wait(r)
  BY <1>11 DEF Wait
<1>12. CASE \E r \in Drivers, c \in Clients : WakeClient(r, c)
  BY <1>12 DEF WakeClient, Unpark, Parker
<1>13. CASE \E t \in Threads : PollFuture(t)
  BY <1>13 DEF PollFuture
<1>14. CASE \E t \in Threads : Reset(t)
  BY <1>14 DEF Reset, TakeToken, Parker
<1>15. CASE \E t \in Threads : Leave(t)
  BY <1>15 DEF Leave
<1>16. CASE \E t \in Threads : UnparkMain(t)
  BY <1>16 DEF UnparkMain
<1>17. CASE \E t \in Threads : Check(t)
  BY <1>17 DEF Check, TakeToken, Parker
<1>18. CASE \E t \in Threads : TryLock0(t)
  BY <1>18 DEF TryLock0
<1>19. CASE \E t \in Threads : EndReact0(t)
  BY <1>19 DEF EndReact0, WokeAll
<1>20. CASE \E t \in Threads : TryLock(t)
  BY <1>20 DEF TryLock
<1>21. CASE \E t \in Threads : Block(t)
  BY <1>21 DEF Block
<1>22. CASE \E t \in Threads : CheckBlocked(t)
  BY <1>22 DEF CheckBlocked, TakeToken, Parker
<1>23. CASE \E t \in Threads : CheckReacted(t)
  BY <1>23 DEF CheckReacted, TakeToken, Parker, WokeAll
<1>24. CASE \E t \in Threads : Unblock(t)
  BY <1>24 DEF Unblock
<1>25. CASE \E t \in Threads : Hog(t)
  BY <1>25 DEF Hog
<1>26. CASE \E t \in Threads : Park(t)
  BY <1>26 DEF Park, Parker
<1>27. CASE MainTop
  BY <1>27 DEF MainTop
<1>28. CASE MainLock
  BY <1>28 DEF MainLock
<1>29. CASE MainReacted
  BY <1>29 DEF MainReacted, WokeAll
<1>30. CASE MainNap
  BY <1>30 DEF MainNap
<1>31. CASE MainNapEnds
  BY <1>31 DEF MainNapEnds
<1> QED
    BY <1>1, <1>2, <1>3, <1>4, <1>5, <1>6, <1>7, <1>8, <1>9, <1>10, <1>11, <1>12, <1>13,
     <1>14, <1>15, <1>16, <1>17, <1>18, <1>19, <1>20, <1>21, <1>22, <1>23, <1>24, <1>25,
     <1>26, <1>27, <1>28, <1>29, <1>30, <1>31 DEF Next, Environment, React, BlockOn,
     MainLoop

-----------------------------------------------------------------------------
(* The invariant holds initially and every step keeps it. *)

\* Initially nobody runs block_on() and the lock is free.
LEMMA InitIInv == Init => IInv
<1> SUFFICES ASSUME Init PROVE IInv
  OBVIOUS
<1>1. TypeOK
  <2>1. ticked \in BOOLEAN /\ notified \in BOOLEAN
    BY DEF Init
  <2>2. count \in 0 .. Cardinality(Threads)
    BY CountingFinite, FS_CardinalityType DEF Init
  <2>3. sleeps \in 0 .. SleepLimit
    BY DriverAssumption DEF Init
  <2> QED
    BY <2>1, <2>2, <2>3 DEF Init, TypeOK, Labels, Drivers, Clients
<1>2. Control /\ LockHolder /\ Wakers
  BY DriverAssumption DEF Init, Control, LockHolder, Wakers, MainLabels, ThreadLabels, Labels,
     BlockedLabels, PollingLabels, Drivers
<1>3. CountIsExact
  <2>1. Counting = {}
    BY DriverAssumption DEF Init, Counting, Drivers
  <2> QED
    BY <2>1, FS_EmptySet DEF Init, CountIsExact
<1>4. WokenIsNotBlocked /\ WakesArrive
  BY DEF Init, WokenIsNotBlocked, WakesArrive
<1> QED
  BY <1>1, <1>2, <1>3, <1>4 DEF IInv

\* Every step of a thread, a waker, "async-io" or the operating system keeps it.
LEMMA StepIInv == IInv /\ [Next]_vars => IInv'
<1> SUFFICES ASSUME IInv, [Next]_vars PROVE IInv'
  OBVIOUS
<1>1. CASE Next
  BY <1>1, CountStep, TypeStep, ControlStep, LockStep, WakersStep, WokenStep, ArriveStep
     DEF IInv
<1>2. CASE UNCHANGED vars
  BY <1>2 DEF vars, IInv, TypeOK, Control, LockHolder, CountIsExact, Counting, Wakers,
     WokenIsNotBlocked, WakesArrive, WakeUnderWay
<1> QED
  BY <1>1, <1>2

\* So it holds in every reachable state.
LEMMA InvariantIInv == Spec => []IInv
BY InitIInv, StepIInv, PTL DEF Spec

-----------------------------------------------------------------------------
\* Every state is well typed; BLOCK_ON_COUNT neither underflows nor exceeds the threads.
THEOREM TypeCorrect == Spec => []TypeOK
<1>1. IInv => TypeOK
  BY DEF IInv
<1> QED
  BY <1>1, InvariantIInv, PTL

\* BLOCK_ON_COUNT, from which "async-io" concludes whether it may nap, is at every moment
\* the number of block_on() calls that have entered and not yet left, panics and recursive
\* calls included.
THEOREM CountExact == Spec => []CountIsExact
<1>1. IInv => CountIsExact
  BY DEF IInv
<1> QED
  BY <1>1, InvariantIInv, PTL

\* However many threads call block_on(), one driver at a time uses the reactor, and it is
\* the one that holds the lock on the events.
THEOREM AlwaysOneDriver == Spec => []OneDriver
<1>1. IInv => OneDriver
  BY DriverAssumption DEF IInv, TypeOK, Control, LockHolder, OneDriver, BlockedLabels, Drivers
<1> QED
  BY <1>1, InvariantIInv, PTL

\* A thread that was woken never stays in a poll of the operating system that nobody is
\* about to interrupt: the token, io_blocked and notify() suffice in every order.
THEOREM AlwaysWokenIsNotBlocked == Spec => []WokenIsNotBlocked
<1>1. IInv => WokenIsNotBlocked
  BY DEF IInv
<1> QED
  BY <1>1, InvariantIInv, PTL

\* No wake of a block_on() call is lost: whoever parks or waits before polling its future
\* again, though the future is ready, still has a wake to come.
THEOREM AlwaysNoLostWake == Spec => []NoLostWake
<1>1. IInv => NoLostWake
  BY DEF IInv, WakesArrive, NoLostWake
<1> QED
  BY <1>1, InvariantIInv, PTL

=============================================================================
