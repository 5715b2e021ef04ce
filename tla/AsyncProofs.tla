---------------------------- MODULE AsyncProofs ----------------------------
(***************************************************************************)
(* Module Async uses the reactor only through its operations, so that the  *)
(* invariants of IoSource hold of it; and it implements BlockingIo.        *)
(***************************************************************************)
EXTENDS Async, IoSourceProofs

-----------------------------------------------------------------------------
(* The invariant of the calls. *)

OpType == [dir : Dirs, takes : BOOLEAN]

CallType ==
  /\ call \in [Tasks -> [pc : {"idle", "try", "wait", "asleep"}, src : Sources \cup {None},
                         op : OpType \cup {None}, fut : Futures \cup {None}]]
  /\ avail \in [Fds \X Dirs -> Nat]
  /\ hup \subseteq Fds
  /\ supply \in Nat

\* A call in progress borrows a handle, whose source is live; the call of an async method
\* that waits has its future; and only poll loops wait by poll_ready().
CallShape ==
  \A t \in Tasks :
    /\ At(t, "idle") => call[t] = Idle
    /\ ~At(t, "idle") => /\ call[t].src \in Sources /\ src[call[t].src].st = "live"
                         /\ call[t].op \in OpType
    /\ t \notin Pollers /\ call[t].pc \in {"wait", "asleep"} => call[t].fut \in Futures
    /\ waiting[t] # None => t \in Pollers

AInv == IInv /\ CallType /\ CallShape

-----------------------------------------------------------------------------
(* The operations of module Async are steps of the reactor. *)

\* What a task may call is an operation on one of the directions.
LEMMA OpsOfType ==
  ASSUME NEW t \in Tasks, NEW op \in OpsOf(t)
  PROVE  op \in OpType
<1>0. PICK r, w, p, f : /\ r = Op("READ", TRUE) /\ w = Op("WRITE", TRUE)
                     /\ p = Op("READ", FALSE) /\ f = Op("WRITE", FALSE)
  OBVIOUS
<1>1. Range(ReadMethods) \subseteq {r, w, p, f}
  <2>1. ReadMethods = [read |-> r, read_vectored |-> r]
    BY <1>0, Zenon DEF ReadMethods
  <2> QED
    BY <2>1 DEF Range
<1>2. Range(WriteMethods) \subseteq {r, w, p, f}
  <2>1. WriteMethods = [write |-> w, write_vectored |-> w, flush |-> f, close |-> f]
    BY <1>0, Zenon DEF WriteMethods
  <2> QED
    BY <2>1 DEF Range
<1>3. Range(TcpListenerMethods) \subseteq {r, w, p, f}
  <2>1. TcpListenerMethods = [accept |-> r, incoming |-> r]
    BY <1>0, Zenon DEF TcpListenerMethods
  <2> QED
    BY <2>1 DEF Range
<1>4. Range(TcpStreamMethods) \subseteq {r, w, p, f}
  <2>1. TcpStreamMethods = [peek |-> p]
    BY <1>0, Zenon DEF TcpStreamMethods
  <2> QED
    BY <2>1 DEF Range
<1>5. Range(UdpMethods) \subseteq {r, w, p, f}
  <2>1. UdpMethods = [recv_from |-> r, peek_from |-> p, send_to |-> w, recv |-> r,
                      peek |-> p, send |-> w]
    BY <1>0, Zenon DEF UdpMethods
  <2> QED
    BY <2>1 DEF Range
<1>6. Range(UnixListenerMethods) \subseteq {r, w, p, f}
  <2>1. UnixListenerMethods = [accept |-> r, incoming |-> r]
    BY <1>0, Zenon DEF UnixListenerMethods
  <2> QED
    BY <2>1 DEF Range
<1>7. Range(UnixDatagramMethods) \subseteq {r, w, p, f}
  <2>1. UnixDatagramMethods = [recv_from |-> r, send_to |-> w, recv |-> r, send |-> w]
    BY <1>0, Zenon DEF UnixDatagramMethods
  <2> QED
    BY <2>1 DEF Range
<1>8. op \in {r, w, p, f} /\ (IF op.dir = "READ" THEN t \in Readers ELSE t \in Writers)
  BY <1>1, <1>2, <1>3, <1>4, <1>5, <1>6, <1>7 DEF OpsOf
<1>9. r.dir = "READ" /\ p.dir = "READ" /\ w.dir = "WRITE" /\ f.dir = "WRITE"
  BY <1>0 DEF Op
<1>10. r \in OpType \/ "READ" \notin Dirs
  BY <1>0 DEF OpType, Op
<1>11. p \in OpType \/ "READ" \notin Dirs
  BY <1>0 DEF OpType, Op
<1>12. w \in OpType \/ "WRITE" \notin Dirs
  BY <1>0 DEF OpType, Op
<1>13. f \in OpType \/ "WRITE" \notin Dirs
  BY <1>0 DEF OpType, Op
<1> QED
  BY <1>8, <1>9, <1>10, <1>11, <1>12, <1>13, AsyncAssumption

\* What wait() finds is a set of directions for every descriptor.
LEMMA ReportType ==
  ASSUME TypeOK
  PROVE  Report \in [Fds -> SUBSET Dirs]
BY DEF TypeOK, Report, Event

\* A poll loop's call of poll_ready() is one of the reactor's operations.
LEMMA PollerSteps ==
  ASSUME CallType, CallShape, NEW t \in Pollers, t \in Tasks, ~At(t, "idle"),
         \/ PollReadyReady(t, call[t].src, Dir(t))
         \/ PollReadySame(t, call[t].src, Dir(t))
         \/ PollReadyPending(t, call[t].src, Dir(t))
  PROVE  Next
<1>1. call[t].src \in Sources /\ Dir(t) \in Dirs
  BY DEF CallShape, OpType, Dir
<1> QED
  BY <1>1 DEF Next, PollReady

\* So is what a task does to a future of its own.
LEMMA FutureSteps ==
  ASSUME NEW t \in Tasks, NEW f \in Futures,
         ReadyPollReady(f, t) \/ ReadyPollPending(f, t) \/ DropReady(f)
  PROVE  Next
BY DEF Next, ReadyFuture

\* A task that goes on takes a step of the reactor, or none.
LEMMA RunSteps ==
  ASSUME TypeOK, CallType, CallShape, NEW t \in Tasks, Run(t)
  PROVE  [Next]_vars
<1>1. CASE Answered(t)
  <2>1. CASE waiting[t] = None
    BY <1>1, <2>1 DEF Answered
  <2>2. CASE waiting[t] # None
    BY <1>1, <2>2 DEF Answered, CallShape, Next, PollReady
  <2> QED
    BY <2>1, <2>2
<1>2. CASE WouldBlock(t)
  <2>1. CASE t \in Pollers
    BY <1>2, <2>1 DEF WouldBlock
  <2>2. CASE t \notin Pollers
    <3>1. PICK f \in Futures : NewReady(f, call[t].src, Dir(t))
      BY <1>2, <2>2 DEF WouldBlock
    <3>2. call[t].src \in Sources /\ Dir(t) \in Dirs
      BY <1>2 DEF WouldBlock, CallShape, OpType, Dir, At
    <3> QED
      BY <3>1, <3>2 DEF Next, ReadyFuture
  <2> QED
    BY <2>1, <2>2
<1>3. CASE Await(t)
  <2>1. CASE t \notin Pollers
    BY <1>3, <2>1, FutureSteps DEF Await, CallShape, At
  <2>2. CASE t \in Pollers
    BY <1>3, <2>2, PollerSteps DEF Await, At
  <2> QED
    BY <2>1, <2>2
<1>4. CASE Register(t)
  BY <1>4 DEF Register, Next
<1>5. CASE Fail(t)
  BY <1>5, FutureSteps DEF Fail, CallShape, At
<1> QED
  BY <1>1, <1>2, <1>3, <1>4, <1>5 DEF Run

\* Every step of module Async is a step of the reactor, or leaves the reactor alone.
LEMMA AsyncSteps ==
  ASSUME TypeOK, CallType, CallShape, [AsyncNext]_asyncVars
  PROVE  [Next]_vars
<1>1. ASSUME NEW p \in Fds, HangUp(p) \/ \E d \in Dirs : Arrive(p, d) PROVE [Next]_vars
  BY <1>1 DEF HangUp, Arrive
<1>2. ASSUME NEW t \in Tasks, NEW s \in Sources, NEW op \in OpsOf(t), Begin(t, s, op)
      PROVE  [Next]_vars
  BY <1>2 DEF Begin
<1>3. ASSUME NEW t \in Tasks, Run(t) PROVE [Next]_vars
  BY <1>3, RunSteps
<1>4. ASSUME NEW t \in Tasks, Resume(t) PROVE [Next]_vars
  BY <1>4, FutureSteps DEF Resume, Asleep, CallShape, At
<1>5. ASSUME NEW t \in Tasks, Cancel(t) PROVE [Next]_vars
  <2>1. CASE t \in Pollers
    BY <1>5, <2>1 DEF Cancel, Next, PollReady
  <2>2. CASE t \notin Pollers
    BY <1>5, <2>2, FutureSteps DEF Cancel, Asleep, CallShape, At
  <2> QED
    BY <2>1, <2>2
<1>6. ASSUME NEW t \in Tasks, AsyncWake(t) PROVE [Next]_vars
  BY <1>6 DEF AsyncWake, Next, React
<1>7. ASSUME NEW s \in Sources, AsyncHandle(s) PROVE [Next]_vars
  BY <1>7 DEF AsyncHandle, Next, Handle
<1>8. ASSUME AsyncReact PROVE [Next]_vars
  BY <1>8, ReportType DEF AsyncReact, Next, React
<1>9. CASE UNCHANGED asyncVars
  BY <1>9 DEF asyncVars
<1> QED
  BY <1>1, <1>2, <1>3, <1>4, <1>5, <1>6, <1>7, <1>8, <1>9 DEF AsyncNext


-----------------------------------------------------------------------------
(* What the steps keep. *)

\* Only a poll loop is ever told to wait by poll_ready().
LEMMA WaitersPoll ==
  ASSUME TypeOK, [Next]_vars, NEW t \in Tasks, waiting'[t] # None
  PROVE  waiting[t] # None \/ t \in Pollers
<1> USE DEF reactorVars, sourceVars, ghostVars
<1>0. waiting \in [Tasks -> Sides \cup {None}]
  BY DEF TypeOK
<1>1. ASSUME React PROVE waiting' = waiting
  BY <1>1 DEF React, BumpTicker, WaitEvents, WaitNothing, LockSources, Dispatch,
     DispatchEvent, DispatchVacant, DispatchFails, EndDispatch, Wake, EndReact
<1>2. ASSUME NEW s \in Sources, Handle(s) \/ Modify(s) \/ ModifyFails(s)
      PROVE  waiting'[t] = waiting[t] \/ waiting'[t] = None
  <2>1. CASE waiting' = waiting
    BY <2>1
  <2>2. CASE remove_io(s)
    BY <2>2 DEF remove_io
  <2>3. CASE ModifyFails(s)
    BY <2>3 DEF ModifyFails
  <2> QED
    BY <1>2, <2>1, <2>2, <2>3 DEF Handle, InsertSource, AddRegistration, AddFails, Modify
<1>3. ASSUME NEW f \in Futures, ReadyFuture(f) PROVE waiting' = waiting
  BY <1>3 DEF ReadyFuture, NewReady, ReadyPollReady, ReadyPollPending, DropReady
<1>4. ASSUME NEW u \in Pollers, PollReady(u) PROVE waiting'[t] = waiting[t] \/ t = u
  BY <1>0, <1>4 DEF PollReady, PollReadyReady, PollReadySame, PollReadyPending, Abandon
<1>5. CASE UNCHANGED vars
  BY <1>5 DEF vars
<1> QED
  BY <1>1, <1>2, <1>3, <1>4, <1>5 DEF Next

\* Only the end of a handle changes the source of one.
LEMMA SourcesKept ==
  ASSUME TypeOK, [AsyncNext]_asyncVars,
         NEW s \in Sources, src[s].st = "live", src'[s] # src[s]
  PROVE  \A t \in Tasks : call[t].src # s
<1> USE ConstantsAssumption DEF reactorVars, sourceVars, ghostVars, TypeOK
<1>1. ASSUME NEW p \in Fds, HangUp(p) \/ \E d \in Dirs : Arrive(p, d) PROVE src' = src
  BY <1>1 DEF HangUp, Arrive, vars
<1>2. ASSUME NEW t \in Tasks, NEW q \in Sources, NEW op \in OpsOf(t), Begin(t, q, op)
      PROVE  src' = src
  BY <1>2 DEF Begin, vars
<1>3. ASSUME NEW t \in Tasks, Run(t) PROVE src' = src
  <2>1. CASE Answered(t)
    BY <2>1 DEF Answered, Abandon, vars
  <2>2. CASE WouldBlock(t)
    BY <2>2 DEF WouldBlock, NewReady, vars
  <2>3. CASE Await(t)
    BY <2>3 DEF Await, ReadyPollPending, PollReadyReady, PollReadySame, PollReadyPending
  <2>4. CASE Register(t)
    BY <2>4 DEF Register, Modify, ModifyFails
  <2>5. CASE Fail(t)
    BY <2>5 DEF Fail, DropReady, vars
  <2> QED
    BY <1>3, <2>1, <2>2, <2>3, <2>4, <2>5 DEF Run
<1>4. ASSUME NEW t \in Tasks, Resume(t) \/ Cancel(t) \/ AsyncWake(t) PROVE src' = src
  BY <1>4 DEF Resume, Cancel, AsyncWake, DropReady, Abandon, Wake, vars
<1>5. ASSUME NEW q \in Sources, AsyncHandle(q) PROVE \A t \in Tasks : call[t].src # s
  BY <1>5 DEF AsyncHandle, InsertSource, AddRegistration, AddFails, remove_io
<1>6. ASSUME AsyncReact PROVE src' = src
  BY <1>6 DEF AsyncReact, BumpTicker, WaitEvents, WaitNothing, LockSources, Dispatch,
     DispatchEvent, DispatchVacant, DispatchFails, EndDispatch, EndReact
<1>7. CASE UNCHANGED asyncVars
  BY <1>7 DEF asyncVars, vars
<1> QED
  BY <1>1, <1>2, <1>3, <1>4, <1>5, <1>6, <1>7 DEF AsyncNext

\* The handle of a call in progress stays as it is.
LEMMA HandleKept ==
  ASSUME AInv, [AsyncNext]_asyncVars, NEW t \in Tasks, ~At(t, "idle")
  PROVE  src'[call[t].src] = src[call[t].src]
BY SourcesKept DEF AInv, IInv, CallShape

\* A call in progress is for a descriptor and a direction of it.
LEMMA CallTarget ==
  ASSUME AInv, NEW t \in Tasks, ~At(t, "idle")
  PROVE  Fd(t) \in Fds /\ Dir(t) \in Dirs /\ Takes(t) \in BOOLEAN
<1>1. call[t].src \in Sources /\ src[call[t].src].st = "live" /\ call[t].op \in OpType
  BY DEF AInv, CallShape
<1>2. Fd(t) \in Fds
  BY <1>1 DEF AInv, IInv, Shape, Fd
<1> QED
  BY <1>1, <1>2 DEF OpType, Dir, Takes

\* A step keeps the calls well-formed.
LEMMA CallStep ==
  ASSUME AInv, [AsyncNext]_asyncVars
  PROVE  CallType' /\ CallShape'
<1> DEFINE Record == [pc : {"idle", "try", "wait", "asleep"}, src : Sources \cup {None},
                      op : OpType \cup {None}, fut : Futures \cup {None}]
           Good(c, t) ==
             /\ c \in Record
             /\ c.pc = "idle" => c = Idle
             /\ c.pc # "idle" => /\ c.src \in Sources /\ src'[c.src].st = "live"
                                 /\ c.op \in OpType
             /\ t \notin Pollers /\ c.pc \in {"wait", "asleep"} => c.fut \in Futures
           Kept == \A t \in Tasks : Good(call'[t], t)
<1>1. TypeOK /\ CallType /\ CallShape
  BY DEF AInv, IInv
<1>2. \A t \in Tasks : waiting'[t] # None => t \in Pollers
  BY <1>1, AsyncSteps, WaitersPoll DEF CallShape
<1>3. call \in [Tasks -> Record] /\ \A t \in Tasks : Good(call[t], t)
  BY <1>1, HandleKept DEF CallType, CallShape, At
<1>4. ASSUME NEW t \in Tasks, NEW c, call' = [call EXCEPT ![t] = c], Good(c, t)
      PROVE  call' \in [Tasks -> Record] /\ Kept
  BY <1>3, <1>4
<1>5. ASSUME UNCHANGED call PROVE call' \in [Tasks -> Record] /\ Kept
  BY <1>3, <1>5
<1>6. \A t : Good(Idle, t)
  BY DEF Idle
<1>7. ASSUME NEW t \in Tasks, NEW pc \in {"try", "wait", "asleep"}, NEW f \in Futures \cup {None},
             ~At(t, "idle"), call' = [call EXCEPT ![t].pc = pc, ![t].fut = f],
             t \in Pollers \/ pc = "try" \/ f \in Futures
      PROVE  call' \in [Tasks -> Record] /\ Kept
  <2>1. PICK c : c = [call[t] EXCEPT !.pc = pc, !.fut = f]
    OBVIOUS
  <2>2. Good(c, t)
    BY <1>3, <1>7, <2>1 DEF At
  <2>3. call' = [call EXCEPT ![t] = c]
    BY <1>3, <1>7, <2>1
  <2> QED
    BY <1>4, <2>2, <2>3
<1>8. ASSUME NEW t \in Tasks, NEW pc \in {"try", "wait", "asleep"}, ~At(t, "idle"), Goto(t, pc),
             t \in Pollers \/ pc = "try" \/ call[t].fut \in Futures
      PROVE  call' \in [Tasks -> Record] /\ Kept
  <2>1. Good([call[t] EXCEPT !.pc = pc], t)
    BY <1>3, <1>8 DEF At
  <2> QED
    BY <1>4, <1>8, <2>1 DEF Goto
<1>9. ASSUME NEW t \in Tasks, Return(t) PROVE call' \in [Tasks -> Record] /\ Kept
  BY <1>4, <1>6, <1>9 DEF Return
<1> HIDE DEF Good, Kept, Record
<1>10. avail' \in [Fds \X Dirs -> Nat] /\ hup' \subseteq Fds /\ supply' \in Nat
  <2> USE <1>1 DEF CallType
  <2>1. ASSUME NEW p \in Fds, HangUp(p) PROVE <1>10!:
    BY <2>1 DEF HangUp
  <2>2. ASSUME NEW p \in Fds, NEW d \in Dirs, Arrive(p, d) PROVE <1>10!:
    BY <2>2 DEF Arrive
  <2>3. ASSUME NEW t \in Tasks, Answered(t) PROVE <1>10!:
    <3>1. <<Fd(t), Dir(t)>> \in Fds \X Dirs
      BY <2>3, CallTarget DEF Answered, At
    <3>2. avail' \in [Fds \X Dirs -> Nat]
      BY <2>3, <3>1 DEF Answered
    <3> QED
      BY <2>3, <3>2 DEF Answered
  <2>4. CASE UNCHANGED osVars
    BY <2>4 DEF osVars
  <2> QED
    BY <2>1, <2>2, <2>3, <2>4 DEF AsyncNext, asyncVars, Run, Begin, WouldBlock, Await,
       Register, Fail, Resume, Cancel, AsyncWake, AsyncHandle, AsyncReact
<1>11. call' \in [Tasks -> Record] /\ Kept
  <2>1. ASSUME NEW t \in Tasks, NEW s \in Sources, NEW op \in OpsOf(t), Begin(t, s, op)
        PROVE  <1>11!:
    <3>1. PICK c : c = [pc |-> "try", src |-> s, op |-> op, fut |-> None]
      OBVIOUS
    <3>2. Good(c, t)
      BY <2>1, <3>1, OpsOfType DEF Begin, vars, Good, Record
    <3> QED
      BY <1>4, <2>1, <3>1, <3>2 DEF Begin
  <2>2. ASSUME NEW t \in Tasks, Answered(t) \/ Fail(t) \/ Cancel(t) PROVE <1>11!:
    BY <1>9, <2>2 DEF Answered, Fail, Cancel
  <2>3. ASSUME NEW t \in Tasks, WouldBlock(t) PROVE <1>11!:
    <3>1. ~At(t, "idle")
      BY <2>3 DEF WouldBlock, At
    <3>2. CASE t \in Pollers
      BY <1>8, <2>3, <3>1, <3>2 DEF WouldBlock
    <3>3. CASE t \notin Pollers
      <4>1. PICK f \in Futures : call' = [call EXCEPT ![t].pc = "wait", ![t].fut = f]
        BY <2>3, <3>3 DEF WouldBlock
      <4> QED
        BY <1>7, <3>1, <4>1
    <3> QED
      BY <3>2, <3>3
  <2>4. ASSUME NEW t \in Tasks, Await(t) PROVE <1>11!:
    <3>1. ~At(t, "idle") /\ (t \notin Pollers => call[t].fut \in Futures)
      BY <1>1, <2>4 DEF Await, At, CallShape
    <3>2. Goto(t, "asleep") \/ Goto(t, "try")
      BY <2>4 DEF Await
    <3> QED
      BY <1>8, <3>1, <3>2
  <2>5. ASSUME NEW t \in Tasks, Resume(t) PROVE <1>11!:
    <3>1. ~At(t, "idle") /\ call' = [call EXCEPT ![t].pc = "try", ![t].fut = None]
      BY <2>5 DEF Resume, Asleep, At
    <3> QED
      BY <1>7, <3>1
  <2>6. CASE UNCHANGED call
    BY <1>5, <2>6
  <2> QED
    BY <2>1, <2>2, <2>3, <2>4, <2>5, <2>6 DEF AsyncNext, asyncVars, Run, HangUp, Arrive,
       Register, AsyncWake, AsyncHandle, AsyncReact
<1> QED
  BY <1>2, <1>10, <1>11 DEF CallType, CallShape, Good, Kept, Record, At


-----------------------------------------------------------------------------
(* The invariant, and with it the invariants of the reactor. *)

\* The invariant holds initially.
LEMMA AsyncInitAInv == AsyncInit => AInv
<1> SUFFICES ASSUME AsyncInit PROVE AInv
  OBVIOUS
<1>1. IInv
  BY InitIInv DEF AsyncInit
<1>2. CallType /\ CallShape
  BY AsyncAssumption, ConstantsAssumption DEF AsyncInit, Init, CallType, CallShape, Idle, At
<1> QED
  BY <1>1, <1>2 DEF AInv

\* Every step keeps it.
LEMMA AsyncNextAInv == AInv /\ [AsyncNext]_asyncVars => AInv'
<1> SUFFICES ASSUME AInv, [AsyncNext]_asyncVars PROVE AInv'
  OBVIOUS
<1>1. TypeOK /\ CallType /\ CallShape /\ IInv
  BY DEF AInv, IInv
<1>2. IInv'
  BY <1>1, AsyncSteps, NextIInv
<1>3. CallType' /\ CallShape'
  BY CallStep
<1> QED
  BY <1>2, <1>3 DEF AInv

\* The inductive invariant holds of the operations of Async.
THEOREM AsyncInvariance == AsyncSpec => []AInv
BY AsyncInitAInv, AsyncNextAInv, PTL DEF AsyncSpec

\* OnlyFreshEvents: under read_with(), write_with() and the poll loops too, a poll is
\* answered Ready only for an event that wait() returned after the ticks were remembered.
THEOREM AsyncOnlyFresh == AsyncSpec => []OnlyFreshEvents
<1>1. AsyncSpec => Init /\ [][Next]_vars
  <2>1. AInv /\ [AsyncNext]_asyncVars => [Next]_vars
    BY AsyncSteps DEF AInv, IInv
  <2>2. AsyncInit => Init
    BY DEF AsyncInit
  <2> QED
    BY <2>1, <2>2, AsyncInvariance, PTL DEF AsyncSpec
<1> QED
  BY <1>1, NoStaleReadiness, PTL DEF Spec

\* SleepersHaveWakers: an operation of Async that sleeps has its waker in the source, or is
\* about to be woken, as long as no modify() has failed.
THEOREM AsyncNoLostWakeup == AsyncSpec => []SleepersHaveWakers
BY AsyncInvariance, PTL DEF AInv, IInv

-----------------------------------------------------------------------------
(* Module Async implements BlockingIo. *)

\* A call keeps its descriptor, direction and operation for as long as it is busy.
LEMMA BusyKept ==
  ASSUME AInv, [AsyncNext]_asyncVars, NEW t \in Tasks,
         call'[t].src = call[t].src, call'[t].op = call[t].op,
         call'[t].pc = "idle" <=> call[t].pc = "idle"
  PROVE  Busy'[t] = Busy[t]
BY HandleKept DEF Busy, At, Fd, Dir, Takes

\* A step that leaves every call as it is, apart from where it is and its future.
LEMMA AllBusyKept ==
  ASSUME AInv, [AsyncNext]_asyncVars,
         \A t \in Tasks : /\ call'[t].src = call[t].src /\ call'[t].op = call[t].op
                          /\ call'[t].pc = "idle" <=> call[t].pc = "idle"
  PROVE  Busy' = Busy
<1>1. \A t \in Tasks : Busy'[t] = Busy[t]
  BY BusyKept
<1> QED
  BY <1>1 DEF Busy

\* When the call of one task begins or ends, the others stay as they are.
LEMMA OneBusyChanges ==
  ASSUME AInv, [AsyncNext]_asyncVars, NEW t \in Tasks, NEW c, call' = [call EXCEPT ![t] = c]
  PROVE  Busy' = [Busy EXCEPT ![t] = Busy'[t]]
<1>1. \A u \in Tasks \ {t} : call'[u] = call[u]
  BY DEF AInv, CallType
<1>2. \A u \in Tasks \ {t} : Busy'[u] = Busy[u]
  BY <1>1, BusyKept
<1> QED
  BY <1>2 DEF Busy

\* A step of the reactor makes something fail or leaves the faults as they are.
LEMMA BrokenStays ==
  ASSUME TypeOK, [Next]_vars
  PROVE  Broken' = Broken \/ Broken' = TRUE
<1>1. faults' = faults \/ faults' = faults - 1
  <2>1. ASSUME React PROVE <1>1!:
    BY <2>1 DEF React, BumpTicker, WaitEvents, WaitNothing, LockSources, Dispatch,
       DispatchEvent, DispatchVacant, DispatchFails, EndDispatch, Wake, EndReact
  <2>2. ASSUME NEW s \in Sources, Handle(s) \/ Modify(s) \/ ModifyFails(s) PROVE <1>1!:
    BY <2>2 DEF Handle, InsertSource, AddRegistration, AddFails, remove_io, Modify, ModifyFails
  <2>3. ASSUME NEW f \in Futures, ReadyFuture(f) PROVE <1>1!:
    BY <2>3 DEF ReadyFuture, NewReady, ReadyPollReady, ReadyPollPending, DropReady
  <2>4. ASSUME NEW u \in Pollers, PollReady(u) PROVE <1>1!:
    BY <2>4 DEF PollReady, PollReadyReady, PollReadySame, PollReadyPending, Abandon
  <2>5. CASE UNCHANGED vars
    BY <2>5 DEF vars
  <2> QED
    BY <2>1, <2>2, <2>3, <2>4, <2>5 DEF Next
<1> QED
  BY <1>1, ConstantsAssumption DEF TypeOK, Broken


\* A step that leaves the operating system and the calls alone is no step of BlockingIo, or
\* the failure of a registration.
LEMMA QuietStep ==
  ASSUME AInv, [AsyncNext]_asyncVars, Busy' = Busy, UNCHANGED <<avail, hup>>
  PROVE  [Blocking!Next]_(Blocking!vars)
<1>1. Broken' = Broken \/ Broken' = TRUE
  BY AsyncSteps, BrokenStays DEF AInv, IInv
<1> QED
  BY <1>1 DEF Blocking!Next, Blocking!Environment, Blocking!vars

\* Every step of module Async is one of BlockingIo, or a stutter: a call begins, is
\* answered, or returns without having taken anything.
LEMMA RefinementStep ==
  ASSUME AInv, [AsyncNext]_asyncVars
  PROVE  [Blocking!Next]_(Blocking!vars)
<1>0. TypeOK /\ CallType /\ CallShape
  BY DEF AInv, IInv
<1>1. ASSUME NEW p \in Fds, HangUp(p) PROVE [Blocking!Next]_(Blocking!vars)
  <2>1. Busy' = Busy
    BY <1>1, AllBusyKept DEF HangUp
  <2>2. UNCHANGED <<avail, Broken>> /\ hup' = hup \cup {p}
    BY <1>1 DEF HangUp, Broken, vars
  <2> QED
    BY <2>1, <2>2 DEF Blocking!Next, Blocking!Environment
<1>2. ASSUME NEW p \in Fds, NEW d \in Dirs, Arrive(p, d) PROVE [Blocking!Next]_(Blocking!vars)
  <2>1. Busy' = Busy
    BY <1>2, AllBusyKept DEF Arrive
  <2>2. UNCHANGED <<hup, Broken>> /\ avail' = [avail EXCEPT ![<<p, d>>] = @ + 1]
    BY <1>2 DEF Arrive, Broken, vars
  <2>3. <<p, d>> \in Fds \X Dirs
    OBVIOUS
  <2> QED
    BY <2>1, <2>2, <2>3 DEF Blocking!Next, Blocking!Environment
<1>3. ASSUME NEW t \in Tasks, NEW s \in Sources, NEW op \in OpsOf(t), Begin(t, s, op)
      PROVE  [Blocking!Next]_(Blocking!vars)
  <2>1. Busy' = [Busy EXCEPT ![t] = Busy'[t]]
    BY <1>3, OneBusyChanges DEF Begin
  <2>2. Busy[t] = None
    BY <1>3 DEF Begin, Busy
  <2>3. Busy'[t] \in Blocking!Call
    <3>1. call'[t] = [pc |-> "try", src |-> s, op |-> op, fut |-> None]
      BY <1>0, <1>3 DEF Begin, CallType
    <3>2. Busy'[t] = [fd |-> src[s].fd, dir |-> op.dir, takes |-> op.takes]
      BY <1>3, <3>1 DEF Begin, Busy, At, Fd, Dir, Takes, vars
    <3>3. src[s].fd \in Fds
      BY <1>3 DEF Begin, AInv, IInv, Shape
    <3>4. op.dir \in Dirs /\ op.takes \in BOOLEAN
      BY OpsOfType DEF OpType
    <3> QED
      BY <3>2, <3>3, <3>4 DEF Blocking!Call
  <2>4. UNCHANGED <<avail, hup, Broken>>
    BY <1>3 DEF Begin, osVars, Broken, vars
  <2> QED
    BY <2>1, <2>2, <2>3, <2>4 DEF Blocking!Next, Blocking!Begin
<1>4. ASSUME NEW t \in Tasks, Return(t), ~At(t, "idle")
      PROVE  /\ Busy' = [Busy EXCEPT ![t] = None]
             /\ Busy[t] = [fd |-> Fd(t), dir |-> Dir(t), takes |-> Takes(t)]
             /\ Busy[t] # None
  <2>1. Busy' = [Busy EXCEPT ![t] = Busy'[t]]
    BY <1>4, OneBusyChanges DEF Return
  <2>2. call'[t] = Idle
    BY <1>0, <1>4 DEF Return, CallType
  <2>3. Busy'[t] = None
    BY <2>2 DEF Busy, At, Idle
  <2>4. Busy[t] = [fd |-> Fd(t), dir |-> Dir(t), takes |-> Takes(t)]
    BY <1>4 DEF Busy
  <2>5. Busy[t] \in [fd : Fds, dir : Dirs, takes : BOOLEAN]
    BY <1>4, <2>4, CallTarget
  <2> QED
    BY <2>1, <2>3, <2>4, <2>5, AsyncAssumption
<1>5. ASSUME NEW t \in Tasks, Answered(t) PROVE [Blocking!Next]_(Blocking!vars)
  <2>0. Return(t) /\ ~At(t, "idle")
    BY <1>5 DEF Answered, At
  <2>1. /\ Busy' = [Busy EXCEPT ![t] = None]
        /\ Busy[t] = [fd |-> Fd(t), dir |-> Dir(t), takes |-> Takes(t)]
        /\ Busy[t] # None
    BY <1>4, <2>0, Zenon
  <2>2. Busy[t].fd = Fd(t) /\ Busy[t].dir = Dir(t) /\ Busy[t].takes = Takes(t)
    BY <2>1
  <2>3. Answers(Fd(t), Dir(t)) /\ UNCHANGED hup
    BY <1>5 DEF Answered
  <2>4. avail' = [avail EXCEPT ![<<Busy[t].fd, Busy[t].dir>>] =
                    IF Busy[t].takes /\ @ > 0 THEN @ - 1 ELSE @]
    BY <1>5, <2>1, <2>2 DEF Answered
  <2>5. UNCHANGED Broken
    BY <1>5 DEF Answered, Abandon, Broken, vars
  <2>6. Blocking!Complete(t)
    BY <2>1, <2>2, <2>3, <2>4, <2>5 DEF Blocking!Complete, Blocking!Answerable, Answers
  <2> QED
    BY <2>6 DEF Blocking!Next
<1>6. ASSUME NEW t \in Tasks, Cancel(t) \/ Fail(t) PROVE [Blocking!Next]_(Blocking!vars)
  <2>1. Busy' = [Busy EXCEPT ![t] = None] /\ Busy[t] # None
    BY <1>4, <1>6 DEF Cancel, Asleep, Fail, At
  <2>2. UNCHANGED <<avail, hup, Broken>>
    BY <1>6 DEF Cancel, Fail, osVars, Abandon, DropReady, Broken, vars
  <2> QED
    BY <2>1, <2>2 DEF Blocking!Next, Blocking!Return
<1>7. ASSUME NEW t \in Tasks, WouldBlock(t) \/ Await(t) \/ Resume(t)
      PROVE  [Blocking!Next]_(Blocking!vars)
  <2>1. PICK pc \in {"try", "wait", "asleep"} : \E f :
          call' = [call EXCEPT ![t].pc = pc] \/ call' = [call EXCEPT ![t].pc = pc, ![t].fut = f]
    BY <1>7 DEF WouldBlock, Await, Resume, Goto
  <2>2. ~At(t, "idle")
    BY <1>7 DEF WouldBlock, Await, Resume, Asleep, At
  <2>3. Busy' = Busy
    <3>1. \A u \in Tasks : /\ call'[u].src = call[u].src /\ call'[u].op = call[u].op
                           /\ call'[u].pc = "idle" <=> call[u].pc = "idle"
      BY <1>0, <2>1, <2>2 DEF CallType, At
    <3> QED
      BY <3>1, AllBusyKept
  <2>4. UNCHANGED <<avail, hup>>
    BY <1>7 DEF WouldBlock, Await, Resume, osVars
  <2> QED
    BY <2>3, <2>4, QuietStep
<1>8. CASE UNCHANGED <<call, osVars>>
  <2>1. Busy' = Busy
    BY <1>8, AllBusyKept
  <2>2. UNCHANGED <<avail, hup>>
    BY <1>8 DEF osVars
  <2> QED
    BY <2>1, <2>2, QuietStep
<1> QED
  BY <1>1, <1>2, <1>3, <1>5, <1>6, <1>7, <1>8 DEF AsyncNext, asyncVars, Run, Register,
     AsyncWake, AsyncHandle, AsyncReact

\* BlocksLikeIo: read_with(), write_with() and the poll loops of Async<T> implement a
\* blocking call: it is answered at most once, by the descriptor and direction it was made
\* for and when they can answer it, and takes nothing otherwise, for any tasks and handles
\* and also when modify() fails.
THEOREM AsyncBlocksLikeIo == AsyncSpec => BlocksLikeIo
<1>1. AsyncInit => Blocking!Init
  <2> SUFFICES ASSUME AsyncInit PROVE Blocking!Init
    OBVIOUS
  <2>1. Busy = [t \in Tasks |-> None]
    BY DEF AsyncInit, Busy, At, Idle
  <2>2. Broken = FALSE
    BY ConstantsAssumption DEF AsyncInit, Init, Broken
  <2> QED
    BY <2>1, <2>2 DEF AsyncInit, Blocking!Init
<1>2. AInv /\ [AsyncNext]_asyncVars => [Blocking!Next]_(Blocking!vars)
  BY RefinementStep
<1> QED
  BY <1>1, <1>2, AsyncInvariance, PTL DEF AsyncSpec, BlocksLikeIo, Blocking!Spec
=============================================================================
