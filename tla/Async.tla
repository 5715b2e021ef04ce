------------------------------- MODULE Async -------------------------------
(***************************************************************************)
(* I/O operations of Async<T> (src/lib.rs) over the sources of module      *)
(* IoSource: read_with() and write_with() with optimistic(), and the poll  *)
(* loops of AsyncRead and AsyncWrite.  Each tries the operation, and when  *)
(* it would block waits for its direction and tries again.  Tasks of       *)
(* Pollers use the poll loops, the others the async methods.               *)
(*                                                                         *)
(* The operating system is concrete here: a descriptor has data to read or *)
(* room to write, wait() reports what is there, an operation takes it.  An *)
(* executor polls a task that was woken, and may poll one at any time for  *)
(* other reasons (the task awaits something else as well).                 *)
(***************************************************************************)
EXTENDS IoSource, Functions

CONSTANTS
  Readers, \* the tasks that call reading methods
  Writers, \* the tasks that call writing methods
  Supply   \* bound: how often data or room becomes available

ASSUME AsyncAssumption ==
  /\ Supply \in Nat
  /\ Readers \cup Writers \subseteq Tasks
  /\ Readers # {} => "READ" \in Dirs
  /\ Writers # {} => "WRITE" \in Dirs
  /\ None \notin [fd : Fds, dir : Dirs, takes : BOOLEAN]

VARIABLES
  call,       \* the operation of a task: [pc, src, op, fut]
  avail,      \* per descriptor and direction: what the operating system has
  hup,        \* descriptors whose peer is gone
  supply      \* what may still become available

osVars == <<avail, hup, supply>>
asyncVars == <<vars, call, osVars>>

Op(d, takes) == [dir |-> d, takes |-> takes]

\* AsyncRead and AsyncWrite.  A flush takes no room (close is flush); whether it has to
\* wait for some is up to T.
ReadMethods == [read |-> Op("READ", TRUE), read_vectored |-> Op("READ", TRUE)]
WriteMethods ==
  [write |-> Op("WRITE", TRUE), write_vectored |-> Op("WRITE", TRUE),
   flush |-> Op("WRITE", FALSE), close |-> Op("WRITE", FALSE)]

\* One read_with() or write_with() each; peeking leaves the data where it is.
TcpListenerMethods == [accept |-> Op("READ", TRUE), incoming |-> Op("READ", TRUE)]
TcpStreamMethods == [peek |-> Op("READ", FALSE)]
UdpMethods ==
  [recv_from |-> Op("READ", TRUE), peek_from |-> Op("READ", FALSE),
   send_to |-> Op("WRITE", TRUE), recv |-> Op("READ", TRUE), peek |-> Op("READ", FALSE),
   send |-> Op("WRITE", TRUE)]
UnixListenerMethods == [accept |-> Op("READ", TRUE), incoming |-> Op("READ", TRUE)]
UnixDatagramMethods ==
  [recv_from |-> Op("READ", TRUE), send_to |-> Op("WRITE", TRUE),
   recv |-> Op("READ", TRUE), send |-> Op("WRITE", TRUE)]

\* What a task may call.
OpsOf(t) ==
  {op \in IF t \in Pollers THEN Range(ReadMethods) \cup Range(WriteMethods)
          ELSE Range(TcpListenerMethods) \cup Range(TcpStreamMethods) \cup Range(UdpMethods)
               \cup Range(UnixListenerMethods) \cup Range(UnixDatagramMethods) :
     IF op.dir = "READ" THEN t \in Readers ELSE t \in Writers}

Idle == [pc |-> "idle", src |-> None, op |-> None, fut |-> None]

Dir(t) == call[t].op.dir
Takes(t) == call[t].op.takes
Fd(t) == src[call[t].src].fd
At(t, pc) == call[t].pc = pc
Goto(t, pc) == call' = [call EXCEPT ![t].pc = pc]
Return(t) == call' = [call EXCEPT ![t] = Idle]

AsyncInit ==
  /\ Init
  /\ call = [t \in Tasks |-> Idle]
  /\ avail = [x \in Fds \X Dirs |-> 0]
  /\ hup = {}
  /\ supply = Supply

-----------------------------------------------------------------------------
(* External: the operating system. *)

Answers(p, d) == avail[<<p, d>>] > 0 \/ p \in hup

Arrive(p, d) ==
  /\ supply > 0
  /\ supply' = supply - 1
  /\ avail' = [avail EXCEPT ![<<p, d>>] = @ + 1]
  /\ UNCHANGED <<vars, call, hup>>

HangUp(p) ==
  /\ p \notin hup
  /\ hup' = hup \cup {p}
  /\ UNCHANGED <<vars, call, avail, supply>>

\* What wait() finds: of each armed descriptor what it can answer, both directions if
\* the peer is gone.
Report ==
  [p \in Fds |->
     IF interest[p] = None THEN {}
     ELSE IF p \in hup /\ interest[p].dirs # {} THEN Dirs
     ELSE {d \in interest[p].dirs : avail[<<p, d>>] > 0}]

-----------------------------------------------------------------------------
(* An operation. *)

Begin(t, s, op) ==
  /\ At(t, "idle")
  /\ src[s].st = "live"
  /\ call' = [call EXCEPT ![t] = [pc |-> "try", src |-> s, op |-> op, fut |-> None]]
  /\ UNCHANGED <<vars, osVars>>

\* Mutant: the result is not returned, and the loop goes round with the operation done.
Answered_again(t) ==
  /\ At(t, "try")
  /\ Answers(Fd(t), Dir(t))
  /\ avail' = [avail EXCEPT ![<<Fd(t), Dir(t)>>] = IF Takes(t) /\ @ > 0 THEN @ - 1 ELSE @]
  /\ UNCHANGED <<vars, call, hup, supply>>

\* The operation succeeds, or fails for good: its result is returned.
Answered(t) ==
  /\ At(t, "try")
  /\ Answers(Fd(t), Dir(t))
  /\ avail' = [avail EXCEPT ![<<Fd(t), Dir(t)>>] = IF Takes(t) /\ @ > 0 THEN @ - 1 ELSE @]
  /\ Return(t)
  /\ IF waiting[t] = None THEN UNCHANGED vars ELSE Abandon(t)
  /\ UNCHANGED <<hup, supply>>

\* It would block: readable() or writable() makes a Ready future, a poll loop goes on to
\* poll_readable() or poll_writable().
WouldBlock(t) ==
  /\ At(t, "try")
  /\ ~Answers(Fd(t), Dir(t))
  /\ \/ t \in Pollers /\ Goto(t, "wait") /\ UNCHANGED vars
     \/ /\ t \notin Pollers
        /\ LET f == CHOOSE g \in Futures : fut[g] = NoFuture
           IN /\ f \in Futures
              /\ NewReady(f, call[t].src, Dir(t))
              /\ call' = [call EXCEPT ![t].pc = "wait", ![t].fut = f]
  /\ UNCHANGED osVars

\* The only poll of the future by optimistic(), or a poll in a poll loop.  Pending ends
\* the poll of the task (after modify(), if it has to register).
Await(t) ==
  /\ At(t, "wait")
  /\ \/ /\ t \notin Pollers /\ ReadyPollPending(call[t].fut, t)
        /\ Goto(t, "asleep")
     \/ /\ t \in Pollers /\ PollReadyReady(t, call[t].src, Dir(t))
        /\ Goto(t, "try")
     \/ /\ t \in Pollers
        /\ PollReadySame(t, call[t].src, Dir(t)) \/ PollReadyPending(t, call[t].src, Dir(t))
        /\ Goto(t, "asleep")
  /\ UNCHANGED osVars

\* The poll that put the task to sleep has returned Pending.
Asleep(t) ==
  /\ At(t, "asleep")
  /\ registering[call[t].src] \notin {t, call[t].fut} \ {None}
  /\ IF t \in Pollers THEN waiting[t] # None ELSE fut[call[t].fut].st = "pending"

\* The task is polled again: optimistic() takes that for readiness, its future is
\* dropped, and the operation is tried; a poll loop starts with the operation.
Resume(t) ==
  /\ Asleep(t)
  /\ IF t \in Pollers THEN UNCHANGED vars ELSE DropReady(call[t].fut)
  /\ call' = [call EXCEPT ![t].pc = "try", ![t].fut = None]
  /\ UNCHANGED osVars

\* The caller drops the operation.
Cancel(t) ==
  /\ Asleep(t)
  /\ IF t \in Pollers THEN Abandon(t) ELSE DropReady(call[t].fut)
  /\ Return(t)
  /\ UNCHANGED osVars

\* modify() has failed: the operation returns the error.
Fail(t) ==
  /\ At(t, "asleep")
  /\ IF t \in Pollers THEN waiting[t] = None /\ UNCHANGED vars
                      ELSE fut[call[t].fut].st = "err" /\ DropReady(call[t].fut)
  /\ Return(t)
  /\ UNCHANGED osVars

-----------------------------------------------------------------------------
AsyncReact ==
  /\ \/ BumpTicker \/ LockSources \/ Dispatch \/ EndDispatch \/ EndReact
     \/ WaitEvents(Report)
     \/ WaitNothing /\ Report = [p \in Fds |-> {}]
  /\ UNCHANGED <<call, osVars>>

\* react() wakes a task: its executor schedules it.
AsyncWake(t) ==
  /\ Wake(t)
  /\ UNCHANGED <<call, osVars>>

\* A handle is made, and ends when no operation borrows it.
AsyncHandle(s) ==
  /\ \/ \E k \in Keys, p \in Fds : InsertSource(s, k, p)
     \/ AddRegistration(s)
     \/ AddFails(s)
     \/ remove_io(s) /\ \A t \in Tasks : call[t].src # s
  /\ UNCHANGED <<call, osVars>>

\* The modify() a task still owes to its source.
Register(t) ==
  /\ \E s \in Sources : /\ registering[s] \in {t, call[t].fut} \ {None}
                        /\ Modify(s) \/ ModifyFails(s)
  /\ UNCHANGED <<call, osVars>>

\* What a task does of itself once it is running.
Run(t) == Answered(t) \/ WouldBlock(t) \/ Await(t) \/ Register(t) \/ Fail(t)

AsyncNext ==
  \/ \E p \in Fds : HangUp(p) \/ \E d \in Dirs : Arrive(p, d)
  \/ \E t \in Tasks, s \in Sources : \E op \in OpsOf(t) : Begin(t, s, op)
  \/ \E t \in Tasks : Run(t) \/ Resume(t) \/ Cancel(t) \/ AsyncWake(t)
  \/ \E s \in Sources : AsyncHandle(s)
  \/ AsyncReact

AsyncSpec == AsyncInit /\ [][AsyncNext]_asyncVars

\* The reactor is run; a running task goes on, a woken one is polled again; and neither
\* is starved of a lock that is released again and again.
AsyncFairness ==
  /\ SF_asyncVars(AsyncReact \/ \E t \in Tasks : AsyncWake(t))
  /\ \A t \in Tasks : SF_asyncVars(Run(t) \/ (t \in notified /\ Resume(t)))

AsyncFairSpec == AsyncSpec /\ AsyncFairness

-----------------------------------------------------------------------------
(* Properties. *)

\* The calls in progress, as their callers see them.
Busy ==
  [t \in Tasks |-> IF At(t, "idle") THEN None
                   ELSE [fd |-> Fd(t), dir |-> Dir(t), takes |-> Takes(t)]]

Broken == faults < Faults

Blocking == INSTANCE BlockingIo WITH busy <- Busy, broken <- Broken

\* A call is answered as a blocking one would be: at most once, at a moment the descriptor
\* can answer it, and for the descriptor and direction it was made for; whatever wakes,
\* retries, cancellations, other tasks of the same handle and handles that come and go do
\* in between takes nothing from the descriptor (read_with() "invokes the op closure in a
\* loop until it succeeds or returns an error other than WouldBlock").
BlocksLikeIo == Blocking!Spec

\* And it does not sleep on with its answer at hand, unless a modify() has failed.
AnsweredWhenReady == Blocking!Progress

\* Every poll of a task returns: a poll loop that is told Ready and finds that it would
\* still block does not go round forever on the event it was told of.
PollsReturn ==
  \A t \in Tasks : []<>(call[t].pc \in {"asleep", "idle"})
=============================================================================
