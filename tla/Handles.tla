------------------------------ MODULE Handles ------------------------------
(***************************************************************************)
(* The life of Async handles and of the descriptors in them (src/lib.rs):  *)
(* connect() of TcpStream and UnixStream, Async::new() and what is built   *)
(* on it (bind, accept, pair, try_from, Filter and Waitable), into_inner() *)
(* and Drop, over the sources of module IoSource.                          *)
(*                                                                         *)
(* A number in Fds is free again as soon as it is closed: the next socket  *)
(* may get the descriptor, and the slab key, of the last one.  Each task   *)
(* works on one handle at a time.                                          *)
(***************************************************************************)
EXTENDS IoSource

VARIABLES
  sock,   \* external: the state of a descriptor in the operating system
  op      \* what a task is doing: [pc, kind, fd, src, fut]

handleVars == <<vars, sock, op>>

Idle == [pc |-> "idle", kind |-> None, fd |-> None, src |-> None, fut |-> None]

At(t, pc) == op[t].pc = pc
Goto(t, pc) == op' = [op EXCEPT ![t].pc = pc]
Sockets == Fds \ (Filters \cup Waitables)

HandlesInit ==
  /\ Init
  /\ sock = [p \in Fds |-> "closed"]
  /\ op = [t \in Tasks |-> Idle]

-----------------------------------------------------------------------------
(* Making a handle. *)

Start(t, kind, p) ==
  op' = [op EXCEPT ![t] =
           [pc |-> "insert", kind |-> kind, fd |-> p, src |-> None, fut |-> None]]

\* connect(): the socket is made and rn::connect() begins; any other error of it closes
\* the socket again.  INPROGRESS goes on in the background.  AGAIN means so too on
\* Windows, but a Unix socket whose listener is busy stays unconnected.
Connect(t, kind, p) ==
  /\ At(t, "idle")
  /\ p \in Sockets /\ sock[p] = "closed"
  /\ \E begun \in {"open", "connecting"} \cup (IF kind = "unix" THEN {"unconnected"} ELSE {}) :
       sock' = [sock EXCEPT ![p] = begun]
  /\ Start(t, kind, p)
  /\ UNCHANGED vars

\* bind(), accept(), pair(), a new Exit, Signal or waitable: a descriptor to be wrapped.
Open(t, p) ==
  /\ At(t, "idle")
  /\ sock[p] = "closed"
  /\ sock' = [sock EXCEPT ![p] = "open"]
  /\ Start(t, "new", p)
  /\ UNCHANGED vars

\* Async::new() of a descriptor that another handle holds too (a &T, an Arc<T>).  What a
\* second registration of one signal or process does is left out (OneSourcePerFilter).
Share(t, p) ==
  /\ At(t, "idle") /\ p \notin Filters
  /\ \E u \in Tasks : At(u, "held") /\ op[u].fd = p
  /\ Start(t, "shared", p)
  /\ UNCHANGED <<vars, sock>>

\* new_nonblocking(): insert_io() in two steps.
Insert(t, s, k) ==
  /\ At(t, "insert")
  /\ InsertSource(s, k, op[t].fd)
  /\ op' = [op EXCEPT ![t].pc = "add", ![t].src = s]
  /\ UNCHANGED sock

Add(t) ==
  /\ At(t, "add")
  /\ \/ /\ AddRegistration(op[t].src)
        /\ Goto(t, IF op[t].kind \in {"tcp", "unix"} THEN "await" ELSE "held")
     \/ /\ AddFails(op[t].src)
        /\ op' = [op EXCEPT ![t].pc = "close", ![t].src = None]
  /\ UNCHANGED sock

-----------------------------------------------------------------------------
(* connect(): "The stream becomes writable when connected." *)

\* A future is made: writable() by connect(), ready() of a Filter or Waitable later.  (The
\* operations on a socket are in module Async.)
Await(t, f, d) ==
  /\ \/ At(t, "await") /\ d = "WRITE"
     \/ At(t, "held") /\ op[t].fd \notin Sockets
  /\ NewReady(f, op[t].src, d)
  /\ op' = [op EXCEPT ![t].pc = IF @ = "await" THEN "connect" ELSE "wait", ![t].fut = f]
  /\ UNCHANGED sock

Poll(t) ==
  /\ op[t].pc \in {"connect", "wait"}
  /\ ReadyPollReady(op[t].fut, t) \/ ReadyPollPending(op[t].fut, t)
  /\ UNCHANGED <<sock, op>>

\* take_error() of a TcpStream knows of a connection that failed, not of one that is
\* still being made; a UnixStream is asked for its peer.
Connected(kind, p) ==
  \/ kind = "tcp" /\ sock[p] # "refused"
  \/ kind = "unix" /\ sock[p] = "open"

\* The await is over.  An error of the registration ends connect(), and so does a
\* connection that was not made; another future leaves the handle as it is.
Awaited(t) ==
  /\ op[t].pc \in {"connect", "wait"}
  /\ fut[op[t].fut].st \in {"ready", "err"}
  /\ DropReady(op[t].fut)
  /\ op' = [op EXCEPT ![t].fut = None, ![t].pc =
              IF @ = "wait" \/ (fut[op[t].fut].st = "ready" /\ Connected(op[t].kind, op[t].fd))
              THEN "held" ELSE "drop"]
  /\ UNCHANGED sock

\* The caller drops the future it awaits.
Cancel(t) ==
  /\ op[t].pc \in {"connect", "wait"}
  /\ fut[op[t].fut].st = "pending" /\ registering[op[t].src] # op[t].fut
  /\ DropReady(op[t].fut)
  /\ op' = [op EXCEPT ![t].fut = None, ![t].pc = IF @ = "wait" THEN "held" ELSE "drop"]
  /\ UNCHANGED sock

-----------------------------------------------------------------------------
(* The end of a handle. *)

\* A handle ends by Drop, which goes on to close the descriptor, or by into_inner(), whose
\* caller may wrap the descriptor again.
Ends(t) ==
  \/ op[t].pc \in {"held", "drop"} /\ op' = [op EXCEPT ![t].pc = "close", ![t].src = None]
  \/ At(t, "held") /\ Start(t, "new", op[t].fd)

\* Mutant: the handle ends without being deregistered.
Deregister_leaks(t) == Ends(t) /\ UNCHANGED <<vars, sock>>

\* First the source leaves the reactor.
Deregister(t) == Ends(t) /\ remove_io(op[t].src) /\ UNCHANGED sock

\* The descriptor is dropped; its last owner closes it.
Close(t) ==
  /\ At(t, "close")
  /\ sock' = [sock EXCEPT ![op[t].fd] =
                IF \E u \in Tasks \ {t} : op[u].fd = op[t].fd THEN @ ELSE "closed"]
  /\ op' = [op EXCEPT ![t] = Idle]
  /\ UNCHANGED vars

-----------------------------------------------------------------------------
\* External: a connection is made, or fails.
Handshake(p) ==
  /\ sock[p] = "connecting"
  /\ \E ended \in {"open", "refused"} : sock' = [sock EXCEPT ![p] = ended]
  /\ UNCHANGED <<vars, op>>

\* A socket that is still connecting is not reported; an unconnected one is.
HandlesReact ==
  /\ \/ BumpTicker \/ WaitNothing \/ LockSources \/ Dispatch \/ EndDispatch \/ EndReact
     \/ \E emitted \in [Fds -> SUBSET Dirs] :
          /\ \A p \in Fds : emitted[p] # {} => sock[p] # "connecting"
          /\ WaitEvents(emitted)
     \/ \E t \in Tasks : Wake(t)
     \/ \E s \in Sources : Modify(s) \/ ModifyFails(s)
  /\ UNCHANGED <<sock, op>>

Work(t) ==
  \/ \E p \in Fds : Open(t, p) \/ Share(t, p) \/ \E kind \in {"tcp", "unix"} : Connect(t, kind, p)
  \/ \E s \in Sources, k \in Keys : Insert(t, s, k)
  \/ \E f \in Futures, d \in Dirs : Await(t, f, d)
  \/ Add(t) \/ Poll(t) \/ Awaited(t) \/ Cancel(t)
  \/ Deregister(t) \/ Close(t)

HandlesNext ==
  \/ \E t \in Tasks : Work(t)
  \/ \E p \in Fds : Handshake(p)
  \/ HandlesReact

HandlesSpec == HandlesInit /\ [][HandlesNext]_handleVars

-----------------------------------------------------------------------------
(* Properties. *)

\* connect() returns Ok only for a stream that is connected, although neither
\* take_error() nor writability alone says so: the event it acts on is one of this socket
\* and of this attempt, not one of the socket that had the descriptor or the slab key
\* before and was given up half way.
ConnectedIsConnected ==
  \A t \in Tasks : At(t, "held") /\ op[t].kind \in {"tcp", "unix"} => sock[op[t].fd] = "open"

\* What is registered with the poller is open and in the hands of some task, so that the
\* number cannot be given to another socket: the order of deregistering and closing holds
\* on every path out, errors and cancellations included ("It is impossible to drop the
\* I/O source while it is registered through this type").
RegisteredIsOpen ==
  \A p \in Fds : interest[p] # None =>
    sock[p] # "closed" /\ \E t \in Tasks : op[t].fd = p /\ op[t].src # None
=============================================================================
