--------------------------- MODULE HandlesProofs ---------------------------
(***************************************************************************)
(* The handles of module Handles use the reactor as IoSource says, what is *)
(* registered is open, and connect() returns only what is connected.       *)
(***************************************************************************)
EXTENDS Handles, IoSourceProofs

-----------------------------------------------------------------------------
(* The inductive invariant. *)

OpRecord ==
  [pc : {"idle", "insert", "add", "await", "held", "connect", "wait", "drop", "close"},
   kind : {"tcp", "unix", "new", "shared", None}, fd : Fds \cup {None},
   src : Sources \cup {None}, fut : Futures \cup {None}]

HandleType ==
  /\ sock \in [Fds -> {"closed", "open", "connecting", "unconnected", "refused"}]
  /\ op \in [Tasks -> OpRecord]

HandleHeld == {"await", "held", "connect", "wait", "drop"}
Awaiting == {"connect", "wait"}

\* What a task at work has in hand: an open descriptor; from insert_io() to remove_io() a
\* source for it; and, while it awaits one, a future of that source.
InHand ==
  \A t \in Tasks :
    /\ At(t, "idle") => op[t] = Idle
    /\ ~At(t, "idle") => op[t].fd \in Fds /\ sock[op[t].fd] # "closed"
    /\ At(t, "add") => op[t].src \in Sources /\ src[op[t].src].st = "inserted"
    /\ op[t].pc \in HandleHeld => op[t].src \in Sources /\ src[op[t].src].st = "live"
    /\ op[t].src # None => src[op[t].src].fd = op[t].fd /\ op[t].pc \in HandleHeld \cup {"add"}
    /\ op[t].pc \in Awaiting => op[t].fut \in Futures
    /\ op[t].fut # None => /\ fut[op[t].fut].st # "none" /\ fut[op[t].fut].src = op[t].src
                           /\ op[t].pc \in Awaiting

\* No two tasks have the same source or future in hand, and no source is in nobody's.
OneEach ==
  /\ \A t \in Tasks, u \in Tasks : op[t].src # None /\ op[t].src = op[u].src => t = u
  /\ \A t \in Tasks, u \in Tasks : op[t].fut # None /\ op[t].fut = op[u].fut => t = u
  /\ \A s \in Sources : src[s].st # "none" => \E t \in Tasks : op[t].src = s

\* A connecting socket is awaited by connect() alone, and one of TCP cannot stay unconnected.
Connecting ==
  \A t \in Tasks : ~At(t, "idle") =>
    /\ op[t].kind = "tcp" => sock[op[t].fd] \in {"open", "connecting", "refused"}
    /\ op[t].kind \in {"tcp", "unix"} => op[t].fd \in Sockets /\ op[t].pc # "wait"
    /\ op[t].pc \in {"await", "connect"} => op[t].kind \in {"tcp", "unix"}

\* An event since a future registered shows that its socket is no longer connecting.
EventsTell ==
  \A f \in Futures :
    /\ fut[f].st = "ready" => fresh[f]
    /\ fresh[f] => fut[f].st # "none" /\ sock[src[fut[f].src].fd] # "connecting"

HInv ==
  /\ IInv
  /\ HandleType
  /\ InHand
  /\ OneEach
  /\ Connecting
  /\ EventsTell
  /\ ConnectedIsConnected


-----------------------------------------------------------------------------
(* The handles use the reactor by its operations. *)

\* Every step of module Handles is a step of the reactor, or leaves the reactor alone.
LEMMA HandlesSteps ==
  ASSUME HInv, [HandlesNext]_handleVars
  PROVE  [Next]_vars
<1> USE DEF HInv, HandleHeld, Awaiting
<1>1. ASSUME NEW t \in Tasks, NEW p \in Fds,
             Open(t, p) \/ Share(t, p) \/ \E kind \in {"tcp", "unix"} : Connect(t, kind, p)
      PROVE  UNCHANGED vars
  BY <1>1 DEF Open, Share, Connect
<1>2. ASSUME NEW t \in Tasks, NEW s \in Sources, NEW k \in Keys, Insert(t, s, k) PROVE Next
  <2>1. op[t].fd \in Fds
    BY <1>2 DEF Insert, InHand, At
  <2> QED
    BY <1>2, <2>1 DEF Insert, Next, Handle
<1>3. ASSUME NEW t \in Tasks, NEW f \in Futures, NEW d \in Dirs, Await(t, f, d) PROVE Next
  <2>1. op[t].src \in Sources
    BY <1>3 DEF Await, InHand, At
  <2> QED
    BY <1>3, <2>1 DEF Await, Next, ReadyFuture
<1>4. ASSUME NEW t \in Tasks, Add(t) PROVE Next
  <2>1. op[t].src \in Sources
    BY <1>4 DEF Add, InHand
  <2> QED
    BY <1>4, <2>1 DEF Add, Next, Handle
<1>5. ASSUME NEW t \in Tasks, Poll(t) \/ Awaited(t) \/ Cancel(t) PROVE Next
  <2>1. op[t].fut \in Futures
    BY <1>5 DEF Poll, Awaited, Cancel, InHand
  <2> QED
    BY <1>5, <2>1 DEF Poll, Awaited, Cancel, Next, ReadyFuture
<1>6. ASSUME NEW t \in Tasks, Deregister(t) PROVE Next
  <2>1. op[t].src \in Sources
    BY <1>6 DEF Deregister, Ends, InHand, At
  <2> QED
    BY <1>6, <2>1 DEF Deregister, Next, Handle
<1>7. ASSUME NEW t \in Tasks, Close(t) PROVE UNCHANGED vars
  BY <1>7 DEF Close
<1>8. ASSUME NEW p \in Fds, Handshake(p) PROVE UNCHANGED vars
  BY <1>8 DEF Handshake
<1>9. ASSUME HandlesReact PROVE Next
  BY <1>9 DEF HandlesReact, Next, React
<1>10. CASE UNCHANGED handleVars
  BY <1>10 DEF handleVars
<1> QED
  BY <1>1, <1>2, <1>3, <1>4, <1>5, <1>6, <1>7, <1>8, <1>9, <1>10 DEF HandlesNext, Work

-----------------------------------------------------------------------------
(* What the steps keep. *)

\* What HInv says of the handles.
HandlesOK ==
  HandleType /\ InHand /\ OneEach /\ Connecting /\ EventsTell /\ ConnectedIsConnected

\* A task goes on with this in hand, the others as before.
GoesOn(t, pc, kind, p, s, f) ==
  /\ op' \in [Tasks -> OpRecord]
  /\ op'[t].pc = pc /\ op'[t].kind = kind /\ op'[t].fd = p /\ op'[t].src = s /\ op'[t].fut = f
  /\ \A u \in Tasks \ {t} : op'[u] = op[u]

\* A step that leaves the handles alone, and of a future at most ends its await, keeps HInv
\* as long as the futures that have heard of an event still tell the truth.
LEMMA QuietStep ==
  ASSUME HInv, UNCHANGED <<src, sock, op>>, EventsTell',
         \A f \in Futures : fut'[f].src = fut[f].src /\ (fut[f].st # "none" => fut'[f].st # "none")
  PROVE  HandlesOK'
<1> USE DEF HInv, HandlesOK
<1>1. HandleType' /\ Connecting' /\ ConnectedIsConnected'
  BY DEF HandleType, Connecting, ConnectedIsConnected, At
<1>2. InHand'
  BY DEF InHand, At
<1>3. OneEach'
  BY DEF OneEach
<1> QED
  BY <1>1, <1>2, <1>3

\* An event that wait() returns is of a socket that is not connecting.
LEMMA WaitEventsTell ==
  ASSUME HInv, UNCHANGED <<sock, op>>, NEW emitted \in [Fds -> SUBSET Dirs],
         \A p \in Fds : emitted[p] # {} => sock[p] # "connecting", WaitEvents(emitted)
  PROVE  EventsTell'
<1>1. UNCHANGED <<src, fut>>
  BY DEF WaitEvents
<1>2. \A f \in Futures : fut[f].st = "ready" => fresh'[f]
  BY DEF WaitEvents, HInv, EventsTell
<1>3. ASSUME NEW f \in Futures, fresh'[f]
      PROVE  fut[f].st # "none" /\ sock[src[fut[f].src].fd] # "connecting"
  <2>1. CASE fresh[f]
    BY <2>1 DEF HInv, EventsTell
  <2>2. CASE HasIndex(f) /\ \E p \in Fds : emitted[p] # {} /\ OwnedBy(fut[f].src, p)
    <3>1. fut[f].st # "none"
      BY <2>2 DEF HInv, IInv, Shape, HasIndex, NoFuture, Future
    <3> QED
      BY <2>2, <3>1 DEF OwnedBy
  <2> QED
    BY <1>3, <2>1, <2>2 DEF WaitEvents
<1> QED
  BY <1>1, <1>2, <1>3 DEF EventsTell

\* react(), modify() and the polls of a future leave the handles alone.
LEMMA ReactStep ==
  ASSUME HInv, HandlesReact
  PROVE  HandlesOK'
<1> USE DEF HInv
<1>0. UNCHANGED <<sock, op>>
  BY DEF HandlesReact
<1>1. ASSUME NEW emitted \in [Fds -> SUBSET Dirs], WaitEvents(emitted),
             \A p \in Fds : emitted[p] # {} => sock[p] # "connecting"
      PROVE  HandlesOK'
  <2>1. EventsTell'
    BY <1>0, <1>1, WaitEventsTell
  <2>2. UNCHANGED <<src, fut>>
    BY <1>1 DEF WaitEvents
  <2> QED
    BY <1>0, <2>1, <2>2, QuietStep
<1>2. ASSUME NEW s \in Sources, ModifyFails(s) PROVE HandlesOK'
  <2>1. UNCHANGED <<src, fresh>>
    BY <1>2 DEF ModifyFails, ghostVars
  <2>2. \A f \in Futures :
          \/ fut'[f] = fut[f]
          \/ fut[f].st = "pending" /\ fut'[f].st = "err" /\ fut'[f].src = fut[f].src
    BY <1>2 DEF ModifyFails, Future, IInv, TypeOK, Shape
  <2>3. EventsTell'
    BY <1>0, <2>1, <2>2 DEF EventsTell
  <2> QED
    BY <1>0, <2>1, <2>2, <2>3, QuietStep
<1>3. CASE UNCHANGED <<src, fut, fresh>>
  <2>1. EventsTell'
    BY <1>0, <1>3 DEF EventsTell
  <2> QED
    BY <1>0, <1>3, <2>1, QuietStep
<1> QED
  BY <1>1, <1>2, <1>3 DEF HandlesReact, BumpTicker, WaitNothing, LockSources, Dispatch,
     DispatchEvent, DispatchVacant, DispatchFails, EndDispatch, Wake, EndReact, Modify, ghostVars

\* A poll is answered Ready only after an event; one that is not remembers what it has heard.
LEMMA PollStep ==
  ASSUME HInv, NEW t \in Tasks, Poll(t)
  PROVE  HandlesOK'
<1> USE DEF HInv
<1>0. UNCHANGED <<src, sock, op>>
  BY DEF Poll, ReadyPollReady, ReadyPollPending
<1> DEFINE f == op[t].fut
<1>1. f \in Futures
  BY DEF Poll, InHand, Awaiting
<1> HIDE DEF f
<1>2. CASE ReadyPollReady(f, t)
  <2>1. fresh[f]
    BY <1>1, <1>2 DEF ReadyPollReady, Delivered, IInv, FreshInv, HasIndex, Stale
  <2>2. \A g \in Futures :
          /\ fut'[g].src = fut[g].src
          /\ \/ fut'[g].st = fut[g].st
             \/ g = f /\ fut[g].st # "none" /\ fut'[g].st = "ready"
    BY <1>1, <1>2 DEF ReadyPollReady, IInv, TypeOK, Future
  <2>3. EventsTell'
    BY <1>0, <1>2, <2>1, <2>2 DEF EventsTell, ReadyPollReady, ghostVars
  <2> QED
    BY <1>0, <2>2, <2>3, QuietStep
<1>3. CASE ReadyPollPending(f, t)
  <2>1. \A g \in Futures :
          /\ fut'[g].src = fut[g].src
          /\ \/ fut'[g].st = fut[g].st
             \/ g = f /\ fut[g].st # "none" /\ fut'[g].st = "pending"
    BY <1>1, <1>3 DEF ReadyPollPending, IInv, TypeOK, Future
  <2>2. \A g \in Futures : (fresh'[g] => fresh[g]) /\ (g # f => fresh'[g] = fresh[g])
    BY <1>1, <1>3 DEF ReadyPollPending, IInv, TypeOK
  <2>3. fut'[f].st = "pending"
    BY <1>1, <1>3 DEF ReadyPollPending, IInv, TypeOK, Future
  <2>4. EventsTell'
    BY <1>0, <2>1, <2>2, <2>3 DEF EventsTell
  <2> QED
    BY <1>0, <2>1, <2>4, QuietStep
<1> QED
  BY <1>2, <1>3 DEF Poll, f


\* connect(), bind() and the like start on a descriptor that was closed, Async::new() also on
\* one that another handle holds.
LEMMA StartStep ==
  ASSUME HInv, NEW t \in Tasks, NEW p \in Fds,
         Open(t, p) \/ Share(t, p) \/ \E kind \in {"tcp", "unix"} : Connect(t, kind, p)
  PROVE  HandlesOK'
<1> USE DEF HInv
<1>0. UNCHANGED <<src, fut, fresh>>
  BY DEF Open, Share, Connect, vars
<1> DEFINE Started(kind) ==
        /\ GoesOn(t, "insert", kind, p, None, None)
        /\ kind \in {"tcp", "unix"} => p \in Sockets
        /\ \/ kind = "shared" /\ UNCHANGED sock /\ sock[p] # "closed"
           \/ /\ sock[p] = "closed"
              /\ \E begun \in {"open", "connecting", "unconnected"} :
                   /\ sock' = [sock EXCEPT ![p] = begun]
                   /\ kind = "tcp" => begun # "unconnected"
<1>1. PICK kind \in {"tcp", "unix", "new", "shared"} : Started(kind)
  <2>1. \A kind \in {"tcp", "unix", "new", "shared"} :
          Start(t, kind, p) => GoesOn(t, "insert", kind, p, None, None)
    <3> SUFFICES ASSUME NEW kind \in {"tcp", "unix", "new", "shared"}, Start(t, kind, p)
                 PROVE  GoesOn(t, "insert", kind, p, None, None)
      OBVIOUS
    <3>1. PICK r : r = [pc |-> "insert", kind |-> kind, fd |-> p, src |-> None, fut |-> None]
      OBVIOUS
    <3>2. op' = [op EXCEPT ![t] = r]
      BY <3>1 DEF Start
    <3>3. r \in OpRecord
      BY <3>1 DEF OpRecord
    <3> QED
      BY <3>1, <3>2, <3>3 DEF GoesOn, HandleType
  <2>2. CASE Open(t, p)
    BY <2>1, <2>2 DEF Open
  <2>3. CASE Share(t, p)
    <3>1. sock[p] # "closed"
      BY <2>3 DEF Share, InHand, At
    <3> QED
      BY <2>1, <2>3, <3>1 DEF Share
  <2>4. ASSUME NEW kind \in {"tcp", "unix"}, Connect(t, kind, p) PROVE Started(kind)
    BY <2>1, <2>4 DEF Connect
  <2> QED
    BY <2>2, <2>3, <2>4
<1>2. \A q \in Fds : sock[q] # "closed" => sock'[q] = sock[q]
  BY <1>1 DEF HandleType
<1>3. HandleType'
  BY <1>1 DEF HandleType, GoesOn
<1>4. sock'[p] # "closed" /\ (kind = "tcp" => sock'[p] \in {"open", "connecting"})
  BY <1>1 DEF HandleType
<1>5. InHand'
  BY <1>0, <1>1, <1>2, <1>4 DEF GoesOn, InHand, At, HandleHeld, Awaiting
<1>6. OneEach'
  <2>1. op[t].src = None
    BY DEF Open, Share, Connect, InHand, At, Idle
  <2> QED
    BY <1>0, <1>1, <2>1, ConstantsAssumption DEF GoesOn, OneEach
<1>7. Connecting' /\ ConnectedIsConnected'
  <2>1. \A u \in Tasks \ {t} : ~At(u, "idle") => sock'[op[u].fd] = sock[op[u].fd]
    BY <1>2 DEF InHand
  <2> QED
    BY <1>1, <1>4, <2>1 DEF GoesOn, Connecting, ConnectedIsConnected, At
<1>8. EventsTell'
  <2>1. ASSUME NEW f \in Futures, fresh[f] PROVE sock'[src[fut[f].src].fd] # "connecting"
    <3>1. fut[f].st # "none" /\ fut[f].src \in Sources /\ src[fut[f].src].st = "live"
      BY <2>1 DEF EventsTell, IInv, Shape
    <3>2. PICK u \in Tasks : op[u].src = fut[f].src
      BY <3>1 DEF OneEach
    <3>3. src[fut[f].src].fd \in Fds /\ sock[src[fut[f].src].fd] # "closed"
      BY <3>1, <3>2, ConstantsAssumption DEF InHand, At, Idle
    <3> QED
      BY <1>2, <2>1, <3>3 DEF EventsTell
  <2> QED
    BY <1>0, <2>1 DEF EventsTell
<1> QED
  BY <1>3, <1>5, <1>6, <1>7, <1>8 DEF HandlesOK

\* A step of one task that leaves the descriptors, the futures and the sources of the
\* other tasks alone.
LEMMA SourceStep ==
  ASSUME HInv, UNCHANGED <<sock, fut, fresh>>, NEW t \in Tasks,
         NEW pc \in {"insert", "add", "await", "held", "close"}, NEW kind, NEW s \in Sources,
         GoesOn(t, pc, kind, op[t].fd, IF pc \in {"insert", "close"} THEN None ELSE s, None),
         ~At(t, "idle"),
         op[t].src = s \/ (op[t].src = None /\ src[s].st = "none"),
         \A f \in Futures : fut[f].st # "none" => fut[f].src # s,
         kind = op[t].kind \/ kind = "new",
         pc = "await" => kind \in {"tcp", "unix"},
         pc = "held" => kind \notin {"tcp", "unix"},
         \A q \in Sources \ {s} : src'[q] = src[q],
         src'[s].st = IF pc \in {"insert", "close"} THEN "none"
                      ELSE IF pc = "add" THEN "inserted" ELSE "live",
         pc \notin {"insert", "close"} => src'[s].fd = op[t].fd
  PROVE  HandlesOK'
<1> USE DEF HInv
<1>1. \A u \in Tasks \ {t} : op'[u] = op[u] /\ op[u].src # s
  <2>1. ASSUME NEW u \in Tasks \ {t}, op[u].src = s PROVE FALSE
    <3>1. src[s].st # "none"
      BY <2>1, ConstantsAssumption DEF InHand, HandleHeld, At
    <3> QED
      BY <2>1, <3>1, ConstantsAssumption DEF OneEach
  <2> QED
    BY <2>1 DEF GoesOn
<1>2. HandleType'
  BY DEF HandleType, GoesOn
<1>3. InHand'
  BY <1>1, ConstantsAssumption DEF GoesOn, InHand, At, HandleHeld, Awaiting
<1>4. OneEach'
  BY <1>1, ConstantsAssumption DEF GoesOn, OneEach
<1>5. Connecting' /\ ConnectedIsConnected'
  BY <1>1 DEF GoesOn, Connecting, ConnectedIsConnected, At
<1>6. EventsTell'
  BY DEF EventsTell, IInv, Shape
<1> QED
  BY <1>2, <1>3, <1>4, <1>5, <1>6 DEF HandlesOK


\* A task takes a source in hand, or lets go of it.
LEMMA TakesSource ==
  ASSUME HandleType, NEW t \in Tasks, NEW pc \in {"add", "close"}, NEW s \in Sources \cup {None},
         op' = [op EXCEPT ![t].pc = pc, ![t].src = s], op[t].fut = None
  PROVE  GoesOn(t, pc, op[t].kind, op[t].fd, s, None)
<1>1. PICK r : r = [op[t] EXCEPT !.pc = pc, !.src = s]
  OBVIOUS
<1>2. op' = [op EXCEPT ![t] = r]
  BY <1>1 DEF HandleType
<1>3. op[t] \in OpRecord
  BY DEF HandleType
<1>4. r \in OpRecord /\ r.pc = pc /\ r.kind = op[t].kind /\ r.fd = op[t].fd /\ r.src = s
      /\ r.fut = None
  BY <1>1, <1>3 DEF OpRecord
<1> QED
  BY <1>2, <1>4 DEF GoesOn, HandleType

\* insert_io() and remove_io() change one source only, which is in the hands of one task.
LEMMA RegistrationStep ==
  ASSUME HInv, NEW t \in Tasks,
         (\E s \in Sources, k \in Keys : Insert(t, s, k)) \/ Add(t) \/ Deregister(t)
  PROVE  HandlesOK'
<1> USE DEF HInv
<1>1. ASSUME NEW s \in Sources, NEW k \in Keys, Insert(t, s, k) PROVE HandlesOK'
  <2>0. op[t].fut = None
    BY <1>1 DEF Insert, InHand, At, Awaiting
  <2>1. GoesOn(t, "add", op[t].kind, op[t].fd, s, None)
    BY <1>1, <2>0, TakesSource DEF Insert
  <2>2. /\ UNCHANGED <<sock, fut, fresh>> /\ src[s].st = "none"
        /\ \A q \in Sources \ {s} : src'[q] = src[q]
        /\ src'[s].st = "inserted" /\ src'[s].fd = op[t].fd
    BY <1>1 DEF Insert, InsertSource, ghostVars, IInv, TypeOK
  <2>3. ~At(t, "idle") /\ op[t].src = None
    BY <1>1 DEF Insert, InHand, At, HandleHeld
  <2>4. \A f \in Futures : fut[f].st # "none" => fut[f].src # s
    BY <2>2 DEF IInv, Shape
  <2> QED
    BY <2>1, <2>2, <2>3, <2>4, SourceStep
<1>2. ASSUME Add(t) PROVE HandlesOK'
  <2> DEFINE s == op[t].src
  <2>0. s \in Sources /\ src[s].st = "inserted" /\ ~At(t, "idle") /\ op[t].fut = None
    BY <1>2 DEF Add, InHand, At, Awaiting
  <2>1. \A f \in Futures : fut[f].st # "none" => fut[f].src # s
    BY <2>0 DEF IInv, Shape
  <2>2. CASE /\ AddRegistration(s)
             /\ Goto(t, IF op[t].kind \in {"tcp", "unix"} THEN "await" ELSE "held")
    <3>1. PICK pc \in {"await", "held"} :
            /\ GoesOn(t, pc, op[t].kind, op[t].fd, s, None)
            /\ pc = "await" <=> op[t].kind \in {"tcp", "unix"}
      BY <2>0, <2>2 DEF Goto, GoesOn, HandleType, OpRecord
    <3>2. /\ UNCHANGED <<sock, fut, fresh>>
          /\ \A q \in Sources \ {s} : src'[q] = src[q]
          /\ src'[s].st = "live" /\ src'[s].fd = op[t].fd
      BY <1>2, <2>0, <2>2, ConstantsAssumption
         DEF Add, AddRegistration, ghostVars, IInv, TypeOK, InHand
    <3> QED
      BY <2>0, <2>1, <3>1, <3>2, SourceStep
  <2>3. CASE AddFails(s) /\ op' = [op EXCEPT ![t].pc = "close", ![t].src = None]
    <3>1. GoesOn(t, "close", op[t].kind, op[t].fd, None, None)
      BY <2>0, <2>3, TakesSource
    <3>2. /\ UNCHANGED <<sock, fut, fresh>>
          /\ \A q \in Sources \ {s} : src'[q] = src[q]
          /\ src'[s].st = "none"
      BY <1>2, <2>0, <2>3 DEF Add, AddFails, ghostVars, IInv, TypeOK, NoSource
    <3> QED
      BY <2>0, <2>1, <3>1, <3>2, SourceStep
  <2> QED
    BY <1>2, <2>2, <2>3 DEF Add
<1>3. ASSUME Deregister(t) PROVE HandlesOK'
  <2> DEFINE s == op[t].src
  <2>0. s \in Sources /\ ~At(t, "idle") /\ op[t].fd \in Fds /\ op[t].fut = None
    BY <1>3 DEF Deregister, Ends, InHand, At, HandleHeld, Awaiting
  <2>1. \A f \in Futures : fut[f].src # s
    BY <1>3 DEF Deregister, remove_io
  <2>2. \/ GoesOn(t, "close", op[t].kind, op[t].fd, None, None)
        \/ GoesOn(t, "insert", "new", op[t].fd, None, None)
    BY <1>3, <2>0 DEF Deregister, Ends, Start, GoesOn, HandleType, OpRecord
  <2>3. /\ UNCHANGED <<sock, fut, fresh>>
        /\ \A q \in Sources \ {s} : src'[q] = src[q]
        /\ src'[s].st = "none"
    BY <1>3, <2>0 DEF Deregister, remove_io, IInv, TypeOK, NoSource
  <2> QED
    BY <2>0, <2>1, <2>2, <2>3, SourceStep
<1> QED
  BY <1>1, <1>2, <1>3

\* writable() in connect(), and ready() of a Filter or Waitable.
LEMMA AwaitStep ==
  ASSUME HInv, NEW t \in Tasks, NEW f \in Futures, NEW d \in Dirs, Await(t, f, d)
  PROVE  HandlesOK'
<1> USE DEF HInv
<1>1. PICK pc \in Awaiting :
        /\ GoesOn(t, pc, op[t].kind, op[t].fd, op[t].src, f)
        /\ pc = "connect" => At(t, "await")
        /\ pc = "wait" => At(t, "held") /\ op[t].fd \notin Sockets
  BY DEF Await, At, GoesOn, HandleType, OpRecord, Awaiting
<1>2. /\ UNCHANGED <<src, sock, fresh>> /\ fut[f] = NoFuture
      /\ fut'[f].st = "new" /\ fut'[f].src = op[t].src
      /\ \A g \in Futures \ {f} : fut'[g] = fut[g]
  BY DEF Await, NewReady, ghostVars, IInv, TypeOK, Future
<1>3. op[t].src \in Sources /\ src[op[t].src].st = "live" /\ op[t].pc \in {"await", "held"}
  BY <1>1 DEF InHand, At, HandleHeld, Awaiting
<1>4. fut[f].st = "none"
  BY <1>2 DEF NoFuture, Future
<1>5. \A u \in Tasks : op[u].fut # f
  BY <1>4, ConstantsAssumption DEF InHand
<1>6. HandleType'
  BY <1>1, <1>2 DEF HandleType, GoesOn
<1>7. InHand'
  BY <1>1, <1>2, <1>3, <1>5 DEF InHand, GoesOn, At, Awaiting, HandleHeld, HandleType, OpRecord
<1>8. OneEach'
  BY <1>1, <1>2, <1>5 DEF OneEach, GoesOn
<1>9. Connecting' /\ ConnectedIsConnected'
  BY <1>1, <1>2, <1>3 DEF Connecting, ConnectedIsConnected, GoesOn, At, Awaiting
<1>10. EventsTell'
  BY <1>2, <1>4 DEF EventsTell
<1> QED
  BY <1>6, <1>7, <1>8, <1>9, <1>10 DEF HandlesOK

\* The future is dropped.  When connect() goes on with the stream, an event has told that
\* it is no longer connecting, and take_error() or the peer's address that it is connected.
LEMMA AwaitedStep ==
  ASSUME HInv, NEW t \in Tasks, Awaited(t) \/ Cancel(t)
  PROVE  HandlesOK'
<1> USE DEF HInv
<1>0. PICK f \in Futures : f = op[t].fut
  BY DEF Awaited, Cancel, InHand, Awaiting
<1>1. DropReady(f)
  BY <1>0 DEF Awaited, Cancel
<1>2. /\ UNCHANGED <<src, sock>>
      /\ fut'[f].st = "none" /\ fresh'[f] = FALSE
      /\ \A g \in Futures \ {f} : fut'[g] = fut[g] /\ fresh'[g] = fresh[g]
  BY <1>1 DEF Awaited, Cancel, DropReady, IInv, TypeOK, NoFuture, Future
<1>3. op[t].pc \in Awaiting /\ op[t].src \in Sources /\ src[op[t].src].st = "live"
  BY DEF Awaited, Cancel, InHand, Awaiting, HandleHeld
<1>4. PICK pc \in {"held", "drop"} :
        /\ GoesOn(t, pc, op[t].kind, op[t].fd, op[t].src, None)
        /\ pc = "held" => \/ op[t].pc = "wait"
                          \/ fut[f].st = "ready" /\ Connected(op[t].kind, op[t].fd)
  <2>1. CASE Awaited(t)
    BY <1>0, <2>1 DEF Awaited, GoesOn, HandleType, OpRecord
  <2>2. CASE Cancel(t)
    BY <1>0, <2>2 DEF Cancel, GoesOn, HandleType, OpRecord
  <2> QED
    BY <2>1, <2>2
<1>5. \A u \in Tasks \ {t} : op[u].fut # f
  BY <1>0, ConstantsAssumption DEF OneEach
<1>6. HandleType'
  BY <1>2, <1>4 DEF HandleType, GoesOn
<1>7. InHand'
  BY <1>2, <1>3, <1>4, <1>5 DEF InHand, GoesOn, At, Awaiting, HandleHeld, HandleType, OpRecord
<1>8. OneEach'
  BY <1>2, <1>4, <1>5 DEF OneEach, GoesOn
<1>9. Connecting'
  BY <1>2, <1>3, <1>4 DEF Connecting, GoesOn, At, Awaiting
<1>10. ConnectedIsConnected'
  <2>1. ASSUME pc = "held", op[t].kind \in {"tcp", "unix"} PROVE sock[op[t].fd] = "open"
    <3>1. op[t].pc # "wait" /\ op[t].pc # "idle"
      BY <1>3, <2>1 DEF Connecting, At, Awaiting
    <3>2. fut[f].st = "ready" /\ Connected(op[t].kind, op[t].fd)
      BY <1>4, <2>1, <3>1
    <3>3. sock[op[t].fd] # "connecting"
      BY <1>0, <1>3, <3>2, ConstantsAssumption DEF EventsTell, InHand
    <3>4. op[t].kind = "tcp" => sock[op[t].fd] \in {"open", "connecting", "refused"}
      BY <3>1 DEF Connecting, At
    <3> QED
      BY <2>1, <3>2, <3>3, <3>4 DEF Connected
  <2> QED
    BY <1>2, <1>4, <2>1 DEF ConnectedIsConnected, GoesOn, At
<1>11. EventsTell'
  BY <1>2 DEF EventsTell
<1> QED
  BY <1>6, <1>7, <1>8, <1>9, <1>10, <1>11 DEF HandlesOK

\* The last owner of a descriptor closes it.
LEMMA CloseStep ==
  ASSUME HInv, NEW t \in Tasks, Close(t)
  PROVE  HandlesOK'
<1> USE DEF HInv
<1>1. GoesOn(t, "idle", None, None, None, None) /\ op'[t] = Idle
  BY ConstantsAssumption DEF Close, GoesOn, HandleType, OpRecord, Idle
<1>2. UNCHANGED <<src, fut, fresh>>
  BY DEF Close, vars
<1>3. op[t].fd \in Fds /\ op[t].src = None /\ op[t].fut = None
  BY DEF Close, InHand, At, HandleHeld, Awaiting
<1>4. \A u \in Tasks \ {t} : ~At(u, "idle") => sock'[op[u].fd] = sock[op[u].fd]
  BY <1>3 DEF Close, HandleType
<1>5. \A p \in Fds : sock'[p] = sock[p] \/ sock'[p] = "closed"
  BY <1>3 DEF Close, HandleType
<1>6. HandleType'
  BY <1>1, <1>3 DEF Close, HandleType, GoesOn
<1>7. InHand'
  BY <1>1, <1>2, <1>4, ConstantsAssumption DEF InHand, GoesOn, At, HandleHeld, Awaiting
<1>8. OneEach'
  BY <1>1, <1>2, <1>3, ConstantsAssumption DEF OneEach, GoesOn
<1>9. Connecting' /\ ConnectedIsConnected'
  BY <1>1, <1>4 DEF Connecting, ConnectedIsConnected, GoesOn, At
<1>10. EventsTell'
  <2>1. ASSUME NEW f \in Futures, fresh[f] PROVE src[fut[f].src].fd \in Fds
    BY <2>1 DEF EventsTell, IInv, Shape
  <2> QED
    BY <1>2, <1>5, <2>1 DEF EventsTell
<1> QED
  BY <1>6, <1>7, <1>8, <1>9, <1>10 DEF HandlesOK

\* A connection attempt ends.
LEMMA HandshakeStep ==
  ASSUME HInv, NEW p \in Fds, Handshake(p)
  PROVE  HandlesOK'
<1> USE DEF HInv
<1>1. UNCHANGED <<src, fut, fresh, op>>
  BY DEF Handshake, vars
<1>2. \A q \in Fds : \/ sock'[q] = sock[q]
                     \/ sock[q] = "connecting" /\ sock'[q] \in {"open", "refused"}
  BY DEF Handshake, HandleType
<1>3. HandleType'
  BY <1>1 DEF Handshake, HandleType
<1>4. InHand' /\ OneEach'
  BY <1>1, <1>2 DEF InHand, OneEach, At
<1>5. Connecting' /\ ConnectedIsConnected'
  BY <1>1, <1>2 DEF InHand, Connecting, ConnectedIsConnected, At
<1>6. EventsTell'
  <2>1. ASSUME NEW f \in Futures, fresh[f] PROVE src[fut[f].src].fd \in Fds
    BY <2>1 DEF EventsTell, IInv, Shape
  <2> QED
    BY <1>1, <1>2, <2>1 DEF EventsTell
<1> QED
  BY <1>3, <1>4, <1>5, <1>6 DEF HandlesOK


-----------------------------------------------------------------------------
(* The theorems. *)

\* Every step keeps the invariant.
LEMMA HandlesNextHInv == HInv /\ [HandlesNext]_handleVars => HInv'
<1> SUFFICES ASSUME HInv, [HandlesNext]_handleVars PROVE HInv'
  OBVIOUS
<1>1. IInv'
  BY HandlesSteps, NextIInv DEF HInv
<1>2. CASE UNCHANGED handleVars
  <2>1. EventsTell'
    BY <1>2 DEF HInv, EventsTell, handleVars, vars
  <2> QED
    BY <1>1, <1>2, <2>1, QuietStep DEF handleVars, vars, HInv, HandlesOK
<1>3. CASE HandlesNext
  <2>1. HandlesOK'
    BY <1>3, StartStep, RegistrationStep, AwaitStep, PollStep, AwaitedStep, CloseStep,
       HandshakeStep, ReactStep DEF HandlesNext, Work
  <2> QED
    BY <1>1, <2>1 DEF HInv, HandlesOK
<1> QED
  BY <1>2, <1>3

\* The invariant holds initially.
LEMMA HandlesInitHInv == HandlesInit => HInv
<1> SUFFICES ASSUME HandlesInit PROVE HInv
  OBVIOUS
<1>1. IInv
  BY InitIInv DEF HandlesInit
<1>2. HandleType /\ InHand /\ Connecting /\ ConnectedIsConnected
  BY ConstantsAssumption DEF HandlesInit, HandleType, OpRecord, InHand, Connecting,
     ConnectedIsConnected, Idle, At, HandleHeld, Awaiting
<1>3. OneEach /\ EventsTell
  BY DEF HandlesInit, Init, OneEach, EventsTell, Idle, NoSource, NoFuture, Future
<1> QED
  BY <1>1, <1>2, <1>3 DEF HInv

\* The inductive invariant holds of the handles.
THEOREM HandlesInvariance == HandlesSpec => []HInv
BY HandlesInitHInv, HandlesNextHInv, PTL DEF HandlesSpec

\* ConnectedIsConnected: connect() returns Ok only for a stream that is connected, for any
\* number of tasks, descriptors and slab keys, reused in any order, and any ticker width.
THEOREM AlwaysConnectedIsConnected == HandlesSpec => []ConnectedIsConnected
BY HandlesInvariance, PTL DEF HInv

\* RegisteredIsOpen: what is registered with the poller is open and in the hands of a task,
\* on every path out of a handle.
THEOREM AlwaysRegisteredIsOpen == HandlesSpec => []RegisteredIsOpen
<1>1. HInv => RegisteredIsOpen
  <2> SUFFICES ASSUME HInv, NEW p \in Fds, interest[p] # None
               PROVE  sock[p] # "closed" /\ \E t \in Tasks : op[t].fd = p /\ op[t].src # None
    BY DEF RegisteredIsOpen
  <2>1. PICK s \in Sources : OwnedBy(s, p)
    BY DEF HInv, IInv, PollerMatchesSlab
  <2>2. PICK t \in Tasks : op[t].src = s
    BY <2>1 DEF HInv, OneEach, OwnedBy
  <2>3. op[t].src # None /\ op[t].fd = p /\ ~At(t, "idle")
    BY <2>1, <2>2, ConstantsAssumption DEF HInv, InHand, HandleHeld, OwnedBy, At
  <2> QED
    BY <2>3 DEF HInv, InHand
<1> QED
  BY <1>1, HandlesInvariance, PTL

\* PollerMatchesSlab: as handles come and go by connect(), new(), into_inner() and Drop, the
\* poller and the slab agree (one handle per filter at a time, OneSourcePerFilter).
THEOREM HandlesTablesAgree == HandlesSpec => []PollerMatchesSlab
BY HandlesInvariance, PTL DEF HInv, IInv

\* OnlyFreshEvents: also when the next handle gets the descriptor and the slab key of one
\* that was given up half way, a poll is answered only by an event of its own.
THEOREM HandlesOnlyFresh == HandlesSpec => []OnlyFreshEvents
<1>1. HInv /\ [HandlesNext]_handleVars => [Next]_vars
  BY HandlesSteps
<1>2. HandlesInit => Init
  BY DEF HandlesInit
<1>3. HandlesSpec => Spec
  BY <1>1, <1>2, HandlesInvariance, PTL DEF HandlesSpec, Spec
<1> QED
  BY <1>3, NoStaleReadiness, PTL
=============================================================================
