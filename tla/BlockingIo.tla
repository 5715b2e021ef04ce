----------------------------- MODULE BlockingIo -----------------------------
(***************************************************************************)
(* What Async<T> promises of an I/O operation, as if it were a blocking    *)
(* call: the call is answered by the operating system, exactly once, at a  *)
(* moment the descriptor can answer it; until then it stays busy, takes    *)
(* nothing and leaves other calls alone.  Module Async implements it.      *)
(***************************************************************************)
EXTENDS Naturals

CONSTANTS Tasks, Fds, Dirs, None

VARIABLES
  busy,    \* the call of a task: [fd, dir, takes], or None
  avail,   \* what a descriptor has to give: data to read, room to write
  hup,     \* the descriptors whose peer is gone: every call is answered
  broken   \* a registration with the operating system has failed

vars == <<busy, avail, hup, broken>>

Call == [fd : Fds, dir : Dirs, takes : BOOLEAN]

Answerable(c) == avail[<<c.fd, c.dir>>] > 0 \/ c.fd \in hup

Init ==
  /\ busy = [t \in Tasks |-> None]
  /\ avail = [x \in Fds \X Dirs |-> 0]
  /\ hup = {}
  /\ broken = FALSE

Begin(t) ==
  /\ busy[t] = None
  /\ \E c \in Call : busy' = [busy EXCEPT ![t] = c]
  /\ UNCHANGED <<avail, hup, broken>>

\* The operating system answers: the call returns what it took, if anything was there.
Complete(t) ==
  /\ busy[t] # None /\ Answerable(busy[t])
  /\ busy' = [busy EXCEPT ![t] = None]
  /\ avail' = [avail EXCEPT ![<<busy[t].fd, busy[t].dir>>] =
                 IF busy[t].takes /\ @ > 0 THEN @ - 1 ELSE @]
  /\ UNCHANGED <<hup, broken>>

\* The call is given up by its caller, or ends with the error of a registration.
Return(t) ==
  /\ busy[t] # None
  /\ busy' = [busy EXCEPT ![t] = None]
  /\ UNCHANGED <<avail, hup, broken>>

Environment ==
  \/ /\ \E x \in Fds \X Dirs : avail' = [avail EXCEPT ![x] = @ + 1]
     /\ UNCHANGED <<busy, hup, broken>>
  \/ \E p \in Fds : hup' = hup \cup {p} /\ UNCHANGED <<busy, avail, broken>>
  \/ broken' = TRUE /\ UNCHANGED <<busy, avail, hup>>

Next == (\E t \in Tasks : Begin(t) \/ Complete(t) \/ Return(t)) \/ Environment

Spec == Init /\ [][Next]_vars

\* A call does not stay busy forever with its answer at hand.
Progress ==
  \A t \in Tasks : []<>(broken \/ busy[t] = None \/ ~Answerable(busy[t]))
=============================================================================
