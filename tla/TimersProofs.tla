---------------------------- MODULE TimersProofs ----------------------------
(***************************************************************************)
(* The safety invariants of Timers for any number of timers, tasks and IDs, *)
(* any size of the queue, every horizon and every set of periods.           *)
(***************************************************************************)
EXTENDS Timers, SequenceTheorems, WellFoundedInduction, TLAPS

-----------------------------------------------------------------------------
(* The inductive invariant: the properties, and what connects them. *)

\* The calls of an operation and the queue are sequences.
Queues ==
  /\ todo \in [Timers -> Seq(Queued \cup {Notify})]
  /\ ops \in Seq(Queued)

\* A Timer with an ID and a waker is one that exists, and the ID is one of its own.
Registration ==
  \A x \in Timers : Registered(x) =>
    timer[x].st = "live" /\ timer[x].task # None /\ timer[x].id[1] = x

\* What an operation has still to do: remove the entry of a registration that the Timer
\* has given up, then insert that of the Timer as it is now, then notify().
Calls ==
  \A x \in Timers : \A k \in 1 .. Len(todo[x]) :
    LET o == todo[x][k]
    IN /\ o.op = "Remove" =>
            k = 1 /\ o.id[1] = x /\ (timer[x].when # None => o.id # timer[x].id)
       /\ o.op = "Insert" =>
            /\ k + 1 = Len(todo[x]) /\ todo[x][k + 1] = Notify
            /\ Registered(x) /\ Entry(o) = EntryOf(x)
       /\ o.op = "Notify" => k = Len(todo[x])

\* react() holds the lock on the timers just while it processes them.
Locking == lock = Reactor <=> phase \in {"before", "after"}

\* SetTimersPending, also while an operation runs: the insertion may be still to come.
InEffect ==
  \A x \in Timers : timer[x].when # None /\ Registered(x) =>
    \/ \E k \in 1 .. Len(todo[x]) : todo[x][k].op = "Insert"
    \/ Pending(EntryOf(x))
    \/ now >= timer[x].when /\ <<x, timer[x].task>> \in toWake \cup woken \cup dropped

\* Whoever inserts a timer too late for the drain before a poll interrupts that poll.
LateInsertions ==
  phase = "before" /\ ~notified =>
    \A k \in 1 .. Len(ops) : k > budget /\ ops[k].op = "Insert" =>
      \E m \in 1 .. Len(todo[ops[k].waker[1]]) : todo[ops[k].waker[1]][m] = Notify

IInv ==
  /\ TypeOK
  /\ Queues
  /\ Registration
  /\ Calls
  /\ Locking
  /\ InEffect
  /\ NoOrphanEntries
  /\ LateInsertions
  /\ ReactorWakesInTime

-----------------------------------------------------------------------------
(* What the operators of the model compute. *)

\* A set of naturals has a least element, so the minima that Timers chooses exist.
LEMMA LeastExists ==
  ASSUME NEW S \in SUBSET Nat, S # {}
  PROVE  \E n \in S : \A m \in S : n <= m
<1>1. PICK n \in S : \A m \in S : ~(<<m, n>> \in OpToRel(<, Nat))
  BY NatLessThanWellFounded, WFMin, Zenon
<1>2. ASSUME NEW m \in S PROVE n <= m
  <2>1. ~(m < n)
    BY <1>1 DEF OpToRel
  <2> QED
    BY <2>1
<1> QED
  BY <1>2

\* A fresh ID is one of the timer's own, and nothing refers to it.
LEMMA FreshIdIsUnused ==
  ASSUME NEW x \in Timers, FreeNumbers(x) # {}
  PROVE  FreshId(x) \in Ids /\ FreshId(x)[1] = x /\ Unused(FreshId(x))
<1> DEFINE P(n) == \A m \in FreeNumbers(x) : n <= m
           c == CHOOSE n \in FreeNumbers(x) : P(n)
<1>1. FreeNumbers(x) \in SUBSET Nat
  BY TimersAssumption DEF FreeNumbers
<1>2. \E n \in FreeNumbers(x) : P(n)
  BY <1>1, LeastExists
<1>3. c \in FreeNumbers(x)
  BY <1>2
<1>4. c \in 1 .. MaxIds /\ Unused(<<x, c>>)
  BY <1>3 DEF FreeNumbers
<1>5. FreshId(x) = <<x, c>>
  BY DEF FreshId
<1> HIDE DEF c
<1> QED
  BY <1>4, <1>5 DEF Ids

\* The timeout of the poll is the first instant in the map.
LEMMA FirstInstantIsFirst ==
  ASSUME NEW entries, \A e \in entries : e.when \in Instants
  PROVE  IF entries = {} THEN FirstInstant(entries) = None
         ELSE /\ FirstInstant(entries) \in Instants
              /\ \A e \in entries : FirstInstant(entries) <= e.when
<1>1. CASE entries = {}
  BY <1>1 DEF FirstInstant
<1>2. CASE entries # {}
  <2> DEFINE W == {e.when : e \in entries}
             First(w) == \A e \in entries : w <= e.when
  <2>1. W \in SUBSET Nat /\ W # {} /\ W \subseteq Instants
    BY <1>2, TimersAssumption DEF Instants
  <2>2. \E w \in W : First(w)
    <3>1. \A e \in entries : e.when \in W
      OBVIOUS
    <3> HIDE DEF W
    <3>2. PICK w \in W : \A v \in W : w <= v
      BY <2>1, LeastExists
    <3> QED
      BY <3>1, <3>2
  <2>3. FirstInstant(entries) = CHOOSE w \in W : First(w)
    BY <1>2 DEF FirstInstant
  <2>4. FirstInstant(entries) \in W /\ First(FirstInstant(entries))
    BY <2>2, <2>3
  <2> QED
    BY <1>2, <2>1, <2>4
<1> QED
  BY <1>1, <1>2

\* The pending entries are collected from where they can be.
LEMMA PendingIsCollected ==
  ASSUME NEW e
  PROVE  /\ e \in PendingEntries <=> Pending(e)
         /\ e \in PendingEntries' <=> Pending(e)'
BY DEF PendingEntries, Pending, Inserted

\* An entry stays pending, or not, while nobody touches the queue and the map.
LEMMA SamePending ==
  ASSUME NEW e, ops' = ops, map' = map
  PROVE  Pending(e)' <=> Pending(e)
BY DEF Pending, Inserted, Removed, Entry

\* An operation in the queue is an insertion or a removal, and not a call of notify().
LEMMA QueuedOps ==
  ASSUME NEW o \in Queued
  PROVE  /\ o # Notify /\ o.when \in Instants /\ o.id \in Ids
         /\ \/ o.op = "Insert" /\ o.waker \in Wakers
               /\ o = Insert(o.when, o.id, o.waker[1], o.waker[2])
            \/ o.op = "Remove" /\ o = Remove(o.when, o.id)
BY DEF Queued, Notify, Wakers, Insert, Remove

\* Draining applies the operations in their order, so that it changes nothing of what is
\* pending: the queue and the map together stay the same.
LEMMA DrainKeepsPending ==
  ASSUME Queues, Drain, NEW e
  PROVE  Pending(e)' <=> Pending(e)
<1>1. /\ ops \in Seq(Queued) /\ ops # << >> /\ ops' = Tail(ops) /\ map' = Applied(Head(ops))
  BY DEF Queues, Drain
<1>2. /\ Len(ops) \in Nat /\ Len(ops) > 0 /\ Len(ops') = Len(ops) - 1 /\ Head(ops) = ops[1]
      /\ \A k \in 1 .. Len(ops') : ops'[k] = ops[k + 1]
  BY <1>1
<1>3. \A k \in 1 .. Len(ops') : /\ Inserted(e, k)' <=> Inserted(e, k + 1)
                                /\ Removed(e, k)' <=> Removed(e, k + 1)
  BY <1>2 DEF Inserted, Removed, Entry
<1>4. e \in map' <=> Inserted(e, 1) \/ (e \in map /\ ~Removed(e, 1))
  <2>1. ops[1] \in Queued
    BY <1>1, <1>2
  <2>2. ops[1].op \in {"Insert", "Remove"}
    BY <2>1, QueuedOps
  <2> QED
    BY <1>1, <1>2, <2>2 DEF Applied, Inserted, Removed
<1>5. ~(Inserted(e, 1) /\ Removed(e, 1))
  BY DEF Inserted, Removed
<1>6. ASSUME Pending(e)' PROVE Pending(e)
  <2>1. CASE e \in map' /\ \A k \in 1 .. Len(ops') : ~Removed(e, k)'
    <3>1. \A m \in 2 .. Len(ops) : ~Removed(e, m)
      <4> SUFFICES ASSUME NEW m \in 2 .. Len(ops) PROVE ~Removed(e, m)
        OBVIOUS
      <4>1. m - 1 \in 1 .. Len(ops') /\ (m - 1) + 1 = m
        BY <1>2
      <4> QED
        BY <1>3, <2>1, <4>1
    <3> QED
      BY <1>2, <1>4, <1>5, <2>1, <3>1 DEF Pending
  <2>2. ASSUME NEW k \in 1 .. Len(ops'), Inserted(e, k)',
               \A m \in (k + 1) .. Len(ops') : ~Removed(e, m)'
        PROVE  Pending(e)
    <3>1. k + 1 \in 1 .. Len(ops) /\ Inserted(e, k + 1)
      BY <1>2, <1>3, <2>2
    <3>2. \A m \in (k + 2) .. Len(ops) : ~Removed(e, m)
      <4> SUFFICES ASSUME NEW m \in (k + 2) .. Len(ops) PROVE ~Removed(e, m)
        OBVIOUS
      <4>1. m - 1 \in (k + 1) .. Len(ops') /\ m - 1 \in 1 .. Len(ops') /\ (m - 1) + 1 = m
        BY <1>2
      <4> QED
        BY <1>3, <2>2, <4>1
    <3> QED
      BY <3>1, <3>2 DEF Pending
  <2> QED
    BY <1>6, <2>1, <2>2 DEF Pending
<1>7. ASSUME Pending(e) PROVE Pending(e)'
  <2>1. CASE e \in map /\ \A k \in 1 .. Len(ops) : ~Removed(e, k)
    <3>1. e \in map' /\ \A k \in 1 .. Len(ops') : ~Removed(e, k)'
      BY <1>2, <1>3, <1>4, <2>1
    <3> QED
      BY <3>1 DEF Pending
  <2>2. ASSUME NEW k \in 1 .. Len(ops), Inserted(e, k),
               \A m \in (k + 1) .. Len(ops) : ~Removed(e, m)
        PROVE  Pending(e)'
    <3>1. CASE k = 1
      <4>1. e \in map'
        BY <1>4, <2>2, <3>1
      <4>2. \A m \in 1 .. Len(ops') : m + 1 \in (1 + 1) .. Len(ops)
        BY <1>2
      <4>3. \A m \in 1 .. Len(ops') : ~Removed(e, m)'
        BY <1>3, <2>2, <3>1, <4>2
      <4> QED
        BY <4>1, <4>3 DEF Pending
    <3>2. CASE k # 1
      <4>1. k - 1 \in 1 .. Len(ops') /\ (k - 1) + 1 = k
        BY <1>2, <3>2
      <4>2. Inserted(e, k - 1)'
        BY <1>3, <2>2, <4>1
      <4>3. \A m \in ((k - 1) + 1) .. Len(ops') : ~Removed(e, m)'
        <5> SUFFICES ASSUME NEW m \in ((k - 1) + 1) .. Len(ops') PROVE ~Removed(e, m)'
          OBVIOUS
        <5>1. m \in 1 .. Len(ops') /\ m + 1 \in (k + 1) .. Len(ops)
          BY <1>2, <4>1
        <5> QED
          BY <1>3, <2>2, <5>1
      <4> QED
        BY <4>1, <4>2, <4>3 DEF Pending
    <3> QED
      BY <3>1, <3>2
  <2> QED
    BY <1>7, <2>1, <2>2 DEF Pending
<1> QED
  BY <1>6, <1>7

\* A push makes the entry it inserts pending, or what it removes no longer so.
LEMMA PushPending ==
  ASSUME Queues, NEW x \in Timers, Push(x), NEW e
  PROVE  LET o == Head(todo[x])
         IN  Pending(e)' <=> \/ o.op = "Insert" /\ Entry(o) = e
                             \/ Pending(e) /\ ~(o.op = "Remove" /\ o.when = e.when /\ o.id = e.id)
<1> DEFINE o == Head(todo[x])
<1>0. PICK n : n = Len(ops) + 1
  OBVIOUS
<1>1. o \in Queued
  BY HeadTailProperties DEF Queues, Push
<1>2. /\ ops \in Seq(Queued) /\ ops' = Append(ops, o) /\ map' = map
  BY DEF Queues, Push
<1>3. /\ Len(ops) \in Nat /\ Len(ops') = n /\ ops'[n] = o
      /\ \A k \in 1 .. Len(ops) : ops'[k] = ops[k]
  BY <1>0, <1>1, <1>2
<1> HIDE DEF o
<1>4. \A k \in 1 .. Len(ops) : /\ Inserted(e, k)' <=> Inserted(e, k)
                               /\ Removed(e, k)' <=> Removed(e, k)
  BY <1>3 DEF Inserted, Removed, Entry
<1>5. /\ Inserted(e, n)' <=> o.op = "Insert" /\ Entry(o) = e
      /\ Removed(e, n)' <=> o.op = "Remove" /\ o.when = e.when /\ o.id = e.id
  BY <1>3 DEF Inserted, Removed, Entry
<1>6. CASE o.op = "Insert" /\ Entry(o) = e
  <2>1. Pending(e)'
    BY <1>0, <1>3, <1>5, <1>6 DEF Pending
  <2> QED
    BY <1>6, <2>1 DEF o
<1>7. CASE o.op = "Remove" /\ o.when = e.when /\ o.id = e.id
  <2>1. Removed(e, n)' /\ ~Inserted(e, n)'
    BY <1>5, <1>7
  <2>2. ~Pending(e)'
    BY <1>0, <1>3, <2>1 DEF Pending
  <2> QED
    BY <1>7, <2>2 DEF o
<1>8. CASE ~Inserted(e, n)' /\ ~Removed(e, n)'
  <2>1. Pending(e)' <=> Pending(e)
    BY <1>0, <1>2, <1>3, <1>4, <1>8 DEF Pending
  <2> QED
    BY <1>5, <1>8, <2>1 DEF o
<1> QED
  BY <1>5, <1>6, <1>7, <1>8

\* process_timers() takes what is due, and only that.
LEMMA ProcessPending ==
  ASSUME ProcessTimers, NEW e
  PROVE  /\ Pending(e)' => Pending(e)
         /\ Pending(e) => Pending(e)' \/ (e \in map /\ e.when <= now /\ e.waker \in toWake')
<1>1. ops' = ops /\ map' \subseteq map
  BY DEF ProcessTimers
<1>2. \A d \in map \ map' : d.when <= now /\ d.waker \in toWake'
  BY DEF ProcessTimers
<1>3. \A k : (Inserted(e, k)' <=> Inserted(e, k)) /\ (Removed(e, k)' <=> Removed(e, k))
  BY <1>1 DEF Inserted, Removed, Entry
<1> QED
  BY <1>1, <1>2, <1>3 DEF Pending

-----------------------------------------------------------------------------
(* What the operations of a Timer have in common. *)

TimerType == [st : {"none", "live"}, when : Instants \cup {None}, period : Periods \cup {None},
              id : Ids \cup {None}, task : Tasks \cup {None}]

\* The operation runs alone on timer x, and takes back only wakes that were for x.
Owns(x) ==
  /\ todo[x] = << >>
  /\ UNCHANGED <<now, queueVars, reactorVars, notified>>
  /\ woken' \subseteq woken /\ dropped' \subseteq dropped
  /\ \A v \in Wakers : v[1] # x => /\ v \in woken => v \in woken'
                                   /\ v \in dropped => v \in dropped'

\* A poll that changes nothing of the timer, which is not due.
Quiet(x) ==
  /\ Owns(x)
  /\ UNCHANGED <<timer, todo>>
  /\ timer[x].when # None => now < timer[x].when

\* The timer becomes T, which waits for nothing: the old entry, if any, is removed.
Unsets(x, T) ==
  /\ Owns(x)
  /\ T \in TimerType
  /\ timer' = [timer EXCEPT ![x] = T]
  /\ T.when = None \/ T.id = None
  /\ T.id # None => T.st = "live" /\ T.task # None /\ T.id = timer[x].id
  /\ todo' = [todo EXCEPT ![x] = Removal(x)]

\* The timer becomes T, registered under a new ID: the old entry, if any, is removed first.
Registers(x, T) ==
  /\ Owns(x)
  /\ T \in TimerType
  /\ timer' = [timer EXCEPT ![x] = T]
  /\ T.st = "live" /\ T.when # None /\ T.id # None /\ T.task # None
  /\ T.id[1] = x /\ T.id # timer[x].id
  /\ todo' = [todo EXCEPT ![x] = Removal(x) \o Insertion(T.when, T.id, x, T.task)]

\* A concatenation of calls written out.
LEMMA ConcatCalls ==
  ASSUME NEW a, NEW b, NEW c
  PROVE  /\ << >> \o << >> = << >> /\ << >> \o <<b, c>> = <<b, c>>
         /\ <<a>> \o << >> = <<a>> /\ <<a>> \o <<b, c>> = <<a, b, c>>
<1> DEFINE S == {a, b, c}
<1>1. << >> \in Seq(S) /\ <<a>> \in Seq(S) /\ <<b, c>> \in Seq(S) /\ <<a, b, c>> \in Seq(S)
  OBVIOUS
<1>2. /\ Len(<<a>>) = 1 /\ Len(<<b, c>>) = 2 /\ Len(<<a, b, c>>) = 3
  OBVIOUS
<1>3. << >> \o << >> = << >> /\ << >> \o <<b, c>> = <<b, c>> /\ <<a>> \o << >> = <<a>>
  BY <1>1, ConcatEmptySeq
<1>4. /\ <<a>> \o <<b, c>> \in Seq(S) /\ Len(<<a>> \o <<b, c>>) = 3
      /\ \A i \in 1 .. 3 : (<<a>> \o <<b, c>>)[i] = <<a, b, c>>[i]
  BY <1>1, <1>2, ConcatProperties
<1>5. <<a>> \o <<b, c>> = <<a, b, c>>
  BY <1>1, <1>2, <1>4, SeqEqual
<1> QED
  BY <1>3, <1>5

\* remove_timer() is called at most once, for the ID of the timer.
LEMMA RemovalForms ==
  ASSUME NEW x \in Timers
  PROVE  /\ Removal(x) \in {<< >>, <<Remove(timer[x].when, timer[x].id)>>}
         /\ Removal(x) \o << >> = Removal(x)
         /\ \A b, c : Removal(x) \o <<b, c>> \in
              {<<b, c>>, <<Remove(timer[x].when, timer[x].id), b, c>>}
BY ConcatCalls DEF Removal

\* A timer that is given a new registration.
LEMMA FreshRegisters ==
  ASSUME TypeOK, NEW x \in Timers, NEW w \in Instants, NEW p \in Periods \cup {None},
         NEW t \in Tasks, FreeNumbers(x) # {}, Owns(x), Set(x, w, p, FreshId(x), t),
         todo' = [todo EXCEPT ![x] = Removal(x) \o Insertion(w, FreshId(x), x, t)]
  PROVE  \E T : Registers(x, T)
<1> DEFINE T == [st |-> "live", when |-> w, period |-> p, id |-> FreshId(x), task |-> t]
<1>1. FreshId(x) \in Ids /\ FreshId(x)[1] = x /\ Unused(FreshId(x))
  BY FreshIdIsUnused
<1>2. FreshId(x) # timer[x].id /\ FreshId(x) # None
  BY <1>1, TimersAssumption DEF Unused, Ids
<1>3. T \in TimerType /\ w # None /\ t # None
  BY <1>1, TimersAssumption DEF TimerType, Instants
<1>4. timer' = [timer EXCEPT ![x] = T]
  BY DEF Set
<1>5. T.st = "live" /\ T.when = w /\ T.id = FreshId(x) /\ T.task = t
  OBVIOUS
<1> HIDE DEF T
<1>6. Registers(x, T)
  BY <1>1, <1>2, <1>3, <1>4, <1>5 DEF Registers
<1> QED
  BY <1>6

\* A timer that is left without an instant or without a registration.
LEMMA SetUnsets ==
  ASSUME NEW x \in Timers, NEW w \in Instants \cup {None}, NEW p \in Periods \cup {None},
         NEW i \in Ids \cup {None}, NEW t \in Tasks \cup {None}, Owns(x), Set(x, w, p, i, t),
         w = None \/ i = None, i # None => i = timer[x].id /\ t # None,
         todo' = [todo EXCEPT ![x] = Removal(x)]
  PROVE  \E T : Unsets(x, T)
<1> DEFINE T == [st |-> "live", when |-> w, period |-> p, id |-> i, task |-> t]
<1>1. T \in TimerType
  BY DEF TimerType
<1>2. timer' = [timer EXCEPT ![x] = T]
  BY DEF Set
<1>3. T.st = "live" /\ T.when = w /\ T.id = i /\ T.task = t
  OBVIOUS
<1> HIDE DEF T
<1>4. Unsets(x, T)
  BY <1>1, <1>2, <1>3 DEF Unsets
<1> QED
  BY <1>4

\* set_at(), set_after(), set_interval_at() and set_interval().
LEMMA SetEffect ==
  ASSUME TypeOK, Registration, NEW x \in Timers, NEW w \in Instants,
         NEW p \in Periods \cup {None}, Usable(x), SetTimer(x, w, p)
  PROVE  \E T : Unsets(x, T) \/ Registers(x, T)
<1>1. Owns(x)
  BY DEF SetTimer, Usable, Owns, taskVars
<1>2. timer[x] \in TimerType
  BY DEF TypeOK, TimerType
<1>3. CASE Registered(x)
  <2>1. timer[x].task \in Tasks
    BY <1>2, <1>3 DEF Registration, TimerType
  <2> QED
    BY <1>1, <1>3, <2>1, FreshRegisters DEF SetTimer
<1>4. CASE ~Registered(x)
  <2>1. todo' = [todo EXCEPT ![x] = Removal(x)]
    BY <1>4, RemovalForms DEF SetTimer
  <2>2. timer[x].task \in Tasks \cup {None}
    BY <1>2 DEF TimerType
  <2>3. Set(x, w, p, None, timer[x].task)
    BY <1>4 DEF SetTimer
  <2> QED
    BY <1>1, <2>1, <2>2, <2>3, SetUnsets
<1> QED
  BY <1>3, <1>4

\* Each operation that makes, sets, clears or drops a Timer, up to its calls into the
\* reactor.
LEMMA SetsEffect ==
  ASSUME TypeOK, Queues, Registration, NEW x \in Timers, Sets(x)
  PROVE  \E T : Unsets(x, T) \/ Registers(x, T)
<1>1. timer[x] \in TimerType
  BY DEF TypeOK, TimerType
<1>2. /\ timer[x].when \in Instants \cup {None} /\ timer[x].period \in Periods \cup {None}
      /\ timer[x].id \in Ids \cup {None} /\ timer[x].task \in Tasks \cup {None}
  BY <1>1 DEF TimerType
<1>3. ASSUME NEW w \in Instants \cup {None}, NEW p \in Periods \cup {None}, NewTimer(x, w, p)
      PROVE  \E T : Unsets(x, T)
  <2>1. Owns(x)
    BY <1>3 DEF NewTimer, Owns, taskVars
  <2>2. ~Registered(x)
    BY <1>3 DEF NewTimer, Registration
  <2>3. Removal(x) = << >>
    BY <2>2 DEF Removal
  <2>4. todo' = [todo EXCEPT ![x] = Removal(x)]
    BY <1>3, <2>3 DEF NewTimer, Queues
  <2> QED
    BY <1>3, <2>1, <2>4, SetUnsets DEF NewTimer
<1>4. CASE Create(x)
  BY <1>3, <1>4 DEF Create
<1>5. CASE \E w \in Instants : set_at(x, w)
  BY <1>2, <1>5, SetEffect DEF set_at
<1>6. CASE \E w \in Instants, p \in Periods : set_interval_at(x, w, p)
  BY <1>6, SetEffect DEF set_interval_at
<1>7. CASE clear(x)
  <2>1. Owns(x)
    BY <1>7 DEF clear, Usable, Owns, taskVars
  <2> QED
    BY <1>2, <1>7, <2>1, SetUnsets DEF clear, Registration, Registered
<1>8. CASE DropTimer(x)
  <2>1. Owns(x)
    BY <1>8 DEF DropTimer, Usable, Owns
  <2>2. NoTimer \in TimerType
    BY DEF NoTimer, TimerType
  <2>3. Unsets(x, NoTimer)
    BY <1>8, <2>1, <2>2 DEF DropTimer, Unsets, NoTimer
  <2> QED
    BY <2>3
<1> QED
  BY <1>4, <1>5, <1>6, <1>7, <1>8 DEF Sets

\* The polls of a Timer.
LEMMA PollsEffect ==
  ASSUME TypeOK, NEW x \in Timers, NEW t \in Tasks, Polls(x, t)
  PROVE  Quiet(x) \/ \E T : Unsets(x, T) \/ Registers(x, T)
<1>1. timer[x] \in TimerType
  BY DEF TypeOK, TimerType
<1>2. /\ timer[x].when \in Instants \cup {None} /\ timer[x].period \in Periods \cup {None}
      /\ timer[x].id \in Ids \cup {None} /\ timer[x].task \in Tasks \cup {None}
  BY <1>1 DEF TimerType
<1>3. CASE PollFired(x, t)
  <2> DEFINE next == timer[x].when + timer[x].period
             again == timer[x].period # None /\ next <= Horizon
  <2>1. Owns(x)
    BY <1>3 DEF PollFired, Usable, Owns, Awake, Wakers
  <2>2. CASE again
    <3>1. timer[x].when \in Instants
      BY <1>2, <1>3 DEF PollFired
    <3>2. timer[x].period \in Nat
      BY <1>2, <2>2, TimersAssumption
    <3>3. next \in Instants
      BY <2>2, <3>1, <3>2, TimersAssumption DEF Instants
    <3> QED
      BY <1>2, <1>3, <2>1, <2>2, <3>3, FreshRegisters DEF PollFired
  <2>3. CASE ~again
    <3>1. todo' = [todo EXCEPT ![x] = Removal(x)]
      BY <1>3, <2>3, RemovalForms DEF PollFired
    <3>2. Set(x, None, timer[x].period, None, None)
      BY <1>3, <2>3 DEF PollFired
    <3> QED
      BY <1>2, <2>1, <3>1, <3>2, SetUnsets
  <2> QED
    BY <2>2, <2>3
<1>4. CASE PollWaits(x, t)
  <2>1. Owns(x)
    BY <1>4 DEF PollWaits, Usable, Owns, Awake, Wakers
  <2>2. timer[x].when \in Instants /\ now < timer[x].when
    BY <1>2, <1>4 DEF PollWaits
  <2>3. CASE timer[x].task # t
    BY <1>2, <1>4, <2>1, <2>2, <2>3, FreshRegisters DEF PollWaits
  <2>4. CASE timer[x].task = t
    BY <1>4, <2>1, <2>2, <2>4 DEF PollWaits, Quiet
  <2> QED
    BY <2>3, <2>4
<1>5. CASE PollNever(x, t)
  <2>1. Owns(x)
    BY <1>5 DEF PollNever, Usable, Owns, Awake, Wakers
  <2> QED
    BY <1>5, <2>1 DEF PollNever, Quiet
<1> QED
  BY <1>3, <1>4, <1>5 DEF Polls

-----------------------------------------------------------------------------
(* Each part of the invariant is kept by every step. *)

\* The steps, those of a Timer's operations by what they do.
Steps ==
  \/ \E x \in Timers : Quiet(x)
  \/ \E x \in Timers : \E T : Unsets(x, T)
  \/ \E x \in Timers : \E T : Registers(x, T)
  \/ \E x \in Timers : Push(x)
  \/ \E x \in Timers : CallNotify(x)
  \/ \E x \in Timers : PushRefused(x)
  \/ \E x \in Timers : LockToDrain(x)
  \/ Drain
  \/ \E x \in Timers : UnlockAfterDrain(x)
  \/ LockTimers
  \/ ProcessTimers
  \/ WaitZero
  \/ WaitOther
  \/ DispatchFails
  \/ WakeAll
  \/ Tick

\* Every step is one of these.
LEMMA NextSteps ==
  ASSUME TypeOK, Queues, Registration, Next
  PROVE  Steps
<1>1. ASSUME NEW x \in Timers, Sets(x) PROVE Steps
  BY <1>1, SetsEffect DEF Steps
<1>2. ASSUME NEW x \in Timers, NEW t \in Tasks, Polls(x, t) PROVE Steps
  BY <1>2, PollsEffect DEF Steps
<1>3. ASSUME NEW x \in Timers, Finish(x) PROVE Steps
  BY <1>3 DEF Steps, Finish
<1> QED
  BY <1>1, <1>2, <1>3 DEF Next, React, Steps

\* A removal is well typed, and the calls of an operation are a sequence of such calls.
LEMMA RemovalType ==
  ASSUME TypeOK, NEW x \in Timers
  PROVE  Removal(x) \in Seq(Queued)
<1>1. timer[x].when \in Instants \cup {None} /\ timer[x].id \in Ids \cup {None}
  BY DEF TypeOK
<1>2. CASE timer[x].when # None /\ Registered(x)
  <2>1. Remove(timer[x].when, timer[x].id) \in Queued
    BY <1>1, <1>2 DEF Registered, Remove, Queued
  <2> QED
    BY <1>2, <2>1 DEF Removal
<1>3. CASE ~(timer[x].when # None /\ Registered(x))
  BY <1>3 DEF Removal
<1> QED
  BY <1>2, <1>3

\* The first call of an operation is taken, and the others move up.
LEMMA TakeCall ==
  ASSUME Queues, NEW x \in Timers, todo[x] # << >>, todo' = [todo EXCEPT ![x] = Tail(@)]
  PROVE  /\ todo' \in [Timers -> Seq(Queued \cup {Notify})]
         /\ Head(todo[x]) \in Queued \cup {Notify} /\ Head(todo[x]) = todo[x][1]
         /\ Len(todo[x]) \in Nat \ {0} /\ Len(todo'[x]) = Len(todo[x]) - 1
         /\ \A k \in 1 .. Len(todo'[x]) : todo'[x][k] = todo[x][k + 1]
         /\ \A y \in Timers : y # x => todo'[y] = todo[y]
<1>1. todo[x] \in Seq(Queued \cup {Notify}) /\ todo'[x] = Tail(todo[x])
  BY DEF Queues
<1> QED
  BY <1>1, HeadTailProperties DEF Queues

\* Where a call is found after the first was taken.
LEMMA MovesUp ==
  ASSUME Queues, NEW x \in Timers, todo[x] # << >>, todo' = [todo EXCEPT ![x] = Tail(@)],
         NEW k \in 1 .. Len(todo[x]), k # 1
  PROVE  k - 1 \in 1 .. Len(todo'[x]) /\ todo'[x][k - 1] = todo[x][k]
<1>1. Len(todo[x]) \in Nat /\ Len(todo'[x]) = Len(todo[x]) - 1
  BY TakeCall
<1>2. k - 1 \in 1 .. Len(todo'[x]) /\ (k - 1) + 1 = k
  BY <1>1
<1>3. \A j \in 1 .. Len(todo'[x]) : todo'[x][j] = todo[x][j + 1]
  BY TakeCall
<1>4. todo'[x][k - 1] = todo[x][(k - 1) + 1]
  BY <1>2, <1>3
<1> QED
  BY <1>2, <1>4

\* The calls of an operation that begins.
LEMMA BeginCalls ==
  ASSUME TypeOK, Queues, NEW x \in Timers, NEW T, Unsets(x, T) \/ Registers(x, T)
  PROVE  /\ todo' \in [Timers -> Seq(Queued \cup {Notify})]
         /\ \A y \in Timers : y # x => todo'[y] = todo[y] /\ timer'[y] = timer[y]
         /\ timer' \in [Timers -> TimerType] /\ timer'[x] = T
<1>1. timer \in [Timers -> TimerType]
  BY DEF TypeOK, TimerType
<1>2. CASE Unsets(x, T)
  BY <1>1, <1>2, RemovalType, SeqMonotonic DEF Unsets, Queues
<1>3. CASE Registers(x, T)
  <2>1. Insert(T.when, T.id, x, T.task) \in Queued
    BY <1>3 DEF Registers, TimerType, Insert, Queued, Wakers
  <2>2. Insertion(T.when, T.id, x, T.task) \in Seq(Queued \cup {Notify})
    BY <2>1 DEF Insertion
  <2>3. Removal(x) \o Insertion(T.when, T.id, x, T.task) \in Seq(Queued \cup {Notify})
    BY <2>2, RemovalType, SeqMonotonic, ConcatProperties
  <2> QED
    BY <1>1, <1>3, <2>3 DEF Registers, Queues
<1> QED
  BY <1>2, <1>3

\* Every step keeps the sequences.
LEMMA QueuesStep ==
  ASSUME TypeOK, Queues, Registration, Next
  PROVE  Queues'
<1> USE DEF queueVars, reactorVars, taskVars
<1>1. CASE \E x \in Timers : Quiet(x)
  BY <1>1 DEF Quiet, Owns, Queues
<1>2. CASE \E x \in Timers : \E T : Unsets(x, T)
  BY <1>2, BeginCalls DEF Unsets, Owns, Queues
<1>3. CASE \E x \in Timers : \E T : Registers(x, T)
  BY <1>3, BeginCalls DEF Registers, Owns, Queues
<1>4. CASE \E x \in Timers : Push(x)
  BY <1>4, TakeCall DEF Push, Queues
<1>5. CASE \E x \in Timers : CallNotify(x)
  BY <1>5, TakeCall DEF CallNotify, Queues
<1>6. CASE \E x \in Timers : PushRefused(x) \/ LockToDrain(x)
  BY <1>6 DEF PushRefused, LockToDrain, Queues
<1>7. CASE Drain
  BY <1>7, HeadTailProperties DEF Drain, Queues
<1>8. CASE \E x \in Timers : UnlockAfterDrain(x)
  BY <1>8 DEF UnlockAfterDrain, Queues
<1>9. CASE LockTimers
  BY <1>9 DEF LockTimers, Queues
<1>10. CASE ProcessTimers
  BY <1>10 DEF ProcessTimers, Queues
<1>11. CASE WaitZero \/ WaitOther \/ DispatchFails \/ WakeAll \/ Tick
  BY <1>11 DEF WaitZero, WaitOther, DispatchFails, WakeAll, Tick, Queues
<1> QED
  BY <1>1, <1>2, <1>3, <1>4, <1>5, <1>6, <1>7, <1>8, <1>9, <1>10, <1>11, NextSteps DEF Steps

\* Every step keeps registrations with the timers that exist.
LEMMA RegistrationStep ==
  ASSUME TypeOK, Queues, Registration, Next
  PROVE  Registration'
<1> USE DEF Registration, Registered
<1>1. CASE \E x \in Timers : Quiet(x)
  BY <1>1 DEF Quiet
<1>2. CASE \E x \in Timers : \E T : Unsets(x, T)
  BY <1>2, BeginCalls DEF Unsets
<1>3. CASE \E x \in Timers : \E T : Registers(x, T)
  BY <1>3, BeginCalls DEF Registers
<1>4. CASE UNCHANGED timer
  BY <1>4
<1> QED
  BY <1>1, <1>2, <1>3, <1>4, NextSteps
     DEF Steps, Push, CallNotify, PushRefused, LockToDrain, Drain, UnlockAfterDrain,
         LockTimers, ProcessTimers, WaitZero, WaitOther, DispatchFails, WakeAll, Tick

\* What Calls says of the k-th call c of timer x, which is as the record T, in sequence s.
CallOK(x, T, s, k) ==
  /\ s[k].op = "Remove" => k = 1 /\ s[k].id[1] = x /\ (T.when # None => s[k].id # T.id)
  /\ s[k].op = "Insert" =>
       /\ k + 1 = Len(s) /\ s[k + 1] = Notify
       /\ T.id # None
       /\ Entry(s[k]) = [when |-> T.when, id |-> T.id, waker |-> <<x, T.task>>]
  /\ s[k].op = "Notify" => k = Len(s)

\* Calls says that of every call of every timer.
LEMMA CallsDef ==
  Calls <=> \A x \in Timers : \A k \in 1 .. Len(todo[x]) : CallOK(x, timer[x], todo[x], k)
BY DEF Calls, CallOK, EntryOf, Registered

\* The same in the next state.
LEMMA CallsDefNext ==
  Calls' <=> \A x \in Timers : \A k \in 1 .. Len(todo'[x]) : CallOK(x, timer'[x], todo'[x], k)
BY DEF Calls, CallOK, EntryOf, Registered

\* An operation makes at most three calls.
LEMMA AtMostThreeCalls ==
  ASSUME NEW x, NEW T, NEW s \in Seq(Queued \cup {Notify}),
         \A k \in 1 .. Len(s) : CallOK(x, T, s, k)
  PROVE  Len(s) <= 3
<1> SUFFICES ASSUME Len(s) > 3 PROVE FALSE
  OBVIOUS
<1>1. 2 \in 1 .. Len(s) /\ s[2] \in Queued \cup {Notify}
  OBVIOUS
<1>2. s[2].op \in {"Insert", "Remove", "Notify"}
  BY <1>1, QueuedOps DEF Notify
<1> QED
  BY <1>1, <1>2 DEF CallOK

\* The calls of an operation that begins are in order, and about the timer as it becomes.
LEMMA CallsBegin ==
  ASSUME TypeOK, Queues, Registration, NEW x \in Timers, NEW T,
         Unsets(x, T) \/ Registers(x, T), NEW k \in 1 .. Len(todo'[x])
  PROVE  CallOK(x, T, todo'[x], k)
<1> DEFINE R == Remove(timer[x].when, timer[x].id)
           I == Insert(T.when, T.id, x, T.task)
<1>1. R.op = "Remove" /\ I.op = "Insert" /\ Notify.op = "Notify" /\ R.id = timer[x].id
  BY DEF Remove, Insert, Notify
<1>2. Registered(x) => timer[x].id[1] = x /\ timer[x].id # None
  BY DEF Registration, Registered
<1>3. CASE Unsets(x, T)
  <2>1. todo'[x] = Removal(x)
    BY <1>3 DEF Unsets, Queues
  <2>2. CASE timer[x].when # None /\ Registered(x)
    <3>1. todo'[x] = <<R>>
      BY <2>1, <2>2 DEF Removal
    <3>2. k = 1 /\ todo'[x][k] = R
      BY <3>1
    <3>3. T.when # None => timer[x].id # T.id
      BY <1>2, <1>3, <2>2 DEF Unsets
    <3> QED
      BY <1>1, <1>2, <2>2, <3>2, <3>3 DEF CallOK
  <2>3. CASE ~(timer[x].when # None /\ Registered(x))
    <3>1. todo'[x] = << >>
      BY <2>1, <2>3 DEF Removal
    <3> QED
      BY <3>1
  <2> QED
    BY <2>2, <2>3
<1>4. CASE Registers(x, T)
  <2>1. todo'[x] = Removal(x) \o <<I, Notify>>
    BY <1>4 DEF Registers, Queues, Insertion
  <2>2. Entry(I) = [when |-> T.when, id |-> T.id, waker |-> <<x, T.task>>]
    BY DEF Entry, Insert
  <2>3. T.id # None /\ T.id # timer[x].id
    BY <1>4 DEF Registers
  <2> HIDE DEF R, I
  <2>4. CASE timer[x].when # None /\ Registered(x)
    <3>1. todo'[x] = <<R, I, Notify>>
      BY <2>1, <2>4, ConcatCalls DEF Removal, R
    <3>2. CASE k = 1
      BY <1>1, <1>2, <2>3, <2>4, <3>1, <3>2 DEF CallOK
    <3>3. CASE k = 2
      BY <1>1, <2>2, <2>3, <3>1, <3>3 DEF CallOK
    <3>4. CASE k = 3
      BY <1>1, <3>1, <3>4 DEF CallOK
    <3> QED
      BY <3>1, <3>2, <3>3, <3>4
  <2>5. CASE ~(timer[x].when # None /\ Registered(x))
    <3>1. todo'[x] = <<I, Notify>>
      BY <2>1, <2>5, ConcatCalls DEF Removal
    <3>2. CASE k = 1
      BY <1>1, <2>2, <2>3, <3>1, <3>2 DEF CallOK
    <3>3. CASE k = 2
      BY <1>1, <3>1, <3>3 DEF CallOK
    <3> QED
      BY <3>1, <3>2, <3>3
  <2> QED
    BY <2>4, <2>5
<1> QED
  BY <1>3, <1>4

\* The calls that are left when the first is made are still in order.
LEMMA CallsTaken ==
  ASSUME Queues, Calls, NEW x \in Timers, todo[x] # << >>,
         todo' = [todo EXCEPT ![x] = Tail(@)], timer' = timer
  PROVE  Calls'
<1>1. ASSUME NEW k \in 1 .. Len(todo'[x]) PROVE CallOK(x, timer[x], todo'[x], k)
  <2>0. Len(todo[x]) \in Nat \ {0} /\ Len(todo'[x]) = Len(todo[x]) - 1
    BY TakeCall
  <2>1. /\ k + 1 \in 1 .. Len(todo[x]) /\ todo'[x][k] = todo[x][k + 1]
        /\ Len(todo[x]) \in Nat /\ Len(todo'[x]) = Len(todo[x]) - 1
    BY <2>0, TakeCall
  <2>2. CallOK(x, timer[x], todo[x], k + 1)
    BY <2>1, CallsDef
  <2>3. todo[x][k + 1].op # "Remove"
    BY <2>1, <2>2 DEF CallOK
  <2>4. ASSUME todo[x][k + 1].op = "Insert"
        PROVE  k + 1 = Len(todo'[x]) /\ todo'[x][k + 1] = Notify
    <3>1. k + 2 = Len(todo[x]) /\ todo[x][k + 2] = Notify
      BY <2>1, <2>2, <2>4 DEF CallOK
    <3>2. k + 1 \in 1 .. Len(todo'[x]) /\ (k + 1) + 1 = k + 2
      BY <2>1, <3>1
    <3> QED
      BY <2>1, <3>1, <3>2, TakeCall
  <2> QED
    BY <2>1, <2>2, <2>3, <2>4 DEF CallOK
<1>2. \A y \in Timers : y # x => todo'[y] = todo[y]
  BY TakeCall
<1> QED
  BY <1>1, <1>2, CallsDef, CallsDefNext

\* Every step keeps the order of the calls.
LEMMA CallsStep ==
  ASSUME TypeOK, Queues, Registration, Calls, Next
  PROVE  Calls'
<1>1. CASE \E x \in Timers : Quiet(x)
  BY <1>1, CallsDef, CallsDefNext DEF Quiet
<1>2. ASSUME NEW x \in Timers, NEW T, Unsets(x, T) \/ Registers(x, T)
      PROVE  Calls'
  BY <1>2, BeginCalls, CallsBegin, CallsDef, CallsDefNext
<1>3. CASE \E x \in Timers : Push(x)
  BY <1>3, CallsTaken DEF Push
<1>4. CASE \E x \in Timers : CallNotify(x)
  BY <1>4, CallsTaken DEF CallNotify
<1>5. CASE UNCHANGED <<timer, todo>>
  BY <1>5, CallsDef, CallsDefNext
<1> QED
  BY <1>1, <1>2, <1>3, <1>4, <1>5, NextSteps
     DEF Steps, PushRefused, LockToDrain, Drain, UnlockAfterDrain, LockTimers, ProcessTimers,
         WaitZero, WaitOther, DispatchFails, WakeAll, Tick

\* Every step keeps the lock with react() while it processes timers.
LEMMA LockingStep ==
  ASSUME TypeOK, Queues, Registration, Locking, Next
  PROVE  Locking'
<1> USE TimersAssumption DEF Locking, queueVars, reactorVars
<1>1. CASE \E x \in Timers : Quiet(x)
  BY <1>1 DEF Quiet, Owns
<1>2. CASE \E x \in Timers : \E T : Unsets(x, T)
  BY <1>2 DEF Unsets, Owns
<1>3. CASE \E x \in Timers : \E T : Registers(x, T)
  BY <1>3 DEF Registers, Owns
<1>4. CASE \E x \in Timers : Push(x)
  BY <1>4 DEF Push
<1>5. CASE \E x \in Timers : CallNotify(x)
  BY <1>5 DEF CallNotify
<1>6. CASE \E x \in Timers : PushRefused(x) \/ LockToDrain(x)
  BY <1>6 DEF PushRefused, LockToDrain
<1>7. CASE Drain
  BY <1>7 DEF Drain
<1>8. CASE \E x \in Timers : UnlockAfterDrain(x)
  BY <1>8 DEF UnlockAfterDrain
<1>9. CASE LockTimers
  BY <1>9 DEF LockTimers
<1>10. CASE ProcessTimers
  BY <1>10 DEF ProcessTimers, Timeout
<1>11. CASE WaitZero
  BY <1>11 DEF WaitZero
<1>12. CASE WaitOther
  BY <1>12 DEF WaitOther
<1>13. CASE DispatchFails
  BY <1>13 DEF DispatchFails
<1>14. CASE WakeAll
  BY <1>14 DEF WakeAll
<1>15. CASE Tick
  BY <1>15 DEF Tick
<1> QED
  BY <1>1, <1>2, <1>3, <1>4, <1>5, <1>6, <1>7, <1>8, <1>9, <1>10, <1>11, <1>12, <1>13, <1>14,
     <1>15, NextSteps DEF Steps

\* The types of all but the calls and the notification, which is Boolean.
Types ==
  /\ now \in Instants
  /\ timer \in [Timers -> TimerType]
  /\ Len(ops) <= Cap
  /\ map \subseteq [when : Instants, id : Ids, waker : Wakers]
  /\ lock \in Timers \cup {Reactor, None}
  /\ budget \in 0 .. Cap
  /\ refused \subseteq Timers
  /\ phase \in {"idle", "before", "wait", "wait0", "timedout", "after", "waking"}
  /\ deadline \in Instants \cup {None}
  /\ toWake \subseteq Wakers /\ woken \subseteq Wakers /\ dropped \subseteq Wakers

\* Every step keeps those types.
LEMMA TypesStep ==
  ASSUME TypeOK, Queues, Registration, Next
  PROVE  Types'
<1> USE TimersAssumption DEF Types, queueVars, reactorVars, taskVars
<1>0. Types
  BY DEF TypeOK, TimerType
<1>1. CASE \E x \in Timers : Quiet(x)
  BY <1>0, <1>1 DEF Quiet, Owns
<1>2. CASE \E x \in Timers : \E T : Unsets(x, T)
  BY <1>0, <1>2, BeginCalls DEF Unsets, Owns
<1>3. CASE \E x \in Timers : \E T : Registers(x, T)
  BY <1>0, <1>3, BeginCalls DEF Registers, Owns
<1>4. CASE \E x \in Timers : Push(x)
  BY <1>0, <1>4 DEF Push, Queues
<1>5. CASE \E x \in Timers : CallNotify(x)
  BY <1>0, <1>5 DEF CallNotify
<1>6. CASE \E x \in Timers : PushRefused(x) \/ LockToDrain(x)
  BY <1>0, <1>6 DEF PushRefused, LockToDrain
<1>7. CASE Drain
  <2>1. ops' = Tail(ops) /\ Len(ops') <= Cap
    BY <1>0, <1>7 DEF Drain, Queues
  <2>2. Head(ops) \in Queued
    BY <1>7, HeadTailProperties DEF Drain, Queues
  <2>3. Head(ops).op = "Insert" => Entry(Head(ops)) \in [when : Instants, id : Ids, waker : Wakers]
    BY <2>2, QueuedOps DEF Entry
  <2>4. map' \subseteq [when : Instants, id : Ids, waker : Wakers]
    BY <1>0, <1>7, <2>3 DEF Drain, Applied
  <2>5. budget' \in 0 .. Cap
    BY <1>0, <1>7 DEF Drain
  <2> QED
    BY <1>0, <1>7, <2>1, <2>4, <2>5 DEF Drain
<1>8. CASE \E x \in Timers : UnlockAfterDrain(x)
  BY <1>0, <1>8 DEF UnlockAfterDrain
<1>9. CASE LockTimers
  BY <1>0, <1>9 DEF LockTimers
<1>10. CASE ProcessTimers
  <2>1. \A e \in map : e.when \in Instants /\ e.waker \in Wakers
    BY <1>0
  <2>2. FirstInstant(map) \in Instants \cup {None}
    BY <2>1, FirstInstantIsFirst
  <2>3. deadline' \in Instants \cup {None} /\ phase' \in {"wait", "wait0", "waking"}
    BY <1>10, <2>2 DEF ProcessTimers, Timeout
  <2>4. toWake' \subseteq Wakers
    BY <1>0, <1>10, <2>1 DEF ProcessTimers
  <2> QED
    BY <1>0, <1>10, <2>3, <2>4 DEF ProcessTimers
<1>11. CASE WaitZero
  BY <1>0, <1>11 DEF WaitZero
<1>12. CASE WaitOther
  BY <1>0, <1>12 DEF WaitOther
<1>13. CASE DispatchFails
  BY <1>0, <1>13 DEF DispatchFails
<1>14. CASE WakeAll
  BY <1>0, <1>14 DEF WakeAll
<1>15. CASE Tick
  BY <1>0, <1>15 DEF Tick, Instants
<1> QED
  BY <1>1, <1>2, <1>3, <1>4, <1>5, <1>6, <1>7, <1>8, <1>9, <1>10, <1>11, <1>12, <1>13, <1>14,
     <1>15, NextSteps DEF Steps

\* Every step keeps the types.
LEMMA TypeStep ==
  ASSUME TypeOK, Queues, Registration, Calls, Next
  PROVE  TypeOK'
<1>1. Types' /\ Queues' /\ Calls'
  BY TypesStep, QueuesStep, CallsStep
<1>2. ASSUME NEW x \in Timers
      PROVE  /\ Len(todo'[x]) <= 3
             /\ \A k \in 1 .. Len(todo'[x]) : todo'[x][k] \in Queued \cup {Notify}
  <2>1. todo'[x] \in Seq(Queued \cup {Notify})
    BY <1>1 DEF Queues
  <2>2. \A k \in 1 .. Len(todo'[x]) : CallOK(x, timer'[x], todo'[x], k)
    BY <1>1, CallsDefNext
  <2> QED
    BY <2>1, <2>2, AtMostThreeCalls, ElementOfSeq
<1>3. \A k \in 1 .. Len(ops') : ops'[k] \in Queued
  BY <1>1 DEF Queues
<1>4. notified' \in BOOLEAN
  <2>1. notified' \in {notified, TRUE, FALSE}
    BY NextSteps DEF Steps, Quiet, Unsets, Registers, Owns, Push, CallNotify, PushRefused,
       LockToDrain, Drain, UnlockAfterDrain, LockTimers, ProcessTimers, WaitZero, WaitOther, DispatchFails,
       WakeAll, Tick
  <2> QED
    BY <2>1, Zenon DEF TypeOK
<1> QED
  BY <1>1, <1>2, <1>3, <1>4 DEF Types, TypeOK, TimerType

-----------------------------------------------------------------------------
(* The properties. *)

\* The entry of a timer moves with the timer.
LEMMA SameEntry ==
  ASSUME NEW y \in Timers, timer'[y] = timer[y]
  PROVE  EntryOf(y)' = EntryOf(y)
BY DEF EntryOf

\* The insertion of a timer that registers is among its calls, and so is notify().
LEMMA RegistersInserts ==
  ASSUME Queues, NEW x \in Timers, NEW T, Registers(x, T)
  PROVE  \E k \in 1 .. Len(todo'[x]) : todo'[x][k].op = "Insert"
<1> DEFINE R == Remove(timer[x].when, timer[x].id)
           I == Insert(T.when, T.id, x, T.task)
<1>1. todo'[x] = Removal(x) \o <<I, Notify>>
  BY DEF Registers, Queues, Insertion
<1>2. I.op = "Insert"
  BY DEF Insert
<1> HIDE DEF R, I
<1>3. todo'[x] \in {<<I, Notify>>, <<R, I, Notify>>}
  BY <1>1, RemovalForms DEF R
<1>4. CASE todo'[x] = <<I, Notify>>
  <2>1. 1 \in 1 .. Len(todo'[x]) /\ todo'[x][1] = I
    BY <1>4
  <2> QED
    BY <1>2, <2>1
<1>5. CASE todo'[x] = <<R, I, Notify>>
  <2>1. 2 \in 1 .. Len(todo'[x]) /\ todo'[x][2] = I
    BY <1>5
  <2> QED
    BY <1>2, <2>1
<1> QED
  BY <1>3, <1>4, <1>5

\* What is pending does not depend on how the entry is written.
LEMMA PendingAt ==
  ASSUME NEW e, NEW y \in Timers
  PROVE  /\ e = EntryOf(y) => (Pending(EntryOf(y)) <=> Pending(e))
         /\ e = EntryOf(y)' => (Pending(EntryOf(y))' <=> Pending(e)')
BY DEF Pending, Inserted, Removed

\* Every step keeps a set timer in effect.
LEMMA InEffectStep ==
  ASSUME TypeOK, Queues, Registration, Calls, InEffect, Next
  PROVE  InEffect'
<1> USE DEF queueVars, reactorVars, taskVars
<1> DEFINE ToCome(y) == \E k \in 1 .. Len(todo[y]) : todo[y][k].op = "Insert"
           Fired(y) == /\ now >= timer[y].when
                       /\ <<y, timer[y].task>> \in toWake \cup woken \cup dropped
<1> SUFFICES ASSUME NEW y \in Timers, timer'[y].when # None, timer'[y].id # None
             PROVE  ToCome(y)' \/ Pending(EntryOf(y))' \/ Fired(y)'
  BY DEF InEffect, Registered
<1>1. PICK e : e = EntryOf(y)'
  OBVIOUS
<1> SUFFICES ToCome(y)' \/ Pending(e)' \/ Fired(y)'
  BY <1>1, PendingAt
<1>2. ASSUME timer'[y] = timer[y]
      PROVE  /\ e = EntryOf(y) /\ timer[y].when # None /\ timer[y].id # None
             /\ ToCome(y) \/ Pending(e) \/ Fired(y)
  <2>1. e = EntryOf(y)
    BY <1>1, <1>2, SameEntry
  <2> QED
    BY <1>2, <2>1, PendingAt DEF InEffect, Registered
<1>3. e.when = timer'[y].when /\ e.id = timer'[y].id /\ e.waker = <<y, timer'[y].task>>
  BY <1>1 DEF EntryOf
<1>4. ASSUME UNCHANGED <<timer, todo, ops, map>>, ToCome(y) \/ Pending(e)
      PROVE  ToCome(y)' \/ Pending(e)'
  BY <1>4, SamePending
<1>5. ASSUME NEW x \in Timers, y # x, UNCHANGED <<now, ops, map, toWake>>, timer'[y] = timer[y],
             todo'[y] = todo[y], Owns(x)
      PROVE  ToCome(y)' \/ Pending(e)' \/ Fired(y)'
  <2>1. CASE Fired(y)
    <3>1. timer[y].task \in Tasks
      BY <1>2, <1>5 DEF TypeOK, Registration, Registered
    <3>2. <<y, timer[y].task>> \in Wakers
      BY <3>1 DEF Wakers
    <3> QED
      BY <1>5, <2>1, <3>2 DEF Owns
  <2> QED
    BY <1>2, <1>5, <2>1, SamePending
<1>6. ASSUME NEW x \in Timers, Quiet(x)
      PROVE  ToCome(y)' \/ Pending(e)' \/ Fired(y)'
  <2>1. CASE y = x
    <3>1. ~Fired(y)
      BY <1>2, <1>6, <2>1 DEF Quiet, TypeOK, Instants
    <3> QED
      BY <1>2, <1>4, <1>6, <3>1 DEF Quiet, Owns
  <2> QED
    BY <1>5, <1>6, <2>1 DEF Quiet, Owns
<1>7. ASSUME NEW x \in Timers, NEW T, Unsets(x, T) \/ Registers(x, T)
      PROVE  ToCome(y)' \/ Pending(e)' \/ Fired(y)'
  <2>1. CASE y = x
    <3>1. Registers(x, T)
      BY <1>7, <2>1, BeginCalls DEF Unsets
    <3> QED
      BY <2>1, <3>1, RegistersInserts
  <2>2. CASE y # x
    BY <1>5, <1>7, <2>2, BeginCalls DEF Unsets, Registers, Owns
  <2> QED
    BY <2>1, <2>2
<1>8. ASSUME NEW x \in Timers, Push(x)
      PROVE  ToCome(y)' \/ Pending(e)' \/ Fired(y)'
  <2> DEFINE o == Head(todo[x])
  <2>1. /\ timer' = timer /\ UNCHANGED <<now, toWake, woken, dropped>>
        /\ todo[x] # << >> /\ todo' = [todo EXCEPT ![x] = Tail(@)]
    BY <1>8 DEF Push
  <2>2. /\ o = todo[x][1] /\ 1 \in 1 .. Len(todo[x]) /\ CallOK(x, timer[x], todo[x], 1)
    BY <2>1, TakeCall, CallsDef
  <2>3. Pending(e)' <=> \/ o.op = "Insert" /\ Entry(o) = e
                        \/ Pending(e) /\ ~(o.op = "Remove" /\ o.when = e.when /\ o.id = e.id)
    BY <1>8, PushPending
  <2>4. CASE Pending(e)
    <3>1. o.op = "Remove" => o.id # e.id
      BY <1>2, <1>3, <2>1, <2>2 DEF CallOK, Registration, Registered
    <3> QED
      BY <2>3, <2>4, <3>1
  <2>5. CASE ToCome(y) /\ y = x
    <3>1. PICK k \in 1 .. Len(todo[x]) : todo[x][k].op = "Insert"
      BY <2>5
    <3>2. CASE k = 1
      <4>1. Entry(o) = e
        BY <1>2, <2>1, <2>2, <2>5, <3>1, <3>2 DEF CallOK, EntryOf
      <4> QED
        BY <2>2, <2>3, <3>1, <3>2, <4>1
    <3>3. CASE k # 1
      <4>1. k - 1 \in 1 .. Len(todo'[x]) /\ todo'[x][k - 1] = todo[x][k]
        BY <2>1, <3>3, MovesUp
      <4> QED
        BY <2>5, <3>1, <4>1
    <3> QED
      BY <3>2, <3>3
  <2>6. CASE ToCome(y) /\ y # x
    <3>1. todo'[y] = todo[y]
      BY <2>1, <2>6, TakeCall
    <3> QED
      BY <2>6, <3>1
  <2>7. CASE Fired(y)
    BY <2>1, <2>7
  <2> QED
    BY <1>2, <2>1, <2>4, <2>5, <2>6, <2>7
<1>9. ASSUME NEW x \in Timers, CallNotify(x)
      PROVE  ToCome(y)' \/ Pending(e)' \/ Fired(y)'
  <2>1. /\ UNCHANGED <<now, timer, ops, map, toWake, woken, dropped>>
        /\ todo[x] # << >> /\ todo' = [todo EXCEPT ![x] = Tail(@)]
        /\ todo[x][1] = Notify
    BY <1>9, TakeCall DEF CallNotify
  <2>2. ASSUME ToCome(y) PROVE ToCome(y)'
    <3>1. PICK k \in 1 .. Len(todo[y]) : todo[y][k].op = "Insert"
      BY <2>2
    <3>2. CASE y = x
      <4>1. k # 1
        BY <2>1, <3>1, <3>2 DEF Notify
      <4>2. k - 1 \in 1 .. Len(todo'[x]) /\ todo'[x][k - 1] = todo[x][k]
        BY <2>1, <3>2, <4>1, MovesUp
      <4> QED
        BY <3>1, <3>2, <4>2
    <3>3. CASE y # x
      <4>1. todo'[y] = todo[y]
        BY <2>1, <3>3, TakeCall
      <4> QED
        BY <2>2, <4>1
    <3> QED
      BY <3>2, <3>3
  <2> QED
    BY <1>2, <2>1, <2>2, SamePending
<1>10. CASE Drain
  <2>1. Pending(e)' <=> Pending(e)
    BY <1>10, DrainKeepsPending
  <2> QED
    BY <1>2, <1>10, <2>1 DEF Drain
<1>11. CASE ProcessTimers
  <2>1. Pending(e) => Pending(e)' \/ (e.when <= now /\ e.waker \in toWake')
    BY <1>11, ProcessPending
  <2>2. /\ UNCHANGED <<now, timer, todo, woken, dropped>> /\ toWake \subseteq toWake'
    BY <1>11 DEF ProcessTimers
  <2> QED
    BY <1>2, <1>3, <2>1, <2>2
<1>12. CASE DispatchFails
  BY <1>2, <1>4, <1>12 DEF DispatchFails
<1>13. CASE WakeAll
  BY <1>2, <1>4, <1>13 DEF WakeAll
<1>14. CASE Tick
  <2>1. Fired(y) => Fired(y)'
    BY <1>2, <1>14 DEF Tick, TypeOK, Instants
  <2> QED
    BY <1>2, <1>4, <1>14, <2>1 DEF Tick
<1>15. CASE UNCHANGED <<now, timer, todo, ops, map, toWake, woken, dropped>>
  BY <1>2, <1>4, <1>15
<1>16. CASE \/ \E x \in Timers : PushRefused(x) \/ LockToDrain(x) \/ UnlockAfterDrain(x)
            \/ LockTimers \/ WaitZero \/ WaitOther
  BY <1>15, <1>16 DEF PushRefused, LockToDrain, UnlockAfterDrain, LockTimers, WaitZero,
     WaitOther
<1> QED
  BY <1>6, <1>7, <1>8, <1>9, <1>10, <1>11, <1>12, <1>13, <1>14, <1>16, NextSteps DEF Steps

\* The entries of timers that are pending are well typed.
LEMMA PendingType ==
  ASSUME TypeOK, Queues, NEW e, Pending(e)
  PROVE  e.when \in Instants /\ e.id \in Ids /\ e.waker \in Wakers /\ e.waker[1] \in Timers
<1>1. CASE e \in map
  BY <1>1 DEF TypeOK, Wakers
<1>2. ASSUME NEW k \in 1 .. Len(ops), Inserted(e, k)
      PROVE  e.when \in Instants /\ e.id \in Ids /\ e.waker \in Wakers /\ e.waker[1] \in Timers
  <2>1. ops[k] \in Queued /\ ops[k].op = "Insert" /\ Entry(ops[k]) = e
    BY <1>2 DEF TypeOK, Inserted
  <2> QED
    BY <2>1, QueuedOps DEF Entry, Wakers
<1> QED
  BY <1>1, <1>2 DEF Pending

\* A push takes no notify() from the calls still to make, and a push of an insertion
\* leaves one.
LEMMA PushKeepsNotify ==
  ASSUME Queues, Calls, NEW x \in Timers, Push(x), NEW z \in Timers,
         \/ \E m \in 1 .. Len(todo[z]) : todo[z][m] = Notify
         \/ z = x /\ Head(todo[x]).op = "Insert"
  PROVE  \E m \in 1 .. Len(todo'[z]) : todo'[z][m] = Notify
<1>1. /\ todo[x] # << >> /\ todo' = [todo EXCEPT ![x] = Tail(@)] /\ Head(todo[x]) # Notify
  BY DEF Push
<1>2. /\ Head(todo[x]) = todo[x][1] /\ 1 \in 1 .. Len(todo[x]) /\ CallOK(x, timer[x], todo[x], 1)
  BY <1>1, TakeCall, CallsDef
<1>3. CASE z # x
  <2>1. todo'[z] = todo[z]
    BY <1>1, <1>3, TakeCall
  <2> QED
    BY <1>3, <2>1
<1>4. CASE z = x
  <2>1. PICK m \in 1 .. Len(todo[x]) : todo[x][m] = Notify
    <3>1. CASE Head(todo[x]).op = "Insert"
      <4>1. 1 + 1 = Len(todo[x]) /\ todo[x][1 + 1] = Notify
        BY <1>2, <3>1 DEF CallOK
      <4> QED
        BY <4>1
    <3> QED
      BY <1>4, <3>1
  <2>2. m # 1
    BY <1>1, <1>2, <2>1
  <2>3. m - 1 \in 1 .. Len(todo'[x]) /\ todo'[x][m - 1] = todo[x][m]
    BY <1>1, <2>2, MovesUp
  <2> QED
    BY <1>4, <2>1, <2>3
<1> QED
  BY <1>3, <1>4

\* Every step keeps pending entries with a timer or with who removes them.
LEMMA OrphansStep ==
  ASSUME TypeOK, Queues, Registration, Calls, NoOrphanEntries, Next
  PROVE  NoOrphanEntries'
<1> USE DEF queueVars, reactorVars, taskVars
<1> SUFFICES ASSUME NEW e, Pending(e)', NEW z, z = e.waker[1]
             PROVE  \/ timer'[z].st = "live" /\ EntryOf(z)' = e
                    \/ \E k \in 1 .. Len(todo'[z]) : todo'[z][k] = Remove(e.when, e.id)
  BY PendingIsCollected DEF NoOrphanEntries
<1> DEFINE Goal == \/ timer'[z].st = "live" /\ EntryOf(z)' = e
                   \/ \E k \in 1 .. Len(todo'[z]) : todo'[z][k] = Remove(e.when, e.id)
<1>1. ASSUME Pending(e)
      PROVE  /\ z \in Timers /\ e.when \in Instants /\ e.id \in Ids
             /\ \/ timer[z].st = "live" /\ EntryOf(z) = e
                \/ \E k \in 1 .. Len(todo[z]) : todo[z][k] = Remove(e.when, e.id)
  BY <1>1, PendingType, PendingIsCollected DEF NoOrphanEntries
<1>2. ASSUME Pending(e), timer'[z] = timer[z], todo'[z] = todo[z]
      PROVE  Goal
  BY <1>1, <1>2, SameEntry
<1>3. CASE \E x \in Timers : Quiet(x)
  BY <1>2, <1>3, SamePending DEF Quiet, Owns
<1>4. ASSUME NEW x \in Timers, NEW T, Unsets(x, T) \/ Registers(x, T)
      PROVE  Goal
  <2>1. Pending(e) /\ todo[x] = << >>
    BY <1>4, SamePending DEF Unsets, Registers, Owns
  <2>2. CASE z # x
    BY <1>1, <1>2, <1>4, <2>1, <2>2, BeginCalls
  <2>3. CASE z = x
    <3>1. timer[x].when = e.when /\ timer[x].id = e.id
      BY <1>1, <2>1, <2>3 DEF EntryOf
    <3>2. Removal(x) = <<Remove(e.when, e.id)>>
      BY <1>1, <2>1, <3>1, TimersAssumption DEF Removal, Registered, Instants, Ids
    <3>3. \/ todo'[x] = Removal(x)
          \/ todo'[x] = Removal(x) \o <<Insert(T.when, T.id, x, T.task), Notify>>
      BY <1>4 DEF Unsets, Registers, Insertion, Queues
    <3>4. 1 \in 1 .. Len(todo'[x]) /\ todo'[x][1] = Remove(e.when, e.id)
      BY <3>2, <3>3, ConcatCalls
    <3> QED
      BY <2>3, <3>4
  <2> QED
    BY <2>2, <2>3
<1>5. ASSUME NEW x \in Timers, Push(x)
      PROVE  Goal
  <2> DEFINE o == Head(todo[x])
  <2>1. /\ timer' = timer /\ todo[x] # << >> /\ todo' = [todo EXCEPT ![x] = Tail(@)]
    BY <1>5 DEF Push
  <2>2. /\ o = todo[x][1] /\ 1 \in 1 .. Len(todo[x]) /\ CallOK(x, timer[x], todo[x], 1)
    BY <2>1, TakeCall, CallsDef
  <2>3. \/ o.op = "Insert" /\ Entry(o) = e
        \/ Pending(e) /\ ~(o.op = "Remove" /\ o.when = e.when /\ o.id = e.id)
    BY <1>5, PushPending
  <2>4. CASE o.op = "Insert" /\ Entry(o) = e
    <3>1. e = EntryOf(x) /\ Registered(x)
      BY <2>2, <2>4 DEF CallOK, EntryOf, Registered
    <3>2. z = x
      BY <3>1 DEF EntryOf
    <3> QED
      BY <2>1, <3>1, <3>2, SameEntry DEF Registration
  <2>5. CASE Pending(e) /\ ~(o.op = "Remove" /\ o.when = e.when /\ o.id = e.id)
    <3>1. CASE timer[z].st = "live" /\ EntryOf(z) = e
      BY <1>1, <2>1, <2>5, <3>1, SameEntry
    <3>2. CASE z # x
      BY <1>1, <1>2, <2>1, <2>5, <3>2, TakeCall
    <3>3. ASSUME z = x, NEW k \in 1 .. Len(todo[x]), todo[x][k] = Remove(e.when, e.id)
          PROVE  Goal
      <4>1. k # 1
        BY <2>2, <2>5, <3>3 DEF Remove
      <4>2. k - 1 \in 1 .. Len(todo'[x]) /\ todo'[x][k - 1] = todo[x][k]
        BY <2>1, <4>1, MovesUp
      <4> QED
        BY <3>3, <4>2
    <3> QED
      BY <1>1, <2>5, <3>1, <3>2, <3>3
  <2> QED
    BY <2>3, <2>4, <2>5
<1>6. ASSUME NEW x \in Timers, CallNotify(x)
      PROVE  Goal
  <2>1. /\ UNCHANGED <<timer, ops, map>> /\ todo[x][1] = Notify
        /\ todo[x] # << >> /\ todo' = [todo EXCEPT ![x] = Tail(@)]
    BY <1>6, TakeCall DEF CallNotify
  <2>2. Pending(e)
    BY <2>1, SamePending
  <2>3. CASE timer[z].st = "live" /\ EntryOf(z) = e
    BY <1>1, <2>1, <2>2, <2>3, SameEntry
  <2>4. CASE z # x
    BY <1>1, <1>2, <2>1, <2>2, <2>4, TakeCall
  <2>5. ASSUME z = x, NEW k \in 1 .. Len(todo[x]), todo[x][k] = Remove(e.when, e.id)
        PROVE  Goal
    <3>1. k # 1
      BY <2>1, <2>5 DEF Remove, Notify
    <3>2. k - 1 \in 1 .. Len(todo'[x]) /\ todo'[x][k - 1] = todo[x][k]
      BY <2>1, <3>1, MovesUp
    <3> QED
      BY <2>5, <3>2
  <2> QED
    BY <1>1, <2>2, <2>3, <2>4, <2>5
<1>7. CASE Drain
  BY <1>2, <1>7, DrainKeepsPending DEF Drain
<1>8. CASE ProcessTimers
  BY <1>2, <1>8, ProcessPending DEF ProcessTimers
<1>9. CASE UNCHANGED <<timer, todo, ops, map>>
  BY <1>2, <1>9, SamePending
<1> QED
  BY <1>3, <1>4, <1>5, <1>6, <1>7, <1>8, <1>9, NextSteps
     DEF Steps, PushRefused, LockToDrain, UnlockAfterDrain, LockTimers, WaitZero, WaitOther,
         DispatchFails, WakeAll, Tick

\* Every step keeps the promise of whoever inserts too late for the drain.
LEMMA LateStep ==
  ASSUME TypeOK, Queues, Registration, Calls, Locking, LateInsertions, Next
  PROVE  LateInsertions'
<1> USE DEF queueVars, reactorVars, taskVars
<1> DEFINE Told(z) == \E m \in 1 .. Len(todo[z]) : todo[z][m] = Notify
<1> SUFFICES ASSUME phase' = "before", ~notified', NEW k \in 1 .. Len(ops'), k > budget',
                    ops'[k].op = "Insert", NEW z, z = ops'[k].waker[1]
             PROVE  Told(z)'
  BY DEF LateInsertions
<1>1. z \in Timers
  <2>1. Queues'
    BY QueuesStep
  <2>2. ops'[k] \in Queued
    BY <2>1 DEF Queues
  <2> QED
    BY <2>2, QueuedOps DEF Wakers
<1>2. ASSUME UNCHANGED <<phase, notified, ops, budget>> PROVE Told(z)
  BY <1>2 DEF LateInsertions
<1>3. CASE \E x \in Timers : Quiet(x)
  BY <1>2, <1>3 DEF Quiet, Owns
<1>4. ASSUME NEW x \in Timers, NEW T, Unsets(x, T) \/ Registers(x, T)
      PROVE  Told(z)'
  <2>1. Told(z) /\ todo[x] = << >>
    BY <1>2, <1>4 DEF Unsets, Registers, Owns
  <2>2. z # x
    BY <2>1
  <2>3. todo'[z] = todo[z]
    BY <1>1, <1>4, <2>2, BeginCalls
  <2> QED
    BY <2>1, <2>3
<1>5. ASSUME NEW x \in Timers, Push(x)
      PROVE  Told(z)'
  <2> DEFINE o == Head(todo[x])
  <2>1. /\ UNCHANGED <<phase, notified, budget>> /\ ops' = Append(ops, o)
        /\ todo[x] # << >> /\ todo' = [todo EXCEPT ![x] = Tail(@)]
    BY <1>5 DEF Push
  <2>2. /\ o = todo[x][1] /\ 1 \in 1 .. Len(todo[x]) /\ CallOK(x, timer[x], todo[x], 1)
        /\ ops \in Seq(Queued) /\ o \in Queued
    BY <1>5, <2>1, TakeCall, CallsDef DEF Queues, Push
  <2>3. CASE k \in 1 .. Len(ops)
    <3>1. ops'[k] = ops[k]
      BY <2>1, <2>2, <2>3
    <3>2. Told(z)
      BY <2>1, <2>3, <3>1 DEF LateInsertions
    <3> QED
      BY <1>1, <1>5, <3>2, PushKeepsNotify
  <2>4. CASE k = Len(ops) + 1
    <3>1. ops'[k] = o
      BY <2>1, <2>2, <2>4
    <3>2. Entry(o).waker = <<x, timer[x].task>> /\ Entry(o).waker = o.waker
      BY <2>2, <3>1 DEF CallOK, Entry
    <3>3. z = x
      BY <3>1, <3>2
    <3> QED
      BY <1>1, <1>5, <3>1, <3>3, PushKeepsNotify
  <2>5. Len(ops) \in Nat /\ Len(ops') = Len(ops) + 1
    BY <2>1, <2>2
  <2>6. k \in 1 .. Len(ops) \/ k = Len(ops) + 1
    BY <2>5
  <2> QED
    BY <2>3, <2>4, <2>6
<1>6. CASE \E x \in Timers : CallNotify(x)
  BY <1>6 DEF CallNotify
<1>7. CASE \E x \in Timers : LockToDrain(x) \/ UnlockAfterDrain(x)
  BY <1>7, TimersAssumption DEF LockToDrain, UnlockAfterDrain, Locking
<1>8. CASE Drain
  <2>1. /\ UNCHANGED <<phase, notified, todo>> /\ budget' = budget - 1 /\ budget > 0
        /\ ops \in Seq(Queued) /\ ops # << >> /\ ops' = Tail(ops)
    BY <1>8 DEF Drain, Queues
  <2>2. budget \in Nat
    BY DEF TypeOK
  <2>3. k + 1 \in 1 .. Len(ops) /\ ops'[k] = ops[k + 1] /\ k + 1 > budget
    BY <2>1, <2>2
  <2>4. Told(z)
    BY <2>1, <2>3 DEF LateInsertions
  <2> QED
    BY <2>1, <2>4
<1>9. CASE LockTimers
  <2>1. budget' = Cap /\ ops' = ops
    BY <1>9 DEF LockTimers
  <2> QED
    BY <2>1, TimersAssumption DEF TypeOK, Queues
<1>10. CASE ProcessTimers
  BY <1>10 DEF ProcessTimers, Timeout
<1>11. CASE WaitZero \/ WaitOther \/ DispatchFails \/ WakeAll
  BY <1>11 DEF WaitZero, WaitOther, DispatchFails, WakeAll
<1>12. CASE Tick \/ \E x \in Timers : PushRefused(x)
  BY <1>2, <1>12 DEF Tick, PushRefused
<1> QED
  BY <1>3, <1>4, <1>5, <1>6, <1>7, <1>8, <1>9, <1>10, <1>11, <1>12, NextSteps DEF Steps

\* Every step keeps a poll that would last too long about to be interrupted.
LEMMA InTimeStep ==
  ASSUME TypeOK, Queues, Registration, Calls, LateInsertions, ReactorWakesInTime, Next
  PROVE  ReactorWakesInTime'
<1> USE DEF queueVars, reactorVars, taskVars
<1> DEFINE Told(z) == \E m \in 1 .. Len(todo[z]) : todo[z][m] = Notify
           InTime(e) == deadline # None /\ deadline <= e.when
<1> SUFFICES ASSUME phase' = "wait", ~notified', NEW e, Pending(e)', NEW z, z = e.waker[1]
             PROVE  InTime(e)' \/ Told(z)'
  BY PendingIsCollected DEF ReactorWakesInTime
<1>1. ASSUME UNCHANGED <<phase, notified, deadline>>, Pending(e)
      PROVE  z \in Timers /\ (InTime(e) \/ Told(z)) /\ (InTime(e) => InTime(e)')
  BY <1>1, PendingType, PendingIsCollected DEF ReactorWakesInTime
<1>2. CASE \E x \in Timers : Quiet(x)
  BY <1>1, <1>2, SamePending DEF Quiet, Owns
<1>3. ASSUME NEW x \in Timers, NEW T, Unsets(x, T) \/ Registers(x, T)
      PROVE  InTime(e)' \/ Told(z)'
  <2>1. /\ UNCHANGED <<phase, notified, deadline, ops, map>> /\ todo[x] = << >>
    BY <1>3 DEF Unsets, Registers, Owns
  <2>2. Pending(e)
    BY <2>1, SamePending
  <2>3. CASE Told(z)
    <3>1. z # x
      BY <2>1, <2>3
    <3>2. todo'[z] = todo[z]
      BY <1>1, <1>3, <2>1, <2>2, <3>1, BeginCalls
    <3> QED
      BY <2>3, <3>2
  <2> QED
    BY <1>1, <2>1, <2>2, <2>3
<1>4. ASSUME NEW x \in Timers, Push(x)
      PROVE  InTime(e)' \/ Told(z)'
  <2> DEFINE o == Head(todo[x])
  <2>1. /\ UNCHANGED <<phase, notified, deadline>>
        /\ todo[x] # << >> /\ todo' = [todo EXCEPT ![x] = Tail(@)]
    BY <1>4 DEF Push
  <2>2. /\ o = todo[x][1] /\ 1 \in 1 .. Len(todo[x]) /\ CallOK(x, timer[x], todo[x], 1)
    BY <2>1, TakeCall, CallsDef
  <2>3. (o.op = "Insert" /\ Entry(o) = e) \/ Pending(e)
    BY <1>4, PushPending
  <2>4. CASE o.op = "Insert" /\ Entry(o) = e
    <3>1. e.waker = <<x, timer[x].task>>
      BY <2>2, <2>4 DEF CallOK
    <3>2. z = x
      BY <3>1
    <3> QED
      BY <1>4, <2>4, <3>2, PushKeepsNotify
  <2>5. CASE Pending(e)
    <3>1. z \in Timers /\ (InTime(e) \/ Told(z)) /\ (InTime(e) => InTime(e)')
      BY <1>1, <2>1, <2>5
    <3>2. Told(z) => Told(z)'
      BY <1>4, <3>1, PushKeepsNotify
    <3> QED
      BY <3>1, <3>2
  <2> QED
    BY <2>3, <2>4, <2>5
<1>5. CASE \E x \in Timers : CallNotify(x)
  BY <1>5 DEF CallNotify
<1>6. CASE Drain
  <2>1. Pending(e) /\ UNCHANGED <<phase, notified, deadline, todo>>
    BY <1>6, DrainKeepsPending DEF Drain
  <2> QED
    BY <1>1, <2>1
<1>7. CASE ProcessTimers
  <2> DEFINE due == {d \in map : d.when <= now}
  <2>1. PICK zero \in ZeroTimeouts : phase = "before" /\ Timeout(due, zero)
    BY <1>7 DEF ProcessTimers
  <2>2. due = {} /\ deadline' = FirstInstant(map)
    BY <2>1 DEF Timeout
  <2>3. /\ ops' = ops /\ todo' = todo /\ notified' = notified /\ map' \subseteq map
        /\ budget = 0 \/ ops = << >>
    BY <1>7 DEF ProcessTimers, DrainDone
  <2>4. \A d \in map : d.when \in Instants
    BY DEF TypeOK
  <2>5. CASE e \in map'
    <3>1. deadline' \in Instants /\ deadline' <= e.when
      BY <2>2, <2>3, <2>4, <2>5, FirstInstantIsFirst
    <3> QED
      BY <3>1, TimersAssumption DEF Instants
  <2>6. ASSUME NEW k \in 1 .. Len(ops), Inserted(e, k)
        PROVE  Told(z)'
    <3>1. k > budget
      BY <2>3 DEF Queues
    <3>2. ops[k].op = "Insert" /\ ops[k].waker[1] = z
      BY <2>6 DEF Inserted, Entry
    <3> QED
      BY <2>1, <2>3, <3>1, <3>2 DEF LateInsertions
  <2>7. e \in map' \/ \E k \in 1 .. Len(ops) : Inserted(e, k)
    BY <2>3 DEF Pending, Inserted, Entry
  <2> QED
    BY <2>5, <2>6, <2>7
<1>8. CASE LockTimers \/ WaitZero \/ WaitOther \/ DispatchFails \/ WakeAll
  BY <1>8 DEF LockTimers, WaitZero, WaitOther, DispatchFails, WakeAll
<1>9. CASE UNCHANGED <<todo, ops, map, phase, notified, deadline>>
  BY <1>1, <1>9, SamePending
<1> QED
  BY <1>2, <1>3, <1>4, <1>5, <1>6, <1>7, <1>8, <1>9, NextSteps
     DEF Steps, PushRefused, LockToDrain, UnlockAfterDrain, Tick

-----------------------------------------------------------------------------
(* The invariant holds initially and every step keeps it. *)

\* Initially there is no timer, and nothing in the queue or the map.
LEMMA InitIInv == Init => IInv
<1> SUFFICES ASSUME Init PROVE IInv
  OBVIOUS
<1>1. Len(ops) = 0 /\ \A x \in Timers : todo[x] = << >> /\ Len(todo[x]) = 0 /\ timer[x] = NoTimer
  BY DEF Init
<1>2. TypeOK
  <2>1. notified \in BOOLEAN
    BY DEF Init
  <2>2. NoTimer \in TimerType
    BY DEF NoTimer, TimerType
  <2>3. timer \in [Timers -> TimerType]
    BY <2>2 DEF Init
  <2> QED
    BY <1>1, <2>1, <2>3, TimersAssumption DEF Init, TypeOK, TimerType, Instants
<1>3. Queues
  BY DEF Init, Queues
<1>4. Registration /\ InEffect
  BY <1>1 DEF Registration, InEffect, Registered, NoTimer
<1>5. Calls
  BY <1>1 DEF Calls
<1>6. Locking /\ LateInsertions /\ ReactorWakesInTime
  BY TimersAssumption DEF Init, Locking, LateInsertions, ReactorWakesInTime
<1>7. NoOrphanEntries
  <2>1. \A e : ~Pending(e)
    BY <1>1 DEF Init, Pending
  <2> QED
    BY <2>1, PendingIsCollected DEF NoOrphanEntries
<1> QED
  BY <1>2, <1>3, <1>4, <1>5, <1>6, <1>7 DEF IInv

\* Every step of an operation, of react() and of time keeps it.
LEMMA StepIInv == IInv /\ [Next]_vars => IInv'
<1> SUFFICES ASSUME IInv, [Next]_vars PROVE IInv'
  OBVIOUS
<1>1. CASE Next
  BY <1>1, TypeStep, QueuesStep, RegistrationStep, CallsStep, LockingStep, InEffectStep,
     OrphansStep, LateStep, InTimeStep DEF IInv
<1>2. CASE UNCHANGED vars
  <2> USE <1>2 DEF vars, IInv
  <2>1. TypeOK' /\ Queues' /\ Registration' /\ Locking' /\ LateInsertions'
    BY DEF TypeOK, Queues, Registration, Registered, Locking, LateInsertions
  <2>2. Calls'
    BY CallsDef, CallsDefNext
  <2>3. PendingEntries' = PendingEntries
    BY DEF PendingEntries, Pending, Inserted, Removed
  <2>4. \A x \in Timers : EntryOf(x)' = EntryOf(x) /\ (Pending(EntryOf(x))' <=> Pending(EntryOf(x)))
    BY DEF EntryOf, Pending, Inserted, Removed
  <2>5. InEffect'
    BY <2>4 DEF InEffect, Registered
  <2>6. NoOrphanEntries'
    <3> SUFFICES ASSUME NEW e \in PendingEntries
                 PROVE  \/ timer[e.waker[1]].st = "live" /\ EntryOf(e.waker[1])' = e
                        \/ \E k \in 1 .. Len(todo[e.waker[1]]) :
                             todo[e.waker[1]][k] = Remove(e.when, e.id)
      BY <2>3 DEF NoOrphanEntries
    <3> QED
      BY DEF NoOrphanEntries, EntryOf
  <2>7. ReactorWakesInTime'
    BY <2>3 DEF ReactorWakesInTime
  <2> QED
    BY <2>1, <2>2, <2>5, <2>6, <2>7
<1> QED
  BY <1>1, <1>2

\* So it holds in every reachable state.
LEMMA InvariantIInv == Spec => []IInv
BY InitIInv, StepIInv, PTL DEF Spec

-----------------------------------------------------------------------------
\* Every state is well typed: the queue never holds more than its capacity, and no
\* operation has more than three calls to make.
THEOREM TypeCorrect == Spec => []TypeOK
<1>1. IInv => TypeOK
  BY DEF IInv
<1> QED
  BY <1>1, InvariantIInv, PTL

\* A timer that is set and registered stays in effect until it fires, however its
\* operations, those of other timers and the drains of the queue interleave.
THEOREM AlwaysSetTimersPending == Spec => []SetTimersPending
<1>1. IInv => SetTimersPending
  BY DEF IInv, TypeOK, InEffect, SetTimersPending, Usable
<1> QED
  BY <1>1, InvariantIInv, PTL

\* No entry outlives the timer it was made for, or an instant the timer was set away from.
THEOREM AlwaysNoOrphanEntries == Spec => []NoOrphanEntries
<1>1. IInv => NoOrphanEntries
  BY DEF IInv
<1> QED
  BY <1>1, InvariantIInv, PTL

\* The reactor never sleeps past a timer: its poll times out in time, or the operation
\* that inserted the timer interrupts it, whatever the size of the queue.
THEOREM AlwaysReactorWakesInTime == Spec => []ReactorWakesInTime
<1>1. IInv => ReactorWakesInTime
  BY DEF IInv
<1> QED
  BY <1>1, InvariantIInv, PTL
=============================================================================
