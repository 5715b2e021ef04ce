------------------------------ MODULE MCHandles ------------------------------
EXTENDS Handles, TLC

Symm == Permutations(Sources) \cup Permutations(Keys) \cup Permutations(Tasks)

\* Nothing here depends on which tasks were woken: a task is polled at any time.
View == <<ticker, slab, src, tick, ticks, waker, wakers, fut, waiting, registering,
          interest, phase, events, toWake, faults, fresh, freshDir, sock, op>>
=============================================================================
