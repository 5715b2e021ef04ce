------------------------------ MODULE MCTimers ------------------------------
EXTENDS Timers, TLC

Symm == Permutations(Timers) \cup Permutations(Tasks)
=============================================================================
