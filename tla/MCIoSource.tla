---------------------------- MODULE MCIoSource ----------------------------
EXTENDS IoSource, TLC

SymmTasks == Permutations(Futures) \cup Permutations(Tasks)
===========================================================================
