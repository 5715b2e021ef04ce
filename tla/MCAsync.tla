------------------------------- MODULE MCAsync -------------------------------
EXTENDS Async, TLC
=============================================================================
