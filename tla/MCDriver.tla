------------------------------ MODULE MCDriver ------------------------------
EXTENDS Driver, TLC
=============================================================================
