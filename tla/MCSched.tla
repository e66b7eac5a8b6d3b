------------------------------ MODULE MCSched ------------------------------
\* Instances of Sched for TLC.
EXTENDS Sched

CONSTANTS t1, t2, t3
=============================================================================
