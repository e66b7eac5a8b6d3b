---------------------------- MODULE MCMutexProto ----------------------------
\* MutexProto on a handful of threads.
EXTENDS MutexProto

CONSTANTS t1, t2, t3
=============================================================================
