----------------------------- MODULE MCRequests -----------------------------
\* Requests on a handful of threads.
EXTENDS Requests

CONSTANTS main, t1, t2

\* Two threads race in parallel mode, in three interrupt states; three take
\* turns in giant-lock mode.
MCStarted == [mode \in Modes |-> IF mode THEN {main, t1} ELSE Threads]
MCStates == [mode \in Modes |-> IF mode THEN {"defer", "synch", "once"} ELSE {"synch"}]
=============================================================================
