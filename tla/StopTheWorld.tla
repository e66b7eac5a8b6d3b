---------------------------- MODULE StopTheWorld ----------------------------
(***************************************************************************)
(* What the scheduler of polyml-runtime promises to the heap, with no      *)
(* trace of how: a thread that touches the heap is a mutator, at most one  *)
(* mutator at a time unless the runtime is parallel, and while somebody    *)
(* collects there is no mutator but the collector itself.                  *)
(***************************************************************************)
EXTENDS Naturals, FiniteSets

CONSTANTS Threads,    \* every thread that may ever run ML code
          Parallel    \* POLY_PARALLEL: several mutators at once

VARIABLES mutators,   \* the threads in ML memory
          collecting  \* the thread that moves objects, as a set of at most one

vars == <<mutators, collecting>>

Init == mutators = {} /\ collecting = {}

\* A thread enters ML memory: never during a collection, and in giant-lock
\* mode only when nobody is inside.
Enter(t) ==
  /\ t \notin mutators
  /\ collecting = {}
  /\ Parallel \/ mutators = {}
  /\ mutators' = mutators \cup {t}
  /\ UNCHANGED collecting

Leave(t) ==
  /\ t \in mutators
  /\ collecting = {}
  /\ mutators' = mutators \ {t}
  /\ UNCHANGED collecting

\* Objects start to move only when the collector is alone in the heap.
BeginCollect(t) ==
  /\ mutators = {t}
  /\ collecting = {}
  /\ collecting' = {t}
  /\ UNCHANGED mutators

EndCollect(t) ==
  /\ collecting = {t}
  /\ collecting' = {}
  /\ UNCHANGED mutators

Next == \E t \in Threads : Enter(t) \/ Leave(t) \/ BeginCollect(t) \/ EndCollect(t)

Spec == Init /\ [][Next]_vars
=============================================================================
