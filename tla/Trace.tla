------------------------------- MODULE Trace -------------------------------
(***************************************************************************)
(* What a copying collection promises: it evacuates objects that the roots *)
(* name or that evacuated objects refer to, and it finishes when no        *)
(* reference to an object left behind remains.  The referents of weak      *)
(* objects do not count.                                                   *)
(***************************************************************************)
CONSTANT
  Objects   \* the objects in from-space

VARIABLES
  Refers,   \* Refers[o]: the objects that o keeps alive; it does not change
  Roots,    \* the objects that the roots name; nor does this
  live,     \* the objects evacuated
  over      \* the trace is over

graph == <<Refers, Roots>>
vars == <<graph, live, over>>

\* Some of what the roots name may have been evacuated before.
Init == live \subseteq Roots /\ over = FALSE

Evacuate(o) ==
  /\ ~over
  /\ o \notin live /\ (o \in Roots \/ \E p \in live : o \in Refers[p])
  /\ live' = live \cup {o}
  /\ UNCHANGED <<graph, over>>

Finish ==
  /\ Roots \subseteq live /\ \A p \in live : Refers[p] \subseteq live
  /\ over' = TRUE
  /\ UNCHANGED <<graph, live>>

Next == Finish \/ \E o \in Objects : Evacuate(o)

Spec == Init /\ [][Next]_vars

-----------------------------------------------------------------------------

\* The sets that hold the roots and whatever their members keep alive.
Closed(S) == Roots \subseteq S /\ \A p \in S : Refers[p] \subseteq S

\* What is evacuated belongs to every closed set, that is, it is reachable; and
\* when the trace is over it is itself closed, so it is all that is reachable.
EvacuatesTheReachable ==
  /\ \A S \in SUBSET Objects : Closed(S) => live \subseteq S
  /\ over => Closed(live)
=============================================================================
