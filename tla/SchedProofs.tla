---------------------------- MODULE SchedProofs ----------------------------
(***************************************************************************)
(* The scheduler keeps the registry invariant and implements StopTheWorld  *)
(* for every finite set of threads, in both modes, with failing spawns and *)
(* resumed runs.  SchedInv is the inductive invariant.  Its step is proved *)
(* conjunct by conjunct, action by action: ShapeStep, FlagsStep,           *)
(* ExclusionStep and CountStep; the refinement follows from it.            *)
(***************************************************************************)
EXTENDS Sched, FiniteSetTheorems, TLAPS

USE DEF vars, lockVars, wakeVars, staleVars, Goto, Publish, Sleep, NotifyMutators,
        NotifyCollector, AnnounceTake, LeaveHeap, EnterHeap, Deregister

\* A step of one thread.
Step(t) == Program(t) \/ Safepoint(t) \/ Loops(t) \/ Collector(t)

\* TypeOK without the two counters, whose type follows from what they count.
Shape ==
  /\ pc \in [Threads -> Places]
  /\ registry \subseteq Threads
  /\ in_ml \in [Threads -> BOOLEAN]
  /\ parked_roots \in [Threads -> Roots]
  /\ gc_requested \in BOOLEAN
  /\ mutator_wake \subseteq Threads
  /\ collector_wake \subseteq Threads
  /\ snap \subseteq Threads
  /\ field_stale \subseteq Threads
  /\ box_stale \subseteq Threads

\* Every step keeps the types of the uncounted variables.
LEMMA ShapeStep ==
  ASSUME SchedInv, NEW t \in Threads, Step(t)
  PROVE  Shape'
<1> USE DEF SchedInv, TypeOK, Shape, Places, InHeap, Queued, Roots
<1>1. CASE Register(t) BY <1>1 DEF Register
<1>2. CASE AcquireKeepPublished(t) BY <1>2 DEF AcquireKeepPublished
<1>3. CASE ResumeCapture(t) BY <1>3 DEF ResumeCapture
<1>4. CASE AcquireMLMemory(t) BY <1>4 DEF AcquireMLMemory
<1>5. CASE ReleaseMLMemory(t) BY <1>5 DEF ReleaseMLMemory
<1>6. CASE ReleaseForBlocking(t) BY <1>6 DEF ReleaseForBlocking
<1>7. CASE Reacquire(t) BY <1>7 DEF Reacquire
<1>8. CASE ExitRunning(t) BY <1>8 DEF ExitRunning
<1>9. CASE Exit(t) BY <1>9 DEF Exit
<1>10. CASE RequestGC(t) BY <1>10 DEF RequestGC
<1>11. ASSUME NEW c \in Threads, Fork(t, c) PROVE Shape'
  BY <1>11 DEF Fork, PublishAndRegister
<1>12. ASSUME NEW c \in Threads, ForkSpawnFails(t, c) PROVE Shape'
  BY <1>12 DEF ForkSpawnFails, PublishAndRegister
<1>13. CASE SafepointPark(t) BY <1>13 DEF SafepointPark
<1>14. CASE Yield(t) BY <1>14 DEF Yield
<1>15. CASE LoseElection(t) BY <1>15 DEF LoseElection
<1>16. CASE RegisterLoop(t) BY <1>16 DEF RegisterLoop
<1>17. CASE AcquireLoop(t) BY <1>17 DEF AcquireLoop
<1>18. CASE HandoffLoop(t) BY <1>18 DEF HandoffLoop
<1>19. CASE LostLoop(t) BY <1>19 DEF LostLoop
<1>20. CASE ExitWait(t) BY <1>20 DEF ExitWait
<1>21. CASE ExitParked(t) BY <1>21 DEF ExitParked
<1>22. ASSUME NEW c \in Threads, SpawnCleanup(t, c) PROVE Shape'
  BY <1>22 DEF SpawnCleanup
<1>23. CASE Barrier(t) BY <1>23 DEF Barrier
<1>24. CASE Snapshot(t) BY <1>24 DEF Snapshot
<1>25. CASE Collect(t) BY <1>25 DEF Collect, KeptBox, Forwarded
<1>26. CASE FinishGC(t) BY <1>26 DEF FinishGC
<1> QED
  BY <1>1, <1>2, <1>3, <1>4, <1>5, <1>6, <1>7, <1>8, <1>9, <1>10, <1>11, <1>12, <1>13,
     <1>14, <1>15, <1>16, <1>17, <1>18, <1>19, <1>20, <1>21, <1>22, <1>23, <1>24, <1>25, <1>26
  DEF Step, Program, Safepoint, Loops, Collector

\* in_ml, registry and parked_roots change together with the place, whichever
\* of the acquire, release, exit, fork or collection paths is taken.
LEMMA FlagsStep ==
  ASSUME SchedInv, NEW t \in Threads, Step(t)
  PROVE  FlagsFollowPlaces'
<1> USE DEF SchedInv, TypeOK, FlagsFollowPlaces, Places, InHeap, Queued, Absent, Roots
<1>1. CASE Register(t) BY <1>1 DEF Register
<1>2. CASE AcquireKeepPublished(t) BY <1>2 DEF AcquireKeepPublished
<1>3. CASE ResumeCapture(t) BY <1>3 DEF ResumeCapture
<1>4. CASE AcquireMLMemory(t) BY <1>4 DEF AcquireMLMemory
<1>5. CASE ReleaseMLMemory(t) BY <1>5 DEF ReleaseMLMemory
<1>6. CASE ReleaseForBlocking(t) BY <1>6 DEF ReleaseForBlocking
<1>7. CASE Reacquire(t) BY <1>7 DEF Reacquire
<1>8. CASE ExitRunning(t) BY <1>8 DEF ExitRunning
<1>9. CASE Exit(t) BY <1>9 DEF Exit
<1>10. CASE RequestGC(t) BY <1>10 DEF RequestGC
<1>11. ASSUME NEW c \in Threads, Fork(t, c) PROVE FlagsFollowPlaces'
  BY <1>11 DEF Fork, PublishAndRegister
<1>12. ASSUME NEW c \in Threads, ForkSpawnFails(t, c) PROVE FlagsFollowPlaces'
  BY <1>12 DEF ForkSpawnFails, PublishAndRegister
<1>13. CASE SafepointPark(t) BY <1>13 DEF SafepointPark
<1>14. CASE Yield(t) BY <1>14 DEF Yield
<1>15. CASE LoseElection(t) BY <1>15 DEF LoseElection
<1>16. CASE RegisterLoop(t) BY <1>16 DEF RegisterLoop
<1>17. CASE AcquireLoop(t) BY <1>17 DEF AcquireLoop
<1>18. CASE HandoffLoop(t) BY <1>18 DEF HandoffLoop
<1>19. CASE LostLoop(t) BY <1>19 DEF LostLoop
<1>20. CASE ExitWait(t) BY <1>20 DEF ExitWait
<1>21. CASE ExitParked(t) BY <1>21 DEF ExitParked
<1>22. ASSUME NEW c \in Threads, SpawnCleanup(t, c) PROVE FlagsFollowPlaces'
  BY <1>22 DEF SpawnCleanup
<1>23. CASE Barrier(t) BY <1>23 DEF Barrier
<1>24. CASE Snapshot(t) BY <1>24 DEF Snapshot
<1>25. CASE Collect(t) BY <1>25 DEF Collect
<1>26. CASE FinishGC(t) BY <1>26 DEF FinishGC
<1> QED
  BY <1>1, <1>2, <1>3, <1>4, <1>5, <1>6, <1>7, <1>8, <1>9, <1>10, <1>11, <1>12, <1>13,
     <1>14, <1>15, <1>16, <1>17, <1>18, <1>19, <1>20, <1>21, <1>22, <1>23, <1>24, <1>25, <1>26
  DEF Step, Program, Safepoint, Loops, Collector

\* The count of runners is zero only when nobody is in the heap.
LEMMA NoRunner ==
  ASSUME SchedInv, ~(running > 0)
  PROVE  \A u \in Threads : ~in_ml[u]
<1>1. IsFiniteSet(Runners)
  BY FS_Subset, SchedAssumption DEF Runners
<1>2. Cardinality(Runners) = 0
  BY DEF SchedInv, TypeOK, LockAccounting
<1>3. Runners = {}
  BY <1>1, <1>2, FS_EmptySet
<1> QED
  BY <1>3 DEF Runners

\* One collector, a stopped world, one runner in giant mode: an acquire loop
\* lets nobody in during a collection nor, in giant mode, next to a runner.
LEMMA ExclusionStep ==
  ASSUME SchedInv, NEW t \in Threads, Step(t)
  PROVE  (OneCollector /\ WorldStopped /\ GiantLock)'
<1> USE DEF SchedInv, TypeOK, FlagsFollowPlaces, OneCollector, WorldStopped, GiantLock,
            Places, InHeap, Queued, Absent, Requesting, Moving
<1>1. CASE Register(t) BY <1>1 DEF Register
<1>2. CASE AcquireKeepPublished(t) BY <1>2 DEF AcquireKeepPublished
<1>3. CASE ResumeCapture(t) BY <1>3 DEF ResumeCapture
<1>4. CASE AcquireMLMemory(t) BY <1>4 DEF AcquireMLMemory
<1>5. CASE ReleaseMLMemory(t) BY <1>5 DEF ReleaseMLMemory
<1>6. CASE ReleaseForBlocking(t) BY <1>6 DEF ReleaseForBlocking
<1>7. CASE Reacquire(t) BY <1>7 DEF Reacquire
<1>8. CASE ExitRunning(t) BY <1>8 DEF ExitRunning
<1>9. CASE Exit(t) BY <1>9 DEF Exit
<1>10. CASE RequestGC(t) BY <1>10 DEF RequestGC
<1>11. ASSUME NEW c \in Threads, Fork(t, c) PROVE (OneCollector /\ WorldStopped /\ GiantLock)'
  BY <1>11 DEF Fork, PublishAndRegister
<1>12. ASSUME NEW c \in Threads, ForkSpawnFails(t, c) PROVE (OneCollector /\ WorldStopped /\ GiantLock)'
  BY <1>12 DEF ForkSpawnFails, PublishAndRegister
<1>13. CASE SafepointPark(t) BY <1>13 DEF SafepointPark
<1>14. CASE Yield(t) BY <1>14 DEF Yield
<1>15. CASE LoseElection(t) BY <1>15 DEF LoseElection
<1>16. CASE RegisterLoop(t) BY <1>16 DEF RegisterLoop
<1>17. CASE AcquireLoop(t) BY <1>17, NoRunner DEF AcquireLoop, MustWait
<1>18. CASE HandoffLoop(t) BY <1>18 DEF HandoffLoop
<1>19. CASE LostLoop(t) BY <1>19 DEF LostLoop
<1>20. CASE ExitWait(t) BY <1>20 DEF ExitWait
<1>21. CASE ExitParked(t) BY <1>21 DEF ExitParked
<1>22. ASSUME NEW c \in Threads, SpawnCleanup(t, c) PROVE (OneCollector /\ WorldStopped /\ GiantLock)'
  BY <1>22 DEF SpawnCleanup
<1>23. CASE Barrier(t) BY <1>23 DEF Barrier, AllParked
<1>24. CASE Snapshot(t) BY <1>24 DEF Snapshot
<1>25. CASE Collect(t) BY <1>25 DEF Collect
<1>26. CASE FinishGC(t) BY <1>26 DEF FinishGC
<1> QED
  BY <1>1, <1>2, <1>3, <1>4, <1>5, <1>6, <1>7, <1>8, <1>9, <1>10, <1>11, <1>12, <1>13,
     <1>14, <1>15, <1>16, <1>17, <1>18, <1>19, <1>20, <1>21, <1>22, <1>23, <1>24, <1>25, <1>26
  DEF Step, Program, Safepoint, Loops, Collector

\* A counter n of a set S follows one step of a thread x: x stays where it is,
\* joins S, or leaves it.
Counted(S, S2, n, n2, x) ==
  \/ S2 = S /\ n2 = n
  \/ x \notin S /\ S2 = S \cup {x} /\ n2 = n + 1
  \/ x \in S /\ S2 = S \ {x} /\ n2 = n - 1

\* The count is again the number of members.
LEMMA CountedCardinality ==
  ASSUME NEW S, NEW S2, NEW n, NEW n2, NEW x,
         IsFiniteSet(S), n = Cardinality(S), Counted(S, S2, n, n2, x)
  PROVE  n2 = Cardinality(S2)
<1>1. CASE S2 = S /\ n2 = n BY <1>1
<1>2. CASE x \notin S /\ S2 = S \cup {x} /\ n2 = n + 1
  BY <1>2, FS_AddElement
<1>3. CASE x \in S /\ S2 = S \ {x} /\ n2 = n - 1
  BY <1>3, FS_RemoveElement
<1> QED BY <1>1, <1>2, <1>3 DEF Counted

\* Every path in and out of the heap counts its thread once: an exit from
\* between two runs does not, a cleanup for an unspawned child does not.
LEMMA RunnersStep ==
  ASSUME SchedInv, NEW t \in Threads, Step(t)
  PROVE  Counted(Runners, Runners', running, running', t)
<1> USE DEF SchedInv, TypeOK, FlagsFollowPlaces, InHeap, Queued, Absent, Counted, Runners
<1>1. CASE Register(t) BY <1>1 DEF Register
<1>2. CASE AcquireKeepPublished(t) BY <1>2 DEF AcquireKeepPublished
<1>3. CASE ResumeCapture(t) BY <1>3 DEF ResumeCapture
<1>4. CASE AcquireMLMemory(t) BY <1>4 DEF AcquireMLMemory
<1>5. CASE ReleaseMLMemory(t) BY <1>5 DEF ReleaseMLMemory
<1>6. CASE ReleaseForBlocking(t) BY <1>6 DEF ReleaseForBlocking
<1>7. CASE Reacquire(t) BY <1>7 DEF Reacquire
<1>8. CASE ExitRunning(t) BY <1>8 DEF ExitRunning
<1>9. CASE Exit(t) BY <1>9 DEF Exit
<1>10. CASE RequestGC(t) BY <1>10 DEF RequestGC
<1>11. ASSUME NEW c \in Threads, Fork(t, c) PROVE Counted(Runners, Runners', running, running', t)
  BY <1>11 DEF Fork, PublishAndRegister
<1>12. ASSUME NEW c \in Threads, ForkSpawnFails(t, c) PROVE Counted(Runners, Runners', running, running', t)
  BY <1>12 DEF ForkSpawnFails, PublishAndRegister
<1>13. CASE SafepointPark(t) BY <1>13 DEF SafepointPark
<1>14. CASE Yield(t) BY <1>14 DEF Yield
<1>15. CASE LoseElection(t) BY <1>15 DEF LoseElection
<1>16. CASE RegisterLoop(t) BY <1>16 DEF RegisterLoop
<1>17. CASE AcquireLoop(t) BY <1>17 DEF AcquireLoop
<1>18. CASE HandoffLoop(t) BY <1>18 DEF HandoffLoop
<1>19. CASE LostLoop(t) BY <1>19 DEF LostLoop
<1>20. CASE ExitWait(t) BY <1>20 DEF ExitWait
<1>21. CASE ExitParked(t) BY <1>21 DEF ExitParked
<1>22. ASSUME NEW c \in Threads, SpawnCleanup(t, c) PROVE Counted(Runners, Runners', running, running', t)
  BY <1>22 DEF SpawnCleanup
<1>23. CASE Barrier(t) BY <1>23 DEF Barrier
<1>24. CASE Snapshot(t) BY <1>24 DEF Snapshot
<1>25. CASE Collect(t) BY <1>25 DEF Collect
<1>26. CASE FinishGC(t) BY <1>26 DEF FinishGC
<1> QED
  BY <1>1, <1>2, <1>3, <1>4, <1>5, <1>6, <1>7, <1>8, <1>9, <1>10, <1>11, <1>12, <1>13,
     <1>14, <1>15, <1>16, <1>17, <1>18, <1>19, <1>20, <1>21, <1>22, <1>23, <1>24, <1>25, <1>26
  DEF Step, Program, Safepoint, Loops, Collector

\* Every path in and out of the queue counts its thread once; a yielder in
\* its hand-off and a loser of the election are not counted.
LEMMA WaitersStep ==
  ASSUME SchedInv, NEW t \in Threads, Step(t)
  PROVE  Counted(Waiters, Waiters', waiters, waiters', t)
<1> USE DEF SchedInv, TypeOK, Places, InHeap, Queued, Counted, Waiters
<1>1. CASE Register(t) BY <1>1 DEF Register
<1>2. CASE AcquireKeepPublished(t) BY <1>2 DEF AcquireKeepPublished
<1>3. CASE ResumeCapture(t) BY <1>3 DEF ResumeCapture
<1>4. CASE AcquireMLMemory(t) BY <1>4 DEF AcquireMLMemory
<1>5. CASE ReleaseMLMemory(t) BY <1>5 DEF ReleaseMLMemory
<1>6. CASE ReleaseForBlocking(t) BY <1>6 DEF ReleaseForBlocking
<1>7. CASE Reacquire(t) BY <1>7 DEF Reacquire
<1>8. CASE ExitRunning(t) BY <1>8 DEF ExitRunning
<1>9. CASE Exit(t) BY <1>9 DEF Exit
<1>10. CASE RequestGC(t) BY <1>10 DEF RequestGC
<1>11. ASSUME NEW c \in Threads, Fork(t, c) PROVE Counted(Waiters, Waiters', waiters, waiters', t)
  BY <1>11 DEF Fork, PublishAndRegister
<1>12. ASSUME NEW c \in Threads, ForkSpawnFails(t, c) PROVE Counted(Waiters, Waiters', waiters, waiters', t)
  BY <1>12 DEF ForkSpawnFails, PublishAndRegister
<1>13. CASE SafepointPark(t) BY <1>13 DEF SafepointPark
<1>14. CASE Yield(t) BY <1>14 DEF Yield
<1>15. CASE LoseElection(t) BY <1>15 DEF LoseElection
<1>16. CASE RegisterLoop(t) BY <1>16 DEF RegisterLoop
<1>17. CASE AcquireLoop(t) BY <1>17 DEF AcquireLoop
<1>18. CASE HandoffLoop(t) BY <1>18 DEF HandoffLoop
<1>19. CASE LostLoop(t) BY <1>19 DEF LostLoop
<1>20. CASE ExitWait(t) BY <1>20 DEF ExitWait
<1>21. CASE ExitParked(t) BY <1>21 DEF ExitParked
<1>22. ASSUME NEW c \in Threads, SpawnCleanup(t, c) PROVE Counted(Waiters, Waiters', waiters, waiters', t)
  BY <1>22 DEF SpawnCleanup
<1>23. CASE Barrier(t) BY <1>23 DEF Barrier
<1>24. CASE Snapshot(t) BY <1>24 DEF Snapshot
<1>25. CASE Collect(t) BY <1>25 DEF Collect
<1>26. CASE FinishGC(t) BY <1>26 DEF FinishGC
<1> QED
  BY <1>1, <1>2, <1>3, <1>4, <1>5, <1>6, <1>7, <1>8, <1>9, <1>10, <1>11, <1>12, <1>13,
     <1>14, <1>15, <1>16, <1>17, <1>18, <1>19, <1>20, <1>21, <1>22, <1>23, <1>24, <1>25, <1>26
  DEF Step, Program, Safepoint, Loops, Collector

\* The counts hold, and with them the types of the counters.
LEMMA CountStep ==
  ASSUME SchedInv, NEW t \in Threads, Step(t)
  PROVE  LockAccounting' /\ running' \in Nat /\ waiters' \in Nat
<1>1. /\ IsFiniteSet(Runners) /\ IsFiniteSet(Runners')
      /\ IsFiniteSet(Waiters) /\ IsFiniteSet(Waiters')
  BY FS_Subset, SchedAssumption DEF Runners, Waiters
<1>2. running' = Cardinality(Runners')
  BY <1>1, RunnersStep, CountedCardinality DEF SchedInv, LockAccounting
<1>3. waiters' = Cardinality(Waiters')
  BY <1>1, WaitersStep, CountedCardinality DEF SchedInv, LockAccounting
<1> QED
  BY <1>1, <1>2, <1>3, FS_CardinalityType DEF LockAccounting

-----------------------------------------------------------------------------
(* The inductive invariant and what follows from it *)

\* At the start nobody is counted and no collection asked for.
LEMMA InitInv == Init => SchedInv
<1> SUFFICES ASSUME Init PROVE SchedInv OBVIOUS
<1> USE DEF Init
<1>1. TypeOK BY DEF TypeOK, Places, Roots
<1>2. Runners = {} /\ Waiters = {} BY DEF Runners, Waiters, Queued
<1>3. LockAccounting BY <1>2, FS_EmptySet DEF LockAccounting
<1>4. FlagsFollowPlaces BY DEF FlagsFollowPlaces, InHeap, Absent
<1>5. OneCollector /\ WorldStopped /\ GiantLock
  BY DEF OneCollector, WorldStopped, GiantLock, Requesting, Moving, InHeap
<1> QED BY <1>1, <1>3, <1>4, <1>5 DEF SchedInv

\* The invariant is inductive: no step of a thread or of the collector breaks it.
LEMMA NextInv == SchedInv /\ [Next]_vars => SchedInv'
<1> SUFFICES ASSUME SchedInv, [Next]_vars PROVE SchedInv' OBVIOUS
<1>1. ASSUME NEW t \in Threads, Step(t) PROVE SchedInv'
  <2>1. TypeOK'
    BY <1>1, ShapeStep, CountStep DEF Shape, TypeOK
  <2> QED
    BY <1>1, <2>1, CountStep, FlagsStep, ExclusionStep DEF SchedInv
<1>2. CASE UNCHANGED vars
  BY <1>2 DEF SchedInv, TypeOK, LockAccounting, Runners, Waiters, FlagsFollowPlaces,
              OneCollector, WorldStopped, GiantLock
<1> QED BY <1>1, <1>2 DEF Next, Step, Finished

\* The counts are right, flags and boxes follow the place of their thread, one
\* thread collects and the world is stopped while it does.
THEOREM SchedInvariant == Spec => []SchedInv
<1> QED BY InitInv, NextInv, PTL DEF Spec

\* The state keeps its shape.
THEOREM TypeCorrect == Spec => []TypeOK
<1>1. SchedInv => TypeOK BY DEF SchedInv
<1> QED BY <1>1, SchedInvariant, PTL

\* running and waiters always equal the number of threads in ML memory and in
\* the queue, for any number of threads and any interleaving of their exits.
THEOREM CountsAreExact == Spec => []LockAccounting
<1>1. SchedInv => LockAccounting BY DEF SchedInv
<1> QED BY <1>1, SchedInvariant, PTL

\* A registered thread has published roots exactly when it is out of ML memory.
THEOREM RegistryIsPublished == Spec => []RegistryInvariant
<1>1. SchedInv => RegistryInvariant
  BY DEF SchedInv, FlagsFollowPlaces, RegistryInvariant, Absent, InHeap
<1> QED BY <1>1, SchedInvariant, PTL

-----------------------------------------------------------------------------
(* The scheduler implements StopTheWorld *)

Movers == {t \in Threads : pc[t] \in Moving}

\* A step in or out of the heap is allowed by StopTheWorld; every other step
\* of the scheduler is invisible to it.
LEMMA StepRefines ==
  ASSUME SchedInv, SchedInv', NEW t \in Threads, Step(t)
  PROVE  [STW!Next]_<<Runners, Movers>>
<1> USE DEF SchedInv, TypeOK, FlagsFollowPlaces, OneCollector, WorldStopped, GiantLock,
            InHeap, Queued, Absent, Requesting, Moving, Runners, Movers
<1> DEFINE Hidden == UNCHANGED <<Runners, Movers>>
<1>1. ASSUME Register(t) PROVE Hidden
  BY <1>1 DEF Register
<1>2. ASSUME AcquireKeepPublished(t) PROVE Hidden
  BY <1>2 DEF AcquireKeepPublished
<1>3. ASSUME ResumeCapture(t) PROVE Hidden
  BY <1>3 DEF ResumeCapture
<1>4. ASSUME AcquireMLMemory(t) PROVE Hidden
  BY <1>4 DEF AcquireMLMemory
<1>5. ASSUME ReleaseMLMemory(t) PROVE STW!Leave(t)
  BY <1>5 DEF ReleaseMLMemory, STW!Leave
<1>6. ASSUME ReleaseForBlocking(t) PROVE STW!Leave(t)
  BY <1>6 DEF ReleaseForBlocking, STW!Leave
<1>7. ASSUME Reacquire(t) PROVE Hidden
  BY <1>7 DEF Reacquire
<1>8. ASSUME ExitRunning(t) PROVE STW!Leave(t)
  BY <1>8 DEF ExitRunning, STW!Leave
<1>9. ASSUME Exit(t) PROVE Hidden
  BY <1>9 DEF Exit
<1>10. ASSUME RequestGC(t) PROVE Hidden
  BY <1>10 DEF RequestGC
<1>11. ASSUME NEW c \in Threads, Fork(t, c) PROVE Hidden
  BY <1>11 DEF Fork, PublishAndRegister
<1>12. ASSUME NEW c \in Threads, ForkSpawnFails(t, c) PROVE Hidden
  BY <1>12 DEF ForkSpawnFails, PublishAndRegister
<1>13. ASSUME SafepointPark(t) PROVE STW!Leave(t)
  BY <1>13 DEF SafepointPark, STW!Leave
<1>14. ASSUME Yield(t) PROVE STW!Leave(t)
  BY <1>14 DEF Yield, STW!Leave
<1>15. ASSUME LoseElection(t) PROVE STW!Leave(t)
  BY <1>15 DEF LoseElection, STW!Leave
<1>16. ASSUME RegisterLoop(t) PROVE Hidden
  BY <1>16 DEF RegisterLoop
<1>17. ASSUME AcquireLoop(t) PROVE Hidden \/ STW!Enter(t)
  BY <1>17, NoRunner DEF AcquireLoop, MustWait, STW!Enter
<1>18. ASSUME HandoffLoop(t) PROVE Hidden
  BY <1>18 DEF HandoffLoop
<1>19. ASSUME LostLoop(t) PROVE Hidden \/ STW!Enter(t)
  BY <1>19 DEF LostLoop, STW!Enter
<1>20. ASSUME ExitWait(t) PROVE Hidden
  BY <1>20 DEF ExitWait
<1>21. ASSUME ExitParked(t) PROVE Hidden
  BY <1>21 DEF ExitParked
<1>22. ASSUME NEW c \in Threads, SpawnCleanup(t, c) PROVE Hidden
  BY <1>22 DEF SpawnCleanup
<1>23. ASSUME Barrier(t) PROVE Hidden \/ STW!BeginCollect(t)
  BY <1>23 DEF Barrier, AllParked, STW!BeginCollect
<1>24. ASSUME Snapshot(t) PROVE Hidden
  BY <1>24 DEF Snapshot
<1>25. ASSUME Collect(t) PROVE Hidden
  BY <1>25 DEF Collect
<1>26. ASSUME FinishGC(t) PROVE STW!EndCollect(t)
  BY <1>26 DEF FinishGC, STW!EndCollect
<1> QED
  BY <1>1, <1>2, <1>3, <1>4, <1>5, <1>6, <1>7, <1>8, <1>9, <1>10, <1>11, <1>12, <1>13,
     <1>14, <1>15, <1>16, <1>17, <1>18, <1>19, <1>20, <1>21, <1>22, <1>23, <1>24, <1>25, <1>26
  DEF Step, Program, Safepoint, Loops, Collector, STW!Next

\* The scheduler stops the world: whatever the interleaving of acquires,
\* parks, exits, forks and collections, nobody is in the heap next to a thread
\* that moves objects, nor, in giant-lock mode, next to anybody.
THEOREM StopsTheWorldAlways == Spec => StopsTheWorld
<1>1. Init => STW!Init
  BY DEF Init, STW!Init, Runners, Moving
<1>2. ASSUME SchedInv, SchedInv', [Next]_vars PROVE [STW!Next]_(STW!vars)
  <2>1. ASSUME NEW t \in Threads, Step(t) PROVE [STW!Next]_(STW!vars)
    BY <1>2, <2>1, StepRefines DEF STW!vars, Movers
  <2>2. CASE UNCHANGED vars
    BY <2>2 DEF STW!vars, Runners
  <2> QED BY <1>2, <2>1, <2>2 DEF Next, Step, Finished
<1> QED
  BY <1>1, <1>2, SchedInvariant, PTL DEF Spec, StopsTheWorld, STW!Spec

-----------------------------------------------------------------------------
(* Fresh roots, where no run is resumed *)

\* Between the snapshot and the move nobody enters or leaves the registry, so
\* each box a thread relies on is forwarded or read back when it moved.
LEMMA RootsStep ==
  ASSUME ~Resumable, SchedInv, RootsInv, NEW t \in Threads, Step(t)
  PROVE  RootsInv'
<1> USE DEF SchedInv, TypeOK, FlagsFollowPlaces, OneCollector, WorldStopped, RootsInv, Places,
            InHeap, Queued, Absent, Requesting, Moving, Kept
<1>1. CASE Register(t) BY <1>1 DEF Register
<1>2. CASE AcquireKeepPublished(t) BY <1>2 DEF AcquireKeepPublished
<1>3. CASE ResumeCapture(t) BY <1>3 DEF ResumeCapture
<1>4. CASE AcquireMLMemory(t) BY <1>4 DEF AcquireMLMemory
<1>5. CASE ReleaseMLMemory(t) BY <1>5 DEF ReleaseMLMemory
<1>6. CASE ReleaseForBlocking(t) BY <1>6 DEF ReleaseForBlocking
<1>7. CASE Reacquire(t) BY <1>7 DEF Reacquire
<1>8. CASE ExitRunning(t) BY <1>8 DEF ExitRunning
<1>9. CASE Exit(t) BY <1>9 DEF Exit
<1>10. CASE RequestGC(t) BY <1>10 DEF RequestGC
<1>11. ASSUME NEW c \in Threads, Fork(t, c) PROVE RootsInv'
  BY <1>11 DEF Fork, PublishAndRegister
<1>12. ASSUME NEW c \in Threads, ForkSpawnFails(t, c) PROVE RootsInv'
  BY <1>12 DEF ForkSpawnFails, PublishAndRegister
<1>13. CASE SafepointPark(t) BY <1>13 DEF SafepointPark
<1>14. CASE Yield(t) BY <1>14 DEF Yield
<1>15. CASE LoseElection(t) BY <1>15 DEF LoseElection
<1>16. CASE RegisterLoop(t) BY <1>16 DEF RegisterLoop
<1>17. CASE AcquireLoop(t) BY <1>17, NoRunner DEF AcquireLoop, MustWait
<1>18. CASE HandoffLoop(t) BY <1>18 DEF HandoffLoop
<1>19. CASE LostLoop(t) BY <1>19 DEF LostLoop
<1>20. CASE ExitWait(t) BY <1>20 DEF ExitWait
<1>21. CASE ExitParked(t) BY <1>21 DEF ExitParked
<1>22. ASSUME NEW c \in Threads, SpawnCleanup(t, c) PROVE RootsInv'
  BY <1>22 DEF SpawnCleanup
<1>23. CASE Barrier(t) BY <1>23 DEF Barrier
<1>24. CASE Snapshot(t) BY <1>24 DEF Snapshot
<1>25. CASE Collect(t) BY <1>25 DEF Collect, KeptBox, Forwarded
<1>26. CASE FinishGC(t) BY <1>26 DEF FinishGC
<1> QED
  BY <1>1, <1>2, <1>3, <1>4, <1>5, <1>6, <1>7, <1>8, <1>9, <1>10, <1>11, <1>12, <1>13,
     <1>14, <1>15, <1>16, <1>17, <1>18, <1>19, <1>20, <1>21, <1>22, <1>23, <1>24, <1>25, <1>26
  DEF Step, Program, Safepoint, Loops, Collector

\* A thread that touches the heap holds no address from before the last
\* collection: forks, parks, yields, lost elections and quiesced runs all get
\* their roots back forwarded, unless a run may be resumed (README, known gaps).
THEOREM RootsStayFresh == ASSUME ~Resumable PROVE Spec => []NoStaleRoots
<1>1. Init => RootsInv
  BY DEF Init, RootsInv, Kept
<1>2. SchedInv /\ RootsInv /\ [Next]_vars => RootsInv'
  <2> SUFFICES ASSUME SchedInv, RootsInv, [Next]_vars PROVE RootsInv' OBVIOUS
  <2>1. CASE UNCHANGED vars BY <2>1 DEF RootsInv
  <2> QED BY <2>1, RootsStep DEF Next, Step, Finished
<1>3. SchedInv /\ RootsInv => NoStaleRoots
  BY DEF SchedInv, FlagsFollowPlaces, RootsInv, NoStaleRoots, InHeap, Kept
<1> QED BY <1>1, <1>2, <1>3, SchedInvariant, PTL DEF Spec
=============================================================================
