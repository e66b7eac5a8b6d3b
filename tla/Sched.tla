------------------------------- MODULE Sched -------------------------------
(***************************************************************************)
(* The scheduler of polyml-runtime: crates/polyml-runtime/src/sched.rs,    *)
(* with the interpreter functions that drive it (run_until, fork_thread,   *)
(* child_thread_main, request_gc_collect, gc, Drop).                       *)
(*                                                                         *)
(* One step is one critical section of SchedState::inner.  A wait on a     *)
(* condition variable is a loop: a thread in it is either asleep (a member *)
(* of mutator_wake or collector_wake) or about to test its condition.  The *)
(* first test after entering a loop is the same step as every later one;   *)
(* a notify_all empties the wait set.  gc_requested_atomic is stored in    *)
(* the critical sections that set gc_requested, so one variable stands for *)
(* both.                                                                   *)
(***************************************************************************)
EXTENDS Naturals, FiniteSets

CONSTANTS
  Threads,       \* every OS thread that may ever own an interpreter
  Parallel,      \* Runtime::parallel (POLY_PARALLEL=1)
  SpawnMayFail,  \* the operating system may refuse a thread
  Resumable      \* a run may stop at its step budget and be resumed (Session::run)

ASSUME SchedAssumption ==
  /\ IsFiniteSet(Threads)
  /\ Parallel \in BOOLEAN
  /\ SpawnMayFail \in BOOLEAN
  /\ Resumable \in BOOLEAN

VARIABLES
  pc,              \* where each thread is
  registry,        \* SchedInner::registry
  in_ml,           \* ThreadHandle::in_ml
  parked_roots,    \* ThreadHandle::parked_roots: what is published
  running,         \* SchedInner::running
  waiters,         \* SchedInner::waiters
  gc_requested,    \* SchedInner::gc_requested and its lock-free mirror
  mutator_wake,    \* threads asleep on SchedState::mutator_wake
  collector_wake,  \* threads asleep on SchedState::collector_wake
  snap,            \* the handles whose parked_roots guard gc() holds
  field_stale,     \* threads whose own fields hold from-space addresses
  box_stale        \* threads whose root box holds from-space addresses

lockVars  == <<running, waiters, gc_requested>>
wakeVars  == <<mutator_wake, collector_wake>>
staleVars == <<field_stale, box_stale>>
vars == <<pc, registry, in_ml, parked_roots, lockVars, wakeVars, snap, staleVars>>

\* The places of a thread.  Inside ML memory: "ml" runs bytecode, "cleanup"
\* is fork_thread after a failed spawn, "barrier" to "resume" is request_gc.
InHeap == {"ml", "cleanup", "barrier", "stopped", "collect", "resume"}

\* The acquire loops; those of a thread counted in SchedInner::waiters.
Queued == {"acquire", "keep", "reacquire"}

\* "forked": registered by the parent, not yet started; "unspawned": never to
\* start; "idle" and "paused": between two run_until calls, after a terminal
\* and after a budget-exhausted run; "captured": resuming, with a root box
\* made but not published; "lost": lost the collector election.
Places == InHeap \cup Queued \cup
  {"unborn", "register", "forked", "unspawned", "idle", "paused", "captured",
   "blocked", "handoff", "lost", "exiting", "gone"}

\* "fork" is a ForkRoots box, "quiet" a quiesced ThreadRoots box (the collector
\* does not write it back), "stack" a live one (it does).
Roots == {"none", "fork", "quiet", "stack"}

Init ==
  /\ pc = [t \in Threads |-> "unborn"]
  /\ registry = {}
  /\ in_ml = [t \in Threads |-> FALSE]
  /\ parked_roots = [t \in Threads |-> "none"]
  /\ running = 0
  /\ waiters = 0
  /\ gc_requested = FALSE
  /\ mutator_wake = {}
  /\ collector_wake = {}
  /\ snap = {}
  /\ field_stale = {}
  /\ box_stale = {}

-----------------------------------------------------------------------------
(* Helpers *)

Goto(t, place) == pc' = [pc EXCEPT ![t] = place]
Publish(t, roots) == parked_roots' = [parked_roots EXCEPT ![t] = roots]

\* Mutant of MustWait: newcomers may enter during a collection.
MustWait_IgnoresGC == ~Parallel /\ running > 0

\* The condition of every acquire loop.
MustWait == (~Parallel /\ running > 0) \/ gc_requested

Sleep(t) == mutator_wake' = mutator_wake \cup {t}
NotifyMutators == mutator_wake' = {}
NotifyCollector == collector_wake' = {}

\* Whoever takes the lock announces it: a yielder in its hand-off loop sleeps
\* until running becomes nonzero.
AnnounceTake_Silent == UNCHANGED mutator_wake
AnnounceTake == NotifyMutators

\* Publish, leave ML memory, hand the lock over.
LeaveHeap(t, roots) ==
  /\ Publish(t, roots)
  /\ in_ml' = [in_ml EXCEPT ![t] = FALSE]
  /\ running' = running - 1
  /\ NotifyCollector

\* Retract, enter ML memory.
EnterHeap(t) ==
  /\ Publish(t, "none")
  /\ in_ml' = [in_ml EXCEPT ![t] = TRUE]
  /\ running' = running + 1
  /\ Goto(t, "ml")

\* Take a handle off the registry and drop its box.
Deregister(t) ==
  /\ registry' = registry \ {t}
  /\ in_ml' = [in_ml EXCEPT ![t] = FALSE]
  /\ Publish(t, "none")
  /\ NotifyMutators
  /\ NotifyCollector
  /\ field_stale' = field_stale \ {t}
  /\ box_stale' = box_stale \ {t}

-----------------------------------------------------------------------------
(* Acquiring ML memory *)

\* First run_until of a host interpreter: acquire_running on an unregistered
\* thread.
Register(t) ==
  /\ pc[t] = "unborn"
  /\ Goto(t, "register")
  /\ UNCHANGED <<registry, in_ml, parked_roots, lockVars, wakeVars, snap, staleVars>>

\* A thread that is not registered yet must not join a collection in progress.
RegisterLoop(t) ==
  /\ pc[t] = "register" /\ t \notin mutator_wake
  /\ \/ /\ gc_requested
        /\ Sleep(t)
        /\ UNCHANGED <<pc, registry, parked_roots, waiters, collector_wake>>
     \/ /\ ~gc_requested
        /\ Publish(t, "stack")
        /\ registry' = registry \cup {t}
        /\ waiters' = waiters + 1
        /\ NotifyCollector
        /\ Goto(t, "acquire")
        /\ UNCHANGED mutator_wake
  /\ UNCHANGED <<in_ml, running, gc_requested, snap, staleVars>>

\* Mutant of AcquireKeepPublished: the wait publishes a fresh capture (B1).
AcquireKeepPublished_Recaptures(t) ==
  /\ pc[t] \in {"forked", "idle"}
  /\ Publish(t, "stack")
  /\ in_ml' = [in_ml EXCEPT ![t] = FALSE]
  /\ waiters' = waiters + 1
  /\ NotifyCollector
  /\ Goto(t, "keep")
  /\ UNCHANGED <<registry, running, gc_requested, mutator_wake, snap, staleVars>>

\* A forked child's first acquire, or the next run_until after a terminal one:
\* the box already published stays published.
AcquireKeepPublished(t) ==
  /\ pc[t] \in {"forked", "idle"}
  /\ in_ml' = [in_ml EXCEPT ![t] = FALSE]
  /\ waiters' = waiters + 1
  /\ NotifyCollector
  /\ Goto(t, "keep")
  /\ UNCHANGED <<registry, parked_roots, running, gc_requested, mutator_wake, snap, staleVars>>

\* Resuming a budget-exhausted run: acquire_running boxes a fresh capture of
\* the thread's fields before it takes the scheduler lock ...
ResumeCapture(t) ==
  /\ pc[t] = "paused"
  /\ Goto(t, "captured")
  /\ box_stale' = IF t \in field_stale THEN box_stale \cup {t} ELSE box_stale \ {t}
  /\ UNCHANGED <<registry, in_ml, parked_roots, lockVars, wakeVars, snap, field_stale>>

\* ... and acquire_ml_memory publishes it.  The assignment takes the
\* parked_roots guard, which gc() holds for the handles of its snapshot.
AcquireMLMemory(t) ==
  /\ pc[t] = "captured" /\ t \notin snap
  /\ Publish(t, "stack")
  /\ in_ml' = [in_ml EXCEPT ![t] = FALSE]
  /\ waiters' = waiters + 1
  /\ NotifyCollector
  /\ Goto(t, "acquire")
  /\ UNCHANGED <<registry, running, gc_requested, mutator_wake, snap, staleVars>>

\* The acquire loop.  A kept box is copied back into the thread's fields once
\* the lock is held; every other box is dropped.
AcquireLoop(t) ==
  /\ pc[t] \in Queued /\ t \notin mutator_wake
  /\ \/ /\ MustWait
        /\ Sleep(t)
        /\ IF pc[t] = "reacquire" THEN NotifyCollector ELSE UNCHANGED collector_wake
        /\ UNCHANGED <<pc, in_ml, parked_roots, running, waiters, staleVars>>
     \/ /\ ~MustWait
        /\ waiters' = waiters - 1
        /\ EnterHeap(t)
        /\ AnnounceTake
        /\ field_stale' = IF pc[t] = "keep"
                          THEN (field_stale \ {t}) \cup (box_stale \cap {t})
                          ELSE field_stale
        /\ box_stale' = box_stale \ {t}
        /\ UNCHANGED collector_wake
  /\ UNCHANGED <<registry, gc_requested, snap>>

-----------------------------------------------------------------------------
(* Leaving ML memory *)

\* The end of run_until: the live stack is emptied after a terminal result and
\* published as it is when the step budget ran out.
ReleaseMLMemory(t) ==
  /\ pc[t] = "ml"
  /\ \/ LeaveHeap(t, "quiet") /\ Goto(t, "idle")
     \/ Resumable /\ LeaveHeap(t, "stack") /\ Goto(t, "paused")
  /\ NotifyMutators
  /\ UNCHANGED <<registry, waiters, gc_requested, snap, staleVars>>

\* A blocking RTS call: mutex, condition variable, file descriptor.
ReleaseForBlocking(t) ==
  /\ pc[t] = "ml"
  /\ LeaveHeap(t, "stack")
  /\ NotifyMutators
  /\ Goto(t, "blocked")
  /\ UNCHANGED <<registry, waiters, gc_requested, snap, staleVars>>

Reacquire(t) ==
  /\ pc[t] = "blocked"
  /\ waiters' = waiters + 1
  /\ Goto(t, "reacquire")
  /\ UNCHANGED <<registry, in_ml, parked_roots, running, gc_requested, wakeVars, snap, staleVars>>

\* Mutant of SafepointPark: the poll sits behind the giant-lock-only yield.
SafepointPark_GiantOnly(t) ==
  /\ pc[t] = "ml" /\ gc_requested /\ ~Parallel
  /\ LeaveHeap(t, "stack")
  /\ NotifyMutators
  /\ waiters' = waiters + 1
  /\ Goto(t, "acquire")
  /\ UNCHANGED <<registry, gc_requested, snap, staleVars>>

\* The poll of run_until_impl found gc_requested set.
SafepointPark(t) ==
  /\ pc[t] = "ml" /\ gc_requested
  /\ LeaveHeap(t, "stack")
  /\ NotifyMutators
  /\ waiters' = waiters + 1
  /\ Goto(t, "acquire")
  /\ UNCHANGED <<registry, gc_requested, snap, staleVars>>

\* cooperative_yield and yield_ml_memory; nothing happens without a peer in
\* the queue.  The yielder is not counted in waiters during the hand-off.
Yield(t) ==
  /\ pc[t] = "ml" /\ ~Parallel
  /\ Cardinality(registry) > 1
  /\ waiters > 0
  /\ LeaveHeap(t, "stack")
  /\ NotifyMutators
  /\ Goto(t, "handoff")
  /\ UNCHANGED <<registry, waiters, gc_requested, snap, staleVars>>

\* Mutant of HandoffLoop: the yielder competes for the lock at once.
HandoffLoop_NoWait(t) ==
  /\ pc[t] = "handoff" /\ t \notin mutator_wake
  /\ waiters' = waiters + 1
  /\ Goto(t, "acquire")
  /\ UNCHANGED <<registry, in_ml, parked_roots, running, gc_requested, wakeVars, snap, staleVars>>

HandoffLoop(t) ==
  /\ pc[t] = "handoff" /\ t \notin mutator_wake
  /\ IF waiters > 0 /\ running = 0 /\ ~gc_requested
     THEN /\ Sleep(t)
          /\ UNCHANGED <<pc, waiters>>
     ELSE /\ waiters' = waiters + 1
          /\ Goto(t, "acquire")
          /\ UNCHANGED mutator_wake
  /\ UNCHANGED <<registry, in_ml, parked_roots, running, gc_requested, collector_wake,
                 snap, staleVars>>

\* Mutant of ExitRunning: running is left alone, as in exit_parked.
ExitRunning_KeepsCount(t) ==
  /\ pc[t] = "ml"
  /\ Deregister(t)
  /\ Goto(t, "gone")
  /\ UNCHANGED <<lockVars, snap>>

\* Exit of a thread that holds ML memory: a malformed child, a drop in
\* mid-run.
ExitRunning(t) ==
  /\ pc[t] = "ml"
  /\ Deregister(t)
  /\ running' = running - 1
  /\ Goto(t, "gone")
  /\ UNCHANGED <<waiters, gc_requested, snap>>

\* Exit of a thread between runs; it waits out a collection and leaves running
\* alone.
Exit(t) ==
  /\ pc[t] \in {"idle", "paused"}
  /\ Goto(t, "exiting")
  /\ UNCHANGED <<registry, in_ml, parked_roots, lockVars, wakeVars, snap, staleVars>>

ExitWait(t) ==
  /\ pc[t] = "exiting" /\ t \notin mutator_wake
  /\ gc_requested
  /\ Sleep(t)
  /\ NotifyCollector
  /\ UNCHANGED <<pc, registry, in_ml, parked_roots, lockVars, snap, staleVars>>

ExitParked(t) ==
  /\ pc[t] = "exiting" /\ t \notin mutator_wake
  /\ ~gc_requested
  /\ Deregister(t)
  /\ Goto(t, "gone")
  /\ UNCHANGED <<lockVars, snap>>

-----------------------------------------------------------------------------
(* Forking *)

\* Mutant of PublishAndRegister: a bare registration (H1).
PublishAndRegister_Unpublished(c) ==
  /\ registry' = registry \cup {c}
  /\ field_stale' = field_stale \cup {c}
  /\ UNCHANGED parked_roots

\* fork_thread publishes the child's ForkRoots and registers it while the
\* parent is in ML memory.  The child's own fields hold nothing yet.
PublishAndRegister(c) ==
  /\ Publish(c, "fork")
  /\ registry' = registry \cup {c}
  /\ field_stale' = field_stale \cup {c}

Fork(p, c) ==
  /\ pc[p] = "ml" /\ pc[c] = "unborn"
  /\ PublishAndRegister(c)
  /\ Goto(c, "forked")
  /\ UNCHANGED <<in_ml, lockVars, wakeVars, snap, box_stale>>

\* The spawn fails after the registration: the parent itself runs
\* exit_parked for the child ...
ForkSpawnFails(p, c) ==
  /\ SpawnMayFail
  /\ pc[p] = "ml" /\ pc[c] = "unborn"
  /\ PublishAndRegister(c)
  /\ pc' = [pc EXCEPT ![p] = "cleanup", ![c] = "unspawned"]
  /\ UNCHANGED <<in_ml, lockVars, wakeVars, snap, box_stale>>

\* ... without having left ML memory.
SpawnCleanup(p, c) ==
  /\ pc[p] = "cleanup" /\ p \notin mutator_wake /\ pc[c] = "unspawned"
  /\ \/ /\ gc_requested
        /\ Sleep(p)
        /\ NotifyCollector
        /\ UNCHANGED <<pc, registry, in_ml, parked_roots, staleVars>>
     \/ /\ ~gc_requested
        /\ Deregister(c)
        /\ pc' = [pc EXCEPT ![p] = "ml", ![c] = "gone"]
  /\ UNCHANGED <<lockVars, snap>>

-----------------------------------------------------------------------------
(* Collecting *)

\* request_gc, and the winner of request_gc_parallel.
RequestGC(t) ==
  /\ pc[t] = "ml"
  /\ Parallel => ~gc_requested
  /\ gc_requested' = TRUE
  /\ Goto(t, "barrier")
  /\ UNCHANGED <<registry, in_ml, parked_roots, running, waiters, wakeVars, snap, staleVars>>

\* A loser of the election parks without being counted in waiters and wakes
\* nobody when it resumes.
LoseElection(t) ==
  /\ pc[t] = "ml" /\ Parallel /\ gc_requested
  /\ LeaveHeap(t, "stack")
  /\ Goto(t, "lost")
  /\ UNCHANGED <<registry, waiters, gc_requested, mutator_wake, snap, staleVars>>

LostLoop(t) ==
  /\ pc[t] = "lost" /\ t \notin mutator_wake
  /\ \/ /\ gc_requested
        /\ Sleep(t)
        /\ UNCHANGED <<pc, in_ml, parked_roots, running, box_stale>>
     \/ /\ ~gc_requested
        /\ EnterHeap(t)
        /\ box_stale' = box_stale \ {t}
        /\ UNCHANGED mutator_wake
  /\ UNCHANGED <<registry, waiters, gc_requested, collector_wake, snap, field_stale>>

\* The stop-the-world barrier: every other handle is out of ML memory and has
\* published.
AllParked(t) ==
  \A u \in registry \ {t} : ~in_ml[u] /\ parked_roots[u] # "none"

Barrier(t) ==
  /\ pc[t] = "barrier" /\ t \notin collector_wake
  /\ IF AllParked(t)
     THEN Goto(t, "stopped") /\ UNCHANGED collector_wake
     ELSE collector_wake' = collector_wake \cup {t} /\ UNCHANGED pc
  /\ UNCHANGED <<registry, in_ml, parked_roots, lockVars, mutator_wake, snap, staleVars>>

\* gc() snapshots the registry and locks the published slots, with the
\* scheduler lock free.
Snapshot(t) ==
  /\ pc[t] = "stopped"
  /\ snap' = {u \in registry \ {t} : parked_roots[u] # "none"}
  /\ Goto(t, "collect")
  /\ UNCHANGED <<registry, in_ml, parked_roots, lockVars, wakeVars, staleVars>>

\* Threads that will read their roots back from the published box, not from
\* their own fields.
Kept == {"forked", "unspawned", "idle", "keep"}
KeptBox == {u \in registry : pc[u] \in Kept}

\* The published box is of the kind its thread relies on and was good before.
Forwarded ==
  {u \in snap : /\ parked_roots[u] \in (IF u \in KeptBox THEN {"fork", "quiet"} ELSE {"stack"})
                /\ u \notin box_stale \/ pc[u] = "captured"}

\* The objects move.  A live box is written back into the fields of its
\* thread, a quiesced one or a ForkRoots is not; an unpublished capture and
\* whatever was not forwarded is left behind.
Collect(t) ==
  /\ pc[t] = "collect"
  /\ LET others == registry \ {t}
         lost   == others \ Forwarded
     IN /\ field_stale' = field_stale \cup lost \cup (others \cap KeptBox)
        /\ box_stale' = box_stale \cup lost \cup {u \in others : pc[u] = "captured"}
  /\ snap' = {}
  /\ Goto(t, "resume")
  /\ UNCHANGED <<registry, in_ml, parked_roots, lockVars, wakeVars>>

\* Mutant of FinishGC: the parked mutators are not woken.
FinishGC_Silent(t) ==
  /\ pc[t] = "resume"
  /\ gc_requested' = FALSE
  /\ Goto(t, "ml")
  /\ UNCHANGED <<registry, in_ml, parked_roots, running, waiters, wakeVars, snap, staleVars>>

FinishGC(t) ==
  /\ pc[t] = "resume"
  /\ gc_requested' = FALSE
  /\ NotifyMutators
  /\ Goto(t, "ml")
  /\ UNCHANGED <<registry, in_ml, parked_roots, running, waiters, collector_wake, snap, staleVars>>

-----------------------------------------------------------------------------

\* What a thread does once it is scheduled.
Loops(t) ==
  \/ RegisterLoop(t) \/ AcquireLoop(t) \/ HandoffLoop(t) \/ LostLoop(t) \/ ExitWait(t) \/ ExitParked(t)
  \/ \E c \in Threads : SpawnCleanup(t, c)

Collector(t) == Barrier(t) \/ Snapshot(t) \/ Collect(t) \/ FinishGC(t)

\* What the program, the driver or the outside world decides.
Program(t) ==
  \/ Register(t) \/ AcquireKeepPublished(t) \/ ResumeCapture(t) \/ AcquireMLMemory(t)
  \/ ReleaseMLMemory(t) \/ ReleaseForBlocking(t) \/ Reacquire(t)
  \/ ExitRunning(t) \/ Exit(t) \/ RequestGC(t)
  \/ \E c \in Threads : Fork(t, c) \/ ForkSpawnFails(t, c)

\* What the safepoint poll and the allocation trigger make a runner do.
Safepoint(t) == SafepointPark(t) \/ Yield(t) \/ LoseElection(t)

\* Every thread has exited: the process ends.
Finished ==
  /\ \A t \in Threads : pc[t] = "gone"
  /\ UNCHANGED vars

Next ==
  \/ \E t \in Threads : Program(t) \/ Safepoint(t) \/ Loops(t) \/ Collector(t)
  \/ Finished

Spec == Init /\ [][Next]_vars

(***************************************************************************)
(* Fairness.  A thread that is awake in a loop or inside request_gc gets   *)
(* the processor.  A runner polls after at most 65536 instructions however *)
(* many collections it runs in between, hence SF for the yield.  Nothing   *)
(* is assumed of the program, of the driver or of a blocking system call,  *)
(* and nothing of which of two waiting threads wins the lock.              *)
(***************************************************************************)
Fairness ==
  \A t \in Threads :
    /\ WF_vars(Loops(t))
    /\ WF_vars(Collector(t))
    /\ WF_vars(SafepointPark(t))
    /\ SF_vars(Yield(t))

FairSpec == Spec /\ Fairness

-----------------------------------------------------------------------------
(* Properties *)

\* The shape of the state.
TypeOK ==
  /\ pc \in [Threads -> Places]
  /\ registry \subseteq Threads
  /\ in_ml \in [Threads -> BOOLEAN]
  /\ parked_roots \in [Threads -> Roots]
  /\ running \in Nat
  /\ waiters \in Nat
  /\ gc_requested \in BOOLEAN
  /\ mutator_wake \subseteq Threads
  /\ collector_wake \subseteq Threads
  /\ snap \subseteq Threads
  /\ field_stale \subseteq Threads
  /\ box_stale \subseteq Threads

Runners == {t \in Threads : in_ml[t]}
Waiters == {t \in Threads : pc[t] \in Queued}

\* SchedInner::running counts the threads in ML memory and SchedInner::waiters
\* the queued ones, whatever path each took in or out (the H2 hazard: an exit
\* that decrements for a thread that holds nothing).
LockAccounting ==
  /\ running = Cardinality(Runners)
  /\ waiters = Cardinality(Waiters)

\* The registry invariant: a registered thread has published roots exactly
\* when it is out of ML memory, so the collector can neither skip a stack nor
\* alias a running one (hazards H1, B1, B2).
RegistryInvariant ==
  \A t \in Threads :
    /\ in_ml[t] => t \in registry
    /\ t \in registry => (in_ml[t] <=> parked_roots[t] = "none")

\* A thread in ML memory never holds an address from before the last
\* collection, through forks, parks, quiesced runs and exits.
NoStaleRoots == \A t \in Threads : in_ml[t] => t \notin field_stale

\* The inductive invariant: where a thread is determines its flags, its
\* registration and whether it is published; one thread at most is in
\* request_gc; nobody else is in the heap once the barrier is passed, nor ever
\* in giant-lock mode.
Absent     == {"unborn", "register", "gone"}
Requesting == {"barrier", "stopped", "collect", "resume"}
Moving     == {"stopped", "collect", "resume"}

FlagsFollowPlaces ==
  \A t \in Threads :
    /\ in_ml[t] <=> pc[t] \in InHeap
    /\ t \in registry <=> pc[t] \notin Absent
    /\ parked_roots[t] = "none" <=> pc[t] \in InHeap \cup Absent

OneCollector ==
  /\ gc_requested <=> \E t \in Threads : pc[t] \in Requesting
  /\ \A t, u \in Threads : pc[t] \in Requesting /\ pc[u] \in Requesting => t = u

WorldStopped ==
  \A t, u \in Threads : pc[t] \in Moving /\ pc[u] \in InHeap => t = u

GiantLock ==
  \/ Parallel
  \/ /\ \A t, u \in Threads : pc[t] \in InHeap /\ pc[u] \in InHeap => t = u
     /\ \A t \in Threads : pc[t] # "lost"

SchedInv ==
  /\ TypeOK
  /\ LockAccounting
  /\ FlagsFollowPlaces
  /\ OneCollector
  /\ WorldStopped
  /\ GiantLock

\* What keeps roots fresh where no run is resumed: which box a parked thread
\* relies on, that it is good, and that a collector in motion holds them all.
RootsInv ==
  /\ \A t \in Threads :
       /\ pc[t] \notin {"paused", "captured"}
       /\ pc[t] \in Kept => parked_roots[t] \in {"fork", "quiet"}
       /\ pc[t] \in {"acquire", "reacquire", "blocked", "handoff", "lost"} => parked_roots[t] = "stack"
       /\ pc[t] \notin Kept \cup {"exiting"} => t \notin field_stale
       /\ pc[t] # "exiting" => t \notin box_stale
       /\ pc[t] = "collect" => snap = registry \ {t}

\* The scheduler keeps its promise to the heap.
STW == INSTANCE StopTheWorld
  WITH mutators <- Runners,
       collecting <- {t \in Threads : pc[t] \in Moving}

StopsTheWorld == STW!Spec

\* A requested collection runs and ends: no lost wake-up of the barrier, no
\* circular wait between the collector and a thread it waits for.
CollectionCompletes == gc_requested ~> ~gc_requested

\* From some time on two threads at most are left.
TwoLeft == <>[](Cardinality({t \in Threads : pc[t] \notin {"unborn", "gone"}}) <= 2)

\* Giant mode, two threads left: a queued thread gets the lock whatever the
\* runner does, because the runner's yield insists on the hand-off.
QueuedThreadRuns == TwoLeft => \A t \in Threads : pc[t] \in Queued ~> in_ml[t]

\* Giant mode, two threads left that only compute, yield and collect: both
\* keep getting turns, the one that yielded included, although the one that
\* took the lock never blocks and so never notifies again.
PureComputeTakesTurns ==
  TwoLeft /\ (<>[] \A t \in Threads : pc[t] \in InHeap \cup {"unborn", "acquire", "handoff", "gone"}) =>
    \A t \in Threads : pc[t] \in {"acquire", "handoff"} ~> in_ml[t]

\* Whoever waits on mutator_wake resumes, unless collections follow each other
\* for ever: no wake-up is lost on the way out of a collection.
SleeperResumes ==
  (<>[]~gc_requested) =>
    \A t \in Threads : pc[t] \in Queued \cup {"register", "lost", "exiting"} ~>
                         pc[t] \in {"ml", "gone"}
=============================================================================
