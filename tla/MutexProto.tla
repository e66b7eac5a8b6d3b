----------------------------- MODULE MutexProto -----------------------------
(***************************************************************************)
(* One SML Thread.Mutex under real threads: the word that the opcodes      *)
(* lockMutex, tryLockMutex and atomicReset work on, and the RTS calls      *)
(* PolyThreadMutexBlock and PolyThreadMutexUnlock that park and wake the   *)
(* threads that found it taken (interpreter/mod.rs, try_thread_rts; the    *)
(* event generation is in sched.rs).                                       *)
(*                                                                         *)
(* The SML library calls them so: lock tries the word with an opcode,      *)
(* blocks when that fails, and tries again; unlock resets the word and     *)
(* calls MutexUnlock when the reset says that it was not the only locker.  *)
(* A thread may lose its turn between any two opcodes.  Inside an RTS call *)
(* it is interleaved with its peers only when the runtime is parallel: in  *)
(* giant-lock mode it holds the lock up to the wait.                       *)
(*                                                                         *)
(* block_gen counts events; a waiter compares it only with the value it    *)
(* sampled, so advanced[t] says whether it moved since t sampled it.       *)
(***************************************************************************)
EXTENDS Naturals, FiniteSets

CONSTANTS
  Threads,    \* the SML threads that share the mutex
  Modes,      \* the settings of POLY_PARALLEL that a process may start with
  MayKill,    \* Thread.kill is used
  MaxWord     \* bound: failed lockMutex attempts counted in the word

ASSUME MutexProtoAssumption ==
  /\ IsFiniteSet(Threads)
  /\ Modes \subseteq BOOLEAN
  /\ MayKill \in BOOLEAN
  /\ MaxWord \in Nat /\ MaxWord >= 2

VARIABLES
  parallel,  \* Runtime::parallel
  pc,        \* where each thread is
  word,      \* word 0 of the mutex object
  advanced,  \* block_gen moved since the thread sampled it
  killed,    \* ThreadHandle::requests holds KILL
  winners    \* history: who got the lock since the word was last reset

vars == <<parallel, pc, word, advanced, killed, winners>>

\* Bytecode between two opcodes: "out" of the critical section, "want"ing the
\* lock, "failed" lockMutex, "in" the critical section, "contended" after an
\* atomicReset that answered false.
Bytecode == {"out", "want", "failed", "in", "contended"}

\* Inside MutexBlock before the wait, inside MutexUnlock, inside KillThread.
\* They hold ML memory.
InCall == {"block", "sampled", "notify", "signal"}

Places == Bytecode \cup InCall \cup {"waiting", "gone"}

Init ==
  /\ parallel \in Modes
  /\ pc = [t \in Threads |-> "out"]
  /\ word = 0
  /\ advanced = [t \in Threads |-> FALSE]
  /\ killed = [t \in Threads |-> FALSE]
  /\ winners = {}

-----------------------------------------------------------------------------
(* Helpers *)

Goto(t, place) == pc' = [pc EXCEPT ![t] = place]

\* In giant-lock mode nobody runs beside a thread inside a call.
MayRun(t) == parallel \/ \A u \in Threads \ {t} : pc[u] \notin InCall

Alone(t) == \A u \in Threads \ {t} : pc[u] = "gone"

\* Count one more event and wake every waiter.
NotifyBlockEvent == advanced' = [t \in Threads |-> TRUE]

\* Store TAGGED(0) into the word, whoever holds it.
ResetWord == word' = 0 /\ winners' = {}

-----------------------------------------------------------------------------
(* The opcodes *)

Want(t) ==
  /\ pc[t] = "out" /\ MayRun(t)
  /\ Goto(t, "want")
  /\ UNCHANGED <<word, advanced, killed, winners, parallel>>

\* tryLockMutex: compare-exchange from unlocked.
TryLock(t) ==
  /\ pc[t] = "want" /\ MayRun(t)
  /\ word = 0
  /\ word' = 1
  /\ winners' = winners \cup {t}
  /\ Goto(t, "in")
  /\ UNCHANGED <<advanced, killed, parallel>>

\* Mutant of LockMutex: the old value is tested for "not contended".
LockMutex_OffByOne(t) ==
  /\ pc[t] = "want" /\ MayRun(t) /\ word < MaxWord
  /\ word' = word + 1
  /\ IF word <= 1
     THEN winners' = winners \cup {t} /\ Goto(t, "in")
     ELSE UNCHANGED winners /\ Goto(t, "failed")
  /\ UNCHANGED <<advanced, killed, parallel>>

\* lockMutex: fetch-and-add; the lock is ours when the old value was unlocked.
LockMutex(t) ==
  /\ pc[t] = "want" /\ MayRun(t) /\ word < MaxWord
  /\ word' = word + 1
  /\ IF word = 0
     THEN winners' = winners \cup {t} /\ Goto(t, "in")
     ELSE UNCHANGED winners /\ Goto(t, "failed")
  /\ UNCHANGED <<advanced, killed, parallel>>

\* Mutant of AtomicReset: one failed attempt does not make it contended.
AtomicReset_OffByOne(t) ==
  /\ pc[t] = "in" /\ MayRun(t)
  /\ ResetWord
  /\ Goto(t, IF word <= 2 THEN "out" ELSE "contended")
  /\ UNCHANGED <<advanced, killed, parallel>>

\* atomicReset: swap; true when we were the only locker.
AtomicReset(t) ==
  /\ pc[t] = "in" /\ MayRun(t)
  /\ ResetWord
  /\ Goto(t, IF word = 1 THEN "out" ELSE "contended")
  /\ UNCHANGED <<advanced, killed, parallel>>

-----------------------------------------------------------------------------
(* PolyThreadMutexUnlock *)

\* The RTS side stores TAGGED(0) once more ...
UnlockReset(t) ==
  /\ pc[t] = "contended" /\ MayRun(t)
  /\ ResetWord
  /\ Goto(t, "notify")
  /\ UNCHANGED <<advanced, killed, parallel>>

\* ... and signals the event.
UnlockNotify(t) ==
  /\ pc[t] = "notify" /\ MayRun(t)
  /\ NotifyBlockEvent
  /\ Goto(t, "out")
  /\ UNCHANGED <<word, killed, winners, parallel>>

-----------------------------------------------------------------------------
(* PolyThreadMutexBlock *)

\* A thread with no live peer falls back to the single-threaded stub, which
\* resets the word.  A killed thread does not wait.
BlockEnter(t) ==
  /\ pc[t] = "failed" /\ MayRun(t)
  /\ \/ /\ Alone(t)
        /\ ResetWord
        /\ Goto(t, "want")
     \/ /\ ~Alone(t)
        /\ Goto(t, IF killed[t] THEN "gone" ELSE "block")
        /\ UNCHANGED <<word, winners>>
  /\ IF killed[t] /\ ~Alone(t) THEN NotifyBlockEvent ELSE UNCHANGED advanced
  /\ UNCHANGED <<killed, parallel>>

\* Sample the generation ...
BlockSample(t) ==
  /\ pc[t] = "block" /\ MayRun(t)
  /\ advanced' = [advanced EXCEPT ![t] = FALSE]
  /\ Goto(t, "sampled")
  /\ UNCHANGED <<word, killed, winners, parallel>>

\* ... then look at the word again: unlocked, then no wait is needed.
\* Otherwise publish, leave ML memory and wait for the generation to move.
BlockRecheck(t) ==
  /\ pc[t] = "sampled" /\ MayRun(t)
  /\ \/ /\ word = 0
        /\ IF killed[t] THEN Goto(t, "gone") /\ NotifyBlockEvent
                        ELSE Goto(t, "want") /\ UNCHANGED advanced
     \/ /\ word # 0
        /\ Goto(t, "waiting")
        /\ UNCHANGED advanced
  /\ UNCHANGED <<word, killed, winners, parallel>>

\* The wait is over: reacquire, deliver a pending kill or try the lock again.
BlockReturn(t) ==
  /\ pc[t] = "waiting" /\ advanced[t] /\ MayRun(t)
  /\ IF killed[t] THEN Goto(t, "gone") /\ NotifyBlockEvent
                  ELSE Goto(t, "want") /\ UNCHANGED advanced
  /\ UNCHANGED <<word, killed, winners, parallel>>

-----------------------------------------------------------------------------
(* Kills and exits *)

\* PolyThreadKillThread: raise the request ...
KillThread(t, u) ==
  /\ MayKill
  /\ pc[t] = "out" /\ MayRun(t)
  /\ pc[u] # "gone" /\ ~killed[u]
  /\ killed' = [killed EXCEPT ![u] = TRUE]
  /\ Goto(t, "signal")
  /\ UNCHANGED <<word, advanced, winners, parallel>>

\* Mutant of KillSignal: the target is not woken.
KillSignal_Silent(t) ==
  /\ pc[t] = "signal" /\ MayRun(t)
  /\ Goto(t, "out")
  /\ UNCHANGED <<word, advanced, killed, winners, parallel>>

\* ... then wake whoever is blocked.
KillSignal(t) ==
  /\ pc[t] = "signal" /\ MayRun(t)
  /\ NotifyBlockEvent
  /\ Goto(t, "out")
  /\ UNCHANGED <<word, killed, winners, parallel>>

\* The safepoint poll delivers a kill; the run loop ends and the exit is an
\* event.  The mutex is not released.
Poll(t) ==
  /\ pc[t] \in Bytecode /\ killed[t] /\ MayRun(t)
  /\ NotifyBlockEvent
  /\ Goto(t, "gone")
  /\ UNCHANGED <<word, killed, winners, parallel>>

\* The thread function returns: PolyThreadKillSelf.
KillSelf(t) ==
  /\ pc[t] = "out" /\ MayRun(t)
  /\ NotifyBlockEvent
  /\ Goto(t, "gone")
  /\ UNCHANGED <<word, killed, winners, parallel>>

-----------------------------------------------------------------------------

Lock(t)   == TryLock(t) \/ LockMutex(t)
Block(t)  == BlockEnter(t) \/ BlockSample(t) \/ BlockRecheck(t) \/ BlockReturn(t)
Unlock(t) == AtomicReset(t) \/ UnlockReset(t) \/ UnlockNotify(t)
Kill(t)   == KillSignal(t) \/ \E u \in Threads : KillThread(t, u)

Finished == (\A t \in Threads : pc[t] = "gone") /\ UNCHANGED vars

Next ==
  \/ \E t \in Threads : Want(t) \/ Lock(t) \/ Block(t) \/ Unlock(t) \/ Kill(t) \/ Poll(t) \/ KillSelf(t)
  \/ Finished

Spec == Init /\ [][Next]_vars

(***************************************************************************)
(* A call runs to its end, a woken thread runs, a kill is polled for and a *)
(* critical section ends.  That the critical sections end is the SML       *)
(* program's business.  SF because in giant-lock mode a thread gets its    *)
(* turn between the calls of its peers.                                    *)
(***************************************************************************)
Fairness ==
  \A t \in Threads : SF_vars(Block(t) \/ Unlock(t) \/ KillSignal(t) \/ Poll(t))

FairSpec == Spec /\ Fairness

-----------------------------------------------------------------------------
(* Properties *)

\* The shape of the state; the word never counts below unlocked.
TypeOK ==
  /\ parallel \in Modes
  /\ pc \in [Threads -> Places]
  /\ word \in 0..MaxWord
  /\ advanced \in [Threads -> BOOLEAN]
  /\ killed \in [Threads -> BOOLEAN]
  /\ winners \subseteq Threads

Asleep(t) == pc[t] = "waiting" /\ ~advanced[t]

\* However many threads race on an unlocked word with tryLockMutex and
\* lockMutex, one of them gets it; the others learn that they did not.
OneWinnerPerReset ==
  /\ Cardinality(winners) <= 1
  /\ word = 0 <=> winners = {}

\* A waiter that sleeps on a contended word is woken while somebody is in the
\* critical section: the unlock that follows learns of it from the word that
\* it swaps out, and a killed owner's exit is an event.
ContendedSleeperWakes ==
  \A t \in Threads :
    (Asleep(t) /\ word > 1 /\ \E u \in Threads : pc[u] = "in") ~> ~Asleep(t)

\* In giant-lock mode a sleeping thread has not been killed, or its killer is
\* about to wake it: a kill never waits for somebody to unlock.
KillReachesSleeper ==
  ~parallel =>
    \A t \in Threads : Asleep(t) /\ killed[t] => \E u \in Threads : pc[u] = "signal"

\* Two threads are never inside the critical section.
MutualExclusion == \A t, u \in Threads : pc[t] = "in" /\ pc[u] = "in" => t = u

\* Nobody sleeps through the unlock: when the word is unlocked every waiter is
\* awake or the unlocker has still to signal.
NoSleepThroughUnlock ==
  (\E t \in Threads : Asleep(t)) /\ word = 0 =>
    \E u \in Threads : pc[u] \in {"contended", "notify"}
=============================================================================
