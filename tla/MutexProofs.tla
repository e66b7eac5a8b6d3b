---------------------------- MODULE MutexProofs ----------------------------
(***************************************************************************)
(* One winner per reset of the word, in both modes, and in giant-lock mode *)
(* no kill is slept through: for every finite set of threads and every     *)
(* bound on the word.  MutexInv is the inductive invariant.                *)
(***************************************************************************)
EXTENDS MutexProto, FiniteSetTheorems, TLAPS

USE DEF vars, Goto, NotifyBlockEvent, ResetWord

\* A step of one thread.
Step(t) == Want(t) \/ Lock(t) \/ Block(t) \/ Unlock(t) \/ Kill(t) \/ Poll(t) \/ KillSelf(t)

\* The word says whether there is a winner, and there is one at most.
WordKnowsWinner ==
  /\ word = 0 <=> winners = {}
  /\ \A t, u \in winners : t = u

\* In giant-lock mode one thread at most is inside a call, and one on its way
\* into the wait was not killed when it entered, nor since.
CallsExclude ==
  ~parallel =>
    /\ \A t, u \in Threads : pc[t] \in InCall /\ pc[u] \in InCall => t = u
    /\ \A t \in Threads : pc[t] \in {"block", "sampled"} => ~killed[t]

MutexInv == TypeOK /\ WordKnowsWinner /\ CallsExclude /\ KillReachesSleeper

\* At the start the word is unlocked and nobody is in a call.
LEMMA MutexInit == Init => MutexInv
BY MutexProtoAssumption
DEF Init, MutexInv, TypeOK, Places, Bytecode, InCall, WordKnowsWinner, CallsExclude,
    KillReachesSleeper, Asleep

\* The opcodes and the calls keep the types; no count passes MaxWord.
LEMMA TypeStep ==
  ASSUME MutexInv, NEW t \in Threads, Step(t)
  PROVE  TypeOK'
<1> USE MutexProtoAssumption DEF MutexInv, TypeOK, Places, Bytecode, InCall
<1>1. CASE Want(t) BY <1>1 DEF Want
<1>2. CASE TryLock(t) BY <1>2 DEF TryLock
<1>3. CASE LockMutex(t) BY <1>3 DEF LockMutex
<1>4. CASE BlockEnter(t)
  <2>1. pc' \in [Threads -> Places] BY <1>4 DEF BlockEnter
  <2>2. advanced' \in [Threads -> BOOLEAN] BY <1>4 DEF BlockEnter
  <2>3. word' \in 0..MaxWord /\ winners' \subseteq Threads BY <1>4 DEF BlockEnter
  <2> QED BY <1>4, <2>1, <2>2, <2>3 DEF BlockEnter
<1>5. CASE BlockSample(t) BY <1>5 DEF BlockSample
<1>6. CASE BlockRecheck(t) BY <1>6 DEF BlockRecheck
<1>7. CASE BlockReturn(t) BY <1>7 DEF BlockReturn
<1>8. CASE AtomicReset(t) BY <1>8 DEF AtomicReset
<1>9. CASE UnlockReset(t) BY <1>9 DEF UnlockReset
<1>10. CASE UnlockNotify(t) BY <1>10 DEF UnlockNotify
<1>11. ASSUME NEW u \in Threads, KillThread(t, u) PROVE TypeOK'
  BY <1>11 DEF KillThread
<1>12. CASE KillSignal(t) BY <1>12 DEF KillSignal
<1>13. CASE Poll(t) BY <1>13 DEF Poll
<1>14. CASE KillSelf(t) BY <1>14 DEF KillSelf
<1> QED
  BY <1>1, <1>2, <1>3, <1>4, <1>5, <1>6, <1>7, <1>8, <1>9, <1>10, <1>11, <1>12, <1>13, <1>14
  DEF Step, Lock, Block, Unlock, Kill

\* Whoever takes the word found it unlocked, and a reset forgets the winner.
LEMMA WinnerStep ==
  ASSUME MutexInv, NEW t \in Threads, Step(t)
  PROVE  WordKnowsWinner'
<1> USE MutexProtoAssumption DEF MutexInv, TypeOK, WordKnowsWinner
<1>1. CASE Want(t) BY <1>1 DEF Want
<1>2. CASE TryLock(t) BY <1>2 DEF TryLock
<1>3. CASE LockMutex(t) BY <1>3 DEF LockMutex
<1>4. CASE BlockEnter(t) BY <1>4 DEF BlockEnter
<1>5. CASE BlockSample(t) BY <1>5 DEF BlockSample
<1>6. CASE BlockRecheck(t) BY <1>6 DEF BlockRecheck
<1>7. CASE BlockReturn(t) BY <1>7 DEF BlockReturn
<1>8. CASE AtomicReset(t) BY <1>8 DEF AtomicReset
<1>9. CASE UnlockReset(t) BY <1>9 DEF UnlockReset
<1>10. CASE UnlockNotify(t) BY <1>10 DEF UnlockNotify
<1>11. ASSUME NEW u \in Threads, KillThread(t, u) PROVE WordKnowsWinner'
  BY <1>11 DEF KillThread
<1>12. CASE KillSignal(t) BY <1>12 DEF KillSignal
<1>13. CASE Poll(t) BY <1>13 DEF Poll
<1>14. CASE KillSelf(t) BY <1>14 DEF KillSelf
<1> QED
  BY <1>1, <1>2, <1>3, <1>4, <1>5, <1>6, <1>7, <1>8, <1>9, <1>10, <1>11, <1>12, <1>13, <1>14
  DEF Step, Lock, Block, Unlock, Kill

\* In giant-lock mode a thread runs only while nobody else is inside a call,
\* so that a kill comes before the thread enters the wait or after it left ML
\* memory; and the killer keeps its turn until it has signalled.
LEMMA KillStep ==
  ASSUME MutexInv, NEW t \in Threads, Step(t)
  PROVE  (CallsExclude /\ KillReachesSleeper)'
<1> USE DEF MutexInv, TypeOK, CallsExclude, KillReachesSleeper, Asleep, MayRun, Bytecode, InCall
<1>1. CASE Want(t) BY <1>1 DEF Want
<1>2. CASE TryLock(t) BY <1>2 DEF TryLock
<1>3. CASE LockMutex(t) BY <1>3 DEF LockMutex
<1>4. CASE BlockEnter(t) BY <1>4 DEF BlockEnter
<1>5. CASE BlockSample(t) BY <1>5 DEF BlockSample
<1>6. CASE BlockRecheck(t) BY <1>6 DEF BlockRecheck
<1>7. CASE BlockReturn(t) BY <1>7 DEF BlockReturn
<1>8. CASE AtomicReset(t) BY <1>8 DEF AtomicReset
<1>9. CASE UnlockReset(t) BY <1>9 DEF UnlockReset
<1>10. CASE UnlockNotify(t) BY <1>10 DEF UnlockNotify
<1>11. ASSUME NEW u \in Threads, KillThread(t, u) PROVE (CallsExclude /\ KillReachesSleeper)'
  BY <1>11 DEF KillThread
<1>12. CASE KillSignal(t) BY <1>12 DEF KillSignal
<1>13. CASE Poll(t) BY <1>13 DEF Poll
<1>14. CASE KillSelf(t) BY <1>14 DEF KillSelf
<1> QED
  BY <1>1, <1>2, <1>3, <1>4, <1>5, <1>6, <1>7, <1>8, <1>9, <1>10, <1>11, <1>12, <1>13, <1>14
  DEF Step, Lock, Block, Unlock, Kill

\* The invariant is inductive: no opcode and no part of a call breaks it.
LEMMA MutexStep == MutexInv /\ [Next]_vars => MutexInv'
<1> SUFFICES ASSUME MutexInv, [Next]_vars PROVE MutexInv'
  OBVIOUS
<1>1. ASSUME NEW t \in Threads, Step(t) PROVE MutexInv'
  BY <1>1, TypeStep, WinnerStep, KillStep DEF MutexInv
<1>2. CASE UNCHANGED vars
  BY <1>2 DEF MutexInv, TypeOK, WordKnowsWinner, CallsExclude, KillReachesSleeper, Asleep
<1> QED BY <1>1, <1>2 DEF Next, Step, Finished

\* So it always holds.
LEMMA MutexInvariant == Spec => []MutexInv
BY MutexInit, MutexStep, PTL DEF Spec

\* The state keeps its shape: in particular the word never counts below
\* unlocked, however resets and counted attempts interleave.
THEOREM TypeCorrect == Spec => []TypeOK
<1>1. MutexInv => TypeOK BY DEF MutexInv
<1> QED BY <1>1, MutexInvariant, PTL

\* However many threads race on an unlocked word with tryLockMutex and
\* lockMutex, one of them gets it.
THEOREM OneWinnerAlways == Spec => []OneWinnerPerReset
<1>1. MutexInv => OneWinnerPerReset
  <2> SUFFICES ASSUME MutexInv PROVE Cardinality(winners) <= 1
    BY DEF MutexInv, WordKnowsWinner, OneWinnerPerReset
  <2>1. CASE winners = {} BY <2>1, FS_EmptySet
  <2>2. CASE winners # {}
    <3>1. PICK t \in winners : winners = {t}
      BY <2>2 DEF MutexInv, WordKnowsWinner
    <3>2. Cardinality({t}) = 1 BY FS_Singleton
    <3> QED BY <3>1, <3>2
  <2> QED BY <2>1, <2>2
<1> QED BY <1>1, MutexInvariant, PTL

\* In giant-lock mode PolyThreadKillThread reaches a thread asleep in
\* PolyThreadMutexBlock without anybody's unlock.
THEOREM KillReachesSleeperAlways == Spec => []KillReachesSleeper
<1>1. MutexInv => KillReachesSleeper BY DEF MutexInv
<1> QED BY <1>1, MutexInvariant, PTL
=============================================================================
