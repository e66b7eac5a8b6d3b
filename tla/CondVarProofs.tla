---------------------------- MODULE CondVarProofs ----------------------------
(***************************************************************************)
(* No signal and no request is slept through, for every set of threads and *)
(* in both modes.  CondVarInv is the inductive invariant: who is between   *)
(* which two steps of its call has the mutex, is on the list, has counted  *)
(* so many events.                                                         *)
(***************************************************************************)
EXTENDS CondVar, TLAPS

USE DEF vars, smlVars, Goto, NotifyBlockEvent, Bumped

\* A step of one thread.
Step(t) ==
  \/ Lock(t) \/ Wait(t) \/ InWait(t) \/ InOther(t) \/ TestInterrupt(t) \/ KillSelf(t)
  \/ \E u \in Threads : Wake(t, u) \/ \E req \in {"interrupt", "kill"} : MakeRequest(t, u, req)

\* From taking the mutex to giving it back a thread is its holder, also inside
\* CondVarWait up to reset_mutex_word and inside CondVarWake.
HoldersHold ==
  \A t \in Threads : pc[t] \in {"locked", "sample", "release", "wake"} => holder = {t}

\* Whoever is on the wait list is in its wait, or its run ended there.
WaitersWait ==
  \A t \in waiting :
    pc[t] \in {"sample", "release", "announce", "check", "asleep", "relock", "gone"}

\* A thread about to sleep has counted its own announcement.
AnnouncementCounts ==
  \A t \in Threads : pc[t] \in {"check", "asleep"} => bumps[t] >= 1

\* A signal finds its waiter behind the release of the mutex, and its event is
\* counted on top of the announcement.
SignalCounts ==
  \A t \in signalled :
    /\ pc[t] \in {"announce", "check", "asleep", "relock", "gone"}
    /\ pc[t] = "announce" => bumps[t] >= 1
    /\ pc[t] \in {"check", "asleep"} => bumps[t] = 2

CondVarInv ==
  /\ TypeOK
  /\ HoldersHold
  /\ WaitersWait
  /\ AnnouncementCounts
  /\ SignalCounts
  /\ RequestReachesWaiter

\* Nobody is in a call at the start.
LEMMA CondVarInit == Init => CondVarInv
BY DEF Init, CondVarInv, TypeOK, Places, Bytecode, InCall, Requests, HoldersHold, WaitersWait,
       AnnouncementCounts, SignalCounts, RequestReachesWaiter, Asleep

\* The opcodes and the calls keep the types.
LEMMA TypeStep ==
  ASSUME CondVarInv, NEW t \in Threads, Step(t)
  PROVE  TypeOK'
<1> USE DEF CondVarInv, TypeOK, Places, Bytecode, InCall, Requests
<1>1. CASE Lock(t) BY <1>1 DEF Lock
<1>2. CASE Leave(t) BY <1>2 DEF Leave
<1>3. CASE Wait(t) BY <1>3 DEF Wait
<1>4. CASE Recheck(t) BY <1>4 DEF Recheck
<1>5. CASE Sample(t) BY <1>5 DEF Sample, Alone
<1>6. CASE Release(t) BY <1>6 DEF Release
<1>7. CASE Announce(t) BY <1>7 DEF Announce
<1>8. CASE Check(t) BY <1>8 DEF Check, End
<1>9. CASE Return(t) BY <1>9 DEF Return, End
<1>10. CASE WakeNotify(t) BY <1>10 DEF WakeNotify
<1>11. CASE SignalRequest(t) BY <1>11 DEF SignalRequest
<1>12. CASE Poll(t) BY <1>12 DEF Poll, End
<1>13. CASE TestInterrupt(t) BY <1>13 DEF TestInterrupt
<1>14. CASE KillSelf(t) BY <1>14 DEF KillSelf, End
<1>15. ASSUME NEW u \in Threads, Wake(t, u) PROVE TypeOK'
  BY <1>15 DEF Wake, CanTake
<1>16. ASSUME NEW u \in Threads, NEW req \in {"interrupt", "kill"}, MakeRequest(t, u, req)
      PROVE  TypeOK'
  BY <1>16 DEF MakeRequest
<1> QED
  BY <1>1, <1>2, <1>3, <1>4, <1>5, <1>6, <1>7, <1>8, <1>9, <1>10,
     <1>11, <1>12, <1>13, <1>14, <1>15, <1>16
  DEF Step, InWait, InOther

\* The mutex excludes, and only those that gave it back or never took it run
\* without it.
LEMMA MutexStep ==
  ASSUME CondVarInv, NEW t \in Threads, Step(t)
  PROVE  HoldersHold'
<1> USE DEF CondVarInv, TypeOK, HoldersHold, Bytecode
<1>1. CASE Lock(t) BY <1>1 DEF Lock
<1>2. CASE Leave(t) BY <1>2 DEF Leave
<1>3. CASE Wait(t) BY <1>3 DEF Wait
<1>4. CASE Recheck(t) BY <1>4 DEF Recheck
<1>5. CASE Sample(t) BY <1>5 DEF Sample, Alone
<1>6. CASE Release(t) BY <1>6 DEF Release
<1>7. CASE Announce(t) BY <1>7 DEF Announce
<1>8. CASE Check(t) BY <1>8 DEF Check, End
<1>9. CASE Return(t) BY <1>9 DEF Return, End
<1>10. CASE WakeNotify(t) BY <1>10 DEF WakeNotify
<1>11. CASE SignalRequest(t) BY <1>11 DEF SignalRequest
<1>12. CASE Poll(t) BY <1>12 DEF Poll, End
<1>13. CASE TestInterrupt(t) BY <1>13 DEF TestInterrupt
<1>14. CASE KillSelf(t) BY <1>14 DEF KillSelf, End
<1>15. ASSUME NEW u \in Threads, Wake(t, u) PROVE HoldersHold'
  BY <1>15 DEF Wake, CanTake
<1>16. ASSUME NEW u \in Threads, NEW req \in {"interrupt", "kill"}, MakeRequest(t, u, req)
      PROVE  HoldersHold'
  BY <1>16 DEF MakeRequest
<1> QED
  BY <1>1, <1>2, <1>3, <1>4, <1>5, <1>6, <1>7, <1>8, <1>9, <1>10,
     <1>11, <1>12, <1>13, <1>14, <1>15, <1>16
  DEF Step, InWait, InOther

\* A waiter leaves the list when its wait is over and not before.
LEMMA ListStep ==
  ASSUME CondVarInv, NEW t \in Threads, Step(t)
  PROVE  WaitersWait'
<1> USE DEF CondVarInv, TypeOK, WaitersWait, Bytecode
<1>1. CASE Lock(t) BY <1>1 DEF Lock
<1>2. CASE Leave(t) BY <1>2 DEF Leave
<1>3. CASE Wait(t) BY <1>3 DEF Wait
<1>4. CASE Recheck(t) BY <1>4 DEF Recheck
<1>5. CASE Sample(t) BY <1>5 DEF Sample, Alone
<1>6. CASE Release(t) BY <1>6 DEF Release
<1>7. CASE Announce(t) BY <1>7 DEF Announce
<1>8. CASE Check(t) BY <1>8 DEF Check, End
<1>9. CASE Return(t) BY <1>9 DEF Return, End
<1>10. CASE WakeNotify(t) BY <1>10 DEF WakeNotify
<1>11. CASE SignalRequest(t) BY <1>11 DEF SignalRequest
<1>12. CASE Poll(t) BY <1>12 DEF Poll, End
<1>13. CASE TestInterrupt(t) BY <1>13 DEF TestInterrupt
<1>14. CASE KillSelf(t) BY <1>14 DEF KillSelf, End
<1>15. ASSUME NEW u \in Threads, Wake(t, u) PROVE WaitersWait'
  BY <1>15 DEF Wake, CanTake
<1>16. ASSUME NEW u \in Threads, NEW req \in {"interrupt", "kill"}, MakeRequest(t, u, req)
      PROVE  WaitersWait'
  BY <1>16 DEF MakeRequest
<1> QED
  BY <1>1, <1>2, <1>3, <1>4, <1>5, <1>6, <1>7, <1>8, <1>9, <1>10,
     <1>11, <1>12, <1>13, <1>14, <1>15, <1>16
  DEF Step, InWait, InOther

\* No event is uncounted between the sample and the sleep.
LEMMA CountStep ==
  ASSUME CondVarInv, NEW t \in Threads, Step(t)
  PROVE  AnnouncementCounts'
<1> USE DEF CondVarInv, TypeOK, AnnouncementCounts, Bytecode
<1>1. CASE Lock(t) BY <1>1 DEF Lock
<1>2. CASE Leave(t) BY <1>2 DEF Leave
<1>3. CASE Wait(t) BY <1>3 DEF Wait
<1>4. CASE Recheck(t) BY <1>4 DEF Recheck
<1>5. CASE Sample(t) BY <1>5 DEF Sample, Alone
<1>6. CASE Release(t) BY <1>6 DEF Release
<1>7. CASE Announce(t) BY <1>7 DEF Announce
<1>8. CASE Check(t) BY <1>8 DEF Check, End
<1>9. CASE Return(t) BY <1>9 DEF Return, End
<1>10. CASE WakeNotify(t) BY <1>10 DEF WakeNotify
<1>11. CASE SignalRequest(t) BY <1>11 DEF SignalRequest
<1>12. CASE Poll(t) BY <1>12 DEF Poll, End
<1>13. CASE TestInterrupt(t) BY <1>13 DEF TestInterrupt
<1>14. CASE KillSelf(t) BY <1>14 DEF KillSelf, End
<1>15. ASSUME NEW u \in Threads, Wake(t, u) PROVE AnnouncementCounts'
  BY <1>15 DEF Wake, CanTake
<1>16. ASSUME NEW u \in Threads, NEW req \in {"interrupt", "kill"}, MakeRequest(t, u, req)
      PROVE  AnnouncementCounts'
  BY <1>16 DEF MakeRequest
<1> QED
  BY <1>1, <1>2, <1>3, <1>4, <1>5, <1>6, <1>7, <1>8, <1>9, <1>10,
     <1>11, <1>12, <1>13, <1>14, <1>15, <1>16
  DEF Step, InWait, InOther

\* The signaller holds the mutex, so that its target is behind the release: the
\* sample that the target compares with is older than the signal.
LEMMA SignalStep ==
  ASSUME CondVarInv, NEW t \in Threads, Step(t)
  PROVE  SignalCounts'
<1> USE DEF CondVarInv, TypeOK, HoldersHold, WaitersWait, AnnouncementCounts, SignalCounts, Bytecode
<1>1. CASE Lock(t) BY <1>1 DEF Lock
<1>2. CASE Leave(t) BY <1>2 DEF Leave
<1>3. CASE Wait(t) BY <1>3 DEF Wait
<1>4. CASE Recheck(t) BY <1>4 DEF Recheck
<1>5. CASE Sample(t) BY <1>5 DEF Sample, Alone
<1>6. CASE Release(t) BY <1>6 DEF Release
<1>7. CASE Announce(t) BY <1>7 DEF Announce
<1>8. CASE Check(t) BY <1>8 DEF Check, End
<1>9. CASE Return(t) BY <1>9 DEF Return, End
<1>10. CASE WakeNotify(t) BY <1>10 DEF WakeNotify
<1>11. CASE SignalRequest(t) BY <1>11 DEF SignalRequest
<1>12. CASE Poll(t) BY <1>12 DEF Poll, End
<1>13. CASE TestInterrupt(t) BY <1>13 DEF TestInterrupt
<1>14. CASE KillSelf(t) BY <1>14 DEF KillSelf, End
<1>15. ASSUME NEW u \in Threads, Wake(t, u) PROVE SignalCounts'
  BY <1>15 DEF Wake, CanTake
<1>16. ASSUME NEW u \in Threads, NEW req \in {"interrupt", "kill"}, MakeRequest(t, u, req)
      PROVE  SignalCounts'
  BY <1>16 DEF MakeRequest
<1> QED
  BY <1>1, <1>2, <1>3, <1>4, <1>5, <1>6, <1>7, <1>8, <1>9, <1>10,
     <1>11, <1>12, <1>13, <1>14, <1>15, <1>16
  DEF Step, InWait, InOther

\* A request is made before the target looks, or its event comes after the
\* sample.
LEMMA RequestStep ==
  ASSUME CondVarInv, NEW t \in Threads, Step(t)
  PROVE  RequestReachesWaiter'
<1> USE DEF CondVarInv, TypeOK, AnnouncementCounts, RequestReachesWaiter, Asleep, WaitOver, Bytecode
<1>1. CASE Lock(t) BY <1>1 DEF Lock
<1>2. CASE Leave(t) BY <1>2 DEF Leave
<1>3. CASE Wait(t) BY <1>3 DEF Wait
<1>4. CASE Recheck(t) BY <1>4 DEF Recheck
<1>5. CASE Sample(t) BY <1>5 DEF Sample, Alone
<1>6. CASE Release(t) BY <1>6 DEF Release
<1>7. CASE Announce(t) BY <1>7 DEF Announce
<1>8. CASE Check(t) BY <1>8 DEF Check, End
<1>9. CASE Return(t) BY <1>9 DEF Return, End
<1>10. CASE WakeNotify(t) BY <1>10 DEF WakeNotify
<1>11. CASE SignalRequest(t) BY <1>11 DEF SignalRequest
<1>12. CASE Poll(t) BY <1>12 DEF Poll, End
<1>13. CASE TestInterrupt(t) BY <1>13 DEF TestInterrupt
<1>14. CASE KillSelf(t) BY <1>14 DEF KillSelf, End
<1>15. ASSUME NEW u \in Threads, Wake(t, u) PROVE RequestReachesWaiter'
  BY <1>15 DEF Wake, CanTake
<1>16. ASSUME NEW u \in Threads, NEW req \in {"interrupt", "kill"}, MakeRequest(t, u, req)
      PROVE  RequestReachesWaiter'
  BY <1>16 DEF MakeRequest
<1> QED
  BY <1>1, <1>2, <1>3, <1>4, <1>5, <1>6, <1>7, <1>8, <1>9, <1>10,
     <1>11, <1>12, <1>13, <1>14, <1>15, <1>16
  DEF Step, InWait, InOther

\* The invariant is inductive: no step of any thread breaks a part of it.
LEMMA CondVarStep == CondVarInv /\ [Next]_vars => CondVarInv'
<1> SUFFICES ASSUME CondVarInv, [Next]_vars PROVE CondVarInv'
  OBVIOUS
<1>1. ASSUME NEW t \in Threads, Step(t) PROVE CondVarInv'
  BY <1>1, TypeStep, MutexStep, ListStep, CountStep, SignalStep, RequestStep DEF CondVarInv
<1>2. CASE UNCHANGED vars
  BY <1>2 DEF CondVarInv, TypeOK, HoldersHold, WaitersWait, AnnouncementCounts, SignalCounts,
              RequestReachesWaiter, Asleep, WaitOver
<1> QED BY <1>1, <1>2 DEF Next, Step, Finished

\* So it always holds.
LEMMA CondVarInvariant == Spec => []CondVarInv
BY CondVarInit, CondVarStep, PTL DEF Spec

\* The state keeps its shape: a request stays one of three values and one
\* thread's call never acts on a thread that does not exist.
THEOREM TypeCorrect == Spec => []TypeOK
<1>1. CondVarInv => TypeOK BY DEF CondVarInv
<1> QED BY <1>1, CondVarInvariant, PTL

\* A signal that PolyThreadCondVarWake gave is never slept through, although
\* PolyThreadCondVarWait gives the mutex back before it waits.
THEOREM NoLostSignalAlways == Spec => []NoLostSignal
<1>1. CondVarInv => NoLostSignal
  BY DEF CondVarInv, TypeOK, SignalCounts, NoLostSignal, Asleep, WaitOver
<1> QED BY <1>1, CondVarInvariant, PTL

\* An interrupt or a kill is never slept through: PolyThreadCondVarWait sees it
\* before the wait, or the requester has still to signal its event.
THEOREM RequestReachesWaiterAlways == Spec => []RequestReachesWaiter
<1>1. CondVarInv => RequestReachesWaiter BY DEF CondVarInv
<1> QED BY <1>1, CondVarInvariant, PTL
=============================================================================
