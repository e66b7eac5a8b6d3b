--------------------------- MODULE RequestsProofs ---------------------------
(***************************************************************************)
(* Kills stick, the mirror shows the request, the exit code gets to the    *)
(* main thread: for every set of threads, of codes, of interrupt states    *)
(* and of operations that the program uses.  RequestsInv is the inductive  *)
(* invariant.                                                              *)
(***************************************************************************)
EXTENDS Requests, FiniteSetTheorems, TLAPS

USE DEF vars, reqVars, endVars, Goto, NotifyBlockEvent

\* A step of one thread.
Step(t) == Running(t) \/ Inside(t) \/ KernelReturn(t)

\* In giant-lock mode one thread at most is inside an instruction or a call;
\* so the flag that it found unset stays unset until it leaves, and so does the
\* request that it consumed.
TurnsExclude ==
  ~parallel =>
    /\ \A t, u \in Threads : pc[t] \in InCall /\ pc[u] \in InCall => t = u
    /\ \A t \in Threads : pc[t] = "op" => finish = {}
    /\ \A t \in Threads : pc[t] = "clear" => request[t] # "interrupt"

\* The flag holds a code asked for, from the first PolyFinish until Main's run
\* has ended; and Main never waits for signals or in the kernel.
FlagStands ==
  /\ finish \subseteq asked
  /\ pc[Main] \notin {"sampled", "asleep", "woken", "kernel"}
  /\ pc[Main] \notin {"ended", "joining", "gone"} /\ asked # {} => finish # {}

RequestsInv == TypeOK /\ TurnsExclude /\ FlagStands /\ MirrorShowsRequest

\* No request is made and no finish asked for at the start.
LEMMA RequestsInit == Init => RequestsInv
BY RequestsAssumption, FS_EmptySet
DEF Init, RequestsInv, TypeOK, Places, InCall, TurnsExclude, FlagStands, MirrorShowsRequest

\* The sets that the finish flag may be.
LEMMA SmallSets == Cardinality({}) <= 1 /\ \A x : Cardinality({x}) <= 1
BY FS_EmptySet, FS_Singleton

\* The interrupt state that a delivery leaves is one of the states.
LEMMA SynchIsAState == parallel \in Modes => "synch" \in States[parallel]
BY RequestsAssumption

\* A run that returns at most one code ends in the shape of the state.
LEMMA EndRunTypes ==
  ASSUME TypeOK, NEW t \in Threads,
         NEW codes, codes \subseteq Codes, Cardinality(codes) <= 1, EndRun(t, codes)
  PROVE  pc' \in [Threads -> Places] /\ result' \subseteq Codes \cup {0} /\ Cardinality(result') <= 1
<1>1. Cardinality({0}) <= 1 BY SmallSets
<1>2. result' \in {result, {0}, codes} BY DEF EndRun
<1>3. pc' = [pc EXCEPT ![t] = "ended"] BY DEF EndRun
<1> QED BY <1>1, <1>2, <1>3 DEF TypeOK, Places

\* The instructions and the calls keep the types; only a thread that sampled
\* the generation counts an event.
LEMMA TypeStep ==
  ASSUME RequestsInv, NEW t \in Threads, Step(t)
  PROVE  TypeOK'
<1> USE SynchIsAState DEF RequestsInv, TypeOK, Places, InCall, Sampling
<1>1. CASE StepFinish(t)
  <2>1. CASE EndRun(t, finish)
    <3>1. pc' \in [Threads -> Places] /\ result' \subseteq Codes \cup {0} /\ Cardinality(result') <= 1
      BY <2>1, EndRunTypes, SmallSets
    <3>2. pc' = [pc EXCEPT ![t] = "ended"] BY <2>1 DEF EndRun
    <3>3. Cardinality(finish') <= 1 /\ finish' \subseteq Codes BY <1>1, SmallSets DEF StepFinish
    <3> QED BY <1>1, <3>1, <3>2, <3>3 DEF StepFinish, Others
  <2>2. CASE ~EndRun(t, finish) BY <1>1, <2>2 DEF StepFinish, Others
  <2> QED BY <2>1, <2>2
<1>2. CASE StepBegin(t) BY <1>2 DEF StepBegin
<1>3. CASE Compute(t) BY <1>3 DEF Compute
<1>4. CASE Return(t)
  <2>1. CASE EndRun(t, {})
    <3>1. pc' \in [Threads -> Places] /\ result' \subseteq Codes \cup {0} /\ Cardinality(result') <= 1
      BY <2>1, EndRunTypes, SmallSets
    <3>2. pc' = [pc EXCEPT ![t] = "ended"] BY <2>1 DEF EndRun
    <3> QED BY <1>4, <3>1, <3>2 DEF Return
  <2>2. CASE ~EndRun(t, {}) BY <1>4, <2>2 DEF Return
  <2> QED BY <2>1, <2>2
<1>5. CASE TestInterrupt(t)
  <2>1. CASE EndRun(t, finish)
    <3>1. pc' \in [Threads -> Places] /\ result' \subseteq Codes \cup {0} /\ Cardinality(result') <= 1
      BY <2>1, EndRunTypes, SmallSets
    <3>2. pc' = [pc EXCEPT ![t] = "ended"] BY <2>1 DEF EndRun
    <3> QED BY <1>5, <3>1, <3>2 DEF TestInterrupt, Killed
  <2>2. CASE ~EndRun(t, finish) BY <1>5, <2>2 DEF TestInterrupt, Killed
  <2> QED BY <2>1, <2>2
<1>6. CASE WaitForSignal(t) BY <1>6 DEF WaitForSignal
<1>7. CASE Kernel(t) BY <1>7 DEF Kernel
<1>8. CASE Broadcast(t)
  <2>1. CASE EndRun(t, finish)
    <3>1. pc' \in [Threads -> Places] /\ result' \subseteq Codes \cup {0} /\ Cardinality(result') <= 1
      BY <2>1, EndRunTypes, SmallSets
    <3>2. pc' = [pc EXCEPT ![t] = "ended"] BY <2>1 DEF EndRun
    <3> QED BY <1>8, <3>1, <3>2 DEF Broadcast
  <2>2. CASE ~EndRun(t, finish) BY <1>8, <2>2 DEF Broadcast
  <2> QED BY <2>1, <2>2
<1>9. CASE Mirror(t) BY <1>9 DEF Mirror
<1>10. CASE Signal(t) BY <1>10 DEF Signal
<1>11. CASE Deliver(t) BY <1>11 DEF Deliver
<1>12. CASE Clear(t) BY <1>12 DEF Clear
<1>13. CASE Sleep(t) BY <1>13 DEF Sleep
<1>14. CASE SleepAgain(t) BY <1>14 DEF SleepAgain
<1>15. CASE Awake(t)
  <2>1. CASE EndRun(t, {})
    <3>1. pc' \in [Threads -> Places] /\ result' \subseteq Codes \cup {0} /\ Cardinality(result') <= 1
      BY <2>1, EndRunTypes, SmallSets
    <3>2. pc' = [pc EXCEPT ![t] = "ended"] BY <2>1 DEF EndRun
    <3> QED BY <1>15, <3>1, <3>2 DEF Awake
  <2>2. CASE ~EndRun(t, {}) BY <1>15, <2>2 DEF Awake
  <2> QED BY <2>1, <2>2
<1>16. CASE ChildExit(t) BY <1>16 DEF ChildExit
<1>17. CASE Poll(t)
  <2>1. CASE EndRun(t, finish)
    <3>1. pc' \in [Threads -> Places] /\ result' \subseteq Codes \cup {0} /\ Cardinality(result') <= 1
      BY <2>1, EndRunTypes, SmallSets
    <3>2. pc' = [pc EXCEPT ![t] = "ended"] BY <2>1 DEF EndRun
    <3> QED BY <1>17, <3>1, <3>2 DEF Poll, Killed
  <2>2. CASE ~EndRun(t, finish) BY <1>17, <2>2 DEF Poll, Killed
  <2> QED BY <2>1, <2>2
<1>18. CASE KernelReturn(t) BY <1>18 DEF KernelReturn
<1>19. ASSUME NEW code \in Codes, PolyFinish(t, code) PROVE TypeOK'
  <2>1. Cardinality({code}) <= 1 BY SmallSets
  <2> QED BY <1>19, <2>1 DEF PolyFinish
<1>20. ASSUME NEW u \in Threads, NEW req \in {"interrupt", "kill"}, MakeRequest(t, u, req)
      PROVE  TypeOK'
  BY <1>20 DEF MakeRequest, Rank
<1> QED
  BY <1>1, <1>2, <1>3, <1>4, <1>5, <1>6, <1>7, <1>8, <1>9, <1>10, <1>11, <1>12,
     <1>13, <1>14, <1>15, <1>16, <1>17, <1>18, <1>19, <1>20
  DEF Step, Inside, Running, Instruction

\* A turn begins only when nobody else is inside one.
LEMMA TurnStep ==
  ASSUME RequestsInv, NEW t \in Threads, Step(t)
  PROVE  TurnsExclude'
<1> USE DEF RequestsInv, TypeOK, TurnsExclude, MayRun, InCall
<1>1. CASE StepFinish(t) BY <1>1 DEF StepFinish, EndRun, Others
<1>2. CASE StepBegin(t) BY <1>2 DEF StepBegin
<1>3. CASE Compute(t) BY <1>3 DEF Compute
<1>4. CASE Return(t) BY <1>4 DEF Return, EndRun
<1>5. CASE TestInterrupt(t)
  <2>1. CASE Killed(t)
    <3>1. pc[t] = "op" /\ MayRun(t) BY <1>5 DEF TestInterrupt
    <3> QED BY <2>1, <3>1 DEF Killed, EndRun
  <2>2. CASE ~Killed(t) BY <1>5, <2>2 DEF TestInterrupt
  <2> QED BY <2>1, <2>2
<1>6. CASE WaitForSignal(t)
  <2>1. pc' = [pc EXCEPT ![t] = "sampled"] /\ UNCHANGED <<parallel, finish, request>> /\ MayRun(t)
    BY <1>6 DEF WaitForSignal
  <2> QED BY <2>1
<1>7. CASE Kernel(t) BY <1>7 DEF Kernel
<1>8. CASE Broadcast(t) BY <1>8 DEF Broadcast, EndRun
<1>9. CASE Mirror(t) BY <1>9 DEF Mirror
<1>10. CASE Signal(t) BY <1>10 DEF Signal
<1>11. CASE Deliver(t) BY SMTT(40), <1>11 DEF Deliver
<1>12. CASE Clear(t) BY <1>12 DEF Clear
<1>13. CASE Sleep(t) BY <1>13 DEF Sleep
<1>14. CASE SleepAgain(t) BY <1>14 DEF SleepAgain
<1>15. CASE Awake(t) BY <1>15 DEF Awake, EndRun
<1>16. CASE ChildExit(t) BY <1>16 DEF ChildExit
<1>17. CASE Poll(t)
  <2>1. CASE Killed(t)
    <3>1. pc[t] = "run" /\ MayRun(t) BY <1>17 DEF Poll
    <3> QED BY <2>1, <3>1 DEF Killed, EndRun
  <2>2. CASE ~Killed(t) BY <1>17, <2>2 DEF Poll
  <2> QED BY <2>1, <2>2
<1>18. CASE KernelReturn(t) BY <1>18 DEF KernelReturn
<1>19. ASSUME NEW code \in Codes, PolyFinish(t, code) PROVE TurnsExclude'
  BY <1>19 DEF PolyFinish
<1>20. ASSUME NEW u \in Threads, NEW req \in {"interrupt", "kill"}, MakeRequest(t, u, req)
      PROVE  TurnsExclude'
  BY <1>20 DEF MakeRequest, Rank
<1> QED
  BY <1>1, <1>2, <1>3, <1>4, <1>5, <1>6, <1>7, <1>8, <1>9, <1>10, <1>11, <1>12,
     <1>13, <1>14, <1>15, <1>16, <1>17, <1>18, <1>19, <1>20
  DEF Step, Inside, Running, Instruction

\* Whoever consumes the flag is the last thread, so Main or its survivor.
LEMMA FlagStep ==
  ASSUME RequestsInv, NEW t \in Threads, Step(t)
  PROVE  FlagStands'
<1> USE RequestsAssumption DEF RequestsInv, TypeOK, FlagStands
<1>1. CASE StepFinish(t)
  <2>1. pc[t] = "run" /\ asked' = asked BY <1>1 DEF StepFinish
  <2>2. CASE \A u \in Others(t) : pc[u] = "gone"
    <3>1. finish' = {} /\ EndRun(t, finish) BY <1>1, <2>2 DEF StepFinish
    <3>2. pc' = [pc EXCEPT ![t] = "ended"] BY <3>1 DEF EndRun
    <3>3. t = Main \/ pc[Main] = "gone" BY <2>2 DEF Others
    <3> QED BY <2>1, <3>1, <3>2, <3>3
  <2>3. CASE ~ \A u \in Others(t) : pc[u] = "gone"
    <3>1. finish' = finish /\ pc' = [pc EXCEPT ![t] = "broadcast"]
      BY <1>1, <2>3 DEF StepFinish
    <3> QED BY <2>1, <3>1
  <2> QED BY <2>2, <2>3
<1>2. CASE StepBegin(t) BY <1>2 DEF StepBegin
<1>3. CASE Compute(t) BY <1>3 DEF Compute
<1>4. CASE Return(t) BY <1>4 DEF Return, EndRun
<1>5. CASE TestInterrupt(t)
  <2>1. CASE Killed(t)
    <3>1. pc[t] = "op" /\ MayRun(t) BY <1>5 DEF TestInterrupt
    <3> QED BY <2>1, <3>1 DEF Killed, EndRun
  <2>2. CASE ~Killed(t) BY <1>5, <2>2 DEF TestInterrupt
  <2> QED BY <2>1, <2>2
<1>6. CASE WaitForSignal(t) BY <1>6 DEF WaitForSignal
<1>7. CASE Kernel(t) BY <1>7 DEF Kernel
<1>8. CASE Broadcast(t) BY <1>8 DEF Broadcast, EndRun
<1>9. CASE Mirror(t) BY <1>9 DEF Mirror
<1>10. CASE Signal(t) BY <1>10 DEF Signal
<1>11. CASE Deliver(t) BY <1>11 DEF Deliver
<1>12. CASE Clear(t) BY <1>12 DEF Clear
<1>13. CASE Sleep(t) BY <1>13 DEF Sleep
<1>14. CASE SleepAgain(t) BY <1>14 DEF SleepAgain
<1>15. CASE Awake(t) BY <1>15 DEF Awake, EndRun
<1>16. CASE ChildExit(t) BY <1>16 DEF ChildExit
<1>17. CASE Poll(t)
  <2>1. CASE Killed(t)
    <3>1. pc[t] = "run" /\ MayRun(t) BY <1>17 DEF Poll
    <3> QED BY <2>1, <3>1 DEF Killed, EndRun
  <2>2. CASE ~Killed(t) BY <1>17, <2>2 DEF Poll
  <2> QED BY <2>1, <2>2
<1>18. CASE KernelReturn(t) BY <1>18 DEF KernelReturn
<1>19. ASSUME NEW code \in Codes, PolyFinish(t, code) PROVE FlagStands'
  BY <1>19 DEF PolyFinish
<1>20. ASSUME NEW u \in Threads, NEW req \in {"interrupt", "kill"}, MakeRequest(t, u, req)
      PROVE  FlagStands'
  BY <1>20 DEF MakeRequest, Rank
<1> QED
  BY <1>1, <1>2, <1>3, <1>4, <1>5, <1>6, <1>7, <1>8, <1>9, <1>10, <1>11, <1>12,
     <1>13, <1>14, <1>15, <1>16, <1>17, <1>18, <1>19, <1>20
  DEF Step, Inside, Running, Instruction

\* The maker writes the mirror behind the request, the taker clears it behind
\* the request.
LEMMA MirrorStep ==
  ASSUME RequestsInv, NEW t \in Threads, Step(t)
  PROVE  MirrorShowsRequest'
<1> USE DEF RequestsInv, TypeOK, TurnsExclude, MirrorShowsRequest, MayRun, InCall
<1>1. CASE StepFinish(t) BY <1>1 DEF StepFinish, EndRun, Others
<1>2. CASE StepBegin(t) BY <1>2 DEF StepBegin
<1>3. CASE Compute(t) BY <1>3 DEF Compute
<1>4. CASE Return(t) BY <1>4 DEF Return, EndRun
<1>5. CASE TestInterrupt(t)
  <2>1. CASE Killed(t)
    <3>1. pc[t] = "op" /\ MayRun(t) BY <1>5 DEF TestInterrupt
    <3> QED BY <2>1, <3>1 DEF Killed, EndRun
  <2>2. CASE ~Killed(t) BY <1>5, <2>2 DEF TestInterrupt
  <2> QED BY <2>1, <2>2
<1>6. CASE WaitForSignal(t) BY <1>6 DEF WaitForSignal
<1>7. CASE Kernel(t) BY <1>7 DEF Kernel
<1>8. CASE Broadcast(t) BY <1>8 DEF Broadcast, EndRun
<1>9. CASE Mirror(t) BY <1>9 DEF Mirror
<1>10. CASE Signal(t) BY <1>10 DEF Signal
<1>11. CASE Deliver(t) BY <1>11 DEF Deliver
<1>12. CASE Clear(t) BY <1>12 DEF Clear
<1>13. CASE Sleep(t) BY <1>13 DEF Sleep
<1>14. CASE SleepAgain(t) BY <1>14 DEF SleepAgain
<1>15. CASE Awake(t) BY <1>15 DEF Awake, EndRun
<1>16. CASE ChildExit(t) BY <1>16 DEF ChildExit
<1>17. CASE Poll(t)
  <2>1. CASE Killed(t)
    <3>1. pc[t] = "run" /\ MayRun(t) BY <1>17 DEF Poll
    <3> QED BY <2>1, <3>1 DEF Killed, EndRun
  <2>2. CASE ~Killed(t) BY <1>17, <2>2 DEF Poll
  <2> QED BY <2>1, <2>2
<1>18. CASE KernelReturn(t) BY <1>18 DEF KernelReturn
<1>19. ASSUME NEW code \in Codes, PolyFinish(t, code) PROVE MirrorShowsRequest'
  BY <1>19 DEF PolyFinish
<1>20. ASSUME NEW u \in Threads, NEW req \in {"interrupt", "kill"}, MakeRequest(t, u, req)
      PROVE  MirrorShowsRequest'
  BY <1>20 DEF MakeRequest, Rank
<1> QED
  BY <1>1, <1>2, <1>3, <1>4, <1>5, <1>6, <1>7, <1>8, <1>9, <1>10, <1>11, <1>12,
     <1>13, <1>14, <1>15, <1>16, <1>17, <1>18, <1>19, <1>20
  DEF Step, Inside, Running, Instruction

\* Nor does the end of the process: Main joins its children and leaves.
LEMMA JoinStep ==
  ASSUME RequestsInv, JoinBegin \/ JoinPoll \/ JoinEnd \/ Exited
  PROVE  RequestsInv'
<1> USE RequestsAssumption DEF RequestsInv, TypeOK, Places, InCall, Sampling, TurnsExclude, FlagStands, MirrorShowsRequest
<1>1. CASE JoinBegin BY <1>1 DEF JoinBegin
<1>2. CASE JoinEnd BY <1>2 DEF JoinEnd
<1>3. CASE UNCHANGED vars BY <1>3
<1> QED BY <1>1, <1>2, <1>3 DEF JoinPoll, Exited

\* The invariant is inductive.
LEMMA RequestsStep == RequestsInv /\ [Next]_vars => RequestsInv'
<1> SUFFICES ASSUME RequestsInv, [Next]_vars PROVE RequestsInv'
  OBVIOUS
<1>1. ASSUME NEW t \in Threads, Step(t) PROVE RequestsInv'
  BY <1>1, TypeStep, TurnStep, FlagStep, MirrorStep DEF RequestsInv
<1>2. CASE UNCHANGED vars
  BY <1>2 DEF RequestsInv, TypeOK, TurnsExclude, FlagStands, MirrorShowsRequest
<1> QED BY <1>1, <1>2, JoinStep DEF Next, Step

\* So it always holds.
LEMMA RequestsInvariant == Spec => []RequestsInv
BY RequestsInit, RequestsStep, PTL DEF Spec

\* What may happen to a request that is a kill.
KillStays ==
  \A t \in Threads : request[t] = "kill" /\ request'[t] # "kill" => pc'[t] = "ended"

\* A kill is consumed only by the end of the run that it ends.
LEMMA KillStep ==
  ASSUME RequestsInv, NEW t \in Threads, Step(t)
  PROVE  KillStays
<1> USE DEF RequestsInv, TypeOK, KillStays
<1>1. CASE StepFinish(t) BY <1>1 DEF StepFinish, EndRun, Others
<1>2. CASE StepBegin(t) BY <1>2 DEF StepBegin
<1>3. CASE Compute(t) BY <1>3 DEF Compute
<1>4. CASE Return(t) BY <1>4 DEF Return, EndRun
<1>5. CASE TestInterrupt(t) BY <1>5 DEF TestInterrupt, Killed, EndRun
<1>6. CASE WaitForSignal(t) BY <1>6 DEF WaitForSignal
<1>7. CASE Kernel(t) BY <1>7 DEF Kernel
<1>8. CASE Broadcast(t) BY <1>8 DEF Broadcast, EndRun
<1>9. CASE Mirror(t) BY <1>9 DEF Mirror
<1>10. CASE Signal(t) BY <1>10 DEF Signal
<1>11. CASE Deliver(t) BY <1>11 DEF Deliver
<1>12. CASE Clear(t) BY <1>12 DEF Clear
<1>13. CASE Sleep(t) BY <1>13 DEF Sleep
<1>14. CASE SleepAgain(t) BY <1>14 DEF SleepAgain
<1>15. CASE Awake(t) BY <1>15 DEF Awake, EndRun
<1>16. CASE ChildExit(t) BY <1>16 DEF ChildExit
<1>17. CASE Poll(t) BY <1>17 DEF Poll, Killed, EndRun
<1>18. CASE KernelReturn(t) BY <1>18 DEF KernelReturn
<1>19. ASSUME NEW code \in Codes, PolyFinish(t, code) PROVE KillStays
  BY <1>19 DEF PolyFinish
<1>20. ASSUME NEW u \in Threads, NEW req \in {"interrupt", "kill"}, MakeRequest(t, u, req)
      PROVE  KillStays
  BY <1>20 DEF MakeRequest, Rank
<1> QED
  BY <1>1, <1>2, <1>3, <1>4, <1>5, <1>6, <1>7, <1>8, <1>9, <1>10, <1>11, <1>12,
     <1>13, <1>14, <1>15, <1>16, <1>17, <1>18, <1>19, <1>20
  DEF Step, Inside, Running, Instruction

\* How Main's run may end.
CodeArrives ==
  ~parallel /\ pc[Main] # "ended" /\ pc'[Main] = "ended" /\ asked # {} =>
    result' # {} /\ result' \subseteq asked

\* A run that ends with what the flag says returns a code that was asked for.
LEMMA EndsWithCode ==
  ASSUME RequestsInv, NEW t \in Threads, pc[t] \in {"op", "run"}, EndRun(t, finish)
  PROVE  CodeArrives
<1> SUFFICES ASSUME ~parallel, pc[Main] # "ended", pc'[Main] = "ended", asked # {}
             PROVE  result' # {} /\ result' \subseteq asked
  BY DEF CodeArrives
<1>1. pc \in [Threads -> Places] BY DEF RequestsInv, TypeOK
<1>2. t = Main BY <1>1, RequestsAssumption DEF EndRun
<1>3. finish # {} /\ finish \subseteq asked BY <1>2 DEF RequestsInv, FlagStands
<1>4. result' = finish BY <1>2, <1>3 DEF EndRun
<1> QED BY <1>3, <1>4

\* Whatever ends Main's run looks at the flag, or found it unset in the same
\* turn, before anybody could have asked.
LEMMA CodeStep ==
  ASSUME RequestsInv, NEW t \in Threads, Step(t)
  PROVE  CodeArrives
<1> USE RequestsAssumption DEF RequestsInv, TypeOK, TurnsExclude, FlagStands, CodeArrives
<1>1. CASE StepFinish(t) BY <1>1 DEF StepFinish, EndRun, Others
<1>2. CASE StepBegin(t) BY <1>2 DEF StepBegin
<1>3. CASE Compute(t) BY <1>3 DEF Compute
<1>4. CASE Return(t) BY <1>4 DEF Return, EndRun
<1>5. CASE TestInterrupt(t)
  <2>1. CASE Killed(t)
    <3>1. pc[t] = "op" BY <1>5 DEF TestInterrupt
    <3>2. EndRun(t, finish) /\ asked' = asked BY <2>1 DEF Killed
    <3> QED BY <3>1, <3>2, EndsWithCode
  <2>2. CASE ~Killed(t) BY <1>5, <2>2 DEF TestInterrupt
  <2> QED BY <2>1, <2>2
<1>6. CASE WaitForSignal(t) BY <1>6 DEF WaitForSignal
<1>7. CASE Kernel(t) BY <1>7 DEF Kernel
<1>8. CASE Broadcast(t) BY <1>8 DEF Broadcast, EndRun
<1>9. CASE Mirror(t) BY <1>9 DEF Mirror
<1>10. CASE Signal(t) BY <1>10 DEF Signal
<1>11. CASE Deliver(t) BY <1>11 DEF Deliver
<1>12. CASE Clear(t) BY <1>12 DEF Clear
<1>13. CASE Sleep(t) BY <1>13 DEF Sleep
<1>14. CASE SleepAgain(t) BY <1>14 DEF SleepAgain
<1>15. CASE Awake(t) BY <1>15 DEF Awake, EndRun
<1>16. CASE ChildExit(t) BY <1>16 DEF ChildExit
<1>17. CASE Poll(t)
  <2>1. CASE Killed(t)
    <3>1. pc[t] = "run" BY <1>17 DEF Poll
    <3>2. EndRun(t, finish) /\ asked' = asked BY <2>1 DEF Killed
    <3> QED BY <3>1, <3>2, EndsWithCode
  <2>2. CASE ~Killed(t) BY <1>17, <2>2 DEF Poll
  <2> QED BY <2>1, <2>2
<1>18. CASE KernelReturn(t) BY <1>18 DEF KernelReturn
<1>19. ASSUME NEW code \in Codes, PolyFinish(t, code) PROVE CodeArrives
  BY <1>19 DEF PolyFinish
<1>20. ASSUME NEW u \in Threads, NEW req \in {"interrupt", "kill"}, MakeRequest(t, u, req)
      PROVE  CodeArrives
  BY <1>20 DEF MakeRequest, Rank
<1> QED
  BY <1>1, <1>2, <1>3, <1>4, <1>5, <1>6, <1>7, <1>8, <1>9, <1>10, <1>11, <1>12,
     <1>13, <1>14, <1>15, <1>16, <1>17, <1>18, <1>19, <1>20
  DEF Step, Inside, Running, Instruction

\* The state keeps its shape: one code is in the finish flag at most.
THEOREM TypeCorrect == Spec => []TypeOK
<1>1. RequestsInv => TypeOK BY DEF RequestsInv
<1> QED BY <1>1, RequestsInvariant, PTL

\* In giant-lock mode testInterrupt, which looks at requestCopy, misses no
\* pending interrupt.
THEOREM MirrorShowsRequestAlways == Spec => []MirrorShowsRequest
<1>1. RequestsInv => MirrorShowsRequest BY DEF RequestsInv
<1> QED BY <1>1, RequestsInvariant, PTL

\* No delivery and no later request takes a kill back: it stays until the
\* thread's run has ended.
THEOREM KillSticksAlways == Spec => KillSticks
<1>1. RequestsInv /\ [Next]_vars => [KillStays]_vars
  <2>1. ASSUME RequestsInv, JoinBegin \/ JoinPoll \/ JoinEnd \/ Exited PROVE [KillStays]_vars
    BY <2>1 DEF JoinBegin, JoinPoll, JoinEnd, Exited, KillStays
  <2> QED BY <2>1, KillStep DEF Next, Step
<1> QED BY <1>1, RequestsInvariant, PTL DEF Spec, KillSticks, KillStays

\* In giant-lock mode the code that PolyFinish was called with while Main was
\* running is what Main's run returns.
THEOREM ExitCodeReachesMainAlways == Spec => ExitCodeReachesMain
<1>1. RequestsInv /\ [Next]_vars => [CodeArrives]_vars
  <2>1. ASSUME RequestsInv, JoinBegin \/ JoinPoll \/ JoinEnd \/ Exited PROVE [CodeArrives]_vars
    BY <2>1 DEF JoinBegin, JoinPoll, JoinEnd, Exited, RequestsInv, TypeOK, CodeArrives
  <2> QED BY <2>1, CodeStep DEF Next, Step
<1> QED BY <1>1, RequestsInvariant, PTL DEF Spec, ExitCodeReachesMain, CodeArrives
=============================================================================
