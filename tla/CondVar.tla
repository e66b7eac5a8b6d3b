------------------------------ MODULE CondVar ------------------------------
(***************************************************************************)
(* One SML ConditionVar under real threads: PolyThreadCondVarWait,         *)
(* PolyThreadCondVarWaitUntil and PolyThreadCondVarWake, with requests     *)
(* (interrupt, kill) arriving at any moment (interpreter/mod.rs,           *)
(* try_thread_rts and process_asynch_requests; sched.rs, block events).    *)
(*                                                                         *)
(* The SML library's side is external: a waiter puts itself on the wait    *)
(* list and calls the RTS with the internal mutex held, takes the mutex    *)
(* again after every return, looks whether it was signalled, tests for an  *)
(* interrupt and waits again.  A signaller holds the mutex while it wakes  *)
(* the first waiter that the RTS accepts and takes it off the list.  The   *)
(* mutex excludes here; what the code's own mutex does is MutexProto.      *)
(*                                                                         *)
(* block_gen counts events; bumps[t] counts them since t took its sample,  *)
(* up to the two that the waits can tell apart.                            *)
(***************************************************************************)
EXTENDS Naturals, FiniteSets

CONSTANTS
  Threads,    \* the SML threads
  Parallel,   \* POLY_PARALLEL=1
  Requesting  \* threads interrupt and kill each other

ASSUME CondVarAssumption ==
  /\ IsFiniteSet(Threads)
  /\ Parallel \in BOOLEAN
  /\ Requesting \in BOOLEAN

VARIABLES
  pc,         \* where each thread is
  holder,     \* who holds the internal mutex, a set of at most one
  waiting,    \* the SML wait list
  signalled,  \* waiters that a signal was given to
  timed,      \* waiters with a deadline
  bumps,      \* events since the thread's sample of block_gen, up to 2
  request,    \* ThreadHandle::requests
  target      \* whom a thread inside CondVarWake or MakeRequest acts on

smlVars == <<holder, waiting, signalled, timed>>
vars == <<pc, smlVars, bumps, request, target>>

Requests == {"none", "interrupt", "kill"}

\* "out": bytecode without the mutex; "locked": bytecode with it; "relock":
\* back from the wait, wanting it.
Bytecode == {"out", "locked", "relock"}

\* Inside CondVarWait up to the wait, CondVarWake, MakeRequest: ML memory held.
InCall == {"sample", "release", "announce", "check", "wake", "signal"}

Places == Bytecode \cup InCall \cup {"asleep", "gone"}

Init ==
  /\ pc = [t \in Threads |-> "out"]
  /\ holder = {} /\ waiting = {} /\ signalled = {} /\ timed = {}
  /\ bumps = [t \in Threads |-> 0]
  /\ request = [t \in Threads |-> "none"]
  /\ target = [t \in Threads |-> t]

-----------------------------------------------------------------------------

Goto(t, place) == pc' = [pc EXCEPT ![t] = place]

\* In giant-lock mode nobody runs beside a thread inside a call.
MayRun(t) == Parallel \/ \A u \in Threads \ {t} : pc[u] \notin InCall

Bumped == [t \in Threads |-> IF bumps[t] = 2 THEN 2 ELSE bumps[t] + 1]

NotifyBlockEvent == bumps' = Bumped

\* The thread's run ends and its exit is an event.  Nobody releases a mutex
\* that it holds or takes it off the wait list.
End(t) ==
  /\ Goto(t, "gone")
  /\ NotifyBlockEvent
  /\ request' = [request EXCEPT ![t] = "none"]
  /\ UNCHANGED smlVars

Alone(t) == \A u \in Threads \ {t} : pc[u] = "gone"

-----------------------------------------------------------------------------
(* The SML library around the calls *)

\* Take the internal mutex and give it back.
Lock(t) ==
  /\ pc[t] = "out" /\ MayRun(t)
  /\ holder = {}
  /\ holder' = {t}
  /\ Goto(t, "locked")
  /\ UNCHANGED <<waiting, signalled, timed, bumps, request, target>>

Leave(t) ==
  /\ pc[t] = "locked" /\ MayRun(t)
  /\ holder' = {}
  /\ Goto(t, "out")
  /\ UNCHANGED <<waiting, signalled, timed, bumps, request, target>>

\* wait and waitUntil: onto the list, into the call.
Wait(t) ==
  /\ pc[t] = "locked" /\ MayRun(t)
  /\ waiting' = waiting \cup {t}
  /\ \/ timed' = timed \cup {t}
     \/ UNCHANGED timed
  /\ Goto(t, "sample")
  /\ UNCHANGED <<holder, signalled, bumps, request, target>>

\* After a return: a signal ends the wait, then a pending interrupt does, then
\* a deadline; otherwise it goes on.
Recheck(t) ==
  /\ pc[t] = "relock" /\ MayRun(t)
  /\ holder = {}
  /\ holder' = {t}
  /\ LET over == t \in signalled \/ request[t] = "interrupt" \/ t \in timed
     IN /\ Goto(t, IF over THEN "locked" ELSE "sample")
        /\ waiting' = IF over THEN waiting \ {t} ELSE waiting
        /\ timed' = IF over THEN timed \ {t} ELSE timed
  /\ request' = IF t \notin signalled /\ request[t] = "interrupt"
                THEN [request EXCEPT ![t] = "none"] ELSE request
  /\ signalled' = signalled \ {t}
  /\ UNCHANGED <<bumps, target>>

-----------------------------------------------------------------------------
(* PolyThreadCondVarWait, PolyThreadCondVarWaitUntil *)

\* Sample the generation with the mutex still held.  With no live peer the
\* single-threaded stub returns at once (and so does the stub of MutexBlock,
\* which resets the mutex when the thread wants it again).
Sample(t) ==
  /\ pc[t] = "sample" /\ MayRun(t)
  /\ \/ Alone(t) /\ holder' = {} /\ Goto(t, "relock") /\ UNCHANGED bumps
     \/ /\ ~Alone(t)
        /\ bumps' = [bumps EXCEPT ![t] = 0]
        /\ Goto(t, "release")
        /\ UNCHANGED holder
  /\ UNCHANGED <<waiting, signalled, timed, request, target>>

\* reset_mutex_word: the mutex is free.
Release(t) ==
  /\ pc[t] = "release" /\ MayRun(t)
  /\ holder' = {}
  /\ Goto(t, "announce")
  /\ UNCHANGED <<waiting, signalled, timed, bumps, request, target>>

\* Mutant of Announce: the sample is taken again, behind the release.
Announce_Resamples(t) ==
  /\ pc[t] = "announce" /\ MayRun(t)
  /\ bumps' = [Bumped EXCEPT ![t] = 1]
  /\ Goto(t, "check")
  /\ UNCHANGED <<smlVars, request, target>>

\* Wake whoever waits for the mutex; this counts as one event for us, too.
Announce(t) ==
  /\ pc[t] = "announce" /\ MayRun(t)
  /\ NotifyBlockEvent
  /\ Goto(t, "check")
  /\ UNCHANGED <<smlVars, request, target>>

\* Mutant of Check: a pending interrupt does not keep the thread from waiting.
Check_KillOnly(t) ==
  /\ pc[t] = "check" /\ MayRun(t)
  /\ IF request[t] = "kill" THEN End(t)
     ELSE Goto(t, "asleep") /\ UNCHANGED <<smlVars, bumps, request>>
  /\ UNCHANGED target

\* Any pending request skips the wait; a kill ends the run.
Check(t) ==
  /\ pc[t] = "check" /\ MayRun(t)
  /\ IF request[t] = "kill" THEN End(t)
     ELSE /\ Goto(t, IF request[t] = "none" THEN "asleep" ELSE "relock")
          /\ UNCHANGED <<smlVars, bumps, request>>
  /\ UNCHANGED target

\* The wait is for the generation to leave since + 1.
WaitOver(t) == bumps[t] # 1

\* The generation moved on, or the deadline passed: reacquire ML memory.
Return(t) ==
  /\ pc[t] = "asleep" /\ MayRun(t)
  /\ WaitOver(t) \/ t \in timed
  /\ IF request[t] = "kill" THEN End(t)
     ELSE Goto(t, "relock") /\ UNCHANGED <<smlVars, bumps, request>>
  /\ UNCHANGED target

-----------------------------------------------------------------------------
(* PolyThreadCondVarWake *)

\* The target can take the signal when it has no pending request.
CanTake(u) == pc[u] # "gone" /\ request[u] = "none"

Wake(t, u) ==
  /\ pc[t] = "locked" /\ MayRun(t)
  /\ u \in waiting \ signalled
  /\ CanTake(u)
  /\ target' = [target EXCEPT ![t] = u]
  /\ Goto(t, "wake")
  /\ UNCHANGED <<smlVars, bumps, request>>

\* Signal the event; the signaller takes the target off its list.
WakeNotify(t) ==
  /\ pc[t] = "wake" /\ MayRun(t)
  /\ NotifyBlockEvent
  /\ signalled' = signalled \cup ({target[t]} \cap waiting)
  /\ Goto(t, "locked")
  /\ UNCHANGED <<holder, waiting, timed, request, target>>

-----------------------------------------------------------------------------
(* Requests *)

\* MakeRequest: an interrupt never overrides a kill.
MakeRequest(t, u, req) ==
  /\ Requesting
  /\ pc[t] = "out" /\ MayRun(t)
  /\ pc[u] # "gone" /\ request[u] # "kill" /\ request[u] # req
  /\ request' = [request EXCEPT ![u] = req]
  /\ target' = [target EXCEPT ![t] = u]
  /\ Goto(t, "signal")
  /\ UNCHANGED <<smlVars, bumps>>

SignalRequest(t) ==
  /\ pc[t] = "signal" /\ MayRun(t)
  /\ NotifyBlockEvent
  /\ Goto(t, "out")
  /\ UNCHANGED <<smlVars, request, target>>

\* The safepoint poll delivers a kill.
Poll(t) ==
  /\ pc[t] \in Bytecode /\ request[t] = "kill" /\ MayRun(t)
  /\ End(t)
  /\ UNCHANGED target

\* A thread outside may test for an interrupt; it may also end.
TestInterrupt(t) ==
  /\ pc[t] = "out" /\ request[t] = "interrupt" /\ MayRun(t)
  /\ request' = [request EXCEPT ![t] = "none"]
  /\ UNCHANGED <<pc, smlVars, bumps, target>>

KillSelf(t) ==
  /\ pc[t] = "out" /\ MayRun(t)
  /\ End(t)
  /\ UNCHANGED target

-----------------------------------------------------------------------------

InWait(t)  == Sample(t) \/ Release(t) \/ Announce(t) \/ Check(t) \/ Return(t) \/ Recheck(t)
InOther(t) == WakeNotify(t) \/ SignalRequest(t) \/ Leave(t) \/ Poll(t)

Finished == (\A t \in Threads : pc[t] = "gone") /\ UNCHANGED vars

Next ==
  \/ \E t \in Threads :
       \/ Lock(t) \/ Wait(t) \/ InWait(t) \/ InOther(t) \/ TestInterrupt(t) \/ KillSelf(t)
       \/ \E u \in Threads : Wake(t, u) \/ \E req \in {"interrupt", "kill"} : MakeRequest(t, u, req)
  \/ Finished

Spec == Init /\ [][Next]_vars

-----------------------------------------------------------------------------
(* Properties *)

\* The shape of the state; a request is one of three values however requests
\* are combined.
TypeOK ==
  /\ pc \in [Threads -> Places]
  /\ \A s \in {holder, waiting, signalled, timed} : s \subseteq Threads
  /\ bumps \in [Threads -> 0..2]
  /\ request \in [Threads -> Requests]
  /\ target \in [Threads -> Threads]

Asleep(t) == pc[t] = "asleep" /\ ~WaitOver(t) /\ t \notin timed

\* A signal that was given is never slept through, although the waiter gave
\* the mutex back and the signaller took it before the waiter slept.
NoLostSignal == \A t \in signalled : ~Asleep(t)

\* An interrupt or a kill is never slept through: it is seen before the wait
\* or its event ends the wait.
RequestReachesWaiter ==
  \A t \in Threads : Asleep(t) /\ request[t] # "none" =>
    \E u \in Threads : pc[u] = "signal" /\ target[u] = t
=============================================================================
