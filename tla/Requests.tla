------------------------------ MODULE Requests ------------------------------
(***************************************************************************)
(* Requests to a thread (Thread.interrupt, Thread.kill), their delivery,   *)
(* the end of the process (PolyFinish, wait_for_children) and the signal   *)
(* thread (PolyWaitForSignal): interpreter/mod.rs with the request word of *)
(* sched.rs and the finish flag of rts.rs.                                 *)
(*                                                                         *)
(* One thread, Main, runs the root function; the others were forked by it. *)
(* In giant-lock mode an instruction is one turn; in parallel mode the     *)
(* accesses inside one are interleaved with those of the peers.            *)
(*                                                                         *)
(* A thread polls for requests every 65536 instructions and on the way     *)
(* back from an ordinary RTS call, so between two polls it may run any     *)
(* number of instructions with a request pending.                          *)
(***************************************************************************)
EXTENDS Naturals, FiniteSets

CONSTANTS
  Threads,   \* the SML threads
  Main,      \* the one that runs the root function
  Modes,     \* the settings of POLY_PARALLEL that a process may start with
  Started,   \* in each setting, the threads that run; the others have ended
  Codes,     \* the exit codes the program uses, other than 0
  States,    \* in each setting, the interrupt states it uses
  Doing      \* what the program does: a set of operation names

Operations == {"finish", "interrupt", "kill", "test", "signal thread", "kernel"}

ASSUME RequestsAssumption ==
  /\ IsFiniteSet(Threads) /\ Main \in Threads
  /\ Modes \subseteq BOOLEAN
  /\ Started \in [Modes -> {S \in SUBSET Threads : Main \in S}]
  /\ Codes \subseteq Nat \ {0}
  /\ States \in [Modes -> {S \in SUBSET {"defer", "synch", "asynch", "once"} : "synch" \in S}]
  /\ Doing \subseteq Operations

VARIABLES
  parallel,  \* Runtime::parallel
  pc,        \* where each thread is
  request,   \* ThreadHandle::requests
  copy,      \* word 3 of the thread object: is requestCopy nonzero
  istate,    \* the interrupt state in word 1 of the thread object
  target,    \* whom a thread inside MakeRequest acts on
  advanced,  \* block_gen moved since the thread sampled it in order to sleep
  daemons,   \* ThreadHandle::is_daemon
  finish,    \* FINISH_REQUESTED: a set of at most one code
  result,    \* what Main's run returned: a set of at most one number
  asked      \* history: the codes that PolyFinish was called with

reqVars == <<request, copy, istate, target>>
endVars == <<finish, result, asked>>
vars == <<parallel, pc, reqVars, advanced, daemons, endVars>>

\* "run": between two instructions.  "op": in one, its finish check is done.
\* MakeRequest: "mirror", "signal".  Delivery: "deliver", "clear".
\* WaitForSignal: "sampled", "asleep", "woken".  "kernel": a blocking system
\* call.  "broadcast": the finish check found the flag.  "ended": run_until
\* returned.  "joining": Main in wait_for_children.
InCall == {"op", "mirror", "signal", "deliver", "clear", "sampled", "woken", "broadcast"}
Places == InCall \cup {"run", "asleep", "kernel", "ended", "joining", "gone"}

Init ==
  /\ parallel \in Modes
  /\ pc = [t \in Threads |-> IF t \in Started[parallel] THEN "run" ELSE "gone"]
  /\ request = [t \in Threads |-> "none"]
  /\ copy = [t \in Threads |-> FALSE]
  /\ istate = [t \in Threads |-> "synch"]
  /\ target = [t \in Threads |-> t]
  /\ advanced = [t \in Threads |-> FALSE]
  /\ daemons = {}
  /\ finish = {} /\ result = {} /\ asked = {}

-----------------------------------------------------------------------------

Goto(t, place) == pc' = [pc EXCEPT ![t] = place]

MayRun(t) == parallel \/ \A u \in Threads \ {t} : pc[u] \notin InCall

Sampling == {"sampled", "asleep"}

NotifyBlockEvent == advanced' = [t \in Threads |-> pc[t] \in Sampling]

Others(t) == Threads \ {t}

\* run_until returns; what it returns matters for Main only.
EndRun(t, codes) ==
  /\ Goto(t, "ended")
  /\ result' = IF t # Main THEN result
               ELSE IF codes = {} THEN {0} ELSE codes

\* Mutant of Killed: the run returns 0, whatever the reason of the kill.
Killed_NoCode(t) ==
  /\ request' = [request EXCEPT ![t] = "none"]
  /\ EndRun(t, {})
  /\ UNCHANGED <<copy, istate, target, advanced, daemons, finish, asked, parallel>>

\* A kill ends the run; when it is part of the PolyFinish broadcast the run
\* returns the exit code.
Killed(t) ==
  /\ request' = [request EXCEPT ![t] = "none"]
  /\ EndRun(t, finish)
  /\ UNCHANGED <<copy, istate, target, advanced, daemons, finish, asked, parallel>>

-----------------------------------------------------------------------------
(* Instructions *)

\* Mutant of StepFinish: whoever sees the flag first consumes it.
StepFinish_Consumes(t) ==
  /\ pc[t] = "run" /\ MayRun(t) /\ finish # {}
  /\ finish' = {}
  /\ EndRun(t, finish)
  /\ UNCHANGED <<reqVars, advanced, daemons, asked, parallel>>

\* The check at the start of an instruction: PolyFinish was called.  With
\* peers alive the flag stays and every peer is killed.
StepFinish(t) ==
  /\ pc[t] = "run" /\ MayRun(t) /\ finish # {}
  /\ IF \A u \in Others(t) : pc[u] = "gone"
     THEN /\ finish' = {}
          /\ EndRun(t, finish)
          /\ UNCHANGED request
     ELSE /\ request' = [u \in Threads |-> IF u # t /\ pc[u] # "gone" THEN "kill" ELSE request[u]]
          /\ Goto(t, "broadcast")
          /\ UNCHANGED <<finish, result>>
  /\ UNCHANGED <<copy, istate, target, advanced, daemons, asked, parallel>>

Broadcast(t) ==
  /\ pc[t] = "broadcast" /\ MayRun(t)
  /\ NotifyBlockEvent
  /\ EndRun(t, finish)
  /\ UNCHANGED <<reqVars, daemons, finish, asked, parallel>>

StepBegin(t) ==
  /\ pc[t] = "run" /\ MayRun(t) /\ finish = {}
  /\ Goto(t, "op")
  /\ UNCHANGED <<reqVars, advanced, daemons, endVars, parallel>>

\* An instruction with no bearing on requests, or SML's setAttributes, which
\* stores the new interrupt state itself.
Compute(t) ==
  /\ pc[t] = "op" /\ MayRun(t)
  /\ \E s \in States[parallel] \cup {istate[t]} : istate' = [istate EXCEPT ![t] = s]
  /\ Goto(t, "run")
  /\ UNCHANGED <<request, copy, target, advanced, daemons, endVars, parallel>>

\* PolyFinish only sets the flag.
PolyFinish(t, code) ==
  /\ "finish" \in Doing
  /\ pc[t] = "op" /\ MayRun(t)
  /\ finish' = {code}
  /\ asked' = asked \cup {code}
  /\ Goto(t, "run")
  /\ UNCHANGED <<reqVars, advanced, daemons, result, parallel>>

\* The root function, or a thread function, returns.
Return(t) ==
  /\ pc[t] = "op" /\ MayRun(t)
  /\ EndRun(t, {})
  /\ UNCHANGED <<reqVars, advanced, daemons, finish, asked, parallel>>

-----------------------------------------------------------------------------
(* Making a request: Thread.interrupt, Thread.kill *)

Rank(req) == CASE req = "none" -> 0 [] req = "interrupt" -> 1 [] req = "kill" -> 2

\* fetch_max; a request that changes nothing is not announced.
MakeRequest(t, u, req) ==
  /\ req \in Doing
  /\ pc[t] = "op" /\ MayRun(t)
  /\ pc[u] # "gone" /\ Rank(request[u]) < Rank(req)
  /\ request' = [request EXCEPT ![u] = req]
  /\ target' = [target EXCEPT ![t] = u]
  /\ Goto(t, "mirror")
  /\ UNCHANGED <<copy, istate, advanced, daemons, endVars, parallel>>

\* Mutant of Mirror: requestCopy is not written.
Mirror_Skipped(t) ==
  /\ pc[t] = "mirror" /\ MayRun(t)
  /\ Goto(t, "signal")
  /\ UNCHANGED <<reqVars, advanced, daemons, endVars, parallel>>

\* Mirror it into the target's thread object ...
Mirror(t) ==
  /\ pc[t] = "mirror" /\ MayRun(t)
  /\ copy' = [copy EXCEPT ![target[t]] = TRUE]
  /\ Goto(t, "signal")
  /\ UNCHANGED <<request, istate, target, advanced, daemons, endVars, parallel>>

\* ... and wake it.
Signal(t) ==
  /\ pc[t] = "signal" /\ MayRun(t)
  /\ NotifyBlockEvent
  /\ target' = [target EXCEPT ![t] = t]
  /\ Goto(t, "run")
  /\ UNCHANGED <<request, copy, istate, daemons, endVars, parallel>>

-----------------------------------------------------------------------------
(* Delivery *)

\* process_asynch_requests, from the poll or behind an RTS call.
Poll(t) ==
  /\ pc[t] = "run" /\ MayRun(t)
  /\ \/ request[t] = "kill" /\ Killed(t)
     \/ /\ request[t] = "interrupt" /\ istate[t] \in {"asynch", "once"}
        /\ istate' = [istate EXCEPT ![t] = IF @ = "once" THEN "synch" ELSE @]
        /\ Goto(t, "deliver")
        /\ UNCHANGED <<request, copy, target, advanced, daemons, endVars, parallel>>

\* SML's testInterrupt looks at requestCopy and calls the RTS if it is set,
\* which tests for a synchronous delivery, then for an asynchronous one.
TestInterrupt(t) ==
  /\ "test" \in Doing
  /\ pc[t] = "op" /\ MayRun(t)
  /\ copy[t]
  /\ \/ request[t] = "kill" /\ Killed(t)
     \/ /\ request[t] = "interrupt" /\ istate[t] # "defer"
        /\ istate' = [istate EXCEPT ![t] = IF @ = "once" THEN "synch" ELSE @]
        /\ Goto(t, "deliver")
        /\ UNCHANGED <<request, copy, target, advanced, daemons, endVars, parallel>>

\* Mutant of Deliver: a plain store consumes the request.
Deliver_Store(t) ==
  /\ pc[t] = "deliver" /\ MayRun(t)
  /\ request' = [request EXCEPT ![t] = "none"]
  /\ Goto(t, "clear")
  /\ UNCHANGED <<copy, istate, target, advanced, daemons, endVars, parallel>>

\* Compare-exchange from interrupt to none; a kill that came in between stays.
Deliver(t) ==
  /\ pc[t] = "deliver" /\ MayRun(t)
  /\ IF request[t] = "interrupt"
     THEN request' = [request EXCEPT ![t] = "none"] /\ Goto(t, "clear")
     ELSE UNCHANGED request /\ Goto(t, "run")
  /\ UNCHANGED <<copy, istate, target, advanced, daemons, endVars, parallel>>

\* Clear the mirror and raise Interrupt.
Clear(t) ==
  /\ pc[t] = "clear" /\ MayRun(t)
  /\ copy' = [copy EXCEPT ![t] = FALSE]
  /\ Goto(t, "run")
  /\ UNCHANGED <<request, istate, target, advanced, daemons, endVars, parallel>>

-----------------------------------------------------------------------------
(* Blocking *)

\* PolyWaitForSignal: a daemon from now on.  block_on_event samples the
\* generation ...
WaitForSignal(t) ==
  /\ "signal thread" \in Doing /\ t # Main
  /\ pc[t] = "op" /\ MayRun(t)
  /\ daemons' = daemons \cup {t}
  /\ Goto(t, "sampled")
  /\ UNCHANGED <<reqVars, advanced, endVars, parallel>>

\* ... and leaves ML memory ...
Sleep(t) ==
  /\ pc[t] = "sampled" /\ MayRun(t)
  /\ Goto(t, "asleep")
  /\ UNCHANGED <<reqVars, advanced, daemons, endVars, parallel>>

\* ... until an event; the request word is looked at after it.
Awake(t) ==
  /\ pc[t] = "asleep" /\ advanced[t] /\ MayRun(t)
  /\ advanced' = [advanced EXCEPT ![t] = FALSE]
  /\ IF request[t] = "kill"
     THEN EndRun(t, {}) ELSE Goto(t, "woken") /\ UNCHANGED result
  /\ UNCHANGED <<reqVars, daemons, finish, asked, parallel>>

SleepAgain(t) ==
  /\ pc[t] = "woken" /\ MayRun(t)
  /\ Goto(t, "sampled")
  /\ UNCHANGED <<reqVars, advanced, daemons, endVars, parallel>>

\* A system call without an abort probe: it may block for ever.
Kernel(t) ==
  /\ "kernel" \in Doing /\ t # Main
  /\ pc[t] = "op" /\ MayRun(t)
  /\ Goto(t, "kernel")
  /\ UNCHANGED <<reqVars, advanced, daemons, endVars, parallel>>

KernelReturn(t) ==
  /\ pc[t] = "kernel" /\ MayRun(t)
  /\ Goto(t, "run")
  /\ UNCHANGED <<reqVars, advanced, daemons, endVars, parallel>>

-----------------------------------------------------------------------------
(* Ends *)

\* A forked thread leaves the registry and its exit is an event.
ChildExit(t) ==
  /\ pc[t] = "ended" /\ t # Main
  /\ NotifyBlockEvent
  /\ Goto(t, "gone")
  /\ UNCHANGED <<reqVars, daemons, endVars, parallel>>

\* wait_for_children: no waiting once PolyFinish was called.
JoinBegin ==
  /\ pc[Main] = "ended"
  /\ Goto(Main, IF finish # {} THEN "gone" ELSE "joining")
  /\ UNCHANGED <<reqVars, advanced, daemons, endVars, parallel>>

\* The wait is cut into slices of 50 ms.
JoinPoll == pc[Main] = "joining" /\ UNCHANGED vars

\* The others are gone, but for the daemons, which are not waited for.
JoinEnd ==
  /\ pc[Main] = "joining"
  /\ \A u \in Others(Main) \ daemons : pc[u] = "gone"
  /\ Goto(Main, "gone")
  /\ UNCHANGED <<reqVars, advanced, daemons, endVars, parallel>>

-----------------------------------------------------------------------------

Inside(t) ==
  \/ Broadcast(t) \/ Mirror(t) \/ Signal(t) \/ Deliver(t) \/ Clear(t)
  \/ Sleep(t) \/ SleepAgain(t) \/ Awake(t) \/ ChildExit(t) \/ Poll(t)

Instruction(t) ==
  \/ Compute(t) \/ Return(t) \/ TestInterrupt(t) \/ WaitForSignal(t) \/ Kernel(t)
  \/ \E code \in Codes : PolyFinish(t, code)
  \/ \E u \in Threads, req \in {"interrupt", "kill"} : MakeRequest(t, u, req)

Running(t) == StepFinish(t) \/ StepBegin(t) \/ Instruction(t)

\* Main has returned: the process ends, whatever its other threads do.
Exited == pc[Main] = "gone" /\ UNCHANGED vars

Next ==
  \/ pc[Main] # "gone" /\ ((\E t \in Threads : Running(t) \/ Inside(t) \/ KernelReturn(t)) \/ JoinBegin \/ JoinPoll \/ JoinEnd)
  \/ Exited

Spec == Init /\ [][Next]_vars

\* Threads run, in turn; a blocking system call need not return.
FairSpec ==
  /\ Spec
  /\ \A t \in Threads : SF_vars(Inside(t)) /\ SF_vars(Running(t))
  /\ WF_vars(JoinBegin) /\ WF_vars(JoinEnd)

-----------------------------------------------------------------------------
(* Properties *)

\* The shape of the state.
TypeOK ==
  /\ parallel \in Modes
  /\ pc \in [Threads -> Places]
  /\ request \in [Threads -> {"none", "interrupt", "kill"}]
  /\ copy \in [Threads -> BOOLEAN]
  /\ istate \in [Threads -> States[parallel]]
  /\ target \in [Threads -> Threads]
  /\ advanced \in [Threads -> BOOLEAN]
  /\ daemons \subseteq Threads
  /\ finish \subseteq Codes /\ asked \subseteq Codes /\ Cardinality(finish) <= 1
  /\ result \subseteq Codes \cup {0} /\ Cardinality(result) <= 1
  /\ \A t \in Threads : advanced[t] => pc[t] \in Sampling

\* A kill is never lost to an interrupt that is being delivered or made: once
\* requested it stays until the thread's run has ended.
KillSticks ==
  [][\A t \in Threads :
       request[t] = "kill" /\ request'[t] # "kill" => pc'[t] = "ended"]_vars

\* In giant-lock mode a pending interrupt shows in requestCopy, where SML's
\* testInterrupt looks, unless its maker has still to write it or its taker
\* has still to clear.
MirrorShowsRequest ==
  ~parallel =>
    \A t \in Threads :
      request[t] = "interrupt" =>
        \/ copy[t]
        \/ pc[t] = "clear"
        \/ \E u \in Threads : pc[u] = "mirror" /\ target[u] = t

\* In giant-lock mode an exit code asked for while Main was running is the one
\* that Main's run returns, also when a kill gets to Main first and when
\* another thread sees the flag first.
ExitCodeReachesMain ==
  [][~parallel /\ pc[Main] # "ended" /\ pc'[Main] = "ended" /\ asked # {} =>
       result' # {} /\ result' \subseteq asked]_vars

\* PolyFinish ends the process, whichever thread calls it and whatever the
\* root function and the parked signal threads do meanwhile, unless a thread is
\* blocked in the kernel.
FinishEndsProcess ==
  finish # {} ~> (pc[Main] = "gone" \/ \E t \in Threads : pc[t] = "kernel")

\* PolyFinish ends the process whatever its threads are blocked in.
FinishExits == finish # {} ~> pc[Main] = "gone"
=============================================================================
