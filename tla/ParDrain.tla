------------------------------ MODULE ParDrain ------------------------------
(***************************************************************************)
(* The parallel drain of a collection (POLYML_PARALLEL_GC=1; gc.rs, mod    *)
(* par): workers scan and copy objects with no queue of objects.           *)
(*                                                                         *)
(* Each worker copies into a chunk of the to-space arena of its own, which *)
(* it scans from its start as it fills, like a serial Cheney collector.    *)
(* Whoever finds a reference claims the object by a compare-exchange of    *)
(* its header (normal -> busy) and, once the copy is whole, publishes its  *)
(* address there (busy -> copied).  Chunks that fill up before they are    *)
(* scanned, copies too large for a chunk, and slot ranges split off a wide *)
(* object go to a shared steal list.  A worker without work leaves the     *)
(* busy count; the drain is over when nobody is busy.                      *)
(*                                                                         *)
(* The roots were copied before, serially, to the start of the arena.      *)
(* Byte objects are objects whose words are all immediate; code objects    *)
(* and closures are word objects here.  Pointers into the middle of an     *)
(* object stand for the object (find_body_start).                          *)
(***************************************************************************)
EXTENDS Integers, Sequences, FiniteSets, SequencesExt

CONSTANTS
  Objects,       \* the objects in from-space
  Null,          \* an immediate word, or an address outside from-space
  Body,          \* Body[o]: the words of o
  Weak,          \* the weak objects, whose words are not traced
  RootSeq,       \* the objects copied by the roots phase, in their order
  Workers,       \* the collector threads
  ChunkWords,    \* the largest chunk that is claimed
  InitialWords,  \* the first chunk that a worker claims
  OversizeWords, \* copies above this get a chunk of their own
  SplitWords     \* slot ranges above this are split

ASSUME ParDrainAssumption ==
  /\ IsFiniteSet(Objects) /\ IsFiniteSet(Workers) /\ Null \notin Objects
  /\ Body \in [Objects -> Seq(Objects \cup {Null})]
  /\ Weak \subseteq Objects
  /\ RootSeq \in Seq(Objects) /\ IsInjective(RootSeq)
  /\ {ChunkWords, InitialWords, OversizeWords, SplitWords} \subseteq Nat \ {0}
  /\ InitialWords <= ChunkWords /\ OversizeWords <= ChunkWords

VARIABLES
  header,     \* the header word in from-space: "normal", "busy", "copied"
  to,         \* the address in the tombstone of a copied object
  arena,      \* the copies: pairs of an address and an object
  whole,      \* those whose words were written
  fillers,    \* the plugged tails of chunks: pairs of an address and a size
  arenaUsed,  \* frontier of the arena
  done,       \* the slots of copies that were forwarded: pairs <<object, slot>>
  weakFound,  \* the weak objects registered for the fixup
  steal,      \* the list of stealable tasks
  busy,       \* the count of workers that hold work
  pc,         \* where each worker is
  cur,        \* the chunk a worker copies into
  scanning,   \* a chunk it set aside to scan next: a set of at most one
  sweep,      \* the chunk that sweep_foreign scans
  own,        \* it is in sweep_own
  slots,      \* the slots of a copy that it scans: [obj, lo, hi]
  claim,      \* the object that it claimed, and where the copy goes
  next        \* the size of the next chunk that it claims

arenaVars == <<arena, whole, fillers, arenaUsed>>
objVars == <<header, to, done, weakFound>>
workVars == <<cur, scanning, sweep, own, slots, claim, next>>
vars == <<objVars, arenaVars, steal, busy, pc, workVars>>

-----------------------------------------------------------------------------

\* The words of a copy, header included.
Need(o) == 1 + Len(Body[o])

\* Where the roots phase put the i-th root.
RootAt[i \in Nat] == IF i <= 1 THEN 0 ELSE RootAt[i - 1] + Need(RootSeq[i - 1])

RootUsed == RootAt[Len(RootSeq) + 1]

RootSet == {RootSeq[i] : i \in DOMAIN RootSeq}

Chunk(from, size) == [end |-> from + size, alloc |-> from, scan |-> from]

Filled(from, size) == [end |-> from + size, alloc |-> from + size, scan |-> from]

ChunkTask(c) == [kind |-> "chunk", chunk |-> c]

SlotsTask(s) == [kind |-> "slots", slots |-> s]

NoSlots == [obj |-> Null, lo |-> 0, hi |-> 0]

NoClaim == [obj |-> Null, at |-> 0, oversize |-> FALSE]

Init ==
  /\ header = [o \in Objects |-> IF o \in RootSet THEN "copied" ELSE "normal"]
  /\ to = [o \in Objects |-> IF o \in RootSet THEN RootAt[CHOOSE i \in DOMAIN RootSeq : RootSeq[i] = o] ELSE 0]
  /\ arena = {<<RootAt[i], RootSeq[i]>> : i \in DOMAIN RootSeq}
  /\ whole = arena
  /\ fillers = {}
  /\ arenaUsed = RootUsed
  /\ done = {} /\ weakFound = {}
  /\ steal = IF RootUsed > 0 THEN <<ChunkTask(Filled(0, RootUsed))>> ELSE <<>>
  /\ busy = Cardinality(Workers)
  /\ pc = [w \in Workers |-> "drain"]
  /\ cur = [w \in Workers |-> Chunk(0, 0)]
  /\ scanning = [w \in Workers |-> {}]
  /\ sweep = [w \in Workers |-> Chunk(0, 0)]
  /\ own = [w \in Workers |-> FALSE]
  /\ slots = [w \in Workers |-> NoSlots]
  /\ claim = [w \in Workers |-> NoClaim]
  /\ next = [w \in Workers |-> InitialWords]

Goto(w, place) == pc' = [pc EXCEPT ![w] = place]

\* A chunk to be scanned becomes ours to scan next if we have none set aside,
\* else anybody's.
SetAside(w, c) ==
  IF scanning[w] = {}
  THEN scanning' = [scanning EXCEPT ![w] = {c}] /\ UNCHANGED steal
  ELSE steal' = Append(steal, ChunkTask(c)) /\ UNCHANGED scanning

-----------------------------------------------------------------------------
(* drain: where the next work comes from *)

TakeScanning(w) ==
  /\ pc[w] = "drain" /\ scanning[w] # {}
  /\ sweep' = [sweep EXCEPT ![w] = CHOOSE c \in scanning[w] : TRUE]
  /\ scanning' = [scanning EXCEPT ![w] = {}]
  /\ own' = [own EXCEPT ![w] = FALSE]
  /\ Goto(w, "sweep")
  /\ UNCHANGED <<objVars, arenaVars, steal, busy, cur, slots, claim, next>>

SweepOwn(w) ==
  /\ pc[w] = "drain" /\ scanning[w] = {} /\ cur[w].scan < cur[w].alloc
  /\ own' = [own EXCEPT ![w] = TRUE]
  /\ Goto(w, "sweep")
  /\ UNCHANGED <<objVars, arenaVars, steal, busy, cur, scanning, sweep, slots, claim, next>>

\* Take the last task of the list.
Steal(w) ==
  /\ pc[w] = "drain" /\ scanning[w] = {} /\ cur[w].scan >= cur[w].alloc
  /\ steal # <<>>
  /\ steal' = Front(steal)
  /\ own' = [own EXCEPT ![w] = FALSE]
  /\ LET task == Last(steal)
     IN IF task.kind = "chunk"
        THEN /\ sweep' = [sweep EXCEPT ![w] = task.chunk]
             /\ Goto(w, "sweep")
             /\ UNCHANGED slots
        ELSE /\ slots' = [slots EXCEPT ![w] = task.slots]
             /\ sweep' = [sweep EXCEPT ![w] = Chunk(0, 0)]
             /\ Goto(w, "scan")
  /\ UNCHANGED <<objVars, arenaVars, busy, cur, scanning, claim, next>>

\* Mutant of NothingToSteal: the idle worker looks again and stays counted.
NothingToSteal_Spins(w) ==
  /\ pc[w] = "drain" /\ scanning[w] = {} /\ cur[w].scan >= cur[w].alloc
  /\ steal = <<>>
  /\ UNCHANGED vars

NothingToSteal(w) ==
  /\ pc[w] = "drain" /\ scanning[w] = {} /\ cur[w].scan >= cur[w].alloc
  /\ steal = <<>>
  /\ Goto(w, "leave")
  /\ UNCHANGED <<objVars, arenaVars, steal, busy, workVars>>

-----------------------------------------------------------------------------
(* Quiescence *)

Leave(w) ==
  /\ pc[w] = "leave"
  /\ busy' = busy - 1
  /\ Goto(w, "probe")
  /\ UNCHANGED <<objVars, arenaVars, steal, workVars>>

Probe(w) ==
  /\ pc[w] = "probe"
  /\ Goto(w, IF steal # <<>> THEN "rejoin" ELSE "ask")
  /\ UNCHANGED <<objVars, arenaVars, steal, busy, workVars>>

Rejoin(w) ==
  /\ pc[w] = "rejoin"
  /\ busy' = busy + 1
  /\ Goto(w, "drain")
  /\ UNCHANGED <<objVars, arenaVars, steal, workVars>>

AskAgain(w) ==
  /\ pc[w] = "ask" /\ busy # 0
  /\ Goto(w, "probe")
  /\ UNCHANGED <<objVars, arenaVars, steal, busy, workVars>>

\* A filler over what is left of a chunk.
Plug(c) == IF c.alloc < c.end THEN {<<c.alloc, c.end - c.alloc>>} ELSE {}

\* Mutant of Exit: the last busy worker is taken for this one.
Exit_OneBusy(w) ==
  /\ pc[w] = "ask" /\ busy <= 1
  /\ fillers' = fillers \cup Plug(cur[w])
  /\ Goto(w, "exited")
  /\ UNCHANGED <<objVars, arena, whole, arenaUsed, steal, busy, workVars>>

\* Mutant of Exit: the open chunk is not plugged.
Exit_Unplugged(w) ==
  /\ pc[w] = "ask" /\ busy = 0
  /\ Goto(w, "exited")
  /\ UNCHANGED <<objVars, arenaVars, steal, busy, workVars>>

\* Nobody is busy: plug the open chunk and return.
Exit(w) ==
  /\ pc[w] = "ask" /\ busy = 0
  /\ fillers' = fillers \cup Plug(cur[w])
  /\ Goto(w, "exited")
  /\ UNCHANGED <<objVars, arena, whole, arenaUsed, steal, busy, workVars>>

-----------------------------------------------------------------------------
(* Scanning *)

Swept(w) == IF own[w] THEN cur[w] ELSE sweep[w]

Unswept(w) == pc[w] = "sweep" /\ Swept(w).scan < Swept(w).alloc

Advance(w, words) ==
  IF own[w]
  THEN cur' = [cur EXCEPT ![w].scan = @ + words] /\ UNCHANGED sweep
  ELSE sweep' = [sweep EXCEPT ![w].scan = @ + words] /\ UNCHANGED cur

\* The next copy in the chunk.  A weak object is registered, not scanned.
NextObject(w) ==
  /\ Unswept(w)
  /\ \E o \in Objects :
       /\ <<Swept(w).scan, o>> \in arena
       /\ Advance(w, Need(o))
       /\ IF o \in Weak
          THEN weakFound' = weakFound \cup {o} /\ UNCHANGED <<pc, slots>>
          ELSE /\ slots' = [slots EXCEPT ![w] = [obj |-> o, lo |-> 1, hi |-> Len(Body[o]) + 1]]
               /\ Goto(w, "scan")
               /\ UNCHANGED weakFound
  /\ UNCHANGED <<header, to, done, arenaVars, steal, busy, scanning, own, claim, next>>

\* A filler is a byte object.
NextFiller(w) ==
  /\ Unswept(w)
  /\ \E f \in fillers : f[1] = Swept(w).scan /\ Advance(w, f[2])
  /\ UNCHANGED <<objVars, arenaVars, steal, busy, pc, scanning, own, slots, claim, next>>

\* The chunk is scanned.
SweepEnd(w) ==
  /\ pc[w] = "sweep" /\ Swept(w).scan >= Swept(w).alloc
  /\ Goto(w, "drain")
  /\ UNCHANGED <<objVars, arenaVars, steal, busy, workVars>>

\* Mutant of Split: the halves overlap.
Split_Overlaps(w) ==
  /\ pc[w] = "scan"
  /\ LET s == slots[w]
         mid == s.lo + (s.hi - s.lo) \div 2
     IN /\ s.hi - s.lo > SplitWords
        /\ steal' = Append(steal, SlotsTask([s EXCEPT !.lo = mid]))
        /\ slots' = [slots EXCEPT ![w].hi = mid + 1]
  /\ UNCHANGED <<objVars, arenaVars, busy, pc, cur, scanning, sweep, own, claim, next>>

\* A wide range: the upper half goes to the list.
Split(w) ==
  /\ pc[w] = "scan"
  /\ LET s == slots[w]
         mid == s.lo + (s.hi - s.lo) \div 2
     IN /\ s.hi - s.lo > SplitWords
        /\ steal' = Append(steal, SlotsTask([s EXCEPT !.lo = mid]))
        /\ slots' = [slots EXCEPT ![w].hi = mid]
  /\ UNCHANGED <<objVars, arenaVars, busy, pc, cur, scanning, sweep, own, claim, next>>

\* The scan of a narrow range.
Scanning(w) == pc[w] = "scan" /\ slots[w].hi - slots[w].lo <= SplitWords

ScanEnd(w) ==
  /\ Scanning(w) /\ slots[w].lo >= slots[w].hi
  /\ slots' = [slots EXCEPT ![w] = NoSlots]
  /\ Goto(w, "sweep")
  /\ UNCHANGED <<objVars, arenaVars, steal, busy, cur, scanning, sweep, own, claim, next>>

\* The object that the slot at hand refers to.
Referent(w) == Body[slots[w].obj][slots[w].lo]

\* The slot at hand is final: on to the next one.
Forward(w) ==
  /\ done' = done \cup {<<slots[w].obj, slots[w].lo>>}
  /\ slots' = [slots EXCEPT ![w].lo = @ + 1]

\* An immediate, or the address of a copy.
Follow(w) ==
  /\ Scanning(w) /\ slots[w].lo < slots[w].hi
  /\ Referent(w) # Null => header[Referent(w)] = "copied"
  /\ Forward(w)
  /\ UNCHANGED <<header, to, weakFound, arenaVars, steal, busy, pc, cur, scanning, sweep, own, claim, next>>

\* Mutant of Claim: the busy mark is stored whatever the header is by then.
Claim_Store(w) ==
  /\ Scanning(w) /\ slots[w].lo < slots[w].hi
  /\ Referent(w) # Null /\ header[Referent(w)] # "copied"
  /\ header' = [header EXCEPT ![Referent(w)] = "busy"]
  /\ claim' = [claim EXCEPT ![w] = [NoClaim EXCEPT !.obj = Referent(w)]]
  /\ Goto(w, "alloc")
  /\ UNCHANGED <<to, done, weakFound, arenaVars, steal, busy, cur, scanning, sweep, own, slots, next>>

\* Claim an object nobody has; a busy one is waited for.
Claim(w) ==
  /\ Scanning(w) /\ slots[w].lo < slots[w].hi
  /\ Referent(w) # Null /\ header[Referent(w)] = "normal"
  /\ header' = [header EXCEPT ![Referent(w)] = "busy"]
  /\ claim' = [claim EXCEPT ![w] = [NoClaim EXCEPT !.obj = Referent(w)]]
  /\ Goto(w, "alloc")
  /\ UNCHANGED <<to, done, weakFound, arenaVars, steal, busy, cur, scanning, sweep, own, slots, next>>

-----------------------------------------------------------------------------
(* Copying *)

Place(w, at, oversize) ==
  /\ arena' = arena \cup {<<at, claim[w].obj>>}
  /\ claim' = [claim EXCEPT ![w].at = at, ![w].oversize = oversize]
  /\ Goto(w, "copy")
  /\ UNCHANGED <<objVars, whole, busy, sweep, own, slots>>

\* A slice of the arena of its own.
AllocOversize(w) ==
  /\ pc[w] = "alloc" /\ Need(claim[w].obj) > OversizeWords
  /\ arenaUsed' = arenaUsed + Need(claim[w].obj)
  /\ Place(w, arenaUsed, TRUE)
  /\ UNCHANGED <<fillers, steal, cur, scanning, next>>

Fits(w) == cur[w].alloc + Need(claim[w].obj) <= cur[w].end

AllocInChunk(w) ==
  /\ pc[w] = "alloc" /\ Need(claim[w].obj) <= OversizeWords
  /\ Fits(w)
  /\ cur' = [cur EXCEPT ![w].alloc = @ + Need(claim[w].obj)]
  /\ Place(w, cur[w].alloc, FALSE)
  /\ UNCHANGED <<fillers, arenaUsed, steal, scanning, next>>

\* Mutant of AllocSealing: the rest of the sealed chunk is dropped.
AllocSealing_Drops(w) ==
  /\ pc[w] = "alloc" /\ Need(claim[w].obj) <= OversizeWords
  /\ ~Fits(w)
  /\ LET need == Need(claim[w].obj)
         size == IF next[w] > need THEN next[w] ELSE need
     IN /\ fillers' = fillers \cup Plug(cur[w])
        /\ arenaUsed' = arenaUsed + size
        /\ cur' = [cur EXCEPT ![w] = [Chunk(arenaUsed, size) EXCEPT !.alloc = arenaUsed + need]]
        /\ next' = [next EXCEPT ![w] = IF 2 * @ < ChunkWords THEN 2 * @ ELSE ChunkWords]
        /\ UNCHANGED <<scanning, steal>>
        /\ Place(w, arenaUsed, FALSE)

\* seal_and_replace: plug the tail, claim a fresh chunk, keep what is unscanned
\* of the old one.
AllocSealing(w) ==
  /\ pc[w] = "alloc" /\ Need(claim[w].obj) <= OversizeWords
  /\ ~Fits(w)
  /\ LET need == Need(claim[w].obj)
         size == IF next[w] > need THEN next[w] ELSE need
         old == [cur[w] EXCEPT !.alloc = @ + (cur[w].end - @)]
     IN /\ fillers' = fillers \cup Plug(cur[w])
        /\ arenaUsed' = arenaUsed + size
        /\ cur' = [cur EXCEPT ![w] = [Chunk(arenaUsed, size) EXCEPT !.alloc = arenaUsed + need]]
        /\ next' = [next EXCEPT ![w] = IF 2 * @ < ChunkWords THEN 2 * @ ELSE ChunkWords]
        /\ IF cur[w].scan < old.alloc THEN SetAside(w, old) ELSE UNCHANGED <<scanning, steal>>
        /\ Place(w, arenaUsed, FALSE)

\* Mutant of Copy: the tombstone goes in first.
Copy_Publishes(w) ==
  /\ pc[w] = "copy"
  /\ header' = [header EXCEPT ![claim[w].obj] = "copied"]
  /\ to' = [to EXCEPT ![claim[w].obj] = claim[w].at]
  /\ Goto(w, "publish")
  /\ UNCHANGED <<done, weakFound, arenaVars, steal, busy, workVars>>

\* Write the words of the copy ...
Copy(w) ==
  /\ pc[w] = "copy"
  /\ whole' = whole \cup {<<claim[w].at, claim[w].obj>>}
  /\ Goto(w, "publish")
  /\ UNCHANGED <<objVars, arena, fillers, arenaUsed, steal, busy, workVars>>

\* ... publish it ...
Publish(w) ==
  /\ pc[w] = "publish"
  /\ header' = [header EXCEPT ![claim[w].obj] = "copied"]
  /\ to' = [to EXCEPT ![claim[w].obj] = claim[w].at]
  /\ Goto(w, "share")
  /\ UNCHANGED <<done, weakFound, arenaVars, steal, busy, workVars>>

\* ... have an oversize copy scanned by somebody; update the slot.
Share(w) ==
  /\ pc[w] = "share"
  /\ IF claim[w].oversize
     THEN SetAside(w, Filled(claim[w].at, Need(claim[w].obj)))
     ELSE UNCHANGED <<scanning, steal>>
  /\ Forward(w)
  /\ claim' = [claim EXCEPT ![w] = NoClaim]
  /\ Goto(w, "scan")
  /\ UNCHANGED <<header, to, weakFound, arenaVars, busy, cur, sweep, own, next>>

-----------------------------------------------------------------------------

Find(w) == TakeScanning(w) \/ SweepOwn(w) \/ Steal(w) \/ NothingToSteal(w)
Quiesce(w) == Leave(w) \/ Probe(w) \/ Rejoin(w) \/ AskAgain(w) \/ Exit(w)
Scan(w) == NextObject(w) \/ NextFiller(w) \/ SweepEnd(w) \/ Split(w) \/ ScanEnd(w) \/ Follow(w) \/ Claim(w)
Evacuate(w) == AllocOversize(w) \/ AllocInChunk(w) \/ AllocSealing(w) \/ Copy(w) \/ Publish(w) \/ Share(w)

Work(w) == Find(w) \/ Quiesce(w) \/ Scan(w) \/ Evacuate(w)

\* The scope joins the workers.
Joined == (\A w \in Workers : pc[w] = "exited") /\ UNCHANGED vars

Next == Joined \/ \E w \in Workers : Work(w)

Spec == Init /\ [][Next]_vars

\* Every worker is an OS thread that runs.
FairSpec == Spec /\ \A w \in Workers : WF_vars(Work(w))

-----------------------------------------------------------------------------
(* Properties *)

Places == {"drain", "leave", "probe", "rejoin", "ask", "exited", "sweep", "scan",
           "alloc", "copy", "publish", "share"}

Idle == {"probe", "ask", "rejoin", "exited"}

IsChunk(c) == c.scan \in 0..c.alloc /\ c.alloc \in c.scan..c.end /\ c.end <= arenaUsed

Tasks == {steal[i] : i \in DOMAIN steal}

\* The chunks that are waiting to be scanned or are being scanned.
Chunks ==
  {task.chunk : task \in {s \in Tasks : s.kind = "chunk"}}
    \cup UNION {scanning[w] \cup {cur[w], sweep[w]} : w \in Workers}

\* The shape of the state; busy counts the workers that may hold work.
TypeOK ==
  /\ header \in [Objects -> {"normal", "busy", "copied"}]
  /\ to \in [Objects -> Nat]
  /\ arena \subseteq Nat \X Objects /\ whole \subseteq arena
  /\ fillers \subseteq Nat \X (Nat \ {0})
  /\ weakFound \subseteq Weak
  /\ pc \in [Workers -> Places]
  /\ busy = Cardinality({w \in Workers : pc[w] \notin Idle})
  /\ next \in [Workers -> InitialWords..ChunkWords]
  /\ \A c \in Chunks : IsChunk(c)

\* The words of the arena that are left to scan, chunk by chunk.
Unscanned(c) == c.scan..(c.alloc - 1)

\* An object is copied once, whoever meets it; whoever reads its tombstone
\* finds the whole copy behind it; and what another worker may be handed for
\* scanning is made of whole copies and fillers.
CopiesAreWhole ==
  /\ \A c, d \in arena : c[2] = d[2] => c = d
  /\ \A o \in Objects : header[o] = "copied" => <<to[o], o>> \in whole
  /\ \A c \in Chunks \ {cur[w] : w \in Workers} :
       \A copy \in arena : copy[1] \in Unscanned(c) => copy \in whole

\* Slot ranges in hand or on the list.
Ranges == {task.slots : task \in {s \in Tasks : s.kind = "slots"}} \cup {slots[w] : w \in Workers}

\* Every slot of every copy is final, or is in a slot range, or is in a part
\* of a chunk that is left to scan: nothing is forgotten between the chunks
\* that a worker seals, sets aside and gives away.  And no range holds a slot
\* that is final: nothing is scanned a second time, when its word is no longer
\* an address in from-space.
SlotsScannedOnce ==
  /\ \A copy \in whole : copy[2] \notin Weak =>
       \A i \in DOMAIN Body[copy[2]] :
         \/ <<copy[2], i>> \in done
         \/ \E r \in Ranges : r.obj = copy[2] /\ i \in r.lo..(r.hi - 1)
         \/ \E c \in Chunks : copy[1] \in Unscanned(c)
         \/ \E w \in Workers : claim[w].obj = copy[2]
  /\ \A r \in Ranges : \A i \in r.lo..(r.hi - 1) : <<r.obj, i>> \notin done

AllExited == \A w \in Workers : pc[w] = "exited"

\* Where each piece of the arena ends.
Ends == {c[1] + Need(c[2]) : c \in arena} \cup {f[1] + f[2] : f \in fillers}
Starts == {c[1] : c \in arena} \cup {f[1] : f \in fillers}

\* When the workers have returned, copies and fillers tile the arena: the next
\* collection walks it from header to header.
ArenaTiles ==
  AllExited =>
    /\ Starts \cup {arenaUsed} = Ends \cup {0}
    /\ Cardinality(arena) + Cardinality(fillers) = Cardinality(Starts)

\* The drain is a trace from the roots: it evacuates what is reachable, and
\* when a worker returns all of it has been (Trace, EvacuatesTheReachable).
Traced == INSTANCE Trace WITH
  Refers <- [o \in Objects |-> IF o \in Weak THEN {} ELSE ToSet(Body[o]) \ {Null}],
  Roots <- RootSet,
  live <- {o \in Objects : header[o] = "copied"},
  over <- \E w \in Workers : pc[w] = "exited"

ImplementsTrace == Traced!Spec

\* The drain ends.
DrainEnds == <>AllExited
=============================================================================
