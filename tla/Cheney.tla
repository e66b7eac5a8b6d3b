------------------------------- MODULE Cheney -------------------------------
(***************************************************************************)
(* The serial collection (gc.rs, Collector): forward the root slots, scan  *)
(* the copies in the order they were made until the scan meets the         *)
(* allocation, then fix up the weak references.                            *)
(*                                                                         *)
(* A weak object is not traced.  Its slots hold NONE or the address of a   *)
(* SOME cell, an object of one word that names a ref.  When the trace is   *)
(* over, an entry whose ref was not copied becomes NONE; the SOME cell of  *)
(* any other entry is kept, and copied if nothing but weak slots names it. *)
(*                                                                         *)
(* The permanent objects are image spaces and, as one object, the roots of *)
(* the threads.  An address in from-space or of a permanent object is the  *)
(* object; the address of a copy is its number.  Code objects and closures *)
(* are word objects, byte objects have immediate words only, and pointers  *)
(* into the middle of an object stand for it.                              *)
(***************************************************************************)
EXTENDS Integers, Sequences, FiniteSets

CONSTANTS
  From,       \* the objects in from-space
  Permanent,  \* the objects that do not move
  Weak,       \* the weak objects among both
  Null,       \* an immediate word, NONE among them
  Visited,    \* the permanent objects that the root visitor walks, in its order
  Heaps       \* the heaps to collect: the words of every object

ASSUME CheneyAssumption ==
  /\ IsFiniteSet(From) /\ From \cap Permanent = {} /\ Null \notin From \cup Permanent
  /\ (From \cup Permanent \cup {Null}) \cap Nat = {}
  /\ Weak \subseteq From \cup Permanent
  /\ Visited \in Seq(Permanent)
  /\ \A h \in Heaps : h \in [From \cup Permanent -> Seq(From \cup Permanent \cup {Null})]

\* What objects, and what weak slots, name in a heap.
Names(h, objects) == UNION {{h[o][i] : i \in DOMAIN h[o]} : o \in objects}
WeaklyNamed(h) == Names(h, Weak)

\* Weak slots are of type 'a ref option: a SOME cell is no weak object, and the
\* ref that it names is no SOME cell.  What is no cell although a weak slot
\* names it is in from-space, where weak_fixup looks at the length.  And the
\* visitor walks an object once.
ASSUME WeakAssumption ==
  /\ \A h \in Heaps : \A s \in WeaklyNamed(h) \ {Null} :
       /\ s \in Permanent => Len(h[s]) = 1
       /\ Len(h[s]) = 1 => s \notin Weak /\ h[s][1] \notin WeaklyNamed(h) \ {Null}
  /\ \A m, n \in DOMAIN Visited : Visited[m] = Visited[n] => m = n

VARIABLES
  heap,       \* history: the heap when the collection begins
  mem,        \* the words of the objects in from-space and of permanent ones
  tombstone,  \* the copy that the header in from-space names, 0 if none
  to,         \* the copies: of what, and the words
  to_used,    \* words of to-space in use
  weak,       \* weak_objects: the weak objects to fix up
  phase,      \* "roots", "scan", "weak", "done", or "overflow": the assertion failed
  at,         \* the object of the phase's list and the slot that comes next
  traced      \* history: the number of copies when the trace was over

vars == <<heap, mem, tombstone, to, to_used, weak, phase, at, traced>>

Addresses == From \cup Permanent \cup {Null} \cup Nat

-----------------------------------------------------------------------------

\* The words that objects take up; the header is word 0.
Footprint(objects) == UNION {{o} \X (0..Len(heap[o])) : o \in objects}

\* To-space has at least as many words as from-space uses.
Capacity == Cardinality(Footprint(From))

\* The objects that the phase goes through: their number, and the n-th.
Count ==
  CASE phase = "roots" -> Len(Visited) [] phase = "scan" -> Len(to) [] OTHER -> Len(weak)
Nth(n) ==
  CASE phase = "roots" -> Visited[n] [] phase = "scan" -> n [] OTHER -> weak[n]

object == Nth(at.obj)
Words(a) == IF a \in Nat THEN to[a].words ELSE mem[a]
IsWeak(a) == (IF a \in Nat THEN to[a].of ELSE a) \in Weak

First == [obj |-> 1, slot |-> 1]
NextSlot == [at EXCEPT !.slot = @ + 1]

Forwarded(a) == a \in From /\ tombstone[a] # 0
New(a) == IF a \in From THEN tombstone[a] ELSE a

Init ==
  /\ heap \in Heaps
  /\ mem = heap
  /\ tombstone = [o \in From |-> 0]
  /\ to = <<>> /\ to_used = 0 /\ weak = <<>>
  /\ phase = "roots" /\ at = First /\ traced = 0

\* The word that the next slot holds; only in a phase that has one.
HasSlot(kind) ==
  /\ phase \in kind /\ at.obj <= Count
  /\ at.slot <= Len(Words(object))
Slot == Words(object)[at.slot]

Tracing == {"roots", "scan"}
\* Mutant of MayTrace: a weak object is traced like any other.
MayTrace_WeakToo == HasSlot(Tracing)

MayTrace == HasSlot(Tracing) /\ ~IsWeak(object)

\* The slot gets word v in memory m and to-space t.
Store(m, t, v) ==
  IF object \in Nat
  THEN mem' = m /\ to' = [t EXCEPT ![object].words[at.slot] = v]
  ELSE mem' = [m EXCEPT ![object][at.slot] = v] /\ to' = t

\* A copy of o with these words; the slot and the header of o get its address.
CopyOut(o, words) ==
  LET used == to_used + 1 + Len(words) IN
  IF used > Capacity
  THEN phase' = "overflow" /\ UNCHANGED <<mem, to, to_used, tombstone, at>>
  ELSE /\ Store(mem, Append(to, [of |-> o, words |-> words]), Len(to) + 1)
       /\ tombstone' = [tombstone EXCEPT ![o] = Len(to) + 1]
       /\ to_used' = used
       /\ at' = NextSlot
       /\ UNCHANGED phase

-----------------------------------------------------------------------------

\* A weak object is put on the list instead of being traced (one without words
\* has nothing to fix up).
RegisterWeak ==
  /\ phase \in Tracing /\ at.obj <= Count /\ IsWeak(object)
  /\ Words(object) # <<>>
  /\ weak' = Append(weak, object)
  /\ at' = [obj |-> at.obj + 1, slot |-> 1]
  /\ UNCHANGED <<heap, mem, tombstone, to, to_used, phase, traced>>

\* The word is no address in from-space.
ForwardNothing ==
  /\ MayTrace /\ Slot \notin From
  /\ at' = NextSlot
  /\ UNCHANGED <<heap, mem, tombstone, to, to_used, weak, phase, traced>>

\* Mutant of ForwardKnown: the slot keeps the address in from-space.
ForwardKnown_LeavesSlot ==
  /\ MayTrace /\ Forwarded(Slot)
  /\ at' = NextSlot
  /\ UNCHANGED <<heap, mem, tombstone, to, to_used, weak, phase, traced>>

\* The object has a tombstone.
ForwardKnown ==
  /\ MayTrace /\ Forwarded(Slot)
  /\ Store(mem, to, tombstone[Slot])
  /\ at' = NextSlot
  /\ UNCHANGED <<heap, tombstone, to_used, weak, phase, traced>>

\* Mutant of ForwardCopy: no tombstone is left, and every reference makes a copy.
ForwardCopy_NoTombstone ==
  /\ MayTrace /\ Slot \in From
  /\ IF to_used + 1 + Len(mem[Slot]) > Capacity
     THEN phase' = "overflow" /\ UNCHANGED <<mem, to, to_used, at>>
     ELSE /\ Store(mem, Append(to, [of |-> Slot, words |-> mem[Slot]]), Len(to) + 1)
          /\ to_used' = to_used + 1 + Len(mem[Slot])
          /\ at' = NextSlot
          /\ UNCHANGED phase
  /\ UNCHANGED <<heap, tombstone, weak, traced>>

\* The object is met for the first time.
ForwardCopy ==
  /\ MayTrace /\ Slot \in From /\ ~Forwarded(Slot)
  /\ CopyOut(Slot, mem[Slot])
  /\ UNCHANGED <<heap, weak, traced>>

\* The slots of this object are done.
NextObject ==
  /\ at.obj <= Count /\ at.slot > Len(Words(object))
  /\ at' = [obj |-> at.obj + 1, slot |-> 1]
  /\ UNCHANGED <<heap, mem, tombstone, to, to_used, weak, phase, traced>>

\* Mutant of NextPhase: the scan stops short of the last copy.
NextPhase_LeavesLast ==
  /\ phase \in Tracing \cup {"weak"} /\ at.obj > Count - (IF phase = "scan" THEN 1 ELSE 0)
  /\ phase' = CASE phase = "roots" -> "scan" [] phase = "scan" -> "weak" [] OTHER -> "done"
  /\ at' = First
  /\ traced' = IF phase = "scan" THEN Len(to) ELSE traced
  /\ UNCHANGED <<heap, mem, tombstone, to, to_used, weak>>

NextPhase ==
  /\ phase \in Tracing \cup {"weak"} /\ at.obj > Count
  /\ phase' = CASE phase = "roots" -> "scan" [] phase = "scan" -> "weak" [] OTHER -> "done"
  /\ at' = First
  /\ traced' = IF phase = "scan" THEN Len(to) ELSE traced
  /\ UNCHANGED <<heap, mem, tombstone, to, to_used, weak>>

-----------------------------------------------------------------------------
(* weak_fixup *)

MayFix == HasSlot({"weak"})

\* A cell that was not copied: permanent, or of one word.
Cell(a) == a \in Permanent \/ (a \in From /\ ~Forwarded(a) /\ Len(mem[a]) = 1)
Dead(a) == a \in From /\ ~Forwarded(a)
Content == mem[Slot][1]

FixNone ==
  /\ MayFix /\ Slot = Null
  /\ at' = NextSlot
  /\ UNCHANGED <<heap, mem, tombstone, to, to_used, weak, phase, traced>>

\* The trace, or an earlier slot, has copied the cell.
FixCopied ==
  /\ MayFix /\ Forwarded(Slot)
  /\ Store(mem, to, tombstone[Slot])
  /\ at' = NextSlot
  /\ UNCHANGED <<heap, tombstone, to_used, weak, phase, traced>>

\* Mutant of FixDemote: a cell that was overwritten is not expected.
FixDemote_OnlyMalformed ==
  /\ MayFix /\ Dead(Slot) /\ ~Cell(Slot)
  /\ Store(mem, to, Null)
  /\ at' = NextSlot
  /\ UNCHANGED <<heap, tombstone, to_used, weak, phase, traced>>

\* No SOME cell, or one that an earlier slot has found dead.
FixDemote ==
  /\ MayFix
  /\ \/ Dead(Slot) /\ ~Cell(Slot)
     \/ Cell(Slot) /\ Content = Null
  /\ Store(mem, to, Null)
  /\ at' = NextSlot
  /\ UNCHANGED <<heap, tombstone, to_used, weak, phase, traced>>

\* The ref is dead: the cell is overwritten, too.
FixDead ==
  /\ MayFix /\ Cell(Slot) /\ Dead(Content)
  /\ Store([mem EXCEPT ![Slot][1] = Null], to, Null)
  /\ at' = NextSlot
  /\ UNCHANGED <<heap, tombstone, to_used, weak, phase, traced>>

\* Mutant of FixPermanent: a permanent cell is taken to need no fixup.
FixPermanent_Untouched ==
  /\ MayFix /\ Slot \in Permanent /\ Content # Null /\ ~Dead(Content)
  /\ at' = NextSlot
  /\ UNCHANGED <<heap, mem, tombstone, to, to_used, weak, phase, traced>>

\* The cell does not move, its ref may have.
FixPermanent ==
  /\ MayFix /\ Slot \in Permanent /\ Content # Null /\ ~Dead(Content)
  /\ mem' = [mem EXCEPT ![Slot][1] = New(Content)]
  /\ at' = NextSlot
  /\ UNCHANGED <<heap, tombstone, to, to_used, weak, phase, traced>>

\* The cell is copied with the address of the ref's copy; nobody scans it.
FixSurvivor ==
  /\ MayFix /\ Slot \in From /\ Cell(Slot) /\ Content # Null /\ ~Dead(Content)
  /\ CopyOut(Slot, <<New(Content)>>)
  /\ UNCHANGED <<heap, weak, traced>>

Next ==
  \/ RegisterWeak \/ ForwardNothing \/ ForwardKnown \/ ForwardCopy
  \/ NextObject \/ NextPhase
  \/ FixNone \/ FixCopied \/ FixDemote \/ FixDead \/ FixPermanent \/ FixSurvivor

Spec == Init /\ [][Next]_vars

\* The collector runs alone, to its end.
FairSpec == Spec /\ WF_vars(Next)
-----------------------------------------------------------------------------
(* Properties *)

\* Types: every word is an address or immediate, and a tombstone names a copy.
TypeOK ==
  /\ heap \in [From \cup Permanent -> Seq(Addresses)]
  /\ mem \in [From \cup Permanent -> Seq(Addresses)]
  /\ tombstone \in [From -> 0..Len(to)]
  /\ to \in Seq([of : From, words : Seq(Addresses)])
  /\ weak \in Seq((Permanent \cap Weak) \cup DOMAIN to)
  /\ to_used \in Nat /\ traced \in 0..Len(to)
  /\ phase \in {"roots", "scan", "weak", "done", "overflow"}
  /\ at \in [obj : Nat \ {0}, slot : Nat \ {0}]
  /\ phase \in Tracing \cup {"weak"} => at.obj <= Count + 1

\* There is one copy of an object, whoever asks for it and in whatever phase:
\* forward_object leaves a tombstone, and so does weak_fixup for a SOME cell
\* that several weak slots share.
OneCopyEach ==
  /\ \A c \in DOMAIN to : tombstone[to[c].of] = c
  /\ \A o \in From : Forwarded(o) => to[tombstone[o]].of = o

\* The scan is behind slot i of copy c.
Behind(c, i) ==
  \/ phase \in {"weak", "done"}
  \/ phase = "scan" /\ (c < at.obj \/ (c = at.obj /\ i < at.slot))

\* The Cheney invariant: behind the scan every word of a copy is what the word
\* was when the collection began, with the address of the copy for that of the
\* original; ahead of it the words are the original ones.  (Weak objects keep
\* theirs, SOME cells copied by the fixup are final.)
CopiesAreFaithful ==
  \A c \in DOMAIN to : LET o == to[c].of IN
    o \notin Weak =>
      /\ Len(to[c].words) = Len(heap[o])
      /\ \A i \in DOMAIN heap[o] :
           to[c].words[i] = IF Behind(c, i) THEN New(heap[o][i]) ELSE heap[o][i]

\* The objects that a closed set of strong references keeps alive: what the
\* visited objects name and what those name, not looking into weak ones.
Strong(o) == IF o \in Weak THEN {} ELSE {heap[o][i] : i \in DOMAIN heap[o]} \cap From
RootRefs == UNION {Strong(Visited[n]) : n \in DOMAIN Visited}
Closed(S) == RootRefs \subseteq S /\ \A o \in S : Strong(o) \subseteq S
Live == {o \in From : \A S \in SUBSET From : Closed(S) => o \in S}

\* The weak objects that the collection has to fix up, when these are alive.
LiveWeak(live) == Weak \cap (live \cup {Visited[n] : n \in DOMAIN Visited})

\* A SOME cell whose ref is alive, and those in from-space that weak slots keep.
RefLives(s, live) == heap[s][1] # Null /\ (heap[s][1] \in From => heap[s][1] \in live)
KeptCells(live) ==
  {s \in Names(heap, LiveWeak(live)) \cap From : Len(heap[s]) = 1 /\ RefLives(s, live)}

\* Without the cells of the fixup it is a trace from the roots.
Traced == INSTANCE Trace WITH
  Objects <- From,
  Refers <- [o \in From |-> Strong(o)],
  Roots <- RootRefs,
  live <- {to[c].of : c \in IF phase \in {"weak", "done"} THEN 1..traced ELSE DOMAIN to},
  over <- phase \in {"weak", "done"}

ImplementsTrace == Traced!Spec

\* The collection copies what is reachable without weak references and the
\* SOME cells that weak slots keep, nothing else and nothing less; and every
\* slot of every weak object gets the verdict that the heap before the
\* collection asks for, so it does not depend on the order of the slots, on
\* how many of them share a cell, or on who copied it: a cell that is kept
\* names the copy of its ref.
WeakVerdicts ==
  phase = "done" =>
    LET live == Live
        kept == KeptCells(live)
    IN /\ {to[c].of : c \in DOMAIN to} = live \cup kept
       /\ \A w \in LiveWeak(live) : \A i \in DOMAIN heap[w] :
            LET s == heap[w][i]
                is == Words(New(w))[i]
                keeps == s \in kept \/ (s \in Permanent /\ RefLives(s, live))
            IN /\ s \in live => is = tombstone[s]
               /\ keeps => is = New(s) /\ Words(is) = <<New(heap[s][1])>>
               /\ s \notin live /\ ~keeps => is = Null

\* To-space sized by the words that from-space uses suffices, with the SOME
\* cells that the fixup copies: the assertion in bump_to never fails.
ToSpaceSuffices == phase # "overflow"

\* The collection ends, whatever cycles the heap has: the scan meets the
\* allocation.
CollectionEnds == <>(phase = "done")
=============================================================================
