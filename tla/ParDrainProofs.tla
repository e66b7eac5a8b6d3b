--------------------------- MODULE ParDrainProofs ---------------------------
(***************************************************************************)
(* The parallel drain, for every heap, every set of workers and all sizes  *)
(* of chunks: an object is copied once and published whole, no slot is     *)
(* forgotten or scanned twice, copies and fillers tile the arena, and the  *)
(* drain implements Trace.                                                 *)
(*                                                                         *)
(* DrainInv is the inductive invariant: what each worker has in hand, which *)
(* stretches of the arena are whose, and who counts as busy.  On top of it, *)
(* Moves says of each step that work only passes from hand to hand, is done *)
(* or is found, and TilesOK that where a piece of the arena ends the next one *)
(* starts.                                                                 *)
(***************************************************************************)
EXTENDS ParDrain, FiniteSetTheorems, SequenceTheorems, WellFoundedInduction, TLAPS

-----------------------------------------------------------------------------
(* The inductive invariant *)

ChunkSet == [end : Nat, alloc : Nat, scan : Nat]
SlotsSet == [obj : Objects \cup {Null}, lo : Nat, hi : Nat]
ClaimSet == [obj : Objects \cup {Null}, at : Nat, oversize : BOOLEAN]
TaskSet == [kind : {"chunk"}, chunk : ChunkSet] \cup [kind : {"slots"}, slots : SlotsSet]

\* The variables have their types.
DataOK ==
  /\ header \in [Objects -> {"normal", "busy", "copied"}]
  /\ to \in [Objects -> Nat]
  /\ arena \subseteq Nat \X Objects /\ whole \subseteq arena
  /\ fillers \subseteq Nat \X (Nat \ {0})
  /\ arenaUsed \in Nat
  /\ done \subseteq Objects \X Nat
  /\ weakFound \subseteq Weak
  /\ steal \in Seq(TaskSet)
  /\ pc \in [Workers -> Places]
  /\ cur \in [Workers -> ChunkSet]
  /\ scanning \in [Workers -> SUBSET ChunkSet]
  /\ sweep \in [Workers -> ChunkSet]
  /\ own \in [Workers -> BOOLEAN]
  /\ slots \in [Workers -> SlotsSet]
  /\ claim \in [Workers -> ClaimSet]
  /\ next \in [Workers -> InitialWords..ChunkWords]

\* The workers that scan, those that evacuate, those that have not yet published.
InSweep == {"sweep", "scan", "alloc", "copy", "publish", "share"}
Evacuating == {"alloc", "copy", "publish", "share"}
Unpublished == {"alloc", "copy", "publish"}
Placed == {"copy", "publish", "share"}
Idling == {"leave", "probe", "rejoin", "ask", "exited"}

\* The chunks that are nobody's open chunk, holder by holder.
Shared ==
  {task.chunk : task \in {s \in Tasks : s.kind = "chunk"}}
    \cup UNION {scanning[w] \cup {sweep[w]} : w \in Workers}

\* One chunk is set aside at most, and what is not being swept has been.
HandOK(w) ==
  /\ \A c, d \in scanning[w] : c = d
  /\ pc[w] \notin InSweep \/ own[w] => sweep[w].scan >= sweep[w].alloc
  /\ pc[w] \in Idling => scanning[w] = {} /\ cur[w].scan >= cur[w].alloc

HandsOK == \A w \in Workers : HandOK(w)

\* A range in hand or on the list is of a published object that is not weak.
RangeOK(r) ==
  /\ r.obj \in Objects \ Weak /\ header[r.obj] = "copied"
  /\ 1 <= r.lo /\ r.lo <= r.hi /\ r.hi <= Len(Body[r.obj]) + 1

RangesOK ==
  /\ \A w \in Workers :
       /\ pc[w] \notin InSweep \ {"sweep"} => slots[w] = NoSlots
       /\ pc[w] \in InSweep \ {"sweep"} => RangeOK(slots[w])
  /\ \A t \in Tasks : t.kind = "slots" => RangeOK(t.slots)

\* A worker that evacuates has claimed the referent of its slot, alone.
ClaimOK(w) ==
  /\ pc[w] \notin Evacuating => claim[w] = NoClaim
  /\ pc[w] \in Evacuating =>
       /\ slots[w].lo < slots[w].hi
       /\ claim[w].obj \in Objects /\ claim[w].obj = Referent(w)
  /\ pc[w] \in Unpublished => header[claim[w].obj] = "busy"
  /\ pc[w] = "alloc" => ~claim[w].oversize
  /\ pc[w] \in Placed => <<claim[w].at, claim[w].obj>> \in arena
  /\ pc[w] \in {"publish", "share"} => <<claim[w].at, claim[w].obj>> \in whole
  /\ pc[w] = "share" => header[claim[w].obj] = "copied"
  /\ pc[w] \in Placed /\ ~claim[w].oversize => claim[w].at \in Unscanned(cur[w])

OneClaimant ==
  \A w, u \in Workers :
    pc[w] \in Evacuating /\ pc[u] \in Evacuating /\ claim[w].obj = claim[u].obj => w = u

ClaimsOK == (\A w \in Workers : ClaimOK(w)) /\ OneClaimant

\* A copy is published, or its owner has still to; and there is one of each.
CopiesOK ==
  /\ \A c \in arena :
       header[c[2]] # "copied" =>
         \E w \in Workers : pc[w] \in {"copy", "publish"} /\ claim[w].obj = c[2]
  /\ \A c, d \in arena : c[2] = d[2] => c = d
  /\ \A o \in Objects : header[o] = "copied" => <<to[o], o>> \in whole

CopyEnd(c) == c[1] + Need(c[2])
FillerEnd(f) == f[1] + f[2]

\* Two stretches of the arena do not overlap.
Apart(a, b, c, d) == b <= c \/ d <= a

\* Copies and fillers do not overlap, and nothing is above the frontier.
PiecesApart ==
  /\ \A c, d \in arena : c = d \/ Apart(c[1], CopyEnd(c), d[1], CopyEnd(d))
  /\ \A f, g \in fillers : f = g \/ Apart(f[1], FillerEnd(f), g[1], FillerEnd(g))
  /\ \A c \in arena, f \in fillers : Apart(c[1], CopyEnd(c), f[1], FillerEnd(f))
  /\ \A c \in arena : CopyEnd(c) <= arenaUsed
  /\ \A f \in fillers : FillerEnd(f) <= arenaUsed

\* The pieces that start where a chunk is left to scan end in it.
ChunkOK(c) ==
  /\ IsChunk(c)
  /\ \A p \in arena : p[1] \in Unscanned(c) => CopyEnd(p) <= c.alloc
  /\ \A f \in fillers : f[1] \in Unscanned(c) => FillerEnd(f) <= c.alloc

Open(w) == pc[w] # "exited"

\* The room in an open chunk is nobody else's: no piece is in it, and the chunk
\* does not overlap with the chunks of others.
RoomOK ==
  /\ \A c \in Shared : ChunkOK(c)
  /\ \A w \in Workers : ChunkOK(cur[w])
  /\ \A w \in Workers : Open(w) =>
       /\ \A c \in arena : Apart(c[1], CopyEnd(c), cur[w].alloc, cur[w].end)
       /\ \A f \in fillers : Apart(f[1], FillerEnd(f), cur[w].alloc, cur[w].end)
       /\ \A c \in Shared : Apart(c.scan, c.end, cur[w].scan, cur[w].end)
       /\ \A u \in Workers \ {w} : Apart(cur[u].scan, cur[u].end, cur[w].scan, cur[w].end)

\* Nobody else may scan a copy that is not yet whole and published, nor one that
\* is to become a chunk of its own.
UnsharedOK ==
  \A w \in Workers : pc[w] \in Placed =>
    /\ pc[w] # "share" \/ claim[w].oversize =>
         /\ \A c \in Shared : claim[w].at \notin Unscanned(c)
         /\ \A u \in Workers \ {w} : claim[w].at \notin Unscanned(cur[u])
    /\ claim[w].oversize =>
         /\ claim[w].at \notin Unscanned(cur[w])
         /\ \A u \in Workers : Open(u) =>
              Apart(claim[w].at, claim[w].at + Need(claim[w].obj), cur[u].scan, cur[u].end)

\* A slot that is final has its referent evacuated.
DoneOK ==
  \A s \in done :
    /\ s[2] \in DOMAIN Body[s[1]]
    /\ Body[s[1]][s[2]] # Null => header[Body[s[1]][s[2]]] = "copied"

\* The busy count is exact; there is somebody for what is on the list; and when
\* a worker has returned nobody has any work.
QuietOK ==
  /\ busy = Cardinality({w \in Workers : pc[w] \notin Idle})
  /\ steal # <<>> /\ Workers # {} => \E w \in Workers : pc[w] \notin Idling
  /\ (\E w \in Workers : pc[w] = "exited") =>
       /\ steal = <<>>
       /\ \A w \in Workers :
            /\ pc[w] \in Idling \cup {"drain"}
            /\ scanning[w] = {} /\ cur[w].scan >= cur[w].alloc

-----------------------------------------------------------------------------
(* Where the work is *)

SlotsOf(o) == IF o \in Weak THEN {} ELSE {o} \X DOMAIN Body[o]

\* The slots of the copies that are left to scan in a chunk, in an arena.
InChunk(c, copies) ==
  UNION {SlotsOf(p[2]) : p \in {q \in copies : q[1] \in Unscanned(c)}}

InChunks(chunks, copies) == UNION {InChunk(c, copies) : c \in chunks}

InRange(r) == {r.obj} \X (r.lo..(r.hi - 1))

\* Whoever may hold work: a place on the list, or a worker in one of five ways.
Holders == (Nat \X {"steal"}) \cup (Workers \X {"cur", "aside", "sweep", "slots", "claim"})

InTask(t) == IF t.kind = "chunk" THEN InChunk(t.chunk, arena) ELSE InRange(t.slots)

Held(h) ==
  CASE h[2] = "steal" -> IF h[1] \in DOMAIN steal THEN InTask(steal[h[1]]) ELSE {}
    [] h[2] = "cur"   -> InChunk(cur[h[1]], arena)
    [] h[2] = "aside" -> InChunks(scanning[h[1]], arena)
    [] h[2] = "sweep" -> InChunk(sweep[h[1]], arena)
    [] h[2] = "slots" -> InRange(slots[h[1]])
    [] h[2] = "claim" -> IF pc[h[1]] = "alloc" \/ claim[h[1]].oversize THEN SlotsOf(claim[h[1]].obj) ELSE {}

\* A slot that is to be scanned is in one place and not yet final.
WorkOnce ==
  /\ \A g, h \in Holders : g # h => Held(g) \cap Held(h) = {}
  /\ \A h \in Holders : Held(h) \cap done = {}
  /\ \A h \in Holders : \A s \in Held(h) : header[s[1]] # "normal"
  /\ \A s \in done : header[s[1]] # "normal"

\* The slots of an object that was claimed or copied are final or in some place.
WorkKept ==
  /\ \A o \in Objects : header[o] # "normal" =>
       SlotsOf(o) \subseteq done \cup UNION {Held(h) : h \in Holders}

-----------------------------------------------------------------------------
(* Induction, in a form that its users can instantiate *)

\* A set of naturals has a least element.
LEMMA Least ==
  ASSUME NEW T, T \subseteq Nat, T # {}
  PROVE  \E x \in T : \A y \in T : x <= y
<1>1. IsWellFoundedOn({p \in Nat \X Nat : p[1] < p[2]}, Nat)
  BY NatLessThanWellFounded, Zenon DEF OpToRel
<1>2. PICK x \in T : \A y \in T : <<y, x>> \notin {p \in Nat \X Nat : p[1] < p[2]}
  BY <1>1, WFMin, Zenon
<1>3. ASSUME NEW y \in T PROVE x <= y
  <2>1. <<y, x>> \in Nat \X Nat /\ <<y, x>>[1] = y /\ <<y, x>>[2] = x BY SMT
  <2>2. <<y, x>> \notin {p \in Nat \X Nat : p[1] < p[2]} BY <1>2, Zenon
  <2>3. ~ (y < x) BY <2>1, <2>2, Zenon
  <2> QED BY <2>3
<1> QED BY <1>3

\* A set that holds 0 and every successor holds every natural.
LEMMA Counting ==
  ASSUME NEW S, 0 \in S, \A n \in Nat : n \in S => n+1 \in S
  PROVE Nat \subseteq S
<1> SUFFICES ASSUME Nat \ S # {} PROVE FALSE OBVIOUS
<1>1. PICK x \in Nat \ S : \A y \in Nat \ S : x <= y BY Least
<1>2. x # 0 BY <1>1
<1>3. x-1 \in Nat /\ x-1 \in S BY <1>1, <1>2
<1>4. (x-1)+1 \in S BY <1>3
<1> QED BY <1>1, <1>2, <1>4

\* The recursion that places the roots has a solution, so that its equation holds.
LEMMA RootAtDef == RootAt = [i \in Nat |-> IF i <= 1 THEN 0 ELSE RootAt[i - 1] + Need(RootSeq[i - 1])]
<1> DEFINE D(i) == Need(RootSeq[i])
           Upto(f, n) == f = [i \in 0..n |-> IF i <= 1 THEN 0 ELSE f[i - 1] + D(i - 1)]
<1> HIDE DEF D
<1>1. ASSUME NEW n \in Nat, NEW m \in Nat, n <= m, NEW f, NEW g, Upto(f, n), Upto(g, m)
      PROVE  f[n] = g[n]
  <2> DEFINE T == {i \in 0..n : f[i] # g[i]}
  <2> SUFFICES ASSUME T # {} PROVE FALSE OBVIOUS
  <2>1. PICK i \in T : \A j \in T : i <= j
    <3>1. T \subseteq Nat OBVIOUS
    <3> HIDE DEF T
    <3> QED BY <3>1, Least
  <2>2. i \in 0..n /\ i \in 0..m /\ f[i] # g[i] BY <1>1, <2>1
  <2>3. i > 1 => i - 1 \in 0..n /\ i - 1 \notin T BY <2>1, <2>2
  <2>4. i > 1 => f[i - 1] = g[i - 1] BY <2>3
  <2>5. f[i] = IF i <= 1 THEN 0 ELSE f[i - 1] + D(i - 1) BY <1>1, <2>2
  <2>6. g[i] = IF i <= 1 THEN 0 ELSE g[i - 1] + D(i - 1) BY <1>1, <2>2
  <2> QED BY <2>2, <2>4, <2>5, <2>6
<1>2. ASSUME NEW n \in Nat PROVE \E f : Upto(f, n)
  <2> DEFINE S == {k \in Nat : \E f : Upto(f, k)}
  <2>1. 0 \in S
    <3>1. Upto([i \in 0..0 |-> 0], 0) OBVIOUS
    <3> QED BY <3>1
  <2>2. ASSUME NEW k \in Nat, k \in S PROVE k + 1 \in S
    <3>1. PICK f : Upto(f, k) BY <2>2
    <3> DEFINE v == IF k + 1 <= 1 THEN 0 ELSE f[k] + D(k)
               h == [i \in 0..(k + 1) |-> IF i = k + 1 THEN v ELSE f[i]]
    <3>2. ASSUME NEW i \in 0..(k + 1)
          PROVE  h[i] = IF i <= 1 THEN 0 ELSE h[i - 1] + D(i - 1)
      <4>1. CASE i = k + 1
        <5>1. i > 1 => i - 1 = k /\ h[i - 1] = f[k] BY <4>1
        <5> QED BY <4>1, <5>1
      <4>2. CASE i # k + 1
        <5>1. i \in 0..k BY <4>2
        <5>2. f[i] = IF i <= 1 THEN 0 ELSE f[i - 1] + D(i - 1) BY <3>1, <5>1
        <5>3. i > 1 => h[i - 1] = f[i - 1] BY <5>1
        <5> QED BY <5>1, <5>2, <5>3
      <4> QED BY <4>1, <4>2
    <3> HIDE DEF v
    <3>3. Upto(h, k + 1) BY <3>2
    <3> HIDE DEF h, Upto
    <3> QED BY <3>3
  <2> HIDE DEF S
  <2>3. Nat \subseteq S BY <2>1, <2>2, Counting
  <2> QED BY <2>3 DEF S
<1> DEFINE F(n) == CHOOSE f : Upto(f, n)
           R == [i \in Nat |-> F(i)[i]]
<1>3. ASSUME NEW n \in Nat PROVE Upto(F(n), n) BY <1>2
<1> HIDE DEF F
<1>4. ASSUME NEW i \in Nat PROVE R[i] = IF i <= 1 THEN 0 ELSE R[i - 1] + D(i - 1)
  <2>1. i \in 0..i BY <1>4
  <2>2. F(i)[i] = IF i <= 1 THEN 0 ELSE F(i)[i - 1] + D(i - 1) BY <1>3, <2>1
  <2>3. i > 1 => i - 1 \in Nat BY <1>4
  <2>4. i > 1 => F(i - 1)[i - 1] = F(i)[i - 1]
    <3> HIDE DEF Upto
    <3> SUFFICES ASSUME i > 1 PROVE F(i - 1)[i - 1] = F(i)[i - 1] OBVIOUS
    <3>1. i - 1 <= i /\ Upto(F(i - 1), i - 1) /\ Upto(F(i), i) BY <1>3, <2>3
    <3> QED BY <3>1, <2>3, <1>1
  <2> QED BY <2>2, <2>3, <2>4
<1>5. R = [i \in Nat |-> IF i <= 1 THEN 0 ELSE R[i - 1] + D(i - 1)] BY <1>4
<1> HIDE DEF R, Upto
<1>6. \E f : f = [i \in Nat |-> IF i <= 1 THEN 0 ELSE f[i - 1] + Need(RootSeq[i - 1])]
  BY <1>5 DEF D
<1>7. RootAt = CHOOSE f : f = [i \in Nat |-> IF i <= 1 THEN 0 ELSE f[i - 1] + Need(RootSeq[i - 1])]
  BY DEF RootAt
<1> QED BY <1>6, <1>7

-----------------------------------------------------------------------------
(* The steal list *)

\* What appending does to a sequence.
LEMMA Appended ==
  ASSUME NEW T, NEW s \in Seq(T), NEW x \in T
  PROVE  /\ Append(s, x) \in Seq(T) /\ Append(s, x) # <<>>
         /\ Len(Append(s, x)) = Len(s) + 1
         /\ \A i \in 1..Len(s) : Append(s, x)[i] = s[i]
         /\ Append(s, x)[Len(s) + 1] = x
         /\ DOMAIN Append(s, x) = 1..(Len(s) + 1) /\ DOMAIN s = 1..Len(s)
OBVIOUS

\* What taking the last element off a sequence leaves.
LEMMA LastTaken ==
  ASSUME NEW T, NEW s \in Seq(T), s # <<>>
  PROVE  /\ Len(s) \in Nat \ {0} /\ Last(s) = s[Len(s)] /\ Last(s) \in T
         /\ Front(s) \in Seq(T)
         /\ Len(Front(s)) = Len(s) - 1
         /\ \A i \in 1..(Len(s) - 1) : Front(s)[i] = s[i]
         /\ DOMAIN Front(s) = 1..(Len(s) - 1) /\ DOMAIN s = 1..Len(s)
<1>1. Len(s) \in Nat \ {0} OBVIOUS
<1>2. \A i \in 1..(Len(s) - 1) : s[i] \in T OBVIOUS
<1>3. /\ Front(s) \in Seq(T)
      /\ Len(Front(s)) = Len(s) - 1
      /\ \A i \in 1..(Len(s) - 1) : Front(s)[i] = s[i]
  <2> DEFINE n == Len(s) - 1
  <2>1. n \in Int /\ 1 \in Int /\ \A i \in 1..n : s[i] \in T BY <1>1, <1>2
  <2>2. /\ SubSeq(s, 1, n) \in Seq(T)
        /\ Len(SubSeq(s, 1, n)) = IF 1 <= n THEN n - 1 + 1 ELSE 0
        /\ \A i \in 1..(n - 1 + 1) : SubSeq(s, 1, n)[i] = s[1 + i - 1]
    <3> HIDE DEF n
    <3> QED BY <2>1, SubSeqProperties
  <2>3. n - 1 + 1 = n /\ n \in Nat /\ \A i \in 1..n : 1 + i - 1 = i BY <1>1
  <2> QED BY <2>2, <2>3 DEF Front
<1> QED BY <1>1, <1>3 DEF Last

\* Every object has a size, header included.
LEMMA NeedType == \A o \in Objects : Len(Body[o]) \in Nat /\ Need(o) = 1 + Len(Body[o]) /\ Need(o) \in Nat \ {0}
BY ParDrainAssumption DEF Need

\* The words of an object.
LEMMA BodyType ==
  \A o \in Objects : /\ Body[o] \in Seq(Objects \cup {Null})
                     /\ Len(Body[o]) \in Nat /\ DOMAIN Body[o] = 1..Len(Body[o])
                     /\ \A i \in 1..Len(Body[o]) : Body[o][i] \in Objects \cup {Null}
BY ParDrainAssumption

\* What an update of a chunk, of a slot range, of a claim keeps.
LEMMA ChunkFields ==
  ASSUME NEW c \in ChunkSet
  PROVE  /\ c.end \in Nat /\ c.alloc \in Nat /\ c.scan \in Nat
         /\ \A n \in Nat : /\ [c EXCEPT !.scan = n] \in ChunkSet
                           /\ [c EXCEPT !.scan = n].scan = n
                           /\ [c EXCEPT !.scan = n].alloc = c.alloc
                           /\ [c EXCEPT !.scan = n].end = c.end
                           /\ [c EXCEPT !.alloc = n] \in ChunkSet
                           /\ [c EXCEPT !.alloc = n].scan = c.scan
                           /\ [c EXCEPT !.alloc = n].alloc = n
                           /\ [c EXCEPT !.alloc = n].end = c.end
BY DEF ChunkSet

\* The same for a slot range.
LEMMA SlotsFields ==
  ASSUME NEW s \in SlotsSet
  PROVE  /\ s.obj \in Objects \cup {Null} /\ s.lo \in Nat /\ s.hi \in Nat
         /\ \A n \in Nat : /\ [s EXCEPT !.lo = n] \in SlotsSet
                           /\ [s EXCEPT !.lo = n].obj = s.obj
                           /\ [s EXCEPT !.lo = n].lo = n
                           /\ [s EXCEPT !.lo = n].hi = s.hi
                           /\ [s EXCEPT !.hi = n] \in SlotsSet
                           /\ [s EXCEPT !.hi = n].obj = s.obj
                           /\ [s EXCEPT !.hi = n].lo = s.lo
                           /\ [s EXCEPT !.hi = n].hi = n
BY DEF SlotsSet

\* The fields of a claim.
LEMMA ClaimFields ==
  ASSUME NEW c \in ClaimSet
  PROVE  c.obj \in Objects \cup {Null} /\ c.at \in Nat /\ c.oversize \in BOOLEAN
BY DEF ClaimSet

\* How a scan moves on, how a slot is left behind.
LEMMA AdvanceFields ==
  ASSUME NEW w \in Workers, NEW n \in Nat, Advance(w, n),
         cur \in [Workers -> ChunkSet], sweep \in [Workers -> ChunkSet]
  PROVE  /\ cur' \in [Workers -> ChunkSet] /\ sweep' \in [Workers -> ChunkSet]
         /\ own[w] => sweep' = sweep /\ cur' = [cur EXCEPT ![w] = [cur[w] EXCEPT !.scan = cur[w].scan + n]]
         /\ ~own[w] => cur' = cur /\ sweep' = [sweep EXCEPT ![w] = [sweep[w] EXCEPT !.scan = sweep[w].scan + n]]
<1>1. CASE own[w]
  <2>1. cur' = [cur EXCEPT ![w] = [cur[w] EXCEPT !.scan = cur[w].scan + n]] /\ sweep' = sweep
    BY <1>1 DEF Advance
  <2>2. cur[w] \in ChunkSet /\ cur[w].scan + n \in Nat BY ChunkFields
  <2>3. [cur[w] EXCEPT !.scan = cur[w].scan + n] \in ChunkSet BY <2>2, ChunkFields
  <2> QED BY <1>1, <2>1, <2>3
<1>2. CASE ~own[w]
  <2>1. sweep' = [sweep EXCEPT ![w] = [sweep[w] EXCEPT !.scan = sweep[w].scan + n]] /\ cur' = cur
    BY <1>2 DEF Advance
  <2>2. sweep[w] \in ChunkSet /\ sweep[w].scan + n \in Nat BY ChunkFields
  <2>3. [sweep[w] EXCEPT !.scan = sweep[w].scan + n] \in ChunkSet BY <2>2, ChunkFields
  <2> QED BY <1>2, <2>1, <2>3
<1> QED BY <1>1, <1>2

\* A slot that is forwarded leaves the range at its lower end.
LEMMA ForwardFields ==
  ASSUME NEW w \in Workers, Forward(w), slots \in [Workers -> SlotsSet]
  PROVE  /\ slots' = [slots EXCEPT ![w] = [slots[w] EXCEPT !.lo = slots[w].lo + 1]]
         /\ slots' \in [Workers -> SlotsSet]
         /\ done' = done \cup {<<slots[w].obj, slots[w].lo>>}
<1>1. slots' = [slots EXCEPT ![w] = [slots[w] EXCEPT !.lo = slots[w].lo + 1]]
  BY DEF Forward
<1>2. slots[w] \in SlotsSet /\ slots[w].lo + 1 \in Nat BY SlotsFields
<1>3. [slots[w] EXCEPT !.lo = slots[w].lo + 1] \in SlotsSet BY <1>2, SlotsFields
<1> QED BY <1>1, <1>3 DEF Forward

USE DEF vars, objVars, arenaVars, workVars, Goto

-----------------------------------------------------------------------------
(* The steps keep the types *)

\* A chunk that is set aside is one more chunk to scan, or one more task.
LEMMA SetAsideType ==
  ASSUME DataOK, NEW w \in Workers, NEW c \in ChunkSet, SetAside(w, c)
  PROVE  scanning' \in [Workers -> SUBSET ChunkSet] /\ steal' \in Seq(TaskSet)
<1>1. CASE scanning[w] = {}
  <2>1. {c} \in SUBSET ChunkSet OBVIOUS
  <2> QED BY <1>1, <2>1 DEF SetAside, DataOK
<1>2. CASE scanning[w] # {}
  <2>1. ChunkTask(c) \in TaskSet BY DEF ChunkTask, TaskSet
  <2>2. steal' = Append(steal, ChunkTask(c)) /\ scanning' = scanning BY <1>2 DEF SetAside
  <2>3. steal' \in Seq(TaskSet)
    <3>1. steal \in Seq(TaskSet) BY DEF DataOK
    <3> QED BY <2>1, <2>2, <3>1, Appended
  <2> QED BY <2>2, <2>3 DEF DataOK
<1> QED BY <1>1, <1>2

\* No step leaves the types.
LEMMA TypeStep ==
  ASSUME DataOK, RangesOK, ClaimsOK, NEW w \in Workers, Work(w)
  PROVE  DataOK'
<1> USE DEF DataOK, Places
<1>1. CASE TakeScanning(w) BY <1>1 DEF TakeScanning
<1>2. CASE SweepOwn(w) BY <1>2 DEF SweepOwn
<1>3. CASE Steal(w)
  <2>1. steal' \in Seq(TaskSet) /\ Last(steal) \in TaskSet BY <1>3, LastTaken DEF Steal
  <2>2. CASE Last(steal).kind = "chunk"
    <3>1. Last(steal).chunk \in ChunkSet BY <2>1, <2>2 DEF TaskSet
    <3> QED BY <1>3, <2>1, <2>2, <3>1 DEF Steal
  <2>3. CASE Last(steal).kind # "chunk"
    <3>1. Last(steal).slots \in SlotsSet BY <2>1, <2>3 DEF TaskSet
    <3>2. Chunk(0, 0) \in ChunkSet BY DEF Chunk, ChunkSet
    <3>3. /\ slots' = [slots EXCEPT ![w] = Last(steal).slots]
          /\ sweep' = [sweep EXCEPT ![w] = Chunk(0, 0)]
          /\ own' = [own EXCEPT ![w] = FALSE]
          /\ pc' = [pc EXCEPT ![w] = "scan"]
          /\ UNCHANGED <<objVars, arenaVars, busy, cur, scanning, claim, next>>
      BY <1>3, <2>3 DEF Steal, Goto
    <3> QED BY <2>1, <3>1, <3>2, <3>3
  <2> QED BY <2>2, <2>3
<1>4. CASE NothingToSteal(w) BY <1>4 DEF NothingToSteal
<1>5. CASE Leave(w) BY <1>5 DEF Leave
<1>6. CASE Probe(w) BY <1>6 DEF Probe
<1>7. CASE Rejoin(w) BY <1>7 DEF Rejoin
<1>8. CASE AskAgain(w) BY <1>8 DEF AskAgain
<1>9. CASE Exit(w)
  <2>1. cur[w].alloc \in Nat /\ cur[w].end \in Nat BY DEF ChunkSet
  <2>2. Plug(cur[w]) \subseteq Nat \X (Nat \ {0}) BY <2>1 DEF Plug
  <2> QED BY <1>9, <2>2 DEF Exit
<1>10. CASE NextObject(w)
  <2>1. PICK o \in Objects :
          /\ Advance(w, Need(o))
          /\ IF o \in Weak
             THEN weakFound' = weakFound \cup {o} /\ UNCHANGED <<pc, slots>>
             ELSE /\ slots' = [slots EXCEPT ![w] = [obj |-> o, lo |-> 1, hi |-> Len(Body[o]) + 1]]
                  /\ Goto(w, "scan")
                  /\ UNCHANGED weakFound
    BY <1>10 DEF NextObject
  <2>2. cur' \in [Workers -> ChunkSet] /\ sweep' \in [Workers -> ChunkSet]
    BY <2>1, NeedType, AdvanceFields
  <2>3. [obj |-> o, lo |-> 1, hi |-> Len(Body[o]) + 1] \in SlotsSet BY NeedType DEF SlotsSet
  <2>4. slots' \in [Workers -> SlotsSet] /\ pc' \in [Workers -> Places] /\ weakFound' \subseteq Weak
    BY <2>1, <2>3
  <2> QED BY <1>10, <2>2, <2>4 DEF NextObject
<1>11. CASE NextFiller(w)
  <2>1. PICK f \in fillers : Advance(w, f[2]) BY <1>11 DEF NextFiller
  <2>2. f[2] \in Nat OBVIOUS
  <2>3. cur' \in [Workers -> ChunkSet] /\ sweep' \in [Workers -> ChunkSet]
    BY <2>1, <2>2, AdvanceFields
  <2> QED BY <1>11, <2>3 DEF NextFiller
<1>12. CASE SweepEnd(w) BY <1>12 DEF SweepEnd
<1>13. CASE Split(w)
  <2> DEFINE s == slots[w]
             mid == s.lo + (s.hi - s.lo) \div 2
  <2>1. s \in SlotsSet /\ s.lo <= s.hi /\ s.lo \in Nat /\ s.hi \in Nat
    BY <1>13 DEF Split, RangesOK, RangeOK, SlotsSet, InSweep
  <2>2. mid \in Nat BY <2>1
  <2>3. steal' = Append(steal, SlotsTask([s EXCEPT !.lo = mid])) /\ slots' = [slots EXCEPT ![w].hi = mid]
    BY <1>13 DEF Split
  <2> HIDE DEF mid
  <2>4. SlotsTask([s EXCEPT !.lo = mid]) \in TaskSet BY <2>1, <2>2 DEF SlotsTask, TaskSet, SlotsSet
  <2>5. steal' \in Seq(TaskSet) BY <2>3, <2>4, Appended
  <2>6. slots' \in [Workers -> SlotsSet] BY <2>2, <2>3 DEF SlotsSet
  <2> QED BY <1>13, <2>5, <2>6 DEF Split
<1>14. CASE ScanEnd(w)
  <2>1. NoSlots \in SlotsSet BY DEF NoSlots, SlotsSet
  <2> QED BY <1>14, <2>1 DEF ScanEnd
<1>15. CASE Follow(w)
  <2>1. slots[w].obj \in Objects BY <1>15 DEF Follow, Scanning, RangesOK, RangeOK, InSweep
  <2> QED BY SMTT(40), <1>15, <2>1, ForwardFields, SlotsFields DEF Follow
<1>16. CASE Claim(w)
  <2>1. Referent(w) \in Objects \cup {Null}
    <3>1. /\ slots[w].obj \in Objects /\ Body[slots[w].obj] \in Seq(Objects \cup {Null})
          /\ slots[w].lo \in 1..Len(Body[slots[w].obj])
      <4>1. slots[w].lo < slots[w].hi /\ RangeOK(slots[w]) BY <1>16 DEF Claim, Scanning, RangesOK, InSweep
      <4> QED BY <4>1, BodyType, SlotsFields DEF RangeOK
    <3> QED BY <3>1, BodyType DEF Referent
  <2>2. [NoClaim EXCEPT !.obj = Referent(w)] \in ClaimSet BY <2>1 DEF NoClaim, ClaimSet
  <2> QED BY <1>16, <2>2 DEF Claim
<1>17. CASE AllocOversize(w)
  <2>1. claim[w].obj \in Objects BY <1>17 DEF AllocOversize, ClaimsOK, ClaimOK, OneClaimant, Evacuating
  <2>2. Need(claim[w].obj) \in Nat BY <2>1, NeedType
  <2>3. [claim EXCEPT ![w].at = arenaUsed, ![w].oversize = TRUE] \in [Workers -> ClaimSet]
    BY DEF ClaimSet
  <2> QED BY <1>17, <2>1, <2>2, <2>3 DEF AllocOversize, Place
<1>18. CASE AllocInChunk(w)
  <2>1. claim[w].obj \in Objects BY <1>18 DEF AllocInChunk, ClaimsOK, ClaimOK, OneClaimant, Evacuating
  <2>2. Need(claim[w].obj) \in Nat BY <2>1, NeedType
  <2>3. cur[w].alloc \in Nat BY DEF ChunkSet
  <2>4. cur' \in [Workers -> ChunkSet]
    <3>1. cur' = [cur EXCEPT ![w] = [cur[w] EXCEPT !.alloc = cur[w].alloc + Need(claim[w].obj)]]
      BY <1>18 DEF AllocInChunk
    <3>2. cur[w] \in ChunkSet /\ cur[w].alloc + Need(claim[w].obj) \in Nat BY <2>2, ChunkFields
    <3>3. [cur[w] EXCEPT !.alloc = cur[w].alloc + Need(claim[w].obj)] \in ChunkSet BY <3>2, ChunkFields
    <3> QED BY <3>1, <3>3
  <2>5. [claim EXCEPT ![w].at = cur[w].alloc, ![w].oversize = FALSE] \in [Workers -> ClaimSet]
    BY <2>3 DEF ClaimSet
  <2> QED BY SMTT(40), <1>18, <2>1, <2>3, <2>4, <2>5 DEF AllocInChunk, Place
<1>19. CASE AllocSealing(w)
  <2> DEFINE need == Need(claim[w].obj)
             size == IF next[w] > need THEN next[w] ELSE need
             old == [cur[w] EXCEPT !.alloc = @ + (cur[w].end - @)]
  <2>1. claim[w].obj \in Objects BY <1>19 DEF AllocSealing, ClaimsOK, ClaimOK, OneClaimant, Evacuating
  <2>2. need \in Nat BY <2>1, NeedType
  <2>3. next[w] \in Nat /\ next' \in [Workers -> InitialWords..ChunkWords]
    BY <1>19, ParDrainAssumption DEF AllocSealing
  <2>4. size \in Nat BY <2>2, <2>3
  <2>5. cur[w].alloc \in Nat /\ cur[w].end \in Nat /\ old \in ChunkSet
    <3>1. cur[w].alloc \in Nat /\ cur[w].end \in Nat /\ cur[w].alloc + (cur[w].end - cur[w].alloc) \in Nat
      BY ChunkFields
    <3> QED BY <3>1, ChunkFields
  <2>6. fillers' \subseteq Nat \X (Nat \ {0})
    <3>1. Plug(cur[w]) \subseteq Nat \X (Nat \ {0}) BY <2>5 DEF Plug
    <3> QED BY <1>19, <3>1 DEF AllocSealing
  <2>7. cur' = [cur EXCEPT ![w] = [Chunk(arenaUsed, size) EXCEPT !.alloc = arenaUsed + need]]
        /\ arenaUsed' = arenaUsed + size
        /\ Place(w, arenaUsed, FALSE)
        /\ IF cur[w].scan < old.alloc THEN SetAside(w, old) ELSE UNCHANGED <<scanning, steal>>
    BY <1>19 DEF AllocSealing
  <2> HIDE DEF size, need, old
  <2>8. cur' \in [Workers -> ChunkSet]
    <3>1. Chunk(arenaUsed, size) \in ChunkSet BY <2>4 DEF Chunk, ChunkSet
    <3>2. [Chunk(arenaUsed, size) EXCEPT !.alloc = arenaUsed + need] \in ChunkSet
      <4>1. arenaUsed + need \in Nat BY <2>2
      <4> QED BY <4>1, <3>1, ChunkFields
    <3> QED BY <2>7, <3>2
  <2>9. scanning' \in [Workers -> SUBSET ChunkSet] /\ steal' \in Seq(TaskSet)
    BY <2>5, <2>7, SetAsideType
  <2>10. [claim EXCEPT ![w].at = arenaUsed, ![w].oversize = FALSE] \in [Workers -> ClaimSet]
    BY DEF ClaimSet
  <2> QED BY SMTT(40), <2>1, <2>3, <2>4, <2>6, <2>7, <2>8, <2>9, <2>10 DEF Place
<1>20. CASE Copy(w)
  <2>1. <<claim[w].at, claim[w].obj>> \in arena BY <1>20 DEF Copy, ClaimsOK, ClaimOK, Placed
  <2>2. whole' = whole \cup {<<claim[w].at, claim[w].obj>>} /\ pc' = [pc EXCEPT ![w] = "publish"]
        /\ UNCHANGED <<objVars, arena, fillers, arenaUsed, steal, busy, workVars>>
    BY <1>20 DEF Copy
  <2>3. whole' \subseteq arena' BY <2>1, <2>2
  <2> QED BY <2>2, <2>3
<1>21. CASE Publish(w) BY <1>21 DEF Publish, ClaimSet
<1>22. CASE Share(w)
  <2>1. claim[w].obj \in Objects /\ slots[w].obj \in Objects
    BY <1>22 DEF Share, ClaimsOK, ClaimOK, OneClaimant, RangesOK, RangeOK, Evacuating, InSweep
  <2>2. Need(claim[w].obj) \in Nat /\ claim[w].at \in Nat BY <2>1, NeedType DEF ClaimSet
  <2>3. Filled(claim[w].at, Need(claim[w].obj)) \in ChunkSet BY <2>2 DEF Filled, ChunkSet
  <2>4. scanning' \in [Workers -> SUBSET ChunkSet] /\ steal' \in Seq(TaskSet)
    BY <1>22, <2>3, SetAsideType DEF Share
  <2>5. NoClaim \in ClaimSet BY DEF NoClaim, ClaimSet
  <2>6. done' \subseteq Objects \X Nat /\ slots' \in [Workers -> SlotsSet]
    BY <1>22, <2>1, ForwardFields, SlotsFields DEF Share
  <2> QED BY <1>22, <2>4, <2>5, <2>6 DEF Share
<1> QED
  BY <1>1, <1>2, <1>3, <1>4, <1>5, <1>6, <1>7, <1>8, <1>9, <1>10, <1>11, <1>12, <1>13, <1>14, <1>15,
     <1>16, <1>17, <1>18, <1>19, <1>20, <1>21, <1>22
  DEF Work, Find, Quiesce, Scan, Evacuate

-----------------------------------------------------------------------------
(* Steps that only pass chunks from hand to hand and scan on *)

\* The chunks that are nobody's open chunk, now and after a step.
LEMMA SharedDef ==
  /\ \A c : c \in Shared <=> \/ \E t \in Tasks : t.kind = "chunk" /\ c = t.chunk
                             \/ \E u \in Workers : c \in scanning[u] \/ c = sweep[u]
  /\ \A c : c \in Shared' <=> \/ \E t \in Tasks' : t.kind = "chunk" /\ c = t.chunk
                              \/ \E u \in Workers : c \in scanning'[u] \/ c = sweep'[u]
BY DEF Shared

\* They stay the same while no chunk is listed, set aside or taken to sweep.
LEMMA SharedSame ==
  ASSUME UNCHANGED <<steal, scanning, sweep>>
  PROVE  Shared' = Shared
<1>1. Tasks' = Tasks BY DEF Tasks
<1>2. \A c : c \in Shared' <=> c \in Shared BY <1>1, SharedDef
<1> QED BY <1>2

\* The tasks after one is stolen ...
LEMMA TaskTaken ==
  ASSUME steal \in Seq(TaskSet), steal # <<>>, steal' = Front(steal)
  PROVE  Tasks' \subseteq Tasks /\ Last(steal) \in Tasks /\ Tasks = Tasks' \cup {Last(steal)}
BY LastTaken DEF Tasks

\* ... and after one is given away.
LEMMA TaskPut ==
  ASSUME steal \in Seq(TaskSet), NEW x \in TaskSet, steal' = Append(steal, x)
  PROVE  Tasks' = Tasks \cup {x}
BY Appended DEF Tasks

\* d is c, scanned further.
Within(d, c) ==
  d.end = c.end /\ d.alloc = c.alloc /\ c.scan <= d.scan /\ d.scan <= d.alloc

Plain(w) ==
  /\ UNCHANGED <<header, to, arena, whole, fillers, arenaUsed, claim>>
  /\ pc[w] \notin Evacuating \cup {"exited"}
  /\ \E p \in Places \ (Evacuating \cup {"exited"}) : pc' = [pc EXCEPT ![w] = p]
  /\ \A u \in Workers \ {w} : slots'[u] = slots[u] /\ cur'[u] = cur[u]
  /\ \A d \in Shared' : \E c \in Shared \cup {Chunk(0, 0)} : Within(d, c)
  /\ \A u \in Workers : Within(cur'[u], cur[u])

\* A chunk is itself, scanned no further.
LEMMA WithinItself ==
  /\ \A c \in ChunkSet : IsChunk(c) => Within(c, c)
  /\ Within(Chunk(0, 0), Chunk(0, 0))
BY DEF Within, IsChunk, ChunkSet, Chunk

\* What is in hand and on the list has its type ...
LEMMA ChunkTypes ==
  ASSUME DataOK
  PROVE  /\ Shared \subseteq ChunkSet /\ \A u \in Workers : cur[u] \in ChunkSet
         /\ steal \in Seq(TaskSet) /\ Tasks \subseteq TaskSet
<1>1. Tasks \subseteq TaskSet BY DEF DataOK, Tasks
<1>2. \A c \in Shared : c \in ChunkSet BY <1>1, SharedDef DEF DataOK, TaskSet
<1> QED BY <1>1, <1>2 DEF DataOK

\* ... and has it after a step.
LEMMA ChunkTypesAfter ==
  ASSUME DataOK'
  PROVE  Shared' \subseteq ChunkSet /\ \A u \in Workers : cur'[u] \in ChunkSet
<1>1. /\ steal' \in Seq(TaskSet) /\ scanning' \in [Workers -> SUBSET ChunkSet]
      /\ sweep' \in [Workers -> ChunkSet] /\ cur' \in [Workers -> ChunkSet]
  BY DEF DataOK
<1>2. Tasks' \subseteq TaskSet BY <1>1 DEF Tasks
<1>3. ASSUME NEW c \in Shared' PROVE c \in ChunkSet
  <2>1. CASE \E t \in Tasks' : t.kind = "chunk" /\ c = t.chunk BY <1>2, <2>1 DEF TaskSet
  <2>2. CASE \E u \in Workers : c \in scanning'[u] \/ c = sweep'[u] BY <1>1, <2>2
  <2> QED BY <1>3, <2>1, <2>2, SharedDef
<1> QED BY <1>1, <1>3

\* Whatever is to be scanned next fits into what is left to scan.
LEMMA AdvanceWithin ==
  ASSUME DataOK, RoomOK, NEW w \in Workers, NEW n \in Nat, Advance(w, n),
         Swept(w).scan + n <= Swept(w).alloc, UNCHANGED <<steal, scanning>>
  PROVE  /\ \A d \in Shared' : \E c \in Shared \cup {Chunk(0, 0)} : Within(d, c)
         /\ \A u \in Workers : Within(cur'[u], cur[u])
         /\ \A u \in Workers \ {w} : cur'[u] = cur[u]
<1>1. cur \in [Workers -> ChunkSet] /\ sweep \in [Workers -> ChunkSet] BY DEF DataOK
<1>2. \A u \in Workers : Within(cur[u], cur[u]) BY <1>1, WithinItself DEF RoomOK, ChunkOK
<1>3. \A c \in Shared : Within(c, c) BY ChunkTypes, WithinItself DEF RoomOK, ChunkOK
<1>4. Tasks' = Tasks BY DEF Tasks
<1>5. CASE own[w]
  <2>1. sweep' = sweep /\ cur' = [cur EXCEPT ![w] = [cur[w] EXCEPT !.scan = cur[w].scan + n]]
    BY <1>1, <1>5, AdvanceFields
  <2>2. Shared' = Shared BY <1>4, <2>1, SharedDef
  <2>3. cur[w] \in ChunkSet /\ cur[w].scan + n \in Nat BY <1>1, ChunkFields
  <2>4. Within([cur[w] EXCEPT !.scan = cur[w].scan + n], cur[w])
    BY <1>5, <2>3, ChunkFields DEF Within, Swept
  <2> QED BY <1>1, <1>2, <1>3, <2>1, <2>2, <2>4
<1>6. CASE ~own[w]
  <2>1. cur' = cur /\ sweep' = [sweep EXCEPT ![w] = [sweep[w] EXCEPT !.scan = sweep[w].scan + n]]
    BY <1>1, <1>6, AdvanceFields
  <2>2. sweep[w] \in ChunkSet /\ sweep[w].scan + n \in Nat BY <1>1, ChunkFields
  <2>3. Within([sweep[w] EXCEPT !.scan = sweep[w].scan + n], sweep[w])
    BY <1>6, <2>2, ChunkFields DEF Within, Swept
  <2>4. ASSUME NEW d \in Shared' PROVE d \in Shared \/ d = [sweep[w] EXCEPT !.scan = sweep[w].scan + n]
    BY <1>1, <1>4, <2>1, SharedDef
  <2>5. sweep[w] \in Shared BY SharedDef
  <2> QED BY <1>2, <1>3, <2>1, <2>3, <2>4, <2>5
<1> QED BY <1>5, <1>6

\* A step that only finds, moves or scans work is plain.
LEMMA PlainStep ==
  ASSUME DataOK, RangesOK, ClaimsOK, RoomOK, NEW w \in Workers,
         \/ Find(w) \/ Leave(w) \/ Probe(w) \/ Rejoin(w) \/ AskAgain(w)
         \/ NextObject(w) \/ NextFiller(w) \/ SweepEnd(w) \/ Split(w) \/ ScanEnd(w) \/ Follow(w)
  PROVE  Plain(w)
<1>1. cur \in [Workers -> ChunkSet] /\ sweep \in [Workers -> ChunkSet] /\ pc \in [Workers -> Places]
      /\ steal \in Seq(TaskSet) /\ scanning \in [Workers -> SUBSET ChunkSet] /\ slots \in [Workers -> SlotsSet]
  BY DEF DataOK
<1>2. \A u \in Workers : Within(cur[u], cur[u]) BY <1>1, WithinItself DEF RoomOK, ChunkOK
<1>3. \A c \in Shared \cup {Chunk(0, 0)} : Within(c, c) BY ChunkTypes, WithinItself DEF RoomOK, ChunkOK
<1> DEFINE Rest == /\ UNCHANGED <<header, to, arena, whole, fillers, arenaUsed, claim>>
                   /\ pc[w] \notin Evacuating \cup {"exited"}
                   /\ \E p \in Places \ (Evacuating \cup {"exited"}) : pc' = [pc EXCEPT ![w] = p]
                   /\ \A u \in Workers \ {w} : slots'[u] = slots[u]
<1>4. ASSUME Rest, UNCHANGED cur, Shared' \subseteq Shared \cup {Chunk(0, 0)} PROVE Plain(w)
  BY <1>2, <1>3, <1>4 DEF Plain
<1>5. ASSUME UNCHANGED <<steal, scanning, sweep>> PROVE Shared' = Shared
  BY <1>5, SharedDef DEF Tasks
<1>6. pc[w] \in Places /\ pc = [pc EXCEPT ![w] = pc[w]] BY <1>1
<1>7. CASE TakeScanning(w)
  <2>1. Rest /\ UNCHANGED cur BY <1>7 DEF TakeScanning, Evacuating, Places
  <2>2. Tasks' = Tasks BY <1>7 DEF TakeScanning, Tasks
  <2>3. Shared' \subseteq Shared BY <1>1, <1>7, <2>2, SharedDef DEF TakeScanning
  <2> QED BY <1>4, <2>1, <2>3
<1>8. CASE SweepOwn(w)
  <2>1. Rest /\ UNCHANGED <<cur, steal, scanning, sweep>> BY <1>8 DEF SweepOwn, Evacuating, Places
  <2> QED BY <1>4, <1>5, <2>1
<1>9. CASE Steal(w)
  <2>1. Rest /\ UNCHANGED cur BY <1>1, <1>9 DEF Steal, Evacuating, Places
  <2>2. Tasks' \subseteq Tasks /\ Last(steal) \in Tasks BY <1>1, <1>9, TaskTaken DEF Steal
  <2>3. Shared' \subseteq Shared \cup {Chunk(0, 0)}
    BY <1>1, <1>9, <2>2, SharedDef DEF Steal
  <2> QED BY <1>4, <2>1, <2>3
<1>10. CASE NothingToSteal(w)
  <2>1. Rest /\ UNCHANGED <<cur, steal, scanning, sweep>> BY <1>10 DEF NothingToSteal, Evacuating, Places
  <2> QED BY <1>4, <1>5, <2>1
<1>11. CASE Leave(w)
  <2>1. Rest /\ UNCHANGED <<cur, steal, scanning, sweep>> BY <1>11 DEF Leave, Evacuating, Places
  <2> QED BY <1>4, <1>5, <2>1
<1>12. CASE Probe(w)
  <2>1. Rest /\ UNCHANGED <<cur, steal, scanning, sweep>> BY <1>12 DEF Probe, Evacuating, Places
  <2> QED BY <1>4, <1>5, <2>1
<1>13. CASE Rejoin(w)
  <2>1. Rest /\ UNCHANGED <<cur, steal, scanning, sweep>> BY <1>13 DEF Rejoin, Evacuating, Places
  <2> QED BY <1>4, <1>5, <2>1
<1>14. CASE AskAgain(w)
  <2>1. Rest /\ UNCHANGED <<cur, steal, scanning, sweep>> BY <1>14 DEF AskAgain, Evacuating, Places
  <2> QED BY <1>4, <1>5, <2>1
<1>15. CASE NextObject(w)
  <2>1. Rest BY <1>1, <1>6, <1>15 DEF NextObject, Unswept, Evacuating, Places
  <2>2. PICK o \in Objects : <<Swept(w).scan, o>> \in arena /\ Advance(w, Need(o)) BY <1>15 DEF NextObject
  <2>3. Swept(w).scan \in Unscanned(Swept(w)) BY <1>1, <1>15, ChunkFields DEF NextObject, Unswept, Unscanned, Swept
  <2>4. ChunkOK(Swept(w)) BY SharedDef DEF RoomOK, Swept
  <2>5. Swept(w).scan + Need(o) <= Swept(w).alloc BY <2>2, <2>3, <2>4 DEF ChunkOK, CopyEnd
  <2>6. UNCHANGED <<steal, scanning>> BY <1>15 DEF NextObject
  <2>7. Need(o) \in Nat BY NeedType
  <2> QED BY <2>1, <2>2, <2>5, <2>6, <2>7, AdvanceWithin DEF Plain
<1>16. CASE NextFiller(w)
  <2>1. Rest BY <1>1, <1>6, <1>16 DEF NextFiller, Unswept, Evacuating, Places
  <2>2. PICK f \in fillers : f[1] = Swept(w).scan /\ Advance(w, f[2]) BY <1>16 DEF NextFiller
  <2>3. Swept(w).scan \in Unscanned(Swept(w)) BY <1>1, <1>16, ChunkFields DEF NextFiller, Unswept, Unscanned, Swept
  <2>4. ChunkOK(Swept(w)) BY SharedDef DEF RoomOK, Swept
  <2>5. Swept(w).scan + f[2] <= Swept(w).alloc BY <2>2, <2>3, <2>4 DEF ChunkOK, FillerEnd
  <2>6. UNCHANGED <<steal, scanning>> BY <1>16 DEF NextFiller
  <2>7. f[2] \in Nat BY DEF DataOK
  <2> QED BY <2>1, <2>2, <2>5, <2>6, <2>7, AdvanceWithin DEF Plain
<1>17. CASE SweepEnd(w)
  <2>1. Rest /\ UNCHANGED <<cur, steal, scanning, sweep>> BY <1>17 DEF SweepEnd, Evacuating, Places
  <2> QED BY <1>4, <1>5, <2>1
<1>18. CASE Split(w)
  <2>1. Rest /\ UNCHANGED cur BY <1>1, <1>6, <1>18 DEF Split, Evacuating, Places
  <2>2. PICK s : steal' = Append(steal, SlotsTask(s)) BY <1>18 DEF Split
  <2>3. steal' \in Seq(TaskSet) BY <1>18, TypeStep DEF Work, Scan, DataOK
  <2>4. \A t \in Tasks' : t.kind = "chunk" => t \in Tasks
    BY <1>1, <2>2, Appended DEF Tasks, SlotsTask
  <2>5. Shared' \subseteq Shared BY <1>18, <2>4, SharedDef DEF Split
  <2> QED BY <1>4, <2>1, <2>5
<1>19. CASE ScanEnd(w)
  <2>1. Rest /\ UNCHANGED <<cur, steal, scanning, sweep>> BY <1>1, <1>19 DEF ScanEnd, Scanning, Evacuating, Places
  <2> QED BY <1>4, <1>5, <2>1
<1>20. CASE Follow(w)
  <2>1. Rest /\ UNCHANGED <<cur, steal, scanning, sweep>>
    BY <1>1, <1>6, <1>20 DEF Follow, Scanning, Forward, Evacuating, Places
  <2> QED BY <1>4, <1>5, <2>1
<1> QED BY <1>7, <1>8, <1>9, <1>10, <1>11, <1>12, <1>13, <1>14, <1>15, <1>16, <1>17, <1>18, <1>19, <1>20
        DEF Find

\* So the claims, the copies and the room are what they were.
LEMMA PlainKeeps ==
  ASSUME DataOK, ClaimsOK, CopiesOK, PiecesApart, RoomOK, UnsharedOK, NEW w \in Workers, Plain(w), DataOK'
  PROVE  (ClaimsOK /\ CopiesOK /\ PiecesApart /\ RoomOK /\ UnsharedOK)'
<1> USE DEF Evacuating, Unpublished, Placed
<1>1. /\ UNCHANGED <<header, to, arena, whole, fillers, arenaUsed, claim>>
      /\ pc \in [Workers -> Places]
      /\ \A u \in Workers \ {w} : slots'[u] = slots[u] /\ pc'[u] = pc[u] /\ cur'[u] = cur[u]
      /\ pc[w] \notin Evacuating \cup {"exited"} /\ pc'[w] \notin Evacuating \cup {"exited"}
  BY DEF Plain, DataOK
<1>2. \A d \in Shared' : \E c \in Shared \cup {Chunk(0, 0)} : Within(d, c)
  BY DEF Plain
<1>3. \A u \in Workers : Within(cur'[u], cur[u])
  BY DEF Plain
<1>4. \A c \in Shared \cup {Chunk(0, 0)} : c.scan \in Nat /\ c.alloc \in Nat /\ c.end \in Nat
  BY ChunkTypes, ChunkFields DEF Chunk
<1>5. \A u \in Workers : cur[u].scan \in Nat /\ cur[u].alloc \in Nat /\ cur[u].end \in Nat
  BY ChunkTypes, ChunkFields
<1>10. Shared' \subseteq ChunkSet /\ \A u \in Workers : cur'[u] \in ChunkSet BY ChunkTypesAfter
<1>6. (CopiesOK /\ PiecesApart)'
  BY <1>1 DEF CopiesOK, PiecesApart
<1>7. ClaimsOK'
  BY <1>1 DEF ClaimsOK, ClaimOK, OneClaimant, Referent, Unscanned
<1>8. RoomOK'
  <2>1. \A c \in Shared \cup {Chunk(0, 0)} : ChunkOK(c)
    BY DEF RoomOK, ChunkOK, IsChunk, Chunk, Unscanned, DataOK
  <2>2. ASSUME NEW c, ChunkOK(c), NEW d, Within(d, c),
               c.scan \in Nat, c.alloc \in Nat, c.end \in Nat, d.scan \in Nat
        PROVE  ChunkOK(d)'
    BY <1>1, <2>2 DEF ChunkOK, IsChunk, Within, Unscanned, CopyEnd, FillerEnd
  <2>3. \A d \in Shared' : d.scan \in Nat BY <1>10, ChunkFields
  <2>4. \A u \in Workers : cur'[u].scan \in Nat BY <1>10, ChunkFields
  <2>5. \A d \in Shared' : ChunkOK(d)'
    BY <1>2, <1>4, <2>1, <2>2, <2>3
  <2>6. \A u \in Workers : ChunkOK(cur[u])'
    BY <1>3, <1>5, <2>2, <2>4 DEF RoomOK
  <2>7. ASSUME NEW u \in Workers, Open(u)'
        PROVE  /\ \A c \in arena : Apart(c[1], CopyEnd(c), cur'[u].alloc, cur'[u].end)
               /\ \A f \in fillers : Apart(f[1], FillerEnd(f), cur'[u].alloc, cur'[u].end)
               /\ \A d \in Shared' : Apart(d.scan, d.end, cur'[u].scan, cur'[u].end)
               /\ \A v \in Workers \ {u} : Apart(cur'[v].scan, cur'[v].end, cur'[u].scan, cur'[u].end)
    <3>1. Open(u) BY <1>1, <2>7 DEF Open
    <3>2. /\ \A c \in arena : Apart(c[1], CopyEnd(c), cur[u].alloc, cur[u].end)
          /\ \A f \in fillers : Apart(f[1], FillerEnd(f), cur[u].alloc, cur[u].end)
          /\ \A c \in Shared : Apart(c.scan, c.end, cur[u].scan, cur[u].end)
          /\ \A v \in Workers \ {u} : Apart(cur[v].scan, cur[v].end, cur[u].scan, cur[u].end)
      BY <3>1 DEF RoomOK
    <3>3. cur'[u].alloc = cur[u].alloc /\ cur'[u].end = cur[u].end /\ cur[u].scan <= cur'[u].scan
      BY <1>3 DEF Within
    <3>4. ASSUME NEW d \in Shared' PROVE Apart(d.scan, d.end, cur'[u].scan, cur'[u].end)
      <4>1. PICK c \in Shared \cup {Chunk(0, 0)} : Within(d, c) BY <1>2
      <4>2. Apart(c.scan, c.end, cur[u].scan, cur[u].end)
        BY <1>5, <3>2 DEF Apart, Chunk
      <4>3. c.scan \in Nat /\ c.end \in Nat /\ d.scan \in Nat /\ cur'[u].scan \in Nat
        BY <1>4, <2>3, <2>4
      <4> QED BY <1>5, <3>3, <4>1, <4>2, <4>3 DEF Within, Apart
    <3>5. ASSUME NEW v \in Workers \ {u} PROVE Apart(cur'[v].scan, cur'[v].end, cur'[u].scan, cur'[u].end)
      BY <1>3, <1>5, <2>4, <3>2, <3>3 DEF Within, Apart
    <3> QED BY <3>2, <3>3, <3>4, <3>5
  <2> QED BY <1>1, <2>5, <2>6, <2>7 DEF RoomOK, CopyEnd, FillerEnd
<1>9. UnsharedOK'
  <2> SUFFICES ASSUME NEW u \in Workers, pc'[u] \in Placed
               PROVE  /\ pc'[u] # "share" \/ claim[u].oversize =>
                          /\ \A d \in Shared' : claim[u].at \notin Unscanned(d)
                          /\ \A v \in Workers \ {u} : claim[u].at \notin Unscanned(cur'[v])
                      /\ claim[u].oversize =>
                          /\ claim[u].at \notin Unscanned(cur'[u])
                          /\ \A v \in Workers : Open(v)' =>
                               Apart(claim[u].at, claim[u].at + Need(claim[u].obj), cur'[v].scan, cur'[v].end)
    BY <1>1 DEF UnsharedOK
  <2>1. u # w /\ pc'[u] = pc[u] BY <1>1
  <2>2. claim[u].at \in Nat /\ claim[u].obj \in Objects
    BY <2>1, ClaimFields DEF DataOK, ClaimsOK, ClaimOK, OneClaimant
  <2>3. ASSUME NEW d, NEW c, Within(d, c), c.scan \in Nat, c.alloc \in Nat, d.scan \in Nat,
               claim[u].at \notin Unscanned(c)
        PROVE  claim[u].at \notin Unscanned(d)
    BY <2>2, <2>3 DEF Within, Unscanned
  <2>4. \A d \in Shared' : d.scan \in Nat BY <1>10, ChunkFields
  <2>5. \A v \in Workers : cur'[v].scan \in Nat BY <1>10, ChunkFields
  <2>6. claim[u].at \notin Unscanned(Chunk(0, 0)) BY <2>2 DEF Chunk, Unscanned
  <2>7. ASSUME pc[u] # "share" \/ claim[u].oversize
        PROVE  /\ \A d \in Shared' : claim[u].at \notin Unscanned(d)
               /\ \A v \in Workers \ {u} : claim[u].at \notin Unscanned(cur'[v])
    <3>1. /\ \A c \in Shared : claim[u].at \notin Unscanned(c)
          /\ \A v \in Workers \ {u} : claim[u].at \notin Unscanned(cur[v])
      BY <2>1, <2>7 DEF UnsharedOK
    <3> QED BY <1>2, <1>3, <1>4, <1>5, <2>3, <2>4, <2>5, <2>6, <3>1
  <2>8. ASSUME claim[u].oversize
        PROVE  /\ claim[u].at \notin Unscanned(cur'[u])
               /\ \A v \in Workers : Open(v)' =>
                    Apart(claim[u].at, claim[u].at + Need(claim[u].obj), cur'[v].scan, cur'[v].end)
    <3>1. /\ claim[u].at \notin Unscanned(cur[u])
          /\ \A v \in Workers : Open(v) =>
               Apart(claim[u].at, claim[u].at + Need(claim[u].obj), cur[v].scan, cur[v].end)
      BY <2>1, <2>8 DEF UnsharedOK
    <3>2. ASSUME NEW v \in Workers, Open(v)'
          PROVE  Apart(claim[u].at, claim[u].at + Need(claim[u].obj), cur'[v].scan, cur'[v].end)
      <4>1. Open(v) BY <1>1, <3>2 DEF Open
      <4>2. Apart(claim[u].at, claim[u].at + Need(claim[u].obj), cur[v].scan, cur[v].end) BY <3>1, <4>1
      <4>3. Need(claim[u].obj) \in Nat BY <2>2, NeedType
      <4> QED BY <1>3, <1>5, <2>2, <2>5, <4>2, <4>3 DEF Within, Apart
    <3> QED BY <1>3, <1>5, <2>3, <2>5, <3>1, <3>2
  <2> QED BY <2>1, <2>7, <2>8
<1> QED BY <1>6, <1>7, <1>8, <1>9

-----------------------------------------------------------------------------
(* The steps that change the copies *)

\* A claim: nobody else's object, and no copy of it is there.
LEMMA ClaimKeeps ==
  ASSUME DataOK, RangesOK, ClaimsOK, CopiesOK, PiecesApart, RoomOK, UnsharedOK,
         NEW w \in Workers, Claim(w), DataOK'
  PROVE  (ClaimsOK /\ CopiesOK /\ PiecesApart /\ RoomOK /\ UnsharedOK)'
<1> DEFINE o == Referent(w)
<1>1. /\ pc[w] = "scan" /\ slots[w].lo < slots[w].hi /\ o # Null /\ header[o] = "normal"
      /\ header' = [header EXCEPT ![o] = "busy"]
      /\ claim' = [claim EXCEPT ![w] = [NoClaim EXCEPT !.obj = o]]
      /\ pc' = [pc EXCEPT ![w] = "alloc"]
      /\ UNCHANGED <<to, done, weakFound, arenaVars, steal, busy, cur, scanning, sweep, own, slots, next>>
  BY DEF Claim, Scanning
<1>2. o \in Objects
  <2>1. RangeOK(slots[w]) /\ slots[w] \in SlotsSet BY <1>1 DEF RangesOK, InSweep, DataOK
  <2>2. slots[w].obj \in Objects /\ slots[w].lo \in 1..Len(Body[slots[w].obj])
    BY <1>1, <2>1, SlotsFields, BodyType DEF RangeOK
  <2> QED BY <1>1, <2>2, BodyType DEF Referent
<1>3. claim'[w].obj = o /\ claim'[w].oversize = FALSE /\ \A u \in Workers \ {w} : claim'[u] = claim[u]
  BY <1>1 DEF DataOK, NoClaim
<1>4. Shared' = Shared BY <1>1, SharedSame
<1>5. \A u \in Workers \ {w} : pc'[u] = pc[u]
  BY <1>1 DEF DataOK
<1>6. pc'[w] = "alloc" BY <1>1 DEF DataOK
<1>7. \A p \in Objects : header'[p] = IF p = o THEN "busy" ELSE header[p] BY <1>1 DEF DataOK
<1>8. \A u \in Workers : pc[u] \in Evacuating => claim[u].obj # o /\ claim[u].obj \in Objects
  BY <1>1 DEF ClaimsOK, ClaimOK, OneClaimant, Evacuating, Unpublished
<1>9. \A c \in arena : c[2] \in Objects /\ c[2] # o
  BY <1>1, <1>8 DEF CopiesOK, DataOK, Evacuating
<1> HIDE DEF o
<1>10. ClaimsOK'
  <2>1. ASSUME NEW u \in Workers \ {w}
        PROVE  ClaimOK(u)'
    BY <1>1, <1>3, <1>5, <1>7, <1>8, <2>1 DEF ClaimsOK, ClaimOK, OneClaimant, Evacuating, Unpublished, Placed, Referent, Unscanned
  <2>2. ClaimOK(w)'
    BY <1>1, <1>2, <1>3, <1>6, <1>7 DEF ClaimsOK, ClaimOK, OneClaimant, Evacuating, Unpublished, Placed, Referent, o
  <2>3. OneClaimant'
    BY <1>1, <1>3, <1>5, <1>8 DEF ClaimsOK, ClaimOK, OneClaimant
  <2> QED BY <2>1, <2>2, <2>3 DEF ClaimsOK, ClaimOK, OneClaimant
<1>11. CopiesOK'
  <2>1. ASSUME NEW c \in arena', header'[c[2]] # "copied"
        PROVE  \E u \in Workers : pc'[u] \in {"copy", "publish"} /\ claim'[u].obj = c[2]
    <3>1. c \in arena /\ header[c[2]] # "copied" BY <1>1, <1>7, <1>9, <2>1
    <3>2. PICK u \in Workers : pc[u] \in {"copy", "publish"} /\ claim[u].obj = c[2] BY <3>1 DEF CopiesOK
    <3>3. u # w BY <1>1, <3>2
    <3> QED BY <1>3, <1>5, <3>2, <3>3
  <2> QED BY <1>1, <1>7, <2>1 DEF CopiesOK
<1>12. PiecesApart' BY <1>1 DEF PiecesApart
<1>13. RoomOK'
  <2>1. \A u \in Workers : Open(u)' => Open(u) BY <1>1, <1>5 DEF Open
  <2>2. \A c : ChunkOK(c)' <=> ChunkOK(c) BY <1>1 DEF ChunkOK, IsChunk
  <2> QED BY <1>1, <1>4, <2>1, <2>2 DEF RoomOK
<1>14. UnsharedOK'
  <2>1. \A u \in Workers : Open(u)' => Open(u) BY <1>1, <1>5 DEF Open
  <2>2. \A u \in Workers : pc'[u] \in Placed => pc[u] \in Placed /\ u # w /\ pc'[u] = pc[u] /\ claim'[u] = claim[u]
    BY <1>3, <1>5, <1>6 DEF Placed
  <2> QED BY <1>1, <1>4, <2>1, <2>2 DEF UnsharedOK
<1> QED BY <1>10, <1>11, <1>12, <1>13, <1>14

\* A filler in the room of an open chunk is apart from whatever is elsewhere.
LEMMA PlugApart ==
  ASSUME DataOK, PiecesApart, RoomOK, NEW w \in Workers, Open(w), NEW f \in Plug(cur[w])
  PROVE  /\ f[1] = cur[w].alloc /\ FillerEnd(f) = cur[w].end /\ f[1] < FillerEnd(f)
         /\ FillerEnd(f) <= arenaUsed
         /\ \A c \in arena : Apart(c[1], CopyEnd(c), f[1], FillerEnd(f))
         /\ \A g \in fillers : Apart(g[1], FillerEnd(g), f[1], FillerEnd(f))
         /\ \A c \in Shared : Apart(c.scan, c.end, f[1], FillerEnd(f)) /\ f[1] \notin Unscanned(c)
         /\ \A u \in Workers \ {w} : Apart(cur[u].scan, cur[u].end, f[1], FillerEnd(f)) /\ f[1] \notin Unscanned(cur[u])
         /\ f[1] \notin Unscanned(cur[w])
<1>1. cur[w].alloc \in Nat /\ cur[w].end \in Nat /\ cur[w].scan \in Nat BY ChunkTypes, ChunkFields
<1>2. f = <<cur[w].alloc, cur[w].end - cur[w].alloc>> /\ cur[w].alloc < cur[w].end BY DEF Plug
<1>3. f[1] = cur[w].alloc /\ FillerEnd(f) = cur[w].end BY <1>1, <1>2 DEF FillerEnd
<1>4. cur[w].scan <= cur[w].alloc /\ cur[w].end <= arenaUsed BY <1>1 DEF RoomOK, ChunkOK, IsChunk, DataOK
<1>5. ASSUME NEW c \in ChunkSet, ChunkOK(c), Apart(c.scan, c.end, cur[w].scan, cur[w].end)
      PROVE  Apart(c.scan, c.end, f[1], FillerEnd(f)) /\ f[1] \notin Unscanned(c)
  <2>1. c.scan \in Nat /\ c.alloc \in Nat /\ c.end \in Nat /\ c.alloc <= c.end
    BY <1>5, ChunkFields DEF ChunkOK, IsChunk
  <2> QED BY <1>1, <1>2, <1>3, <1>4, <1>5, <2>1 DEF Apart, Unscanned
<1>6. /\ \A c \in Shared : Apart(c.scan, c.end, f[1], FillerEnd(f)) /\ f[1] \notin Unscanned(c)
      /\ \A u \in Workers \ {w} : Apart(cur[u].scan, cur[u].end, f[1], FillerEnd(f)) /\ f[1] \notin Unscanned(cur[u])
  BY <1>5, ChunkTypes DEF RoomOK
<1>7. f[1] \notin Unscanned(cur[w]) BY <1>1, <1>3 DEF Unscanned
<1>8. /\ \A c \in arena : Apart(c[1], CopyEnd(c), f[1], FillerEnd(f))
      /\ \A g \in fillers : Apart(g[1], FillerEnd(g), f[1], FillerEnd(f))
  BY <1>3 DEF RoomOK
<1> QED BY <1>1, <1>2, <1>3, <1>4, <1>6, <1>7, <1>8

\* Plugging the open chunk keeps the pieces apart.
LEMMA PlugKeeps ==
  ASSUME DataOK, PiecesApart, RoomOK, NEW w \in Workers, Open(w),
         fillers' = fillers \cup Plug(cur[w]), UNCHANGED <<arena, arenaUsed, cur>>, Shared' = Shared,
         \A u \in Workers : Open(u)' => u # w /\ Open(u)
  PROVE  (PiecesApart /\ RoomOK)'
<1>1. \A f, g \in Plug(cur[w]) : f = g BY DEF Plug
<1>2. PiecesApart'
  <2>1. ASSUME NEW f \in fillers', NEW g \in fillers'
        PROVE  f = g \/ Apart(f[1], FillerEnd(f), g[1], FillerEnd(g))
    BY <1>1, PlugApart DEF PiecesApart, Apart
  <2>2. ASSUME NEW c \in arena, NEW f \in fillers' PROVE Apart(c[1], CopyEnd(c), f[1], FillerEnd(f))
    BY PlugApart DEF PiecesApart
  <2>3. \A f \in fillers' : FillerEnd(f) <= arenaUsed BY PlugApart DEF PiecesApart
  <2> QED BY <2>1, <2>2, <2>3 DEF PiecesApart, CopyEnd, FillerEnd
<1>3. ASSUME NEW c, ChunkOK(c), c \in Shared \/ \E u \in Workers : c = cur[u] PROVE ChunkOK(c)'
  <2>1. \A f \in Plug(cur[w]) : f[1] \notin Unscanned(c) BY <1>3, PlugApart
  <2>2. \A f \in fillers' : f[1] \in Unscanned(c) => FillerEnd(f) <= c.alloc
    BY <1>3, <2>1 DEF ChunkOK
  <2> QED BY <1>3, <2>2 DEF ChunkOK, IsChunk, FillerEnd
<1>4. (\A c \in Shared : ChunkOK(c))' /\ (\A u \in Workers : ChunkOK(cur[u]))'
  BY <1>3 DEF RoomOK
<1>5. ASSUME NEW u \in Workers, Open(u)'
      PROVE  \A f \in fillers' : Apart(f[1], FillerEnd(f), cur[u].alloc, cur[u].end)
  <2>1. u # w /\ Open(u) BY <1>5
  <2>2. ASSUME NEW f \in Plug(cur[w]) PROVE Apart(f[1], FillerEnd(f), cur[u].alloc, cur[u].end)
    <3>1. Apart(cur[u].scan, cur[u].end, f[1], FillerEnd(f)) BY <2>1, PlugApart
    <3>2. cur[u].scan \in Nat /\ cur[u].alloc \in Nat /\ cur[u].end \in Nat /\ cur[u].scan <= cur[u].alloc
      BY ChunkTypes, ChunkFields DEF RoomOK, ChunkOK, IsChunk
    <3>3. f[1] \in Nat /\ FillerEnd(f) \in Nat
      <4>1. f[1] = cur[w].alloc /\ FillerEnd(f) = cur[w].end BY PlugApart
      <4> QED BY <4>1, ChunkTypes, ChunkFields
    <3> QED BY <3>1, <3>2, <3>3 DEF Apart
  <2> QED BY <2>1, <2>2 DEF RoomOK
<1>6. RoomOK'
  BY <1>4, <1>5 DEF RoomOK, CopyEnd, FillerEnd
<1> QED BY <1>2, <1>6

\* The words of the copy are written.
LEMMA CopyKeeps ==
  ASSUME DataOK, ClaimsOK, CopiesOK, PiecesApart, RoomOK, UnsharedOK, NEW w \in Workers, Copy(w)
  PROVE  (ClaimsOK /\ CopiesOK /\ PiecesApart /\ RoomOK /\ UnsharedOK)'
<1>1. /\ pc[w] = "copy" /\ pc' = [pc EXCEPT ![w] = "publish"]
      /\ whole' = whole \cup {<<claim[w].at, claim[w].obj>>}
      /\ UNCHANGED <<objVars, arena, fillers, arenaUsed, steal, busy, workVars>>
  BY DEF Copy
<1>2. \A u \in Workers \ {w} : pc'[u] = pc[u]
  BY <1>1 DEF DataOK
<1>3. pc'[w] = "publish" BY <1>1 DEF DataOK
<1>4. Shared' = Shared BY <1>1, SharedSame
<1>5. ClaimsOK'
  <2>1. ASSUME NEW u \in Workers PROVE ClaimOK(u)'
    <3>1. CASE u = w BY <1>1, <1>3, <3>1 DEF ClaimsOK, ClaimOK, Evacuating, Unpublished, Placed, Referent
    <3>2. CASE u # w BY <1>1, <1>2, <3>2 DEF ClaimsOK, ClaimOK, Referent
    <3> QED BY <3>1, <3>2
  <2>2. OneClaimant' BY <1>1, <1>2, <1>3 DEF ClaimsOK, OneClaimant, Evacuating
  <2> QED BY <2>1, <2>2 DEF ClaimsOK
<1>6. CopiesOK' BY <1>1, <1>2, <1>3 DEF CopiesOK
<1>7. PiecesApart' BY <1>1 DEF PiecesApart
<1>8. RoomOK'
  <2>1. \A u \in Workers : Open(u)' => Open(u) BY <1>1, <1>2 DEF Open
  <2> QED BY <1>1, <1>4, <2>1 DEF RoomOK, ChunkOK, IsChunk
<1>9. UnsharedOK'
  <2>1. \A u \in Workers : Open(u)' => Open(u) BY <1>1, <1>2 DEF Open
  <2> QED BY <1>1, <1>2, <1>3, <1>4, <2>1 DEF UnsharedOK, Placed
<1> QED BY <1>5, <1>6, <1>7, <1>8, <1>9

\* The copy is published.
LEMMA PublishKeeps ==
  ASSUME DataOK, ClaimsOK, CopiesOK, PiecesApart, RoomOK, UnsharedOK, NEW w \in Workers, Publish(w)
  PROVE  (ClaimsOK /\ CopiesOK /\ PiecesApart /\ RoomOK /\ UnsharedOK)'
<1> DEFINE o == claim[w].obj
<1>1. /\ pc[w] = "publish" /\ pc' = [pc EXCEPT ![w] = "share"]
      /\ header' = [header EXCEPT ![o] = "copied"]
      /\ to' = [to EXCEPT ![o] = claim[w].at]
      /\ UNCHANGED <<done, weakFound, arenaVars, steal, busy, workVars>>
  BY DEF Publish
<1>2. o \in Objects /\ <<claim[w].at, o>> \in whole /\ header[o] = "busy"
  BY <1>1 DEF ClaimsOK, ClaimOK, Evacuating, Unpublished
<1>3. \A u \in Workers \ {w} : pc'[u] = pc[u]
  BY <1>1 DEF DataOK
<1>4. pc'[w] = "share" BY <1>1 DEF DataOK
<1>5. \A p \in Objects : header'[p] = IF p = o THEN "copied" ELSE header[p]
  BY <1>1 DEF DataOK
<1>6. \A p \in Objects : to'[p] = IF p = o THEN claim[w].at ELSE to[p]
  BY <1>1 DEF DataOK
<1>7. Shared' = Shared BY <1>1, SharedSame
<1>8. \A u \in Workers \ {w} : pc[u] \in Evacuating => claim[u].obj \in Objects /\ claim[u].obj # o
  BY <1>1 DEF ClaimsOK, ClaimOK, OneClaimant, Evacuating
<1> HIDE DEF o
<1>9. ClaimsOK'
  <2>1. ASSUME NEW u \in Workers PROVE ClaimOK(u)'
    <3>1. CASE u = w
      BY <1>1, <1>2, <1>4, <1>5, <3>1 DEF ClaimsOK, ClaimOK, Evacuating, Unpublished, Placed, Referent, o
    <3>2. CASE u # w
      BY <1>1, <1>3, <1>5, <1>8, <3>2 DEF ClaimsOK, ClaimOK, Evacuating, Unpublished, Placed, Referent
    <3> QED BY <3>1, <3>2
  <2>2. OneClaimant' BY <1>1, <1>3, <1>4 DEF ClaimsOK, OneClaimant, Evacuating
  <2> QED BY <2>1, <2>2 DEF ClaimsOK
<1>10. CopiesOK'
  <2>1. ASSUME NEW c \in arena, header'[c[2]] # "copied"
        PROVE  \E u \in Workers : pc'[u] \in {"copy", "publish"} /\ claim[u].obj = c[2]
    <3>1. c[2] \in Objects /\ c[2] # o /\ header[c[2]] # "copied" BY <1>5, <2>1 DEF DataOK
    <3>2. PICK u \in Workers : pc[u] \in {"copy", "publish"} /\ claim[u].obj = c[2] BY <3>1 DEF CopiesOK
    <3>3. u # w BY <3>1, <3>2 DEF o
    <3> QED BY <1>3, <3>2, <3>3
  <2>2. ASSUME NEW p \in Objects, header'[p] = "copied" PROVE <<to'[p], p>> \in whole
    BY <1>2, <1>5, <1>6, <2>2 DEF CopiesOK
  <2> QED BY <1>1, <2>1, <2>2 DEF CopiesOK
<1>11. PiecesApart' BY <1>1 DEF PiecesApart
<1>12. RoomOK'
  <2>1. \A u \in Workers : Open(u)' => Open(u) BY <1>1, <1>3 DEF Open
  <2> QED BY <1>1, <1>7, <2>1 DEF RoomOK, ChunkOK, IsChunk
<1>13. UnsharedOK'
  <2>1. \A u \in Workers : Open(u)' => Open(u) BY <1>1, <1>3 DEF Open
  <2> QED BY <1>1, <1>3, <1>4, <1>7, <2>1 DEF UnsharedOK, Placed
<1> QED BY <1>9, <1>10, <1>11, <1>12, <1>13

\* A worker plugs its chunk and returns.
LEMMA ExitKeeps ==
  ASSUME DataOK, ClaimsOK, CopiesOK, PiecesApart, RoomOK, UnsharedOK, NEW w \in Workers, Exit(w)
  PROVE  (ClaimsOK /\ CopiesOK /\ PiecesApart /\ RoomOK /\ UnsharedOK)'
<1>1. /\ pc[w] = "ask" /\ pc' = [pc EXCEPT ![w] = "exited"]
      /\ fillers' = fillers \cup Plug(cur[w])
      /\ UNCHANGED <<objVars, arena, whole, arenaUsed, steal, busy, workVars>>
  BY DEF Exit
<1>2. \A u \in Workers \ {w} : pc'[u] = pc[u]
  BY <1>1 DEF DataOK
<1>3. pc'[w] = "exited" BY <1>1 DEF DataOK
<1>4. Shared' = Shared BY <1>1, SharedSame
<1>5. \A u \in Workers : Open(u)' => u # w /\ Open(u) BY <1>2, <1>3 DEF Open
<1>6. Open(w) BY <1>1 DEF Open
<1>7. ClaimsOK'
  <2>1. ASSUME NEW u \in Workers PROVE ClaimOK(u)'
    <3>1. CASE u = w BY <1>1, <1>3, <3>1 DEF ClaimsOK, ClaimOK, Evacuating, Unpublished, Placed
    <3>2. CASE u # w BY <1>1, <1>2, <3>2 DEF ClaimsOK, ClaimOK, Referent
    <3> QED BY <3>1, <3>2
  <2>2. OneClaimant' BY <1>1, <1>2, <1>3 DEF ClaimsOK, OneClaimant, Evacuating
  <2> QED BY <2>1, <2>2 DEF ClaimsOK
<1>8. CopiesOK' BY <1>1, <1>2, <1>3 DEF CopiesOK
<1>9. UnsharedOK' BY <1>1, <1>2, <1>3, <1>4, <1>5 DEF UnsharedOK, Placed
<1>10. (PiecesApart /\ RoomOK)'
  BY <1>1, <1>4, <1>5, <1>6, PlugKeeps
<1> QED BY <1>7, <1>8, <1>9, <1>10

\* The chunk that is set aside is one more of the shared ones.
LEMMA SetAsideEffect ==
  ASSUME DataOK, NEW w \in Workers, NEW c \in ChunkSet, SetAside(w, c), UNCHANGED sweep
  PROVE  Shared' = Shared \cup {c}
<1>1. CASE scanning[w] = {}
  <2>1. scanning' = [scanning EXCEPT ![w] = {c}] /\ steal' = steal BY <1>1 DEF SetAside
  <2>2. Tasks' = Tasks BY <2>1 DEF Tasks
  <2>3. \A u \in Workers : scanning'[u] = IF u = w THEN {c} ELSE scanning[u] BY <2>1 DEF DataOK
  <2> QED BY <1>1, <2>2, <2>3, SharedDef
<1>2. CASE scanning[w] # {}
  <2>1. scanning' = scanning /\ steal' = Append(steal, ChunkTask(c)) BY <1>2 DEF SetAside
  <2>2. ChunkTask(c) \in TaskSet BY DEF ChunkTask, TaskSet
  <2>3. Tasks' = Tasks \cup {ChunkTask(c)}
    <3>1. steal \in Seq(TaskSet) BY DEF DataOK
    <3> QED BY <2>1, <2>2, <3>1, TaskPut
  <2>4. ChunkTask(c).kind = "chunk" /\ ChunkTask(c).chunk = c BY DEF ChunkTask
  <2> QED BY <2>1, <2>3, <2>4, SharedDef
<1> QED BY <1>1, <1>2

\* Wherever the copy goes: it is the only one of its object, and its owner is
\* the worker.
LEMMA PlaceKeeps ==
  ASSUME DataOK, ClaimsOK, CopiesOK, NEW w \in Workers, pc[w] = "alloc",
         NEW at \in Nat, NEW oversize \in BOOLEAN, Place(w, at, oversize),
         \A u \in Workers \ {w} : cur'[u] = cur[u],
         ~oversize => at \in Unscanned(cur'[w])
  PROVE  /\ (ClaimsOK /\ CopiesOK)'
         /\ arena' = arena \cup {<<at, claim[w].obj>>} /\ claim[w].obj \in Objects
         /\ pc'[w] = "copy" /\ \A u \in Workers \ {w} : pc'[u] = pc[u] /\ claim'[u] = claim[u]
         /\ claim'[w].obj = claim[w].obj /\ claim'[w].at = at /\ claim'[w].oversize = oversize
<1> DEFINE o == claim[w].obj
<1>1. /\ arena' = arena \cup {<<at, o>>}
      /\ claim' = [claim EXCEPT ![w].at = at, ![w].oversize = oversize]
      /\ pc' = [pc EXCEPT ![w] = "copy"]
      /\ UNCHANGED <<objVars, whole, busy, sweep, own, slots>>
  BY DEF Place
<1>2. pc'[w] = "copy" /\ \A u \in Workers \ {w} : pc'[u] = pc[u] /\ claim'[u] = claim[u]
  BY <1>1 DEF DataOK
<1>3. claim'[w].obj = o /\ claim'[w].at = at /\ claim'[w].oversize = oversize
  BY <1>1 DEF DataOK, ClaimSet
<1>4. o \in Objects /\ header[o] = "busy"
  BY DEF ClaimsOK, ClaimOK, Evacuating, Unpublished
<1>5. \A c \in arena : c[2] # o
  <2> SUFFICES ASSUME NEW c \in arena, c[2] = o PROVE FALSE OBVIOUS
  <2>1. PICK u \in Workers : pc[u] \in {"copy", "publish"} /\ claim[u].obj = o BY <1>4 DEF CopiesOK
  <2> QED BY <2>1 DEF ClaimsOK, OneClaimant, Evacuating
<1> HIDE DEF o
<1>6. ClaimsOK'
  <2>1. ClaimOK(w)'
    <3>1. slots[w].lo < slots[w].hi /\ o = Referent(w)
      BY DEF ClaimsOK, ClaimOK, Evacuating, o
    <3>2. Referent(w)' = Referent(w) /\ slots' = slots /\ header' = header
      BY <1>1 DEF Referent
    <3>3. <<at, o>> \in arena' BY <1>1
    <3> QED BY <1>2, <1>3, <1>4, <3>1, <3>2, <3>3
            DEF ClaimOK, Evacuating, Unpublished, Placed, Unscanned
  <2>2. ASSUME NEW u \in Workers \ {w} PROVE ClaimOK(u)'
    <3>1. ClaimOK(u) BY DEF ClaimsOK
    <3>2. pc'[u] = pc[u] /\ claim'[u] = claim[u] /\ cur'[u] = cur[u] BY <1>2
    <3>3. Referent(u)' = Referent(u) /\ slots' = slots /\ header' = header /\ whole' = whole
      BY <1>1 DEF Referent
    <3>4. arena \subseteq arena' BY <1>1
    <3> QED BY <3>1, <3>2, <3>3, <3>4 DEF ClaimOK, Unscanned
  <2>3. OneClaimant' BY <1>2, <1>3 DEF ClaimsOK, OneClaimant, Evacuating, o
  <2> QED BY <2>1, <2>2, <2>3 DEF ClaimsOK
<1>7. CopiesOK'
  <2>1. ASSUME NEW c \in arena', header[c[2]] # "copied"
        PROVE  \E u \in Workers : pc'[u] \in {"copy", "publish"} /\ claim'[u].obj = c[2]
    <3>1. CASE c \in arena
      <4>1. PICK u \in Workers : pc[u] \in {"copy", "publish"} /\ claim[u].obj = c[2]
        BY <2>1, <3>1 DEF CopiesOK
      <4>2. u # w BY <4>1
      <4> QED BY <1>2, <4>1, <4>2
    <3>2. CASE c = <<at, o>> BY <1>2, <1>3, <3>2
    <3> QED BY <1>1, <3>1, <3>2
  <2>2. ASSUME NEW c \in arena', NEW d \in arena', c[2] = d[2] PROVE c = d
    BY <1>1, <1>5, <2>2 DEF CopiesOK
  <2> QED BY <1>1, <2>1, <2>2 DEF CopiesOK
<1> QED BY <1>1, <1>2, <1>3, <1>4, <1>6, <1>7 DEF o

\* The copy gets a slice of the arena of its own, above everything.
LEMMA OversizeKeeps ==
  ASSUME DataOK, ClaimsOK, CopiesOK, PiecesApart, RoomOK, UnsharedOK, NEW w \in Workers, AllocOversize(w)
  PROVE  (ClaimsOK /\ CopiesOK /\ PiecesApart /\ RoomOK /\ UnsharedOK)'
<1> DEFINE o == claim[w].obj
           new == <<arenaUsed, o>>
<1>1. /\ pc[w] = "alloc" /\ Place(w, arenaUsed, TRUE)
      /\ arenaUsed' = arenaUsed + Need(o)
      /\ UNCHANGED <<fillers, steal, cur, scanning, sweep, next>>
  BY DEF AllocOversize, Place
<1>2. arenaUsed \in Nat BY DEF DataOK
<1>3. /\ (ClaimsOK /\ CopiesOK)'
      /\ arena' = arena \cup {new} /\ o \in Objects
      /\ pc'[w] = "copy" /\ \A u \in Workers \ {w} : pc'[u] = pc[u] /\ claim'[u] = claim[u]
      /\ claim'[w].obj = o /\ claim'[w].at = arenaUsed /\ claim'[w].oversize = TRUE
  BY <1>1, <1>2, PlaceKeeps
<1>4. Need(o) \in Nat \ {0} BY <1>3, NeedType
<1>5. new[1] = arenaUsed /\ CopyEnd(new) = arenaUsed + Need(o) BY DEF CopyEnd
<1> HIDE DEF o, new
<1>6. Shared' = Shared BY <1>1, SharedSame
<1>7. \A u \in Workers : Open(u)' => Open(u) BY <1>1, <1>3 DEF Open
<1>8. /\ \A c \in arena : c[1] \in Nat /\ CopyEnd(c) \in Nat /\ CopyEnd(c) <= arenaUsed /\ c[1] < CopyEnd(c)
      /\ \A f \in fillers : FillerEnd(f) \in Nat /\ FillerEnd(f) <= arenaUsed
  BY NeedType DEF PiecesApart, DataOK, CopyEnd, FillerEnd
<1>9. PiecesApart'
  BY <1>1, <1>2, <1>3, <1>4, <1>5, <1>8 DEF PiecesApart, Apart, CopyEnd, FillerEnd
<1>10. ASSUME NEW c \in ChunkSet, ChunkOK(c)
       PROVE  /\ ChunkOK(c)' /\ arenaUsed \notin Unscanned(c)
              /\ Apart(arenaUsed, arenaUsed + Need(o), c.scan, c.end)
              /\ Apart(arenaUsed, arenaUsed + Need(o), c.alloc, c.end)
  <2>1. c.scan \in Nat /\ c.alloc \in Nat /\ c.end \in Nat /\ c.alloc <= c.end /\ c.end <= arenaUsed
    BY <1>10, ChunkFields DEF ChunkOK, IsChunk
  <2>2. arenaUsed \notin Unscanned(c) /\ Apart(arenaUsed, arenaUsed + Need(o), c.scan, c.end)
        /\ Apart(arenaUsed, arenaUsed + Need(o), c.alloc, c.end)
    BY <1>2, <1>4, <2>1 DEF Unscanned, Apart
  <2>3. ChunkOK(c)'
    BY <1>1, <1>2, <1>3, <1>4, <1>5, <1>10, <2>1, <2>2 DEF ChunkOK, IsChunk, CopyEnd, FillerEnd
  <2> QED BY <2>2, <2>3
<1>11. RoomOK'
  <2>1. \A c \in Shared' : ChunkOK(c)' BY <1>6, <1>10, ChunkTypes DEF RoomOK
  <2>2. \A u \in Workers : ChunkOK(cur[u])' BY <1>1, <1>10, ChunkTypes DEF RoomOK
  <2>3. ASSUME NEW u \in Workers PROVE Apart(new[1], CopyEnd(new), cur[u].alloc, cur[u].end)
    BY <1>5, <1>10, ChunkTypes DEF RoomOK
  <2> QED BY <1>1, <1>3, <1>6, <1>7, <2>1, <2>2, <2>3 DEF RoomOK, CopyEnd, FillerEnd
<1>12. UnsharedOK'
  <2>1. /\ \A c \in Shared : arenaUsed \notin Unscanned(c)
        /\ \A u \in Workers : /\ arenaUsed \notin Unscanned(cur[u])
                              /\ Apart(arenaUsed, arenaUsed + Need(o), cur[u].scan, cur[u].end)
    BY <1>10, ChunkTypes DEF RoomOK
  <2>2. ASSUME NEW u \in Workers \ {w}, pc'[u] \in Placed
        PROVE  pc[u] \in Placed /\ pc'[u] = pc[u] /\ claim'[u] = claim[u]
    BY <1>3, <2>2
  <2> QED BY <1>1, <1>3, <1>6, <1>7, <2>1, <2>2 DEF UnsharedOK
<1> QED BY <1>3, <1>9, <1>11, <1>12

\* The copy goes into the room of the open chunk.
LEMMA InChunkKeeps ==
  ASSUME DataOK, ClaimsOK, CopiesOK, PiecesApart, RoomOK, UnsharedOK, NEW w \in Workers, AllocInChunk(w)
  PROVE  (ClaimsOK /\ CopiesOK /\ PiecesApart /\ RoomOK /\ UnsharedOK)'
<1> DEFINE o == claim[w].obj
           at == cur[w].alloc
           new == <<at, o>>
<1>1. /\ pc[w] = "alloc" /\ Fits(w) /\ Place(w, at, FALSE)
      /\ cur' = [cur EXCEPT ![w].alloc = @ + Need(o)]
      /\ UNCHANGED <<fillers, arenaUsed, steal, scanning, sweep, next>>
  BY DEF AllocInChunk, Place
<1>2. /\ cur[w].scan \in Nat /\ at \in Nat /\ cur[w].end \in Nat /\ cur[w] \in ChunkSet
      /\ cur[w].scan <= at /\ cur[w].end <= arenaUsed /\ arenaUsed \in Nat
  BY ChunkTypes, ChunkFields DEF RoomOK, ChunkOK, IsChunk, DataOK
<1>3. o \in Objects /\ Need(o) \in Nat \ {0}
  <2>1. o \in Objects BY <1>1 DEF ClaimsOK, ClaimOK, Evacuating
  <2> QED BY <2>1, NeedType
<1>4. /\ cur'[w] = [cur[w] EXCEPT !.alloc = at + Need(o)]
      /\ \A u \in Workers \ {w} : cur'[u] = cur[u]
  BY <1>1 DEF DataOK
<1>5. /\ cur'[w].scan = cur[w].scan /\ cur'[w].alloc = at + Need(o) /\ cur'[w].end = cur[w].end
      /\ at + Need(o) \in Nat
  <2>1. at + Need(o) \in Nat BY <1>2, <1>3
  <2> QED BY <1>2, <1>4, <2>1, ChunkFields
<1>6. at + Need(o) <= cur[w].end BY <1>1 DEF Fits
<1>7. at \in Unscanned(cur'[w]) BY <1>2, <1>3, <1>5 DEF Unscanned
<1>8. /\ (ClaimsOK /\ CopiesOK)'
      /\ arena' = arena \cup {new}
      /\ pc'[w] = "copy" /\ \A u \in Workers \ {w} : pc'[u] = pc[u] /\ claim'[u] = claim[u]
      /\ claim'[w].obj = o /\ claim'[w].at = at /\ claim'[w].oversize = FALSE
  BY <1>1, <1>2, <1>4, <1>7, PlaceKeeps
<1>9. new[1] = at /\ CopyEnd(new) = at + Need(o) BY DEF CopyEnd
<1>10. Open(w) /\ \A u \in Workers : Open(u)' => Open(u) BY <1>1, <1>8 DEF Open
<1>11. /\ \A c \in arena : c[1] \in Nat /\ CopyEnd(c) \in Nat /\ c[1] < CopyEnd(c)
       /\ \A f \in fillers : f[1] \in Nat /\ FillerEnd(f) \in Nat /\ f[1] < FillerEnd(f)
  BY NeedType DEF DataOK, CopyEnd, FillerEnd
<1>12. /\ \A c \in arena : Apart(c[1], CopyEnd(c), at, cur[w].end)
       /\ \A f \in fillers : Apart(f[1], FillerEnd(f), at, cur[w].end)
       /\ \A c \in Shared : Apart(c.scan, c.end, cur[w].scan, cur[w].end)
       /\ \A u \in Workers \ {w} : Apart(cur[u].scan, cur[u].end, cur[w].scan, cur[w].end)
  BY <1>10 DEF RoomOK
<1>13. Shared' = Shared BY <1>1, SharedSame
<1> HIDE DEF o, new, at
<1>14. PiecesApart'
  <2>1. ASSUME NEW c \in arena PROVE Apart(c[1], CopyEnd(c), new[1], CopyEnd(new)) /\ Apart(new[1], CopyEnd(new), c[1], CopyEnd(c))
    BY <1>2, <1>3, <1>5, <1>6, <1>9, <1>11, <1>12 DEF Apart
  <2>2. ASSUME NEW f \in fillers PROVE Apart(new[1], CopyEnd(new), f[1], FillerEnd(f))
    BY <1>2, <1>3, <1>5, <1>6, <1>9, <1>11, <1>12 DEF Apart
  <2>3. CopyEnd(new) <= arenaUsed BY <1>2, <1>5, <1>6, <1>9
  <2> QED BY <1>1, <1>8, <2>1, <2>2, <2>3 DEF PiecesApart, CopyEnd, FillerEnd
\* A chunk of others sees nothing of it.
<1>15. ASSUME NEW c \in ChunkSet, ChunkOK(c), Apart(c.scan, c.end, cur[w].scan, cur[w].end)
       PROVE  ChunkOK(c)' /\ at \notin Unscanned(c) /\ Apart(at, at + Need(o), c.alloc, c.end)
  <2>1. c.scan \in Nat /\ c.alloc \in Nat /\ c.end \in Nat /\ c.scan <= c.alloc /\ c.alloc <= c.end
    BY <1>15, ChunkFields DEF ChunkOK, IsChunk
  <2>2. at \notin Unscanned(c) /\ Apart(at, at + Need(o), c.alloc, c.end)
    BY <1>2, <1>3, <1>5, <1>6, <1>15, <2>1 DEF Unscanned, Apart
  <2>3. ChunkOK(c)' BY <1>1, <1>8, <1>9, <1>15, <2>2 DEF ChunkOK, IsChunk, CopyEnd, FillerEnd
  <2> QED BY <2>2, <2>3
<1>16. ChunkOK(cur[w])'
  <2>1. IsChunk(cur[w])' BY <1>1, <1>2, <1>3, <1>5, <1>6 DEF IsChunk
  <2>2. ChunkOK(cur[w]) BY DEF RoomOK
  <2>3. ASSUME NEW p \in arena', p[1] \in Unscanned(cur'[w]) PROVE CopyEnd(p) <= cur'[w].alloc
    <3>1. CASE p = new BY <1>5, <1>9, <3>1
    <3>2. CASE p \in arena
      BY <1>2, <1>3, <1>5, <1>6, <1>11, <1>12, <2>2, <2>3, <3>2 DEF Unscanned, Apart, ChunkOK
    <3> QED BY <1>8, <3>1, <3>2
  <2>4. ASSUME NEW f \in fillers, f[1] \in Unscanned(cur'[w]) PROVE FillerEnd(f) <= cur'[w].alloc
    BY <1>2, <1>3, <1>5, <1>6, <1>11, <1>12, <2>2, <2>4 DEF Unscanned, Apart, ChunkOK
  <2> QED BY <1>1, <2>1, <2>3, <2>4 DEF ChunkOK, CopyEnd, FillerEnd
<1>17. RoomOK'
  <2>1. \A c \in Shared' : ChunkOK(c)' BY <1>12, <1>13, <1>15, ChunkTypes DEF RoomOK
  <2>2. \A u \in Workers : ChunkOK(cur[u])'
    <3>1. \A u \in Workers \ {w} : ChunkOK(cur[u])' BY <1>4, <1>12, <1>15, ChunkTypes DEF RoomOK
    <3> QED BY <1>16, <3>1
  <2>3. ASSUME NEW u \in Workers, Open(u)'
        PROVE  /\ \A c \in arena' : Apart(c[1], CopyEnd(c), cur'[u].alloc, cur'[u].end)
               /\ \A f \in fillers : Apart(f[1], FillerEnd(f), cur'[u].alloc, cur'[u].end)
               /\ \A c \in Shared : Apart(c.scan, c.end, cur'[u].scan, cur'[u].end)
               /\ \A v \in Workers \ {u} : Apart(cur'[v].scan, cur'[v].end, cur'[u].scan, cur'[u].end)
    <3>1. Open(u) BY <1>10, <2>3
    <3>2. CASE u = w
      <4>1. \A c \in arena : Apart(c[1], CopyEnd(c), cur'[w].alloc, cur'[w].end)
        BY <1>2, <1>3, <1>5, <1>6, <1>11, <1>12 DEF Apart
      <4>2. \A f \in fillers : Apart(f[1], FillerEnd(f), cur'[w].alloc, cur'[w].end)
        BY <1>2, <1>3, <1>5, <1>6, <1>11, <1>12 DEF Apart
      <4>3. Apart(new[1], CopyEnd(new), cur'[w].alloc, cur'[w].end) BY <1>2, <1>5, <1>9 DEF Apart
      <4> QED BY <1>4, <1>5, <1>8, <1>12, <3>2, <4>1, <4>2, <4>3
    <3>3. CASE u # w
      <4>1. Apart(new[1], CopyEnd(new), cur[u].alloc, cur[u].end)
        BY <1>9, <1>12, <1>15, <3>3, ChunkTypes DEF RoomOK
      <4>2. \A v \in Workers : cur'[v].scan = cur[v].scan /\ cur'[v].end = cur[v].end
        BY <1>4, <1>5
      <4> QED BY <1>4, <1>8, <3>1, <3>3, <4>1, <4>2 DEF RoomOK
    <3> QED BY <3>2, <3>3
  <2> QED BY <1>1, <1>13, <2>1, <2>2, <2>3 DEF RoomOK, CopyEnd, FillerEnd
<1>18. UnsharedOK'
  <2>1. /\ \A c \in Shared : at \notin Unscanned(c)
        /\ \A u \in Workers \ {w} : at \notin Unscanned(cur[u])
    BY <1>12, <1>15, ChunkTypes DEF RoomOK
  <2>2. ASSUME NEW u \in Workers \ {w}, pc[u] \in Placed, claim[u].at \notin Unscanned(cur[w])
        PROVE  claim[u].at \notin Unscanned(cur'[w])
    <3>1. <<claim[u].at, claim[u].obj>> \in arena BY <2>2 DEF ClaimsOK, ClaimOK
    <3>2. PICK c \in arena : c[1] = claim[u].at BY <3>1
    <3>3. at = cur[w].alloc BY DEF at
    <3> QED BY <1>2, <1>3, <1>5, <1>6, <1>11, <1>12, <2>2, <3>2, <3>3 DEF Unscanned, Apart
  <2>3. \A v \in Workers : cur'[v].scan = cur[v].scan /\ cur'[v].end = cur[v].end
    BY <1>4, <1>5
  <2>4. ASSUME NEW u \in Workers, pc'[u] \in Placed
        PROVE  /\ pc'[u] # "share" \/ claim'[u].oversize =>
                    /\ \A c \in Shared : claim'[u].at \notin Unscanned(c)
                    /\ \A v \in Workers \ {u} : claim'[u].at \notin Unscanned(cur'[v])
               /\ claim'[u].oversize =>
                    /\ claim'[u].at \notin Unscanned(cur'[u])
                    /\ \A v \in Workers : Open(v)' =>
                         Apart(claim'[u].at, claim'[u].at + Need(claim'[u].obj), cur'[v].scan, cur'[v].end)
    <3>1. CASE u = w BY <1>4, <1>8, <2>1, <3>1
    <3>2. CASE u # w
      <4>1. pc'[u] = pc[u] /\ claim'[u] = claim[u] /\ cur'[u] = cur[u] /\ u \in Workers \ {w}
        BY <1>4, <1>8, <3>2
      <4>2. /\ pc[u] # "share" \/ claim[u].oversize =>
                 /\ \A c \in Shared : claim[u].at \notin Unscanned(c)
                 /\ \A v \in Workers \ {u} : claim[u].at \notin Unscanned(cur[v])
            /\ claim[u].oversize =>
                 /\ claim[u].at \notin Unscanned(cur[u])
                 /\ \A v \in Workers : Open(v) =>
                      Apart(claim[u].at, claim[u].at + Need(claim[u].obj), cur[v].scan, cur[v].end)
        BY <2>4, <4>1 DEF UnsharedOK
      <4>3. ASSUME pc[u] # "share" \/ claim[u].oversize, NEW v \in Workers \ {u}
            PROVE  claim[u].at \notin Unscanned(cur'[v])
        <5>1. claim[u].at \notin Unscanned(cur[v]) BY <4>2, <4>3
        <5>2. CASE v = w BY <2>2, <2>4, <4>1, <5>1, <5>2
        <5>3. CASE v # w BY <1>4, <5>1, <5>3
        <5> QED BY <5>2, <5>3
      <4> QED BY <1>10, <2>3, <4>1, <4>2, <4>3
    <3> QED BY <3>1, <3>2
  <2> QED BY <1>13, <2>4 DEF UnsharedOK
<1> QED BY <1>8, <1>14, <1>17, <1>18

\* The open chunk is plugged and handed on if there is anything in it to scan;
\* the copy goes to the start of a fresh one.
LEMMA SealingKeeps ==
  ASSUME DataOK, ClaimsOK, CopiesOK, PiecesApart, RoomOK, UnsharedOK, NEW w \in Workers, AllocSealing(w)
  PROVE  (ClaimsOK /\ CopiesOK /\ PiecesApart /\ RoomOK /\ UnsharedOK)'
<1> DEFINE o == claim[w].obj
           top == arenaUsed
           size == IF next[w] > Need(o) THEN next[w] ELSE Need(o)
           old == [cur[w] EXCEPT !.alloc = @ + (cur[w].end - @)]
           fresh == [Chunk(top, size) EXCEPT !.alloc = top + Need(o)]
           new == <<top, o>>
<1>1. /\ pc[w] = "alloc" /\ Place(w, top, FALSE)
      /\ fillers' = fillers \cup Plug(cur[w])
      /\ arenaUsed' = top + size
      /\ cur' = [cur EXCEPT ![w] = fresh]
      /\ IF cur[w].scan < old.alloc THEN SetAside(w, old) ELSE UNCHANGED <<scanning, steal>>
      /\ UNCHANGED sweep
  BY DEF AllocSealing, Place
<1>2. /\ cur[w].scan \in Nat /\ cur[w].alloc \in Nat /\ cur[w].end \in Nat /\ cur[w] \in ChunkSet
      /\ cur[w].scan <= cur[w].alloc /\ cur[w].alloc <= cur[w].end /\ cur[w].end <= top /\ top \in Nat
  BY ChunkTypes, ChunkFields DEF RoomOK, ChunkOK, IsChunk, DataOK
<1>3. o \in Objects /\ Need(o) \in Nat \ {0}
  <2>1. o \in Objects BY <1>1 DEF ClaimsOK, ClaimOK, Evacuating
  <2> QED BY <2>1, NeedType
<1>4. size \in Nat /\ Need(o) <= size
  <2>1. next[w] \in Nat BY ParDrainAssumption DEF DataOK
  <2> QED BY <1>3, <2>1
<1>5. old \in ChunkSet /\ old.scan = cur[w].scan /\ old.alloc = cur[w].end /\ old.end = cur[w].end
  <2>1. cur[w].alloc + (cur[w].end - cur[w].alloc) = cur[w].end BY <1>2
  <2>2. old = [cur[w] EXCEPT !.alloc = cur[w].end] BY <2>1
  <2> HIDE DEF old
  <2> QED BY <1>2, <2>2, ChunkFields
<1>6. fresh.scan = top /\ fresh.alloc = top + Need(o) /\ fresh.end = top + size
  BY DEF Chunk
<1>7. cur'[w] = fresh /\ \A u \in Workers \ {w} : cur'[u] = cur[u] BY <1>1 DEF DataOK
<1> HIDE DEF size, old, fresh
<1>8. top \in Unscanned(cur'[w]) BY <1>2, <1>3, <1>6, <1>7 DEF Unscanned
<1>9. /\ (ClaimsOK /\ CopiesOK)'
      /\ arena' = arena \cup {new}
      /\ pc'[w] = "copy" /\ \A u \in Workers \ {w} : pc'[u] = pc[u] /\ claim'[u] = claim[u]
      /\ claim'[w].obj = o /\ claim'[w].at = top /\ claim'[w].oversize = FALSE
  BY <1>1, <1>2, <1>7, <1>8, PlaceKeeps
<1>10. new[1] = top /\ CopyEnd(new) = top + Need(o) BY DEF CopyEnd
<1>11. Open(w) /\ \A u \in Workers : Open(u)' => Open(u) BY <1>1, <1>9 DEF Open
<1>12. /\ \A c \in arena : c[1] \in Nat /\ CopyEnd(c) \in Nat /\ c[1] < CopyEnd(c) /\ CopyEnd(c) <= top
       /\ \A f \in fillers : f[1] \in Nat /\ FillerEnd(f) \in Nat /\ f[1] < FillerEnd(f) /\ FillerEnd(f) <= top
  BY NeedType DEF DataOK, CopyEnd, FillerEnd, PiecesApart
<1>13. /\ \A c \in arena : Apart(c[1], CopyEnd(c), cur[w].alloc, cur[w].end)
       /\ \A f \in fillers : Apart(f[1], FillerEnd(f), cur[w].alloc, cur[w].end)
       /\ \A c \in Shared : Apart(c.scan, c.end, cur[w].scan, cur[w].end)
       /\ \A u \in Workers \ {w} : Apart(cur[u].scan, cur[u].end, cur[w].scan, cur[w].end)
  BY <1>11 DEF RoomOK
<1>14. \A c \in Shared' : c \in Shared \/ c = old
  <2>1. CASE cur[w].scan < old.alloc BY <1>1, <1>5, <2>1, SetAsideEffect
  <2>2. CASE ~(cur[w].scan < old.alloc)
    <3>1. UNCHANGED <<steal, scanning, sweep>> BY <1>1, <2>2
    <3> QED BY <3>1, SharedSame
  <2> QED BY <2>1, <2>2
<1>15. ASSUME NEW f \in Plug(cur[w])
       PROVE  /\ f[1] = cur[w].alloc /\ FillerEnd(f) = cur[w].end /\ f[1] < FillerEnd(f)
              /\ f[1] \in Nat /\ FillerEnd(f) \in Nat /\ FillerEnd(f) <= top
              /\ \A c \in arena : Apart(c[1], CopyEnd(c), f[1], FillerEnd(f))
              /\ \A g \in fillers : Apart(g[1], FillerEnd(g), f[1], FillerEnd(f))
              /\ \A c \in Shared : f[1] \notin Unscanned(c)
              /\ \A u \in Workers \ {w} : f[1] \notin Unscanned(cur[u])
              /\ \A u \in Workers \ {w} : Apart(cur[u].scan, cur[u].end, f[1], FillerEnd(f))
  BY <1>2, <1>11, PlugApart
<1>16. \A f, g \in Plug(cur[w]) : f = g BY DEF Plug
<1> HIDE DEF o, new, top
<1>17. top = arenaUsed BY DEF top
<1>18. \A f \in fillers' : f \in fillers \/ f \in Plug(cur[w]) BY <1>1
<1>19. \A f \in fillers' : f[1] \in Nat /\ FillerEnd(f) \in Nat /\ f[1] < FillerEnd(f) /\ FillerEnd(f) <= top
  BY <1>12, <1>15, <1>18
<1>20. PiecesApart'
  <2>1. ASSUME NEW c \in arena'
        PROVE  CopyEnd(c) <= arenaUsed' /\ \A d \in arena' : c = d \/ Apart(c[1], CopyEnd(c), d[1], CopyEnd(d))
    <3>1. \A d \in arena : Apart(d[1], CopyEnd(d), new[1], CopyEnd(new)) BY <1>2, <1>10, <1>12 DEF Apart
    <3>2. \A d \in arena : Apart(new[1], CopyEnd(new), d[1], CopyEnd(d)) BY <3>1 DEF Apart
    <3>3. CopyEnd(c) <= arenaUsed' BY <1>1, <1>2, <1>3, <1>4, <1>9, <1>10, <1>12
    <3> QED BY <1>9, <3>1, <3>2, <3>3 DEF PiecesApart
  <2>2. ASSUME NEW f \in fillers', NEW g \in fillers' PROVE f = g \/ Apart(f[1], FillerEnd(f), g[1], FillerEnd(g))
    BY <1>15, <1>16, <1>18 DEF PiecesApart, Apart
  <2>3. ASSUME NEW c \in arena', NEW f \in fillers' PROVE Apart(c[1], CopyEnd(c), f[1], FillerEnd(f))
    <3>1. CASE c = new BY <1>10, <1>19, <3>1 DEF Apart
    <3>2. CASE c \in arena BY <1>15, <1>18, <3>2 DEF PiecesApart
    <3> QED BY <1>9, <3>1, <3>2
  <2>4. \A f \in fillers' : FillerEnd(f) <= arenaUsed' BY <1>1, <1>2, <1>4, <1>19
  <2> QED BY <2>1, <2>2, <2>3, <2>4 DEF PiecesApart, CopyEnd, FillerEnd
<1>21. ASSUME NEW c \in ChunkSet, ChunkOK(c), \A f \in Plug(cur[w]) : f[1] \notin Unscanned(c)
       PROVE  ChunkOK(c)' /\ top \notin Unscanned(c)
  <2>1. c.scan \in Nat /\ c.alloc \in Nat /\ c.end \in Nat /\ c.scan <= c.alloc /\ c.alloc <= c.end /\ c.end <= top
    BY <1>17, <1>21, ChunkFields DEF ChunkOK, IsChunk
  <2>2. top \notin Unscanned(c) BY <1>2, <2>1 DEF Unscanned
  <2>3. \A p \in arena' : p[1] \in Unscanned(c) => CopyEnd(p) <= c.alloc
    BY <1>9, <1>10, <1>21, <2>2 DEF ChunkOK
  <2>4. \A f \in fillers' : f[1] \in Unscanned(c) => FillerEnd(f) <= c.alloc
    BY <1>18, <1>21 DEF ChunkOK
  <2>5. IsChunk(c)' BY <1>1, <1>2, <1>4, <2>1 DEF IsChunk
  <2> QED BY <2>2, <2>3, <2>4, <2>5 DEF ChunkOK, CopyEnd, FillerEnd
<1>22. ASSUME NEW c \in ChunkSet, c = old PROVE ChunkOK(c)' /\ top \notin Unscanned(c)
  <2>6. /\ c.scan = cur[w].scan /\ c.alloc = cur[w].end /\ c.end = cur[w].end BY <1>5, <1>22
  <2>1. ChunkOK(cur[w]) BY DEF RoomOK
  <2>2. top \notin Unscanned(c) BY <1>2, <2>6 DEF Unscanned
  <2>3. ASSUME NEW p \in arena', p[1] \in Unscanned(c) PROVE CopyEnd(p) <= c.alloc
    <3>1. p \in arena BY <1>9, <1>10, <2>2, <2>3
    <3> QED BY <1>2, <2>6, <1>12, <1>13, <2>1, <2>3, <3>1 DEF Unscanned, Apart, ChunkOK
  <2>4. ASSUME NEW f \in fillers', f[1] \in Unscanned(c) PROVE FillerEnd(f) <= c.alloc
    <3>1. CASE f \in Plug(cur[w]) BY <1>2, <2>6, <1>15, <3>1
    <3>2. CASE f \in fillers
      BY <1>2, <2>6, <1>12, <1>13, <2>1, <2>4, <3>2 DEF Unscanned, Apart, ChunkOK
    <3> QED BY <1>18, <3>1, <3>2
  <2>5. IsChunk(c)' BY <1>1, <1>2, <1>4, <2>6 DEF IsChunk
  <2> QED BY <2>2, <2>3, <2>4, <2>5 DEF ChunkOK, CopyEnd, FillerEnd
<1>23. ChunkOK(cur[w])'
  <2>1. IsChunk(cur[w])' BY <1>1, <1>2, <1>3, <1>4, <1>6, <1>7 DEF IsChunk
  <2>2. \A p \in arena' : p[1] \in Unscanned(fresh) => CopyEnd(p) <= fresh.alloc
    BY <1>2, <1>3, <1>6, <1>9, <1>10, <1>12 DEF Unscanned
  <2>3. \A f \in fillers' : f[1] \notin Unscanned(fresh)
    BY <1>2, <1>3, <1>6, <1>19 DEF Unscanned
  <2> QED BY <1>7, <2>1, <2>2, <2>3 DEF ChunkOK, CopyEnd, FillerEnd
<1>24. \A c \in Shared \cup {cur[u] : u \in Workers} :
          c \in ChunkSet /\ c.scan \in Nat /\ c.alloc \in Nat /\ c.end \in Nat /\ c.end <= top /\ c.alloc <= c.end /\ c.scan <= c.alloc
  BY <1>17, ChunkTypes, ChunkFields DEF RoomOK, ChunkOK, IsChunk
<1>25. RoomOK'
  <2>1. ASSUME NEW c \in Shared' PROVE ChunkOK(c)'
    <3>1. CASE c \in Shared BY <1>15, <1>21, <3>1, ChunkTypes DEF RoomOK
    <3>2. CASE c = old BY <1>5, <1>22, <3>2
    <3> QED BY <1>14, <3>1, <3>2
  <2>2. \A u \in Workers : ChunkOK(cur[u])'
    <3>1. \A u \in Workers \ {w} : ChunkOK(cur[u])' BY <1>7, <1>15, <1>21, ChunkTypes DEF RoomOK
    <3> QED BY <1>23, <3>1
  <2>3. ASSUME NEW u \in Workers, Open(u)'
        PROVE  /\ \A c \in arena' : Apart(c[1], CopyEnd(c), cur'[u].alloc, cur'[u].end)
               /\ \A f \in fillers' : Apart(f[1], FillerEnd(f), cur'[u].alloc, cur'[u].end)
               /\ \A c \in Shared' : Apart(c.scan, c.end, cur'[u].scan, cur'[u].end)
               /\ \A v \in Workers \ {u} : Apart(cur'[v].scan, cur'[v].end, cur'[u].scan, cur'[u].end)
    <3>1. Open(u) BY <1>11, <2>3
    <3>2. CASE u = w
      <4>1. \A c \in arena' : Apart(c[1], CopyEnd(c), fresh.alloc, fresh.end)
        BY <1>2, <1>3, <1>6, <1>9, <1>10, <1>12 DEF Apart
      <4>2. \A f \in fillers' : Apart(f[1], FillerEnd(f), fresh.alloc, fresh.end)
        BY <1>2, <1>3, <1>6, <1>19 DEF Apart
      <4>3. \A c \in Shared' : Apart(c.scan, c.end, fresh.scan, fresh.end)
        BY <1>2, <1>5, <1>6, <1>14, <1>24 DEF Apart
      <4>4. \A v \in Workers \ {w} : Apart(cur[v].scan, cur[v].end, fresh.scan, fresh.end)
        BY <1>6, <1>24 DEF Apart
      <4> QED BY <1>7, <3>2, <4>1, <4>2, <4>3, <4>4
    <3>3. CASE u # w
      <4>1. \A c \in arena' : Apart(c[1], CopyEnd(c), cur[u].alloc, cur[u].end)
        <5>1. Apart(new[1], CopyEnd(new), cur[u].alloc, cur[u].end)
          BY <1>10, <1>24 DEF Apart
        <5> QED BY <1>9, <3>1, <5>1 DEF RoomOK
      <4>2. \A f \in fillers' : Apart(f[1], FillerEnd(f), cur[u].alloc, cur[u].end)
        <5>1. ASSUME NEW f \in Plug(cur[w]) PROVE Apart(f[1], FillerEnd(f), cur[u].alloc, cur[u].end)
          BY <1>15, <1>24, <3>3 DEF Apart
        <5> QED BY <1>18, <3>1, <5>1 DEF RoomOK
      <4>3. \A c \in Shared' : Apart(c.scan, c.end, cur[u].scan, cur[u].end)
        BY <1>5, <1>13, <1>14, <3>1, <3>3 DEF RoomOK, Apart
      <4>4. Apart(fresh.scan, fresh.end, cur[u].scan, cur[u].end) BY <1>6, <1>24 DEF Apart
      <4> QED BY <1>7, <3>1, <3>3, <4>1, <4>2, <4>3, <4>4 DEF RoomOK
    <3> QED BY <3>2, <3>3
  <2> QED BY <2>1, <2>2, <2>3 DEF RoomOK, CopyEnd, FillerEnd
<1>26. UnsharedOK'
  <2>1. /\ \A c \in Shared' : top \notin Unscanned(c)
        /\ \A u \in Workers \ {w} : top \notin Unscanned(cur[u])
    BY <1>2, <1>5, <1>14, <1>22, <1>24 DEF Unscanned
  <2>2. ASSUME NEW u \in Workers \ {w}, pc[u] \in Placed
        PROVE  /\ claim[u].at \notin Unscanned(fresh)
               /\ claim[u].at \notin Unscanned(cur[w]) => claim[u].at \notin Unscanned(old)
               /\ Apart(claim[u].at, claim[u].at + Need(claim[u].obj), fresh.scan, fresh.end)
    <3>1. <<claim[u].at, claim[u].obj>> \in arena BY <2>2 DEF ClaimsOK, ClaimOK
    <3>2. PICK c \in arena : c[1] = claim[u].at /\ CopyEnd(c) = claim[u].at + Need(claim[u].obj)
      BY <3>1 DEF CopyEnd
    <3> QED BY <1>2, <1>3, <1>5, <1>6, <1>12, <1>13, <3>2 DEF Unscanned, Apart
  <2>3. ASSUME NEW u \in Workers, pc'[u] \in Placed
        PROVE  /\ pc'[u] # "share" \/ claim'[u].oversize =>
                    /\ \A c \in Shared' : claim'[u].at \notin Unscanned(c)
                    /\ \A v \in Workers \ {u} : claim'[u].at \notin Unscanned(cur'[v])
               /\ claim'[u].oversize =>
                    /\ claim'[u].at \notin Unscanned(cur'[u])
                    /\ \A v \in Workers : Open(v)' =>
                         Apart(claim'[u].at, claim'[u].at + Need(claim'[u].obj), cur'[v].scan, cur'[v].end)
    <3>1. CASE u = w BY <1>7, <1>9, <2>1, <3>1
    <3>2. CASE u # w
      <4>1. pc'[u] = pc[u] /\ claim'[u] = claim[u] /\ cur'[u] = cur[u] /\ u \in Workers \ {w}
        BY <1>7, <1>9, <3>2
      <4>2. /\ pc[u] # "share" \/ claim[u].oversize =>
                 /\ \A c \in Shared : claim[u].at \notin Unscanned(c)
                 /\ \A v \in Workers \ {u} : claim[u].at \notin Unscanned(cur[v])
            /\ claim[u].oversize =>
                 /\ claim[u].at \notin Unscanned(cur[u])
                 /\ \A v \in Workers : Open(v) =>
                      Apart(claim[u].at, claim[u].at + Need(claim[u].obj), cur[v].scan, cur[v].end)
        BY <2>3, <4>1 DEF UnsharedOK
      <4>3. ASSUME pc[u] # "share" \/ claim[u].oversize
            PROVE  /\ \A c \in Shared' : claim[u].at \notin Unscanned(c)
                   /\ \A v \in Workers \ {u} : claim[u].at \notin Unscanned(cur'[v])
        <5>1. claim[u].at \notin Unscanned(old) /\ claim[u].at \notin Unscanned(fresh)
          BY <2>2, <2>3, <3>2, <4>1, <4>2, <4>3
        <5> QED BY <1>7, <1>14, <4>2, <4>3, <5>1
      <4>4. ASSUME claim[u].oversize, NEW v \in Workers, Open(v)'
            PROVE  Apart(claim[u].at, claim[u].at + Need(claim[u].obj), cur'[v].scan, cur'[v].end)
        <5>1. Open(v) BY <1>11, <4>4
        <5>2. CASE v = w BY <1>7, <2>2, <2>3, <4>1, <5>2
        <5>3. CASE v # w BY <1>7, <4>2, <4>4, <5>1, <5>3
        <5> QED BY <5>2, <5>3
      <4> QED BY <4>1, <4>2, <4>3, <4>4
    <3> QED BY <3>1, <3>2
  <2> QED BY <2>3 DEF UnsharedOK
<1> QED BY <1>9, <1>20, <1>25, <1>26

\* An oversize copy becomes a chunk of its own.
LEMMA ShareKeeps ==
  ASSUME DataOK, ClaimsOK, CopiesOK, PiecesApart, RoomOK, UnsharedOK, NEW w \in Workers, Share(w)
  PROVE  (ClaimsOK /\ CopiesOK /\ PiecesApart /\ RoomOK /\ UnsharedOK)'
<1> DEFINE o == claim[w].obj
           at == claim[w].at
           c == Filled(at, Need(o))
           copy == <<at, o>>
<1>1. /\ pc[w] = "share"
      /\ IF claim[w].oversize THEN SetAside(w, c) ELSE UNCHANGED <<scanning, steal>>
      /\ claim' = [claim EXCEPT ![w] = NoClaim] /\ pc' = [pc EXCEPT ![w] = "scan"]
      /\ UNCHANGED <<header, to, arena, whole, fillers, arenaUsed, cur, sweep, own>>
  BY DEF Share
<1>2. o \in Objects /\ at \in Nat /\ Need(o) \in Nat \ {0} /\ copy \in arena
  <2>1. o \in Objects /\ at \in Nat /\ copy \in arena
    BY <1>1, ClaimFields DEF ClaimsOK, ClaimOK, Evacuating, Placed, DataOK
  <2> QED BY <2>1, NeedType
<1>3. \A u \in Workers \ {w} : pc'[u] = pc[u] /\ claim'[u] = claim[u] /\ slots'[u] = slots[u]
  BY <1>1 DEF DataOK, Share, Forward
<1>4. pc'[w] = "scan" /\ claim'[w] = NoClaim BY <1>1 DEF DataOK
<1>5. c.scan = at /\ c.alloc = at + Need(o) /\ c.end = at + Need(o) /\ c \in ChunkSet
  BY <1>2 DEF Filled, ChunkSet
<1>6. copy[1] = at /\ CopyEnd(copy) = at + Need(o) BY DEF CopyEnd
<1>7. \A u \in Workers \ {w} : pc[u] \in Evacuating => claim[u].obj # o
  BY <1>1 DEF ClaimsOK, OneClaimant, Evacuating
<1> HIDE DEF o, at, c, copy
<1>8. \A d \in Shared' : d \in Shared \/ (claim[w].oversize /\ d = c)
  <2>1. CASE claim[w].oversize BY <1>1, <1>5, <2>1, SetAsideEffect
  <2>2. CASE ~claim[w].oversize
    <3>1. UNCHANGED <<steal, scanning, sweep>> BY <1>1, <2>2
    <3> QED BY <3>1, SharedSame
  <2> QED BY <2>1, <2>2
<1>9. \A u \in Workers : Open(u)' => Open(u) BY <1>1, <1>3 DEF Open
<1>10. /\ \A p \in arena : p[1] \in Nat /\ CopyEnd(p) \in Nat /\ p[1] < CopyEnd(p)
       /\ \A f \in fillers : f[1] \in Nat /\ FillerEnd(f) \in Nat /\ f[1] < FillerEnd(f)
  BY NeedType DEF DataOK, CopyEnd, FillerEnd
<1>11. ClaimsOK'
  <2>1. ClaimOK(w)' BY <1>4 DEF ClaimOK, Evacuating, Unpublished, Placed
  <2>2. ASSUME NEW u \in Workers \ {w} PROVE ClaimOK(u)'
    <3>1. Referent(u)' = Referent(u) BY <1>3 DEF Referent
    <3>2. ClaimOK(u) BY DEF ClaimsOK
    <3> QED BY <1>1, <1>3, <3>1, <3>2 DEF ClaimOK
  <2>3. OneClaimant' BY <1>3, <1>4 DEF ClaimsOK, OneClaimant, Evacuating
  <2> QED BY <2>1, <2>2, <2>3 DEF ClaimsOK
<1>12. CopiesOK'
  <2>1. ASSUME NEW p \in arena, header[p[2]] # "copied"
        PROVE  \E u \in Workers : pc'[u] \in {"copy", "publish"} /\ claim'[u].obj = p[2]
    <3>1. PICK u \in Workers : pc[u] \in {"copy", "publish"} /\ claim[u].obj = p[2] BY <2>1 DEF CopiesOK
    <3>2. u # w BY <1>1, <3>1
    <3> QED BY <1>3, <3>1, <3>2
  <2> QED BY <1>1, <2>1 DEF CopiesOK
<1>13. PiecesApart' BY <1>1 DEF PiecesApart
<1>14. ASSUME NEW p \in arena PROVE p[1] \in Unscanned(c) => p = copy
  <2>1. p = copy \/ Apart(p[1], CopyEnd(p), copy[1], CopyEnd(copy)) BY <1>2 DEF PiecesApart
  <2> QED BY <1>2, <1>5, <1>6, <1>10, <2>1 DEF Unscanned, Apart
<1>15. ASSUME NEW f \in fillers PROVE f[1] \notin Unscanned(c)
  <2>1. Apart(copy[1], CopyEnd(copy), f[1], FillerEnd(f)) BY <1>2 DEF PiecesApart
  <2> QED BY <1>2, <1>5, <1>6, <1>10, <2>1 DEF Unscanned, Apart
<1>16. ASSUME NEW d, ChunkOK(d) \/ d = c PROVE ChunkOK(d)'
  <2>1. CASE ChunkOK(d) BY <1>1, <2>1 DEF ChunkOK, IsChunk
  <2>2. CASE d = c
    <3>1. CopyEnd(copy) <= arenaUsed BY <1>2 DEF PiecesApart
    <3>2. IsChunk(d)' BY <1>1, <1>2, <1>5, <1>6, <2>2, <3>1 DEF IsChunk
    <3>3. \A p \in arena : p[1] \in Unscanned(d) => CopyEnd(p) <= d.alloc
      BY <1>2, <1>5, <1>6, <1>14, <2>2
    <3>4. \A f \in fillers : f[1] \notin Unscanned(d) BY <1>15, <2>2
    <3> QED BY <1>1, <3>2, <3>3, <3>4 DEF ChunkOK, CopyEnd
  <2> QED BY <1>16, <2>1, <2>2
<1>17. claim[w].oversize => \A u \in Workers : Open(u) => Apart(c.scan, c.end, cur[u].scan, cur[u].end)
  BY <1>1, <1>5 DEF UnsharedOK, Placed, at, o
<1>18. RoomOK'
  <2>1. \A d \in Shared' : ChunkOK(d)' BY <1>8, <1>16 DEF RoomOK
  <2>2. \A u \in Workers : ChunkOK(cur[u])' BY <1>1, <1>16 DEF RoomOK
  <2> QED BY <1>1, <1>8, <1>9, <1>17, <2>1, <2>2 DEF RoomOK
<1>19. UnsharedOK'
  <2>1. ASSUME NEW u \in Workers \ {w}, pc[u] \in Placed PROVE claim[u].at \notin Unscanned(c)
    <3>1. <<claim[u].at, claim[u].obj>> \in arena /\ claim[u].obj # o
      BY <1>7, <2>1 DEF ClaimsOK, ClaimOK, Placed, Evacuating
    <3> QED BY <1>14, <3>1 DEF copy
  <2>2. \A u \in Workers : pc'[u] \in Placed => u \in Workers \ {w} /\ pc[u] \in Placed /\ pc'[u] = pc[u] /\ claim'[u] = claim[u]
    BY <1>3, <1>4 DEF Placed
  <2> QED BY <1>1, <1>8, <1>9, <2>1, <2>2 DEF UnsharedOK
<1> QED BY <1>11, <1>12, <1>13, <1>18, <1>19

-----------------------------------------------------------------------------
(* The hands, the ranges, the slots that are final, and quiescence *)

\* A step of a worker leaves what the others have in hand alone.
LEMMA OthersStay ==
  ASSUME DataOK, NEW w \in Workers, Work(w), NEW u \in Workers \ {w}
  PROVE  /\ pc'[u] = pc[u] /\ cur'[u] = cur[u] /\ scanning'[u] = scanning[u] /\ sweep'[u] = sweep[u]
         /\ own'[u] = own[u] /\ slots'[u] = slots[u] /\ claim'[u] = claim[u]
<1> USE DEF DataOK
<1>1. ASSUME NEW c, SetAside(w, c) PROVE scanning'[u] = scanning[u] BY <1>1 DEF SetAside
<1>2. CASE Find(w) BY <1>2 DEF Find, TakeScanning, SweepOwn, Steal, NothingToSteal
<1>3. CASE Quiesce(w) BY <1>3 DEF Quiesce, Leave, Probe, Rejoin, AskAgain, Exit
<1>4. CASE Scan(w)
  BY <1>4 DEF Scan, NextObject, NextFiller, SweepEnd, Split, ScanEnd, Follow, Claim, Advance, Forward
<1>5. CASE Evacuate(w)
  BY <1>1, <1>5 DEF Evacuate, AllocOversize, AllocInChunk, AllocSealing, Copy, Publish, Share, Place, Forward
<1> QED BY <1>2, <1>3, <1>4, <1>5 DEF Work

\* Whoever goes idle has nothing left in its hands.
LEMMA HandsStep ==
  ASSUME DataOK, HandsOK, ClaimsOK, NEW w \in Workers, Work(w), DataOK'
  PROVE  HandsOK'
<1>1. HandOK(w) BY DEF HandsOK
<1>2. /\ pc \in [Workers -> Places] /\ scanning \in [Workers -> SUBSET ChunkSet]
      /\ sweep \in [Workers -> ChunkSet] /\ own \in [Workers -> BOOLEAN] /\ cur \in [Workers -> ChunkSet]
  BY DEF DataOK
<1>3. ASSUME NEW c, SetAside(w, c) PROVE \A d, e \in scanning'[w] : d = e
  <2>1. scanning'[w] = {c} \/ scanning'[w] = scanning[w] BY <1>2, <1>3 DEF SetAside
  <2> QED BY <1>1, <2>1 DEF HandOK
<1> USE DEF InSweep, Idling
<1>4. SUFFICES HandOK(w)'
  BY OthersStay DEF HandsOK, HandOK
<1>5. CASE TakeScanning(w)
  <2>1. scanning'[w] = {} /\ own'[w] = FALSE /\ pc'[w] = "sweep" BY <1>2, <1>5 DEF TakeScanning
  <2> QED BY <2>1 DEF HandOK
<1>6. CASE SweepOwn(w)
  <2>1. pc[w] = "drain" /\ sweep' = sweep /\ scanning' = scanning /\ pc'[w] = "sweep" BY <1>2, <1>6 DEF SweepOwn
  <2> QED BY <1>1, <2>1 DEF HandOK
<1>7. CASE Steal(w)
  <2>1. scanning' = scanning /\ own'[w] = FALSE /\ pc'[w] \in {"sweep", "scan"} BY <1>2, <1>7 DEF Steal
  <2> QED BY <1>1, <2>1 DEF HandOK
<1>8. CASE NothingToSteal(w)
  <2>1. pc[w] = "drain" /\ UNCHANGED <<sweep, scanning, cur>> /\ scanning[w] = {} /\ cur[w].scan >= cur[w].alloc
    BY <1>8 DEF NothingToSteal
  <2> QED BY <1>1, <2>1 DEF HandOK
<1>9. CASE Leave(w) \/ Probe(w) \/ Rejoin(w) \/ AskAgain(w) \/ Exit(w)
  <2>1. pc[w] \in Idling /\ UNCHANGED <<sweep, scanning, cur, own>> /\ pc'[w] \in Idling \cup {"drain"}
    BY <1>2, <1>9 DEF Leave, Probe, Rejoin, AskAgain, Exit
  <2> QED BY <1>1, <2>1 DEF HandOK
<1>10. CASE NextObject(w)
  <2>1. scanning' = scanning /\ own' = own /\ pc'[w] \in {"sweep", "scan"} /\ (own[w] => sweep' = sweep)
    BY <1>2, <1>10 DEF NextObject, Advance, Unswept
  <2> QED BY <1>1, <2>1 DEF HandOK
<1>11. CASE NextFiller(w)
  <2>1. scanning' = scanning /\ own' = own /\ pc'[w] = "sweep" /\ (own[w] => sweep' = sweep)
    BY <1>2, <1>11 DEF NextFiller, Advance, Unswept
  <2> QED BY <1>1, <2>1 DEF HandOK
<1>12. CASE SweepEnd(w)
  <2>1. UNCHANGED <<sweep, scanning, cur, own>> /\ pc'[w] = "drain" /\ Swept(w).scan >= Swept(w).alloc
    BY <1>2, <1>12 DEF SweepEnd
  <2>2. sweep[w].scan >= sweep[w].alloc BY <1>1, <2>1 DEF Swept, HandOK
  <2> QED BY <1>1, <2>1, <2>2 DEF HandOK
<1>13. CASE Split(w) \/ ScanEnd(w) \/ Follow(w) \/ Claim(w) \/ Copy(w) \/ Publish(w)
  <2>1. UNCHANGED <<sweep, scanning, own>> /\ pc[w] \in InSweep /\ pc'[w] \in InSweep
    BY <1>2, <1>13 DEF Split, ScanEnd, Follow, Claim, Copy, Publish, Scanning
  <2> QED BY <1>1, <2>1 DEF HandOK
<1>14. CASE AllocOversize(w) \/ AllocInChunk(w)
  <2>1. UNCHANGED <<sweep, scanning, own>> /\ pc[w] \in InSweep /\ pc'[w] \in InSweep
    BY <1>2, <1>14 DEF AllocOversize, AllocInChunk, Place
  <2> QED BY <1>1, <2>1 DEF HandOK
<1>15. CASE AllocSealing(w)
  <2>1. UNCHANGED <<sweep, own>> /\ pc[w] \in InSweep /\ pc'[w] \in InSweep
        /\ ((\E c : SetAside(w, c)) \/ scanning' = scanning)
    BY <1>2, <1>15 DEF AllocSealing, Place
  <2> QED BY <1>1, <1>3, <2>1 DEF HandOK
<1>16. CASE Share(w)
  <2>1. UNCHANGED <<sweep, own>> /\ pc[w] \in InSweep /\ pc'[w] \in InSweep
        /\ ((\E c : SetAside(w, c)) \/ scanning' = scanning)
    BY <1>2, <1>16 DEF Share, Forward
  <2> QED BY <1>1, <1>3, <2>1 DEF HandOK
<1> QED
  BY <1>5, <1>6, <1>7, <1>8, <1>9, <1>10, <1>11, <1>12, <1>13, <1>14, <1>15, <1>16
  DEF Work, Find, Quiesce, Scan, Evacuate

\* What is swept over has been published.
LEMMA SweptIsPublished ==
  ASSUME DataOK, ClaimsOK, CopiesOK, UnsharedOK, NEW w \in Workers, Unswept(w),
         NEW o \in Objects, <<Swept(w).scan, o>> \in arena
  PROVE  header[o] = "copied"
<1> SUFFICES ASSUME header[o] # "copied" PROVE FALSE OBVIOUS
<1> DEFINE at == Swept(w).scan
<1>1. PICK u \in Workers : pc[u] \in {"copy", "publish"} /\ claim[u].obj = o BY DEF CopiesOK
<1>2. u # w BY <1>1 DEF Unswept
<1>3. <<claim[u].at, o>> \in arena BY <1>1 DEF ClaimsOK, ClaimOK, Placed
<1>4. claim[u].at = at
  <2>1. <<claim[u].at, o>> = <<at, o>> BY <1>3 DEF CopiesOK
  <2> QED BY <2>1
<1>5. at \in Unscanned(Swept(w))
  <2>1. Swept(w) \in ChunkSet BY DEF Swept, DataOK
  <2> QED BY <2>1, ChunkFields DEF Unswept, Unscanned
<1>6. Swept(w) \in Shared \/ Swept(w) = cur[w] BY SharedDef DEF Swept
<1> QED BY <1>1, <1>2, <1>4, <1>5, <1>6 DEF UnsharedOK, Placed

\* A claim is never taken back, a publication neither.
LEMMA HeaderAdvances ==
  ASSUME DataOK, ClaimsOK, NEW w \in Workers, Work(w), NEW o \in Objects
  PROVE  /\ header[o] = "copied" => header'[o] = "copied"
         /\ header[o] # "normal" => header'[o] # "normal"
<1> USE DEF DataOK
<1>1. CASE Claim(w) BY <1>1 DEF Claim
<1>2. CASE Publish(w) BY <1>2 DEF Publish
<1>3. CASE Find(w) \/ Quiesce(w)
  BY <1>3 DEF Find, TakeScanning, SweepOwn, Steal, NothingToSteal, Quiesce, Leave, Probe, Rejoin, AskAgain, Exit
<1>4. CASE NextObject(w) \/ NextFiller(w) \/ SweepEnd(w) \/ Split(w) \/ ScanEnd(w) \/ Follow(w)
  BY <1>4 DEF NextObject, NextFiller, SweepEnd, Split, ScanEnd, Follow
<1>5. CASE AllocOversize(w) \/ AllocInChunk(w) \/ AllocSealing(w) \/ Copy(w) \/ Share(w)
  BY <1>5 DEF AllocOversize, AllocInChunk, AllocSealing, Copy, Share, Place
<1> QED BY <1>1, <1>2, <1>3, <1>4, <1>5 DEF Work, Scan, Evacuate

\* Only a split puts a range on the list, the upper half of the one at hand.
LEMMA TasksStep ==
  ASSUME DataOK, RangesOK, ClaimsOK, NEW w \in Workers, Work(w)
  PROVE  \A t \in Tasks' : t.kind = "slots" =>
           \/ t \in Tasks
           \/ /\ Split(w)
              /\ t.slots = [slots[w] EXCEPT !.lo = slots[w].lo + (slots[w].hi - slots[w].lo) \div 2]
<1>1. steal \in Seq(TaskSet) BY DEF DataOK
<1>2. ASSUME UNCHANGED steal PROVE Tasks' = Tasks BY <1>2 DEF Tasks
<1>3. ASSUME NEW c \in ChunkSet, SetAside(w, c)
      PROVE  \A t \in Tasks' : t.kind = "slots" => t \in Tasks
  <2>1. CASE scanning[w] = {} BY <1>2, <1>3, <2>1 DEF SetAside
  <2>2. CASE scanning[w] # {}
    <3>1. ChunkTask(c) \in TaskSet BY DEF ChunkTask, TaskSet
    <3>2. Tasks' = Tasks \cup {ChunkTask(c)} BY <1>1, <1>3, <2>2, <3>1, TaskPut DEF SetAside
    <3> QED BY <3>2 DEF ChunkTask
  <2> QED BY <2>1, <2>2
<1>4. CASE Steal(w)
  <2>1. Tasks' \subseteq Tasks BY <1>1, <1>4, TaskTaken DEF Steal
  <2> QED BY <2>1
<1>5. CASE Split(w)
  <2> DEFINE s == [slots[w] EXCEPT !.lo = slots[w].lo + (slots[w].hi - slots[w].lo) \div 2]
  <2>1. steal' = Append(steal, SlotsTask(s)) BY <1>5 DEF Split
  <2>2. s \in SlotsSet
    <3>1. slots[w] \in SlotsSet /\ RangeOK(slots[w]) BY <1>5 DEF Split, RangesOK, DataOK, InSweep
    <3>2. slots[w].lo + (slots[w].hi - slots[w].lo) \div 2 \in Nat BY <3>1, SlotsFields DEF RangeOK
    <3> QED BY <3>1, <3>2, SlotsFields
  <2> HIDE DEF s
  <2>3. SlotsTask(s) \in TaskSet /\ SlotsTask(s).slots = s BY <2>2 DEF SlotsTask, TaskSet
  <2>4. Tasks' = Tasks \cup {SlotsTask(s)} BY <1>1, <2>1, <2>3, TaskPut
  <2> QED BY <1>5, <2>3, <2>4 DEF s
<1>6. CASE Share(w)
  <2>1. CASE claim[w].oversize
    <3>1. claim[w].at \in Nat /\ claim[w].obj \in Objects
      BY <1>6, ClaimFields DEF Share, ClaimsOK, ClaimOK, Evacuating, DataOK
    <3>2. Filled(claim[w].at, Need(claim[w].obj)) \in ChunkSet BY <3>1, NeedType DEF Filled, ChunkSet
    <3> QED BY <1>3, <1>6, <2>1, <3>2 DEF Share
  <2>2. CASE ~claim[w].oversize BY <1>2, <1>6, <2>2 DEF Share
  <2> QED BY <2>1, <2>2
<1>7. CASE AllocSealing(w)
  <2> DEFINE old == [cur[w] EXCEPT !.alloc = @ + (cur[w].end - @)]
  <2>1. SetAside(w, old) \/ UNCHANGED steal BY <1>7 DEF AllocSealing
  <2>2. old \in ChunkSet
    <3>1. cur[w] \in ChunkSet /\ cur[w].alloc + (cur[w].end - cur[w].alloc) \in Nat
      BY ChunkTypes, ChunkFields
    <3> QED BY <3>1, ChunkFields
  <2> HIDE DEF old
  <2> QED BY <1>2, <1>3, <2>1, <2>2
<1>8. CASE TakeScanning(w) \/ SweepOwn(w) \/ NothingToSteal(w) \/ Quiesce(w)
  BY <1>2, <1>8 DEF TakeScanning, SweepOwn, NothingToSteal, Quiesce, Leave, Probe, Rejoin, AskAgain, Exit
<1>9. CASE NextObject(w) \/ NextFiller(w) \/ SweepEnd(w) \/ ScanEnd(w) \/ Follow(w) \/ Claim(w)
  BY <1>2, <1>9 DEF NextObject, NextFiller, SweepEnd, ScanEnd, Follow, Claim
<1>10. CASE AllocOversize(w) \/ AllocInChunk(w) \/ Copy(w) \/ Publish(w)
  BY <1>2, <1>10 DEF AllocOversize, AllocInChunk, Copy, Publish
<1> QED BY <1>4, <1>5, <1>6, <1>7, <1>8, <1>9, <1>10 DEF Work, Find, Scan, Evacuate

\* The ranges in hand and on the list stay ranges of published objects.
LEMMA RangesStep ==
  ASSUME DataOK, RangesOK, ClaimsOK, CopiesOK, UnsharedOK, NEW w \in Workers, Work(w), DataOK'
  PROVE  RangesOK'
<1>1. pc \in [Workers -> Places] /\ slots \in [Workers -> SlotsSet] BY DEF DataOK
<1> USE DEF InSweep
<1>2. ASSUME NEW r \in SlotsSet, RangeOK(r) PROVE RangeOK(r)'
  <2>1. r.obj \in Objects BY <1>2 DEF RangeOK
  <2> QED BY <1>2, <2>1, HeaderAdvances DEF RangeOK
<1>3. ASSUME Split(w)
      PROVE  /\ RangeOK(slots[w]) /\ slots[w] \in SlotsSet
             /\ \E mid \in Nat : /\ slots[w].lo <= mid /\ mid <= slots[w].hi
                                 /\ mid = slots[w].lo + (slots[w].hi - slots[w].lo) \div 2
  <2>1. RangeOK(slots[w]) /\ slots[w] \in SlotsSet BY <1>1, <1>3 DEF Split, RangesOK
  <2>2. slots[w].lo \in Nat /\ slots[w].hi \in Nat /\ slots[w].lo <= slots[w].hi
    BY <2>1, SlotsFields DEF RangeOK
  <2> QED BY <2>1, <2>2
<1>4. \A t \in Tasks' : t.kind = "slots" => RangeOK(t.slots)'
  <2> SUFFICES ASSUME NEW t \in Tasks', t.kind = "slots" PROVE RangeOK(t.slots)' OBVIOUS
  <2>1. CASE t \in Tasks
    <3>1. t \in TaskSet BY <2>1, ChunkTypes
    <3>2. t.slots \in SlotsSet BY <3>1 DEF TaskSet
    <3> QED BY <1>2, <2>1, <3>2 DEF RangesOK
  <2>2. CASE Split(w) /\ t.slots = [slots[w] EXCEPT !.lo = slots[w].lo + (slots[w].hi - slots[w].lo) \div 2]
    <3>1. PICK mid \in Nat : /\ slots[w].lo <= mid /\ mid <= slots[w].hi
                             /\ mid = slots[w].lo + (slots[w].hi - slots[w].lo) \div 2
      BY <1>3, <2>2
    <3>2. RangeOK(slots[w]) /\ slots[w] \in SlotsSet BY <1>3, <2>2
    <3>3. t.slots = [slots[w] EXCEPT !.lo = mid] BY <2>2, <3>1
    <3>4. /\ t.slots.obj = slots[w].obj /\ t.slots.lo = mid /\ t.slots.hi = slots[w].hi /\ t.slots \in SlotsSet
          /\ slots[w].lo \in Nat /\ slots[w].hi \in Nat
      <4> DEFINE s == [slots[w] EXCEPT !.lo = mid]
      <4>1. /\ s.obj = slots[w].obj /\ s.lo = mid /\ s.hi = slots[w].hi /\ s \in SlotsSet
            /\ slots[w].lo \in Nat /\ slots[w].hi \in Nat
        BY <3>2, SlotsFields
      <4>2. t.slots = s BY <3>3
      <4> HIDE DEF s
      <4> QED BY <4>1, <4>2
    <3>5. slots[w].obj \in Objects BY <3>2 DEF RangeOK
    <3>6. Len(Body[slots[w].obj]) \in Nat BY <3>5, BodyType
    <3> HIDE DEF Tasks
    <3>7. RangeOK(t.slots) BY <3>1, <3>2, <3>4, <3>6 DEF RangeOK
    <3> QED BY <1>2, <3>4, <3>7
  <2> QED BY <2>1, <2>2, TasksStep
<1>5. ASSUME NEW u \in Workers \ {w}
      PROVE  /\ pc'[u] \notin InSweep \ {"sweep"} => slots'[u] = NoSlots
             /\ pc'[u] \in InSweep \ {"sweep"} => RangeOK(slots[u])'
  <2>1. pc'[u] = pc[u] /\ slots'[u] = slots[u] BY OthersStay
  <2>2. slots[u] \in SlotsSet BY <1>1
  <2>3. RangeOK(slots[u]) => header'[slots[u].obj] = "copied" BY HeaderAdvances DEF RangeOK
  <2> QED BY <2>1, <2>2, <2>3 DEF RangesOK, RangeOK
<1>6. /\ pc'[w] \notin InSweep \ {"sweep"} => slots'[w] = NoSlots
      /\ pc'[w] \in InSweep \ {"sweep"} => RangeOK(slots[w])'
  <2>0. ASSUME NEW s \in SlotsSet, RangeOK(s), slots'[w] = s PROVE RangeOK(slots[w])'
    BY <1>2, <2>0 DEF RangeOK
  <2>1. CASE Steal(w)
    <3>1. Last(steal) \in Tasks /\ Last(steal) \in TaskSet
      BY <2>1, TaskTaken, ChunkTypes DEF Steal
    <3>2. CASE Last(steal).kind = "chunk"
      <4>1. pc[w] = "drain" /\ pc'[w] = "sweep" /\ slots' = slots BY <1>1, <2>1, <3>2 DEF Steal
      <4> QED BY <4>1 DEF RangesOK
    <3>3. CASE Last(steal).kind # "chunk"
      <4>1. pc'[w] = "scan" /\ slots'[w] = Last(steal).slots BY <1>1, <2>1, <3>3 DEF Steal
      <4>2. Last(steal).kind = "slots" /\ Last(steal).slots \in SlotsSet BY <3>1, <3>3 DEF TaskSet
      <4>3. RangeOK(Last(steal).slots) BY <3>1, <4>2 DEF RangesOK
      <4> QED BY <2>0, <4>1, <4>2, <4>3
    <3> QED BY <3>2, <3>3
  <2>2. CASE TakeScanning(w) \/ SweepOwn(w) \/ NothingToSteal(w) \/ Leave(w) \/ Probe(w) \/ Rejoin(w)
               \/ AskAgain(w) \/ Exit(w) \/ NextFiller(w) \/ SweepEnd(w)
    <3>1. /\ slots' = slots /\ pc[w] \notin InSweep \ {"sweep"} /\ pc'[w] \notin InSweep \ {"sweep"}
      BY <1>1, <2>2
         DEF TakeScanning, SweepOwn, NothingToSteal, Leave, Probe, Rejoin, AskAgain, Exit, NextFiller, SweepEnd, Unswept
    <3> QED BY <3>1 DEF RangesOK
  <2>3. CASE NextObject(w)
    <3>1. PICK o \in Objects :
            /\ <<Swept(w).scan, o>> \in arena
            /\ IF o \in Weak
               THEN UNCHANGED <<pc, slots>>
               ELSE /\ slots' = [slots EXCEPT ![w] = [obj |-> o, lo |-> 1, hi |-> Len(Body[o]) + 1]]
                    /\ Goto(w, "scan")
      BY <2>3 DEF NextObject
    <3>2. Unswept(w) /\ pc[w] = "sweep" BY <2>3 DEF NextObject, Unswept
    <3>3. CASE o \in Weak BY <3>1, <3>2, <3>3 DEF RangesOK
    <3>4. CASE o \notin Weak
      <4> DEFINE s == [obj |-> o, lo |-> 1, hi |-> Len(Body[o]) + 1]
      <4>1. slots'[w] = s /\ pc'[w] = "scan" BY <1>1, <3>1, <3>4
      <4>2. Len(Body[o]) \in Nat BY BodyType
      <4>3. s \in SlotsSet /\ s.obj = o /\ s.lo = 1 /\ s.hi = Len(Body[o]) + 1 BY <4>2 DEF SlotsSet
      <4>4. header[o] = "copied" BY <3>1, <3>2, SweptIsPublished
      <4> HIDE DEF s
      <4>5. RangeOK(s) BY <3>4, <4>2, <4>3, <4>4 DEF RangeOK
      <4> QED BY <2>0, <4>1, <4>3, <4>5
    <3> QED BY <3>3, <3>4
  <2>4. CASE Split(w)
    <3>1. PICK mid \in Nat : /\ slots[w].lo <= mid /\ mid <= slots[w].hi
                             /\ mid = slots[w].lo + (slots[w].hi - slots[w].lo) \div 2
      BY <1>3, <2>4
    <3>2. RangeOK(slots[w]) /\ slots[w] \in SlotsSet BY <1>3, <2>4
    <3> DEFINE s == [slots[w] EXCEPT !.hi = mid]
    <3>3. slots'[w] = s /\ pc[w] = "scan" /\ pc' = pc BY <1>1, <2>4, <3>1 DEF Split
    <3>4. /\ s.obj = slots[w].obj /\ s.lo = slots[w].lo /\ s.hi = mid /\ s \in SlotsSet
          /\ slots[w].lo \in Nat /\ slots[w].hi \in Nat
      BY <3>1, <3>2, SlotsFields
    <3> HIDE DEF s
    <3>5. slots[w].obj \in Objects BY <3>2 DEF RangeOK
    <3>6. Len(Body[slots[w].obj]) \in Nat BY <3>5, BodyType
    <3>7. RangeOK(s) BY <3>1, <3>2, <3>4, <3>6 DEF RangeOK
    <3> QED BY <2>0, <3>3, <3>4, <3>7
  <2>5. CASE ScanEnd(w)
    <3>1. slots'[w] = NoSlots /\ pc'[w] = "sweep" BY <1>1, <2>5 DEF ScanEnd
    <3> QED BY <3>1
  <2>6. CASE Follow(w) \/ Share(w)
    <3>1. Forward(w) /\ pc[w] \in InSweep \ {"sweep"} /\ pc'[w] = "scan" /\ slots[w].lo < slots[w].hi
      BY <1>1, <2>6 DEF Follow, Share, Scanning, ClaimsOK, ClaimOK, Evacuating
    <3>2. RangeOK(slots[w]) /\ slots[w] \in SlotsSet BY <1>1, <3>1 DEF RangesOK
    <3> DEFINE s == [slots[w] EXCEPT !.lo = slots[w].lo + 1]
    <3>3. slots'[w] = s BY <1>1, <3>1, ForwardFields
    <3>4. slots[w].lo + 1 \in Nat /\ slots[w].lo \in Nat /\ slots[w].hi \in Nat BY <3>2, SlotsFields
    <3>5. s.obj = slots[w].obj /\ s.lo = slots[w].lo + 1 /\ s.hi = slots[w].hi /\ s \in SlotsSet
      BY <3>2, <3>4, SlotsFields
    <3> HIDE DEF s
    <3>6. RangeOK(s) BY <3>1, <3>2, <3>4, <3>5 DEF RangeOK
    <3> QED BY <2>0, <3>1, <3>3, <3>5, <3>6
  <2>7. CASE Claim(w) \/ AllocOversize(w) \/ AllocInChunk(w) \/ AllocSealing(w) \/ Copy(w) \/ Publish(w)
    <3>1. slots' = slots /\ pc[w] \in InSweep \ {"sweep"} /\ pc'[w] \in InSweep \ {"sweep"}
      BY <1>1, <2>7 DEF Claim, Scanning, AllocOversize, AllocInChunk, AllocSealing, Copy, Publish, Place
    <3> QED BY <1>1, <2>0, <3>1 DEF RangesOK
  <2> QED
    BY <2>1, <2>2, <2>3, <2>4, <2>5, <2>6, <2>7 DEF Work, Find, Quiesce, Scan, Evacuate
<1> QED BY <1>4, <1>5, <1>6 DEF RangesOK, RangeOK

\* A slot that is final, stays so, and what is evacuated too.
LEMMA DoneStep ==
  ASSUME DataOK, RangesOK, ClaimsOK, DoneOK, NEW w \in Workers, Work(w)
  PROVE  DoneOK'
<1>1. ASSUME NEW s, s \in Objects \X Nat, s[2] \in DOMAIN Body[s[1]], header[Body[s[1]][s[2]]] = "copied",
             Body[s[1]][s[2]] # Null
      PROVE  header'[Body[s[1]][s[2]]] = "copied"
  <2>1. Body[s[1]][s[2]] \in Objects BY <1>1, BodyType
  <2> QED BY <1>1, <2>1, HeaderAdvances
<1>2. ASSUME done' = done PROVE DoneOK'
  BY <1>1, <1>2 DEF DoneOK, DataOK
<1>3. CASE Follow(w) \/ Share(w)
  <2>1. /\ done' = done \cup {<<slots[w].obj, slots[w].lo>>} /\ header' = header
        /\ RangeOK(slots[w]) /\ slots[w] \in SlotsSet /\ slots[w].lo < slots[w].hi
        /\ Referent(w) # Null => header[Referent(w)] = "copied"
    BY <1>3 DEF Follow, Share, Forward, Scanning, RangesOK, InSweep, DataOK, ClaimsOK, ClaimOK, Evacuating
  <2>2. slots[w].obj \in Objects BY <2>1 DEF RangeOK
  <2>3. Len(Body[slots[w].obj]) \in Nat /\ DOMAIN Body[slots[w].obj] = 1..Len(Body[slots[w].obj])
    BY <2>2, BodyType
  <2>4. slots[w].lo \in DOMAIN Body[slots[w].obj]
    BY <2>1, <2>3, SlotsFields DEF RangeOK
  <2>5. ASSUME NEW s \in done'
        PROVE s[2] \in DOMAIN Body[s[1]] /\ (Body[s[1]][s[2]] # Null => header[Body[s[1]][s[2]]] = "copied")
    <3>1. CASE s \in done BY <3>1 DEF DoneOK
    <3>2. CASE s = <<slots[w].obj, slots[w].lo>> BY <2>1, <2>4, <3>2 DEF Referent
    <3> QED BY <2>1, <3>1, <3>2
  <2> QED BY <2>1, <2>5 DEF DoneOK
<1>4. CASE Find(w) \/ Quiesce(w)
  BY <1>2, <1>4 DEF Find, TakeScanning, SweepOwn, Steal, NothingToSteal, Quiesce, Leave, Probe, Rejoin, AskAgain, Exit
<1>5. CASE NextObject(w) \/ NextFiller(w) \/ SweepEnd(w) \/ Split(w) \/ ScanEnd(w) \/ Claim(w)
  BY <1>2, <1>5 DEF NextObject, NextFiller, SweepEnd, Split, ScanEnd, Claim
<1>6. CASE AllocOversize(w) \/ AllocInChunk(w) \/ AllocSealing(w) \/ Copy(w) \/ Publish(w)
  BY <1>2, <1>6 DEF AllocOversize, AllocInChunk, AllocSealing, Copy, Publish, Place
<1> QED BY <1>3, <1>4, <1>5, <1>6 DEF Work, Scan, Evacuate

Occupied == {w \in Workers : pc[w] \notin Idle}

\* The workers that hold work can be counted.
LEMMA OccupiedFinite == IsFiniteSet(Occupied) /\ Cardinality(Occupied) \in Nat
<1>1. Occupied \subseteq Workers BY DEF Occupied
<1> QED BY <1>1, ParDrainAssumption, FS_Subset, FS_CardinalityType

\* The count moves with the workers.
LEMMA BusyStep ==
  ASSUME DataOK, QuietOK, NEW w \in Workers, Work(w)
  PROVE  busy' = Cardinality(Occupied')
<1>1. pc \in [Workers -> Places] /\ busy = Cardinality(Occupied) BY DEF DataOK, QuietOK, Occupied
<1>2. \A u \in Workers \ {w} : pc'[u] = pc[u] BY OthersStay
<1>3. CASE Leave(w)
  <2>1. pc[w] = "leave" /\ pc'[w] = "probe" /\ busy' = busy - 1 BY <1>1, <1>3 DEF Leave
  <2>2. w \in Occupied /\ Occupied' = Occupied \ {w} BY <1>2, <2>1 DEF Occupied, Idle
  <2>3. Cardinality(Occupied \ {w}) = Cardinality(Occupied) - 1 BY <2>2, OccupiedFinite, FS_RemoveElement
  <2> QED BY <1>1, <2>1, <2>2, <2>3
<1>4. CASE Rejoin(w)
  <2>1. pc[w] = "rejoin" /\ pc'[w] = "drain" /\ busy' = busy + 1 BY <1>1, <1>4 DEF Rejoin
  <2>2. w \notin Occupied /\ Occupied' = Occupied \cup {w} BY <1>2, <2>1 DEF Occupied, Idle
  <2>3. Cardinality(Occupied \cup {w}) = Cardinality(Occupied) + 1 BY <2>2, OccupiedFinite, FS_AddElement
  <2> QED BY <1>1, <2>1, <2>2, <2>3
<1>5. ASSUME busy' = busy, pc[w] \in Idle <=> pc'[w] \in Idle PROVE busy' = Cardinality(Occupied')
  <2>1. Occupied' = Occupied BY <1>2, <1>5 DEF Occupied
  <2> QED BY <1>1, <1>5, <2>1
<1>6. CASE Find(w) \/ Probe(w) \/ AskAgain(w) \/ Exit(w)
  <2>1. busy' = busy /\ (pc[w] \in Idle <=> pc'[w] \in Idle)
    BY <1>1, <1>6 DEF Find, TakeScanning, SweepOwn, Steal, NothingToSteal, Probe, AskAgain, Exit, Idle
  <2> QED BY <1>5, <2>1
<1>7. CASE Scan(w)
  <2>1. busy' = busy /\ (pc[w] \in Idle <=> pc'[w] \in Idle)
    BY <1>1, <1>7
       DEF Scan, NextObject, NextFiller, SweepEnd, Split, ScanEnd, Follow, Claim, Scanning, Unswept, Idle
  <2> QED BY <1>5, <2>1
<1>8. CASE Evacuate(w)
  <2>1. busy' = busy /\ (pc[w] \in Idle <=> pc'[w] \in Idle)
    BY <1>1, <1>8 DEF Evacuate, AllocOversize, AllocInChunk, AllocSealing, Copy, Publish, Share, Place, Idle
  <2> QED BY <1>5, <2>1
<1> QED BY <1>3, <1>4, <1>6, <1>7, <1>8 DEF Work, Quiesce

\* The busy count stays exact, and whoever leaves last leaves nothing.
LEMMA QuietStep ==
  ASSUME DataOK, HandsOK, QuietOK, NEW w \in Workers, Work(w)
  PROVE  QuietOK'
<1>1. /\ pc \in [Workers -> Places] /\ scanning \in [Workers -> SUBSET ChunkSet]
      /\ cur \in [Workers -> ChunkSet] /\ steal \in Seq(TaskSet)
  BY DEF DataOK
<1>2. \A u \in Workers \ {w} : pc'[u] = pc[u] /\ cur'[u] = cur[u] /\ scanning'[u] = scanning[u]
  BY OthersStay
<1> USE DEF Idling
<1>3. steal' # <<>> /\ Workers # {} => \E u \in Workers : pc'[u] \notin Idling
  <2>1. CASE Find(w)
    <3>1. CASE NothingToSteal(w) BY <3>1 DEF NothingToSteal
    <3>2. CASE ~NothingToSteal(w)
      <4>1. pc'[w] \notin Idling BY <1>1, <2>1, <3>2 DEF Find, TakeScanning, SweepOwn, Steal
      <4> QED BY <4>1
    <3> QED BY <3>1, <3>2
  <2>2. CASE Quiesce(w)
    <3>1. steal' = steal /\ pc[w] \in Idling BY <2>2 DEF Quiesce, Leave, Probe, Rejoin, AskAgain, Exit
    <3> QED BY <1>2, <3>1 DEF QuietOK
  <2>3. CASE Scan(w) \/ Evacuate(w)
    <3>1. pc'[w] \notin Idling
      BY <1>1, <2>3
         DEF Scan, NextObject, NextFiller, SweepEnd, Split, ScanEnd, Follow, Claim, Scanning, Unswept,
             Evacuate, AllocOversize, AllocInChunk, AllocSealing, Copy, Publish, Share, Place
    <3> QED BY <3>1
  <2> QED BY <2>1, <2>2, <2>3 DEF Work
<1> DEFINE Over == /\ steal = <<>>
                   /\ \A u \in Workers :
                        /\ pc[u] \in Idling \cup {"drain"}
                        /\ scanning[u] = {} /\ cur[u].scan >= cur[u].alloc
<1>4. CASE Exit(w)
  <2>1. busy = 0 /\ pc'[w] = "exited" /\ UNCHANGED <<steal, scanning, cur>> BY <1>1, <1>4 DEF Exit
  <2>2. Occupied = {}
    <3>1. Cardinality(Occupied) = 0 BY <2>1 DEF QuietOK, Occupied
    <3> QED BY <3>1, OccupiedFinite, FS_EmptySet
  <2>3. \A u \in Workers : pc[u] \in Idling BY <2>2 DEF Occupied, Idle
  <2>4. Over BY <2>3 DEF QuietOK, HandsOK, HandOK
  <2> QED BY <1>2, <1>3, <2>1, <2>3, <2>4, BusyStep DEF QuietOK, Occupied
<1>5. CASE ~Exit(w)
  <2> SUFFICES ASSUME \E u \in Workers : pc'[u] = "exited" PROVE Over'
    BY <1>3, BusyStep DEF QuietOK, Occupied
  <2>1. pc'[w] # "exited"
    BY <1>1, <1>5
       DEF Work, Find, TakeScanning, SweepOwn, Steal, NothingToSteal, Quiesce, Leave, Probe, Rejoin, AskAgain,
           Scan, NextObject, NextFiller, SweepEnd, Split, ScanEnd, Follow, Claim, Scanning, Unswept,
           Evacuate, AllocOversize, AllocInChunk, AllocSealing, Copy, Publish, Share, Place
  <2>2. Over BY <1>2, <2>1 DEF QuietOK
  <2>3. /\ steal = <<>> /\ pc[w] \in Idling \cup {"drain"}
        /\ scanning[w] = {} /\ cur[w].scan >= cur[w].alloc
    BY <2>2
  <2>4. ~Scan(w) /\ ~Evacuate(w)
    BY <2>3 DEF Scan, NextObject, NextFiller, SweepEnd, Split, ScanEnd, Follow, Claim, Scanning, Unswept,
             Evacuate, AllocOversize, AllocInChunk, AllocSealing, Copy, Publish, Share
  <2>5. NothingToSteal(w) \/ Leave(w) \/ Probe(w) \/ Rejoin(w) \/ AskAgain(w)
    <3>1. cur[w].scan \in Nat /\ cur[w].alloc \in Nat BY ChunkTypes, ChunkFields
    <3> QED BY <1>5, <2>3, <2>4, <3>1 DEF Work, Find, TakeScanning, SweepOwn, Steal, Quiesce
  <2>6. UNCHANGED <<steal, scanning, cur>> /\ pc'[w] \in Idling \cup {"drain"}
    BY <1>1, <2>5 DEF NothingToSteal, Leave, Probe, Rejoin, AskAgain
  <2> QED BY <1>2, <2>2, <2>6
<1> QED BY <1>4, <1>5

-----------------------------------------------------------------------------
(* The initial states *)

\* Every root has a place.
LEMMA RootAtNat == \A j \in 1..(Len(RootSeq) + 1) : RootAt[j] \in Nat
<1> DEFINE S == {n \in Nat : n \in 1..(Len(RootSeq) + 1) => RootAt[n] \in Nat}
<1>1. Len(RootSeq) \in Nat /\ \A i \in 1..Len(RootSeq) : Need(RootSeq[i]) \in Nat
  BY ParDrainAssumption, NeedType
<1>2. \A i \in Nat : RootAt[i] = IF i <= 1 THEN 0 ELSE RootAt[i - 1] + Need(RootSeq[i - 1])
  BY RootAtDef
<1>3. 0 \in S OBVIOUS
<1>4. ASSUME NEW n \in Nat, n \in S PROVE n + 1 \in S
  <2> SUFFICES ASSUME n + 1 \in 1..(Len(RootSeq) + 1) PROVE RootAt[n + 1] \in Nat
    OBVIOUS
  <2>1. CASE n = 0 BY <1>2, <2>1
  <2>2. CASE n # 0
    <3>1. n \in 1..Len(RootSeq) BY <1>1, <2>2
    <3>2. RootAt[n] \in Nat BY <1>1, <1>4, <3>1
    <3>3. n + 1 \in Nat /\ ~ (n + 1 <= 1) /\ (n + 1) - 1 = n BY <2>2
    <3>4. RootAt[n + 1] = RootAt[n] + Need(RootSeq[n]) BY <1>2, <3>3
    <3> QED BY <1>1, <3>1, <3>2, <3>4
  <2> QED BY <2>1, <2>2
<1> HIDE DEF S
<1>5. Nat \subseteq S BY <1>3, <1>4, Counting
<1>6. \A j \in 1..(Len(RootSeq) + 1) : j \in Nat BY <1>1
<1> QED BY <1>5, <1>6 DEF S

\* The roots are laid out one behind the other.
LEMMA RootsApart ==
  \A j \in 1..(Len(RootSeq) + 1) :
    RootAt[j] \in Nat /\ \A i \in 1..(j - 1) : RootAt[i] + Need(RootSeq[i]) <= RootAt[j]
<1> DEFINE S == {n \in Nat : n \in 1..(Len(RootSeq) + 1) =>
                   RootAt[n] \in Nat /\ \A i \in 1..(n - 1) : RootAt[i] + Need(RootSeq[i]) <= RootAt[n]}
<1>1. Len(RootSeq) \in Nat /\ \A i \in 1..Len(RootSeq) : Need(RootSeq[i]) \in Nat
  BY ParDrainAssumption, NeedType
<1>2. \A i \in Nat : RootAt[i] = IF i <= 1 THEN 0 ELSE RootAt[i - 1] + Need(RootSeq[i - 1])
  BY RootAtDef
<1>3. 0 \in S OBVIOUS
<1>4. ASSUME NEW n \in Nat, n \in S PROVE n + 1 \in S
  <2> SUFFICES ASSUME n + 1 \in 1..(Len(RootSeq) + 1)
               PROVE  RootAt[n + 1] \in Nat /\ \A i \in 1..n : RootAt[i] + Need(RootSeq[i]) <= RootAt[n + 1]
    OBVIOUS
  <2>1. CASE n = 0
    <3>1. RootAt[n + 1] = 0 BY <1>2, <2>1
    <3> QED BY <2>1, <3>1
  <2>2. CASE n # 0
    <3>1. n \in 1..Len(RootSeq) BY <1>1, <2>2
    <3>2. RootAt[n] \in Nat /\ \A i \in 1..(n - 1) : RootAt[i] + Need(RootSeq[i]) <= RootAt[n]
      BY <1>1, <1>4, <3>1
    <3>3. RootAt[n + 1] = RootAt[n] + Need(RootSeq[n])
      <4>1. n + 1 \in Nat /\ ~ (n + 1 <= 1) /\ (n + 1) - 1 = n BY <2>2
      <4> QED BY <1>2, <4>1
    <3>4. Need(RootSeq[n]) \in Nat BY <1>1, <3>1
    <3>5. ASSUME NEW i \in 1..n PROVE RootAt[i] + Need(RootSeq[i]) <= RootAt[n + 1]
      <4>1. CASE i = n BY <3>2, <3>3, <3>4, <4>1
      <4>2. CASE i # n
        <5>1. i \in 1..(n - 1) BY <4>2
        <5>2. i \in Nat /\ i \in 1..Len(RootSeq) BY <1>1, <3>1
        <5>3. RootAt[i] + Need(RootSeq[i]) <= RootAt[n] BY <3>2, <5>1
        <5>4. RootAt[i] \in Nat BY <1>1, <5>2, RootAtNat
        <5> QED BY <1>1, <3>2, <3>3, <3>4, <5>2, <5>3, <5>4
      <4> QED BY <4>1, <4>2
    <3> QED BY <3>2, <3>3, <3>4, <3>5
  <2> QED BY <2>1, <2>2
<1> HIDE DEF S
<1>5. Nat \subseteq S BY <1>3, <1>4, Counting
<1>6. \A j \in 1..(Len(RootSeq) + 1) : j \in Nat BY <1>1
<1> QED BY <1>5, <1>6 DEF S

\* At the start the variables have their types.
LEMMA InitTypes ==
  ASSUME Init
  PROVE  /\ DataOK
         /\ RootUsed \in Nat /\ Len(RootSeq) \in Nat /\ DOMAIN RootSeq = 1..Len(RootSeq)
         /\ \A i \in 1..Len(RootSeq) : RootAt[i] \in Nat /\ RootSeq[i] \in Objects
         /\ \A t \in Tasks : t.kind = "chunk" /\ t.chunk = Filled(0, RootUsed)
<1>1. /\ Len(RootSeq) \in Nat /\ DOMAIN RootSeq = 1..Len(RootSeq)
      /\ \A i \in 1..Len(RootSeq) : RootSeq[i] \in Objects
  BY ParDrainAssumption
<1>2. RootUsed \in Nat BY <1>1, RootAtNat DEF RootUsed
<1>3. \A i \in 1..Len(RootSeq) : RootAt[i] \in Nat BY <1>1, RootAtNat
<1>4. Chunk(0, 0) \in ChunkSet /\ NoSlots \in SlotsSet /\ NoClaim \in ClaimSet
  BY DEF Chunk, NoSlots, NoClaim, ChunkSet, SlotsSet, ClaimSet
<1>5. ChunkTask(Filled(0, RootUsed)) \in TaskSet
  BY <1>2 DEF ChunkTask, Filled, TaskSet, ChunkSet
<1>6. steal \in Seq(TaskSet) BY <1>5 DEF Init
<1>7. InitialWords \in InitialWords..ChunkWords BY ParDrainAssumption
<1>8. to \in [Objects -> Nat]
  <2>1. ASSUME NEW o \in RootSet PROVE RootAt[CHOOSE i \in DOMAIN RootSeq : RootSeq[i] = o] \in Nat
    <3>1. \E i \in DOMAIN RootSeq : RootSeq[i] = o BY DEF RootSet
    <3>2. (CHOOSE i \in DOMAIN RootSeq : RootSeq[i] = o) \in DOMAIN RootSeq BY <3>1
    <3> QED BY <1>1, <1>3, <3>2
  <2> QED BY <2>1 DEF Init
<1>9. arena \subseteq Nat \X Objects BY <1>1, <1>3 DEF Init
<1>10. DataOK
  BY <1>2, <1>4, <1>6, <1>7, <1>8, <1>9 DEF Init, DataOK, Places
<1>11. \A t \in Tasks : t.kind = "chunk" /\ t.chunk = Filled(0, RootUsed)
  BY DEF Init, Tasks, ChunkTask
<1> QED BY <1>1, <1>2, <1>3, <1>10, <1>11

\* The roots phase copied each root once, one behind the other.
LEMMA InitCopies == Init => CopiesOK /\ PiecesApart
<1> SUFFICES ASSUME Init PROVE CopiesOK /\ PiecesApart OBVIOUS
<1>1. /\ Len(RootSeq) \in Nat /\ DOMAIN RootSeq = 1..Len(RootSeq)
      /\ \A i \in 1..Len(RootSeq) : RootAt[i] \in Nat /\ RootSeq[i] \in Objects /\ Need(RootSeq[i]) \in Nat
      /\ \A i, j \in 1..Len(RootSeq) : RootSeq[i] = RootSeq[j] => i = j
  BY InitTypes, NeedType, ParDrainAssumption DEF IsInjective
<1>2. /\ arena = {<<RootAt[i], RootSeq[i]>> : i \in 1..Len(RootSeq)} /\ whole = arena /\ fillers = {}
      /\ arenaUsed = RootAt[Len(RootSeq) + 1]
      /\ header = [o \in Objects |-> IF o \in RootSet THEN "copied" ELSE "normal"]
  BY <1>1 DEF Init, RootUsed
<1>3. CopiesOK
  <2>1. ASSUME NEW c \in arena PROVE header[c[2]] = "copied"
    BY <1>1, <1>2 DEF RootSet
  <2>2. ASSUME NEW c \in arena, NEW d \in arena, c[2] = d[2] PROVE c = d
    BY <1>1, <1>2, <2>2
  <2>3. ASSUME NEW o \in Objects, header[o] = "copied" PROVE <<to[o], o>> \in whole
    <3>1. o \in RootSet BY <1>2, <2>3
    <3>2. \E i \in DOMAIN RootSeq : RootSeq[i] = o BY <3>1 DEF RootSet
    <3> DEFINE k == CHOOSE i \in DOMAIN RootSeq : RootSeq[i] = o
    <3>3. k \in DOMAIN RootSeq /\ RootSeq[k] = o BY <3>2
    <3>4. to[o] = RootAt[k] BY <3>1 DEF Init
    <3> HIDE DEF k
    <3> QED BY <1>1, <1>2, <3>3, <3>4
  <2> QED BY <2>1, <2>2, <2>3 DEF CopiesOK
<1>4. ASSUME NEW i \in 1..Len(RootSeq), NEW j \in 1..Len(RootSeq), i < j
      PROVE  RootAt[i] + Need(RootSeq[i]) <= RootAt[j]
  <2>1. j \in 1..(Len(RootSeq) + 1) /\ i \in 1..(j - 1) BY <1>1, <1>4
  <2> QED BY <2>1, RootsApart
<1>5. \A i \in 1..Len(RootSeq) : RootAt[i] + Need(RootSeq[i]) <= arenaUsed
  BY SMTT(40), <1>1, <1>2, RootsApart
<1>6. ASSUME NEW c \in arena, NEW d \in arena PROVE c = d \/ Apart(c[1], CopyEnd(c), d[1], CopyEnd(d))
  <2>1. PICK i \in 1..Len(RootSeq) : c = <<RootAt[i], RootSeq[i]>> BY <1>2
  <2>2. PICK j \in 1..Len(RootSeq) : d = <<RootAt[j], RootSeq[j]>> BY <1>2
  <2>3. i = j \/ i < j \/ j < i OBVIOUS
  <2> QED BY <1>1, <1>4, <2>1, <2>2, <2>3 DEF Apart, CopyEnd
<1>7. \A c \in arena : CopyEnd(c) <= arenaUsed BY <1>2, <1>5 DEF CopyEnd
<1> QED BY <1>2, <1>3, <1>6, <1>7 DEF PiecesApart

\* At the start nobody has anything in hand.
LEMMA InitRest ==
  Init => HandsOK /\ RangesOK /\ ClaimsOK /\ RoomOK /\ UnsharedOK /\ DoneOK /\ QuietOK
<1> SUFFICES ASSUME Init PROVE HandsOK /\ RangesOK /\ ClaimsOK /\ RoomOK /\ UnsharedOK /\ DoneOK /\ QuietOK
  OBVIOUS
<1>1. \A w \in Workers :
        /\ pc[w] = "drain" /\ cur[w] = Chunk(0, 0) /\ scanning[w] = {} /\ sweep[w] = Chunk(0, 0)
        /\ own[w] = FALSE /\ slots[w] = NoSlots /\ claim[w] = NoClaim
  BY DEF Init
<1>2. Chunk(0, 0).scan = 0 /\ Chunk(0, 0).alloc = 0 /\ Chunk(0, 0).end = 0 BY DEF Chunk
<1>3. HandsOK BY <1>1, <1>2 DEF HandsOK, HandOK, InSweep, Idling
<1>4. RangesOK BY <1>1, InitTypes DEF RangesOK, InSweep
<1>5. ClaimsOK BY <1>1 DEF ClaimsOK, ClaimOK, OneClaimant, Evacuating, Unpublished, Placed
<1>6. UnsharedOK BY <1>1 DEF UnsharedOK, Placed
<1>7. DoneOK BY DEF Init, DoneOK
<1>8. RoomOK
  <2>1. \A c \in Shared : c = Chunk(0, 0) \/ c = Filled(0, RootUsed)
    BY <1>1, InitTypes, SharedDef
  <2>2. /\ arenaUsed = RootUsed /\ RootUsed \in Nat /\ fillers = {}
        /\ \A c \in arena : c[1] \in Nat /\ CopyEnd(c) <= arenaUsed
    BY InitTypes, InitCopies DEF Init, PiecesApart, DataOK
  <2>3. ChunkOK(Chunk(0, 0)) BY <1>2, <2>2 DEF ChunkOK, IsChunk, Unscanned
  <2>4. ChunkOK(Filled(0, RootUsed)) BY <2>2 DEF ChunkOK, IsChunk, Unscanned, Filled
  <2>5. \A c \in Shared : c.scan \in Nat BY <1>2, <2>1 DEF Filled
  <2>6. /\ \A c \in arena : Apart(c[1], CopyEnd(c), 0, 0)
        /\ \A c \in Shared : Apart(c.scan, c.end, 0, 0)
        /\ Apart(0, 0, 0, 0)
    BY <2>2, <2>5 DEF Apart
  <2> QED BY <1>1, <1>2, <2>1, <2>2, <2>3, <2>4, <2>6 DEF RoomOK
<1>9. QuietOK
  <2>1. {w \in Workers : pc[w] \notin Idle} = Workers BY <1>1 DEF Idle
  <2> QED BY <1>1, <2>1 DEF Init, QuietOK, Idling
<1> QED BY <1>3, <1>4, <1>5, <1>6, <1>7, <1>8, <1>9

-----------------------------------------------------------------------------
(* The invariant, and what it gives *)

DrainInv ==
  /\ DataOK /\ HandsOK /\ RangesOK /\ ClaimsOK /\ CopiesOK /\ PiecesApart
  /\ RoomOK /\ UnsharedOK /\ DoneOK /\ QuietOK

\* Every step of a worker keeps the invariant.
LEMMA WorkKeeps ==
  ASSUME DrainInv, NEW w \in Workers, Work(w)
  PROVE  DrainInv'
<1> USE DEF DrainInv
<1>1. DataOK' BY TypeStep
<1>2. HandsOK' /\ RangesOK' /\ DoneOK' /\ QuietOK' BY <1>1, HandsStep, RangesStep, DoneStep, QuietStep
<1>3. (ClaimsOK /\ CopiesOK /\ PiecesApart /\ RoomOK /\ UnsharedOK)'
  <2>1. CASE \/ Find(w) \/ Leave(w) \/ Probe(w) \/ Rejoin(w) \/ AskAgain(w)
             \/ NextObject(w) \/ NextFiller(w) \/ SweepEnd(w) \/ Split(w) \/ ScanEnd(w) \/ Follow(w)
    <3>1. Plain(w) BY <2>1, PlainStep
    <3> QED BY <1>1, <3>1, PlainKeeps
  <2>2. CASE Exit(w) BY <2>2, ExitKeeps
  <2>3. CASE Claim(w) BY <1>1, <2>3, ClaimKeeps
  <2>4. CASE AllocOversize(w) BY <2>4, OversizeKeeps
  <2>5. CASE AllocInChunk(w) BY <2>5, InChunkKeeps
  <2>6. CASE AllocSealing(w) BY <2>6, SealingKeeps
  <2>7. CASE Copy(w) BY <2>7, CopyKeeps
  <2>8. CASE Publish(w) BY <2>8, PublishKeeps
  <2>9. CASE Share(w) BY <2>9, ShareKeeps
  <2> QED
    BY <2>1, <2>2, <2>3, <2>4, <2>5, <2>6, <2>7, <2>8, <2>9 DEF Work, Quiesce, Scan, Evacuate
<1> QED BY <1>1, <1>2, <1>3

\* So does no step at all.
LEMMA StutterKeeps == DrainInv /\ UNCHANGED vars => DrainInv'
<1> SUFFICES ASSUME DrainInv, UNCHANGED vars PROVE DrainInv' OBVIOUS
<1>1. Tasks' = Tasks /\ Shared' = Shared BY DEF Tasks, Shared
<1>2. (DataOK /\ HandsOK /\ ClaimsOK /\ CopiesOK /\ PiecesApart /\ UnsharedOK)'
  BY <1>1 DEF DrainInv, DataOK, HandsOK, HandOK, ClaimsOK, ClaimOK, OneClaimant, Referent, CopiesOK,
              PiecesApart, UnsharedOK, Open
<1>3. (RangesOK /\ RoomOK /\ DoneOK /\ QuietOK)'
  BY <1>1 DEF DrainInv, RangesOK, RangeOK, RoomOK, ChunkOK, IsChunk, Open, DoneOK, QuietOK
<1> QED BY <1>2, <1>3 DEF DrainInv

\* DrainInv holds whatever the workers do.
THEOREM Invariance == Spec => []DrainInv
<1>1. Init => DrainInv BY InitTypes, InitCopies, InitRest DEF DrainInv
<1>2. DrainInv /\ [Next]_vars => DrainInv'
  BY WorkKeeps, StutterKeeps DEF Next, Joined
<1> QED BY <1>1, <1>2, PTL DEF Spec

\* The state has its shape, busy counts the workers that may hold work, and no
\* chunk reaches beyond the arena (gc.rs, ParState and drain).
THEOREM TypeCorrect == Spec => []TypeOK
<1>1. DrainInv => TypeOK
  <2> SUFFICES ASSUME DrainInv PROVE TypeOK OBVIOUS
  <2>1. \A c \in Chunks : c \in Shared \/ \E w \in Workers : c = cur[w]
    BY DEF Chunks, Shared
  <2>2. \A c \in Chunks : IsChunk(c) BY <2>1 DEF DrainInv, RoomOK, ChunkOK
  <2> QED BY <2>2 DEF DrainInv, DataOK, QuietOK, TypeOK
<1> QED BY <1>1, Invariance, PTL

\* However many workers meet an object, and whenever: it is copied once, its
\* tombstone leads to a copy whose words are all there, and a chunk in another
\* worker's hands holds nothing unfinished (evacuate_claim, publish, drain).
THEOREM CopiesAreWholeAlways == Spec => []CopiesAreWhole
<1>1. DrainInv => CopiesAreWhole
  <2> SUFFICES ASSUME DrainInv PROVE CopiesAreWhole OBVIOUS
  <2>1. CopiesOK /\ ClaimsOK /\ UnsharedOK /\ DataOK BY DEF DrainInv
  <2>2. ASSUME NEW c \in Shared, NEW p \in arena, p[1] \in Unscanned(c) PROVE p \in whole
    <3>1. CASE header[p[2]] = "copied"
      <4>1. p[2] \in Objects BY <2>1 DEF DataOK
      <4>2. <<to[p[2]], p[2]>> \in whole BY <2>1, <3>1, <4>1 DEF CopiesOK
      <4>3. <<to[p[2]], p[2]>> \in arena BY <2>1, <4>2 DEF DataOK
      <4>4. p = <<to[p[2]], p[2]>> BY <2>1, <4>3 DEF CopiesOK
      <4> QED BY <4>2, <4>4
    <3>2. CASE header[p[2]] # "copied"
      <4>1. PICK w \in Workers : pc[w] \in {"copy", "publish"} /\ claim[w].obj = p[2]
        BY <2>1, <3>2 DEF CopiesOK
      <4>2. <<claim[w].at, p[2]>> \in arena BY <2>1, <4>1 DEF ClaimsOK, ClaimOK, Placed
      <4>3. p = <<claim[w].at, p[2]>> BY <2>1, <4>2 DEF CopiesOK
      <4>4. claim[w].at \notin Unscanned(c) BY <2>1, <4>1 DEF UnsharedOK, Placed
      <4> QED BY <2>2, <4>3, <4>4
    <3> QED BY <3>1, <3>2
  <2>3. \A c \in Chunks \ {cur[w] : w \in Workers} : c \in Shared BY DEF Chunks, Shared
  <2> QED BY <2>1, <2>2, <2>3 DEF CopiesOK, CopiesAreWhole
<1> QED BY <1>1, Invariance, PTL

-----------------------------------------------------------------------------
(* Work moves from hand to hand, is done, or is found *)

Hands == {"cur", "aside", "sweep", "slots", "claim"}

\* A holder is a place on the list or a hand of a worker.
LEMMA HolderForms ==
  ASSUME NEW h \in Holders
  PROVE  (\E i \in Nat : h = <<i, "steal">>) \/ \E u \in Workers, k \in Hands : h = <<u, k>>
BY DEF Holders, Hands

\* What each kind of holder holds ...
LEMMA HeldDef ==
  ASSUME NEW x
  PROVE  /\ Held(<<x, "steal">>) = IF x \in DOMAIN steal THEN InTask(steal[x]) ELSE {}
         /\ Held(<<x, "cur">>) = InChunk(cur[x], arena)
         /\ Held(<<x, "aside">>) = InChunks(scanning[x], arena)
         /\ Held(<<x, "sweep">>) = InChunk(sweep[x], arena)
         /\ Held(<<x, "slots">>) = InRange(slots[x])
         /\ Held(<<x, "claim">>) = IF pc[x] = "alloc" \/ claim[x].oversize THEN SlotsOf(claim[x].obj) ELSE {}
BY DEF Held

\* ... and holds after a step.
LEMMA HeldDefNext ==
  ASSUME NEW x
  PROVE  /\ Held(<<x, "steal">>)' = IF x \in DOMAIN steal' THEN InTask(steal[x])' ELSE {}
         /\ Held(<<x, "cur">>)' = InChunk(cur'[x], arena')
         /\ Held(<<x, "aside">>)' = InChunks(scanning'[x], arena')
         /\ Held(<<x, "sweep">>)' = InChunk(sweep'[x], arena')
         /\ Held(<<x, "slots">>)' = InRange(slots'[x])
         /\ Held(<<x, "claim">>)' = IF pc'[x] = "alloc" \/ claim'[x].oversize THEN SlotsOf(claim'[x].obj) ELSE {}
BY DEF Held, InChunks, InChunk, InRange, SlotsOf

\* The work of the holders in K passes among them or is done; D is new.
Moves(K, D) ==
  /\ K \subseteq Holders
  /\ \A h \in Holders \ K : Held(h)' = Held(h)
  /\ \A g, h \in K : g # h => \A s : ~ (s \in Held(g)' /\ s \in Held(h)')
  /\ \A h \in K : \A s : ~ (s \in Held(h)' /\ s \in done')
  /\ \A s : (\E h \in K : s \in Held(h)') \/ s \in done'
              <=> (\E h \in K : s \in Held(h)) \/ s \in done \/ s \in D
  /\ \A s \in D : s \notin done /\ \A h \in Holders : s \notin Held(h)
  /\ \A s \in D : header'[s[1]] # "normal"
  /\ \A o \in Objects : header'[o] # "normal" => header[o] # "normal" \/ SlotsOf(o) \subseteq D

\* Only slots of objects are held.
LEMMA HeldOfObjects ==
  ASSUME DataOK, RangesOK, ClaimsOK, NEW h \in Holders, NEW s \in Held(h)
  PROVE  s[1] \in Objects
<1>1. ASSUME NEW o \in Objects, s \in SlotsOf(o) PROVE s[1] \in Objects BY <1>1 DEF SlotsOf
<1>2. ASSUME NEW c, s \in InChunk(c, arena) PROVE s[1] \in Objects
  BY <1>1, <1>2 DEF InChunk, DataOK
<1>3. CASE \E i \in Nat : h = <<i, "steal">>
  <2>1. PICK i \in DOMAIN steal : s \in InTask(steal[i]) BY <1>3, HeldDef
  <2>2. steal[i] \in Tasks BY DEF Tasks
  <2>3. steal[i] \in TaskSet BY <2>2, ChunkTypes
  <2>4. CASE steal[i].kind = "chunk" BY <1>2, <2>1, <2>4 DEF InTask
  <2>5. CASE steal[i].kind # "chunk"
    <3>1. steal[i].kind = "slots" BY <2>3, <2>5 DEF TaskSet
    <3>2. steal[i].slots.obj \in Objects BY <2>2, <3>1 DEF RangesOK, RangeOK
    <3> QED BY <2>1, <2>5, <3>2 DEF InTask, InRange
  <2> QED BY <2>4, <2>5
<1>4. CASE \E u \in Workers, k \in Hands : h = <<u, k>>
  <2>1. PICK u \in Workers, k \in Hands : h = <<u, k>> BY <1>4
  <2>2. CASE k = "cur" BY <1>2, <2>1, <2>2, HeldDef
  <2>5. CASE k = "aside"
    <3>1. s \in InChunks(scanning[u], arena) BY <2>1, <2>5, HeldDef
    <3> QED BY <1>2, <3>1 DEF InChunks
  <2>6. CASE k = "sweep" BY <1>2, <2>1, <2>6, HeldDef
  <2>3. CASE k = "slots"
    <3>1. s \in InRange(slots[u]) BY <2>1, <2>3, HeldDef
    <3>2. slots[u] # NoSlots BY <3>1 DEF InRange, NoSlots
    <3>3. slots[u].obj \in Objects BY <3>2 DEF RangesOK, RangeOK
    <3> QED BY <3>1, <3>3 DEF InRange
  <2>4. CASE k = "claim"
    <3>1. (pc[u] = "alloc" \/ claim[u].oversize) /\ s \in SlotsOf(claim[u].obj) BY <2>1, <2>4, HeldDef
    <3>2. claim[u] # NoClaim \/ pc[u] = "alloc" BY <3>1 DEF NoClaim
    <3>3. claim[u].obj \in Objects BY <3>2 DEF ClaimsOK, ClaimOK, Evacuating
    <3> QED BY <1>1, <3>1, <3>3
  <2> QED BY <2>1, <2>2, <2>3, <2>4, <2>5, <2>6 DEF Hands
<1> QED BY <1>3, <1>4, HolderForms

\* Work that moves is neither lost nor doubled.
LEMMA MovesKeep ==
  ASSUME DataOK, RangesOK, ClaimsOK, WorkOnce, WorkKept, NEW w \in Workers, Work(w), NEW K, NEW D, Moves(K, D)
  PROVE  (WorkOnce /\ WorkKept)'
<1>1. \A s : (\E h \in Holders : s \in Held(h)') \/ s \in done'
              <=> (\E h \in Holders : s \in Held(h)) \/ s \in done \/ s \in D
  BY DEF Moves
<1>2. ASSUME NEW g \in Holders, NEW h \in Holders, g # h, NEW s, s \in Held(g)', s \in Held(h)'
      PROVE  FALSE
  <2>1. CASE g \in K /\ h \in K BY <1>2, <2>1 DEF Moves
  <2>2. CASE g \notin K /\ h \notin K BY <1>2, <2>2 DEF Moves, WorkOnce
  <2>3. CASE g \in K /\ h \notin K BY <1>2, <2>3 DEF Moves, WorkOnce
  <2>4. CASE g \notin K /\ h \in K BY <1>2, <2>4 DEF Moves, WorkOnce
  <2> QED BY <2>1, <2>2, <2>3, <2>4
<1>3. ASSUME NEW h \in Holders, NEW s, s \in Held(h)', s \in done' PROVE FALSE
  <2>1. CASE h \in K BY <1>3, <2>1 DEF Moves
  <2>2. CASE h \notin K BY <1>3, <2>2 DEF Moves, WorkOnce
  <2> QED BY <2>1, <2>2
<1>4. ASSUME NEW s, (\E h \in Holders : s \in Held(h)') \/ s \in done' PROVE header'[s[1]] # "normal"
  <2>1. CASE s \in D BY <2>1 DEF Moves
  <2>2. CASE s \in done
    <3>1. s[1] \in Objects /\ header[s[1]] # "normal" BY <2>2 DEF DataOK, WorkOnce
    <3> QED BY <3>1, HeaderAdvances
  <2>3. CASE \E h \in Holders : s \in Held(h)
    <3>1. s[1] \in Objects /\ header[s[1]] # "normal" BY <2>3, HeldOfObjects DEF WorkOnce
    <3> QED BY <3>1, HeaderAdvances
  <2> QED BY <1>1, <1>4, <2>1, <2>2, <2>3
<1>5. WorkOnce' BY <1>2, <1>3, <1>4 DEF WorkOnce
<1>6. ASSUME NEW o \in Objects, header'[o] # "normal", NEW s \in SlotsOf(o)
      PROVE  s \in done' \/ \E h \in Holders : s \in Held(h)'
  <2>1. CASE header[o] # "normal" BY <1>1, <2>1 DEF WorkKept
  <2>2. CASE SlotsOf(o) \subseteq D BY <1>1, <2>2
  <2> QED BY <1>6, <2>1, <2>2 DEF Moves
<1>7. WorkKept' BY <1>6 DEF WorkKept, SlotsOf
<1> QED BY <1>5, <1>7

\* What the others hold and the list holds stays, if its chunks see no new copy.
LEMMA OthersHold ==
  ASSUME DataOK, NEW w \in Workers, Work(w),
         \A c \in Shared : InChunk(c, arena') = InChunk(c, arena),
         \A u \in Workers \ {w} : InChunk(cur[u], arena') = InChunk(cur[u], arena)
  PROVE  /\ \A u \in Workers \ {w}, k \in Hands : Held(<<u, k>>)' = Held(<<u, k>>)
         /\ \A i \in Nat : /\ i \in DOMAIN steal <=> i \in DOMAIN steal'
                           /\ i \in DOMAIN steal => steal'[i] = steal[i]
                           => Held(<<i, "steal">>)' = Held(<<i, "steal">>)
<1>1. ASSUME NEW u \in Workers \ {w}, NEW k \in Hands PROVE Held(<<u, k>>)' = Held(<<u, k>>)
  <2>1. /\ pc'[u] = pc[u] /\ cur'[u] = cur[u] /\ scanning'[u] = scanning[u] /\ sweep'[u] = sweep[u]
        /\ slots'[u] = slots[u] /\ claim'[u] = claim[u]
    BY OthersStay
  <2>2. sweep[u] \in Shared /\ scanning[u] \subseteq Shared BY SharedDef
  <2>3. CASE k = "cur" BY <2>1, <2>3, HeldDef, HeldDefNext
  <2>4. CASE k = "aside"
    <3>1. InChunks(scanning[u], arena') = InChunks(scanning[u], arena) BY <2>2 DEF InChunks
    <3> QED BY <2>1, <2>4, <3>1, HeldDef, HeldDefNext
  <2>5. CASE k = "sweep" BY <2>1, <2>2, <2>5, HeldDef, HeldDefNext
  <2>6. CASE k = "slots" BY <2>1, <2>6, HeldDef, HeldDefNext
  <2>7. CASE k = "claim" BY <2>1, <2>7, HeldDef, HeldDefNext
  <2> QED BY <2>3, <2>4, <2>5, <2>6, <2>7 DEF Hands
<1>2. ASSUME NEW i \in Nat, i \in DOMAIN steal <=> i \in DOMAIN steal', i \in DOMAIN steal => steal'[i] = steal[i]
      PROVE  Held(<<i, "steal">>)' = Held(<<i, "steal">>)
  <2>1. CASE i \notin DOMAIN steal BY <1>2, <2>1, HeldDef, HeldDefNext
  <2>2. CASE i \in DOMAIN steal
    <3>1. steal[i] \in Tasks BY <2>2 DEF Tasks
    <3>2. steal[i].kind = "chunk" => steal[i].chunk \in Shared BY <3>1, SharedDef
    <3>3. InTask(steal[i])' = InTask(steal[i]) BY <1>2, <2>2, <3>2 DEF InTask, InChunk, InRange
    <3> QED BY <1>2, <2>2, <3>3, HeldDef, HeldDefNext
  <2> QED BY <2>1, <2>2
<1> QED BY <1>1, <1>2

\* A step after which each holds what it held.
LEMMA NothingMoves ==
  ASSUME \A h \in Holders : Held(h)' = Held(h), done' = done,
         \A o \in Objects : header'[o] # "normal" => header[o] # "normal"
  PROVE  Moves({}, {})
BY DEF Moves

\* There is nothing in a chunk that is scanned.
LEMMA EmptyChunk ==
  ASSUME NEW c \in ChunkSet, NEW copies, c.scan >= c.alloc
  PROVE  InChunk(c, copies) = {}
<1>1. Unscanned(c) = {} BY ChunkFields DEF Unscanned
<1> QED BY <1>1 DEF InChunk

\* Without a new copy the others and the list hold what they held.
LEMMA SameArena ==
  ASSUME DataOK, NEW w \in Workers, Work(w), arena' = arena
  PROVE  /\ \A u \in Workers \ {w}, k \in Hands : Held(<<u, k>>)' = Held(<<u, k>>)
         /\ \A i \in Nat : /\ i \in DOMAIN steal <=> i \in DOMAIN steal'
                           /\ i \in DOMAIN steal => steal'[i] = steal[i]
                           => Held(<<i, "steal">>)' = Held(<<i, "steal">>)
BY OthersHold

\* A worker without work asks around, or sweeps on over nothing, or works on its claim.
LEMMA QuietMoves ==
  ASSUME DataOK, ClaimsOK, NEW w \in Workers, Work(w),
         \/ SweepOwn(w) \/ NothingToSteal(w) \/ Quiesce(w) \/ SweepEnd(w) \/ Copy(w) \/ Publish(w)
  PROVE  Moves({}, {})
<1>1. pc \in [Workers -> Places] BY DEF DataOK
<1>2. /\ UNCHANGED <<arena, done, steal, cur, scanning, sweep, slots, claim>>
      /\ pc[w] = "alloc" <=> pc'[w] = "alloc"
  BY <1>1 DEF SweepOwn, NothingToSteal, Quiesce, Leave, Probe, Rejoin, AskAgain, Exit, SweepEnd, Copy, Publish
<1>3. \A o \in Objects : header'[o] # "normal" => header[o] # "normal"
  <2>1. header' = header \/ Publish(w)
    BY DEF SweepOwn, NothingToSteal, Quiesce, Leave, Probe, Rejoin, AskAgain, Exit, SweepEnd, Copy
  <2> QED BY <2>1 DEF DataOK, Publish, ClaimsOK, ClaimOK, Unpublished, Evacuating
<1>4. ASSUME NEW h \in Holders PROVE Held(h)' = Held(h)
  <2>1. CASE \E i \in Nat : h = <<i, "steal">> BY <1>2, <2>1, SameArena
  <2>2. CASE \E u \in Workers, k \in Hands : h = <<u, k>>
    <3>1. PICK u \in Workers, k \in Hands : h = <<u, k>> BY <2>2
    <3>2. CASE u # w BY <1>2, <3>1, <3>2, SameArena
    <3>3. CASE u = w
      <4>1. CASE k = "cur" BY <1>2, <3>1, <4>1, HeldDef, HeldDefNext
      <4>2. CASE k = "aside" BY <1>2, <3>1, <4>2, HeldDef, HeldDefNext
      <4>3. CASE k = "sweep" BY <1>2, <3>1, <4>3, HeldDef, HeldDefNext
      <4>4. CASE k = "slots" BY <1>2, <3>1, <4>4, HeldDef, HeldDefNext
      <4>5. CASE k = "claim" BY <1>2, <3>1, <3>3, <4>5, HeldDef, HeldDefNext
      <4> QED BY <4>1, <4>2, <4>3, <4>4, <4>5 DEF Hands
    <3> QED BY <3>2, <3>3
  <2> QED BY <2>1, <2>2, HolderForms
<1> QED BY <1>2, <1>3, <1>4, NothingMoves

\* The holders that a step of w may touch: place n of the list and hands of its own.
Passes(w, n, T, D) ==
  /\ n \in Nat /\ T \subseteq Hands
  /\ \A i \in Nat \ {n} : Held(<<i, "steal">>)' = Held(<<i, "steal">>)
  /\ \A k \in Hands \ T : Held(<<w, k>>)' = Held(<<w, k>>)
  /\ \A j, k \in T : j # k => \A s : ~ (s \in Held(<<w, j>>)' /\ s \in Held(<<w, k>>)')
  /\ \A k \in T : \A s : /\ ~ (s \in Held(<<w, k>>)' /\ s \in Held(<<n, "steal">>)')
                         /\ ~ (s \in Held(<<w, k>>)' /\ s \in done')
  /\ \A s : ~ (s \in Held(<<n, "steal">>)' /\ s \in done')
  /\ \A s : s \in Held(<<n, "steal">>)' \/ (\E k \in T : s \in Held(<<w, k>>)') \/ s \in done'
              <=> s \in Held(<<n, "steal">>) \/ (\E k \in T : s \in Held(<<w, k>>)) \/ s \in done \/ s \in D
  /\ \A s \in D : s \notin done /\ \A h \in Holders : s \notin Held(h)
  /\ \A s \in D : header'[s[1]] # "normal"
  /\ \A o \in Objects : header'[o] # "normal" => header[o] # "normal" \/ SlotsOf(o) \subseteq D

\* If a step only passes work between its worker's hands and the list, work moves.
LEMMA PassesMove ==
  ASSUME NEW w \in Workers, NEW n, NEW T, NEW D, Passes(w, n, T, D),
         \A u \in Workers \ {w}, k \in Hands : Held(<<u, k>>)' = Held(<<u, k>>)
  PROVE  \E K : Moves(K, D)
<1> DEFINE K == {<<n, "steal">>} \cup ({w} \X T)
<1>1. \A h : h \in K <=> h = <<n, "steal">> \/ \E k \in T : h = <<w, k>> OBVIOUS
<1>2. <<n, "steal">> \in K /\ \A k \in T : <<w, k>> \in K BY <1>1
<1>3. K \subseteq Holders
  <2>1. n \in Nat /\ T \subseteq Hands BY DEF Passes
  <2>2. <<n, "steal">> \in Holders BY <2>1 DEF Holders
  <2>3. \A k \in T : <<w, k>> \in Holders BY <2>1 DEF Holders, Hands
  <2> QED BY <1>1, <2>2, <2>3
<1> HIDE DEF K
<1>4. ASSUME NEW h \in Holders \ K PROVE Held(h)' = Held(h)
  <2>1. CASE \E i \in Nat : h = <<i, "steal">> BY <1>2, <1>4, <2>1 DEF Passes
  <2>2. CASE \E u \in Workers, k \in Hands : h = <<u, k>>
    <3>1. PICK u \in Workers, k \in Hands : h = <<u, k>> BY <2>2
    <3>2. CASE u = w BY <1>2, <1>4, <3>1, <3>2 DEF Passes
    <3>3. CASE u # w BY <3>1, <3>3
    <3> QED BY <3>2, <3>3
  <2> QED BY <2>1, <2>2, HolderForms
<1>5. ASSUME NEW g \in K, NEW h \in K, g # h, NEW s PROVE ~ (s \in Held(g)' /\ s \in Held(h)')
  <2>1. CASE g = <<n, "steal">>
    <3>1. PICK k \in T : h = <<w, k>> BY <1>1, <1>5, <2>1
    <3> QED BY <2>1, <3>1 DEF Passes
  <2>2. CASE h = <<n, "steal">>
    <3>1. PICK k \in T : g = <<w, k>> BY <1>1, <1>5, <2>2
    <3> QED BY <2>2, <3>1 DEF Passes
  <2>3. CASE g # <<n, "steal">> /\ h # <<n, "steal">>
    <3>1. PICK j \in T : g = <<w, j>> BY <1>1, <2>3
    <3>2. PICK k \in T : h = <<w, k>> BY <1>1, <2>3
    <3> QED BY <1>5, <3>1, <3>2 DEF Passes
  <2> QED BY <2>1, <2>2, <2>3
<1>6. ASSUME NEW h \in K, NEW s PROVE ~ (s \in Held(h)' /\ s \in done')
  <2>1. CASE h = <<n, "steal">> BY <2>1 DEF Passes
  <2>2. CASE h # <<n, "steal">>
    <3>1. PICK k \in T : h = <<w, k>> BY <1>1, <2>2
    <3> QED BY <3>1 DEF Passes
  <2> QED BY <2>1, <2>2
<1>7. ASSUME NEW s
      PROVE  /\ (\E h \in K : s \in Held(h)') <=> s \in Held(<<n, "steal">>)' \/ \E k \in T : s \in Held(<<w, k>>)'
             /\ (\E h \in K : s \in Held(h)) <=> s \in Held(<<n, "steal">>) \/ \E k \in T : s \in Held(<<w, k>>)
  <2>1. (\E h \in K : s \in Held(h)') => s \in Held(<<n, "steal">>)' \/ \E k \in T : s \in Held(<<w, k>>)'
    <3> SUFFICES ASSUME NEW h \in K, s \in Held(h)'
                 PROVE  s \in Held(<<n, "steal">>)' \/ \E k \in T : s \in Held(<<w, k>>)'
      OBVIOUS
    <3>1. CASE h = <<n, "steal">> BY <3>1
    <3>2. CASE \E k \in T : h = <<w, k>> BY <3>2
    <3> QED BY <1>1, <3>1, <3>2
  <2>2. (\E h \in K : s \in Held(h)) => s \in Held(<<n, "steal">>) \/ \E k \in T : s \in Held(<<w, k>>)
    <3> SUFFICES ASSUME NEW h \in K, s \in Held(h)
                 PROVE  s \in Held(<<n, "steal">>) \/ \E k \in T : s \in Held(<<w, k>>)
      OBVIOUS
    <3>1. CASE h = <<n, "steal">> BY <3>1
    <3>2. CASE \E k \in T : h = <<w, k>> BY <3>2
    <3> QED BY <1>1, <3>1, <3>2
  <2> QED BY <1>2, <2>1, <2>2
<1>8. Moves(K, D) BY <1>3, <1>4, <1>5, <1>6, <1>7 DEF Passes, Moves
<1> QED BY <1>8

\* The list stays, loses its last task, or has one appended.
LEMMA ListKept ==
  ASSUME DataOK, UNCHANGED steal,
         \A i \in Nat : /\ i \in DOMAIN steal <=> i \in DOMAIN steal'
                        /\ i \in DOMAIN steal => steal'[i] = steal[i]
                        => Held(<<i, "steal">>)' = Held(<<i, "steal">>)
  PROVE  /\ \A i \in Nat : Held(<<i, "steal">>)' = Held(<<i, "steal">>)
         /\ Held(<<0, "steal">>) = {}
<1>1. 0 \notin DOMAIN steal BY DEF DataOK
<1> QED BY <1>1, HeldDef

\* The list loses its last task ...
LEMMA ListTaken ==
  ASSUME DataOK, steal # <<>>, steal' = Front(steal),
         \A i \in Nat : /\ i \in DOMAIN steal <=> i \in DOMAIN steal'
                        /\ i \in DOMAIN steal => steal'[i] = steal[i]
                        => Held(<<i, "steal">>)' = Held(<<i, "steal">>)
  PROVE  \E n \in Nat : /\ \A i \in Nat \ {n} : Held(<<i, "steal">>)' = Held(<<i, "steal">>)
                        /\ Held(<<n, "steal">>) = InTask(Last(steal)) /\ Held(<<n, "steal">>)' = {}
<1>1. PICK n : n = Len(steal) OBVIOUS
<1>2. /\ n \in Nat \ {0} /\ Last(steal) = steal[n] /\ DOMAIN steal = 1..n /\ DOMAIN steal' = 1..(n - 1)
      /\ \A i \in 1..(n - 1) : steal'[i] = steal[i]
  <2>1. steal \in Seq(TaskSet) BY DEF DataOK
  <2> QED BY <1>1, <2>1, LastTaken
<1>3. n \in DOMAIN steal /\ n \notin DOMAIN steal' BY <1>2
<1>4. Held(<<n, "steal">>) = InTask(Last(steal)) BY <1>2, <1>3, HeldDef
<1>5. Held(<<n, "steal">>)' = {} BY <1>3, HeldDefNext
<1>6. ASSUME NEW i \in Nat \ {n} PROVE Held(<<i, "steal">>)' = Held(<<i, "steal">>)
  <2>1. (i \in DOMAIN steal <=> i \in DOMAIN steal') /\ (i \in DOMAIN steal => steal'[i] = steal[i])
    BY <1>2
  <2> QED BY <2>1
<1> QED BY <1>2, <1>4, <1>5, <1>6

\* ... or has one appended.
LEMMA ListPut ==
  ASSUME DataOK, NEW x \in TaskSet, steal' = Append(steal, x),
         \A i \in Nat : /\ i \in DOMAIN steal <=> i \in DOMAIN steal'
                        /\ i \in DOMAIN steal => steal'[i] = steal[i]
                        => Held(<<i, "steal">>)' = Held(<<i, "steal">>)
  PROVE  \E n \in Nat : /\ \A i \in Nat \ {n} : Held(<<i, "steal">>)' = Held(<<i, "steal">>)
                        /\ Held(<<n, "steal">>) = {} /\ Held(<<n, "steal">>)' = InTask(x)'
<1>1. PICK n : n = Len(steal) + 1 OBVIOUS
<1>2. /\ n \in Nat \ {0} /\ DOMAIN steal = 1..(n - 1) /\ DOMAIN steal' = 1..n
      /\ steal'[n] = x /\ \A i \in 1..(n - 1) : steal'[i] = steal[i]
  <2>1. steal \in Seq(TaskSet) BY DEF DataOK
  <2>2. Len(steal) \in Nat BY <2>1
  <2> QED BY <1>1, <2>1, <2>2, Appended
<1>3. n \notin DOMAIN steal /\ n \in DOMAIN steal' BY <1>2
<1>4. Held(<<n, "steal">>) = {} BY <1>3, HeldDef
<1>5. Held(<<n, "steal">>)' = InTask(x)'
  <2>1. InTask(steal[n])' = InTask(x)' BY <1>2 DEF InTask, InChunk, InRange
  <2> QED BY <1>3, <2>1, HeldDefNext
<1>6. ASSUME NEW i \in Nat \ {n} PROVE Held(<<i, "steal">>)' = Held(<<i, "steal">>)
  <2>1. (i \in DOMAIN steal <=> i \in DOMAIN steal') /\ (i \in DOMAIN steal => steal'[i] = steal[i])
    BY <1>2
  <2> QED BY <2>1
<1> QED BY <1>2, <1>4, <1>5, <1>6

\* Hands that are empty by their shape.
LEMMA EmptyWork ==
  /\ InRange(NoSlots) = {}
  /\ \A copies : InChunk(Chunk(0, 0), copies) = {} /\ InChunks({}, copies) = {}
  /\ \A c, copies : InChunks({c}, copies) = InChunk(c, copies)
<1>1. InRange(NoSlots) = {} BY DEF InRange, NoSlots
<1>2. Unscanned(Chunk(0, 0)) = {} BY DEF Unscanned, Chunk
<1>3. \A copies : InChunk(Chunk(0, 0), copies) = {} BY <1>2 DEF InChunk
<1>4. \A copies : InChunks({}, copies) = {} BY DEF InChunks
<1>5. \A c, copies : InChunks({c}, copies) = InChunk(c, copies) BY DEF InChunks
<1> QED BY <1>1, <1>3, <1>4, <1>5

\* A hand that is not moved holds what it held.
LEMMA HandKept ==
  ASSUME arena' = arena, NEW w
  PROVE  /\ cur'[w] = cur[w] => Held(<<w, "cur">>)' = Held(<<w, "cur">>)
         /\ scanning'[w] = scanning[w] => Held(<<w, "aside">>)' = Held(<<w, "aside">>)
         /\ sweep'[w] = sweep[w] => Held(<<w, "sweep">>)' = Held(<<w, "sweep">>)
         /\ slots'[w] = slots[w] => Held(<<w, "slots">>)' = Held(<<w, "slots">>)
         /\ claim'[w] = claim[w] /\ (pc'[w] = "alloc" <=> pc[w] = "alloc")
              => Held(<<w, "claim">>)' = Held(<<w, "claim">>)
<1>1. cur'[w] = cur[w] => Held(<<w, "cur">>)' = Held(<<w, "cur">>) BY HeldDef, HeldDefNext
<1>2. scanning'[w] = scanning[w] => Held(<<w, "aside">>)' = Held(<<w, "aside">>) BY HeldDef, HeldDefNext
<1>3. sweep'[w] = sweep[w] => Held(<<w, "sweep">>)' = Held(<<w, "sweep">>) BY HeldDef, HeldDefNext
<1>4. slots'[w] = slots[w] => Held(<<w, "slots">>)' = Held(<<w, "slots">>) BY HeldDef, HeldDefNext
<1>5. claim'[w] = claim[w] /\ (pc'[w] = "alloc" <=> pc[w] = "alloc")
        => Held(<<w, "claim">>)' = Held(<<w, "claim">>) BY HeldDef, HeldDefNext
<1> QED BY <1>1, <1>2, <1>3, <1>4, <1>5

\* Nothing is left in the hands that a worker does not use where it is.
LEMMA EmptyHands ==
  ASSUME DataOK, HandsOK, RangesOK, ClaimsOK, NEW w \in Workers
  PROVE  /\ pc[w] \notin InSweep \/ own[w] => Held(<<w, "sweep">>) = {}
         /\ pc[w] \notin InSweep \ {"sweep"} => Held(<<w, "slots">>) = {}
         /\ pc[w] \notin Evacuating => Held(<<w, "claim">>) = {}
<1>1. ASSUME pc[w] \notin InSweep \/ own[w] PROVE Held(<<w, "sweep">>) = {}
  <2>1. sweep[w] \in ChunkSet /\ sweep[w].scan >= sweep[w].alloc BY <1>1 DEF HandsOK, HandOK, DataOK
  <2> QED BY <2>1, EmptyChunk, HeldDef
<1>2. ASSUME pc[w] \notin InSweep \ {"sweep"} PROVE Held(<<w, "slots">>) = {}
  <2>1. slots[w] = NoSlots BY <1>2 DEF RangesOK
  <2> QED BY <2>1, EmptyWork, HeldDef
<1>3. ASSUME pc[w] \notin Evacuating PROVE Held(<<w, "claim">>) = {}
  <2>1. claim[w] = NoClaim BY <1>3 DEF ClaimsOK, ClaimOK
  <2>2. claim[w].oversize = FALSE /\ pc[w] # "alloc" BY <1>3, <2>1 DEF NoClaim, Evacuating
  <2> QED BY <2>2, HeldDef
<1> QED BY <1>1, <1>2, <1>3

\* The chunk set aside becomes the one that is swept.
LEMMA TakingMoves ==
  ASSUME DataOK, HandsOK, RangesOK, ClaimsOK, WorkOnce, NEW w \in Workers, Work(w), TakeScanning(w)
  PROVE  \E K : Moves(K, {})
<1>1. /\ pc[w] = "drain" /\ scanning[w] # {} /\ sweep' = [sweep EXCEPT ![w] = CHOOSE c \in scanning[w] : TRUE]
      /\ scanning' = [scanning EXCEPT ![w] = {}] /\ pc' = [pc EXCEPT ![w] = "sweep"]
      /\ UNCHANGED <<header, done, arena, steal, cur, slots, claim>>
  BY DEF TakeScanning
<1>2. PICK c : c = CHOOSE d \in scanning[w] : TRUE OBVIOUS
<1>3. c \in scanning[w] BY <1>1, <1>2
<1>4. scanning[w] = {c} BY <1>3 DEF HandsOK, HandOK
<1>5. sweep'[w] = c /\ scanning'[w] = {} /\ pc'[w] = "sweep" BY <1>1, <1>2 DEF DataOK
<1>6. Held(<<w, "sweep">>) = {} /\ Held(<<w, "aside">>) = InChunk(c, arena)
  <2>1. Held(<<w, "sweep">>) = {} BY <1>1, EmptyHands DEF InSweep
  <2>2. Held(<<w, "aside">>) = InChunks({c}, arena) BY <1>4, HeldDef
  <2> QED BY <2>1, <2>2, EmptyWork
<1>7. Held(<<w, "sweep">>)' = InChunk(c, arena) /\ Held(<<w, "aside">>)' = {}
  <2>1. Held(<<w, "sweep">>)' = InChunk(c, arena) BY <1>1, <1>5, HeldDefNext
  <2>2. Held(<<w, "aside">>)' = InChunks({}, arena') BY <1>5, HeldDefNext
  <2> QED BY <2>1, <2>2, EmptyWork
<1>8. \A i \in Nat : Held(<<i, "steal">>)' = Held(<<i, "steal">>)
  BY <1>1, SameArena, ListKept
<1>9. Held(<<0, "steal">>) = {} BY <1>1, SameArena, ListKept
<1>10. \A k \in Hands \ {"aside", "sweep"} : Held(<<w, k>>)' = Held(<<w, k>>)
  BY <1>1, <1>5, HandKept DEF Hands
<1>11. <<w, "aside">> \in Holders BY DEF Holders
<1>12. \A s \in Held(<<w, "aside">>) : s \notin done BY <1>11 DEF WorkOnce
<1>13. \A s : s \notin done \/ \A i \in Nat : s \notin Held(<<i, "steal">>) BY DEF WorkOnce, Holders
<1>14. Passes(w, 0, {"aside", "sweep"}, {})
  BY <1>1, <1>6, <1>7, <1>8, <1>9, <1>10, <1>12, <1>13 DEF Passes, Hands
<1> QED BY <1>1, <1>14, SameArena, PassesMove

\* The last task of the list passes to the thief.
LEMMA StealMoves ==
  ASSUME DataOK, HandsOK, RangesOK, ClaimsOK, WorkOnce, NEW w \in Workers, Work(w), Steal(w)
  PROVE  \E K : Moves(K, {})
<1>1. /\ pc[w] = "drain" /\ steal # <<>> /\ steal' = Front(steal)
      /\ UNCHANGED <<header, done, arena, cur, scanning, claim>>
  BY DEF Steal
<1>2. PICK n \in Nat : /\ \A i \in Nat \ {n} : Held(<<i, "steal">>)' = Held(<<i, "steal">>)
                       /\ Held(<<n, "steal">>) = InTask(Last(steal)) /\ Held(<<n, "steal">>)' = {}
  BY <1>1, SameArena, ListTaken
<1>3. Held(<<w, "sweep">>) = {} /\ Held(<<w, "slots">>) = {}
  BY <1>1, EmptyHands DEF InSweep
<1>4. Last(steal) \in TaskSet /\ Last(steal) \in Tasks BY <1>1, TaskTaken, ChunkTypes
<1>5. pc'[w] # "alloc" BY DEF Steal, DataOK
<1>6. \A k \in Hands \ {"sweep", "slots"} : Held(<<w, k>>)' = Held(<<w, k>>)
  BY <1>1, <1>5, HandKept DEF Hands
<1>7. \/ Held(<<w, "sweep">>)' = InTask(Last(steal)) /\ Held(<<w, "slots">>)' = {}
      \/ Held(<<w, "sweep">>)' = {} /\ Held(<<w, "slots">>)' = InTask(Last(steal))
  <2>1. CASE Last(steal).kind = "chunk"
    <3>1. sweep'[w] = Last(steal).chunk /\ slots' = slots BY <2>1 DEF Steal, DataOK
    <3>2. Held(<<w, "sweep">>)' = InTask(Last(steal)) BY <1>1, <2>1, <3>1, HeldDefNext DEF InTask
    <3>3. Held(<<w, "slots">>)' = {} BY <1>3, <3>1, HeldDef, HeldDefNext
    <3> QED BY <3>2, <3>3
  <2>2. CASE Last(steal).kind # "chunk"
    <3>1. slots'[w] = Last(steal).slots /\ sweep'[w] = Chunk(0, 0) BY <2>2 DEF Steal, DataOK
    <3>2. Held(<<w, "slots">>)' = InTask(Last(steal)) BY <1>1, <2>2, <3>1, HeldDefNext DEF InTask
    <3>4. Held(<<w, "sweep">>)' = {} BY <3>1, EmptyWork, HeldDefNext
    <3> QED BY <3>2, <3>4
  <2> QED BY <2>1, <2>2
<1>8. <<n, "steal">> \in Holders BY DEF Holders
<1>9. \A s \in Held(<<n, "steal">>) : s \notin done BY <1>8 DEF WorkOnce
<1>10. {"sweep", "slots"} \subseteq Hands BY DEF Hands
<1>11. Passes(w, n, {"sweep", "slots"}, {})
  BY <1>1, <1>2, <1>3, <1>6, <1>7, <1>9, <1>10 DEF Passes
<1> QED BY <1>1, <1>11, SameArena, PassesMove

\* A split passes the upper half of a range to the list.
LEMMA SplitMoves ==
  ASSUME DataOK, HandsOK, RangesOK, ClaimsOK, WorkOnce, NEW w \in Workers, Work(w), Split(w)
  PROVE  \E K : Moves(K, {})
<1>1. PICK mid : mid = slots[w].lo + (slots[w].hi - slots[w].lo) \div 2 OBVIOUS
<1>2. PICK s : s = slots[w] OBVIOUS
<1>3. RangeOK(s) /\ s \in SlotsSet /\ s.lo \in Nat /\ s.hi \in Nat /\ s.lo <= s.hi
  BY <1>2, SlotsFields DEF Split, RangesOK, RangeOK, InSweep, DataOK
<1>4. mid \in Nat /\ s.lo <= mid /\ mid <= s.hi BY <1>1, <1>2, <1>3
<1>5. PICK upper : upper = [s EXCEPT !.lo = mid] OBVIOUS
<1>6. PICK lower : lower = [s EXCEPT !.hi = mid] OBVIOUS
<1>7. /\ upper.obj = s.obj /\ upper.lo = mid /\ upper.hi = s.hi /\ upper \in SlotsSet
      /\ lower.obj = s.obj /\ lower.lo = s.lo /\ lower.hi = mid
  BY <1>3, <1>4, <1>5, <1>6, SlotsFields
<1>8. /\ steal' = Append(steal, SlotsTask(upper)) /\ slots'[w] = lower
      /\ UNCHANGED <<header, done, arena, cur, scanning, sweep, claim, pc>>
  BY <1>1, <1>2, <1>5, <1>6 DEF Split, DataOK
<1>9. /\ SlotsTask(upper) \in TaskSet /\ SlotsTask(upper).kind = "slots" /\ SlotsTask(upper).slots = upper
  BY <1>7 DEF SlotsTask, TaskSet
<1>10. InTask(SlotsTask(upper))' = InRange(upper) BY <1>9 DEF InTask, InRange
<1>11. PICK n \in Nat : /\ \A i \in Nat \ {n} : Held(<<i, "steal">>)' = Held(<<i, "steal">>)
                        /\ Held(<<n, "steal">>) = {} /\ Held(<<n, "steal">>)' = InRange(upper)
  BY <1>8, <1>9, <1>10, SameArena, ListPut
<1>12. Held(<<w, "slots">>) = InRange(s) /\ Held(<<w, "slots">>)' = InRange(lower)
  BY <1>2, <1>8, HeldDef, HeldDefNext
<1>13. /\ \A x : x \in InRange(s) <=> x \in InRange(lower) \/ x \in InRange(upper)
       /\ \A x : ~ (x \in InRange(lower) /\ x \in InRange(upper))
  <2>1. \A i : i \in s.lo..(s.hi - 1) <=> i \in lower.lo..(lower.hi - 1) \/ i \in upper.lo..(upper.hi - 1)
    BY <1>3, <1>4, <1>7
  <2>2. \A i : ~ (i \in lower.lo..(lower.hi - 1) /\ i \in upper.lo..(upper.hi - 1))
    BY <1>3, <1>4, <1>7
  <2>3. InRange(s) = {s.obj} \X (s.lo..(s.hi - 1)) /\ InRange(lower) = {s.obj} \X (lower.lo..(lower.hi - 1))
        /\ InRange(upper) = {s.obj} \X (upper.lo..(upper.hi - 1))
    BY <1>7 DEF InRange
  <2> QED BY <2>1, <2>2, <2>3
<1>14. \A k \in Hands \ {"slots"} : Held(<<w, k>>)' = Held(<<w, k>>)
  BY <1>8, HandKept DEF Hands
<1>15. <<w, "slots">> \in Holders BY DEF Holders
<1>16. \A x \in Held(<<w, "slots">>) : x \notin done BY <1>15 DEF WorkOnce
<1>17. {"slots"} \subseteq Hands BY DEF Hands
<1>18. Passes(w, n, {"slots"}, {})
  BY <1>8, <1>11, <1>12, <1>13, <1>14, <1>16, <1>17 DEF Passes
<1> QED BY <1>8, <1>18, SameArena, PassesMove

\* What is in a chunk, slot by slot.
LEMMA InChunkMember ==
  ASSUME NEW c, NEW copies, NEW s
  PROVE  s \in InChunk(c, copies) <=> \E p \in copies : p[1] \in Unscanned(c) /\ s \in SlotsOf(p[2])
BY DEF InChunk

\* A slot names its object.
LEMMA SlotsOfMember == \A o, s : s \in SlotsOf(o) => s[1] = o
BY DEF SlotsOf

\* What a scan leaves behind is the copy, or filler, at its place and no more.
LEMMA ScannedPast ==
  ASSUME DataOK, CopiesOK, PiecesApart, NEW c \in ChunkSet, NEW p \in arena, p[1] = c.scan, c.scan < c.alloc,
         NEW d \in ChunkSet, d.scan = c.scan + Need(p[2]), d.alloc = c.alloc
  PROVE  /\ \A s : s \in InChunk(c, arena) <=> s \in SlotsOf(p[2]) \/ s \in InChunk(d, arena)
         /\ \A s : ~ (s \in SlotsOf(p[2]) /\ s \in InChunk(d, arena))
<1>1. c.scan \in Nat /\ c.alloc \in Nat /\ Need(p[2]) \in Nat \ {0}
  BY ChunkFields, NeedType DEF DataOK
<1>2. p[1] \in Unscanned(c) /\ p[1] \notin Unscanned(d) BY <1>1 DEF Unscanned
<1>3. ASSUME NEW q \in arena, q # p PROVE q[1] \in Unscanned(c) <=> q[1] \in Unscanned(d)
  <2>1. q[1] \in Nat /\ Need(q[2]) \in Nat \ {0} BY NeedType DEF DataOK
  <2>2. Apart(q[1], CopyEnd(q), p[1], CopyEnd(p)) BY <1>3 DEF PiecesApart
  <2> QED BY <1>1, <2>1, <2>2 DEF Apart, CopyEnd, Unscanned
<1>4. ASSUME NEW s PROVE s \in InChunk(c, arena) <=> s \in SlotsOf(p[2]) \/ s \in InChunk(d, arena)
  BY <1>2, <1>3, InChunkMember
<1>5. ASSUME NEW s, s \in SlotsOf(p[2]), s \in InChunk(d, arena) PROVE FALSE
  <2>1. PICK q \in arena : q[1] \in Unscanned(d) /\ s \in SlotsOf(q[2]) BY <1>5, InChunkMember
  <2>2. q[2] = p[2] BY <1>5, <2>1, SlotsOfMember
  <2>3. q = p BY <2>2 DEF CopiesOK
  <2> QED BY <1>2, <2>1, <2>3
<1> QED BY <1>4, <1>5

\* A filler is passed over and nothing is left out.
LEMMA ScannedFiller ==
  ASSUME DataOK, PiecesApart, NEW c \in ChunkSet, NEW f \in fillers, f[1] = c.scan,
         NEW d \in ChunkSet, d.scan = c.scan + f[2], d.alloc = c.alloc
  PROVE  InChunk(d, arena) = InChunk(c, arena)
<1>1. c.scan \in Nat /\ c.alloc \in Nat /\ f[2] \in Nat \ {0} BY ChunkFields DEF DataOK
<1>2. ASSUME NEW q \in arena PROVE q[1] \in Unscanned(c) <=> q[1] \in Unscanned(d)
  <2>1. q[1] \in Nat /\ Need(q[2]) \in Nat \ {0} BY NeedType DEF DataOK
  <2>2. Apart(q[1], CopyEnd(q), f[1], FillerEnd(f)) BY DEF PiecesApart
  <2> QED BY <1>1, <2>1, <2>2 DEF Apart, CopyEnd, FillerEnd, Unscanned
<1>3. \A s : s \in InChunk(d, arena) <=> s \in InChunk(c, arena) BY <1>2, InChunkMember
<1> QED BY <1>3

\* The chunk that is swept, before and after.
LEMMA SweptAdvances ==
  ASSUME DataOK, NEW w \in Workers, NEW n \in Nat, Advance(w, n), arena' = arena
  PROVE  \E d \in ChunkSet, k \in {"cur", "sweep"} :
           /\ Swept(w) \in ChunkSet /\ d.scan = Swept(w).scan + n /\ d.alloc = Swept(w).alloc
           /\ Held(<<w, k>>) = InChunk(Swept(w), arena) /\ Held(<<w, k>>)' = InChunk(d, arena)
           /\ \A j \in {"cur", "sweep"} \ {k} : Held(<<w, j>>)' = Held(<<w, j>>)
<1>1. cur \in [Workers -> ChunkSet] /\ sweep \in [Workers -> ChunkSet] BY DEF DataOK
<1>2. PICK c : c = Swept(w) OBVIOUS
<1>3. c \in ChunkSet /\ c.scan + n \in Nat BY <1>1, <1>2, ChunkFields DEF Swept
<1>4. PICK d : d = [c EXCEPT !.scan = c.scan + n] OBVIOUS
<1>5. d \in ChunkSet /\ d.scan = c.scan + n /\ d.alloc = c.alloc BY <1>3, <1>4, ChunkFields
<1>6. CASE own[w]
  <2>1. c = cur[w] BY <1>2, <1>6 DEF Swept
  <2>2. sweep' = sweep /\ cur'[w] = d BY <1>1, <1>4, <1>6, <2>1, AdvanceFields
  <2>3. Held(<<w, "cur">>) = InChunk(c, arena) BY <2>1, HeldDef
  <2>4. Held(<<w, "cur">>)' = InChunk(d, arena) BY <2>2, HeldDefNext
  <2>5. Held(<<w, "sweep">>)' = Held(<<w, "sweep">>) BY <2>2, HandKept
  <2> QED BY <1>2, <1>3, <1>5, <2>3, <2>4, <2>5
<1>7. CASE ~own[w]
  <2>1. c = sweep[w] BY <1>2, <1>7 DEF Swept
  <2>2. cur' = cur /\ sweep'[w] = d BY <1>1, <1>4, <1>7, <2>1, AdvanceFields
  <2>3. Held(<<w, "sweep">>) = InChunk(c, arena) BY <2>1, HeldDef
  <2>4. Held(<<w, "sweep">>)' = InChunk(d, arena) BY <2>2, HeldDefNext
  <2>5. Held(<<w, "cur">>)' = Held(<<w, "cur">>) BY <2>2, HandKept
  <2> QED BY <1>2, <1>3, <1>5, <2>3, <2>4, <2>5
<1> QED BY <1>6, <1>7

\* The slots of the next object pass from the chunk to the range in hand.
LEMMA ObjectMoves ==
  ASSUME DataOK, HandsOK, RangesOK, ClaimsOK, CopiesOK, PiecesApart, WorkOnce,
         NEW w \in Workers, Work(w), NextObject(w)
  PROVE  \E K : Moves(K, {})
<1>1. /\ pc[w] = "sweep" /\ Swept(w).scan < Swept(w).alloc
      /\ UNCHANGED <<header, done, arena, steal, scanning, claim>>
  BY DEF NextObject, Unswept
<1>2. PICK o \in Objects :
        /\ <<Swept(w).scan, o>> \in arena
        /\ Advance(w, Need(o))
        /\ IF o \in Weak
           THEN UNCHANGED <<pc, slots>>
           ELSE /\ slots' = [slots EXCEPT ![w] = [obj |-> o, lo |-> 1, hi |-> Len(Body[o]) + 1]]
                /\ Goto(w, "scan")
  BY DEF NextObject
<1>3. Need(o) \in Nat BY NeedType
<1>4. PICK d \in ChunkSet, k \in {"cur", "sweep"} :
         /\ Swept(w) \in ChunkSet /\ d.scan = Swept(w).scan + Need(o) /\ d.alloc = Swept(w).alloc
         /\ Held(<<w, k>>) = InChunk(Swept(w), arena) /\ Held(<<w, k>>)' = InChunk(d, arena)
         /\ \A j \in {"cur", "sweep"} \ {k} : Held(<<w, j>>)' = Held(<<w, j>>)
  BY <1>1, <1>2, <1>3, SweptAdvances
<1>5. /\ \A s : s \in Held(<<w, k>>) <=> s \in SlotsOf(o) \/ s \in Held(<<w, k>>)'
      /\ \A s : ~ (s \in SlotsOf(o) /\ s \in Held(<<w, k>>)')
  <2>1. PICK p : p = <<Swept(w).scan, o>> OBVIOUS
  <2>2. p \in arena /\ p[1] = Swept(w).scan /\ p[2] = o BY <1>2, <2>1
  <2> QED BY <1>1, <1>4, <2>2, ScannedPast
<1>6. Held(<<w, "slots">>) = {} BY <1>1, EmptyHands
<1>7. Held(<<w, "slots">>)' = SlotsOf(o)
  <2>1. CASE o \in Weak
    <3>1. Held(<<w, "slots">>)' = Held(<<w, "slots">>) BY <1>1, <1>2, <2>1, HandKept
    <3> QED BY <1>6, <2>1, <3>1 DEF SlotsOf
  <2>2. CASE o \notin Weak
    <3>1. slots'[w] = [obj |-> o, lo |-> 1, hi |-> Len(Body[o]) + 1] BY <1>2, <2>2 DEF DataOK
    <3>2. Len(Body[o]) \in Nat /\ DOMAIN Body[o] = 1..Len(Body[o]) BY BodyType
    <3>3. InRange(slots'[w]) = {o} \X (1..Len(Body[o])) BY <3>1, <3>2 DEF InRange
    <3> QED BY <2>2, <3>2, <3>3, HeldDefNext DEF SlotsOf
  <2> QED BY <2>1, <2>2
<1>8. pc'[w] # "alloc" BY <1>1, <1>2 DEF DataOK
<1>9. \A j \in Hands \ {k, "slots"} : Held(<<w, j>>)' = Held(<<w, j>>)
  BY <1>1, <1>4, <1>8, HandKept DEF Hands
<1>10. \A i \in Nat : Held(<<i, "steal">>)' = Held(<<i, "steal">>)
  BY <1>1, SameArena, ListKept
<1>11. Held(<<0, "steal">>) = {} BY <1>1, SameArena, ListKept
<1>12. <<w, k>> \in Holders BY DEF Holders
<1>13. \A s \in Held(<<w, k>>) : s \notin done BY <1>12 DEF WorkOnce
<1>14. {k, "slots"} \subseteq Hands BY DEF Hands
<1>15. Passes(w, 0, {k, "slots"}, {})
  BY <1>1, <1>5, <1>6, <1>7, <1>9, <1>10, <1>11, <1>13, <1>14 DEF Passes
<1> QED BY <1>1, <1>15, SameArena, PassesMove

\* A step that touches no hand of its worker and not the list.
LEMMA KeptMove ==
  ASSUME NEW w \in Workers, UNCHANGED <<header, done>>,
         \A u \in Workers \ {w}, k \in Hands : Held(<<u, k>>)' = Held(<<u, k>>),
         \A i \in Nat : Held(<<i, "steal">>)' = Held(<<i, "steal">>),
         \A k \in Hands : Held(<<w, k>>)' = Held(<<w, k>>)
  PROVE  \E K : Moves(K, {})
<1>1. ASSUME NEW h \in Holders PROVE Held(h)' = Held(h)
  <2>1. CASE \E i \in Nat : h = <<i, "steal">> BY <2>1
  <2>2. CASE \E u \in Workers, k \in Hands : h = <<u, k>>
    <3>1. PICK u \in Workers, k \in Hands : h = <<u, k>> BY <2>2
    <3>2. CASE u = w BY <3>1, <3>2
    <3>3. CASE u # w BY <3>1, <3>3
    <3> QED BY <3>2, <3>3
  <2> QED BY <2>1, <2>2, HolderForms
<1>2. Moves({}, {}) BY <1>1, NothingMoves
<1> QED BY <1>2

\* The same, when not even a copy was placed.
LEMMA HandsKeptMove ==
  ASSUME DataOK, NEW w \in Workers, Work(w), UNCHANGED <<header, done, arena, steal>>,
         \A k \in Hands : Held(<<w, k>>)' = Held(<<w, k>>)
  PROVE  \E K : Moves(K, {})
BY SameArena, ListKept, KeptMove

\* Over a filler no work moves.
LEMMA FillerMoves ==
  ASSUME DataOK, PiecesApart, NEW w \in Workers, Work(w), NextFiller(w)
  PROVE  \E K : Moves(K, {})
<1>1. UNCHANGED <<header, done, arena, steal, pc, scanning, slots, claim>>
  BY DEF NextFiller
<1>2. PICK f \in fillers : f[1] = Swept(w).scan /\ Advance(w, f[2]) BY DEF NextFiller
<1>3. f[2] \in Nat BY DEF DataOK
<1>4. PICK d \in ChunkSet, k \in {"cur", "sweep"} :
         /\ Swept(w) \in ChunkSet /\ d.scan = Swept(w).scan + f[2] /\ d.alloc = Swept(w).alloc
         /\ Held(<<w, k>>) = InChunk(Swept(w), arena) /\ Held(<<w, k>>)' = InChunk(d, arena)
         /\ \A j \in {"cur", "sweep"} \ {k} : Held(<<w, j>>)' = Held(<<w, j>>)
  BY <1>1, <1>2, <1>3, SweptAdvances
<1>5. Held(<<w, k>>)' = Held(<<w, k>>) BY <1>2, <1>4, ScannedFiller
<1>6. \A j \in Hands : Held(<<w, j>>)' = Held(<<w, j>>)
  BY <1>1, <1>4, <1>5, HandKept DEF Hands
<1> QED BY <1>1, <1>6, HandsKeptMove

\* At the end of a range there was nothing left of it.
LEMMA ScanEndMoves ==
  ASSUME DataOK, NEW w \in Workers, Work(w), ScanEnd(w)
  PROVE  \E K : Moves(K, {})
<1>1. /\ UNCHANGED <<header, done, arena, steal, cur, scanning, sweep, claim>>
      /\ slots'[w] = NoSlots /\ pc'[w] = "sweep" /\ pc[w] = "scan" /\ slots[w].lo >= slots[w].hi
  BY DEF ScanEnd, Scanning, DataOK
<1>2. Held(<<w, "slots">>)' = {} BY <1>1, HeldDefNext, EmptyWork
<1>3. Held(<<w, "slots">>) = {}
  <2>1. slots[w].lo \in Nat /\ slots[w].hi \in Nat BY SlotsFields DEF DataOK
  <2>2. slots[w].lo..(slots[w].hi - 1) = {} BY <1>1, <2>1
  <2> QED BY ZenonT(40), <2>2, HeldDef DEF InRange
<1>4. \A k \in Hands : Held(<<w, k>>)' = Held(<<w, k>>)
  BY <1>1, <1>2, <1>3, HandKept DEF Hands
<1> QED BY <1>1, <1>4, HandsKeptMove

\* The slot at hand passes from the range to what is done.
LEMMA SlotDone ==
  ASSUME DataOK, NEW w \in Workers, Forward(w), slots[w].lo < slots[w].hi
  PROVE  /\ \A s : s \in Held(<<w, "slots">>) <=> s \in Held(<<w, "slots">>)' \/ s = <<slots[w].obj, slots[w].lo>>
         /\ <<slots[w].obj, slots[w].lo>> \notin Held(<<w, "slots">>)'
         /\ done' = done \cup {<<slots[w].obj, slots[w].lo>>}
<1>1. PICK r : r = slots[w] OBVIOUS
<1>2. r \in SlotsSet /\ r.lo \in Nat /\ r.hi \in Nat /\ r.lo + 1 \in Nat BY <1>1, SlotsFields DEF DataOK
<1>3. PICK q : q = [r EXCEPT !.lo = r.lo + 1] OBVIOUS
<1>4. q.obj = r.obj /\ q.lo = r.lo + 1 /\ q.hi = r.hi BY <1>2, <1>3, SlotsFields
<1>5. slots'[w] = q /\ done' = done \cup {<<r.obj, r.lo>>}
  <2>1. slots \in [Workers -> SlotsSet] BY DEF DataOK
  <2> QED BY <1>1, <1>3, <2>1, ForwardFields
<1>6. Held(<<w, "slots">>) = {r.obj} \X (r.lo..(r.hi - 1)) BY <1>1, HeldDef DEF InRange
<1>7. Held(<<w, "slots">>)' = {r.obj} \X ((r.lo + 1)..(r.hi - 1)) BY <1>4, <1>5, HeldDefNext DEF InRange
<1>8. \A i : i \in r.lo..(r.hi - 1) <=> i \in (r.lo + 1)..(r.hi - 1) \/ i = r.lo
  BY <1>1, <1>2
<1>9. r.lo \notin (r.lo + 1)..(r.hi - 1) BY <1>2
<1> QED BY <1>1, <1>5, <1>6, <1>7, <1>8, <1>9

\* A slot that needs no copy is done.
LEMMA FollowMoves ==
  ASSUME DataOK, WorkOnce, NEW w \in Workers, Work(w), Follow(w)
  PROVE  \E K : Moves(K, {})
<1>1. Forward(w) /\ slots[w].lo < slots[w].hi
      /\ UNCHANGED <<header, arena, steal, pc, cur, scanning, sweep, claim>>
  BY DEF Follow
<1>2. PICK x : x = <<slots[w].obj, slots[w].lo>> OBVIOUS
<1>3. /\ \A s : s \in Held(<<w, "slots">>) <=> s \in Held(<<w, "slots">>)' \/ s = x
      /\ x \notin Held(<<w, "slots">>)'
      /\ done' = done \cup {x}
  BY <1>1, <1>2, SlotDone
<1>4. \A i \in Nat : Held(<<i, "steal">>)' = Held(<<i, "steal">>) BY <1>1, SameArena, ListKept
<1>5. Held(<<0, "steal">>) = {} BY <1>1, SameArena, ListKept
<1>6. \A k \in Hands \ {"slots"} : Held(<<w, k>>)' = Held(<<w, k>>)
  BY <1>1, HandKept DEF Hands
<1>7. <<w, "slots">> \in Holders BY DEF Holders
<1>8. \A s \in Held(<<w, "slots">>) : s \notin done BY <1>7 DEF WorkOnce
<1>9. {"slots"} \subseteq Hands BY DEF Hands
<1>10. Passes(w, 0, {"slots"}, {})
  BY <1>1, <1>3, <1>4, <1>5, <1>6, <1>8, <1>9 DEF Passes
<1> QED BY <1>1, <1>10, SameArena, PassesMove

\* A claim: the slots of an object nobody had are new, and in the claimant's hand.
LEMMA ClaimMoves ==
  ASSUME DataOK, HandsOK, RangesOK, ClaimsOK, WorkOnce, NEW w \in Workers, Work(w), Claim(w)
  PROVE  \E K, D : Moves(K, D)
<1>1. PICK o : o = Referent(w) OBVIOUS
<1>2. /\ pc[w] = "scan" /\ header[o] = "normal" /\ o # Null
      /\ header' = [header EXCEPT ![o] = "busy"] /\ claim'[w] = [NoClaim EXCEPT !.obj = o] /\ pc'[w] = "alloc"
      /\ UNCHANGED <<done, arena, steal, cur, scanning, sweep, slots>>
  BY <1>1 DEF Claim, Scanning, DataOK
<1>3. \A p \in Objects : header'[p] # "normal" <=> header[p] # "normal" \/ p = o
  BY <1>2 DEF DataOK
<1>4. claim'[w].obj = o BY <1>2 DEF NoClaim
<1>5. Held(<<w, "claim">>)' = SlotsOf(o) BY <1>2, <1>4, HeldDefNext
<1>6. Held(<<w, "claim">>) = {} BY <1>2, EmptyHands DEF Evacuating
<1>7. \A s \in SlotsOf(o) : s[1] = o BY SlotsOfMember
<1>8. \A s \in SlotsOf(o) : s \notin done /\ \A h \in Holders : s \notin Held(h)
  BY <1>2, <1>7 DEF WorkOnce
<1>9. o \in Objects
  <2>1. RangeOK(slots[w]) /\ slots[w] \in SlotsSet /\ slots[w].lo < slots[w].hi
    BY <1>2 DEF RangesOK, InSweep, DataOK, Claim
  <2>2. slots[w].obj \in Objects /\ slots[w].lo \in 1..Len(Body[slots[w].obj])
    BY <2>1, SlotsFields, BodyType DEF RangeOK
  <2> QED BY <1>1, <1>2, <2>2, BodyType DEF Referent
<1>10. \A i \in Nat : Held(<<i, "steal">>)' = Held(<<i, "steal">>) BY <1>2, SameArena, ListKept
<1>11. Held(<<0, "steal">>) = {} BY <1>2, SameArena, ListKept
<1>12. \A k \in Hands \ {"claim"} : Held(<<w, k>>)' = Held(<<w, k>>)
  BY <1>2, HandKept DEF Hands
<1>13. {"claim"} \subseteq Hands BY DEF Hands
<1>14. Passes(w, 0, {"claim"}, SlotsOf(o))
  BY <1>2, <1>3, <1>5, <1>6, <1>7, <1>8, <1>9, <1>10, <1>11, <1>12, <1>13 DEF Passes
<1> QED BY <1>2, <1>14, SameArena, PassesMove

\* A chunk that does not reach to a new copy holds what it held.
LEMMA UnseenCopy ==
  ASSUME NEW c, NEW copies, NEW copy, copy[1] \notin Unscanned(c)
  PROVE  InChunk(c, copies \cup {copy}) = InChunk(c, copies)
<1>1. \A s : s \in InChunk(c, copies \cup {copy}) <=> s \in InChunk(c, copies) BY InChunkMember
<1> QED BY <1>1

\* What fits a chunk is not placed apart.
LEMMA NotOversize ==
  ASSUME ClaimsOK, NEW w \in Workers, AllocInChunk(w) \/ AllocSealing(w)
  PROVE  ~AllocOversize(w)
<1>1. pc[w] = "alloc" /\ Need(claim[w].obj) <= OversizeWords BY DEF AllocInChunk, AllocSealing
<1>2. claim[w].obj \in Objects BY <1>1 DEF ClaimsOK, ClaimOK, Evacuating
<1>3. Need(claim[w].obj) \in Nat BY <1>2, NeedType
<1>4. OversizeWords \in Nat BY ParDrainAssumption
<1>5. ~ (Need(claim[w].obj) > OversizeWords) BY <1>1, <1>3, <1>4
<1> QED BY <1>5 DEF AllocOversize

\* The copy that is placed is the work of nobody but its owner.
LEMMA AllocEffect ==
  ASSUME DataOK, ClaimsOK, NEW w \in Workers, Work(w),
         \/ AllocOversize(w) \/ AllocInChunk(w) \/ AllocSealing(w),
         Shared \subseteq Shared', UnsharedOK'
  PROVE  /\ UNCHANGED <<header, done, slots, sweep>> /\ pc[w] = "alloc" /\ pc'[w] = "copy"
         /\ claim'[w].obj = claim[w].obj /\ claim[w].obj \in Objects
         /\ arena' = arena \cup {<<claim'[w].at, claim[w].obj>>}
         /\ claim'[w].oversize = TRUE <=> AllocOversize(w)
         /\ claim'[w].oversize \in BOOLEAN
         /\ \A c \in Shared : InChunk(c, arena') = InChunk(c, arena)
         /\ \A u \in Workers \ {w}, k \in Hands : Held(<<u, k>>)' = Held(<<u, k>>)
         /\ \A i \in Nat : /\ i \in DOMAIN steal <=> i \in DOMAIN steal'
                           /\ i \in DOMAIN steal => steal'[i] = steal[i]
                           => Held(<<i, "steal">>)' = Held(<<i, "steal">>)
         /\ Held(<<w, "claim">>) = SlotsOf(claim[w].obj)
         /\ Held(<<w, "slots">>)' = Held(<<w, "slots">>)
         /\ Held(<<w, "sweep">>)' = Held(<<w, "sweep">>)
         /\ scanning'[w] = scanning[w] => Held(<<w, "aside">>)' = Held(<<w, "aside">>)
<1>1. PICK at, big : big \in BOOLEAN /\ Place(w, at, big) /\ (big = TRUE <=> AllocOversize(w)) /\ pc[w] = "alloc"
  <2>1. CASE AllocOversize(w)
    <3>1. Place(w, arenaUsed, TRUE) /\ pc[w] = "alloc" BY <2>1 DEF AllocOversize
    <3> QED BY <2>1, <3>1
  <2>2. CASE AllocInChunk(w)
    <3>1. Place(w, cur[w].alloc, FALSE) /\ pc[w] = "alloc" BY <2>2 DEF AllocInChunk
    <3>2. ~AllocOversize(w) BY <2>2, NotOversize
    <3> QED BY <3>1, <3>2
  <2>3. CASE AllocSealing(w)
    <3>1. Place(w, arenaUsed, FALSE) /\ pc[w] = "alloc" BY <2>3 DEF AllocSealing
    <3>2. ~AllocOversize(w) BY <2>3, NotOversize
    <3> QED BY <3>1, <3>2
  <2> QED BY <2>1, <2>2, <2>3
<1>2. claim[w].obj \in Objects BY <1>1 DEF ClaimsOK, ClaimOK, Evacuating
<1>3. /\ arena' = arena \cup {<<at, claim[w].obj>>}
      /\ claim'[w].at = at /\ claim'[w].oversize = big /\ claim'[w].obj = claim[w].obj
      /\ pc'[w] = "copy" /\ UNCHANGED <<header, done, slots, sweep>>
  BY <1>1 DEF Place, DataOK, ClaimSet
<1>4. \A u \in Workers \ {w} : cur'[u] = cur[u] BY OthersStay
<1>5. /\ \A c \in Shared' : at \notin Unscanned(c)
      /\ \A u \in Workers \ {w} : at \notin Unscanned(cur'[u])
  BY <1>3 DEF UnsharedOK, Placed
<1>6. /\ \A c \in Shared : InChunk(c, arena') = InChunk(c, arena)
      /\ \A u \in Workers \ {w} : InChunk(cur[u], arena') = InChunk(cur[u], arena)
  <2>1. PICK copy : copy = <<at, claim[w].obj>> OBVIOUS
  <2>2. arena' = arena \cup {copy} /\ copy[1] = at BY <1>3, <2>1
  <2> QED BY <1>4, <1>5, <2>2, UnseenCopy
<1>7. /\ \A u \in Workers \ {w}, k \in Hands : Held(<<u, k>>)' = Held(<<u, k>>)
      /\ \A i \in Nat : /\ i \in DOMAIN steal <=> i \in DOMAIN steal'
                        /\ i \in DOMAIN steal => steal'[i] = steal[i]
                        => Held(<<i, "steal">>)' = Held(<<i, "steal">>)
  BY <1>6, OthersHold
<1>8. Held(<<w, "claim">>) = SlotsOf(claim[w].obj) BY <1>1, HeldDef
<1>9. Held(<<w, "slots">>)' = Held(<<w, "slots">>) BY <1>3, HeldDef, HeldDefNext
<1>10. Held(<<w, "sweep">>)' = Held(<<w, "sweep">>)
  <2>1. sweep[w] \in Shared BY SharedDef
  <2> QED BY ZenonT(40), <1>3, <1>6, <2>1, HeldDef, HeldDefNext
<1>11. scanning'[w] = scanning[w] => Held(<<w, "aside">>)' = Held(<<w, "aside">>)
  <2>1. \A c \in scanning[w] : c \in Shared BY SharedDef
  <2>2. InChunks(scanning[w], arena') = InChunks(scanning[w], arena) BY <1>6, <2>1 DEF InChunks
  <2> QED BY <2>2, HeldDef, HeldDefNext
<1> QED BY <1>1, <1>2, <1>3, <1>6, <1>7, <1>8, <1>9, <1>10, <1>11

\* The copy is placed apart: its slots stay with its owner until it is shared.
LEMMA OversizeMoves ==
  ASSUME DataOK, ClaimsOK, NEW w \in Workers, Work(w), AllocOversize(w), UnsharedOK'
  PROVE  \E K : Moves(K, {})
<1>1. UNCHANGED <<steal, scanning, cur, sweep>> BY DEF AllocOversize, Place
<1>2. Shared' = Shared BY <1>1, SharedSame
<1>3. /\ UNCHANGED <<header, done>> /\ pc'[w] = "copy"
      /\ arena' = arena \cup {<<claim'[w].at, claim[w].obj>>}
      /\ claim'[w].oversize = TRUE /\ claim'[w].obj = claim[w].obj
      /\ \A u \in Workers \ {w}, k \in Hands : Held(<<u, k>>)' = Held(<<u, k>>)
      /\ \A i \in Nat : Held(<<i, "steal">>)' = Held(<<i, "steal">>)
      /\ Held(<<w, "claim">>) = SlotsOf(claim[w].obj)
      /\ Held(<<w, "slots">>)' = Held(<<w, "slots">>)
      /\ Held(<<w, "sweep">>)' = Held(<<w, "sweep">>)
      /\ Held(<<w, "aside">>)' = Held(<<w, "aside">>)
  BY <1>1, <1>2, AllocEffect
<1>4. claim'[w].at \notin Unscanned(cur[w]) BY <1>1, <1>3 DEF UnsharedOK, Placed
<1>5. Held(<<w, "cur">>)' = Held(<<w, "cur">>)
  <2>1. PICK copy : copy = <<claim'[w].at, claim[w].obj>> OBVIOUS
  <2>2. arena' = arena \cup {copy} /\ copy[1] = claim'[w].at BY <1>3, <2>1
  <2>3. InChunk(cur[w], arena') = InChunk(cur[w], arena) BY <1>4, <2>2, UnseenCopy
  <2> QED BY <1>1, <2>3, HeldDef, HeldDefNext
<1>6. Held(<<w, "claim">>)' = Held(<<w, "claim">>) BY <1>3, HeldDefNext
<1>7. \A k \in Hands : Held(<<w, k>>)' = Held(<<w, k>>) BY <1>3, <1>5, <1>6 DEF Hands
<1> QED BY <1>3, <1>7, KeptMove

\* What is known of what the hands of one worker hold.
LEMMA OwnWork ==
  ASSUME WorkOnce, NEW w \in Workers
  PROVE  /\ \A k \in Hands : \A s \in Held(<<w, k>>) : s \notin done
         /\ \A j, k \in Hands : j # k => \A s : ~ (s \in Held(<<w, j>>) /\ s \in Held(<<w, k>>))
<1>1. \A k \in Hands : <<w, k>> \in Holders BY DEF Hands, Holders
<1>2. \A j, k \in Hands : j # k => <<w, j>> # <<w, k>> OBVIOUS
<1> QED BY <1>1, <1>2 DEF WorkOnce

\* The copy is placed in the open chunk, and its slots are there from now on.
LEMMA InChunkMoves ==
  ASSUME DataOK, ClaimsOK, PiecesApart, RoomOK, WorkOnce, NEW w \in Workers, Work(w), AllocInChunk(w), UnsharedOK'
  PROVE  \E K : Moves(K, {})
<1>1. UNCHANGED <<steal, scanning, sweep>> /\ Fits(w) /\ pc[w] = "alloc" BY DEF AllocInChunk, Place
<1>2. Shared' = Shared BY <1>1, SharedSame
<1>3. ~AllocOversize(w) BY NotOversize
<1>4. PICK o : o = claim[w].obj OBVIOUS
<1>5. /\ UNCHANGED <<header, done>> /\ pc'[w] = "copy" /\ o \in Objects
      /\ arena' = arena \cup {<<claim'[w].at, o>>} /\ claim'[w].oversize = FALSE
      /\ \A u \in Workers \ {w}, k \in Hands : Held(<<u, k>>)' = Held(<<u, k>>)
      /\ \A i \in Nat : Held(<<i, "steal">>)' = Held(<<i, "steal">>)
      /\ Held(<<w, "claim">>) = SlotsOf(o)
      /\ Held(<<w, "slots">>)' = Held(<<w, "slots">>)
      /\ Held(<<w, "sweep">>)' = Held(<<w, "sweep">>)
      /\ Held(<<w, "aside">>)' = Held(<<w, "aside">>)
  BY <1>1, <1>2, <1>3, <1>4, AllocEffect
<1>6. Held(<<w, "claim">>)' = {} BY <1>5, HeldDefNext
<1>7. Need(o) \in Nat \ {0} BY <1>5, NeedType
<1>8. PICK c : c = cur[w] OBVIOUS
<1>9. /\ c.scan \in Nat /\ c.alloc \in Nat /\ c.end \in Nat /\ c \in ChunkSet
      /\ c.scan <= c.alloc /\ c.alloc + Need(o) <= c.end
  BY <1>1, <1>4, <1>8, ChunkTypes, ChunkFields DEF RoomOK, ChunkOK, IsChunk, Fits
<1>10. PICK d : d = [c EXCEPT !.alloc = c.alloc + Need(o)] OBVIOUS
<1>11. cur'[w] = d /\ claim'[w].at = c.alloc
  BY <1>4, <1>8, <1>10 DEF AllocInChunk, Place, DataOK, ClaimSet
<1>12. d.scan = c.scan /\ d.alloc = c.alloc + Need(o)
  <2>1. c.alloc + Need(o) \in Nat BY <1>7, <1>9
  <2> QED BY <1>9, <1>10, <2>1, ChunkFields
<1>13. ASSUME NEW p \in arena PROVE p[1] \in Unscanned(d) <=> p[1] \in Unscanned(c)
  <2>1. Open(w) BY <1>1 DEF Open
  <2>2. Apart(p[1], CopyEnd(p), c.alloc, c.end) BY <1>8, <2>1 DEF RoomOK
  <2>3. p[1] \in Nat /\ Need(p[2]) \in Nat \ {0} BY NeedType DEF DataOK
  <2> QED BY <1>7, <1>9, <1>12, <2>2, <2>3 DEF Apart, CopyEnd, Unscanned
<1>14. PICK new : new = <<c.alloc, o>> OBVIOUS
<1>15. new[1] \in Unscanned(d) /\ new[2] = o /\ arena' = arena \cup {new}
  BY <1>5, <1>7, <1>9, <1>11, <1>12, <1>14 DEF Unscanned
<1>16. \A s : s \in InChunk(d, arena') <=> s \in InChunk(c, arena) \/ s \in SlotsOf(o)
  BY <1>13, <1>15, InChunkMember
<1>17. \A s : s \in Held(<<w, "cur">>)' <=> s \in Held(<<w, "cur">>) \/ s \in Held(<<w, "claim">>)
  BY <1>5, <1>8, <1>11, <1>16, HeldDef, HeldDefNext
<1>18. Held(<<0, "steal">>) = {} /\ Held(<<0, "steal">>)' = {}
  <2>1. 0 \notin DOMAIN steal BY DEF DataOK
  <2> QED BY <1>5, <2>1, HeldDef
<1>19. \A k \in Hands \ {"cur", "claim"} : Held(<<w, k>>)' = Held(<<w, k>>) BY <1>5 DEF Hands
<1>20. /\ {"cur", "claim"} \subseteq Hands /\ \A s \in Held(<<w, "cur">>) : s \notin done
       /\ \A s \in Held(<<w, "claim">>) : s \notin done
  BY OwnWork DEF Hands
<1>21. Passes(w, 0, {"cur", "claim"}, {})
  BY <1>5, <1>6, <1>17, <1>18, <1>19, <1>20 DEF Passes
<1> QED BY <1>5, <1>21, PassesMove

\* W is put where somebody will scan it: aside, or at place n of the list.
PutAside(w, n, W) ==
  /\ n \in Nat
  /\ \A i \in Nat \ {n} : Held(<<i, "steal">>)' = Held(<<i, "steal">>)
  /\ Held(<<n, "steal">>) = {}
  /\ \/ Held(<<w, "aside">>) = {} /\ Held(<<w, "aside">>)' = W /\ Held(<<n, "steal">>)' = {}
     \/ Held(<<w, "aside">>)' = Held(<<w, "aside">>) /\ Held(<<n, "steal">>)' = W

\* A chunk that is set aside takes what is in it along.
LEMMA SetAsideHolds ==
  ASSUME DataOK, NEW w \in Workers, NEW c \in ChunkSet, SetAside(w, c),
         scanning'[w] = scanning[w] => Held(<<w, "aside">>)' = Held(<<w, "aside">>),
         \A i \in Nat : /\ i \in DOMAIN steal <=> i \in DOMAIN steal'
                        /\ i \in DOMAIN steal => steal'[i] = steal[i]
                        => Held(<<i, "steal">>)' = Held(<<i, "steal">>)
  PROVE  \E n : PutAside(w, n, InChunk(c, arena'))
<1>1. CASE scanning[w] = {}
  <2>1. scanning'[w] = {c} /\ UNCHANGED steal BY <1>1 DEF SetAside, DataOK
  <2>2. Held(<<w, "aside">>) = {} BY <1>1, EmptyWork, HeldDef
  <2>3. Held(<<w, "aside">>)' = InChunk(c, arena')
    <3>1. Held(<<w, "aside">>)' = InChunks({c}, arena') BY <2>1, HeldDefNext
    <3>2. InChunks({c}, arena') = InChunk(c, arena') BY EmptyWork
    <3> QED BY <3>1, <3>2
  <2>4. /\ \A i \in Nat : Held(<<i, "steal">>)' = Held(<<i, "steal">>)
        /\ Held(<<0, "steal">>) = {}
    BY <2>1, ListKept
  <2>5. PutAside(w, 0, InChunk(c, arena')) BY <2>2, <2>3, <2>4 DEF PutAside
  <2> QED BY <2>5
<1>2. CASE scanning[w] # {}
  <2>1. scanning' = scanning /\ steal' = Append(steal, ChunkTask(c)) BY <1>2 DEF SetAside
  <2>2. ChunkTask(c) \in TaskSet /\ ChunkTask(c).kind = "chunk" /\ ChunkTask(c).chunk = c
    BY DEF ChunkTask, TaskSet
  <2>3. InTask(ChunkTask(c))' = InChunk(c, arena') BY <2>2 DEF InTask, InChunk, SlotsOf, Unscanned
  <2>4. PICK n \in Nat : /\ \A i \in Nat \ {n} : Held(<<i, "steal">>)' = Held(<<i, "steal">>)
                         /\ Held(<<n, "steal">>) = {} /\ Held(<<n, "steal">>)' = InTask(ChunkTask(c))'
    BY <2>1, <2>2, ListPut
  <2>5. Held(<<w, "aside">>)' = Held(<<w, "aside">>) BY <2>1
  <2>6. PutAside(w, n, InChunk(c, arena')) BY <2>3, <2>4, <2>5 DEF PutAside
  <2> QED BY <2>6
<1> QED BY <1>1, <1>2

\* The unscanned part of the sealed chunk is put aside; the fresh one holds the copy.
LEMMA SealingMoves ==
  ASSUME DataOK, ClaimsOK, PiecesApart, RoomOK, WorkOnce, NEW w \in Workers, Work(w), AllocSealing(w),
         UnsharedOK'
  PROVE  \E K : Moves(K, {})
<1> DEFINE o == claim[w].obj
           top == arenaUsed
           size == IF next[w] > Need(o) THEN next[w] ELSE Need(o)
           old == [cur[w] EXCEPT !.alloc = @ + (cur[w].end - @)]
           fresh == [Chunk(top, size) EXCEPT !.alloc = top + Need(o)]
           new == <<top, o>>
<1>1. /\ pc[w] = "alloc" /\ Place(w, top, FALSE)
      /\ cur' = [cur EXCEPT ![w] = fresh]
      /\ IF cur[w].scan < old.alloc THEN SetAside(w, old) ELSE UNCHANGED <<scanning, steal>>
      /\ UNCHANGED sweep
  BY DEF AllocSealing, Place
<1>2. /\ cur[w].scan \in Nat /\ cur[w].alloc \in Nat /\ cur[w].end \in Nat /\ cur[w] \in ChunkSet
      /\ cur[w].scan <= cur[w].alloc /\ cur[w].alloc <= cur[w].end /\ cur[w].end <= top /\ top \in Nat
  BY ChunkTypes, ChunkFields DEF RoomOK, ChunkOK, IsChunk, DataOK
<1>3. o \in Objects /\ Need(o) \in Nat \ {0}
  <2>1. o \in Objects BY <1>1 DEF ClaimsOK, ClaimOK, Evacuating
  <2> QED BY <2>1, NeedType
<1>4. old \in ChunkSet /\ old.scan = cur[w].scan /\ old.alloc = cur[w].end
  <2>1. cur[w].alloc + (cur[w].end - cur[w].alloc) = cur[w].end BY <1>2
  <2>2. old = [cur[w] EXCEPT !.alloc = cur[w].end] BY <2>1
  <2> HIDE DEF old
  <2> QED BY <1>2, <2>2, ChunkFields
<1>5. fresh.scan = top /\ fresh.alloc = top + Need(o) BY DEF Chunk
<1>6. cur'[w] = fresh BY <1>1 DEF DataOK
<1>7. claim'[w].at = top BY <1>1 DEF Place, DataOK, ClaimSet
<1> HIDE DEF size, old, fresh
<1>8. Shared \subseteq Shared'
  <2>1. CASE cur[w].scan < old.alloc BY <1>1, <1>4, <2>1, SetAsideEffect
  <2>2. CASE ~(cur[w].scan < old.alloc)
    <3>1. UNCHANGED <<steal, scanning, sweep>> BY <1>1, <2>2
    <3> QED BY <3>1, SharedSame
  <2> QED BY <2>1, <2>2
<1>9. ~AllocOversize(w) BY NotOversize
<1>10. /\ UNCHANGED <<header, done>> /\ pc'[w] = "copy"
       /\ claim'[w].oversize = FALSE
       /\ arena' = arena \cup {new}
       /\ \A u \in Workers \ {w}, k \in Hands : Held(<<u, k>>)' = Held(<<u, k>>)
       /\ \A i \in Nat : /\ i \in DOMAIN steal <=> i \in DOMAIN steal'
                         /\ i \in DOMAIN steal => steal'[i] = steal[i]
                         => Held(<<i, "steal">>)' = Held(<<i, "steal">>)
       /\ Held(<<w, "claim">>) = SlotsOf(o)
       /\ Held(<<w, "slots">>)' = Held(<<w, "slots">>)
       /\ Held(<<w, "sweep">>)' = Held(<<w, "sweep">>)
       /\ scanning'[w] = scanning[w] => Held(<<w, "aside">>)' = Held(<<w, "aside">>)
  BY <1>7, <1>8, <1>9, AllocEffect
<1>11. Held(<<w, "claim">>)' = {} BY <1>10, HeldDefNext
<1>12. \A p \in arena : p[1] \in Nat /\ p[1] < top /\ p[1] < CopyEnd(p) /\ CopyEnd(p) \in Nat
  BY <1>2, NeedType DEF DataOK, CopyEnd, PiecesApart
<1>13. Held(<<w, "cur">>)' = SlotsOf(o)
  <2>1. \A p \in arena : p[1] \notin Unscanned(fresh) BY <1>2, <1>3, <1>5, <1>12 DEF Unscanned
  <2>2. new[1] \in Unscanned(fresh) /\ new[2] = o BY <1>2, <1>3, <1>5 DEF Unscanned
  <2>3. \A s : s \in InChunk(fresh, arena') <=> s \in SlotsOf(o)
    <3>1. arena' = arena \cup {new} BY <1>10
    <3> HIDE DEF new, o
    <3> QED BY <2>1, <2>2, <3>1, InChunkMember
  <2>4. InChunk(fresh, arena') = SlotsOf(o) BY <2>3
  <2> QED BY <1>6, <2>4, HeldDefNext
<1>14. InChunk(old, arena') = Held(<<w, "cur">>)
  <2>1. Open(w) BY <1>1 DEF Open
  <2>2. ASSUME NEW p \in arena PROVE p[1] \in Unscanned(old) <=> p[1] \in Unscanned(cur[w])
    <3>1. Apart(p[1], CopyEnd(p), cur[w].alloc, cur[w].end) BY <2>1 DEF RoomOK
    <3> QED BY <1>2, <1>4, <1>12, <3>1 DEF Apart, Unscanned
  <2>3. new[1] \notin Unscanned(old) BY <1>2, <1>4 DEF Unscanned
  <2>4. InChunk(old, arena') = InChunk(old, arena)
    <3>1. arena' = arena \cup {new} BY <1>10
    <3> HIDE DEF new
    <3> QED BY <2>3, <3>1, UnseenCopy
  <2>5. \A s : s \in InChunk(old, arena) <=> s \in InChunk(cur[w], arena)
    BY <2>2, InChunkMember
  <2>6. InChunk(old, arena') = InChunk(cur[w], arena) BY <2>4, <2>5
  <2> QED BY <2>6, HeldDef
<1>15. \E n : PutAside(w, n, Held(<<w, "cur">>))
  <2>1. CASE cur[w].scan < old.alloc
    <3>1. SetAside(w, old) BY <1>1, <2>1
    <3>2. \E n : PutAside(w, n, InChunk(old, arena')) BY <1>4, <1>10, <3>1, SetAsideHolds
    <3> QED BY <1>14, <3>2
  <2>2. CASE ~(cur[w].scan < old.alloc)
    <3>1. UNCHANGED <<scanning, steal>> BY <1>1, <2>2
    <3>2. cur[w].scan >= cur[w].alloc BY <1>2, <1>4, <2>2
    <3>3. Held(<<w, "cur">>) = {} BY <1>2, <3>2, EmptyChunk, HeldDef
    <3>4. /\ \A i \in Nat : Held(<<i, "steal">>)' = Held(<<i, "steal">>)
          /\ Held(<<0, "steal">>) = {}
      BY <1>10, <3>1, ListKept
    <3>5. PutAside(w, 0, Held(<<w, "cur">>)) BY <1>10, <3>1, <3>3, <3>4 DEF PutAside
    <3> QED BY <3>5
  <2> QED BY <2>1, <2>2
<1>16. PICK n : PutAside(w, n, Held(<<w, "cur">>)) BY <1>15
<1>17. \A k \in Hands \ {"cur", "aside", "claim"} : Held(<<w, k>>)' = Held(<<w, k>>) BY <1>10 DEF Hands
<1>18. {"cur", "aside", "claim"} \subseteq Hands BY DEF Hands
<1>19. /\ \A k \in {"cur", "aside", "claim"} : \A s \in Held(<<w, k>>) : s \notin done
       /\ \A s : ~ (s \in Held(<<w, "cur">>) /\ s \in Held(<<w, "aside">>))
       /\ \A s : ~ (s \in Held(<<w, "cur">>) /\ s \in Held(<<w, "claim">>))
       /\ \A s : ~ (s \in Held(<<w, "aside">>) /\ s \in Held(<<w, "claim">>))
  BY <1>18, OwnWork
<1>20. Passes(w, n, {"cur", "aside", "claim"}, {})
  BY <1>10, <1>11, <1>13, <1>16, <1>17, <1>18, <1>19 DEF Passes, PutAside
<1> QED BY <1>10, <1>20, PassesMove

\* The slot at hand is done, and an oversize copy is put aside as a chunk.
LEMMA ShareMoves ==
  ASSUME DataOK, ClaimsOK, CopiesOK, PiecesApart, WorkOnce, NEW w \in Workers, Work(w), Share(w)
  PROVE  \E K : Moves(K, {})
<1> DEFINE o == claim[w].obj
           at == claim[w].at
           c == Filled(at, Need(o))
           copy == <<at, o>>
<1>1. /\ pc[w] = "share"
      /\ IF claim[w].oversize THEN SetAside(w, c) ELSE UNCHANGED <<scanning, steal>>
      /\ claim' = [claim EXCEPT ![w] = NoClaim] /\ pc' = [pc EXCEPT ![w] = "scan"] /\ Forward(w)
      /\ UNCHANGED <<header, arena, cur, sweep>>
  BY DEF Share
<1>2. o \in Objects /\ at \in Nat /\ Need(o) \in Nat \ {0} /\ copy \in arena /\ slots[w].lo < slots[w].hi
  <2>1. o \in Objects /\ at \in Nat /\ copy \in arena /\ slots[w].lo < slots[w].hi
    BY <1>1, ClaimFields DEF ClaimsOK, ClaimOK, Evacuating, Placed, DataOK
  <2> QED BY <2>1, NeedType
<1>3. c.scan = at /\ c.alloc = at + Need(o) /\ c \in ChunkSet BY <1>2 DEF Filled, ChunkSet
<1>4. PICK x : x = <<slots[w].obj, slots[w].lo>> OBVIOUS
<1>5. /\ \A s : s \in Held(<<w, "slots">>) <=> s \in Held(<<w, "slots">>)' \/ s = x
      /\ x \notin Held(<<w, "slots">>)'
      /\ done' = done \cup {x}
  BY <1>1, <1>2, <1>4, SlotDone
<1>6. pc'[w] = "scan" /\ claim'[w].oversize = FALSE BY <1>1 DEF DataOK, NoClaim
<1>7. Held(<<w, "claim">>)' = {} BY <1>6, HeldDefNext
<1>8. Held(<<w, "claim">>) = IF claim[w].oversize THEN SlotsOf(o) ELSE {} BY <1>1, HeldDef
<1>9. copy[1] = at /\ copy[2] = o /\ CopyEnd(copy) = at + Need(o) BY DEF CopyEnd
<1> HIDE DEF c, copy
<1>10. InChunk(c, arena') = SlotsOf(o)
  <2>1. copy[1] \in Unscanned(c) BY <1>2, <1>3, <1>9 DEF Unscanned
  <2>2. ASSUME NEW p \in arena, p # copy PROVE p[1] \notin Unscanned(c)
    <3>1. p[1] \in Nat /\ CopyEnd(p) \in Nat /\ p[1] < CopyEnd(p) BY NeedType DEF DataOK, CopyEnd
    <3>2. Apart(p[1], CopyEnd(p), copy[1], CopyEnd(copy)) BY <1>2, <2>2 DEF PiecesApart
    <3> QED BY <1>2, <1>3, <1>9, <3>1, <3>2 DEF Apart, Unscanned
  <2>3. \A s : s \in InChunk(c, arena') <=> s \in SlotsOf(o)
    BY <1>1, <1>2, <1>9, <2>1, <2>2, InChunkMember
  <2> QED BY <2>3
<1> HIDE DEF o, at
<1>11. /\ \A u \in Workers \ {w}, k \in Hands : Held(<<u, k>>)' = Held(<<u, k>>)
       /\ \A i \in Nat : /\ i \in DOMAIN steal <=> i \in DOMAIN steal'
                         /\ i \in DOMAIN steal => steal'[i] = steal[i]
                         => Held(<<i, "steal">>)' = Held(<<i, "steal">>)
  BY <1>1, SameArena
<1>12. scanning'[w] = scanning[w] => Held(<<w, "aside">>)' = Held(<<w, "aside">>) BY <1>1, HandKept
<1>13. \E n : PutAside(w, n, Held(<<w, "claim">>))
  <2>1. CASE claim[w].oversize
    <3>1. SetAside(w, c) BY <1>1, <2>1
    <3>2. \E n : PutAside(w, n, InChunk(c, arena')) BY <1>3, <1>11, <1>12, <3>1, SetAsideHolds
    <3> QED BY <1>8, <1>10, <2>1, <3>2
  <2>2. CASE ~claim[w].oversize
    <3>1. UNCHANGED <<scanning, steal>> BY <1>1, <2>2
    <3>2. Held(<<w, "claim">>) = {} BY <1>8, <2>2
    <3>3. /\ \A i \in Nat : Held(<<i, "steal">>)' = Held(<<i, "steal">>)
          /\ Held(<<0, "steal">>) = {}
      BY <1>11, <3>1, ListKept
    <3>4. PutAside(w, 0, Held(<<w, "claim">>)) BY <1>12, <3>1, <3>2, <3>3 DEF PutAside
    <3> QED BY <3>4
  <2> QED BY <2>1, <2>2
<1>14. PICK n : PutAside(w, n, Held(<<w, "claim">>)) BY <1>13
<1>15. Held(<<w, "cur">>)' = Held(<<w, "cur">>) /\ Held(<<w, "sweep">>)' = Held(<<w, "sweep">>)
  BY <1>1, HandKept
<1>16. \A k \in Hands \ {"aside", "claim", "slots"} : Held(<<w, k>>)' = Held(<<w, k>>) BY <1>15 DEF Hands
<1>17. {"aside", "claim", "slots"} \subseteq Hands BY DEF Hands
<1>18. /\ \A k \in {"aside", "claim", "slots"} : \A s \in Held(<<w, k>>) : s \notin done
       /\ \A s : ~ (s \in Held(<<w, "slots">>) /\ s \in Held(<<w, "aside">>))
       /\ \A s : ~ (s \in Held(<<w, "slots">>) /\ s \in Held(<<w, "claim">>))
       /\ \A s : ~ (s \in Held(<<w, "aside">>) /\ s \in Held(<<w, "claim">>))
  BY <1>17, OwnWork
<1>19. Passes(w, n, {"aside", "claim", "slots"}, {})
  BY <1>1, <1>5, <1>7, <1>14, <1>16, <1>17, <1>18 DEF Passes, PutAside
<1> QED BY <1>11, <1>19, PassesMove

\* Whatever a worker does, work only passes, is done, or is found.
LEMMA WorkMoves ==
  ASSUME DrainInv, WorkOnce, NEW w \in Workers, Work(w)
  PROVE  \E K, D : Moves(K, D)
<1> USE DEF DrainInv
<1>1. DrainInv' BY WorkKeeps
<1>2. CASE SweepOwn(w) \/ NothingToSteal(w) \/ Quiesce(w) \/ SweepEnd(w) \/ Copy(w) \/ Publish(w)
  <2>1. Moves({}, {}) BY <1>2, QuietMoves
  <2> QED BY <2>1
<1>3. CASE TakeScanning(w) BY <1>3, TakingMoves
<1>4. CASE Steal(w) BY <1>4, StealMoves
<1>5. CASE NextObject(w) BY <1>5, ObjectMoves
<1>6. CASE NextFiller(w) BY <1>6, FillerMoves
<1>7. CASE Split(w) BY <1>7, SplitMoves
<1>8. CASE ScanEnd(w) BY <1>8, ScanEndMoves
<1>9. CASE Follow(w) BY <1>9, FollowMoves
<1>10. CASE Claim(w) BY <1>10, ClaimMoves
<1>11. CASE AllocOversize(w) BY <1>1, <1>11, OversizeMoves
<1>12. CASE AllocInChunk(w) BY <1>1, <1>12, InChunkMoves
<1>13. CASE AllocSealing(w) BY <1>1, <1>13, SealingMoves
<1>14. CASE Share(w) BY <1>14, ShareMoves
<1> QED
  BY <1>2, <1>3, <1>4, <1>5, <1>6, <1>7, <1>8, <1>9, <1>10, <1>11, <1>12, <1>13, <1>14
  DEF Work, Find, Scan, Evacuate

\* At the start all work is in the one task, whose chunk holds the roots.
LEMMA InitWork ==
  ASSUME Init
  PROVE  WorkOnce /\ WorkKept
<1> DEFINE c == Filled(0, RootUsed)
<1>1. /\ \A u \in Workers :
           /\ pc[u] = "drain" /\ cur[u] = Chunk(0, 0) /\ scanning[u] = {} /\ sweep[u] = Chunk(0, 0)
           /\ slots[u] = NoSlots /\ claim[u] = NoClaim
      /\ done = {} /\ header = [o \in Objects |-> IF o \in RootSet THEN "copied" ELSE "normal"]
      /\ steal = IF RootUsed > 0 THEN <<ChunkTask(c)>> ELSE <<>>
      /\ arena = {<<RootAt[i], RootSeq[i]>> : i \in DOMAIN RootSeq}
  BY DEF Init
<1>2. ASSUME NEW h \in Holders, h # <<1, "steal">> PROVE Held(h) = {}
  <2>1. CASE \E i \in Nat : h = <<i, "steal">>
    <3>1. PICK i \in Nat : h = <<i, "steal">> BY <2>1
    <3>2. i \notin DOMAIN steal BY <1>1, <1>2, <3>1
    <3> QED BY <3>1, <3>2, HeldDef
  <2>2. CASE \E u \in Workers, k \in Hands : h = <<u, k>>
    <3>1. PICK u \in Workers, k \in Hands : h = <<u, k>> BY <2>2
    <3>2. Held(<<u, "cur">>) = {} /\ Held(<<u, "sweep">>) = {} BY ZenonT(40), <1>1, HeldDef, EmptyWork
    <3>3. Held(<<u, "aside">>) = {} BY ZenonT(40), <1>1, HeldDef, EmptyWork
    <3>4. Held(<<u, "slots">>) = {} BY <1>1, HeldDef, EmptyWork
    <3>5. Held(<<u, "claim">>) = {}
      <4>1. claim[u].oversize = FALSE /\ pc[u] # "alloc" BY <1>1 DEF NoClaim
      <4> QED BY <4>1, HeldDef
    <3> QED BY <3>1, <3>2, <3>3, <3>4, <3>5 DEF Hands
  <2> QED BY <2>1, <2>2, HolderForms
<1>3. CopiesOK /\ DataOK BY InitCopies, InitTypes
<1>4. ASSUME NEW s \in Held(<<1, "steal">>) PROVE s \in InChunk(c, arena)
  <2>1. 1 \in DOMAIN steal /\ s \in InTask(steal[1]) BY HeldDef
  <2>2. steal = <<ChunkTask(c)>> BY <1>1, <2>1
  <2> QED BY <2>1, <2>2 DEF InTask, ChunkTask
<1>5. ASSUME NEW h \in Holders, NEW s \in Held(h) PROVE header[s[1]] # "normal"
  <2>1. s \in InChunk(c, arena) BY <1>2, <1>4
  <2>2. PICK p \in arena : s \in SlotsOf(p[2]) BY <2>1, InChunkMember
  <2>3. s[1] = p[2] BY <2>2, SlotsOfMember
  <2>4. header[p[2]] = "copied" BY <1>1, <1>3 DEF CopiesOK
  <2> QED BY <2>3, <2>4
<1>6. WorkOnce BY <1>1, <1>2, <1>5 DEF WorkOnce
<1>7. ASSUME NEW o \in Objects, header[o] # "normal", NEW s \in SlotsOf(o) PROVE s \in Held(<<1, "steal">>)
  <2>1. PICK i \in DOMAIN RootSeq : RootSeq[i] = o BY <1>1, <1>7 DEF RootSet
  <2>2. PICK p : p = <<RootAt[i], o>> OBVIOUS
  <2>3. p \in arena BY <1>1, <2>1, <2>2
  <2>4. Len(RootSeq) \in Nat /\ DOMAIN RootSeq = 1..Len(RootSeq) /\ RootUsed \in Nat /\ Need(o) \in Nat \ {0}
    BY InitTypes, NeedType
  <2>5. RootAt[i] \in Nat /\ RootAt[i] + Need(RootSeq[i]) <= RootUsed BY <2>4, RootsApart DEF RootUsed
  <2>6. c.scan = 0 /\ c.alloc = RootUsed BY <2>4 DEF Filled
  <2>7. p[1] \in Unscanned(c) BY <2>1, <2>2, <2>4, <2>5, <2>6 DEF Unscanned
  <2>8. s \in InChunk(c, arena) BY <1>7, <2>2, <2>3, <2>7, InChunkMember
  <2>9. RootUsed > 0 BY <2>1, <2>4, <2>5
  <2>10. steal = <<ChunkTask(c)>> BY <1>1, <2>9
  <2>11. 1 \in DOMAIN steal /\ InTask(steal[1]) = InChunk(c, arena) BY <2>10 DEF InTask, ChunkTask
  <2> QED BY <2>8, <2>11, HeldDef
<1>8. <<1, "steal">> \in Holders BY DEF Holders
<1>9. WorkKept BY <1>7, <1>8 DEF WorkKept
<1> QED BY <1>6, <1>9

\* The work is kept, and each piece of it in one place.
THEOREM WorkIsKept == Spec => [](WorkOnce /\ WorkKept)
<1> DEFINE WorkInv == DrainInv /\ WorkOnce /\ WorkKept
<1>1. Init => WorkInv
  <2>1. Init => DrainInv BY InitTypes, InitCopies, InitRest DEF DrainInv
  <2> QED BY <2>1, InitWork
<1>2. WorkInv /\ [Next]_vars => WorkInv'
  <2> SUFFICES ASSUME WorkInv, [Next]_vars PROVE WorkInv' OBVIOUS
  <2>1. DrainInv' BY WorkKeeps, StutterKeeps DEF Next, Joined
  <2>2. CASE UNCHANGED vars
    <3>1. ASSUME NEW h PROVE Held(h)' = Held(h) BY <2>2 DEF Held, InTask, InRange, InChunk, InChunks, SlotsOf
    <3> QED BY <2>1, <2>2, <3>1 DEF WorkOnce, WorkKept, vars, objVars
  <2>3. CASE \E w \in Workers : Work(w)
    <3>1. PICK w \in Workers : Work(w) BY <2>3
    <3>2. PICK K, D : Moves(K, D) BY <3>1, WorkMoves
    <3>3. DataOK /\ RangesOK /\ ClaimsOK BY DEF DrainInv
    <3>4. (WorkOnce /\ WorkKept)' BY <3>1, <3>2, <3>3, MovesKeep
    <3> QED BY <2>1, <3>4
  <2> QED BY <2>2, <2>3 DEF Next, Joined
<1>3. WorkInv => WorkOnce /\ WorkKept OBVIOUS
<1> HIDE DEF WorkInv
<1> QED BY <1>1, <1>2, <1>3, PTL DEF Spec

\* Work in somebody's hands is in the copies, chunks and ranges that it is about.
LEMMA HeldWhere ==
  ASSUME DataOK, NEW h \in Holders, NEW s \in Held(h)
  PROVE  \/ \E c \in Chunks : s \in InChunk(c, arena)
         \/ \E r \in Ranges : s \in InRange(r)
         \/ \E u \in Workers : s \in SlotsOf(claim[u].obj)
<1>1. CASE \E i \in Nat : h = <<i, "steal">>
  <2>1. PICK i \in DOMAIN steal : s \in InTask(steal[i]) BY <1>1, HeldDef
  <2>2. PICK t : t = steal[i] OBVIOUS
  <2>3. t \in Tasks BY <2>2 DEF Tasks
  <2>4. CASE t.kind = "chunk"
    <3>1. t.chunk \in Chunks BY <2>3, <2>4 DEF Chunks
    <3> QED BY <2>1, <2>2, <2>4, <3>1 DEF InTask
  <2>5. CASE t.kind = "slots"
    <3>1. t.slots \in Ranges BY <2>3, <2>5 DEF Ranges
    <3> QED BY <2>1, <2>2, <2>5, <3>1 DEF InTask
  <2>6. t.kind \in {"chunk", "slots"}
    <3>1. t \in TaskSet BY <2>3, ChunkTypes
    <3> QED BY <3>1 DEF TaskSet
  <2> QED BY <2>4, <2>5, <2>6
<1>2. CASE \E u \in Workers, k \in Hands : h = <<u, k>>
  <2>1. PICK u \in Workers, k \in Hands : h = <<u, k>> BY <1>2
  <2>2. cur[u] \in Chunks /\ sweep[u] \in Chunks /\ (\A c \in scanning[u] : c \in Chunks) BY DEF Chunks
  <2>3. CASE k = "cur" BY <2>1, <2>2, <2>3, HeldDef
  <2>4. CASE k = "aside"
    <3>1. s \in InChunks(scanning[u], arena) BY <2>1, <2>4, HeldDef
    <3> QED BY <2>2, <3>1 DEF InChunks
  <2>5. CASE k = "sweep" BY <2>1, <2>2, <2>5, HeldDef
  <2>6. CASE k = "slots"
    <3>1. slots[u] \in Ranges BY DEF Ranges
    <3> QED BY <2>1, <2>6, <3>1, HeldDef
  <2>7. CASE k = "claim" BY <2>1, <2>7, HeldDef
  <2> QED BY <2>1, <2>3, <2>4, <2>5, <2>6, <2>7 DEF Hands
<1> QED BY <1>1, <1>2, HolderForms

\* No slot is forgotten between the chunks, the ranges and the workers, and none
\* that is final is scanned again (gc.rs, seal_and_replace, drain, scan_slots).
THEOREM SlotsScannedOnceAlways == Spec => []SlotsScannedOnce
<1>1. DrainInv /\ WorkOnce /\ WorkKept => SlotsScannedOnce
  <2> SUFFICES ASSUME DrainInv, WorkOnce, WorkKept PROVE SlotsScannedOnce OBVIOUS
  <2>1. DataOK /\ ClaimsOK /\ CopiesOK BY DEF DrainInv
  <2>2. ASSUME NEW copy \in whole, copy[2] \notin Weak, NEW i \in DOMAIN Body[copy[2]]
        PROVE  \/ <<copy[2], i>> \in done
               \/ \E r \in Ranges : r.obj = copy[2] /\ i \in r.lo..(r.hi - 1)
               \/ \E c \in Chunks : copy[1] \in Unscanned(c)
               \/ \E w \in Workers : claim[w].obj = copy[2]
    <3>1. copy \in arena /\ copy[2] \in Objects BY <2>1 DEF DataOK
    <3>2. header[copy[2]] # "normal"
      <4>1. CASE header[copy[2]] # "copied"
        <5>1. PICK w \in Workers : pc[w] \in {"copy", "publish"} /\ claim[w].obj = copy[2]
          BY <2>1, <3>1, <4>1 DEF CopiesOK
        <5> QED BY <2>1, <5>1 DEF ClaimsOK, ClaimOK, Unpublished
      <4> QED BY <4>1
    <3>3. PICK s : s = <<copy[2], i>> OBVIOUS
    <3>4. s \in SlotsOf(copy[2]) BY <2>2, <3>3 DEF SlotsOf
    <3>5. s \in done \/ \E h \in Holders : s \in Held(h) BY <3>1, <3>2, <3>4 DEF WorkKept
    <3>6. CASE s \in done BY <3>3, <3>6
    <3>7. CASE \E c \in Chunks : s \in InChunk(c, arena)
      <4>1. PICK c \in Chunks, p \in arena : p[1] \in Unscanned(c) /\ s \in SlotsOf(p[2])
        BY <3>7, InChunkMember
      <4>2. p[2] = copy[2] BY <3>4, <4>1, SlotsOfMember
      <4>3. p = copy BY <2>1, <3>1, <4>2 DEF CopiesOK
      <4> QED BY <4>1, <4>3
    <3>8. CASE \E r \in Ranges : s \in InRange(r)
      <4>1. PICK r \in Ranges : s \in {r.obj} \X (r.lo..(r.hi - 1)) BY <3>8 DEF InRange
      <4> QED BY <3>3, <4>1
    <3>9. CASE \E u \in Workers : s \in SlotsOf(claim[u].obj) BY <3>4, <3>9, SlotsOfMember
    <3> QED BY <2>1, <3>5, <3>6, <3>7, <3>8, <3>9, HeldWhere
  <2>3. ASSUME NEW r \in Ranges, NEW i \in r.lo..(r.hi - 1) PROVE <<r.obj, i>> \notin done
    <3>1. <<r.obj, i>> \in InRange(r) BY DEF InRange
    <3>2. CASE \E w \in Workers : r = slots[w]
      <4>1. PICK w \in Workers : r = slots[w] BY <3>2
      <4>2. <<w, "slots">> \in Holders BY DEF Holders
      <4>3. InRange(r) = Held(<<w, "slots">>) BY <4>1, HeldDef
      <4> QED BY <3>1, <4>2, <4>3 DEF WorkOnce
    <3>3. CASE \E t \in Tasks : t.kind = "slots" /\ r = t.slots
      <4>1. PICK t \in Tasks : t.kind = "slots" /\ r = t.slots BY <3>3
      <4>2. PICK j \in DOMAIN steal : t = steal[j] BY DEF Tasks
      <4>3. j \in Nat
        <5>1. steal \in Seq(TaskSet) BY <2>1 DEF DataOK
        <5> QED BY <5>1
      <4>4. <<j, "steal">> \in Holders BY <4>3 DEF Holders
      <4>5. InRange(r) = Held(<<j, "steal">>) BY <4>1, <4>2, HeldDef DEF InTask
      <4> QED BY <3>1, <4>4, <4>5 DEF WorkOnce
    <3> QED BY <3>2, <3>3 DEF Ranges
  <2> QED BY <2>2, <2>3 DEF SlotsScannedOnce
<1> QED BY <1>1, Invariance, WorkIsKept, PTL

-----------------------------------------------------------------------------
(* The drain implements the trace *)

Live == {o \in Objects : header[o] = "copied"}
Over == \E w \in Workers : pc[w] = "exited"

\* What the roots name was copied before the drain, and stays copied.
RootsOK == RootSet \subseteq Live

\* Who has work is counted, so that the last to leave leaves none behind.
LEMMA NobodyBusy ==
  ASSUME DrainInv, busy = 0, NEW h \in Holders, Workers # {}
  PROVE  Held(h) = {}
<1>1. \A w \in Workers : pc[w] \in Idle
  <2> DEFINE B == {w \in Workers : pc[w] \notin Idle}
  <2>1. Cardinality(B) = 0 BY DEF DrainInv, QuietOK
  <2>2. IsFiniteSet(B)
    <3>1. IsFiniteSet(Workers) /\ B \subseteq Workers BY ParDrainAssumption
    <3> QED BY <3>1, FS_Subset
  <2> HIDE DEF B
  <2>3. B = {} BY <2>1, <2>2, FS_EmptySet
  <2> QED BY <2>3 DEF B
<1>2. \A w \in Workers : pc[w] \in Idling /\ pc[w] \notin InSweep BY <1>1 DEF Idle, Idling, InSweep
<1>3. steal = <<>> BY <1>2 DEF DrainInv, QuietOK
<1>4. CASE \E i \in Nat : h = <<i, "steal">>
  <2>1. PICK i \in Nat : h = <<i, "steal">> BY <1>4
  <2>2. i \notin DOMAIN steal BY <1>3
  <2> QED BY <2>1, <2>2, HeldDef
<1>5. CASE \E u \in Workers, k \in Hands : h = <<u, k>>
  <2>1. PICK u \in Workers, k \in Hands : h = <<u, k>> BY <1>5
  <2>2. scanning[u] = {} /\ cur[u].scan >= cur[u].alloc BY <1>2 DEF DrainInv, HandsOK, HandOK
  <2>3. cur[u] \in ChunkSet BY ChunkTypes DEF DrainInv
  <2>4. Held(<<u, "cur">>) = {} BY <2>2, <2>3, EmptyChunk, HeldDef
  <2>5. Held(<<u, "aside">>) = {} BY <2>2, EmptyWork, HeldDef
  <2>6. Held(<<u, "sweep">>) = {} /\ Held(<<u, "slots">>) = {} /\ Held(<<u, "claim">>) = {}
    <3>1. pc[u] \notin InSweep \ {"sweep"} /\ pc[u] \notin Evacuating BY <1>2 DEF InSweep, Evacuating
    <3> QED BY <1>2, <3>1, EmptyHands DEF DrainInv
  <2> QED BY <2>1, <2>4, <2>5, <2>6 DEF Hands
<1> QED BY <1>4, <1>5, HolderForms

\* When nobody is busy what is copied refers to nothing that is not.
LEMMA NobodyBusyClosed ==
  ASSUME DrainInv, WorkKept, busy = 0, Workers # {},
         NEW p \in Live \ Weak, NEW i \in DOMAIN Body[p], Body[p][i] # Null
  PROVE  Body[p][i] \in Live
<1>1. p \in Objects /\ header[p] # "normal" BY DEF Live
<1>2. PICK s : s = <<p, i>> OBVIOUS
<1>3. s \in SlotsOf(p) BY <1>2 DEF SlotsOf
<1>4. s \in done BY <1>1, <1>3, NobodyBusy DEF WorkKept
<1>5. header[Body[p][i]] = "copied" BY <1>2, <1>4 DEF DrainInv, DoneOK
<1>6. Body[p][i] \in Objects BY <1>1, BodyType
<1> QED BY <1>5, <1>6 DEF Live

\* What each step does to what is copied and to whether somebody has returned.
LEMMA LiveStep ==
  ASSUME DrainInv, NEW w \in Workers, Work(w)
  PROVE  \/ Live' = Live /\ Over' = Over
         \/ /\ Publish(w) /\ ~Over /\ ~Over' /\ claim[w].obj \in Objects \ Live
            /\ Live' = Live \cup {claim[w].obj}
            /\ slots[w].obj \in Live \ Weak /\ slots[w].lo \in DOMAIN Body[slots[w].obj]
            /\ claim[w].obj = Body[slots[w].obj][slots[w].lo]
         \/ Exit(w) /\ busy = 0 /\ Over' /\ Live' = Live
<1>1. DataOK BY DEF DrainInv
<1>2. CASE Publish(w)
  <2>1. PICK o : o = claim[w].obj OBVIOUS
  <2>2. /\ pc[w] = "publish" /\ header' = [header EXCEPT ![o] = "copied"] /\ pc' = [pc EXCEPT ![w] = "share"]
    BY <1>2, <2>1 DEF Publish
  <2>3. o \in Objects /\ header[o] = "busy" /\ o = Referent(w) /\ slots[w].lo < slots[w].hi
    BY <2>1, <2>2 DEF DrainInv, ClaimsOK, ClaimOK, Unpublished, Evacuating
  <2>4. Live' = Live \cup {o} BY <1>1, <2>2, <2>3 DEF DataOK, Live
  <2>5. RangeOK(slots[w]) /\ slots[w] \in SlotsSet BY <1>1, <2>2 DEF DrainInv, RangesOK, InSweep, DataOK
  <2>6. slots[w].obj \in Live \ Weak BY <2>5 DEF RangeOK, Live
  <2>7. slots[w].lo \in DOMAIN Body[slots[w].obj]
    BY <2>3, <2>5, SlotsFields, BodyType DEF RangeOK
  <2>8. ~Over
    <3>1. pc[w] \notin Idling \cup {"drain"} BY <2>2 DEF Idling
    <3> QED BY <3>1 DEF DrainInv, QuietOK, Over
  <2>9. ~Over' BY <1>1, <2>2, <2>8 DEF DataOK, Over
  <2> QED BY <1>2, <2>1, <2>3, <2>4, <2>6, <2>7, <2>8, <2>9 DEF Live, Referent
<1>3. CASE Exit(w)
  <2>1. header' = header /\ busy = 0 /\ pc'[w] = "exited" BY <1>1, <1>3 DEF Exit, DataOK, objVars
  <2> QED BY <1>3, <2>1 DEF Live, Over
<1>4. CASE ~Publish(w) /\ ~Exit(w)
  <2>1. pc[w] # "exited" /\ pc'[w] # "exited"
    <3>1. pc \in [Workers -> Places] BY <1>1 DEF DataOK
    <3>2. CASE Find(w) BY <3>1, <3>2 DEF Find, TakeScanning, SweepOwn, Steal, NothingToSteal, Goto
    <3>3. CASE Quiesce(w) BY <1>4, <3>1, <3>3 DEF Quiesce, Leave, Probe, Rejoin, AskAgain, Goto
    <3>4. CASE Scan(w)
      BY <3>1, <3>4 DEF Scan, NextObject, NextFiller, SweepEnd, Split, ScanEnd, Follow, Claim, Goto, Unswept, Scanning
    <3>5. CASE Evacuate(w)
      BY <1>4, <3>1, <3>5 DEF Evacuate, AllocOversize, AllocInChunk, AllocSealing, Copy, Share, Place, Goto
    <3> QED BY <3>2, <3>3, <3>4, <3>5 DEF Work
  <2>2. Over' = Over BY <2>1, OthersStay, <1>1 DEF Over
  <2>3. header' = header \/ Claim(w)
    BY <1>4 DEF Work, Find, TakeScanning, SweepOwn, Steal, NothingToSteal, Quiesce, Leave, Probe, Rejoin,
                AskAgain, Scan, NextObject, NextFiller, SweepEnd, Split, ScanEnd, Follow, Evacuate,
                AllocOversize, AllocInChunk, AllocSealing, Copy, Share, Place, objVars
  <2>4. Live' = Live
    <3>1. CASE header' = header BY <3>1 DEF Live
    <3>2. CASE Claim(w)
      <4>1. header[Referent(w)] = "normal" /\ header' = [header EXCEPT ![Referent(w)] = "busy"] BY <3>2 DEF Claim
      <4> QED BY <1>1, <4>1 DEF Live, DataOK
    <3> QED BY <2>3, <3>1, <3>2
  <2> QED BY <2>2, <2>4
<1> QED BY <1>2, <1>3, <1>4

\* The drain is a trace from the roots: a step publishes the copy of one object
\* that a copied object refers to, or a worker returns and no reference is left
\* to what is not copied, or nothing changes (gc.rs, evacuate_claim, drain).
THEOREM DrainTraces == Spec => ImplementsTrace
<1> DEFINE Inv == DrainInv /\ WorkKept /\ RootsOK
<1>1. Init => RootsOK /\ Traced!Init
  <2> SUFFICES ASSUME Init PROVE RootsOK /\ Traced!Init OBVIOUS
  <2>1. RootSet \subseteq Objects BY InitTypes DEF RootSet
  <2>2. header = [o \in Objects |-> IF o \in RootSet THEN "copied" ELSE "normal"] BY DEF Init
  <2>3. Live = RootSet BY <2>1, <2>2 DEF Live
  <2>4. Over = FALSE BY DEF Over, Init
  <2> QED BY <2>3, <2>4 DEF RootsOK, Traced!Init, Live, Over
<1>2. RootsOK /\ DrainInv /\ [Next]_vars => RootsOK'
  <2> SUFFICES ASSUME RootsOK, DrainInv, [Next]_vars PROVE RootsOK' OBVIOUS
  <2>1. CASE UNCHANGED vars BY <2>1 DEF RootsOK, Live, vars, objVars
  <2>2. CASE \E w \in Workers : Work(w)
    <3>1. PICK w \in Workers : Work(w) BY <2>2
    <3>2. Live \subseteq Live' BY <3>1, LiveStep
    <3> QED BY <3>2 DEF RootsOK
  <2> QED BY <2>1, <2>2 DEF Next, Joined
<1>3. DrainInv /\ WorkKept /\ RootsOK /\ [Next]_vars => [Traced!Next]_Traced!vars
  <2> SUFFICES ASSUME DrainInv, WorkKept, RootsOK, [Next]_vars PROVE [Traced!Next]_Traced!vars OBVIOUS
  <2>1. Live' = Live /\ Over' = Over => UNCHANGED Traced!vars
    BY DEF Traced!vars, Traced!graph, Live, Over
  <2>2. CASE UNCHANGED vars
    <3>1. Live' = Live /\ Over' = Over BY <2>2 DEF Live, Over, vars, objVars
    <3> QED BY <2>1, <3>1
  <2>3. ASSUME NEW w \in Workers, Publish(w), ~Over, ~Over', claim[w].obj \in Objects \ Live,
               Live' = Live \cup {claim[w].obj}, slots[w].obj \in Live \ Weak,
               slots[w].lo \in DOMAIN Body[slots[w].obj], claim[w].obj = Body[slots[w].obj][slots[w].lo]
        PROVE  Traced!Next
    <3>1. PICK p, o : p = slots[w].obj /\ o = claim[w].obj OBVIOUS
    <3>2. o \in (IF p \in Weak THEN {} ELSE ToSet(Body[p]) \ {Null})
      BY <2>3, <3>1, ParDrainAssumption DEF ToSet
    <3>3. p \in Objects BY <2>3, <3>1 DEF Live
    <3>4. Traced!Evacuate(o)
      BY <2>3, <3>1, <3>2, <3>3 DEF Traced!Evacuate, Traced!graph, Live, Over
    <3> QED BY <2>3, <3>1, <3>4 DEF Traced!Next
  <2>4. ASSUME NEW w \in Workers, busy = 0, Over', Live' = Live PROVE Traced!Next
    <3>1. ASSUME NEW p \in Live, NEW r \in (IF p \in Weak THEN {} ELSE ToSet(Body[p]) \ {Null})
          PROVE  r \in Live
      <4>1. p \in Live \ Weak BY <3>1
      <4>2. PICK i \in DOMAIN Body[p] : r = Body[p][i] /\ r # Null BY <3>1, <4>1 DEF ToSet
      <4> QED BY <2>4, <4>1, <4>2, NobodyBusyClosed
    <3>2. Over' = TRUE BY <2>4 DEF Over
    <3>3. \A p \in Live : p \in Objects BY DEF Live
    <3>4. Traced!Finish
      BY <2>4, <3>1, <3>2, <3>3 DEF Traced!Finish, Traced!graph, Live, Over, RootsOK
    <3> QED BY <3>4 DEF Traced!Next
  <2>5. CASE \E w \in Workers : Work(w)
    <3>1. PICK w \in Workers : Work(w) BY <2>5
    <3> QED BY <2>1, <2>3, <2>4, <3>1, LiveStep
  <2> QED BY <2>2, <2>5 DEF Next, Joined
<1>4. Spec => []RootsOK BY <1>1, <1>2, Invariance, PTL DEF Spec
<1> QED BY <1>1, <1>3, <1>4, Invariance, WorkIsKept, PTL DEF Spec, ImplementsTrace, Traced!Spec

-----------------------------------------------------------------------------
(* Copies and fillers tile the arena *)

\* The fillers, and those that the open chunks will get.
Gaps == fillers \cup UNION {Plug(cur[u]) : u \in {v \in Workers : Open(v)}}

StartAt(x) == (\E c \in arena : c[1] = x) \/ (\E f \in Gaps : f[1] = x) \/ x = arenaUsed
EndAt(x) == (\E c \in arena : CopyEnd(c) = x) \/ (\E f \in Gaps : FillerEnd(f) = x) \/ x = 0

\* Where a piece ends the next one starts, up to the frontier.
TilesOK == \A x : StartAt(x) <=> EndAt(x)

\* The gaps, now and after a step.
LEMMA GapsMember ==
  /\ \A f : f \in Gaps <=> f \in fillers \/ \E u \in Workers : Open(u) /\ f \in Plug(cur[u])
  /\ \A f : f \in Gaps' <=> f \in fillers' \/ \E u \in Workers : Open(u)' /\ f \in Plug(cur'[u])
BY DEF Gaps, Plug

\* The plug of a chunk.
LEMMA PlugMember ==
  ASSUME NEW c, NEW f
  PROVE  f \in Plug(c) <=> c.alloc < c.end /\ f = <<c.alloc, c.end - c.alloc>>
BY DEF Plug

\* Nothing is placed, plugged or opened.
LEMMA SameTiles ==
  ASSUME TilesOK, UNCHANGED <<arena, arenaUsed>>, Gaps' = Gaps
  PROVE  TilesOK'
<1>1. \A x : (StartAt(x)' <=> StartAt(x)) /\ (EndAt(x)' <=> EndAt(x)) BY DEF StartAt, EndAt, CopyEnd, FillerEnd
<1> QED BY <1>1 DEF TilesOK

\* The gaps stay if the room of every open chunk does.
LEMMA SameGaps ==
  ASSUME UNCHANGED fillers, \A u \in Workers : Open(u)' <=> Open(u),
         \A u \in Workers : cur'[u].alloc = cur[u].alloc /\ cur'[u].end = cur[u].end
  PROVE  Gaps' = Gaps
<1>1. \A u \in Workers : Plug(cur'[u]) = Plug(cur[u]) BY DEF Plug
<1>2. \A f : f \in Gaps' <=> f \in Gaps BY <1>1, GapsMember
<1> QED BY <1>2

\* The room of a worker that returns is plugged.
LEMMA ExitTiles ==
  ASSUME DataOK, TilesOK, NEW w \in Workers, Exit(w)
  PROVE  TilesOK'
<1>1. /\ pc[w] = "ask" /\ fillers' = fillers \cup Plug(cur[w]) /\ pc' = [pc EXCEPT ![w] = "exited"]
      /\ UNCHANGED <<arena, arenaUsed, cur>>
  BY DEF Exit, workVars
<1>2. Open(w) /\ \A u \in Workers : Open(u)' <=> Open(u) /\ u # w BY <1>1 DEF Open, DataOK
<1>3. \A f : f \in Gaps' <=> f \in Gaps BY <1>1, <1>2, GapsMember
<1>4. Gaps' = Gaps BY <1>3
<1> QED BY <1>1, <1>4, SameTiles

\* A new piece at the frontier, which moves to its end.
LEMMA FrontierTiles ==
  ASSUME TilesOK, NEW new, arena' = arena \cup {new}, new[1] = arenaUsed, Gaps' = Gaps,
         arenaUsed' = CopyEnd(new)
  PROVE  TilesOK'
<1>1. \A x : StartAt(x)' <=> StartAt(x) \/ x = CopyEnd(new) BY DEF StartAt
<1>2. \A x : EndAt(x)' <=> EndAt(x) \/ x = CopyEnd(new) BY DEF EndAt, CopyEnd, FillerEnd
<1> QED BY <1>1, <1>2 DEF TilesOK

\* An oversize copy goes to the frontier.
LEMMA OversizeTiles ==
  ASSUME DataOK, ClaimsOK, TilesOK, NEW w \in Workers, AllocOversize(w)
  PROVE  TilesOK'
<1>1. PICK new : new = <<arenaUsed, claim[w].obj>> OBVIOUS
<1>2. /\ arena' = arena \cup {new} /\ arenaUsed' = arenaUsed + Need(claim[w].obj)
      /\ UNCHANGED <<fillers, cur>> /\ pc[w] = "alloc" /\ pc' = [pc EXCEPT ![w] = "copy"]
  BY <1>1 DEF AllocOversize, Place
<1>3. \A u \in Workers : Open(u)' <=> Open(u) BY <1>2 DEF Open, DataOK
<1>4. Gaps' = Gaps BY <1>2, <1>3, SameGaps
<1>5. new[1] = arenaUsed /\ CopyEnd(new) = arenaUsed + Need(claim[w].obj) BY <1>1 DEF CopyEnd
<1> QED BY <1>2, <1>4, <1>5, FrontierTiles

\* The gaps apart from the open chunk of w.
Others(w) == fillers \cup UNION {Plug(cur[u]) : u \in {v \in Workers \ {w} : Open(v)}}

\* A copy in the open chunk takes the start of its room.
LEMMA InChunkTiles ==
  ASSUME DataOK, ClaimsOK, RoomOK, TilesOK, NEW w \in Workers, Work(w), AllocInChunk(w)
  PROVE  TilesOK'
<1>1. PICK new, c, n : new = <<cur[w].alloc, claim[w].obj>> /\ c = cur[w] /\ n = Need(claim[w].obj) OBVIOUS
<1>2. /\ arena' = arena \cup {new} /\ UNCHANGED <<arenaUsed, fillers>> /\ pc[w] = "alloc"
      /\ pc' = [pc EXCEPT ![w] = "copy"] /\ c.alloc + n <= c.end
      /\ cur' = [cur EXCEPT ![w].alloc = @ + n]
  BY <1>1 DEF AllocInChunk, Place, Fits
<1>3. c \in ChunkSet /\ c.alloc \in Nat /\ c.end \in Nat BY <1>1, ChunkTypes, ChunkFields
<1>4. n \in Nat \ {0}
  <2>1. claim[w].obj \in Objects BY <1>2 DEF ClaimsOK, ClaimOK, Evacuating
  <2> QED BY <1>1, <2>1, NeedType
<1>5. PICK d : d = cur'[w] OBVIOUS
<1>6. d.alloc = c.alloc + n /\ d.end = c.end
  <2>1. d = [c EXCEPT !.alloc = c.alloc + n] BY <1>1, <1>2, <1>5 DEF DataOK
  <2>2. c.alloc + n \in Nat BY <1>3, <1>4
  <2> QED BY <1>3, <2>1, <2>2, ChunkFields
<1>7. Open(w) /\ (\A u \in Workers : Open(u)' <=> Open(u)) /\ \A u \in Workers \ {w} : cur'[u] = cur[u]
  BY <1>2 DEF Open, DataOK
<1>8. PICK Rest : Rest = Others(w) OBVIOUS
<1>9. /\ \A f : f \in Gaps <=> f \in Rest \/ f \in Plug(c)
      /\ \A f : f \in Gaps' <=> f \in Rest \/ f \in Plug(d)
  <2>1. \A f : f \in Rest <=> f \in fillers \/ \E u \in Workers \ {w} : Open(u) /\ f \in Plug(cur[u])
    BY <1>8 DEF Others
  <2> QED BY <1>1, <1>2, <1>5, <1>7, <2>1, GapsMember
<1>10. new[1] = c.alloc /\ CopyEnd(new) = d.alloc BY <1>1, <1>6 DEF CopyEnd
<1>11. PICK g, h : g = <<c.alloc, c.end - c.alloc>> /\ h = <<d.alloc, d.end - d.alloc>> OBVIOUS
<1>12. /\ \A f : f \in Plug(c) <=> f = g
       /\ \A f : f \in Plug(d) <=> d.alloc < d.end /\ f = h
       /\ g[1] = c.alloc /\ h[1] = d.alloc /\ FillerEnd(g) = c.end /\ FillerEnd(h) = c.end
  <2>1. c.alloc < c.end BY <1>2, <1>3, <1>4
  <2>2. g[1] = c.alloc /\ h[1] = d.alloc /\ FillerEnd(g) = c.end /\ FillerEnd(h) = c.end
    BY <1>3, <1>4, <1>6, <1>11 DEF FillerEnd
  <2> QED BY <1>11, <2>1, <2>2, PlugMember
<1>13. ASSUME NEW x PROVE StartAt(x)' <=> EndAt(x)'
  <2> DEFINE S == (\E p \in arena : p[1] = x) \/ (\E f \in Rest : f[1] = x) \/ x = arenaUsed
             E == (\E p \in arena : CopyEnd(p) = x) \/ (\E f \in Rest : FillerEnd(f) = x) \/ x = 0
  <2>1. StartAt(x) <=> S \/ x = c.alloc BY <1>9, <1>12 DEF StartAt
  <2>2. EndAt(x) <=> E \/ x = c.end BY <1>9, <1>12 DEF EndAt
  <2>3. StartAt(x)' <=> S \/ x = c.alloc \/ (d.alloc < d.end /\ x = d.alloc)
    BY <1>2, <1>9, <1>10, <1>12 DEF StartAt
  <2>4. EndAt(x)' <=> E \/ x = d.alloc \/ (d.alloc < d.end /\ x = c.end)
    BY <1>2, <1>9, <1>10, <1>12 DEF EndAt, CopyEnd, FillerEnd
  <2>5. StartAt(x) <=> EndAt(x) BY DEF TilesOK
  <2>6. d.alloc < d.end \/ d.alloc = c.end BY <1>2, <1>3, <1>4, <1>6
  <2> HIDE DEF S, E
  <2> QED BY <1>6, <2>1, <2>2, <2>3, <2>4, <2>5, <2>6
<1> QED BY <1>13 DEF TilesOK

\* A sealed chunk is plugged; the fresh one is at the frontier.
LEMMA SealingTiles ==
  ASSUME DataOK, ClaimsOK, RoomOK, TilesOK, NEW w \in Workers, AllocSealing(w)
  PROVE  TilesOK'
<1> DEFINE o == claim[w].obj
           top == arenaUsed
           size == IF next[w] > Need(o) THEN next[w] ELSE Need(o)
           fresh == [Chunk(top, size) EXCEPT !.alloc = top + Need(o)]
           new == <<top, o>>
<1>1. /\ pc[w] = "alloc" /\ arena' = arena \cup {new} /\ pc' = [pc EXCEPT ![w] = "copy"]
      /\ fillers' = fillers \cup Plug(cur[w])
      /\ arenaUsed' = top + size
      /\ cur' = [cur EXCEPT ![w] = fresh]
  BY DEF AllocSealing, Place
<1>2. o \in Objects /\ Need(o) \in Nat \ {0} /\ top \in Nat
  <2>1. o \in Objects /\ top \in Nat BY <1>1 DEF ClaimsOK, ClaimOK, Evacuating, DataOK
  <2> QED BY <2>1, NeedType
<1>3. size \in Nat /\ Need(o) <= size
  <2>1. next[w] \in Nat BY ParDrainAssumption DEF DataOK
  <2> QED BY <1>2, <2>1
<1>4. fresh.alloc = top + Need(o) /\ fresh.end = top + size BY DEF Chunk
<1>5. cur'[w] = fresh /\ \A u \in Workers \ {w} : cur'[u] = cur[u] BY <1>1 DEF DataOK
<1>6. Open(w) /\ (\A u \in Workers : Open(u)' <=> Open(u)) BY <1>1 DEF Open, DataOK
<1>7. new[1] = top /\ CopyEnd(new) = fresh.alloc BY <1>4 DEF CopyEnd
<1> HIDE DEF o, size, fresh, new
<1>8. \A f : f \in Gaps' <=> f \in Gaps \/ f \in Plug(fresh) BY <1>1, <1>5, <1>6, GapsMember
<1>9. PICK g : g = <<fresh.alloc, fresh.end - fresh.alloc>> OBVIOUS
<1>10. /\ \A f : f \in Plug(fresh) <=> fresh.alloc < fresh.end /\ f = g
       /\ g[1] = fresh.alloc /\ FillerEnd(g) = fresh.end
  <2>1. g[1] = fresh.alloc /\ FillerEnd(g) = fresh.end BY <1>2, <1>3, <1>4, <1>9 DEF FillerEnd
  <2> QED BY <1>9, <2>1, PlugMember
<1>11. fresh.alloc < fresh.end \/ fresh.alloc = fresh.end BY <1>2, <1>3, <1>4
<1>12. ASSUME NEW x PROVE StartAt(x)' <=> EndAt(x)'
  <2>1. StartAt(x)' <=> StartAt(x) \/ (fresh.alloc < fresh.end /\ x = fresh.alloc) \/ x = fresh.end
    BY <1>1, <1>4, <1>7, <1>8, <1>10 DEF StartAt
  <2>2. EndAt(x)' <=> EndAt(x) \/ x = fresh.alloc \/ (fresh.alloc < fresh.end /\ x = fresh.end)
    BY <1>1, <1>7, <1>8, <1>10 DEF EndAt, CopyEnd, FillerEnd
  <2>3. StartAt(x) <=> EndAt(x) BY DEF TilesOK
  <2> QED BY <1>11, <2>1, <2>2, <2>3
<1> QED BY <1>12 DEF TilesOK

\* A step that places and plugs nothing leaves the tiles as they are.
LEMMA OtherTiles ==
  ASSUME DrainInv, TilesOK, NEW w \in Workers, Work(w),
         \/ Find(w) \/ Leave(w) \/ Probe(w) \/ Rejoin(w) \/ AskAgain(w)
         \/ NextObject(w) \/ NextFiller(w) \/ SweepEnd(w) \/ Split(w) \/ ScanEnd(w) \/ Follow(w)
         \/ Claim(w) \/ Copy(w) \/ Publish(w) \/ Share(w)
  PROVE  TilesOK'
<1>1. DataOK /\ RangesOK /\ ClaimsOK /\ RoomOK BY DEF DrainInv
<1>2. CASE Claim(w) \/ Copy(w) \/ Publish(w) \/ Share(w)
  <2>1. UNCHANGED <<arena, arenaUsed, fillers, cur>> /\ pc[w] # "exited" /\ pc'[w] # "exited"
    BY <1>1, <1>2 DEF Claim, Scanning, Copy, Publish, Share, DataOK, arenaVars, workVars
  <2>2. \A u \in Workers : Open(u)' <=> Open(u) BY <1>1, <2>1, OthersStay DEF Open
  <2>3. Gaps' = Gaps BY <2>1, <2>2, SameGaps
  <2> QED BY <2>1, <2>3, SameTiles
<1>3. CASE ~(Claim(w) \/ Copy(w) \/ Publish(w) \/ Share(w))
  <2>1. Plain(w) BY <1>1, <1>3, PlainStep
  <2>2. /\ UNCHANGED <<arena, arenaUsed, fillers>>
        /\ \A u \in Workers : cur'[u].alloc = cur[u].alloc /\ cur'[u].end = cur[u].end
    BY <2>1 DEF Plain, Within
  <2>3. pc[w] # "exited" /\ pc'[w] # "exited" BY <1>1, <2>1 DEF Plain, DataOK
  <2>4. \A u \in Workers : Open(u)' <=> Open(u) BY <1>1, <2>3, OthersStay DEF Open
  <2>5. Gaps' = Gaps BY <2>2, <2>4, SameGaps
  <2> QED BY <2>2, <2>5, SameTiles
<1> QED BY <1>2, <1>3

\* The roots phase left no gap.
LEMMA InitTiles ==
  ASSUME Init
  PROVE  TilesOK
<1>1. PICK n : n = Len(RootSeq) OBVIOUS
<1>2. /\ n \in Nat /\ arena = {<<RootAt[i], RootSeq[i]>> : i \in 1..n} /\ fillers = {} /\ arenaUsed = RootAt[n + 1]
      /\ \A u \in Workers : cur[u] = Chunk(0, 0)
  BY <1>1, InitTypes DEF Init, RootUsed
<1>3. \A f : f \notin Gaps
  <2>1. \A f : f \notin Plug(Chunk(0, 0)) BY DEF Plug, Chunk
  <2> QED BY <1>2, <2>1, GapsMember
<1>4. \A i \in Nat : RootAt[i] = IF i <= 1 THEN 0 ELSE RootAt[i - 1] + Need(RootSeq[i - 1])
  BY RootAtDef
<1>5. RootAt[1] = 0 BY <1>4
<1>6. ASSUME NEW i \in 1..n PROVE RootAt[i + 1] = RootAt[i] + Need(RootSeq[i])
  <2>1. i + 1 \in Nat /\ ~ (i + 1 <= 1) /\ (i + 1) - 1 = i BY <1>2
  <2> QED BY <1>4, <2>1
<1>7. ASSUME NEW x PROVE StartAt(x) <=> EndAt(x)
  <2>1. StartAt(x) <=> (\E i \in 1..n : RootAt[i] = x) \/ RootAt[n + 1] = x
    <3>1. ASSUME NEW c \in arena, c[1] = x PROVE \E i \in 1..n : RootAt[i] = x
      <4>1. PICK i \in 1..n : c = <<RootAt[i], RootSeq[i]>> BY <1>2
      <4> QED BY <3>1, <4>1
    <3>2. ASSUME NEW i \in 1..n, RootAt[i] = x PROVE \E c \in arena : c[1] = x
      <4>1. PICK c : c = <<RootAt[i], RootSeq[i]>> OBVIOUS
      <4> QED BY <1>2, <3>2, <4>1
    <3> QED BY <1>2, <1>3, <3>1, <3>2 DEF StartAt
  <2>2. EndAt(x) <=> (\E i \in 1..n : RootAt[i + 1] = x) \/ x = 0
    <3>1. EndAt(x) <=> (\E c \in arena : c[1] + Need(c[2]) = x) \/ x = 0
      BY <1>3 DEF EndAt, CopyEnd
    <3>2. ASSUME NEW c \in arena, c[1] + Need(c[2]) = x PROVE \E i \in 1..n : RootAt[i + 1] = x
      <4>1. PICK i \in 1..n : c = <<RootAt[i], RootSeq[i]>> BY <1>2
      <4> QED BY <1>6, <3>2, <4>1
    <3>3. ASSUME NEW i \in 1..n, RootAt[i + 1] = x PROVE \E c \in arena : c[1] + Need(c[2]) = x
      <4>1. PICK c : c = <<RootAt[i], RootSeq[i]>> OBVIOUS
      <4>2. c \in arena BY <1>2, <4>1
      <4> QED BY <1>6, <3>3, <4>1, <4>2
    <3> QED BY <3>1, <3>2, <3>3
  <2>3. (\E i \in 1..n : RootAt[i] = x) \/ RootAt[n + 1] = x <=> \E j \in 1..(n + 1) : RootAt[j] = x
    BY <1>2
  <2>4. (\E i \in 1..n : RootAt[i + 1] = x) \/ x = 0 <=> \E j \in 1..(n + 1) : RootAt[j] = x
    <3>1. ASSUME NEW j \in 1..(n + 1), RootAt[j] = x PROVE (\E i \in 1..n : RootAt[i + 1] = x) \/ x = 0
      <4>1. CASE j = 1 BY <1>5, <3>1, <4>1
      <4>2. CASE j # 1
        <5>1. j - 1 \in 1..n /\ (j - 1) + 1 = j BY <1>2, <4>2
        <5> QED BY <3>1, <5>1
      <4> QED BY <4>1, <4>2
    <3>2. ASSUME NEW i \in 1..n, RootAt[i + 1] = x PROVE \E j \in 1..(n + 1) : RootAt[j] = x
      <4>1. i + 1 \in 1..(n + 1) BY <1>2
      <4> QED BY <3>2, <4>1
    <3>3. 1 \in 1..(n + 1) BY <1>2
    <3> QED BY <1>5, <3>1, <3>2, <3>3
  <2> QED BY <2>1, <2>2, <2>3, <2>4
<1> QED BY <1>7 DEF TilesOK

\* No two pieces start at the same place, so that they can be counted.
LEMMA PiecesCounted ==
  ASSUME DataOK, PiecesApart
  PROVE  Cardinality(arena) + Cardinality(fillers) = Cardinality(Starts)
<1> DEFINE A == {c[1] : c \in arena}
           F == {f[1] : f \in fillers}
           a == [c \in arena |-> c[1]]
           b == [f \in fillers |-> f[1]]
<1>1. /\ \A c \in arena : c[1] \in Nat /\ CopyEnd(c) \in Nat /\ c[1] < CopyEnd(c) /\ CopyEnd(c) <= arenaUsed
      /\ \A f \in fillers : f[1] \in Nat /\ FillerEnd(f) \in Nat /\ f[1] < FillerEnd(f) /\ FillerEnd(f) <= arenaUsed
      /\ arenaUsed \in Nat
  BY NeedType DEF DataOK, CopyEnd, FillerEnd, PiecesApart
<1>2. \A c, d \in arena : c[1] = d[1] => c = d BY <1>1 DEF PiecesApart, Apart
<1>3. \A f, g \in fillers : f[1] = g[1] => f = g BY <1>1 DEF PiecesApart, Apart
<1>4. \A c \in arena, f \in fillers : c[1] # f[1] BY <1>1 DEF PiecesApart, Apart
<1>5. IsFiniteSet(A) /\ IsFiniteSet(F)
  <2>1. A \subseteq 0..arenaUsed /\ F \subseteq 0..arenaUsed BY <1>1
  <2>2. IsFiniteSet(0..arenaUsed) BY <1>1, FS_Interval
  <2> QED BY <2>1, <2>2, FS_Subset
<1>6. IsFiniteSet(arena) /\ Cardinality(A) = Cardinality(arena)
  <2>1. a \in Injection(arena, A) BY <1>2 DEF Injection, IsInjective
  <2>2. a \in Surjection(arena, A) BY DEF Surjection
  <2> HIDE DEF a, A
  <2> QED BY <1>5, <2>1, <2>2, FS_Injection
<1>7. IsFiniteSet(fillers) /\ Cardinality(F) = Cardinality(fillers)
  <2>1. b \in Injection(fillers, F) BY <1>3 DEF Injection, IsInjective
  <2>2. b \in Surjection(fillers, F) BY DEF Surjection
  <2> HIDE DEF b, F
  <2> QED BY <1>5, <2>1, <2>2, FS_Injection
<1>8. Starts = A \cup F BY DEF Starts
<1>9. A \cap F = {} BY <1>4
<1>10. Cardinality(A) \in Nat /\ Cardinality(F) \in Nat BY <1>5, FS_CardinalityType
<1> HIDE DEF A, F
<1>11. Cardinality(A \cup F) = Cardinality(A) + Cardinality(F) - Cardinality({})
  BY <1>5, <1>9, FS_Union
<1> QED BY <1>6, <1>7, <1>8, <1>10, <1>11, FS_EmptySet

\* When the workers have returned there is no gap and no overlap between the
\* copies and the fillers below the frontier: the arena can be walked from
\* header to header (gc.rs, seal_and_replace, plug at exit).
THEOREM ArenaTilesAlways == Spec => []ArenaTiles
<1>1. DrainInv /\ TilesOK /\ [Next]_vars => TilesOK'
  <2> SUFFICES ASSUME DrainInv, TilesOK, [Next]_vars PROVE TilesOK' OBVIOUS
  <2>1. CASE UNCHANGED vars
    <3>1. UNCHANGED <<arena, arenaUsed, fillers, cur, pc>> BY <2>1 DEF vars, arenaVars, workVars
    <3>2. Gaps' = Gaps BY <3>1, SameGaps DEF Open
    <3> QED BY <3>1, <3>2, SameTiles
  <2>2. CASE \E w \in Workers : Work(w)
    <3>1. PICK w \in Workers : Work(w) BY <2>2
    <3>2. DataOK /\ ClaimsOK /\ RoomOK BY DEF DrainInv
    <3>3. CASE Exit(w) BY <3>2, <3>3, ExitTiles
    <3>4. CASE AllocOversize(w) BY <3>2, <3>4, OversizeTiles
    <3>5. CASE AllocInChunk(w) BY <3>1, <3>2, <3>5, InChunkTiles
    <3>6. CASE AllocSealing(w) BY <3>2, <3>6, SealingTiles
    <3> QED BY <3>1, <3>3, <3>4, <3>5, <3>6, OtherTiles DEF Work, Quiesce, Scan, Evacuate
  <2> QED BY <2>1, <2>2 DEF Next, Joined
<1>2. DrainInv /\ TilesOK => ArenaTiles
  <2> SUFFICES ASSUME DrainInv, TilesOK, AllExited PROVE Starts \cup {arenaUsed} = Ends \cup {0}
    BY PiecesCounted DEF ArenaTiles, DrainInv
  <2>1. \A f : f \in Gaps <=> f \in fillers BY GapsMember DEF AllExited, Open
  <2>2. \A x : x \in Starts \cup {arenaUsed} <=> StartAt(x) BY <2>1 DEF Starts, StartAt
  <2>3. \A x : x \in Ends \cup {0} <=> EndAt(x) BY <2>1 DEF Ends, EndAt, CopyEnd, FillerEnd
  <2> QED BY <2>2, <2>3 DEF TilesOK
<1> QED BY <1>1, <1>2, InitTiles, Invariance, PTL DEF Spec

-----------------------------------------------------------------------------
(* What the trace comes to *)

\* A step of the trace changes no closed set, keeps what is copied inside
\* each of them, and ends the trace only when that is closed itself.
LEMMA ReachableStep ==
  ASSUME Traced!EvacuatesTheReachable, [Traced!Next]_(Traced!vars)
  PROVE  Traced!EvacuatesTheReachable'
<1> DEFINE F == [o \in Objects |-> IF o \in Weak THEN {} ELSE ToSet(Body[o]) \ {Null}]
<1>1. ASSUME NEW S PROVE Traced!Closed(S)' <=> Traced!Closed(S)
  BY DEF Traced!Closed
<1>2. \/ Live' = Live /\ (Over' <=> Over)
      \/ Live' = Live /\ Traced!Closed(Live)
      \/ /\ ~Over /\ ~Over'
         /\ \E o \in Objects : /\ Live' = Live \cup {o}
                               /\ o \in RootSet \/ \E p \in Live : o \in F[p]
  BY DEF Traced!Next, Traced!Evacuate, Traced!Finish, Traced!vars, Traced!Closed, Live, Over
<1>3. /\ \A S \in SUBSET Objects : Traced!Closed(S) => Live \subseteq S
      /\ Over => Traced!Closed(Live)
  BY DEF Traced!EvacuatesTheReachable, Live, Over
<1>4. ASSUME NEW S \in SUBSET Objects, Traced!Closed(S)' PROVE Live' \subseteq S
  <2>1. Traced!Closed(S) BY <1>1, <1>4
  <2>2. Live \subseteq S BY <1>3, <2>1
  <2>3. RootSet \subseteq S /\ \A p \in S : F[p] \subseteq S BY <2>1 DEF Traced!Closed
  <2>4. PICK G : G = F OBVIOUS
  <2>5. RootSet \subseteq S /\ \A p \in S : G[p] \subseteq S BY <2>3, <2>4
  <2>6. CASE Live' = Live BY <2>2, <2>6
  <2>7. ASSUME NEW o \in Objects, Live' = Live \cup {o}, o \in RootSet \/ \E p \in Live : o \in G[p]
        PROVE  Live' \subseteq S
    <3>1. o \in S BY ONLY <2>2, <2>5, <2>7
    <3> QED BY ONLY <2>2, <2>7, <3>1
  <2> QED BY <1>2, <2>4, <2>6, <2>7
<1>5. ASSUME Over' PROVE Traced!Closed(Live') /\ Live' = Live
  BY <1>2, <1>3, <1>5
<1>6. ASSUME NEW S, S = Live', Over' PROVE Traced!Closed(S)'
  BY <1>1, <1>5, <1>6
<1> QED BY <1>4, <1>6 DEF Traced!EvacuatesTheReachable, Live, Over

\* What is copied is reachable, and when the trace is over it is all that
\* is reachable, without weak references (gc.rs, drain).
THEOREM EvacuatesAlways == Spec => []Traced!EvacuatesTheReachable
<1>1. Traced!Init => Traced!EvacuatesTheReachable
  BY DEF Traced!Init, Traced!EvacuatesTheReachable, Traced!Closed
<1> QED BY <1>1, ReachableStep, DrainTraces, PTL DEF ImplementsTrace, Traced!Spec
=============================================================================
