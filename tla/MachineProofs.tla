---------------------------- MODULE MachineProofs ----------------------------
(***************************************************************************)
(* The side stacks shadow the value stack, for all code objects, stacks of *)
(* any height and any number of collections, and whatever happens in a     *)
(* nested run.                                                             *)
(*                                                                         *)
(* MachineInv is the inductive invariant.  It says of the activations,     *)
(* the side stacks and the Rust frames what each was when the next one was *)
(* begun, and it knows the handler blocks by a sequence bs: the height of  *)
(* each and the activation that owns it.  Steps make bs longer, cut it or  *)
(* leave it alone, as they do with handler_frames_depth.                   *)
(***************************************************************************)
EXTENDS Machine, FiniteSetTheorems, WellFoundedInduction, TLAPS

-----------------------------------------------------------------------------
(* The inductive invariant *)

Address == [c : Codes, p : Places, at : Nat]
Segment == [c : Codes, at : Nat]
Word == {Data, Zero} \cup [k : {"pc"}, pc : Address] \cup [k : {"hsp"}, hsp : Nat]
NestedFrame == [top : Nat, saved : {None} \cup Registered]

DataOK ==
  /\ stack \in Seq(Word)
  /\ pc \in Address /\ seg \in Segment
  /\ frames \in Seq(Segment)
  /\ handlers \in Seq([depth : Nat, c : Codes, at : Nat])
  /\ handlerSp \in Nat
  /\ nest \in Seq(NestedFrame)
  /\ gc \in Nat
  /\ base \in Seq([code : Codes, h : Nat, native : BOOLEAN])

\* The height below the arguments of an activation.
Floor(i) == base[i].h - 2 - Arity[base[i].code]

\* Activations lie on top of each other, the outermost is interpreted, and its
\* return address is zero.
BaseOK ==
  /\ base # <<>> /\ ~base[1].native
  /\ \A i \in DOMAIN base : Floor(i) >= 0 /\ base[i].h <= Height
  /\ \A i, j \in DOMAIN base : i < j => base[i].h <= Floor(j)
  /\ stack[base[1].h - 1] = Zero

\* The code bounds of the interpreted activations, and that a return address
\* is in the bounds that the return restores.
SegsOK ==
  /\ Len(frames) = Interpreted - 1
  /\ SegOf(pc) = seg
  /\ \A i \in DOMAIN base : ~base[i].native => SegAt(i).c = base[i].code
  /\ \A i \in DOMAIN base : ~base[i].native /\ stack[base[i].h - 1] # Zero =>
       /\ i > 1 /\ ~base[i - 1].native
       /\ stack[base[i].h - 1].k = "pc"
       /\ SegOf(stack[base[i].h - 1].pc) = frames[Rank(i) - 1]

\* The runs of the interpreter below the current one.
Outer == IF Native THEN Len(nest) - 1 ELSE Len(nest)
Caller(j) == nest[j].saved.caller
LastOf(j) == IF j <= Outer THEN Caller(j) ELSE Len(base)

\* What the Rust frame of a region's caller saved, and what it finds when the
\* callee's run has ended.
FrameOK(j) ==
  /\ Caller(j) \in 1 .. Len(base) - 1 /\ ~base[Caller(j) + 1].native
  /\ stack[base[Caller(j) + 1].h - 1] = Zero
  /\ SegOf(nest[j].saved.pc) = nest[j].saved.seg
  /\ nest[j].saved.depth = Rank(Caller(j)) - 1
  /\ nest[j].saved.seg.c = frames[Rank(Caller(j))].c

\* The native activations from the root of the region to the l-th.
RootOK(j, l) ==
  \E r \in 2 .. l : /\ base[r].h = nest[j].top + 2 /\ ~base[r - 1].native
                    /\ \A k \in r .. l : base[k].native

NestOK ==
  /\ \A j \in DOMAIN nest : (nest[j].saved # None <=> j <= Outer)
  /\ ~Native => ~base[Len(base)].native
  /\ \A j \in 1 .. Outer : FrameOK(j)
  /\ \A i, j \in 1 .. Outer : i < j => Caller(i) < Caller(j)
  /\ \A j \in DOMAIN nest : RootOK(j, LastOf(j))

\* How many handlers there were when a run was begun.
Cut(j) == IF j = 0 THEN 0 ELSE nest[j].saved.hdepth
Register(bs, j, n) == IF n = Cut(j) THEN 0 ELSE bs[n].h

\* A block x with its n-th entry on the side stack and its owner.
BlockOK(x, n) ==
  /\ x.h \in DOMAIN stack /\ stack[x.h].k = "pc" /\ stack[x.h - 1].k = "hsp"
  /\ SegOf(stack[x.h].pc) = [c |-> handlers[n].c, at |-> handlers[n].at]
  /\ x.own \in DOMAIN base /\ ~base[x.own].native
  /\ base[x.own].code = handlers[n].c
  /\ handlers[n].depth = Rank(x.own) - 1
  /\ x.h > base[x.own].h + 1
  /\ \A i \in DOMAIN base : i > x.own => x.h <= Floor(i)

BlocksOK(bs) ==
  /\ bs \in Seq([h : Nat, own : Nat]) /\ Len(bs) = Len(handlers)
  /\ \A n \in DOMAIN bs : BlockOK(bs[n], n)
  /\ \A m, n \in DOMAIN bs : m < n => bs[m].h < bs[n].h

\* The chain of each run: the register leads to its last block, and each block
\* to the one before.
ChainsOK(bs) ==
  /\ \A i, j \in 0 .. Outer : i < j => Cut(i) <= Cut(j)
  /\ \A j \in 1 .. Outer :
       /\ Cut(j) <= Len(bs)
       /\ nest[j].saved.handlerSp = Register(bs, j - 1, Cut(j))
       /\ \A n \in DOMAIN bs : n <= Cut(j) <=> bs[n].own <= Caller(j)
  /\ \A n \in DOMAIN bs :
       stack[bs[n].h - 1].hsp = IF \E j \in 0 .. Outer : Cut(j) = n - 1 THEN 0 ELSE bs[n - 1].h

\* Only region_interp_call's own stack overflow leaves the register hidden.
RegisterOK(bs) ==
  handlerSp = Register(bs, Outer, Len(bs)) \/ (status # "running" /\ flight \in HardErrors)

\* Whether a run is going on, and whether native code is raising.
Live == status \in {"running", "raising", "escaped"}
PhaseOK == (status = "raising" => Native) /\ (status = "escaped" => ~Native)

MachineInv ==
  Live => /\ DataOK /\ BaseOK /\ SegsOK /\ NestOK /\ PhaseOK
          /\ \E bs : BlocksOK(bs) /\ ChainsOK(bs) /\ RegisterOK(bs)
-----------------------------------------------------------------------------
(* Induction, in a form that its users can instantiate *)

\* A set of naturals has a least element.
LEMMA Least ==
  ASSUME NEW T, T \subseteq Nat, T # {}
  PROVE  \E x \in T : \A y \in T : x <= y
<1>1. IsWellFoundedOn({p \in Nat \X Nat : p[1] < p[2]}, Nat)
  BY NatLessThanWellFounded, Zenon DEF OpToRel
<1>2. PICK x \in T : \A y \in T : <<y, x>> \notin {p \in Nat \X Nat : p[1] < p[2]}
  BY <1>1, WFMin, Zenon
<1>3. ASSUME NEW y \in T PROVE x <= y
  <2>1. <<y, x>> \in Nat \X Nat /\ <<y, x>>[1] = y /\ <<y, x>>[2] = x BY SMT
  <2>2. <<y, x>> \notin {p \in Nat \X Nat : p[1] < p[2]} BY <1>2, Zenon
  <2>3. ~ (y < x) BY <2>1, <2>2, Zenon
  <2> QED BY <2>3
<1> QED BY <1>3

\* A set that holds 0 and every successor holds every natural.
LEMMA Counting ==
  ASSUME NEW S, 0 \in S, \A n \in Nat : n \in S => n+1 \in S
  PROVE Nat \subseteq S
<1> SUFFICES ASSUME Nat \ S # {} PROVE FALSE OBVIOUS
<1>1. PICK x \in Nat \ S : \A y \in Nat \ S : x <= y BY Least
<1>2. x # 0 BY <1>1
<1>3. x-1 \in Nat /\ x-1 \in S BY <1>1, <1>2
<1>4. (x-1)+1 \in S BY <1>3
<1> QED BY <1>1, <1>2, <1>4

\* The recursion that follows a chain down has a solution, so that its equation
\* holds.
LEMMA ChainDef == Chain = [h \in Nat |-> IF h = 0 THEN {} ELSE {h} \cup Chain[Saved(h)]]
<1> DEFINE D(h) == Saved(h)
           Upto(f, n) == f = [h \in 0..n |-> IF h = 0 THEN {} ELSE {h} \cup f[D(h)]]
<1>0. \A h \in Nat : h > 0 => D(h) \in 0..(h - 1) BY DEF Saved
<1> HIDE DEF D
<1>1. ASSUME NEW n \in Nat, NEW m \in Nat, n <= m, NEW f, NEW g, Upto(f, n), Upto(g, m),
             NEW x \in 0..n
      PROVE  f[x] = g[x]
  <2> DEFINE T == {i \in 0..n : f[i] # g[i]}
  <2> SUFFICES ASSUME T # {} PROVE FALSE OBVIOUS
  <2>1. PICK i \in T : \A j \in T : i <= j
    <3>1. T \subseteq Nat OBVIOUS
    <3> HIDE DEF T
    <3> QED BY <3>1, Least
  <2>2. i \in 0..n /\ i \in 0..m /\ f[i] # g[i] BY <1>1, <2>1
  <2>3. i > 0 => D(i) \in 0..n /\ D(i) \notin T BY <1>0, <2>1, <2>2
  <2>4. i > 0 => f[D(i)] = g[D(i)] BY <2>3
  <2>5. f[i] = IF i = 0 THEN {} ELSE {i} \cup f[D(i)] BY <1>1, <2>2
  <2>6. g[i] = IF i = 0 THEN {} ELSE {i} \cup g[D(i)] BY <1>1, <2>2
  <2> QED BY <2>2, <2>4, <2>5, <2>6
<1>2. ASSUME NEW n \in Nat PROVE \E f : Upto(f, n)
  <2> DEFINE S == {k \in Nat : \E f : Upto(f, k)}
  <2>1. 0 \in S
    <3>1. Upto([i \in 0..0 |-> {}], 0) OBVIOUS
    <3> QED BY <3>1
  <2>2. ASSUME NEW k \in Nat, k \in S PROVE k + 1 \in S
    <3>1. PICK f : Upto(f, k) BY <2>2
    <3> DEFINE v == {k + 1} \cup f[D(k + 1)]
               h == [i \in 0..(k + 1) |-> IF i = k + 1 THEN v ELSE f[i]]
    <3>2. ASSUME NEW i \in 0..(k + 1)
          PROVE  h[i] = IF i = 0 THEN {} ELSE {i} \cup h[D(i)]
      <4>1. i > 0 => D(i) \in 0..(i - 1) BY <1>0
      <4>2. i > 0 => h[D(i)] = f[D(i)] BY <4>1
      <4>3. CASE i = k + 1
        <5>1. i > 0 /\ i # 0 BY <4>3
        <5>2. h[i] = v BY <4>3
        <5>3. h[D(i)] = f[D(k + 1)] BY <4>2, <4>3, <5>1
        <5> HIDE DEF h
        <5> QED BY <4>3, <5>1, <5>2, <5>3
      <4>4. CASE i # k + 1
        <5>1. i \in 0..k BY <4>4
        <5>2. f[i] = IF i = 0 THEN {} ELSE {i} \cup f[D(i)] BY <3>1, <5>1
        <5>3. h[i] = f[i] BY <4>4
        <5> HIDE DEF h
        <5>4. CASE i = 0 BY <5>2, <5>3, <5>4
        <5>5. CASE i > 0
          <6>1. f[i] = {i} \cup f[D(i)] BY <5>2, <5>5
          <6>2. h[D(i)] = f[D(i)] BY <4>2, <5>5
          <6>3. h[i] = {i} \cup h[D(i)] BY ONLY <5>3, <6>1, <6>2
          <6> QED BY <5>5, <6>3
        <5> QED BY <5>4, <5>5
      <4> QED BY <4>3, <4>4
    <3> HIDE DEF v
    <3>3. Upto(h, k + 1) BY <3>2
    <3> HIDE DEF h, Upto
    <3> QED BY <3>3
  <2> HIDE DEF S
  <2>3. Nat \subseteq S BY <2>1, <2>2, Counting
  <2> QED BY <2>3 DEF S
<1> DEFINE F(n) == CHOOSE f : Upto(f, n)
           R == [i \in Nat |-> F(i)[i]]
<1>3. ASSUME NEW n \in Nat PROVE Upto(F(n), n) BY <1>2
<1> HIDE DEF F
<1>4. ASSUME NEW i \in Nat PROVE R[i] = IF i = 0 THEN {} ELSE {i} \cup R[D(i)]
  <2>1. i \in 0..i BY <1>4
  <2>2. F(i)[i] = IF i = 0 THEN {} ELSE {i} \cup F(i)[D(i)] BY <1>3, <2>1
  <2>3. i > 0 => D(i) \in Nat /\ D(i) <= i BY <1>0
  <2>4. i > 0 => F(D(i))[D(i)] = F(i)[D(i)]
    <3> HIDE DEF Upto
    <3> SUFFICES ASSUME i > 0 PROVE F(D(i))[D(i)] = F(i)[D(i)] OBVIOUS
    <3>1. Upto(F(D(i)), D(i)) /\ Upto(F(i), i) BY <1>3, <2>3
    <3>2. D(i) \in 0..D(i) BY <2>3
    <3> QED BY <3>1, <3>2, <2>3, <1>1
  <2>5. R[i] = F(i)[i] /\ (i > 0 => R[D(i)] = F(D(i))[D(i)]) BY <2>3
  <2> HIDE DEF R
  <2>6. CASE i = 0 BY <2>2, <2>5, <2>6
  <2>7. CASE i > 0
    <3>1. R[i] = {i} \cup F(i)[D(i)] BY <2>2, <2>5, <2>7
    <3> QED BY <2>4, <2>5, <2>7, <3>1
  <2> QED BY <2>6, <2>7
<1>5. R = [i \in Nat |-> IF i = 0 THEN {} ELSE {i} \cup R[D(i)]] BY <1>4
<1> HIDE DEF R, Upto
<1>6. \E f : f = [i \in Nat |-> IF i = 0 THEN {} ELSE {i} \cup f[Saved(i)]] BY <1>5 DEF D
<1>7. Chain = CHOOSE f : f = [i \in Nat |-> IF i = 0 THEN {} ELSE {i} \cup f[Saved(i)]]
  BY DEF Chain
<1> QED BY <1>6, <1>7

\* The same, for one height.
LEMMA ChainStep == Chain[0] = {} /\ \A h \in Nat : h > 0 => Chain[h] = {h} \cup Chain[Saved(h)]
<1> DEFINE D(h) == Saved(h)
<1>1. Chain = [h \in Nat |-> IF h = 0 THEN {} ELSE {h} \cup Chain[D(h)]] BY ChainDef
<1> HIDE DEF D
<1>2. \A h \in Nat : Chain[h] = IF h = 0 THEN {} ELSE {h} \cup Chain[D(h)]
  <2> PICK c : c = Chain OBVIOUS
  <2>1. c = [h \in Nat |-> IF h = 0 THEN {} ELSE {h} \cup c[D(h)]] BY <1>1
  <2>2. \A h \in Nat : c[h] = IF h = 0 THEN {} ELSE {h} \cup c[D(h)] BY ONLY <2>1
  <2> QED BY <2>2
<1>3. Chain[0] = {} BY <1>2
<1>4. ASSUME NEW h \in Nat, h > 0 PROVE Chain[h] = {h} \cup Chain[D(h)]
  <2>1. h # 0 BY <1>4
  <2> QED BY <1>2, <2>1, Zenon
<1> QED BY <1>3, <1>4 DEF D

-----------------------------------------------------------------------------
(* Sequences and words *)

\* The elements of a sequence.
LEMMA Elements ==
  ASSUME NEW S, NEW s \in Seq(S)
  PROVE  Len(s) \in Nat /\ DOMAIN s = 1..Len(s) /\ \A i \in 1..Len(s) : s[i] \in S
OBVIOUS

\* The first elements of a sequence.
LEMMA Prefix ==
  ASSUME NEW S, NEW s \in Seq(S), NEW t \in 0..Len(s)
  PROVE  /\ SubSeq(s, 1, t) \in Seq(S) /\ Len(SubSeq(s, 1, t)) = t
         /\ DOMAIN SubSeq(s, 1, t) = 1..t
         /\ \A i \in 1..t : SubSeq(s, 1, t)[i] = s[i]
<1>1. t \in Nat /\ Len(s) \in Nat /\ t <= Len(s) OBVIOUS
<1>2. SubSeq(s, 1, t) \in Seq(S)
  <2>1. \A i \in 1..t : s[i] \in S OBVIOUS
  <2> QED BY <1>1, <2>1
<1>3. Len(SubSeq(s, 1, t)) = t BY <1>1
<1>4. \A i \in 1..t : SubSeq(s, 1, t)[i] = s[i] BY <1>1
<1> QED BY <1>2, <1>3, <1>4

\* A sequence and one more element, and one fewer.
LEMMA Appended ==
  ASSUME NEW S, NEW s \in Seq(S), NEW e \in S
  PROVE  /\ Append(s, e) \in Seq(S) /\ Len(Append(s, e)) = Len(s) + 1
         /\ \A i \in 1..Len(s) : Append(s, e)[i] = s[i]
         /\ Append(s, e)[Len(s) + 1] = e
OBVIOUS

LEMMA Shortened ==
  ASSUME NEW S, NEW s \in Seq(S), Len(s) > 0
  PROVE  /\ Front(s) \in Seq(S) /\ Len(Front(s)) = Len(s) - 1
         /\ \A i \in 1..(Len(s) - 1) : Front(s)[i] = s[i]
         /\ Last(s) = s[Len(s)] /\ Last(s) \in S
<1>1. PICK t : t = Len(s) - 1 OBVIOUS
<1>2. t \in 0..Len(s) BY <1>1
<1>3. Front(s) = SubSeq(s, 1, t) BY <1>1 DEF Front
<1>4. /\ Front(s) \in Seq(S) /\ Len(Front(s)) = t /\ \A i \in 1..t : Front(s)[i] = s[i]
  BY <1>2, <1>3, Prefix
<1>5. Last(s) = s[Len(s)] /\ Last(s) \in S BY DEF Last
<1> QED BY <1>1, <1>4, <1>5

LEMMA Replaced ==
  ASSUME NEW S, NEW s \in Seq(S), NEW q \in 1..Len(s), NEW e \in S
  PROVE  /\ [s EXCEPT ![q] = e] \in Seq(S) /\ Len([s EXCEPT ![q] = e]) = Len(s)
         /\ [s EXCEPT ![q] = e][q] = e
         /\ \A i \in 1..Len(s) : i # q => [s EXCEPT ![q] = e][i] = s[i]
<1>1. Len(s) \in Nat /\ DOMAIN s = 1..Len(s) /\ \A i \in 1..Len(s) : s[i] \in S BY Elements
<1>2. [s EXCEPT ![q] = e] \in [1..Len(s) -> S] BY <1>1
<1> QED BY <1>1, <1>2

\* The machine's sequences, their lengths and their elements.
DataFacts ==
  /\ Height \in Nat /\ DOMAIN stack = 1..Height /\ Len(stack) = Height
  /\ \A i \in 1..Height : stack[i] \in Word
  /\ Len(base) \in Nat /\ DOMAIN base = 1..Len(base)
  /\ \A i \in 1..Len(base) :
       /\ base[i].code \in Codes /\ base[i].h \in Nat /\ base[i].native \in BOOLEAN
       /\ Arity[base[i].code] \in Nat /\ Floor(i) \in Int
       /\ Floor(i) = base[i].h - 2 - Arity[base[i].code]
  /\ Len(frames) \in Nat /\ DOMAIN frames = 1..Len(frames)
  /\ \A i \in 1..Len(frames) : frames[i] \in Segment
  /\ Len(handlers) \in Nat /\ DOMAIN handlers = 1..Len(handlers)
  /\ \A i \in 1..Len(handlers) :
       /\ handlers[i] \in [depth : Nat, c : Codes, at : Nat]
       /\ handlers[i].depth \in Nat /\ handlers[i].c \in Codes /\ handlers[i].at \in Nat
  /\ Len(nest) \in Nat /\ DOMAIN nest = 1..Len(nest)
  /\ \A j \in 1..Len(nest) : nest[j] \in NestedFrame

LEMMA DataKnown == DataOK => DataFacts
<1> SUFFICES ASSUME DataOK PROVE DataFacts OBVIOUS
<1>1. stack \in Seq(Word) /\ frames \in Seq(Segment) /\ nest \in Seq(NestedFrame)
      /\ handlers \in Seq([depth : Nat, c : Codes, at : Nat])
      /\ base \in Seq([code : Codes, h : Nat, native : BOOLEAN])
  BY DEF DataOK
<1>2. /\ Len(base) \in Nat /\ DOMAIN base = 1..Len(base)
      /\ \A i \in 1..Len(base) : base[i] \in [code : Codes, h : Nat, native : BOOLEAN]
  BY <1>1, Elements
<1>3. ASSUME NEW i \in 1..Len(base)
      PROVE  /\ base[i].code \in Codes /\ base[i].h \in Nat /\ base[i].native \in BOOLEAN
             /\ Arity[base[i].code] \in Nat /\ Floor(i) \in Int
             /\ Floor(i) = base[i].h - 2 - Arity[base[i].code]
  <2>1. base[i].code \in Codes /\ base[i].h \in Nat /\ base[i].native \in BOOLEAN BY <1>2
  <2>2. Arity[base[i].code] \in Nat BY <2>1, MachineConstants
  <2> QED BY <2>1, <2>2 DEF Floor
<1>4. /\ Len(handlers) \in Nat /\ DOMAIN handlers = 1..Len(handlers)
      /\ \A i \in 1..Len(handlers) : handlers[i] \in [depth : Nat, c : Codes, at : Nat]
  BY <1>1, Elements
<1>5. /\ Len(stack) \in Nat /\ DOMAIN stack = 1..Len(stack)
      /\ \A i \in 1..Len(stack) : stack[i] \in Word
  BY <1>1, Elements
<1>6. /\ Len(frames) \in Nat /\ DOMAIN frames = 1..Len(frames)
      /\ \A i \in 1..Len(frames) : frames[i] \in Segment
  BY <1>1, Elements
<1>7. /\ Len(nest) \in Nat /\ DOMAIN nest = 1..Len(nest)
      /\ \A j \in 1..Len(nest) : nest[j] \in NestedFrame
  BY <1>1, Elements
<1> QED BY <1>2, <1>3, <1>4, <1>5, <1>6, <1>7 DEF Height, DataFacts

-----------------------------------------------------------------------------
(* What the invariant says of the blocks *)

\* The runs and the cuts are counted by naturals.
LEMMA CutsKnown ==
  ASSUME DataOK, NestOK
  PROVE  /\ Len(nest) \in Nat /\ DOMAIN nest = 1..Len(nest)
         /\ Outer \in Nat /\ Outer <= Len(nest)
         /\ \A j \in 1..Outer : nest[j].saved \in Registered
         /\ \A j \in 0..Outer : Cut(j) \in Nat
<1>1. /\ nest \in Seq(NestedFrame) /\ Len(nest) \in Nat /\ DOMAIN nest = 1..Len(nest)
      /\ \A j \in 1..Len(nest) : nest[j] \in NestedFrame
  BY DataKnown DEF DataFacts, DataOK
<1>2. Outer \in Nat /\ Outer <= Len(nest)
  <2>1. nest # <<>> => Len(nest) > 0 BY <1>1
  <2> QED BY <1>1, <2>1 DEF Outer, Native
<1>3. ASSUME NEW j \in 1..Outer PROVE nest[j].saved \in Registered
  <2>1. j \in DOMAIN nest BY <1>1, <1>2
  <2>2. nest[j] \in NestedFrame BY <1>1, <2>1
  <2>3. nest[j].saved # None BY <2>1 DEF NestOK
  <2> QED BY <2>2, <2>3 DEF NestedFrame
<1>4. ASSUME NEW j \in 0..Outer PROVE Cut(j) \in Nat
  <2>1. j # 0 => j \in 1..Outer BY <1>2
  <2> QED BY <1>3, <2>1 DEF Cut, Registered
<1> QED BY <1>1, <1>2, <1>3, <1>4

\* Blocks are at heights above the first word.
LEMMA BlockKnown ==
  ASSUME DataOK, NEW bs, BlocksOK(bs)
  PROVE  /\ Len(bs) \in Nat /\ DOMAIN bs = 1..Len(bs) /\ bs \in Seq([h : Nat, own : Nat])
         /\ \A n \in 1..Len(bs) :
              bs[n].h \in Nat /\ bs[n].h > 1 /\ bs[n].h <= Height /\ bs[n].own \in Nat
<1>1. bs \in Seq([h : Nat, own : Nat]) /\ Len(bs) \in Nat /\ DOMAIN bs = 1..Len(bs) BY DEF BlocksOK
<1>2. ASSUME NEW n \in 1..Len(bs)
      PROVE  bs[n].h \in Nat /\ bs[n].h > 1 /\ bs[n].h <= Height /\ bs[n].own \in Nat
  <2>1. bs[n] \in [h : Nat, own : Nat] BY <1>1, Elements
  <2>2. BlockOK(bs[n], n) BY <1>1 DEF BlocksOK
  <2>3. bs[n].h \in 1..Height BY <2>2, DataKnown DEF DataFacts, BlockOK
  <2>4. base[bs[n].own].h \in Nat BY <2>2, DataKnown DEF DataFacts, BlockOK
  <2>5. bs[n].h > base[bs[n].own].h + 1 BY <2>2 DEF BlockOK
  <2> QED BY <2>1, <2>3, <2>4, <2>5
<1> QED BY <1>1, <1>2

\* The chain from a block are the blocks of its run up to it.
LEMMA ChainOfRun ==
  ASSUME DataOK, NestOK, NEW bs, BlocksOK(bs), ChainsOK(bs), NEW j \in 0..Outer,
         NEW n \in 1..Len(bs), Cut(j) < n, j # Outer => n <= Cut(j + 1)
  PROVE  Chain[bs[n].h] = {bs[m].h : m \in (Cut(j) + 1)..n}
<1> DEFINE Run(k) == {bs[m].h : m \in (Cut(j) + 1)..k}
           Good(k) == Chain[bs[k].h] = Run(k)
           T == {k \in 1..n : Cut(j) < k /\ ~ Good(k)}
<1>1. Cut(j) \in Nat /\ Outer \in Nat /\ Len(bs) \in Nat /\ DOMAIN bs = 1..Len(bs)
  BY CutsKnown, BlockKnown
<1>2. n \in 1..n BY <1>1
<1>3. SUFFICES ASSUME T # {} PROVE FALSE BY <1>2
<1> HIDE DEF Good
<1>4. PICK k \in T : \A i \in T : k <= i
  <2>1. T \subseteq Nat BY <1>1
  <2> HIDE DEF T
  <2> QED BY <1>3, <2>1, Least
<1>5. k \in Nat /\ Cut(j) < k /\ k <= n /\ k \in 1..Len(bs) /\ ~ Good(k) BY <1>1, <1>4
<1>6. k - 1 > Cut(j) => Good(k - 1)
  <2> SUFFICES ASSUME k - 1 > Cut(j) PROVE Good(k - 1) OBVIOUS
  <2>1. k - 1 \in 1..n /\ ~ (k <= k - 1) BY <1>1, <1>5
  <2> QED BY <1>4, <2>1
<1>7. bs[k].h \in Nat /\ bs[k].h > 1 BY <1>5, BlockKnown
<1>8. Chain[bs[k].h] = {bs[k].h} \cup Chain[Saved(bs[k].h)] BY <1>7, ChainStep
<1>9. stack[bs[k].h - 1].hsp = IF \E i \in 0..Outer : Cut(i) = k - 1 THEN 0 ELSE bs[k - 1].h
  BY <1>1, <1>5 DEF ChainsOK
<1>10. CASE k - 1 = Cut(j)
  <2>1. Saved(bs[k].h) = 0 BY <1>7, <1>9, <1>10 DEF Saved
  <2>2. Chain[bs[k].h] = {bs[k].h} BY <1>8, <2>1, ChainStep
  <2>3. (Cut(j) + 1)..k = {k} BY <1>1, <1>5, <1>10
  <2>4. Run(k) = {bs[k].h} BY <2>3
  <2>5. Good(k) BY <2>2, <2>4 DEF Good
  <2> QED BY <1>5, <2>5
<1>11. CASE k - 1 # Cut(j)
  <2>1. k - 1 \in 1..Len(bs) /\ k - 1 > Cut(j) BY <1>1, <1>5, <1>11
  <2>2. ~ \E i \in 0..Outer : Cut(i) = k - 1
    <3> SUFFICES ASSUME NEW i \in 0..Outer, Cut(i) = k - 1 PROVE FALSE OBVIOUS
    <3>1. CASE i < j
      <4>1. Cut(i) <= Cut(j) BY <3>1 DEF ChainsOK
      <4> QED BY <2>1, <4>1, <1>1, <1>5
    <3>2. CASE i = j BY <3>2, <1>11
    <3>3. CASE i > j
      <4>1. j # Outer /\ j + 1 \in 0..Outer /\ (i = j + 1 \/ j + 1 < i) BY <3>3, <1>1
      <4>2. n <= Cut(j + 1) BY <4>1
      <4>3. Cut(j + 1) <= Cut(i) BY <4>1, CutsKnown DEF ChainsOK
      <4>4. Cut(i) \in Nat /\ Cut(j + 1) \in Nat /\ n \in Nat BY <1>1, <4>1, CutsKnown
      <4>5. Cut(i) = k - 1 /\ k <= n BY <1>5
      <4> QED BY <4>2, <4>3, <4>4, <4>5, <1>5
    <3> QED BY <3>1, <3>2, <3>3, <1>1
  <2>3. bs[k - 1].h < bs[k].h
    <3>1. PICK i : i = k - 1 OBVIOUS
    <3>2. i \in DOMAIN bs /\ k \in DOMAIN bs /\ i < k BY <1>1, <1>5, <2>1, <3>1
    <3> QED BY <3>1, <3>2 DEF BlocksOK
  <2>4. bs[k - 1].h \in Nat BY <2>1, BlockKnown
  <2>5. Saved(bs[k].h) = bs[k - 1].h BY <1>7, <1>9, <2>2, <2>3, <2>4 DEF Saved
  <2>6. Chain[bs[k].h] = {bs[k].h} \cup Run(k - 1) BY <1>6, <1>8, <2>1, <2>5 DEF Good
  <2>7. (Cut(j) + 1)..k = {k} \cup (Cut(j) + 1)..(k - 1) BY <1>1, <1>5
  <2>8. Run(k) = {bs[k].h} \cup Run(k - 1) BY <2>7
  <2>9. Good(k) BY <2>6, <2>8 DEF Good
  <2> QED BY <1>5, <2>9
<1> QED BY <1>10, <1>11

\* The handler blocks of the stack are those that the invariant knows.
LEMMA BlocksKnown ==
  ASSUME DataOK, NestOK, NEW bs, BlocksOK(bs), ChainsOK(bs),
         handlerSp = Register(bs, Outer, Len(bs))
  PROVE  Blocks = {bs[n].h : n \in 1..Len(bs)}
<1>1. Outer \in Nat /\ \A j \in 0..Outer : Cut(j) \in Nat BY CutsKnown
<1>2. Len(bs) \in Nat /\ DOMAIN bs = 1..Len(bs) BY BlockKnown
<1>3. \A j \in 1..Outer : Cut(j) <= Len(bs) BY DEF ChainsOK
<1>4. Cut(Outer) \in Nat /\ Cut(Outer) <= Len(bs) BY <1>1, <1>2, <1>3 DEF Cut
<1>5. Chain[0] = {} BY ChainStep
<1>6. Chain[handlerSp] = {bs[m].h : m \in (Cut(Outer) + 1)..Len(bs)}
  <2>1. CASE Len(bs) = Cut(Outer)
    <3>1. handlerSp = 0 BY <2>1 DEF Register
    <3>2. (Cut(Outer) + 1)..Len(bs) = {} BY <1>2, <1>4, <2>1
    <3> QED BY <1>5, <3>1, <3>2
  <2>2. CASE Len(bs) # Cut(Outer)
    <3>1. handlerSp = bs[Len(bs)].h BY <2>2 DEF Register
    <3>2. PICK n : n = Len(bs) OBVIOUS
    <3>3. n \in 1..Len(bs) /\ Cut(Outer) < n /\ Outer \in 0..Outer BY <1>1, <1>2, <1>4, <2>2, <3>2
    <3>4. PICK o : o = Outer OBVIOUS
    <3>5. o \in 0..Outer BY <3>3, <3>4
    <3>6. Cut(o) < n BY <3>3, <3>4
    <3>7. o # Outer => n <= Cut(o + 1) BY <3>4
    <3>8. n \in 1..Len(bs) BY <3>3
    <3>9. Chain[bs[n].h] = {bs[m].h : m \in (Cut(o) + 1)..n}
      BY SMTT(40), <3>5, <3>6, <3>7, <3>8, ChainOfRun
    <3> QED BY <3>1, <3>2, <3>4, <3>9
  <2> QED BY <2>1, <2>2
<1>7. ASSUME NEW j \in 1..Outer
      PROVE  Chain[nest[j].saved.handlerSp] = {bs[m].h : m \in (Cut(j - 1) + 1)..Cut(j)}
  <2>1. j - 1 \in 0..Outer /\ j \in 0..Outer /\ j - 1 < j /\ j - 1 # Outer /\ (j - 1) + 1 = j BY <1>1
  <2>2. nest[j].saved.handlerSp = Register(bs, j - 1, Cut(j)) BY DEF ChainsOK
  <2>3. Cut(j - 1) <= Cut(j) /\ Cut(j) \in Nat /\ Cut(j - 1) \in Nat BY <1>1, <2>1 DEF ChainsOK
  <2>4. CASE Cut(j) = Cut(j - 1)
    <3>1. nest[j].saved.handlerSp = 0 BY <2>2, <2>4 DEF Register
    <3>2. (Cut(j - 1) + 1)..Cut(j) = {} BY <2>3, <2>4
    <3> QED BY <1>5, <3>1, <3>2
  <2>5. CASE Cut(j) # Cut(j - 1)
    <3>1. nest[j].saved.handlerSp = bs[Cut(j)].h BY <2>2, <2>5 DEF Register
    <3> HIDE DEF Cut
    <3>2. PICK i : i = j - 1 OBVIOUS
    <3>3. i \in 0..Outer /\ i # Outer /\ i + 1 = j BY <2>1, <3>2
    <3>4. PICK n : n = Cut(j) OBVIOUS
    <3>5. n \in 1..Len(bs) /\ Cut(i) < n /\ n <= Cut(i + 1)
      BY <1>1, <1>2, <1>3, <2>3, <2>5, <3>2, <3>3, <3>4
    <3>6. Chain[bs[n].h] = {bs[m].h : m \in (Cut(i) + 1)..n}
      BY SMTT(40), <3>3, <3>5, ChainOfRun
    <3> QED BY <3>1, <3>2, <3>4, <3>6
  <2> QED BY <2>4, <2>5
<1>8. {i \in DOMAIN nest : nest[i].saved # None} = 1..Outer BY CutsKnown DEF NestOK
<1>9. ASSUME NEW n \in 1..Len(bs), ~ (Cut(Outer) < n)
      PROVE  \E j \in 1..Outer : n \in (Cut(j - 1) + 1)..Cut(j)
  <2> DEFINE T == {j \in 0..Outer : n <= Cut(j)}
  <2>1. Outer \in T BY <1>1, <1>4, <1>9
  <2>2. PICK j \in T : \A i \in T : j <= i
    <3>1. T \subseteq Nat BY <1>1
    <3> HIDE DEF T
    <3> QED BY <2>1, <3>1, Least
  <2>3. j # 0 BY <2>2 DEF Cut
  <2>4. j \in 1..Outer /\ j - 1 \in 0..Outer BY <1>1, <2>2, <2>3
  <2>5. j - 1 \notin T BY <1>1, <2>2, <2>4
  <2>6. Cut(j - 1) < n /\ n <= Cut(j) BY <1>1, <1>2, <2>2, <2>4, <2>5
  <2> QED BY <1>1, <2>4, <2>6
<1> DEFINE C(j) == Chain[nest[j].saved.handlerSp]
<1>10. Blocks = Chain[handlerSp] \cup UNION {C(j) : j \in 1..Outer}
  BY <1>8 DEF Blocks
<1>11. ASSUME NEW h PROVE h \in Blocks <=> \E n \in 1..Len(bs) : h = bs[n].h
  <2>1. h \in Blocks <=> \/ \E m \in (Cut(Outer) + 1)..Len(bs) : h = bs[m].h
                         \/ \E j \in 1..Outer : \E m \in (Cut(j - 1) + 1)..Cut(j) : h = bs[m].h
    <3>1. h \in Chain[handlerSp] <=> \E m \in (Cut(Outer) + 1)..Len(bs) : h = bs[m].h BY <1>6
    <3>2. \A j \in 1..Outer : h \in C(j) <=> \E m \in (Cut(j - 1) + 1)..Cut(j) : h = bs[m].h BY <1>7
    <3> HIDE DEF C
    <3>3. h \in Blocks <=> h \in Chain[handlerSp] \/ \E j \in 1..Outer : h \in C(j) BY <1>10
    <3> QED BY <3>1, <3>2, <3>3
  <2>2. \A m \in (Cut(Outer) + 1)..Len(bs) : m \in 1..Len(bs) BY <1>2, <1>4
  <2>3. ASSUME NEW j \in 1..Outer, NEW m \in (Cut(j - 1) + 1)..Cut(j) PROVE m \in 1..Len(bs)
    <3>1. j - 1 \in 0..Outer /\ j \in 0..Outer BY <1>1
    <3>2. Cut(j) \in Nat /\ Cut(j - 1) \in Nat BY <1>1, <3>1
    <3> QED BY <1>2, <1>3, <3>2
  <2>4. ASSUME NEW n \in 1..Len(bs), h = bs[n].h PROVE h \in Blocks
    <3>1. CASE Cut(Outer) < n
      <4>1. n \in (Cut(Outer) + 1)..Len(bs) BY <1>2, <1>4, <3>1
      <4> QED BY <2>1, <2>4, <4>1
    <3>2. CASE ~ (Cut(Outer) < n) BY <1>9, <2>1, <2>4, <3>2
    <3> QED BY <3>1, <3>2
  <2> QED BY <2>1, <2>2, <2>3, <2>4
<1> QED BY <1>11

\* Counting the blocks below the n-th.
LEMMA BlocksBelow ==
  ASSUME NEW bs, DataOK, BlocksOK(bs), NEW n \in 0..Len(bs)
  PROVE  /\ IsFiniteSet({bs[m].h : m \in 1..n})
         /\ Cardinality({bs[m].h : m \in 1..n}) = n
<1> DEFINE f == [m \in 1..n |-> bs[m].h]
           S == {bs[m].h : m \in 1..n}
<1>1. Len(bs) \in Nat /\ DOMAIN bs = 1..Len(bs) /\ \A m \in 1..Len(bs) : bs[m].h \in Nat
  BY BlockKnown
<1>2. \A i, j \in 1..n : f[i] = f[j] => i = j
  <2> SUFFICES ASSUME NEW i \in 1..n, NEW j \in 1..n, f[i] = f[j], i < j PROVE FALSE BY <1>1
  <2>1. i \in DOMAIN bs /\ j \in DOMAIN bs BY <1>1
  <2>2. bs[i].h < bs[j].h BY <2>1 DEF BlocksOK
  <2> QED BY <1>1, <2>1, <2>2
<1>3. f \in Bijection(1..n, S) BY <1>2 DEF Bijection, Injection, Surjection, IsInjective
<1>4. IsFiniteSet(1..n) /\ Cardinality(1..n) = n
  <2>1. n \in Nat BY <1>1
  <2> QED BY <2>1, FS_Interval
<1> HIDE DEF f, S
<1>5. ExistsBijection(1..n, S) BY <1>3 DEF ExistsBijection
<1>6. IsFiniteSet(S) /\ Cardinality(S) = n BY <1>4, <1>5, FS_Bijection
<1> QED BY <1>6 DEF S

\* The n-th of the heights is that of the n-th block.
LEMMA NthKnown ==
  ASSUME NEW bs, DataOK, BlocksOK(bs), NEW n \in 1..Len(bs)
  PROVE  Nth({bs[m].h : m \in 1..Len(bs)}, n) = bs[n].h
<1> DEFINE S == {bs[m].h : m \in 1..Len(bs)}
<1>1. Len(bs) \in Nat /\ DOMAIN bs = 1..Len(bs) /\ \A m \in 1..Len(bs) : bs[m].h \in Nat
  BY BlockKnown
<1>2. ASSUME NEW k \in 1..Len(bs)
      PROVE  Cardinality({y \in S : y < bs[k].h}) = k - 1
  <2>1. \A m \in 1..Len(bs) : bs[m].h < bs[k].h <=> m < k
    <3> SUFFICES ASSUME NEW m \in 1..Len(bs) PROVE bs[m].h < bs[k].h <=> m < k OBVIOUS
    <3>1. m < k => bs[m].h < bs[k].h BY <1>1 DEF BlocksOK
    <3>2. k < m => bs[k].h < bs[m].h BY <1>1 DEF BlocksOK
    <3> QED BY <1>1, <3>1, <3>2
  <2>2. {y \in S : y < bs[k].h} = {bs[m].h : m \in 1..(k - 1)} BY <1>1, <2>1
  <2>3. k - 1 \in 0..Len(bs) BY <1>1
  <2> QED BY <2>2, <2>3, BlocksBelow
<1>3. bs[n].h \in S /\ Cardinality({y \in S : y < bs[n].h}) = n - 1 BY <1>2
<1>4. ASSUME NEW x \in S, Cardinality({y \in S : y < x}) = n - 1 PROVE x = bs[n].h
  <2>1. PICK k \in 1..Len(bs) : x = bs[k].h OBVIOUS
  <2>2. k - 1 = n - 1 BY <1>2, <1>4, <2>1
  <2> QED BY <1>1, <2>1, <2>2
<1> HIDE DEF S
<1>5. Nth(S, n) = bs[n].h BY <1>3, <1>4 DEF Nth
<1> QED BY <1>5 DEF S

\* While the machine runs, the side stacks shadow the value stack.
LEMMA ShadowFollows == MachineInv => SideStacksShadow
<1> SUFFICES ASSUME MachineInv, status = "running" PROVE SideStacksShadow
  BY DEF SideStacksShadow
<1>1. DataOK /\ BaseOK /\ SegsOK /\ NestOK BY DEF MachineInv, Live
<1>2. PICK bs : BlocksOK(bs) /\ ChainsOK(bs) /\ RegisterOK(bs) BY DEF MachineInv, Live
<1>3. Blocks = {bs[n].h : n \in 1..Len(bs)} BY <1>1, <1>2, BlocksKnown DEF RegisterOK
<1>4. Len(bs) \in Nat /\ DOMAIN bs = 1..Len(bs) /\ Len(bs) = Len(handlers)
      /\ DOMAIN handlers = 1..Len(handlers)
  BY <1>1, <1>2, BlockKnown, DataKnown DEF DataFacts, BlocksOK
<1>5. Len(handlers) = Cardinality(Blocks)
  <2>1. Len(bs) \in 0..Len(bs) BY <1>4
  <2> QED BY <1>1, <1>2, <1>3, <1>4, <2>1, BlocksBelow
<1>6. ASSUME NEW n \in DOMAIN handlers
      PROVE  LET h == Nth(Blocks, n) IN
             /\ SegOf(stack[h].pc) = [c |-> handlers[n].c, at |-> handlers[n].at]
             /\ \E i \in DOMAIN base : h \in BlocksIn(Blocks, i) /\ Rank(i) = handlers[n].depth + 1
  <2>1. n \in 1..Len(bs) /\ BlockOK(bs[n], n) BY <1>2, <1>4 DEF BlocksOK
  <2>2. Nth(Blocks, n) = bs[n].h BY <1>1, <1>2, <1>3, <2>1, NthKnown
  <2>3. PICK x : x = bs[n].h OBVIOUS
  <2>4. PICK i : i = bs[n].own OBVIOUS
  <2>5. /\ SegOf(stack[x].pc) = [c |-> handlers[n].c, at |-> handlers[n].at]
        /\ i \in DOMAIN base /\ handlers[n].depth = Rank(i) - 1 /\ x > base[i].h + 1
        /\ \A k \in DOMAIN base : k > i => x <= Floor(k)
    BY <2>1, <2>3, <2>4 DEF BlockOK
  <2>6. x \in Nat /\ x <= Height BY <1>1, <1>2, <2>1, <2>3, BlockKnown
  <2>7. DOMAIN base = 1..Len(base) /\ Len(base) \in Nat /\ base[i].h \in Nat
    BY <1>1, <2>5, DataKnown DEF DataFacts
  <2>8. x <= Ceiling(i)
    <3>1. i # Len(base) => i + 1 \in DOMAIN base /\ i + 1 > i BY <2>5, <2>7
    <3> QED BY <2>5, <2>6, <3>1 DEF Ceiling, Floor
  <2>9. x \in BlocksIn(Blocks, i) BY <1>3, <2>1, <2>3, <2>5, <2>6, <2>7, <2>8 DEF BlocksIn
  <2>10. handlers[n].depth \in Nat BY <1>1, <1>4, DataKnown DEF DataFacts
  <2>11. Rank(i) = handlers[n].depth + 1
    <3>1. Rank(i) \in Nat
      <4>1. IsFiniteSet(1..i) BY <2>5, <2>7, FS_Interval
      <4>2. {j \in 1..i : ~base[j].native} \in SUBSET (1..i) OBVIOUS
      <4>3. IsFiniteSet({j \in 1..i : ~base[j].native}) BY <4>1, <4>2, FS_Subset
      <4> QED BY <4>3, FS_CardinalityType DEF Rank
    <3> QED BY <2>5, <2>10, <3>1
  <2> QED BY <2>2, <2>3, <2>5, <2>9, <2>11
<1>7. Len(frames) = Interpreted - 1 BY <1>1 DEF SegsOK
<1> QED BY <1>5, <1>6, <1>7 DEF SideStacksShadow

-----------------------------------------------------------------------------
(* What a step keeps *)

\* How many interpreted activations there are up to one.
RankFacts ==
  /\ Rank(0) = 0
  /\ \A i \in Nat : Rank(i) \in Nat /\ Rank(i + 1) = Rank(i) + (IF base[i + 1].native THEN 0 ELSE 1)
  /\ \A i, j \in Nat : i <= j => Rank(i) <= Rank(j)
  /\ \A i, j \in Nat : i < j /\ ~base[j].native => Rank(i) < Rank(j)
  /\ \A j \in Nat : 0 < j /\ ~base[j].native => Rank(j) >= 1

LEMMA RankKnown == RankFacts
<1> DEFINE R(i) == {j \in 1..i : ~base[j].native}
<1>1. ASSUME NEW i \in Nat PROVE IsFiniteSet(R(i)) /\ Cardinality(R(i)) \in Nat
  <2>1. IsFiniteSet(1..i) BY FS_Interval
  <2>2. R(i) \in SUBSET (1..i) OBVIOUS
  <2> HIDE DEF R
  <2> QED BY <2>1, <2>2, FS_Subset, FS_CardinalityType
<1>2. Rank(0) = 0
  <2>1. R(0) = {} OBVIOUS
  <2> QED BY <2>1, FS_EmptySet DEF Rank
<1>3. ASSUME NEW i \in Nat
      PROVE  Rank(i + 1) = Rank(i) + (IF base[i + 1].native THEN 0 ELSE 1)
  <2>1. CASE base[i + 1].native
    <3>1. R(i + 1) = R(i) BY <2>1
    <3>2. Rank(i) = Cardinality(R(i)) /\ Rank(i + 1) = Cardinality(R(i + 1)) BY DEF Rank
    <3> HIDE DEF R
    <3> QED BY <1>1, <2>1, <3>1, <3>2
  <2>2. CASE ~base[i + 1].native
    <3>1. R(i + 1) = R(i) \cup {i + 1} /\ i + 1 \notin R(i) BY <2>2
    <3>2. Cardinality(R(i) \cup {i + 1}) = Cardinality(R(i)) + 1
      <4> HIDE DEF R
      <4> QED BY <1>1, <3>1, FS_AddElement
    <3>3. Rank(i) = Cardinality(R(i)) /\ Rank(i + 1) = Cardinality(R(i + 1)) BY DEF Rank
    <3> HIDE DEF R
    <3> QED BY <1>1, <2>2, <3>1, <3>2, <3>3
  <2> QED BY <2>1, <2>2
<1>4. ASSUME NEW i \in Nat, NEW j \in Nat, i <= j PROVE Rank(i) <= Rank(j)
  <2>1. R(i) \in SUBSET R(j) BY <1>4
  <2>2. Cardinality(R(i)) <= Cardinality(R(j))
    <3> HIDE DEF R
    <3> QED BY <1>1, <2>1, FS_Subset
  <2> QED BY <2>2 DEF Rank
<1>5. ASSUME NEW i \in Nat, NEW j \in Nat, i < j, ~base[j].native PROVE Rank(i) < Rank(j)
  <2>1. PICK k : k = j - 1 OBVIOUS
  <2>2. k \in Nat /\ k + 1 = j /\ i <= k BY <1>5, <2>1
  <2>3. Rank(j) = Rank(k) + 1 BY <1>3, <1>5, <2>2
  <2>4. Rank(i) <= Rank(k) BY <1>4, <2>2
  <2>5. Rank(i) \in Nat /\ Rank(k) \in Nat BY <1>1, <2>2 DEF Rank
  <2> QED BY <2>3, <2>4, <2>5
<1>6. \A i \in Nat : Rank(i) \in Nat BY <1>1 DEF Rank
<1>7. ASSUME NEW j \in Nat, 0 < j, ~base[j].native PROVE Rank(j) >= 1
  <2>1. Rank(0) < Rank(j) BY <1>5, <1>7
  <2> QED BY <1>2, <1>6, <2>1
<1> QED BY <1>2, <1>3, <1>4, <1>5, <1>6, <1>7 DEF RankFacts

LEMMA RankNext == RankFacts'
<1>1. RankFacts BY RankKnown
<1> QED BY <1>1, PTL

\* The words up to a height, and some of the activations, stay.
Keeps(m, b) ==
  /\ m \in 0..Height /\ m <= Len(stack') /\ b \in 0..Len(base) /\ b <= Len(base')
  /\ \A i \in 1..m : stack'[i] = stack[i]
  /\ \A i \in 1..b : base'[i] = base[i]

LEMMA RankKept ==
  ASSUME NEW m, NEW b \in Nat, Keeps(m, b), NEW i \in 0..b
  PROVE  Rank(i)' = Rank(i)
<1>1. \A j \in 1..i : base'[j] = base[j] BY DEF Keeps
<1>2. {j \in 1..i : ~base'[j].native} = {j \in 1..i : ~base[j].native} BY <1>1
<1> QED BY <1>2 DEF Rank

LEMMA FloorKept ==
  ASSUME NEW m, NEW b \in Nat, Keeps(m, b), NEW i \in 1..b
  PROVE  Floor(i)' = Floor(i)
BY DEF Keeps, Floor

\* The same of the next state.
LEMMA DataNext == DataOK' => DataFacts'
<1>1. DataOK => DataFacts BY DataKnown
<1> QED BY <1>1, PTL

\* How activations lie, the transitive facts spelled out.
BaseFacts ==
  /\ base # <<>> /\ Len(base) >= 1
  /\ ~base[1].native /\ stack[base[1].h - 1] = Zero
  /\ \A i \in 1..Len(base) :
       /\ Floor(i) \in Nat /\ Arity[base[i].code] \in Nat
       /\ base[i].h = Floor(i) + 2 + Arity[base[i].code]
       /\ base[i].h \in Nat /\ base[i].h <= Height
  /\ \A i, j \in 1..Len(base) : i < j => base[i].h <= Floor(j) /\ base[i].h + 2 <= base[j].h

LEMMA BaseKnown == DataOK /\ BaseOK => BaseFacts
<1> SUFFICES ASSUME DataOK, BaseOK PROVE BaseFacts OBVIOUS
<1>1. DataFacts BY DataKnown
<1>2. PICK l : l = Len(base) OBVIOUS
<1>3. l \in Nat /\ DOMAIN base = 1..l /\ Height \in Nat BY <1>1, <1>2 DEF DataFacts
<1>4. base # <<>> /\ l >= 1
  <2>1. base # <<>> BY DEF BaseOK
  <2>2. base \in Seq([code : Codes, h : Nat, native : BOOLEAN]) BY DEF DataOK
  <2>3. Len(base) # 0 BY <2>1, <2>2
  <2> QED BY <1>2, <1>3, <2>1, <2>3
<1>5. ASSUME NEW i \in 1..l
      PROVE  /\ Floor(i) \in Nat /\ Arity[base[i].code] \in Nat
             /\ base[i].h = Floor(i) + 2 + Arity[base[i].code]
             /\ base[i].h \in Nat /\ base[i].h <= Height
  <2>1. base[i].h \in Nat /\ Arity[base[i].code] \in Nat
        /\ Floor(i) = base[i].h - 2 - Arity[base[i].code]
    BY <1>1, <1>2 DEF DataFacts
  <2>2. Floor(i) >= 0 /\ base[i].h <= Height BY <1>3 DEF BaseOK
  <2> QED BY <2>1, <2>2
<1>6. ASSUME NEW i \in 1..l, NEW j \in 1..l, i < j
      PROVE  base[i].h <= Floor(j) /\ base[i].h + 2 <= base[j].h
  <2>1. base[i].h <= Floor(j) BY <1>3, <1>6 DEF BaseOK
  <2> QED BY <1>5, <2>1
<1>7. ~base[1].native /\ stack[base[1].h - 1] = Zero BY DEF BaseOK
<1> QED BY <1>2, <1>4, <1>5, <1>6, <1>7 DEF BaseFacts

LEMMA BaseNext == DataOK' /\ BaseOK' => BaseFacts'
<1>1. DataOK /\ BaseOK => BaseFacts BY BaseKnown
<1> QED BY <1>1, PTL

\* How activations lie, as lower ones are kept and one may be put on top.
LEMMA BaseStep ==
  ASSUME DataOK, BaseOK, DataOK', NEW m, NEW b \in Nat, Keeps(m, b),
         Len(base') = b \/ Len(base') = b + 1, Len(base') >= 1,
         b >= 1 => base[b].h <= m,
         Len(base') = b + 1 =>
           /\ base'[b + 1].h <= Height'
           /\ Floor(b + 1)' >= 0 /\ (b >= 1 => base[b].h <= Floor(b + 1)'),
         b = 0 => ~base'[1].native /\ stack'[base'[1].h - 1] = Zero
  PROVE  BaseOK'
<1>1. PICK l : l = Len(base) OBVIOUS
<1>2. PICK k : k = Len(base') OBVIOUS
<1>3. PICK z : z = Height' OBVIOUS
<1>4. /\ l \in Nat /\ DOMAIN base = 1..l /\ b <= l /\ m \in Nat
      /\ \A i \in 1..l : base[i].h \in Nat /\ Floor(i) \in Nat
      /\ \A i, j \in 1..l : i < j => base[i].h <= Floor(j) /\ base[i].h < base[j].h
      /\ l >= 1 => base[1].h >= 2
  <2>1. BaseFacts BY BaseKnown
  <2>2. Height \in Nat /\ Len(base) \in Nat /\ DOMAIN base = 1..Len(base)
    BY DataKnown DEF DataFacts
  <2>3. \A i \in 1..l : base[i].h \in Nat /\ Floor(i) \in Nat BY <1>1, <2>1 DEF BaseFacts
  <2>4. \A i, j \in 1..l : i < j => base[i].h <= Floor(j) /\ base[i].h < base[j].h
    <3> SUFFICES ASSUME NEW i \in 1..l, NEW j \in 1..l, i < j
                 PROVE  base[i].h <= Floor(j) /\ base[i].h < base[j].h
      OBVIOUS
    <3>1. base[i].h <= Floor(j) /\ base[i].h + 2 <= base[j].h BY <1>1, <2>1 DEF BaseFacts
    <3> QED BY <2>3, <3>1
  <2>5. l >= 1 => base[1].h >= 2
    <3> SUFFICES ASSUME l >= 1 PROVE base[1].h >= 2 OBVIOUS
    <3>1. 1 \in 1..Len(base) BY <1>1, <2>2
    <3>2. base[1].h = Floor(1) + 2 + Arity[base[1].code]
          /\ Floor(1) \in Nat /\ Arity[base[1].code] \in Nat
      BY <2>1, <3>1 DEF BaseFacts
    <3> QED BY <3>2
  <2>6. b <= l /\ m \in Nat BY <1>1, <2>2 DEF Keeps
  <2> QED BY <1>1, <2>2, <2>3, <2>4, <2>5, <2>6
<1>6. /\ k \in Nat /\ DOMAIN base' = 1..k /\ z \in Nat /\ m <= z
      /\ \A i \in 1..k : base'[i].h \in Nat /\ Floor(i)' \in Int
  <2>1. DataFacts' BY DataNext
  <2> QED BY <1>2, <1>3, <2>1 DEF DataFacts, Keeps
<1>7. \A i \in 1..b : base'[i] = base[i] /\ Floor(i)' = Floor(i) BY FloorKept DEF Keeps
<1>8. k = b \/ k = b + 1 BY <1>2
<1>9. ASSUME NEW i \in 1..b PROVE base[i].h <= m
  <2>1. CASE i = b BY <2>1
  <2>2. CASE i # b
    <3>1. i < b /\ i \in 1..l /\ b \in 1..l BY <1>4, <2>2
    <3>2. base[i].h < base[b].h /\ base[b].h <= m BY <1>4, <3>1
    <3>3. base[i].h \in Nat /\ base[b].h \in Nat BY <1>4, <3>1
    <3> QED BY SMTT(40), <1>4, <3>2, <3>3
  <2> QED BY <2>1, <2>2
<1>10. base' # <<>>
  <2>1. k >= 1 BY <1>2
  <2> QED BY <1>2, <2>1
<1>11. ~base'[1].native /\ stack'[base'[1].h - 1] = Zero
  <2>1. CASE b = 0 BY <2>1
  <2>2. CASE b # 0
    <3>1. 1 \in 1..b /\ 1 \in 1..l BY <1>4, <2>2
    <3>2. base[1].h \in Nat /\ base[1].h >= 2 /\ base[1].h <= m BY <1>4, <1>9, <3>1
    <3>3. base[1].h - 1 \in 1..m BY SMTT(40), <1>4, <3>2
    <3>4. stack'[base[1].h - 1] = stack[base[1].h - 1] BY <3>3 DEF Keeps
    <3> QED BY <1>7, <3>1, <3>4 DEF BaseOK
  <2> QED BY <2>1, <2>2
<1>12. ASSUME NEW i \in 1..k PROVE Floor(i)' >= 0 /\ base'[i].h <= z
  <2>1. CASE i \in 1..b
    <3>1. i \in 1..l BY <1>4, <2>1
    <3>2. Floor(i) >= 0 /\ base[i].h <= m BY <1>4, <1>9, <2>1, <3>1
    <3>3. Floor(i)' >= 0 BY <1>7, <2>1, <3>2
    <3>4. base'[i].h <= m /\ base'[i].h \in Nat BY <1>6, <1>7, <2>1, <3>2
    <3> QED BY <1>4, <1>6, <3>3, <3>4
  <2>2. CASE i \notin 1..b
    <3>1. i = b + 1 /\ k = b + 1 BY <1>6, <1>8, <2>2
    <3> QED BY <1>2, <1>3, <3>1
  <2> QED BY <2>1, <2>2
<1>13. ASSUME NEW i \in 1..k, NEW j \in 1..k, i < j PROVE base'[i].h <= Floor(j)'
  <2>1. i \in 1..b /\ i \in 1..l BY <1>4, <1>6, <1>8, <1>13
  <2>2. CASE j \in 1..b
    <3>1. j \in 1..l BY <1>4, <2>2
    <3>2. base[i].h <= Floor(j) BY <1>4, <1>13, <2>1, <3>1
    <3> QED BY <1>7, <2>1, <2>2, <3>2
  <2>3. CASE j \notin 1..b
    <3>1. j = b + 1 /\ k = b + 1 /\ b >= 1 /\ b \in 1..l BY <1>4, <1>6, <1>8, <2>1, <2>3
    <3>2. base[b].h <= Floor(j)' BY <1>2, <3>1
    <3>3. base[i].h <= base[b].h
      <4>1. CASE i = b BY <1>4, <3>1, <4>1
      <4>2. CASE i # b
        <5>1. i < b BY <2>1, <4>2
        <5>2. base[i].h < base[b].h BY <1>4, <2>1, <3>1, <5>1
        <5> QED BY <1>4, <2>1, <3>1, <5>2
      <4> QED BY <4>1, <4>2
    <3>4. base[i].h \in Nat /\ base[b].h \in Nat /\ Floor(j)' \in Int BY <1>4, <1>6, <2>1, <3>1
    <3> QED BY <1>7, <2>1, <3>2, <3>3, <3>4
  <2> QED BY <2>2, <2>3
<1> QED BY <1>3, <1>6, <1>10, <1>11, <1>12, <1>13 DEF BaseOK

\* The lower activations keep their heights, below the words that are kept.
LEMMA BelowKept ==
  ASSUME DataOK, BaseOK, NEW m \in Nat, NEW b \in Nat, b <= Len(base), b >= 1 => base[b].h <= m,
         NEW i \in 1..b
  PROVE  base[i].h \in Nat /\ base[i].h >= 2 /\ base[i].h <= m
<1>1. BaseFacts BY BaseKnown
<1>2. Len(base) \in Nat BY DataKnown DEF DataFacts
<1>3. i \in 1..Len(base) /\ b \in 1..Len(base) BY <1>2
<1>4. base[i].h \in Nat /\ base[b].h \in Nat BY <1>1, <1>3 DEF BaseFacts
<1>5. base[i].h >= 2
  <2>1. base[i].h = Floor(i) + 2 + Arity[base[i].code]
        /\ Floor(i) \in Nat /\ Arity[base[i].code] \in Nat
    BY <1>1, <1>3 DEF BaseFacts
  <2> QED BY <2>1
<1>6. base[i].h <= base[b].h
  <2>1. i < b => base[i].h + 2 <= base[b].h BY <1>1, <1>3 DEF BaseFacts
  <2> QED BY <1>3, <1>4, <2>1
<1> QED BY <1>4, <1>5, <1>6

\* The code bounds, as lower activations are kept and one may be put on top.
LEMMA SegsStep ==
  ASSUME DataOK, BaseOK, SegsOK, DataOK', NEW m, NEW b \in Nat, Keeps(m, b),
         Len(base') = b \/ Len(base') = b + 1, b >= 1 => base[b].h <= m,
         Len(frames') = Interpreted' - 1, SegOf(pc') = seg',
         \A r \in 1..(Rank(b) - 1) : frames'[r] = frames[r],
         \A i \in 1..b : ~base[i].native /\ Rank(i) = Rank(b) => SegAt(i)'.c = base[i].code,
         Len(base') = b + 1 /\ ~base'[b + 1].native =>
           /\ SegAt(b + 1)'.c = base'[b + 1].code
           /\ stack'[base'[b + 1].h - 1] # Zero =>
                /\ b >= 1 /\ ~base[b].native
                /\ stack'[base'[b + 1].h - 1].k = "pc"
                /\ SegOf(stack'[base'[b + 1].h - 1].pc) = frames'[Rank(b)]
  PROVE  SegsOK'
<1>1. PICK k : k = Len(base') OBVIOUS
<1>2. k \in Nat /\ DOMAIN base' = 1..k BY <1>1, DataNext DEF DataFacts
<1>3. k = b \/ k = b + 1 BY <1>1
<1>4. b <= Len(base) /\ Len(base) \in Nat /\ DOMAIN base = 1..Len(base) /\ m \in Nat
  BY DataKnown DEF DataFacts, Keeps
<1>5. RankFacts /\ RankFacts' BY RankKnown, RankNext
<1>6. \A i \in 0..b : Rank(i)' = Rank(i) BY RankKept
<1>7. Interpreted' = Rank(k)' BY <1>1 DEF Interpreted, Rank
<1>8. \A i \in 1..b : base'[i] = base[i] BY DEF Keeps
<1>9. ASSUME NEW i \in DOMAIN base', ~base'[i].native PROVE SegAt(i)'.c = base'[i].code
  <2>1. CASE i = b + 1 BY <1>1, <1>2, <1>3, <1>9, <2>1
  <2>2. CASE i # b + 1
    <3>1. i \in 1..b /\ ~base[i].native BY <1>2, <1>3, <1>8, <1>9, <2>2
    <3>2. CASE Rank(i) = Rank(b) BY <1>8, <3>1, <3>2
    <3>3. CASE Rank(i) # Rank(b)
      <4>1. Rank(i) \in Nat /\ Rank(b) \in Nat /\ Rank(i) < Rank(b)
        <5>1. Rank(i) \in Nat /\ Rank(b) \in Nat /\ Rank(i) <= Rank(b)
          BY <1>5, <3>1 DEF RankFacts
        <5> QED BY <3>3, <5>1
      <4>2. Rank(b)' <= Rank(k)' BY <1>2, <1>3, <1>5 DEF RankFacts
      <4>3. Rank(i)' # Interpreted' /\ Rank(i)' = Rank(i)
        <5>1. Rank(i)' = Rank(i) /\ Rank(b)' = Rank(b) BY <1>6, <3>1
        <5>2. Rank(k)' \in Nat BY <1>2, <1>5 DEF RankFacts
        <5> QED BY <1>7, <4>1, <4>2, <5>1, <5>2
      <4>4. SegAt(i)' = frames'[Rank(i)] BY <4>3 DEF SegAt
      <4>5. Rank(b) <= Interpreted /\ Interpreted \in Nat
        BY <1>4, <1>5 DEF RankFacts, Interpreted
      <4>6. SegAt(i) = frames[Rank(i)] BY <4>1, <4>5 DEF SegAt
      <4>7. Rank(i) \in 1..(Rank(b) - 1)
        <5>1. i \in Nat /\ 0 < i BY <3>1
        <5>2. Rank(i) >= 1 BY <1>5, <3>1, <5>1 DEF RankFacts
        <5> QED BY <4>1, <5>2
      <4>8. SegAt(i).c = base[i].code BY <1>4, <3>1 DEF SegsOK
      <4>9. frames'[Rank(i)] = frames[Rank(i)] BY <4>7
      <4> QED BY <1>8, <3>1, <4>4, <4>6, <4>8, <4>9
    <3> QED BY <3>2, <3>3
  <2> QED BY <2>1, <2>2
<1>10. ASSUME NEW i \in DOMAIN base', ~base'[i].native, stack'[base'[i].h - 1] # Zero
       PROVE  /\ i > 1 /\ ~base'[i - 1].native
              /\ stack'[base'[i].h - 1].k = "pc"
              /\ SegOf(stack'[base'[i].h - 1].pc) = frames'[Rank(i)' - 1]
  <2>1. CASE i = b + 1
    <3>1. /\ b >= 1 /\ ~base[b].native
          /\ stack'[base'[b + 1].h - 1].k = "pc"
          /\ SegOf(stack'[base'[b + 1].h - 1].pc) = frames'[Rank(b)]
      BY <1>1, <1>2, <1>3, <1>10, <2>1
    <3>2. Rank(b + 1)' = Rank(b)' + 1 BY <1>5, <1>10, <2>1 DEF RankFacts
    <3>3. Rank(b)' = Rank(b) /\ Rank(b) \in Nat BY <1>5, <1>6 DEF RankFacts
    <3>4. i - 1 = b /\ base'[b] = base[b] BY <1>8, <2>1, <3>1
    <3>5. Rank(b + 1)' - 1 = Rank(b) BY <3>2, <3>3
    <3> QED BY <2>1, <3>1, <3>4, <3>5
  <2>2. CASE i # b + 1
    <3>1. i \in 1..b /\ ~base[i].native /\ i \in DOMAIN base /\ i \in Nat
      BY <1>2, <1>3, <1>4, <1>8, <1>10, <2>2
    <3>2. base[i].h \in Nat /\ base[i].h >= 2 /\ base[i].h <= m BY <1>4, <3>1, BelowKept
    <3>3. base[i].h - 1 \in 1..m BY <1>4, <3>2
    <3>4. stack'[base[i].h - 1] = stack[base[i].h - 1] BY <3>3 DEF Keeps
    <3>5. stack[base[i].h - 1] # Zero BY <1>8, <1>10, <3>1, <3>4
    <3>6. /\ i > 1 /\ ~base[i - 1].native /\ stack[base[i].h - 1].k = "pc"
          /\ SegOf(stack[base[i].h - 1].pc) = frames[Rank(i) - 1]
      BY <3>1, <3>5 DEF SegsOK
    <3>7. Rank(i) - 1 \in 1..(Rank(b) - 1)
      <4>1. PICK j : j = i - 1 OBVIOUS
      <4>2. j \in Nat /\ 0 < j /\ j < i /\ ~base[j].native BY <3>1, <3>6, <4>1
      <4>3. Rank(j) >= 1 /\ Rank(j) < Rank(i) BY <1>5, <3>1, <4>2 DEF RankFacts
      <4>4. Rank(j) \in Nat /\ Rank(i) \in Nat /\ Rank(b) \in Nat /\ Rank(i) <= Rank(b)
        BY <1>5, <3>1, <4>2 DEF RankFacts
      <4> QED BY <4>3, <4>4
    <3>8. frames'[Rank(i) - 1] = frames[Rank(i) - 1] /\ Rank(i)' = Rank(i) BY <1>6, <3>1, <3>7
    <3>9. base'[i - 1] = base[i - 1] /\ base'[i] = base[i]
      <4>1. i - 1 \in 1..b BY <3>1, <3>6
      <4> QED BY <1>8, <3>1, <4>1
    <3> QED BY <3>4, <3>6, <3>8, <3>9
  <2> QED BY <2>1, <2>2
<1> QED BY <1>9, <1>10 DEF SegsOK

\* The root of a region below activations that are kept.
LEMMA RootKept ==
  ASSUME NEW m, NEW b \in Nat, Keeps(m, b), NEW j, NEW l \in Nat, l <= b,
         nest'[j].top = nest[j].top, RootOK(j, l)
  PROVE  RootOK(j, l)'
<1>1. PICK r \in 2..l : /\ base[r].h = nest[j].top + 2 /\ ~base[r - 1].native
                        /\ \A k \in r..l : base[k].native
  BY DEF RootOK
<1>2. \A k \in 1..l : base'[k] = base[k] BY DEF Keeps
<1>3. r - 1 \in 1..l /\ r \in 1..l /\ r..l \subseteq 1..l OBVIOUS
<1>4. base'[r].h = nest'[j].top + 2 /\ ~base'[r - 1].native BY <1>1, <1>2, <1>3
<1>5. \A k \in r..l : base'[k].native BY <1>1, <1>2, <1>3
<1> QED BY <1>4, <1>5 DEF RootOK

\* What the invariant says of the last activation and of the innermost run.
LEMMA NestKnown ==
  ASSUME DataOK, BaseOK, NestOK
  PROVE  /\ Outer \in Nat /\ Len(nest) = Outer + (IF Native THEN 1 ELSE 0)
         /\ Native => RootOK(Len(nest), Len(base))
         /\ \A j \in 1..Outer : /\ FrameOK(j) /\ RootOK(j, Caller(j)) /\ Caller(j) \in Nat
                                /\ Caller(j) >= 1 /\ Caller(j) < Len(base)
<1>1. Outer \in Nat /\ Len(nest) \in Nat /\ DOMAIN nest = 1..Len(nest) BY CutsKnown
<1>2. Len(nest) = Outer + (IF Native THEN 1 ELSE 0) BY <1>1 DEF Outer
<1>3. Native => RootOK(Len(nest), Len(base))
  <2> SUFFICES ASSUME Native PROVE RootOK(Len(nest), Len(base)) OBVIOUS
  <2>1. Len(nest) = Outer + 1 BY <1>2
  <2>2. Len(nest) \in DOMAIN nest /\ ~ (Len(nest) <= Outer) BY <1>1, <2>1
  <2> QED BY <2>2 DEF NestOK, LastOf
<1>4. ASSUME NEW j \in 1..Outer
      PROVE  /\ FrameOK(j) /\ RootOK(j, Caller(j)) /\ Caller(j) \in Nat
             /\ Caller(j) >= 1 /\ Caller(j) < Len(base)
  <2>1. FrameOK(j) BY DEF NestOK
  <2>2. Outer <= Len(nest) BY CutsKnown
  <2>3. j \in DOMAIN nest /\ j <= Outer BY <1>1, <2>2
  <2>4. RootOK(j, Caller(j)) BY <2>3 DEF NestOK, LastOf
  <2>5. Len(base) \in Nat BY DataKnown DEF DataFacts
  <2>6. Caller(j) \in 1..Len(base) - 1 BY <2>1 DEF FrameOK
  <2> QED BY <2>1, <2>4, <2>5, <2>6
<1> QED BY <1>1, <1>2, <1>3, <1>4

\* What a region's caller saved, as lower activations are kept and one may be
\* put on top.
LEMMA FrameKept ==
  ASSUME DataOK, BaseOK, NestOK, DataOK', NEW m, NEW b \in Nat, Keeps(m, b),
         NEW k, k = Len(base'), k = b \/ k = b + 1, b >= 1 => base[b].h <= m,
         \A r \in 1..(Rank(b) - 1) : frames'[r] = frames[r],
         NEW j \in 1..Outer, nest'[j] = nest[j],
         \/ Caller(j) + 1 <= b
         \/ /\ Caller(j) = b /\ k = b + 1 /\ ~base'[b + 1].native
            /\ stack'[base'[b + 1].h - 1] = Zero /\ frames'[Rank(b)].c = frames[Rank(b)].c
  PROVE  FrameOK(j)'
<1>1. FrameOK(j) /\ Caller(j) \in Nat /\ Caller(j) >= 1 /\ Caller(j) < Len(base)
  BY NestKnown
<1>2. k \in Nat BY DataNext DEF DataFacts
<1>3. PICK i : i = Caller(j) OBVIOUS
<1>4. i \in Nat /\ i >= 1 /\ i <= b BY <1>1, <1>3
<1>5. Rank(i)' = Rank(i) /\ Rank(i) \in Nat /\ Rank(b) \in Nat
  <2>1. i \in 0..b BY <1>4
  <2>2. Rank(i)' = Rank(i) BY <2>1, RankKept
  <2> QED BY <1>4, <2>2, RankKnown DEF RankFacts
<1>6. Caller(j)' = i /\ nest'[j] = nest[j] BY <1>3 DEF Caller
<1>7. /\ i + 1 <= k /\ ~base'[i + 1].native /\ stack'[base'[i + 1].h - 1] = Zero
      /\ frames'[Rank(i)].c = frames[Rank(i)].c
  <2>1. CASE i + 1 <= b
    <3>1. i + 1 \in 1..b /\ i + 1 <= Len(base) /\ i + 1 <= k BY <1>2, <1>1, <1>3, <1>4, <2>1
    <3>2. base'[i + 1] = base[i + 1] BY <3>1 DEF Keeps
    <3>3. ~base[i + 1].native /\ stack[base[i + 1].h - 1] = Zero BY <1>1, <1>3 DEF FrameOK
    <3>4. m \in Nat /\ b <= Len(base) BY DataKnown DEF DataFacts, Keeps
    <3>5. base[i + 1].h \in Nat /\ base[i + 1].h >= 2 /\ base[i + 1].h <= m
      <4>1. PICK x : x = i + 1 OBVIOUS
      <4>2. x \in 1..b BY <3>1, <4>1
      <4>3. base[x].h \in Nat /\ base[x].h >= 2 /\ base[x].h <= m BY <3>4, <4>2, BelowKept
      <4> QED BY <4>1, <4>3
    <3>6. base[i + 1].h - 1 \in 1..m BY <3>4, <3>5
    <3>7. stack'[base[i + 1].h - 1] = stack[base[i + 1].h - 1] BY <3>6 DEF Keeps
    <3>8. Rank(i) \in 1..(Rank(b) - 1)
      <4>1. PICK x : x = i + 1 OBVIOUS
      <4>2. x \in Nat /\ i < x /\ x <= b /\ ~base[x].native BY <1>4, <3>1, <3>3, <4>1
      <4>3. Rank(i) < Rank(x) /\ Rank(x) <= Rank(b) /\ Rank(x) \in Nat
        BY <1>4, <4>2, RankKnown DEF RankFacts
      <4>4. Rank(i) >= 1
        <5>1. RootOK(j, i)
          BY <1>3, NestKnown
        <5>2. PICK y \in 2..i : ~base[y - 1].native BY <5>1 DEF RootOK
        <5>3. PICK z : z = y - 1 OBVIOUS
        <5>4. ~base[z].native BY <5>2, <5>3
        <5>5. z \in Nat /\ 0 < z /\ z <= i /\ ~base[z].native BY <1>4, <5>3, <5>4
        <5>6. Rank(z) >= 1 /\ Rank(z) <= Rank(i) /\ Rank(z) \in Nat
          BY <1>4, <5>5, RankKnown DEF RankFacts
        <5> QED BY <1>5, <5>6
      <4> QED BY <1>5, <4>3, <4>4
    <3>9. frames'[Rank(i)] = frames[Rank(i)] BY <3>8
    <3> QED BY <3>1, <3>2, <3>3, <3>7, <3>9
  <2>2. CASE ~ (i + 1 <= b)
    <3>1. i = b /\ k = b + 1 /\ ~base'[b + 1].native /\ stack'[base'[b + 1].h - 1] = Zero
          /\ frames'[Rank(b)].c = frames[Rank(b)].c
      BY <1>3, <2>2
    <3> QED BY <3>1
  <2> QED BY <2>1, <2>2
<1>8. i \in 1..Len(base') - 1 BY <1>2, <1>4, <1>7
<1>9. /\ SegOf(nest[j].saved.pc) = nest[j].saved.seg
      /\ nest[j].saved.depth = Rank(i) - 1
      /\ nest[j].saved.seg.c = frames[Rank(i)].c
  BY <1>1, <1>3 DEF FrameOK
<1>10. (SegOf(nest[j].saved.pc))' = SegOf(nest[j].saved.pc) BY <1>6 DEF SegOf
<1>11. Rank(Caller(j))' = Rank(i) BY <1>5, <1>6 DEF Rank
<1> QED BY <1>5, <1>6, <1>7, <1>8, <1>9, <1>10, <1>11 DEF FrameOK

\* The Rust frames, as lower activations are kept and one may be put on top.
LEMMA NestStep ==
  ASSUME DataOK, BaseOK, SegsOK, NestOK, DataOK', NEW m, NEW b \in Nat, Keeps(m, b),
         NEW k, k = Len(base'), k = b \/ k = b + 1, b >= 1 => base[b].h <= m,
         \A r \in 1..(Rank(b) - 1) : frames'[r] = frames[r],
         NEW o \in 0..Outer, Outer' = o, \A j \in 1..o : nest'[j] = nest[j],
         \A j \in 1..o :
           \/ Caller(j) + 1 <= b
           \/ /\ Caller(j) = b /\ k = b + 1 /\ ~base'[b + 1].native
              /\ stack'[base'[b + 1].h - 1] = Zero /\ frames'[Rank(b)].c = frames[Rank(b)].c,
         Native' => RootOK(o + 1, k)',
         ~Native' => ~base'[k].native
  PROVE  NestOK'
<1>1. /\ Outer \in Nat /\ Len(nest) \in Nat /\ o \in Nat /\ o <= Len(nest)
      /\ DOMAIN nest = 1..Len(nest)
  BY CutsKnown
<1>2. Len(nest') \in Nat /\ DOMAIN nest' = 1..Len(nest') /\ k \in Nat
  BY DataNext DEF DataFacts
<1>3. Len(nest') = o + (IF Native' THEN 1 ELSE 0)
  <2>1. o = IF Native' THEN Len(nest') - 1 ELSE Len(nest') BY DEF Outer
  <2>2. CASE Native' BY <1>1, <1>2, <2>1, <2>2
  <2>3. CASE ~Native' BY <1>1, <1>2, <2>1, <2>3
  <2> QED BY <2>2, <2>3
<1>4. \A j \in 1..o : Caller(j)' = Caller(j) BY DEF Caller
<1>5. ASSUME NEW j \in DOMAIN nest' PROVE nest'[j].saved # None <=> j <= o
  <2>1. CASE j <= o
    <3>1. j \in 1..o /\ j \in DOMAIN nest /\ j <= Outer BY <1>1, <1>2, <2>1
    <3>2. nest[j].saved # None BY <3>1 DEF NestOK
    <3> QED BY <2>1, <3>1, <3>2
  <2>2. CASE ~ (j <= o)
    <3>1. Native' /\ j = Len(nest') BY <1>1, <1>2, <1>3, <2>2
    <3> QED BY <2>2, <3>1 DEF Native, Last
  <2> QED BY <2>1, <2>2
<1>6. ASSUME NEW j \in 1..o PROVE FrameOK(j)'
  <2>1. j \in 1..Outer /\ nest'[j] = nest[j] BY <1>1
  <2> QED BY <2>1, FrameKept
<1>7. ASSUME NEW i \in 1..o, NEW j \in 1..o, i < j PROVE Caller(i)' < Caller(j)'
  <2>1. i \in 1..Outer /\ j \in 1..Outer BY <1>1
  <2>2. Caller(i) < Caller(j) BY <1>7, <2>1 DEF NestOK
  <2> QED BY <1>4, <2>2
<1>8. ASSUME NEW j \in DOMAIN nest' PROVE RootOK(j, LastOf(j))'
  <2>1. CASE j <= o
    <3>1. j \in 1..o /\ j \in 1..Outer BY <1>1, <1>2, <2>1
    <3>2. RootOK(j, Caller(j)) /\ Caller(j) \in Nat /\ Caller(j) < Len(base) BY <3>1, NestKnown
    <3>3. PICK l : l = Caller(j) OBVIOUS
    <3>4. l <= b /\ l \in Nat /\ RootOK(j, l) BY <3>1, <3>2, <3>3
    <3>5. nest'[j].top = nest[j].top BY <3>1
    <3>6. RootOK(j, l)' BY <3>4, <3>5, RootKept
    <3>7. LastOf(j)' = l BY <1>4, <2>1, <3>1, <3>3 DEF LastOf
    <3> QED BY <3>6, <3>7 DEF RootOK
  <2>2. CASE ~ (j <= o)
    <3>1. Native' /\ j = o + 1 BY <1>1, <1>2, <1>3, <2>2
    <3>2. RootOK(j, k)' BY <3>1
    <3>3. LastOf(j)' = k BY <2>2 DEF LastOf
    <3> QED BY <3>2, <3>3 DEF RootOK
  <2> QED BY <2>1, <2>2
<1> QED BY <1>5, <1>6, <1>7, <1>8 DEF NestOK

\* A block below the words that are kept, and its owner is.
LEMMA BlockKept ==
  ASSUME DataOK, BaseOK, DataOK', NEW m, NEW b \in Nat, Keeps(m, b),
         NEW k, k = Len(base'), k = b \/ k = b + 1,
         NEW x \in [h : Nat, own : Nat], NEW n, BlockOK(x, n), handlers'[n] = handlers[n],
         x.h <= m, x.own <= b, k = b + 1 => x.h <= Floor(b + 1)'
  PROVE  BlockOK(x, n)'
<1>1. PICK h : h = x.h OBVIOUS
<1>2. PICK w : w = x.own OBVIOUS
<1>3. h \in Nat /\ w \in Nat /\ k \in Nat BY <1>1, <1>2, DataNext DEF DataFacts
<1>4. /\ h \in DOMAIN stack /\ stack[h].k = "pc" /\ stack[h - 1].k = "hsp"
      /\ SegOf(stack[h].pc) = [c |-> handlers[n].c, at |-> handlers[n].at]
      /\ w \in DOMAIN base /\ ~base[w].native
      /\ base[w].code = handlers[n].c
      /\ handlers[n].depth = Rank(w) - 1
      /\ h > base[w].h + 1
      /\ \A i \in DOMAIN base : i > w => h <= Floor(i)
  BY <1>1, <1>2 DEF BlockOK
<1>5. m \in Nat /\ m <= Height' /\ b <= Len(base) /\ DOMAIN base = 1..Len(base) /\ Len(base) \in Nat
      /\ DOMAIN base' = 1..k /\ Height' \in Nat /\ DOMAIN stack' = 1..Height'
  BY SMTT(40), <1>3, DataKnown, DataNext DEF DataFacts, Keeps
<1>6. w \in 1..b /\ w \in 1..k BY <1>2, <1>3, <1>4, <1>5
<1>7. base'[w] = base[w] /\ Rank(w)' = Rank(w) /\ base[w].h \in Nat
  <2>1. w \in 0..b BY <1>6
  <2> QED BY <1>4, <1>5, <1>6, <2>1, RankKept, DataKnown DEF Keeps, DataFacts
<1>8. h \in 1..m /\ h - 1 \in 1..m /\ h \in DOMAIN stack' BY <1>1, <1>3, <1>4, <1>5, <1>7
<1>9. stack'[h] = stack[h] /\ stack'[h - 1] = stack[h - 1] BY <1>8 DEF Keeps
<1>10. ASSUME NEW i \in 1..k, i > w PROVE h <= Floor(i)'
  <2>1. CASE i \in 1..b
    <3>1. Floor(i)' = Floor(i) BY <2>1, FloorKept
    <3>2. i \in DOMAIN base BY <1>5, <2>1
    <3>3. h <= Floor(i) BY <1>4, <1>10, <3>2
    <3> QED BY <3>1, <3>3
  <2>2. CASE i \notin 1..b
    <3>1. i = b + 1 /\ k = b + 1 BY <1>3, <2>2
    <3> QED BY <1>1, <3>1
  <2> QED BY <2>1, <2>2
<1>11. (SegOf(stack[h].pc))' = SegOf(stack[h].pc) BY <1>9 DEF SegOf
<1>12. /\ h \in DOMAIN stack' /\ stack'[h].k = "pc" /\ stack'[h - 1].k = "hsp"
       /\ (SegOf(stack[h].pc))' = [c |-> handlers'[n].c, at |-> handlers'[n].at]
       /\ w \in DOMAIN base' /\ ~base'[w].native
       /\ base'[w].code = handlers'[n].c
       /\ handlers'[n].depth = Rank(w)' - 1
       /\ h > base'[w].h + 1
       /\ \A i \in DOMAIN base' : i > w => h <= Floor(i)'
  BY <1>4, <1>5, <1>6, <1>7, <1>8, <1>9, <1>10, <1>11
<1> QED BY <1>1, <1>2, <1>12 DEF BlockOK

\* The first blocks and their chains, as the others are cut off.
LEMMA BlocksStep ==
  ASSUME DataOK, BaseOK, NestOK, NEW bs, BlocksOK(bs), ChainsOK(bs), DataOK',
         NEW m, NEW b \in Nat, Keeps(m, b), NEW k, k = Len(base'), k = b \/ k = b + 1,
         NEW o \in 0..Outer, Outer' = o, \A j \in 1..o : nest'[j] = nest[j],
         NEW t \in 0..Len(bs), Len(handlers') = t, \A n \in 1..t : handlers'[n] = handlers[n],
         \A n \in 1..t : bs[n].h <= m /\ bs[n].own <= b /\ (k = b + 1 => bs[n].h <= Floor(b + 1)'),
         Cut(o) <= t, o # Outer => t = Cut(o + 1),
         NEW cs, cs = SubSeq(bs, 1, t)
  PROVE  BlocksOK(cs)' /\ ChainsOK(cs)'
<1>1. Outer \in Nat /\ \A j \in 0..Outer : Cut(j) \in Nat BY CutsKnown
<1>2. /\ Len(bs) \in Nat /\ DOMAIN bs = 1..Len(bs) /\ bs \in Seq([h : Nat, own : Nat])
      /\ \A n \in 1..Len(bs) : bs[n].h \in Nat /\ bs[n].h > 1 /\ bs[n].h <= Height /\ bs[n].own \in Nat
  BY BlockKnown
<1>3. t \in Nat /\ o \in Nat /\ o <= Outer BY <1>1, <1>2
<1>4. /\ cs \in Seq([h : Nat, own : Nat]) /\ Len(cs) = t /\ DOMAIN cs = 1..t
      /\ \A n \in 1..t : cs[n] = bs[n] /\ n \in 1..Len(bs)
  <2>1. /\ cs \in Seq([h : Nat, own : Nat]) /\ Len(cs) = t /\ DOMAIN cs = 1..t
        /\ \A n \in 1..t : cs[n] = bs[n]
    BY ZenonT(40), <1>2, Prefix
  <2>2. \A n \in 1..t : n \in 1..Len(bs) BY <1>2, <1>3
  <2> QED BY <2>1, <2>2
<1>5. ASSUME NEW n \in 1..t PROVE BlockOK(cs[n], n)'
  <2>1. PICK x : x = bs[n] OBVIOUS
  <2>2. x = cs[n] /\ n \in 1..Len(bs) BY <1>4, <2>1
  <2>3. x \in [h : Nat, own : Nat]
    <3>1. bs \in Seq([h : Nat, own : Nat]) BY <1>2
    <3>2. \A i \in 1..Len(bs) : bs[i] \in [h : Nat, own : Nat] BY <3>1, Elements
    <3> QED BY <2>1, <2>2, <3>2
  <2>4. BlockOK(x, n) BY <1>2, <2>1, <2>2 DEF BlocksOK
  <2>5. x.h <= m /\ x.own <= b /\ (k = b + 1 => x.h <= Floor(b + 1)') BY <2>1
  <2>6. handlers'[n] = handlers[n] OBVIOUS
  <2>7. BlockOK(x, n)' BY <2>3, <2>4, <2>5, <2>6, BlockKept
  <2> QED BY <2>2, <2>7
<1>6. \A i, j \in 1..t : i < j => cs[i].h < cs[j].h BY <1>2, <1>4 DEF BlocksOK
<1>7. BlocksOK(cs)' BY <1>4, <1>5, <1>6 DEF BlocksOK
<1>8. \A j \in 0..o : Cut(j)' = Cut(j) /\ j \in 0..Outer /\ Cut(j) \in Nat
  BY <1>1, <1>3 DEF Cut
<1>9. \A i, j \in 0..o : i < j => Cut(i)' <= Cut(j)' BY <1>8 DEF ChainsOK
<1>10. ASSUME NEW j \in 1..o
       PROVE  /\ Cut(j)' <= t
              /\ nest'[j].saved.handlerSp = Register(cs, j - 1, Cut(j))'
              /\ \A n \in 1..t : n <= Cut(j)' <=> cs[n].own <= Caller(j)'
  <2>1. j \in 1..Outer /\ j \in 0..o /\ o \in 0..o /\ j - 1 \in 0..o BY <1>1, <1>3
  <2>2. Cut(j) <= t
    <3>1. j < o => Cut(j) <= Cut(o) BY <1>8, <2>1 DEF ChainsOK
    <3> QED BY <1>3, <1>8, <2>1, <3>1
  <2>3. Caller(j)' = Caller(j) BY DEF Caller
  <2>4. \A n \in 1..t : n <= Cut(j) <=> cs[n].own <= Caller(j)
    BY <1>2, <1>4, <2>1 DEF ChainsOK
  <2>5. PICK i : i = j - 1 OBVIOUS
  <2>6. PICK c : c = Cut(j) OBVIOUS
  <2>7. i \in 0..o /\ i < j /\ c \in Nat /\ c <= t BY <1>8, <2>1, <2>2, <2>5, <2>6
  <2>8. Cut(i) <= c /\ Cut(i) \in Nat BY <1>8, <2>1, <2>6, <2>7 DEF ChainsOK
  <2>9. nest[j].saved.handlerSp = Register(bs, i, c) BY <2>1, <2>5, <2>6 DEF ChainsOK
  <2>10. Register(cs, i, c)' = Register(bs, i, c)
    <3>1. Cut(i)' = Cut(i) BY <1>8, <2>7
    <3>2. c # Cut(i) => cs[c] = bs[c]
      <4> SUFFICES ASSUME c # Cut(i) PROVE cs[c] = bs[c] OBVIOUS
      <4>1. c \in 1..t BY <1>3, <2>7, <2>8
      <4> QED BY <1>4, <4>1
    <3> QED BY <3>1, <3>2 DEF Register
  <2>11. Register(cs, j - 1, Cut(j))' = Register(cs, i, c)'
    <3>1. Cut(j)' = c BY <1>8, <2>1, <2>6
    <3> QED BY <2>5, <3>1 DEF Register
  <2>12. Cut(j)' <= t BY <1>8, <2>1, <2>2
  <2>13. \A n \in 1..t : n <= Cut(j)' <=> cs[n].own <= Caller(j)' BY <1>8, <2>1, <2>3, <2>4
  <2>14. nest'[j] = nest[j] OBVIOUS
  <2> QED BY <2>9, <2>10, <2>11, <2>12, <2>13, <2>14
<1>11. ASSUME NEW n \in 1..t
       PROVE  stack'[cs[n].h - 1].hsp = IF \E j \in 0..o : Cut(j)' = n - 1 THEN 0 ELSE cs[n - 1].h
  <2>1. n \in 1..Len(bs) /\ cs[n] = bs[n] BY <1>4
  <2>2. bs[n].h \in Nat /\ bs[n].h > 1 /\ bs[n].h <= m BY <1>2, <2>1
  <2>3. bs[n].h - 1 \in 1..m
    <3>1. m \in Nat BY DataKnown DEF Keeps, DataFacts
    <3> QED BY <2>2, <3>1
  <2>4. stack'[bs[n].h - 1] = stack[bs[n].h - 1] BY <2>3 DEF Keeps
  <2>5. stack[bs[n].h - 1].hsp = IF \E j \in 0..Outer : Cut(j) = n - 1 THEN 0 ELSE bs[n - 1].h
    BY <1>2, <2>1 DEF ChainsOK
  <2>6. (\E j \in 0..Outer : Cut(j) = n - 1) <=> (\E j \in 0..o : Cut(j)' = n - 1)
    <3>1. ASSUME NEW j \in 0..Outer, Cut(j) = n - 1 PROVE \E i \in 0..o : Cut(i)' = n - 1
      <4>1. j <= o
        <5> SUFFICES ASSUME ~ (j <= o) PROVE FALSE OBVIOUS
        <5>1. o # Outer /\ o + 1 \in 0..Outer BY <1>1, <1>3
        <5>2. t = Cut(o + 1) BY <5>1
        <5>3. PICK i : i = o + 1 OBVIOUS
        <5>4. i \in 0..Outer /\ (i = j \/ i < j) BY <1>1, <1>3, <5>1, <5>3
        <5>5. Cut(i) <= Cut(j) BY <1>1, <5>4 DEF ChainsOK
        <5> QED BY <1>3, <3>1, <5>2, <5>3, <5>5
      <4>2. j \in 0..o BY <1>1, <1>3, <4>1
      <4>3. Cut(j)' = n - 1 BY <1>8, <3>1, <4>2
      <4> QED BY <4>2, <4>3
    <3>2. ASSUME NEW j \in 0..o, Cut(j)' = n - 1 PROVE \E i \in 0..Outer : Cut(i) = n - 1
      BY <1>8, <3>2
    <3> QED BY <3>1, <3>2
  <2>7. n # 1 => cs[n - 1] = bs[n - 1]
    <3> SUFFICES ASSUME n # 1 PROVE cs[n - 1] = bs[n - 1] OBVIOUS
    <3>1. n - 1 \in 1..t BY <1>3
    <3> QED BY <1>4, <3>1
  <2>8. n = 1 => \E j \in 0..o : Cut(j)' = n - 1
    <3>1. 0 \in 0..o /\ Cut(0)' = 0 BY <1>3 DEF Cut
    <3> QED BY <3>1
  <2>9. CASE \E j \in 0..o : Cut(j)' = n - 1 BY <2>1, <2>4, <2>5, <2>6, <2>9
  <2>10. CASE ~ \E j \in 0..o : Cut(j)' = n - 1 BY <2>1, <2>4, <2>5, <2>6, <2>7, <2>8, <2>10
  <2> QED BY <2>9, <2>10
<1>12. ChainsOK(cs)' BY <1>4, <1>9, <1>10, <1>11 DEF ChainsOK
<1> QED BY <1>7, <1>12

\* The parts of the invariant that a step either keeps or restores.
Good(bs) ==
  /\ DataOK /\ BaseOK /\ SegsOK /\ NestOK
  /\ BlocksOK(bs) /\ ChainsOK(bs)

\* The running activation, and how its words lie.
LEMMA TopKnown ==
  ASSUME DataOK, BaseOK
  PROVE  /\ Top = base[Len(base)] /\ Len(base) \in Nat /\ Len(base) >= 1
         /\ Top.h \in Nat /\ Top.h <= Height /\ Height \in Nat /\ Top.code \in Codes
         /\ Arity[Top.code] \in Nat /\ Floor(Len(base)) \in Nat
         /\ Top.h = Floor(Len(base)) + 2 + Arity[Top.code]
<1>1. DataFacts /\ BaseFacts BY DataKnown, BaseKnown
<1>2. PICK l : l = Len(base) OBVIOUS
<1>3. l \in Nat /\ l >= 1 BY <1>1, <1>2 DEF DataFacts, BaseFacts
<1>4. l \in 1..Len(base) BY <1>2, <1>3
<1>5. Top = base[l] BY <1>2 DEF Top, Last
<1>6. /\ base[l].h \in Nat /\ base[l].h <= Height
      /\ Arity[base[l].code] \in Nat /\ Floor(l) \in Nat
      /\ base[l].h = Floor(l) + 2 + Arity[base[l].code]
  BY <1>1, <1>4 DEF BaseFacts
<1>7. base[l].code \in Codes /\ Height \in Nat BY <1>1, <1>4 DEF DataFacts
<1> QED BY <1>2, <1>3, <1>5, <1>6, <1>7

\* Steps that stay in the activation keep what is known of all activations.
LEMMA SameFrames ==
  ASSUME NEW bs, Good(bs), DataOK', base' = base, frames' = frames, seg' = seg, nest' = nest,
         SegOf(pc') = seg', NEW m, Keeps(m, Len(base)), Top.h <= m
  PROVE  BaseOK' /\ SegsOK' /\ NestOK'
<1>1. DataOK /\ BaseOK /\ SegsOK /\ NestOK /\ BlocksOK(bs) /\ ChainsOK(bs) BY DEF Good
<1>2. PICK b : b = Len(base) OBVIOUS
<1>3. b \in Nat /\ b >= 1 /\ base[b].h <= m /\ Keeps(m, b) /\ DOMAIN base = 1..b
  BY <1>1, <1>2, TopKnown, DataKnown DEF DataFacts
<1>4. b = Len(base') BY <1>2
<1>5. b # b + 1 /\ b # 0 BY <1>3
<1>6. PICK o : o = Outer OBVIOUS
<1>7. o \in 0..Outer BY <1>1, <1>6, CutsKnown
<1>8. Native' = Native /\ Outer' = o /\ Outer = o BY <1>6 DEF Outer, Native
<1>9. Interpreted' = Interpreted /\ \A i : Rank(i)' = Rank(i)
  BY SMTT(40) DEF Interpreted, Rank
<1>10. BaseOK' BY ZenonT(60), <1>1, <1>3, <1>4, <1>5, BaseStep
<1>11. SegsOK'
  <2>1. Len(frames') = Interpreted' - 1 BY <1>1, <1>9 DEF SegsOK
  <2>2. ASSUME NEW i \in 1..b, ~base[i].native PROVE SegAt(i)'.c = base[i].code
    <3>1. SegAt(i)' = SegAt(i) BY <1>9 DEF SegAt
    <3> QED BY <1>1, <1>3, <2>2, <3>1 DEF SegsOK
  <2>3. \A r \in 1..(Rank(b) - 1) : frames'[r] = frames[r] OBVIOUS
  <2> QED BY <1>1, <1>3, <1>4, <1>5, <2>1, <2>2, <2>3, SegsStep
<1>12. NestOK'
  <2>1. \A j \in 1..o : Caller(j) + 1 <= b
    <3> SUFFICES ASSUME NEW j \in 1..o PROVE Caller(j) + 1 <= b OBVIOUS
    <3>1. Caller(j) \in Nat /\ Caller(j) < b BY <1>1, <1>2, <1>6, NestKnown
    <3> QED BY <1>3, <3>1
  <2>2. Native' => RootOK(o + 1, b)'
    <3> SUFFICES ASSUME Native PROVE RootOK(o + 1, b)' BY <1>8
    <3>1. RootOK(o + 1, b)
      <4>1. RootOK(Len(nest), Len(base)) /\ Len(nest) = Outer + 1 BY <1>1, NestKnown
      <4> QED BY <1>2, <1>6, <4>1
    <3> QED BY <3>1 DEF RootOK
  <2>3. ~Native' => ~base'[b].native BY <1>1, <1>2, <1>8 DEF NestOK
  <2>4. \A j \in 1..o : nest'[j] = nest[j] OBVIOUS
  <2>5. \A r \in 1..(Rank(b) - 1) : frames'[r] = frames[r] OBVIOUS
  <2> QED BY <1>1, <1>3, <1>4, <1>7, <1>8, <2>1, <2>2, <2>3, <2>4, <2>5, NestStep
<1> QED BY <1>10, <1>11, <1>12

\* Steps that stay in the activation.
LEMMA SameActivations ==
  ASSUME NEW bs, Good(bs), DataOK', base' = base, frames' = frames, seg' = seg, nest' = nest,
         SegOf(pc') = seg', NEW m, Keeps(m, Len(base)), Top.h <= m,
         NEW t \in 0..Len(bs), Len(handlers') = t, \A n \in 1..t : handlers'[n] = handlers[n],
         \A n \in 1..t : bs[n].h <= m, Cut(Outer) <= t,
         NEW cs, cs = SubSeq(bs, 1, t)
  PROVE  Good(cs)'
<1>1. DataOK /\ BaseOK /\ SegsOK /\ NestOK /\ BlocksOK(bs) /\ ChainsOK(bs) BY DEF Good
<1>2. PICK b : b = Len(base) OBVIOUS
<1>3. b \in Nat /\ b >= 1 /\ base[b].h <= m /\ Keeps(m, b) /\ DOMAIN base = 1..b
  BY <1>1, <1>2, TopKnown, DataKnown DEF DataFacts
<1>4. b = Len(base') BY <1>2
<1>5. b # b + 1 /\ b # 0 BY <1>3
<1>6. PICK o : o = Outer OBVIOUS
<1>7. o \in 0..Outer BY <1>1, <1>6, CutsKnown
<1>8. Native' = Native /\ Outer' = o /\ Outer = o BY <1>6 DEF Outer, Native
<1>12. BaseOK' /\ SegsOK' /\ NestOK' BY SMTT(40), SameFrames
<1>13. BlocksOK(cs)' /\ ChainsOK(cs)'
  <2>1. ASSUME NEW n \in 1..t PROVE bs[n].h <= m /\ bs[n].own <= b
    <3>1. n \in 1..Len(bs) /\ n \in DOMAIN bs
      <4>1. Len(bs) \in Nat /\ DOMAIN bs = 1..Len(bs) BY <1>1, BlockKnown
      <4> QED BY <4>1
    <3>2. bs[n].own \in DOMAIN base BY <1>1, <3>1 DEF BlocksOK, BlockOK
    <3> QED BY <1>3, <3>2
  <2>2. \A j \in 1..o : nest'[j] = nest[j] OBVIOUS
  <2>3. Cut(o) <= t BY <1>6
  <2> QED BY ZenonT(60), <1>1, <1>3, <1>4, <1>5, <1>7, <1>8, <2>1, <2>2, <2>3, BlocksStep
<1> QED BY <1>12, <1>13 DEF Good

\* The nested run has ended, and region_interp_call gives back what it saved.
LEMMA AfterRestore ==
  ASSUME NEW bs, Good(bs), ~Native, nest # <<>>, Restored, stack' \in Seq(Word),
         NEW m \in Nat, m <= Height, m <= Len(stack'), \A i \in 1..m : stack'[i] = stack[i],
         \A n \in 1..Cut(Outer) : bs[n].h <= m, base[Caller(Outer)].h <= m,
         NEW cs, cs = SubSeq(bs, 1, Cut(Outer))
  PROVE  /\ Good(cs)' /\ Native'
         /\ handlerSp' = Register(cs, Outer, Len(cs))'
<1>1. DataOK /\ BaseOK /\ SegsOK /\ NestOK /\ BlocksOK(bs) /\ ChainsOK(bs) BY DEF Good
<1>2. /\ Outer = Len(nest) /\ Len(nest) \in Nat /\ Len(nest) >= 1
      /\ DOMAIN nest = 1..Len(nest) /\ nest \in Seq(NestedFrame)
  <2>1. Len(nest) \in Nat /\ DOMAIN nest = 1..Len(nest) /\ nest \in Seq(NestedFrame)
    BY <1>1, DataKnown DEF DataFacts, DataOK
  <2>2. Len(nest) # 0 BY <2>1
  <2> QED BY <2>1, <2>2 DEF Outer
<1>3. PICK q : q = Outer OBVIOUS
<1>4. q \in Nat /\ q >= 1 /\ q = Len(nest) /\ q \in 1..Outer BY <1>2, <1>3
<1>5. PICK s : s = nest[q].saved OBVIOUS
<1>6. s \in Registered BY <1>1, <1>4, <1>5, CutsKnown
<1>7. /\ pc' = s.pc /\ seg' = s.seg /\ frames' = SubSeq(frames, 1, s.depth)
      /\ handlerSp' = s.handlerSp /\ handlers' = SubSeq(handlers, 1, s.hdepth)
      /\ nest' = [nest EXCEPT ![q].saved = None]
      /\ base' = SubSeq(base, 1, s.caller) /\ gc' = gc
  BY <1>4, <1>5 DEF Restored, Last
<1>8. PICK b : b = s.caller OBVIOUS
<1>9. b = Caller(q) /\ b \in Nat /\ b >= 1 /\ b < Len(base) /\ b \in 0..Len(base)
  <2>1. b = Caller(q) BY <1>5, <1>8 DEF Caller
  <2>2. b \in Nat /\ b >= 1 /\ b < Len(base) BY <1>1, <1>4, <2>1, NestKnown
  <2>3. Len(base) \in Nat BY <1>1, DataKnown DEF DataFacts
  <2> QED BY <2>1, <2>2, <2>3
<1>10. PICK t : t = s.hdepth OBVIOUS
<1>11. t = Cut(q) /\ t \in Nat /\ t <= Len(bs) /\ Len(bs) = Len(handlers) /\ t \in 0..Len(bs)
  <2>1. t = Cut(q) BY <1>4, <1>5, <1>10 DEF Cut
  <2>2. t \in Nat BY <1>6, <1>10 DEF Registered
  <2>3. t <= Len(bs) BY <1>1, <1>4, <2>1 DEF ChainsOK
  <2>4. Len(bs) = Len(handlers) BY <1>1 DEF BlocksOK
  <2>5. Len(bs) \in Nat BY <1>1, BlockKnown
  <2> QED BY <2>1, <2>2, <2>3, <2>4, <2>5
<1>12. PICK d : d = s.depth OBVIOUS
<1>13. /\ d = Rank(b) - 1 /\ d \in Nat /\ d <= Len(frames) /\ d \in 0..Len(frames)
       /\ Rank(b) \in Nat /\ s.seg.c = frames[Rank(b)].c /\ SegOf(s.pc) = s.seg
  <2>1. FrameOK(q) BY <1>1, <1>4, NestKnown
  <2>2. d = Rank(b) - 1 /\ s.seg.c = frames[Rank(b)].c /\ SegOf(s.pc) = s.seg
    BY <1>5, <1>9, <1>12, <2>1 DEF FrameOK
  <2>3. d \in Nat BY <1>6, <1>12 DEF Registered
  <2>4. Rank(b) <= Rank(Len(base)) /\ Rank(Len(base)) \in Nat /\ Rank(b) \in Nat
    BY <1>9, RankKnown DEF RankFacts
  <2>5. Len(frames) = Rank(Len(base)) - 1 BY <1>1 DEF SegsOK, Interpreted
  <2> QED BY <2>2, <2>3, <2>4, <2>5
<1>14. /\ base' \in Seq([code : Codes, h : Nat, native : BOOLEAN]) /\ Len(base') = b
       /\ \A i \in 1..b : base'[i] = base[i]
  <2>1. base \in Seq([code : Codes, h : Nat, native : BOOLEAN]) BY <1>1 DEF DataOK
  <2>2. base' = SubSeq(base, 1, b) /\ b \in 0..Len(base) BY <1>7, <1>8, <1>9
  <2> QED BY <2>1, <2>2, Prefix
<1>15. /\ frames' \in Seq(Segment) /\ Len(frames') = d
       /\ \A i \in 1..d : frames'[i] = frames[i]
  <2>1. frames \in Seq(Segment) BY <1>1 DEF DataOK
  <2> QED BY <1>7, <1>12, <1>13, <2>1, Prefix
<1>16. /\ handlers' \in Seq([depth : Nat, c : Codes, at : Nat]) /\ Len(handlers') = t
       /\ \A i \in 1..t : handlers'[i] = handlers[i]
  <2>1. handlers \in Seq([depth : Nat, c : Codes, at : Nat]) BY <1>1 DEF DataOK
  <2>2. t \in 0..Len(handlers) BY <1>11
  <2> QED BY <1>7, <1>10, <2>1, <2>2, Prefix
<1>17. /\ nest' \in Seq(NestedFrame) /\ Len(nest') = q
       /\ \A j \in 1..(q - 1) : nest'[j] = nest[j]
       /\ nest'[q].top = nest[q].top /\ nest'[q].saved = None
  <2>1. /\ q \in 1..Len(nest) /\ nest[q] \in NestedFrame
    BY <1>1, <1>4, DataKnown DEF DataFacts
  <2>2. [nest[q] EXCEPT !.saved = None] \in NestedFrame BY <2>1 DEF NestedFrame
  <2>3. nest' = [nest EXCEPT ![q] = [nest[q] EXCEPT !.saved = None]] BY <1>7
  <2>4. nest' \in Seq(NestedFrame) BY <1>2, <2>1, <2>2, <2>3, Replaced
  <2>5. nest'[q] = [nest[q] EXCEPT !.saved = None] BY <1>2, <2>1, <2>3
  <2>6. nest'[q].top = nest[q].top /\ nest'[q].saved = None BY <2>1, <2>5 DEF NestedFrame
  <2>7. Len(nest') = q /\ \A j \in 1..(q - 1) : nest'[j] = nest[j] BY <1>2, <1>4, <2>3
  <2> QED BY <2>4, <2>6, <2>7
<1>18. DataOK'
  <2>1. pc' \in Address /\ seg' \in Segment /\ handlerSp' \in Nat
    BY <1>6, <1>7 DEF Registered, Address, Segment
  <2>2. gc' \in Nat BY <1>1, <1>7 DEF DataOK
  <2> QED BY <1>14, <1>15, <1>16, <1>17, <2>1, <2>2 DEF DataOK
<1>19. Keeps(m, b)
  <2>1. Height \in Nat /\ Len(base) \in Nat BY <1>1, DataKnown DEF DataFacts
  <2> QED BY <1>9, <1>14, <2>1 DEF Keeps
<1>20. Native' /\ Outer' = q - 1
  <2>1. Native'
    <3>1. nest' # <<>> BY <1>4, <1>17
    <3>2. Last(nest)' = nest'[q] BY <1>17 DEF Last
    <3> QED BY <1>17, <3>1, <3>2 DEF Native
  <2> QED BY <1>17, <2>1 DEF Outer
<1>21. PICK o : o = q - 1 OBVIOUS
<1>22. o \in 0..Outer /\ Outer' = o /\ o # Outer /\ o + 1 = q /\ (\A j \in 1..o : nest'[j] = nest[j])
  BY <1>3, <1>4, <1>17, <1>20, <1>21
<1>23. b = Len(base') /\ base[b].h <= m /\ b # b + 1 /\ b # 0 BY <1>3, <1>9, <1>14
<1>24. BaseOK' BY <1>1, <1>9, <1>18, <1>19, <1>23, BaseStep
<1>25. \A r \in 1..(Rank(b) - 1) : frames'[r] = frames[r] BY <1>13, <1>15
<1>26. SegsOK'
  <2>1. Interpreted' = Rank(b)' /\ Rank(b)' = Rank(b)
    <3>1. b \in 0..b BY <1>9
    <3>2. Rank(b)' = Rank(b) BY <1>9, <1>19, <3>1, RankKept
    <3> QED BY <1>14, <3>2 DEF Interpreted, Rank
  <2>2. Len(frames') = Interpreted' - 1 BY <1>13, <1>15, <2>1
  <2>3. SegOf(pc') = seg' BY <1>7, <1>13
  <2>4. ASSUME NEW i \in 1..b, ~base[i].native, Rank(i) = Rank(b) PROVE SegAt(i)'.c = base[i].code
    <3>1. Rank(i)' = Rank(i)
      <4>1. i \in 0..b OBVIOUS
      <4> QED BY <1>9, <1>19, <4>1, RankKept
    <3>2. SegAt(i)' = seg' BY <2>1, <2>4, <3>1 DEF SegAt
    <3>3. Rank(b) < Interpreted
      <4>1. PICK x : x = b + 1 OBVIOUS
      <4>2. x \in Nat /\ b < x /\ x <= Len(base) /\ Len(base) \in Nat
        BY <1>1, <1>9, <4>1, DataKnown DEF DataFacts
      <4>3. ~base[x].native
        <5>1. FrameOK(q) BY <1>1, <1>4, NestKnown
        <5> QED BY <1>9, <4>1, <5>1 DEF FrameOK
      <4>4. Rank(b) < Rank(x) BY <1>9, <4>2, <4>3, RankKnown DEF RankFacts
      <4>5. Rank(x) <= Rank(Len(base)) BY <4>2, RankKnown DEF RankFacts
      <4>6. Rank(x) \in Nat /\ Rank(Len(base)) \in Nat BY <4>2, RankKnown DEF RankFacts
      <4> QED BY <1>13, <4>4, <4>5, <4>6 DEF Interpreted
    <3>4. SegAt(i) = frames[Rank(b)]
      <4>1. Rank(i) # Interpreted BY <1>13, <2>4, <3>3
      <4> QED BY <2>4, <4>1 DEF SegAt
    <3>5. SegAt(i).c = base[i].code
      <4>1. i \in DOMAIN base BY <1>1, <1>9, DataKnown DEF DataFacts
      <4> QED BY <1>1, <2>4, <4>1 DEF SegsOK
    <3> QED BY <1>7, <1>13, <3>2, <3>4, <3>5
  <2> QED BY <1>1, <1>9, <1>18, <1>19, <1>23, <1>25, <2>2, <2>3, <2>4, SegsStep
<1>27. NestOK'
  <2>1. \A j \in 1..o : Caller(j) + 1 <= b
    <3> SUFFICES ASSUME NEW j \in 1..o PROVE Caller(j) + 1 <= b OBVIOUS
    <3>1. j \in 1..Outer /\ j < q BY <1>3, <1>4, <1>21
    <3>2. Caller(j) \in Nat /\ Caller(j) < Caller(q) BY <1>1, <1>4, <3>1, NestKnown DEF NestOK
    <3> QED BY <1>9, <3>2
  <2>2. RootOK(o + 1, b)'
    <3>1. RootOK(q, b) BY <1>1, <1>4, <1>9, NestKnown
    <3>2. RootOK(q, b)' BY <1>9, <1>17, <1>19, <3>1, RootKept
    <3> QED BY <1>22, <3>2
  <2> QED BY <1>1, <1>9, <1>18, <1>19, <1>20, <1>22, <1>23, <1>25, <2>1, <2>2, NestStep
<1>28. BlocksOK(cs)' /\ ChainsOK(cs)'
  <2>1. ASSUME NEW n \in 1..t PROVE bs[n].h <= m /\ bs[n].own <= b
    <3>1. n \in 1..Len(bs) /\ n \in DOMAIN bs /\ n <= t
      <4>1. Len(bs) \in Nat /\ DOMAIN bs = 1..Len(bs) BY <1>1, BlockKnown
      <4> QED BY <1>11, <4>1
    <3>2. bs[n].own <= b BY <1>1, <1>4, <1>9, <1>11, <3>1 DEF ChainsOK
    <3> QED BY <1>3, <1>11, <3>2
  <2>2. Cut(o) <= t
    <3>1. o \in 0..Outer /\ q \in 0..Outer /\ o < q BY <1>3, <1>4, <1>21
    <3> QED BY <1>1, <1>11, <3>1 DEF ChainsOK
  <2>3. o # Outer => t = Cut(o + 1) BY <1>11, <1>22
  <2>4. cs = SubSeq(bs, 1, t) BY <1>3, <1>11
  <2>5. \A n \in 1..t : handlers'[n] = handlers[n] BY <1>16
  <2> QED BY <1>1, <1>9, <1>11, <1>16, <1>18, <1>19, <1>22, <1>23, <2>1, <2>2, <2>3, <2>4, <2>5, BlocksStep
<1>29. handlerSp' = Register(cs, Outer, Len(cs))'
  <2>1. s.handlerSp = Register(bs, o, t)
    <3>1. nest[q].saved.handlerSp = Register(bs, q - 1, Cut(q)) BY <1>1, <1>4 DEF ChainsOK
    <3> QED BY <1>5, <1>11, <1>21, <3>1
  <2>2. Cut(o)' = Cut(o) /\ Cut(o) <= t /\ Cut(o) \in Nat
    <3>1. o \in 0..Outer /\ q \in 0..Outer /\ o < q BY <1>3, <1>4, <1>21
    <3>2. Cut(o) <= t /\ Cut(o) \in Nat BY <1>1, <1>11, <3>1, CutsKnown DEF ChainsOK
    <3>3. o # 0 => o \in 1..o BY <1>4, <1>21
    <3> QED BY <1>22, <3>2, <3>3 DEF Cut
  <2>3. Len(cs) = t /\ (t # 0 => cs[t] = bs[t])
    <3>1. bs \in Seq([h : Nat, own : Nat]) BY <1>1, BlockKnown
    <3>2. cs = SubSeq(bs, 1, t) BY <1>3, <1>11
    <3>3. t \in 0..Len(bs) BY <1>11
    <3>4. Len(cs) = t /\ \A i \in 1..t : cs[i] = bs[i] BY ONLY <3>1, <3>2, <3>3, Prefix
    <3>5. t # 0 => t \in 1..t BY <3>3
    <3> QED BY <3>4, <3>5
  <2>4. Register(cs, o, t)' = Register(bs, o, t)
    <3>1. t # Cut(o) => t # 0 BY <1>11, <2>2
    <3> QED BY <2>2, <2>3, <3>1 DEF Register
  <2>5. Register(cs, Outer, Len(cs))' = Register(cs, o, t)'
    BY <1>22, <2>3 DEF Register, Cut
  <2> QED BY <1>7, <2>1, <2>4, <2>5
<1> QED BY <1>18, <1>20, <1>24, <1>26, <1>27, <1>28, <1>29 DEF Good

\* The handler register leads to the last block, when it leads to one.
LEMMA LastBlock ==
  ASSUME NEW bs, Good(bs), handlerSp = Register(bs, Outer, Len(bs)), handlerSp # 0,
         NEW n, n = Len(bs), NEW w, w = bs[n].own, NEW h, h = handlerSp
  PROVE  /\ n \in 1..Len(bs) /\ n - 1 \in 0..Len(bs) /\ n \in Nat /\ n >= 1
         /\ h = bs[n].h /\ BlockOK(bs[n], n) /\ h \in Nat /\ h - 2 \in 0..Height
         /\ w \in 1..Len(base) /\ w \in Nat /\ base[w].h <= h - 2 /\ base[w].h \in Nat
         /\ ~base[w].native
         /\ Cut(Outer) <= n - 1
         /\ \A j \in 1..Outer : Caller(j) + 1 <= w
         /\ \A i \in 1..(n - 1) : bs[i].h <= h - 2 /\ bs[i].own <= w
         /\ stack[h - 1].hsp = Register(bs, Outer, n - 1)
         /\ stack[h].pc \in Address /\ stack[h - 1].hsp \in Nat
<1>1. DataOK /\ BaseOK /\ SegsOK /\ NestOK /\ BlocksOK(bs) /\ ChainsOK(bs) BY DEF Good
<1>2. /\ Len(bs) \in Nat /\ DOMAIN bs = 1..Len(bs)
      /\ \A i \in 1..Len(bs) : bs[i].h \in Nat /\ bs[i].h > 1 /\ bs[i].h <= Height /\ bs[i].own \in Nat
  BY <1>1, BlockKnown
<1>3. Outer \in Nat /\ \A j \in 0..Outer : Cut(j) \in Nat BY <1>1, CutsKnown
<1>4. Cut(Outer) <= n
  <2>1. Outer # 0 => Outer \in 1..Outer BY <1>3
  <2> QED BY <1>1, <1>2, <1>3, <2>1 DEF ChainsOK, Cut
<1>5. n # Cut(Outer) /\ h = bs[n].h BY DEF Register
<1>6. Cut(Outer) \in Nat /\ Cut(Outer) <= n - 1 /\ n >= 1 /\ n \in 1..Len(bs) /\ n - 1 \in 0..Len(bs)
  BY <1>2, <1>3, <1>4, <1>5
<1>7. BlockOK(bs[n], n) BY <1>1, <1>2, <1>6 DEF BlocksOK
<1>8. /\ h \in DOMAIN stack /\ stack[h].k = "pc" /\ stack[h - 1].k = "hsp"
      /\ w \in DOMAIN base /\ ~base[w].native /\ h > base[w].h + 1
      /\ \A i \in DOMAIN base : i > w => h <= Floor(i)
  BY <1>5, <1>7 DEF BlockOK
<1>9. h \in Nat /\ h > 1 /\ h <= Height BY <1>2, <1>5, <1>6
<1>10. DataFacts /\ BaseFacts BY <1>1, DataKnown, BaseKnown
<1>11. w \in 1..Len(base) /\ w \in Nat /\ base[w].h \in Nat BY <1>8, <1>10 DEF DataFacts
<1>12. base[w].h <= h - 2 BY <1>8, <1>9, <1>11
<1>13. h - 2 \in 0..Height BY <1>9, <1>10 DEF DataFacts
<1>14. ASSUME NEW j \in 1..Outer PROVE Caller(j) + 1 <= w
  <2>1. ~ (n <= Cut(j))
    <3>1. j \in 0..Outer /\ Outer \in 0..Outer /\ (j = Outer \/ j < Outer) BY <1>3
    <3>2. Cut(j) <= Cut(Outer) BY <1>1, <1>3, <3>1 DEF ChainsOK
    <3> QED BY <1>3, <1>6, <3>1, <3>2
  <2>2. ~ (bs[n].own <= Caller(j)) BY <1>1, <1>2, <1>6, <2>1 DEF ChainsOK
  <2>3. Caller(j) \in Nat BY <1>1, NestKnown
  <2> QED BY <1>11, <2>2, <2>3
<1>15. ASSUME NEW i \in 1..(n - 1) PROVE bs[i].h <= h - 2 /\ bs[i].own <= w
  <2>1. i \in DOMAIN bs /\ n \in DOMAIN bs /\ i < n BY <1>2, <1>6
  <2>2. bs[i].h < h BY <1>1, <1>5, <2>1 DEF BlocksOK
  <2>3. stack[bs[i].h].k = "pc" /\ bs[i].own \in DOMAIN base /\ bs[i].h > base[bs[i].own].h + 1
    BY <1>1, <2>1 DEF BlocksOK, BlockOK
  <2>4. bs[i].h # h - 1 BY <1>8, <2>3
  <2>5. bs[i].h \in Nat BY <1>2, <2>1
  <2>6. bs[i].own <= w
    <3> SUFFICES ASSUME ~ (bs[i].own <= w) PROVE FALSE OBVIOUS
    <3>1. PICK v : v = bs[i].own OBVIOUS
    <3>2. v \in 1..Len(base) /\ v > w /\ bs[i].h > base[v].h + 1 /\ v \in DOMAIN base
      BY SMTT(40), <1>10, <1>11, <2>3, <3>1 DEF DataFacts
    <3>3. h <= Floor(v) BY <1>8, <3>2
    <3>4. Floor(v) \in Nat /\ base[v].h = Floor(v) + 2 + Arity[base[v].code]
          /\ Arity[base[v].code] \in Nat /\ base[v].h \in Nat
      BY <1>10, <3>2 DEF BaseFacts
    <3> QED BY SMTT(40), <1>9, <2>2, <2>5, <3>2, <3>3, <3>4
  <2> QED BY <1>9, <2>2, <2>4, <2>5, <2>6
<1>16. stack[h - 1].hsp = Register(bs, Outer, n - 1)
  <2>1. stack[h - 1].hsp = IF \E j \in 0..Outer : Cut(j) = n - 1 THEN 0 ELSE bs[n - 1].h
    BY <1>1, <1>2, <1>5, <1>6 DEF ChainsOK
  <2>2. (\E j \in 0..Outer : Cut(j) = n - 1) <=> n - 1 = Cut(Outer)
    <3>1. Outer \in 0..Outer BY <1>3
    <3>2. ASSUME NEW j \in 0..Outer, Cut(j) = n - 1 PROVE n - 1 = Cut(Outer)
      <4>1. j = Outer \/ j < Outer BY <1>3
      <4>2. j < Outer => Cut(j) <= Cut(Outer) BY <1>1, <3>1 DEF ChainsOK
      <4> QED BY <1>2, <1>3, <1>6, <3>2, <4>1, <4>2
    <3> QED BY <3>1, <3>2
  <2> QED BY <2>1, <2>2 DEF Register
<1>17. stack[h] \in Word /\ stack[h - 1] \in Word
  <2>1. h \in 1..Height /\ h - 1 \in 1..Height BY <1>9, <1>10 DEF DataFacts
  <2> QED BY <1>10, <2>1 DEF DataFacts
<1>18. stack[h].pc \in Address /\ stack[h - 1].hsp \in Nat BY <1>8, <1>17 DEF Word, Data, Zero
<1>19. n \in Nat BY <1>2
<1> QED BY <1>5, <1>6, <1>7, <1>8, <1>9, <1>11, <1>12, <1>13, <1>14, <1>15, <1>16, <1>18, <1>19

\* The register after the last block is gone.
LEMMA RegisterKept ==
  ASSUME NEW bs, Good(bs), NEW t \in 0..Len(bs), Cut(Outer) <= t, Outer' = Outer,
         \A j \in 1..Outer : nest'[j] = nest[j], NEW cs, cs = SubSeq(bs, 1, t)
  PROVE  Register(cs, Outer, Len(cs))' = Register(bs, Outer, t)
<1>1. DataOK /\ NestOK /\ BlocksOK(bs) BY DEF Good
<1>2. PICK o : o = Outer OBVIOUS
<1>3. o \in Nat /\ Cut(o) \in Nat /\ Outer' = o BY <1>1, <1>2, CutsKnown
<1>4. Cut(o)' = Cut(o)
  <2>1. o # 0 => o \in 1..o BY <1>3
  <2> QED BY <1>2, <2>1 DEF Cut
<1>5. bs \in Seq([h : Nat, own : Nat]) BY <1>1, BlockKnown
<1>6. Len(cs) = t /\ \A i \in 1..t : cs[i] = bs[i] BY ONLY <1>5, Prefix, t \in 0..Len(bs), cs = SubSeq(bs, 1, t)
<1>7. t \in Nat
  <2>1. Len(bs) \in Nat BY <1>5, Elements
  <2> QED BY <2>1
<1>8. t # Cut(o) => cs[t] = bs[t]
  <2>1. t # Cut(o) => t \in 1..t BY <1>2, <1>3, <1>7
  <2> QED BY <1>6, <2>1
<1>9. Register(cs, o, t)' = Register(bs, o, t) BY <1>4, <1>8 DEF Register
<1>10. Register(cs, Outer, Len(cs))' = Register(cs, o, t)' BY <1>3, <1>6 DEF Register, Cut
<1> QED BY <1>2, <1>9, <1>10

\* A nested run that ends with a raise leaves the stack as it is.
LEMMA RunFails ==
  ASSUME NEW bs, Good(bs), ~Native, nest # <<>>, Restored, stack' = stack, status' = "raising"
  PROVE  MachineInv'
<1>1. DataOK /\ NestOK /\ BlocksOK(bs) /\ ChainsOK(bs) BY DEF Good
<1>2. DataFacts /\ BaseFacts
  <2>1. BaseOK BY DEF Good
  <2> QED BY <1>1, <2>1, DataKnown, BaseKnown
<1>3. PICK m : m = Height OBVIOUS
<1>4. PICK cs : cs = SubSeq(bs, 1, Cut(Outer)) OBVIOUS
<1>5. m \in Nat /\ m <= Height /\ m <= Len(stack') /\ stack' \in Seq(Word)
      /\ \A i \in 1..m : stack'[i] = stack[i]
  BY <1>1, <1>2, <1>3 DEF DataFacts, DataOK
<1>6. Outer >= 1 /\ Outer \in Nat
  <2>1. nest \in Seq(NestedFrame) BY <1>1 DEF DataOK
  <2>2. Len(nest) # 0 BY <2>1
  <2> QED BY <2>1, <2>2, Elements DEF Outer
<1>7. \A n \in 1..Cut(Outer) : bs[n].h <= m
  <2> SUFFICES ASSUME NEW n \in 1..Cut(Outer) PROVE bs[n].h <= m OBVIOUS
  <2>1. Cut(Outer) <= Len(bs) /\ Cut(Outer) \in Nat /\ Len(bs) \in Nat
    <3>1. Outer \in 1..Outer /\ Outer \in 0..Outer BY <1>6
    <3> QED BY <1>1, <3>1, CutsKnown, BlockKnown DEF ChainsOK
  <2>2. n \in 1..Len(bs) BY <2>1
  <2> QED BY <1>1, <1>3, <2>2, BlockKnown
<1>8. base[Caller(Outer)].h <= m
  <2>1. Outer \in 1..Outer BY <1>6
  <2>2. Caller(Outer) \in 1..Len(base)
    <3>1. BaseOK BY DEF Good
    <3>2. Caller(Outer) \in Nat /\ Caller(Outer) >= 1 /\ Caller(Outer) < Len(base)
      BY <1>1, <2>1, <3>1, NestKnown
    <3> QED BY <1>2, <3>2 DEF DataFacts
  <2> QED BY <1>2, <1>3, <2>2 DEF BaseFacts
<1>9. Good(cs)' /\ Native' /\ handlerSp' = Register(cs, Outer, Len(cs))'
  BY <1>4, <1>5, <1>7, <1>8, AfterRestore
<1>10. PhaseOK' /\ RegisterOK(cs)' BY <1>9 DEF PhaseOK, RegisterOK
<1> QED BY <1>9, <1>10 DEF MachineInv, Good

\* An interpreter error ends the run.
LEMMA AfterFail ==
  ASSUME NEW bs, Good(bs), ~Native, NEW kind, Fails(kind)
  PROVE  MachineInv'
<1>1. CASE nest = <<>>
  <2>1. status' = "error" BY <1>1 DEF Fails
  <2> QED BY <2>1 DEF MachineInv, Live
<1>2. CASE nest # <<>>
  <2>1. Restored /\ status' = "raising" /\ stack' = stack BY <1>2 DEF Fails
  <2> QED BY <1>2, <2>1, RunFails
<1> QED BY <1>1, <1>2

\* do_raise_ex reaches the last block, or leaves the run.
LEMMA AfterRaise ==
  ASSUME NEW bs, Good(bs), handlerSp = Register(bs, Outer, Len(bs)), ~Native,
         NEW x, DoRaiseEx(x)
  PROVE  MachineInv'
<1>1. DataOK /\ BaseOK /\ SegsOK /\ NestOK /\ BlocksOK(bs) /\ ChainsOK(bs) BY DEF Good
<1>2. DataFacts /\ BaseFacts BY <1>1, DataKnown, BaseKnown
<1>3. CASE handlerSp # 0
  <2>1. PICK n : n = Len(bs) OBVIOUS
  <2>2. PICK w : w = bs[n].own OBVIOUS
  <2>3. PICK h : h = handlerSp OBVIOUS
  <2>4. /\ n \in 1..Len(bs) /\ n - 1 \in 0..Len(bs) /\ n \in Nat /\ n >= 1
        /\ h = bs[n].h /\ BlockOK(bs[n], n) /\ h \in Nat /\ h - 2 \in 0..Height
        /\ w \in 1..Len(base) /\ w \in Nat /\ base[w].h <= h - 2 /\ base[w].h \in Nat
        /\ ~base[w].native
        /\ Cut(Outer) <= n - 1
        /\ \A j \in 1..Outer : Caller(j) + 1 <= w
        /\ \A i \in 1..(n - 1) : bs[i].h <= h - 2 /\ bs[i].own <= w
        /\ stack[h - 1].hsp = Register(bs, Outer, n - 1)
        /\ stack[h].pc \in Address /\ stack[h - 1].hsp \in Nat
    BY ZenonT(40), <1>3, <2>1, <2>2, <2>3, LastBlock
  <2>5. PICK m : m = h - 2 OBVIOUS
  <2>6. m \in Nat /\ m \in 0..Height /\ Height \in Nat /\ Len(base) \in Nat
    BY <1>2, <2>4, <2>5 DEF DataFacts
  <2>7. Cardinality({i \in DOMAIN base : base[i].h < h}) = w
    <3>1. {i \in DOMAIN base : base[i].h < h} = 1..w
      <4>1. ASSUME NEW i \in 1..Len(base) PROVE base[i].h < h <=> i <= w
        <5>1. base[i].h \in Nat BY <1>2 DEF DataFacts
        <5>4. h \in Nat /\ base[w].h \in Nat /\ base[w].h <= h - 2 /\ w \in Nat BY <2>4
        <5>2. CASE i <= w
          <6>1. base[i].h <= base[w].h
            <7>1. i < w => base[i].h + 2 <= base[w].h BY <1>2, <2>4 DEF BaseFacts
            <7> QED BY <2>4, <5>1, <5>2, <7>1
          <6> QED BY <5>1, <5>2, <5>4, <6>1
        <5>3. CASE i > w
          <6>1. i \in DOMAIN base BY <1>2 DEF DataFacts
          <6>2. h <= Floor(i) BY <2>2, <2>4, <5>3, <6>1 DEF BlockOK
          <6>3. Floor(i) \in Nat /\ base[i].h = Floor(i) + 2 + Arity[base[i].code]
                /\ Arity[base[i].code] \in Nat
            BY <1>2 DEF BaseFacts
          <6> QED BY <5>1, <5>3, <5>4, <6>2, <6>3
        <5> QED BY <2>4, <5>2, <5>3
      <4>2. DOMAIN base = 1..Len(base) BY <1>2 DEF DataFacts
      <4> QED BY SMTT(40), <2>4, <2>6, <4>1, <4>2
    <3>2. Cardinality(1..w) = w BY <2>4, FS_Interval
    <3> QED BY <3>1, <3>2
  <2>8. /\ stack' = SubSeq(stack, 1, m) /\ handlerSp' = stack[h - 1].hsp
        /\ pc' = stack[h].pc /\ seg' = [c |-> Last(handlers).c, at |-> Last(handlers).at]
        /\ frames' = HandlerFrames /\ handlers' = HandlersLeft
        /\ base' = SubSeq(base, 1, w)
        /\ status' = "running" /\ nest' = nest /\ gc' = gc
    BY <1>3, <2>3, <2>5, <2>7 DEF DoRaiseEx
  <2>9. Len(handlers) = n /\ handlers \in Seq([depth : Nat, c : Codes, at : Nat])
    BY <1>1, <2>1 DEF BlocksOK, DataOK
  <2>10. /\ Last(handlers) = handlers[n] /\ handlers[n] \in [depth : Nat, c : Codes, at : Nat]
         /\ handlers[n].c \in Codes /\ handlers[n].at \in Nat
         /\ handlers' \in Seq([depth : Nat, c : Codes, at : Nat]) /\ Len(handlers') = n - 1
         /\ \A i \in 1..(n - 1) : handlers'[i] = handlers[i]
    <3>1. Len(handlers) > 0 BY <2>4, <2>9
    <3>2. /\ Front(handlers) \in Seq([depth : Nat, c : Codes, at : Nat])
          /\ Len(Front(handlers)) = n - 1
          /\ \A i \in 1..(n - 1) : Front(handlers)[i] = handlers[i]
          /\ Last(handlers) = handlers[n]
          /\ Last(handlers) \in [depth : Nat, c : Codes, at : Nat]
      BY <2>9, <3>1, Shortened
    <3> QED BY <2>8, <3>2 DEF HandlersLeft
  <2>11. PICK d : d = handlers[n].depth OBVIOUS
  <2>12. /\ d = Rank(w) - 1 /\ d \in Nat /\ Rank(w) \in Nat /\ d \in 0..Len(frames)
         /\ base[w].code = handlers[n].c
         /\ SegOf(stack[h].pc) = [c |-> handlers[n].c, at |-> handlers[n].at]
    <3>1. /\ d = Rank(w) - 1 /\ base[w].code = handlers[n].c
          /\ SegOf(stack[h].pc) = [c |-> handlers[n].c, at |-> handlers[n].at]
      BY <2>2, <2>4, <2>11 DEF BlockOK
    <3>2. d \in Nat BY <2>10, <2>11
    <3>3. Rank(w) <= Rank(Len(base)) /\ Rank(Len(base)) \in Nat /\ Rank(w) \in Nat
      BY <2>4, <2>6, RankKnown DEF RankFacts
    <3>4. Len(frames) = Rank(Len(base)) - 1 BY <1>1 DEF SegsOK, Interpreted
    <3> QED BY <3>1, <3>2, <3>3, <3>4
  <2>13. /\ base' \in Seq([code : Codes, h : Nat, native : BOOLEAN]) /\ Len(base') = w
         /\ \A i \in 1..w : base'[i] = base[i]
    <3>1. base \in Seq([code : Codes, h : Nat, native : BOOLEAN]) BY <1>1 DEF DataOK
    <3>2. w \in 0..Len(base) BY <2>4, <2>6
    <3> QED BY <2>8, <3>1, <3>2, Prefix
  <2>14. /\ frames' \in Seq(Segment) /\ Len(frames') = d /\ \A i \in 1..d : frames'[i] = frames[i]
    <3>1. frames \in Seq(Segment) BY <1>1 DEF DataOK
    <3>2. frames' = SubSeq(frames, 1, d) BY <2>8, <2>10, <2>11 DEF HandlerFrames
    <3> QED BY <2>12, <3>1, <3>2, Prefix
  <2>15. stack' \in Seq(Word) /\ Len(stack') = m /\ \A i \in 1..m : stack'[i] = stack[i]
    <3>1. stack \in Seq(Word) BY <1>1 DEF DataOK
    <3>2. m \in 0..Len(stack) BY <2>6 DEF Height
    <3> QED BY <2>8, <3>1, <3>2, Prefix
  <2>16. DataOK'
    <3>1. pc' \in Address /\ seg' \in Segment /\ handlerSp' \in Nat
      BY <2>4, <2>8, <2>10 DEF Segment
    <3>2. nest' \in Seq(NestedFrame) /\ gc' \in Nat BY <1>1, <2>8 DEF DataOK
    <3> QED BY <2>10, <2>13, <2>14, <2>15, <3>1, <3>2 DEF DataOK
  <2>17. Keeps(m, w)
    <3>1. w \in 0..Len(base) BY <2>4, <2>6
    <3> QED BY <2>4, <2>6, <2>13, <2>15, <3>1 DEF Keeps
  <2>18. PICK o : o = Outer OBVIOUS
  <2>19. o \in 0..Outer /\ Outer' = o /\ o = Outer /\ Native' = Native
    <3>1. o \in 0..Outer BY <1>1, <2>18, CutsKnown
    <3> QED BY <2>8, <2>18, <3>1 DEF Outer, Native
  <2>20. w = Len(base') /\ base[w].h <= m /\ w # w + 1 /\ w >= 1 /\ w # 0 BY <2>4, <2>5, <2>13
  <2>21. BaseOK' BY <1>1, <2>4, <2>16, <2>17, <2>20, BaseStep
  <2>22. \A r \in 1..(Rank(w) - 1) : frames'[r] = frames[r] BY <2>12, <2>14
  <2>23. SegsOK'
    <3>1. Interpreted' = Rank(w)' /\ Rank(w)' = Rank(w)
      <4>1. w \in 0..w BY <2>4
      <4>2. Rank(w)' = Rank(w) BY <2>4, <2>17, <4>1, RankKept
      <4> QED BY <2>13, <4>2 DEF Interpreted, Rank
    <3>2. Len(frames') = Interpreted' - 1 BY <2>12, <2>14, <3>1
    <3>3. SegOf(pc') = seg' BY <2>8, <2>10, <2>12
    <3>4. ASSUME NEW i \in 1..w, ~base[i].native, Rank(i) = Rank(w) PROVE SegAt(i)'.c = base[i].code
      <4>1. Rank(i)' = Rank(i)
        <5>1. i \in 0..w OBVIOUS
        <5> QED BY <2>4, <2>17, <5>1, RankKept
      <4>2. SegAt(i)' = seg' BY <3>1, <3>4, <4>1 DEF SegAt
      <4>3. i = w
        <5> SUFFICES ASSUME i < w PROVE FALSE BY <2>4
        <5>1. i \in Nat /\ w \in Nat /\ ~base[w].native BY <2>4
        <5>2. Rank(i) < Rank(w) BY <5>1, RankKnown DEF RankFacts
        <5> QED BY <2>12, <3>4, <5>2
      <4> QED BY <2>8, <2>10, <2>12, <4>2, <4>3
    <3> QED BY <1>1, <2>4, <2>16, <2>17, <2>20, <2>22, <3>2, <3>3, <3>4, SegsStep
  <2>24. \A j \in 1..o : nest'[j] = nest[j] BY <2>8
  <2>25. NestOK'
    <3>1. \A j \in 1..o : Caller(j) + 1 <= w BY <2>4, <2>18
    <3>2. ~Native' BY <2>19
    <3>3. ~base'[w].native BY SMTT(40), <2>4, <2>13
    <3> QED BY <1>1, <2>4, <2>16, <2>17, <2>19, <2>20, <2>22, <2>24, <3>1, <3>2, <3>3, NestStep
  <2>26. PICK t : t = n - 1 OBVIOUS
  <2>27. PICK cs : cs = SubSeq(bs, 1, t) OBVIOUS
  <2>28. t \in 0..Len(bs) /\ Cut(Outer) <= t BY <2>4, <2>26
  <2>29. BlocksOK(cs)' /\ ChainsOK(cs)'
    <3>1. \A i \in 1..t : bs[i].h <= m /\ bs[i].own <= w BY <2>4, <2>5, <2>26
    <3>2. Cut(o) <= t BY <2>18, <2>28
    <3>3. Len(handlers') = t /\ \A i \in 1..t : handlers'[i] = handlers[i] BY <2>10, <2>26
    <3> QED BY <1>1, <2>4, <2>16, <2>17, <2>19, <2>20, <2>24, <2>27, <2>28, <3>1, <3>2, <3>3, BlocksStep
  <2>30. Register(cs, Outer, Len(cs))' = Register(bs, Outer, t)
    <3>1. \A j \in 1..Outer : nest'[j] = nest[j] BY <2>8
    <3>2. Outer' = Outer BY <2>19
    <3> QED BY <2>27, <2>28, <3>1, <3>2, RegisterKept
  <2>31. RegisterOK(cs)' BY <2>4, <2>8, <2>26, <2>30 DEF RegisterOK
  <2>32. PhaseOK' BY <2>8 DEF PhaseOK
  <2> QED BY <2>16, <2>21, <2>23, <2>25, <2>29, <2>31, <2>32 DEF MachineInv
<1>4. CASE handlerSp = 0 /\ nest = <<>>
  <2>1. status' = "uncaught" BY <1>4 DEF DoRaiseEx
  <2> QED BY <2>1 DEF MachineInv, Live
<1>5. CASE handlerSp = 0 /\ nest # <<>>
  <2>1. Restored /\ status' = "raising" /\ stack' = stack BY <1>5 DEF DoRaiseEx
  <2> QED BY <1>5, <2>1, RunFails
<1> QED BY <1>3, <1>4, <1>5

\* All blocks are kept with the side stack.
LEMMA WholeKept ==
  ASSUME DataOK, NestOK, NEW bs, BlocksOK(bs), ChainsOK(bs), handlers' = handlers,
         NEW o, o = Outer, NEW t, t = Len(bs)
  PROVE  /\ t \in 0..Len(bs) /\ Len(handlers') = t /\ \A n \in 1..t : handlers'[n] = handlers[n]
         /\ bs = SubSeq(bs, 1, t) /\ Cut(o) <= t
<1>1. Len(bs) \in Nat /\ Len(bs) = Len(handlers) /\ bs \in Seq([h : Nat, own : Nat])
  BY BlockKnown DEF BlocksOK
<1>2. o \in Nat BY CutsKnown
<1>3. Cut(o) <= t
  <2>1. o # 0 => o \in 1..Outer BY <1>2
  <2>2. o = 0 => Cut(o) = 0 BY DEF Cut
  <2>3. o # 0 => Cut(o) <= Len(bs) BY <2>1 DEF ChainsOK
  <2> QED BY <1>1, <2>2, <2>3
<1>4. bs = SubSeq(bs, 1, t) BY <1>1
<1> QED BY <1>1, <1>3, <1>4

\* Two words pushed.
LEMMA Pushed ==
  ASSUME NEW S, NEW s \in Seq(S), NEW x \in S, NEW y \in S
  PROVE  /\ s \o <<x, y>> \in Seq(S) /\ Len(s \o <<x, y>>) = Len(s) + 2
         /\ \A i \in 1..Len(s) : (s \o <<x, y>>)[i] = s[i]
         /\ (s \o <<x, y>>)[Len(s) + 1] = x /\ (s \o <<x, y>>)[Len(s) + 2] = y
<1>1. <<x, y>> \in Seq(S) /\ Len(<<x, y>>) = 2 OBVIOUS
<1>2. s \o <<x, y>> \in Seq(S) /\ Len(s \o <<x, y>>) = Len(s) + 2 BY <1>1
<1>3. \A i \in 1..Len(s) : (s \o <<x, y>>)[i] = s[i] OBVIOUS
<1>4. (s \o <<x, y>>)[Len(s) + 1] = x /\ (s \o <<x, y>>)[Len(s) + 2] = y OBVIOUS
<1> QED BY <1>2, <1>3, <1>4

LEMMA WordsKnown ==
  /\ Data \in Word /\ Zero \in Word
  /\ \A a \in Address : CodeAddr(a) \in Word
  /\ \A h \in Nat : SavedHandler(h) \in Word
BY DEF Word, CodeAddr, SavedHandler

\* What is known of a new activation, native if v, on the words s with the
\* return address w, above the b activations and m words that stay.
Entering(bs, c, v, s, w, m, b) ==
  /\ b \in Nat /\ b >= 1 /\ Len(base') = b + 1 /\ Keeps(m, b) /\ base[b].h <= m
  /\ base'[b + 1].code = c /\ base'[b + 1].native = v /\ base'[b + 1].h = Len(s) + 2
  /\ stack'[base'[b + 1].h - 1] = w
  /\ BaseOK'
  /\ Rank(b)' = Rank(b) /\ Rank(b) \in Nat /\ Rank(b) >= 1
  /\ Len(frames) = Rank(b) - 1 /\ Interpreted' = Rank(b) + (IF v THEN 0 ELSE 1)
  /\ \A i \in 0..b : Rank(i)' = Rank(i)
  /\ \A n \in 1..Len(bs) : /\ bs[n].h <= m /\ bs[n].own <= b
                           /\ bs[n].h <= Floor(b + 1)'
  /\ \A j \in 1..Outer : Caller(j) + 1 <= b

LEMMA Entered ==
  ASSUME NEW bs, Good(bs), DataOK', NEW c \in Codes, NEW v \in BOOLEAN, NEW s \in Seq(Word),
         NEW w \in Word, stack' = s \o <<w, Data>>,
         base' = Append(base, Activation(c, Len(s) + 2, v)),
         NEW m \in Nat, m = Len(s) - Arity[c], Top.h <= m, m <= Height,
         \A i \in 1..m : s[i] = stack[i], \A n \in 1..Len(bs) : bs[n].h <= m,
         NEW b, b = Len(base)
  PROVE  Entering(bs, c, v, s, w, m, b)
<1>1. DataOK /\ BaseOK /\ SegsOK /\ NestOK /\ BlocksOK(bs) /\ ChainsOK(bs) BY DEF Good
<1>2. b \in Nat /\ b >= 1 /\ base[b].h <= m /\ base[b].h \in Nat /\ DOMAIN base = 1..b
  BY <1>1, TopKnown, DataKnown DEF DataFacts
<1>3. Arity[c] \in Nat /\ Len(s) \in Nat
  <2>1. Arity[c] \in Nat BY MachineConstants
  <2> QED BY <2>1, Elements
<1>4. PICK a : a = Activation(c, Len(s) + 2, v) OBVIOUS
<1>5. a \in [code : Codes, h : Nat, native : BOOLEAN] /\ a.code = c /\ a.native = v /\ a.h = Len(s) + 2
  BY <1>3, <1>4 DEF Activation
<1>6. Len(base') = b + 1 /\ base'[b + 1] = a /\ \A i \in 1..b : base'[i] = base[i]
  <2>1. base \in Seq([code : Codes, h : Nat, native : BOOLEAN]) BY <1>1 DEF DataOK
  <2>2. base' = Append(base, a) BY <1>4
  <2> QED BY <1>5, <2>1, <2>2, Appended
<1>7. /\ stack' \in Seq(Word) /\ Len(stack') = Len(s) + 2
      /\ \A i \in 1..Len(s) : stack'[i] = s[i]
      /\ stack'[Len(s) + 1] = w
  BY WordsKnown, Pushed
<1>8. m <= Len(s) BY <1>3
<1>9. Keeps(m, b)
  <2>1. \A i \in 1..m : stack'[i] = stack[i] BY <1>3, <1>7, <1>8
  <2>2. m \in 0..Height /\ m <= Len(stack') BY <1>1, <1>3, <1>7, <1>8, DataKnown DEF DataFacts
  <2> QED BY <1>2, <1>6, <2>1, <2>2 DEF Keeps
<1>10. Floor(b + 1)' = m BY <1>3, <1>5, <1>6 DEF Floor
<1>11. stack'[base'[b + 1].h - 1] = w
  <2>1. base'[b + 1].h - 1 = Len(s) + 1 BY <1>3, <1>5, <1>6
  <2> QED BY <1>7, <2>1
<1>12. BaseOK'
  <2>1. Height' = Len(s) + 2 BY <1>7 DEF Height
  <2>2. base'[b + 1].h <= Height' BY <1>3, <1>5, <1>6, <2>1
  <2>3. b # 0 /\ Len(base') >= 1 BY <1>2, <1>6
  <2> QED BY <1>1, <1>2, <1>6, <1>9, <1>10, <2>2, <2>3, BaseStep
<1>13. \A i \in 0..b : Rank(i)' = Rank(i) BY <1>2, <1>9, RankKept
<1>14. Rank(b)' = Rank(b) /\ Rank(b) \in Nat /\ Rank(b) >= 1
  <2>1. Rank(b) \in Nat BY <1>2, RankKnown DEF RankFacts
  <2>2. b \in 0..b BY <1>2
  <2>3. Rank(1) <= Rank(b) /\ Rank(1) \in Nat BY <1>2, RankKnown DEF RankFacts
  <2>4. Rank(1) >= 1
    <3>1. ~base[1].native BY <1>1 DEF BaseOK
    <3>2. PICK x : x = 1 OBVIOUS
    <3>3. x \in Nat /\ 0 < x /\ ~base[x].native BY <3>1, <3>2
    <3>4. Rank(x) >= 1 BY <3>3, RankKnown DEF RankFacts
    <3> QED BY <3>2, <3>4
  <2> QED BY <1>13, <2>1, <2>2, <2>3, <2>4
<1>15. Len(frames) = Rank(b) - 1 BY <1>1 DEF SegsOK, Interpreted
<1>16. Interpreted' = Rank(b) + (IF v THEN 0 ELSE 1)
  <2>1. Interpreted' = Rank(b + 1)' BY <1>6 DEF Interpreted, Rank
  <2>2. Rank(b + 1)' = Rank(b)' + (IF base'[b + 1].native THEN 0 ELSE 1)
    BY <1>2, RankNext DEF RankFacts
  <2> QED BY <1>5, <1>6, <1>14, <2>1, <2>2
<1>17. ASSUME NEW n \in 1..Len(bs) PROVE bs[n].own <= b
  <2>1. n \in DOMAIN bs BY <1>1, BlockKnown
  <2>2. bs[n].own \in DOMAIN base BY <1>1, <2>1 DEF BlocksOK, BlockOK
  <2> QED BY <1>2, <2>2
<1>18. ASSUME NEW j \in 1..Outer PROVE Caller(j) + 1 <= b
  <2>1. Caller(j) \in Nat /\ Caller(j) < b BY <1>1, NestKnown
  <2> QED BY <1>2, <2>1
<1> QED
  BY <1>2, <1>5, <1>6, <1>9, <1>10, <1>11, <1>12, <1>13, <1>14, <1>15, <1>16, <1>17, <1>18
  DEF Entering

\* The bounds of the running code are those of its activation.
LEMMA RunningCode ==
  ASSUME DataOK, BaseOK, SegsOK, NestOK, ~Native
  PROVE  ~Top.native /\ seg.c = Top.code /\ Top = base[Len(base)]
<1>1. Top = base[Len(base)] /\ Len(base) \in Nat /\ Len(base) >= 1 BY TopKnown
<1>2. ~Top.native BY <1>1 DEF NestOK
<1>3. Len(base) \in DOMAIN base BY <1>1, DataKnown DEF DataFacts
<1>4. SegAt(Len(base)) = seg BY DEF SegAt, Interpreted
<1> QED BY <1>1, <1>2, <1>3, <1>4 DEF SegsOK

\* A call from an interpreted activation.
LEMMA AfterCall ==
  ASSUME NEW bs, Good(bs), handlerSp = Register(bs, Outer, Len(bs)), ~Native, status = "running",
         NEW c \in Codes, NEW p \in Places, NEW s \in Seq(Word), DoCall(c, p, s),
         NEW m \in Nat, m = Len(s) - Arity[c], Top.h <= m, m <= Height,
         \A i \in 1..m : s[i] = stack[i], \A n \in 1..Len(bs) : bs[n].h <= m
  PROVE  MachineInv'
<1>1. DataOK /\ BaseOK /\ SegsOK /\ NestOK /\ BlocksOK(bs) /\ ChainsOK(bs) BY DEF Good
<1>2. PICK b : b = Len(base) OBVIOUS
<1>3. PICK v : v = (c \in Regions) OBVIOUS
<1>4. PICK w : w = IF v THEN Zero ELSE CodeAddr([pc EXCEPT !.p = p]) OBVIOUS
<1>5. [pc EXCEPT !.p = p] \in Address /\ SegOf([pc EXCEPT !.p = p]) = seg
  <2>1. pc \in Address /\ SegOf(pc) = seg BY <1>1 DEF DataOK, SegsOK
  <2> QED BY <2>1 DEF Address, SegOf
<1>6. v \in BOOLEAN /\ w \in Word BY <1>3, <1>4, <1>5, WordsKnown
<1>7. /\ stack' = s \o <<w, Data>> /\ base' = Append(base, Activation(c, Len(s) + 2, v))
      /\ handlers' = handlers /\ handlerSp' = handlerSp /\ status' = status /\ gc' = gc
  BY <1>3, <1>4 DEF DoCall, outer
<1>8. Len(s) \in Nat /\ Arity[c] \in Nat
  <2>1. Arity[c] \in Nat BY MachineConstants
  <2> QED BY <2>1, Elements
<1>9. PICK o : o = Outer OBVIOUS
<1>10. o \in Nat /\ o \in 0..Outer /\ Len(nest) = o /\ Len(nest) \in Nat
       /\ nest \in Seq(NestedFrame) /\ DOMAIN nest = 1..o
  BY <1>1, <1>9, NestKnown, DataKnown DEF DataOK, DataFacts
<1>11. /\ stack' \in Seq(Word) /\ base' \in Seq([code : Codes, h : Nat, native : BOOLEAN])
       /\ handlers' \in Seq([depth : Nat, c : Codes, at : Nat])
       /\ handlerSp' \in Nat /\ gc' \in Nat
  <2>1. stack' \in Seq(Word) BY <1>6, <1>7, WordsKnown, Pushed
  <2>2. Activation(c, Len(s) + 2, v) \in [code : Codes, h : Nat, native : BOOLEAN]
    BY <1>6, <1>8 DEF Activation
  <2>3. base \in Seq([code : Codes, h : Nat, native : BOOLEAN]) BY <1>1 DEF DataOK
  <2>4. base' \in Seq([code : Codes, h : Nat, native : BOOLEAN]) BY <1>7, <2>2, <2>3, Appended
  <2> QED BY <1>1, <1>7, <2>1, <2>4 DEF DataOK
<1>12. PICK t : t = Len(bs) OBVIOUS
<1>13. /\ t \in 0..Len(bs) /\ Len(handlers') = t /\ (\A n \in 1..t : handlers'[n] = handlers[n])
       /\ bs = SubSeq(bs, 1, t) /\ Cut(o) <= t
  BY <1>1, <1>7, <1>9, <1>12, WholeKept
<1>14. seg \in Segment /\ pc \in Address /\ frames \in Seq(Segment) BY <1>1 DEF DataOK
<1>15. ~base[b].native /\ base[b].code = seg.c BY <1>1, <1>2, RunningCode
<1>16. ASSUME DataOK' PROVE Entering(bs, c, v, s, w, m, b)
  <2>1. v \in BOOLEAN /\ w \in Word BY <1>6
  <2>2. stack' = s \o <<w, Data>> BY <1>7
  <2>3. base' = Append(base, Activation(c, Len(s) + 2, v)) BY <1>7
  <2>4. b = Len(base) BY <1>2
  <2> QED BY <1>16, <2>1, <2>2, <2>3, <2>4, Entered
<1>17. ASSUME NEW i \in 1..b, b \in Nat, ~base[i].native, Rank(i) = Rank(b)
       PROVE  SegAt(i) = seg /\ seg.c = base[i].code
  <2>1. SegAt(i) = seg BY <1>2, <1>17 DEF SegAt, Interpreted
  <2>2. i \in DOMAIN base BY <1>1, <1>2, DataKnown DEF DataFacts
  <2> QED BY <1>1, <1>17, <2>1, <2>2 DEF SegsOK
<1>18. CASE v
  <2>1. /\ nest' = Append(nest, [top |-> Len(s), saved |-> None])
        /\ pc' = [pc EXCEPT !.p = p] /\ seg' = seg /\ frames' = frames
    BY <1>3, <1>18 DEF DoCall, Elsewhere
  <2>2. [top |-> Len(s), saved |-> None] \in NestedFrame BY <1>8 DEF NestedFrame
  <2>3. /\ nest' \in Seq(NestedFrame) /\ Len(nest') = o + 1
        /\ (\A j \in 1..o : nest'[j] = nest[j])
        /\ nest'[o + 1] = [top |-> Len(s), saved |-> None]
    BY <1>10, <2>1, <2>2, Appended
  <2>4. DataOK' BY <1>5, <1>11, <1>14, <2>1, <2>3 DEF DataOK
  <2>5. /\ b \in Nat /\ b >= 1 /\ Len(base') = b + 1 /\ Keeps(m, b) /\ base[b].h <= m
        /\ base'[b + 1].code = c /\ base'[b + 1].native = v /\ base'[b + 1].h = Len(s) + 2
        /\ stack'[base'[b + 1].h - 1] = w
        /\ BaseOK'
        /\ Rank(b)' = Rank(b) /\ Rank(b) \in Nat /\ Rank(b) >= 1
        /\ Len(frames) = Rank(b) - 1 /\ Interpreted' = Rank(b) + (IF v THEN 0 ELSE 1)
        /\ \A i \in 0..b : Rank(i)' = Rank(i)
        /\ \A n \in 1..Len(bs) : /\ bs[n].h <= m /\ bs[n].own <= b
                                 /\ bs[n].h <= Floor(b + 1)'
        /\ \A j \in 1..Outer : Caller(j) + 1 <= b
    BY <1>16, <2>4 DEF Entering
  <2>6. Native' /\ Outer' = o
    <3>1. Last(nest)' = nest'[o + 1] /\ nest' # <<>> BY <1>10, <2>3 DEF Last
    <3>2. Native' BY <2>3, <3>1 DEF Native
    <3> QED BY <1>10, <2>3, <3>2 DEF Outer
  <2>7. SegsOK'
    <3>1. Len(frames') = Interpreted' - 1 BY <1>18, <2>1, <2>5
    <3>2. SegOf(pc') = seg' BY <1>5, <2>1
    <3>3. \A r \in 1..(Rank(b) - 1) : frames'[r] = frames[r] BY <2>1
    <3>4. ASSUME NEW i \in 1..b, ~base[i].native, Rank(i) = Rank(b) PROVE SegAt(i)'.c = base[i].code
      <4>1. Rank(i)' = Interpreted'
        <5>1. i \in 0..b OBVIOUS
        <5> QED BY <1>18, <2>5, <3>4, <5>1
      <4>2. SegAt(i)' = seg' BY <4>1 DEF SegAt
      <4> QED BY <1>17, <2>1, <2>5, <3>4, <4>2
    <3> QED BY <1>1, <1>18, <2>4, <2>5, <3>1, <3>2, <3>3, <3>4, SegsStep
  <2>8. PICK k : k = b + 1 OBVIOUS
  <2>9. NestOK'
    <3>1. \A r \in 1..(Rank(b) - 1) : frames'[r] = frames[r] BY <2>1
    <3>2. RootOK(o + 1, k)'
      <4>1. base'[k].h = nest'[o + 1].top + 2 BY <2>3, <2>5, <2>8
      <4>2. base'[b] = base[b] /\ k - 1 = b /\ k \in 2..k /\ k..k = {k}
        <5>1. b \in Nat /\ b >= 1 BY <2>5
        <5>2. b \in 1..b BY <5>1
        <5> QED BY SMTT(40), <2>5, <2>8, <5>1, <5>2 DEF Keeps
      <4>3. base'[k].native BY <1>18, <2>5, <2>8
      <4>4. ~base'[k - 1].native BY <1>15, <4>2
      <4>5. \A x \in k..k : base'[x].native BY <4>2, <4>3
      <4> QED BY <4>1, <4>2, <4>4, <4>5 DEF RootOK
    <3>3. k = Len(base') /\ (k = b \/ k = b + 1) BY <2>5, <2>8
    <3>4. \A j \in 1..o : Caller(j) + 1 <= b BY <1>9, <2>5
    <3> QED BY <1>1, <1>10, <2>3, <2>4, <2>5, <2>6, <3>1, <3>2, <3>3, <3>4, NestStep
  <2>10. BlocksOK(bs)' /\ ChainsOK(bs)'
    <3>1. k = Len(base') /\ (k = b \/ k = b + 1) BY <2>5, <2>8
    <3>2. o = Outer BY <1>9
    <3>3. \A n \in 1..t : bs[n].h <= m /\ bs[n].own <= b /\ bs[n].h <= Floor(b + 1)' BY <1>12, <2>5
    <3>4. b \in Nat /\ Keeps(m, b) BY <2>5
    <3>5. t \in 0..Len(bs) /\ Len(handlers') = t /\ \A n \in 1..t : handlers'[n] = handlers[n]
      BY <1>13
    <3>6. Cut(o) <= t /\ bs = SubSeq(bs, 1, t) BY <1>13
    <3>7. o \in 0..Outer BY <1>10
    <3>8. Outer' = o BY <2>6
    <3>9. \A j \in 1..o : nest'[j] = nest[j] BY <2>3
    <3> QED BY <1>1, <2>4, <3>1, <3>2, <3>3, <3>4, <3>5, <3>6, <3>7, <3>8, <3>9, BlocksStep
  <2>11. RegisterOK(bs)'
    <3>1. \A j \in 1..Outer : nest'[j] = nest[j] BY <1>9, <2>3
    <3>2. Register(bs, Outer, Len(bs))' = Register(bs, Outer, t)
      BY <1>9, <1>13, <2>6, <3>1, RegisterKept
    <3> QED BY <1>7, <1>12, <3>2 DEF RegisterOK
  <2>12. PhaseOK' BY <1>7 DEF PhaseOK
  <2> QED BY <2>4, <2>5, <2>7, <2>9, <2>10, <2>11, <2>12 DEF MachineInv
<1>19. CASE ~v
  <2>1. /\ nest' = nest /\ frames' = Append(frames, seg)
        /\ seg' = Bounds(c) /\ pc' = Addr(c, 0)
    BY <1>3, <1>19 DEF DoCall, outer
  <2>2. pc' \in Address /\ seg' \in Segment /\ SegOf(pc') = seg' /\ seg'.c = c
    <3>1. gc \in Nat BY <1>1 DEF DataOK
    <3> QED BY <2>1, <3>1, MachineConstants DEF Addr, Bounds, At, Address, Segment, SegOf
  <2>3. /\ frames' \in Seq(Segment) /\ Len(frames') = Len(frames) + 1
        /\ (\A r \in 1..Len(frames) : frames'[r] = frames[r])
        /\ frames'[Len(frames) + 1] = seg
    BY <1>14, <2>1, Appended
  <2>4. DataOK' BY <1>10, <1>11, <2>1, <2>2, <2>3 DEF DataOK
  <2>5. /\ b \in Nat /\ b >= 1 /\ Len(base') = b + 1 /\ Keeps(m, b) /\ base[b].h <= m
        /\ base'[b + 1].code = c /\ base'[b + 1].native = v /\ base'[b + 1].h = Len(s) + 2
        /\ stack'[base'[b + 1].h - 1] = w
        /\ BaseOK'
        /\ Rank(b)' = Rank(b) /\ Rank(b) \in Nat /\ Rank(b) >= 1
        /\ Len(frames) = Rank(b) - 1 /\ Interpreted' = Rank(b) + (IF v THEN 0 ELSE 1)
        /\ \A i \in 0..b : Rank(i)' = Rank(i)
        /\ \A n \in 1..Len(bs) : /\ bs[n].h <= m /\ bs[n].own <= b
                                 /\ bs[n].h <= Floor(b + 1)'
        /\ \A j \in 1..Outer : Caller(j) + 1 <= b
    BY <1>16, <2>4 DEF Entering
  <2>6. Native' = Native /\ Outer' = o BY <1>9, <2>1 DEF Outer, Native
  <2>7. frames'[Rank(b)] = seg /\ \A r \in 1..(Rank(b) - 1) : frames'[r] = frames[r]
    <3>1. Rank(b) = Len(frames) + 1 BY <2>5
    <3> QED BY <2>3, <3>1
  <2>8. PICK k : k = b + 1 OBVIOUS
  <2>9. k = Len(base') /\ (k = b \/ k = b + 1) BY <2>5, <2>8
  <2>10. SegsOK'
    <3>1. Len(frames') = Interpreted' - 1 BY <1>19, <2>3, <2>5
    <3>2. ASSUME NEW i \in 1..b, ~base[i].native, Rank(i) = Rank(b) PROVE SegAt(i)'.c = base[i].code
      <4>1. Rank(i)' = Rank(b) /\ Rank(b) # Interpreted'
        <5>1. i \in 0..b OBVIOUS
        <5>2. Rank(i)' = Rank(b) BY <2>5, <3>2, <5>1
        <5>3. Interpreted' = Rank(b) + 1 /\ Rank(b) \in Nat BY <1>19, <2>5
        <5> QED BY <5>2, <5>3
      <4>2. SegAt(i)' = seg BY <2>7, <4>1 DEF SegAt
      <4> QED BY <1>17, <2>5, <3>2, <4>2
    <3>3. SegAt(b + 1)'.c = base'[b + 1].code
      <4>1. Rank(b + 1)' = Interpreted' BY <2>5 DEF Interpreted, Rank
      <4>2. SegAt(b + 1)' = seg' BY <4>1 DEF SegAt
      <4> QED BY <2>2, <2>5, <4>2
    <3>4. /\ stack'[base'[b + 1].h - 1].k = "pc"
          /\ SegOf(stack'[base'[b + 1].h - 1].pc) = frames'[Rank(b)]
      <4>1. w = CodeAddr([pc EXCEPT !.p = p]) BY <1>4, <1>19
      <4>2. w.k = "pc" /\ w.pc = [pc EXCEPT !.p = p] BY <4>1 DEF CodeAddr
      <4>3. stack'[base'[b + 1].h - 1] = w BY <2>5
      <4> QED BY <1>5, <2>7, <4>2, <4>3
    <3>5. SegOf(pc') = seg' BY <2>2
    <3>6. \A r \in 1..(Rank(b) - 1) : frames'[r] = frames[r] BY <2>7
    <3> QED BY <1>1, <1>15, <2>4, <2>5, <3>1, <3>2, <3>3, <3>4, <3>5, <3>6, SegsStep
  <2>11. \A j \in 1..o : nest'[j] = nest[j] BY <2>1
  <2>12. NestOK'
    <3>1. \A j \in 1..o : Caller(j) + 1 <= b BY <1>9, <2>5
    <3>2. ~Native' BY <2>6
    <3>3. ~base'[k].native BY <1>19, <2>5, <2>8
    <3>4. \A r \in 1..(Rank(b) - 1) : frames'[r] = frames[r] BY <2>7
    <3> QED BY <1>1, <1>10, <2>4, <2>5, <2>6, <2>9, <2>11, <3>1, <3>2, <3>3, <3>4, NestStep
  <2>13. BlocksOK(bs)' /\ ChainsOK(bs)'
    <3>1. \A n \in 1..t : bs[n].h <= m /\ bs[n].own <= b /\ bs[n].h <= Floor(b + 1)' BY <1>12, <2>5
    <3>2. o = Outer BY <1>9
    <3>3. b \in Nat /\ Keeps(m, b) BY <2>5
    <3>4. t \in 0..Len(bs) /\ Len(handlers') = t /\ \A n \in 1..t : handlers'[n] = handlers[n]
      BY <1>13
    <3>5. Cut(o) <= t /\ bs = SubSeq(bs, 1, t) BY <1>13
    <3>6. o \in 0..Outer BY <1>10
    <3>7. Outer' = o BY <2>6
    <3> QED BY <1>1, <2>4, <2>9, <2>11, <3>1, <3>2, <3>3, <3>4, <3>5, <3>6, <3>7, BlocksStep
  <2>14. RegisterOK(bs)'
    <3>1. \A j \in 1..Outer : nest'[j] = nest[j] BY <2>1
    <3>2. Register(bs, Outer, Len(bs))' = Register(bs, Outer, t)
      BY <1>9, <1>13, <2>6, <3>1, RegisterKept
    <3> QED BY <1>7, <1>12, <3>2 DEF RegisterOK
  <2>15. PhaseOK' BY <1>7 DEF PhaseOK
  <2> QED BY <2>4, <2>5, <2>10, <2>12, <2>13, <2>14, <2>15 DEF MachineInv
<1> QED BY <1>6, <1>18, <1>19

\* Data on top are above the running activation's frame and above all blocks.
LEMMA OnTop ==
  ASSUME NEW bs, Good(bs), NEW n \in Nat, DataOnTop(n)
  PROVE  /\ Height - n \in 0..Height /\ Height - n \in Nat /\ Height \in Nat
         /\ Top.h <= Height - n
         /\ \A i \in 1..Len(bs) : bs[i].h <= Height - n
<1>1. DataOK /\ BaseOK /\ BlocksOK(bs) BY DEF Good
<1>2. Height \in Nat /\ Top.h \in Nat BY <1>1, TopKnown
<1>3. Height - Top.h >= n BY DEF DataOnTop, Owns
<1>4. ASSUME NEW i \in 1..Len(bs) PROVE bs[i].h <= Height - n
  <2>1. bs[i].h \in Nat /\ bs[i].h <= Height BY <1>1, BlockKnown
  <2>2. i \in DOMAIN bs BY <1>1, BlockKnown
  <2>3. stack[bs[i].h].k = "pc" BY <1>1, <2>2 DEF BlocksOK, BlockOK
  <2>4. ~ (bs[i].h > Height - n)
    <3> SUFFICES ASSUME bs[i].h > Height - n PROVE FALSE OBVIOUS
    <3>1. bs[i].h \in Height - n + 1 .. Height BY <1>2, <2>1
    <3>2. stack[bs[i].h] = Data BY <3>1 DEF DataOnTop
    <3> QED BY <2>3, <3>2 DEF Data
  <2> QED BY <1>2, <2>1, <2>4
<1> QED BY <1>2, <1>3, <1>4

\* The bounds of the interpreted activations, when none is the last.
LEMMA LastBounds ==
  ASSUME DataOK, SegsOK, NEW i \in 1..Len(base), ~base[i].native, Rank(i) = Rank(Len(base))
  PROVE  SegAt(i) = seg /\ seg.c = base[i].code
<1>1. SegAt(i) = seg BY DEF SegAt, Interpreted
<1>2. i \in DOMAIN base BY DataKnown DEF DataFacts
<1> QED BY <1>1, <1>2 DEF SegsOK

\* A call within the region.
LEMMA AfterNativeCall ==
  ASSUME NEW bs, Good(bs), RegisterOK(bs), NativeCall
  PROVE  MachineInv'
<1>1. DataOK /\ BaseOK /\ SegsOK /\ NestOK /\ BlocksOK(bs) /\ ChainsOK(bs) BY DEF Good
<1>2. PICK c \in Regions : /\ DataOnTop(Arity[c])
                           /\ base' = Append(base, Activation(c, Height + 2, TRUE))
  BY DEF NativeCall
<1>3. /\ stack' = stack \o <<Zero, Data>> /\ Native /\ status = "running" /\ status' = status
      /\ pc' = pc /\ seg' = seg /\ frames' = frames /\ handlers' = handlers
      /\ handlerSp' = handlerSp /\ gc' = gc /\ nest' = nest /\ flight' = flight
  BY DEF NativeCall, InRegion, Registers
<1>4. c \in Codes /\ Arity[c] \in Nat BY MachineConstants
<1>5. PICK m : m = Height - Arity[c] OBVIOUS
<1>6. /\ m \in Nat /\ m <= Height /\ Top.h <= m /\ Height \in Nat
      /\ \A n \in 1..Len(bs) : bs[n].h <= m
  BY <1>2, <1>4, <1>5, OnTop
<1>7. stack \in Seq(Word) /\ Len(stack) = Height BY <1>1 DEF DataOK, Height
<1>8. DataOK'
  <2>1. stack' \in Seq(Word) BY <1>3, <1>7, WordsKnown, Pushed
  <2>2. Activation(c, Height + 2, TRUE) \in [code : Codes, h : Nat, native : BOOLEAN]
    BY <1>4, <1>6 DEF Activation
  <2>3. base \in Seq([code : Codes, h : Nat, native : BOOLEAN]) BY <1>1 DEF DataOK
  <2>4. base' \in Seq([code : Codes, h : Nat, native : BOOLEAN]) BY <1>2, <2>2, <2>3, Appended
  <2> QED BY <1>1, <1>3, <2>1, <2>4 DEF DataOK
<1>9. PICK b : b = Len(base) OBVIOUS
<1>10. Entering(bs, c, TRUE, stack, Zero, m, b)
  <2>1. base' = Append(base, Activation(c, Len(stack) + 2, TRUE)) BY <1>2, <1>7
  <2>2. stack' = stack \o <<Zero, Data>> /\ Zero \in Word /\ TRUE \in BOOLEAN BY <1>3, WordsKnown
  <2>3. m = Len(stack) - Arity[c] BY <1>5, <1>7
  <2>4. \A i \in 1..m : stack[i] = stack[i] OBVIOUS
  <2> QED BY <1>4, <1>6, <1>7, <1>8, <1>9, <2>1, <2>2, <2>3, <2>4, Entered
<1>11. PICK k : k = b + 1 OBVIOUS
<1>12. /\ b \in Nat /\ b >= 1 /\ Keeps(m, b) /\ base[b].h <= m
       /\ k = Len(base') /\ (k = b \/ k = b + 1) /\ base'[b + 1].native
       /\ Interpreted' = Rank(b) /\ Rank(b) \in Nat /\ Len(frames) = Rank(b) - 1
       /\ \A i \in 0..b : Rank(i)' = Rank(i)
  BY <1>10, <1>11 DEF Entering
<1>13. PICK o : o = Outer OBVIOUS
<1>14. o \in 0..Outer /\ o \in Nat BY <1>1, <1>13, CutsKnown
<1>15. Native' /\ Outer' = o
  <2>1. Native' = Native BY <1>3 DEF Native
  <2> QED BY <1>3, <1>13, <2>1 DEF Outer
<1>16. \A j \in 1..o : nest'[j] = nest[j] BY <1>3
<1>17. SegsOK'
  <2>1. Len(frames') = Interpreted' - 1 /\ SegOf(pc') = seg' BY <1>1, <1>3, <1>12 DEF SegsOK
  <2>2. ASSUME NEW i \in 1..b, ~base[i].native, Rank(i) = Rank(b) PROVE SegAt(i)'.c = base[i].code
    <3>1. Rank(i)' = Interpreted'
      <4>1. i \in 0..b OBVIOUS
      <4> QED BY <1>12, <2>2, <4>1
    <3>2. SegAt(i)' = seg' BY <3>1 DEF SegAt
    <3> QED BY <1>1, <1>3, <1>9, <2>2, <3>2, LastBounds
  <2>3. \A r \in 1..(Rank(b) - 1) : frames'[r] = frames[r] BY <1>3
  <2> QED BY <1>1, <1>8, <1>11, <1>12, <2>1, <2>2, <2>3, SegsStep
<1>18. NestOK'
  <2>1. \A r \in 1..(Rank(b) - 1) : frames'[r] = frames[r] BY <1>3
  <2>2. \A j \in 1..o : Caller(j) + 1 <= b BY <1>10, <1>13 DEF Entering
  <2>3. RootOK(o + 1, k)'
    <3>1. RootOK(o + 1, b)
      <4>1. RootOK(Len(nest), Len(base)) /\ Len(nest) = Outer + 1 BY <1>1, <1>3, NestKnown
      <4> QED BY <1>9, <1>13, <4>1
    <3>2. PICK r \in 2..b : /\ base[r].h = nest[o + 1].top + 2 /\ ~base[r - 1].native
                            /\ \A x \in r..b : base[x].native
      BY <3>1 DEF RootOK
    <3>3. \A x \in 1..b : base'[x] = base[x] BY <1>12 DEF Keeps
    <3>4. r \in 2..k /\ r \in 1..b /\ r - 1 \in 1..b BY <1>11, <1>12
    <3>5. base'[r].h = nest'[o + 1].top + 2 /\ ~base'[r - 1].native BY <1>3, <3>2, <3>3, <3>4
    <3>6. ASSUME NEW x \in r..k PROVE base'[x].native
      <4>1. x = k \/ x \in r..b BY <1>11, <1>12
      <4>2. r..b \subseteq 1..b BY <3>4
      <4> QED BY <1>11, <1>12, <3>2, <3>3, <4>1, <4>2
    <3> QED BY <3>4, <3>5, <3>6 DEF RootOK
  <2> QED BY <1>1, <1>8, <1>12, <1>14, <1>15, <1>16, <2>1, <2>2, <2>3, NestStep
<1>19. PICK t : t = Len(bs) OBVIOUS
<1>20. /\ t \in 0..Len(bs) /\ Len(handlers') = t /\ (\A n \in 1..t : handlers'[n] = handlers[n])
       /\ bs = SubSeq(bs, 1, t) /\ Cut(o) <= t
  BY <1>1, <1>3, <1>13, <1>19, WholeKept
<1>21. BlocksOK(bs)' /\ ChainsOK(bs)'
  <2>1. \A n \in 1..t : bs[n].h <= m /\ bs[n].own <= b /\ bs[n].h <= Floor(b + 1)'
    BY <1>10, <1>19 DEF Entering
  <2>2. t \in 0..Len(bs) /\ Len(handlers') = t /\ \A n \in 1..t : handlers'[n] = handlers[n]
    BY <1>20
  <2>3. Cut(o) <= t /\ bs = SubSeq(bs, 1, t) BY <1>20
  <2>4. b \in Nat /\ Keeps(m, b) /\ k = Len(base') /\ (k = b \/ k = b + 1) BY <1>12
  <2> QED BY <1>1, <1>8, <1>13, <1>14, <1>15, <1>16, <2>1, <2>2, <2>3, <2>4, BlocksStep
<1>22. RegisterOK(bs)'
  <2>1. \A j \in 1..Outer : nest'[j] = nest[j] BY <1>3
  <2>2. Register(bs, Outer, Len(bs))' = Register(bs, Outer, t)
    BY <1>13, <1>15, <1>20, <2>1, RegisterKept
  <2> QED BY <1>3, <1>19, <2>2 DEF RegisterOK
<1>23. PhaseOK' BY <1>3 DEF PhaseOK
<1>24. BaseOK' BY <1>10 DEF Entering
<1> QED BY <1>8, <1>17, <1>18, <1>21, <1>22, <1>23, <1>24 DEF MachineInv

\* The region calls back into a nested run.
LEMMA AfterCallBack ==
  ASSUME NEW bs, Good(bs), RegisterOK(bs), NativeCallsBack
  PROVE  MachineInv'
<1>1. DataOK /\ BaseOK /\ SegsOK /\ NestOK /\ BlocksOK(bs) /\ ChainsOK(bs) BY DEF Good
<1>2. PICK c \in Codes : /\ DataOnTop(Arity[c])
                         /\ base' = Append(base, Activation(c, Height + 2, FALSE))
                         /\ seg' = Bounds(c) /\ pc' = Addr(c, 0)
  BY DEF NativeCallsBack
<1>3. PICK q : q = Len(nest) OBVIOUS
<1>4. PICK s : s = [pc |-> pc, seg |-> seg, depth |-> Len(frames), handlerSp |-> handlerSp,
                    hdepth |-> Len(handlers), caller |-> Len(base)]
  OBVIOUS
<1>5. /\ stack' = stack \o <<Zero, Data>> /\ Native /\ status = "running" /\ status' = status
      /\ frames' = Append(frames, seg) /\ handlers' = handlers
      /\ handlerSp' = 0 /\ gc' = gc /\ flight' = flight
      /\ nest' = [nest EXCEPT ![q].saved = s]
  BY <1>3, <1>4 DEF NativeCallsBack, InRegion, IsolatedHandler
<1>6. Arity[c] \in Nat BY MachineConstants
<1>7. PICK m : m = Height - Arity[c] OBVIOUS
<1>8. /\ m \in Nat /\ m <= Height /\ Top.h <= m /\ Height \in Nat
      /\ \A n \in 1..Len(bs) : bs[n].h <= m
  BY <1>2, <1>6, <1>7, OnTop
<1>9. stack \in Seq(Word) /\ Len(stack) = Height BY <1>1 DEF DataOK, Height
<1>10. DataFacts /\ frames \in Seq(Segment) /\ seg \in Segment /\ pc \in Address
       /\ nest \in Seq(NestedFrame) /\ handlerSp \in Nat
  BY <1>1, DataKnown DEF DataOK
<1>11. PICK o : o = Outer OBVIOUS
<1>12. o \in 0..Outer /\ o \in Nat /\ q = o + 1 /\ q \in Nat /\ q \in 1..Len(nest)
  BY <1>1, <1>3, <1>5, <1>11, NestKnown
<1>13. s \in Registered
  BY <1>4, <1>10 DEF Registered, Address, Segment, DataFacts
<1>14. /\ nest' \in Seq(NestedFrame) /\ Len(nest') = q
       /\ (\A j \in 1..o : nest'[j] = nest[j])
       /\ nest'[q].top = nest[q].top /\ nest'[q].saved = s
  <2>1. nest[q] \in NestedFrame BY <1>10, <1>12 DEF DataFacts
  <2>2. [nest[q] EXCEPT !.saved = s] \in NestedFrame BY <1>13, <2>1 DEF NestedFrame
  <2>3. nest' = [nest EXCEPT ![q] = [nest[q] EXCEPT !.saved = s]] BY <1>5
  <2>4. nest' \in Seq(NestedFrame) BY <1>10, <1>12, <2>2, <2>3, Replaced
  <2>5. nest'[q] = [nest[q] EXCEPT !.saved = s] BY <1>10, <1>12, <2>3
  <2>6. nest'[q].top = nest[q].top /\ nest'[q].saved = s BY <2>1, <2>5 DEF NestedFrame
  <2>7. Len(nest') = Len(nest) /\ \A i \in 1..Len(nest) : i # q => nest'[i] = nest[i]
    BY <1>10, <1>12, <2>2, <2>3, Replaced
  <2>8. \A j \in 1..o : j \in 1..Len(nest) /\ j # q BY <1>12
  <2> QED BY <1>3, <2>4, <2>6, <2>7, <2>8
<1>15. /\ frames' \in Seq(Segment) /\ Len(frames') = Len(frames) + 1
       /\ (\A r \in 1..Len(frames) : frames'[r] = frames[r])
       /\ frames'[Len(frames) + 1] = seg
  BY <1>5, <1>10, Appended
<1>16. pc' \in Address /\ seg' \in Segment /\ SegOf(pc') = seg' /\ seg'.c = c
  <2>1. gc \in Nat BY <1>1 DEF DataOK
  <2> QED BY <1>2, <2>1, MachineConstants DEF Addr, Bounds, At, Address, Segment, SegOf
<1>17. DataOK'
  <2>1. stack' \in Seq(Word) BY <1>5, <1>9, WordsKnown, Pushed
  <2>2. Activation(c, Height + 2, FALSE) \in [code : Codes, h : Nat, native : BOOLEAN]
    BY <1>8 DEF Activation
  <2>3. base \in Seq([code : Codes, h : Nat, native : BOOLEAN]) BY <1>1 DEF DataOK
  <2>4. base' \in Seq([code : Codes, h : Nat, native : BOOLEAN]) BY <1>2, <2>2, <2>3, Appended
  <2> QED BY <1>1, <1>5, <1>14, <1>15, <1>16, <2>1, <2>4 DEF DataOK
<1>18. PICK b : b = Len(base) OBVIOUS
<1>19. Entering(bs, c, FALSE, stack, Zero, m, b)
  <2>1. base' = Append(base, Activation(c, Len(stack) + 2, FALSE)) BY <1>2, <1>9
  <2>2. stack' = stack \o <<Zero, Data>> /\ Zero \in Word /\ FALSE \in BOOLEAN BY <1>5, WordsKnown
  <2>3. m = Len(stack) - Arity[c] BY <1>7, <1>9
  <2>4. \A i \in 1..m : stack[i] = stack[i] OBVIOUS
  <2> QED BY <1>8, <1>9, <1>17, <1>18, <2>1, <2>2, <2>3, <2>4, Entered
<1>20. PICK k : k = b + 1 OBVIOUS
<1>21. /\ b \in Nat /\ b >= 1 /\ Keeps(m, b) /\ base[b].h <= m
       /\ k = Len(base') /\ (k = b \/ k = b + 1) /\ ~base'[b + 1].native
       /\ base'[b + 1].code = c /\ stack'[base'[b + 1].h - 1] = Zero
       /\ Interpreted' = Rank(b) + 1 /\ Rank(b) \in Nat /\ Rank(b) >= 1
       /\ Len(frames) = Rank(b) - 1
       /\ \A i \in 0..b : Rank(i)' = Rank(i)
  BY <1>19, <1>20 DEF Entering
<1>22. ~Native' /\ Outer' = q
  <2>1. Last(nest)' = nest'[q] BY <1>14 DEF Last
  <2>2. s # None BY <1>13, NothingSaved
  <2>3. ~Native' BY <1>14, <2>1, <2>2 DEF Native
  <2> QED BY <1>14, <2>3 DEF Outer
<1>23. frames'[Rank(b)] = seg /\ \A r \in 1..(Rank(b) - 1) : frames'[r] = frames[r]
  <2>1. Rank(b) = Len(frames) + 1 BY <1>21
  <2> QED BY <1>15, <2>1
<1>24. SegsOK'
  <2>1. Len(frames') = Interpreted' - 1 BY <1>15, <1>21
  <2>2. ASSUME NEW i \in 1..b, ~base[i].native, Rank(i) = Rank(b) PROVE SegAt(i)'.c = base[i].code
    <3>1. Rank(i)' = Rank(b) /\ Rank(b) # Interpreted'
      <4>1. i \in 0..b OBVIOUS
      <4> QED BY <1>21, <2>2, <4>1
    <3>2. SegAt(i)' = seg BY <1>23, <3>1 DEF SegAt
    <3> QED BY <1>1, <1>18, <2>2, <3>2, LastBounds
  <2>3. SegAt(b + 1)'.c = base'[b + 1].code
    <3>1. Rank(b + 1)' = Interpreted' BY <1>20, <1>21 DEF Interpreted, Rank
    <3>2. SegAt(b + 1)' = seg' BY <3>1 DEF SegAt
    <3> QED BY <1>16, <1>21, <3>2
  <2>4. SegOf(pc') = seg' BY <1>16
  <2>5. \A r \in 1..(Rank(b) - 1) : frames'[r] = frames[r] BY <1>23
  <2> QED BY <1>1, <1>17, <1>20, <1>21, <2>1, <2>2, <2>3, <2>4, <2>5, SegsStep
<1>25. \A j \in 1..o : Caller(j)' = Caller(j) BY <1>14 DEF Caller
<1>26. Caller(q)' = b BY <1>4, <1>14, <1>18 DEF Caller
<1>27. NestOK'
  <2>1. DOMAIN nest' = 1..q BY <1>14
  <2>2. ASSUME NEW j \in 1..q PROVE nest'[j].saved # None
    <3>1. CASE j = q BY <1>13, <1>14, <3>1, NothingSaved
    <3>2. CASE j # q
      <4>1. j \in 1..o /\ j \in DOMAIN nest /\ j <= Outer BY <1>10, <1>11, <1>12, <3>2 DEF DataFacts
      <4> QED BY <1>1, <1>14, <4>1 DEF NestOK
    <3> QED BY <3>1, <3>2
  <2>3. FrameOK(q)'
    <3>1. b \in 1..Len(base') - 1 BY <1>20, <1>21
    <3>2. SegOf(s.pc) = s.seg BY <1>1, <1>4 DEF SegsOK
    <3>3. (SegOf(nest[q].saved.pc))' = nest'[q].saved.seg BY <1>14, <3>2 DEF SegOf
    <3>4. Rank(b)' = Rank(b) /\ nest'[q].saved.depth = Rank(b) - 1
      <4>1. b \in 0..b BY <1>21
      <4> QED BY <1>4, <1>14, <1>21, <4>1
    <3>5. nest'[q].saved.seg.c = frames'[Rank(b)].c BY <1>4, <1>14, <1>23
    <3>6. Rank(Caller(q))' = Rank(b)' BY <1>26 DEF Rank
    <3> QED BY <1>21, <1>26, <3>1, <3>3, <3>4, <3>5, <3>6 DEF FrameOK
  <2>4. ASSUME NEW j \in 1..q PROVE FrameOK(j)'
    <3>1. CASE j = q BY <2>3, <3>1
    <3>2. CASE j # q
      <4>1. j \in 1..Outer /\ nest'[j] = nest[j] BY <1>11, <1>12, <1>14, <3>2
      <4>2. Caller(j) + 1 <= b BY <1>19, <4>1 DEF Entering
      <4>3. \A r \in 1..(Rank(b) - 1) : frames'[r] = frames[r] BY <1>23
      <4> QED BY <1>1, <1>17, <1>21, <4>1, <4>2, <4>3, FrameKept
    <3> QED BY <3>1, <3>2
  <2>5. ASSUME NEW i \in 1..q, NEW j \in 1..q, i < j PROVE Caller(i)' < Caller(j)'
    <3>1. i \in 1..o /\ i \in 1..Outer BY <1>11, <1>12, <2>5
    <3>2. CASE j = q
      <4>1. Caller(i) \in Nat /\ Caller(i) < b BY <1>1, <1>18, <3>1, NestKnown
      <4> QED BY <1>25, <1>26, <3>1, <3>2, <4>1
    <3>3. CASE j # q
      <4>1. j \in 1..o /\ j \in 1..Outer BY <1>11, <1>12, <3>3
      <4>2. Caller(i) < Caller(j) BY <1>1, <2>5, <3>1, <4>1 DEF NestOK
      <4> QED BY <1>25, <3>1, <4>1, <4>2
    <3> QED BY <3>2, <3>3
  <2>6. ASSUME NEW j \in 1..q PROVE RootOK(j, LastOf(j))'
    <3>1. PICK l : l = IF j = q THEN b ELSE Caller(j) OBVIOUS
    <3>2. l \in Nat /\ l <= b /\ RootOK(j, l)
      <4>1. CASE j = q
        <5>1. RootOK(Len(nest), Len(base)) BY <1>1, <1>5, NestKnown
        <5> QED BY <1>3, <1>18, <1>21, <3>1, <4>1, <5>1
      <4>2. CASE j # q
        <5>1. j \in 1..Outer BY <1>11, <1>12, <4>2
        <5>2. RootOK(j, Caller(j)) /\ Caller(j) \in Nat /\ Caller(j) < b
          BY <1>1, <1>18, <5>1, NestKnown
        <5> QED BY <1>21, <3>1, <4>2, <5>2
      <4> QED BY <4>1, <4>2
    <3>3. nest'[j].top = nest[j].top
      <4>1. j = q \/ j \in 1..o BY <1>12
      <4> QED BY <1>14, <4>1
    <3>4. RootOK(j, l)' BY <1>21, <3>2, <3>3, RootKept
    <3>5. LastOf(j)' = l
      <4>1. j = q \/ j \in 1..o BY <1>12
      <4>2. j <= Outer' BY <1>12, <1>22
      <4>3. LastOf(j)' = Caller(j)' BY <4>2 DEF LastOf
      <4>4. Caller(j)' = l
        <5>1. CASE j = q BY <1>26, <3>1, <5>1
        <5>2. CASE j # q BY <1>25, <3>1, <4>1, <5>2
        <5> QED BY <5>1, <5>2
      <4> QED BY <4>3, <4>4
    <3> QED BY <3>4, <3>5 DEF RootOK
  <2>7. ~base'[Len(base')].native BY <1>20, <1>21
  <2>8. \A j \in 1..q : nest'[j].saved # None <=> j <= q BY <1>12, <2>2
  <2> QED BY <1>22, <2>1, <2>4, <2>5, <2>6, <2>7, <2>8 DEF NestOK
<1>28. PICK t : t = Len(bs) OBVIOUS
<1>29. /\ t \in Nat /\ Len(handlers) = t /\ bs \in Seq([h : Nat, own : Nat]) /\ DOMAIN bs = 1..t
       /\ Cut(o) <= t
  <2>1. Len(bs) \in Nat /\ bs \in Seq([h : Nat, own : Nat]) /\ DOMAIN bs = 1..Len(bs)
    BY <1>1, BlockKnown
  <2>2. Len(bs) = Len(handlers) BY <1>1 DEF BlocksOK
  <2>3. Cut(o) <= t BY <1>1, <1>5, <1>11, <1>28, WholeKept
  <2> QED BY <1>28, <2>1, <2>2, <2>3
<1>30. \A j \in 0..o : Cut(j)' = Cut(j) /\ j \in 0..Outer /\ Cut(j) \in Nat
  <2>1. \A j \in 0..o : j \in 0..Outer /\ Cut(j) \in Nat BY <1>1, <1>11, CutsKnown
  <2>2. \A j \in 0..o : j = 0 \/ j \in 1..o BY <1>12
  <2> QED BY <1>14, <2>1, <2>2 DEF Cut
<1>31. Cut(q)' = t /\ nest'[q].saved.handlerSp = handlerSp
  BY <1>4, <1>12, <1>14, <1>29 DEF Cut
<1>32. BlocksOK(bs)'
  <2>1. ASSUME NEW n \in 1..t PROVE BlockOK(bs[n], n)'
    <3>1. PICK x : x = bs[n] OBVIOUS
    <3>2. \A i \in 1..Len(bs) : bs[i] \in [h : Nat, own : Nat] BY <1>29, Elements
    <3>3. x \in [h : Nat, own : Nat] BY <1>28, <3>1, <3>2
    <3>4. BlockOK(x, n) BY <1>1, <1>29, <3>1 DEF BlocksOK
    <3>5. x.h <= m /\ x.own <= b /\ x.h <= Floor(b + 1)' BY <1>19, <1>28, <3>1 DEF Entering
    <3>6. handlers'[n] = handlers[n] BY <1>5
    <3>7. BlockOK(x, n)' BY <1>1, <1>17, <1>21, <3>3, <3>4, <3>5, <3>6, BlockKept
    <3> QED BY <3>1, <3>7
  <2>2. Len(bs) = Len(handlers') BY <1>5, <1>28, <1>29
  <2>3. \A i, j \in DOMAIN bs : i < j => bs[i].h < bs[j].h BY <1>1 DEF BlocksOK
  <2> QED BY <1>29, <2>1, <2>2, <2>3 DEF BlocksOK
<1>33. ChainsOK(bs)'
  <2>1. ASSUME NEW i \in 0..q, NEW j \in 0..q, i < j PROVE Cut(i)' <= Cut(j)'
    <3>1. i \in 0..o /\ o \in 0..o BY <1>12, <2>1
    <3>2. CASE j = q
      <4>1. Cut(i) <= t
        <5>1. i = o \/ i < o BY <1>12, <3>1
        <5>2. i < o => Cut(i) <= Cut(o) BY <1>1, <1>30, <3>1 DEF ChainsOK
        <5> QED BY <1>29, <1>30, <3>1, <5>1, <5>2
      <4> QED BY <1>30, <1>31, <3>1, <3>2, <4>1
    <3>3. CASE j # q
      <4>1. j \in 0..o BY <1>12, <3>3
      <4>2. Cut(i) <= Cut(j) BY <1>1, <1>30, <2>1, <3>1, <4>1 DEF ChainsOK
      <4> QED BY <1>30, <3>1, <4>1, <4>2
    <3> QED BY <3>2, <3>3
  <2>2. ASSUME NEW j \in 1..q
        PROVE  /\ Cut(j)' <= Len(bs)
               /\ nest'[j].saved.handlerSp = Register(bs, j - 1, Cut(j))'
               /\ \A n \in 1..t : n <= Cut(j)' <=> bs[n].own <= Caller(j)'
    <3>1. PICK i : i = j - 1 OBVIOUS
    <3>2. PICK x : x = Cut(j)' OBVIOUS
    <3>3. i \in 0..o /\ Cut(i)' = Cut(i) BY <1>12, <1>30, <3>1
    <3>4. Register(bs, j - 1, Cut(j))' = Register(bs, i, x)
      BY <3>1, <3>2, <3>3 DEF Register
    <3>5. CASE j = q
      <4>1. x = t /\ i = o BY <1>12, <1>31, <3>1, <3>2, <3>5
      <4>2. handlerSp = Register(bs, o, t) BY <1>5, <1>11, <1>28 DEF RegisterOK
      <4>3. \A n \in 1..t : n <= t /\ bs[n].own <= b BY <1>19, <1>28, <1>29 DEF Entering
      <4> QED BY <1>26, <1>28, <1>29, <1>31, <3>2, <3>4, <3>5, <4>1, <4>2, <4>3
    <3>6. CASE j # q
      <4>1. j \in 1..o /\ j \in 0..o /\ j \in 1..Outer BY <1>11, <1>12, <3>6
      <4>2. x = Cut(j) /\ Caller(j)' = Caller(j) /\ nest'[j] = nest[j] BY <1>14, <1>25, <1>30, <3>2, <4>1
      <4>3. nest[j].saved.handlerSp = Register(bs, i, x) BY <1>1, <3>1, <4>1, <4>2 DEF ChainsOK
      <4>4. Cut(j) <= Len(bs) /\ \A n \in 1..t : n <= Cut(j) <=> bs[n].own <= Caller(j)
        BY <1>1, <1>29, <4>1 DEF ChainsOK
      <4> QED BY <3>2, <3>4, <4>2, <4>3, <4>4
    <3> QED BY <3>5, <3>6
  <2>3. ASSUME NEW n \in 1..t
        PROVE  stack'[bs[n].h - 1].hsp = IF \E j \in 0..q : Cut(j)' = n - 1 THEN 0 ELSE bs[n - 1].h
    <3>1. bs[n].h \in Nat /\ bs[n].h > 1 /\ bs[n].h <= m
      BY <1>1, <1>8, <1>28, BlockKnown
    <3>2. bs[n].h - 1 \in 1..m BY <1>8, <3>1
    <3>3. stack'[bs[n].h - 1] = stack[bs[n].h - 1] BY <1>21, <3>2 DEF Keeps
    <3>4. stack[bs[n].h - 1].hsp = IF \E j \in 0..Outer : Cut(j) = n - 1 THEN 0 ELSE bs[n - 1].h
      BY <1>1, <1>29 DEF ChainsOK
    <3>5. (\E j \in 0..Outer : Cut(j) = n - 1) <=> (\E j \in 0..q : Cut(j)' = n - 1)
      <4>1. ASSUME NEW j \in 0..Outer, Cut(j) = n - 1 PROVE \E i \in 0..q : Cut(i)' = n - 1
        <5>1. j \in 0..o /\ j \in 0..q BY <1>11, <1>12
        <5> QED BY <1>30, <4>1, <5>1
      <4>2. ASSUME NEW j \in 0..q, Cut(j)' = n - 1 PROVE \E i \in 0..Outer : Cut(i) = n - 1
        <5>1. j # q BY <1>29, <1>31, <4>2
        <5>2. j \in 0..o BY <1>12, <5>1
        <5> QED BY <1>30, <4>2, <5>2
      <4> QED BY <4>1, <4>2
    <3> QED BY <3>3, <3>4, <3>5
  <2> QED BY <1>22, <1>29, <2>1, <2>2, <2>3 DEF ChainsOK
<1>34. RegisterOK(bs)'
  <2>1. Register(bs, Outer, Len(bs))' = 0
    <3>1. Cut(Outer)' = Cut(q)' BY <1>22 DEF Cut
    <3> QED BY <1>28, <1>31, <3>1 DEF Register
  <2> QED BY <1>5, <2>1 DEF RegisterOK
<1>35. PhaseOK' BY <1>5 DEF PhaseOK
<1>36. BaseOK' BY <1>19 DEF Entering
<1> QED BY <1>17, <1>24, <1>27, <1>32, <1>33, <1>34, <1>35, <1>36 DEF MachineInv

-----------------------------------------------------------------------------
(* Steps that stay in the activation *)

\* n words on top become m of data.
LEMMA ShuffledKnown ==
  ASSUME DataOK, NEW n \in Nat, NEW m \in Nat, NEW u, u = Height - n, u \in 0..Height
  PROVE  /\ Shuffled(n, m) \in Seq(Word) /\ Len(Shuffled(n, m)) = u + m
         /\ \A i \in 1..u : Shuffled(n, m)[i] = stack[i]
         /\ \A i \in 1..m : Shuffled(n, m)[u + i] = Data
<1>1. stack \in Seq(Word) /\ Height = Len(stack) /\ u \in 0..Len(stack) BY DEF DataOK, Height
<1>2. PICK s : s = SubSeq(stack, 1, u) OBVIOUS
<1>3. s \in Seq(Word) /\ Len(s) = u /\ \A i \in 1..u : s[i] = stack[i] BY <1>1, <1>2, Prefix
<1>4. PICK d : d = [i \in 1..m |-> Data] OBVIOUS
<1>5. d \in Seq(Word) /\ Len(d) = m /\ \A i \in 1..m : d[i] = Data
  <2>1. Data \in Word BY WordsKnown
  <2> QED BY <1>4, <2>1
<1>6. Shuffled(n, m) = s \o d BY <1>2, <1>4 DEF Shuffled
<1>7. u \in Nat BY <1>1
<1>8. /\ s \o d \in Seq(Word) /\ Len(s \o d) = u + m
      /\ \A i \in 1..u : (s \o d)[i] = s[i]
      /\ \A i \in 1..m : (s \o d)[u + i] = d[i]
  <2> HIDE DEF Word
  <2> QED BY ONLY <1>3, <1>5, <1>7, m \in Nat
<1> QED BY <1>3, <1>5, <1>6, <1>8

\* Words above the frame and the blocks come and go, and the pc moves in its code.
LEMMA AfterWords ==
  ASSUME NEW bs, Good(bs), stack' \in Seq(Word),
         NEW m \in Nat, m <= Height, m <= Len(stack'), \A i \in 1..m : stack'[i] = stack[i],
         Top.h <= m, \A n \in 1..Len(bs) : bs[n].h <= m,
         base' = base, frames' = frames, seg' = seg, nest' = nest, handlers' = handlers, gc' = gc,
         pc' \in Address, SegOf(pc') = seg, handlerSp' \in Nat,
         \/ handlerSp' = Register(bs, Outer, Len(bs))
         \/ status' # "running" /\ flight' \in HardErrors,
         PhaseOK'
  PROVE  MachineInv'
<1>1. DataOK /\ BaseOK /\ SegsOK /\ NestOK /\ BlocksOK(bs) /\ ChainsOK(bs) BY DEF Good
<1>2. DataOK' BY <1>1 DEF DataOK
<1>3. PICK b : b = Len(base) OBVIOUS
<1>4. b \in Nat /\ Height \in Nat BY <1>1, <1>3, TopKnown
<1>5. Keeps(m, Len(base)) BY <1>3, <1>4 DEF Keeps
<1>6. PICK t : t = Len(bs) OBVIOUS
<1>7. PICK o : o = Outer OBVIOUS
<1>8. /\ t \in 0..Len(bs) /\ Len(handlers') = t /\ \A n \in 1..t : handlers'[n] = handlers[n]
      /\ bs = SubSeq(bs, 1, t) /\ Cut(o) <= t
  BY <1>1, <1>6, <1>7, WholeKept
<1>9. Good(bs)'
  <2>1. \A n \in 1..t : bs[n].h <= m BY <1>6
  <2>2. Cut(Outer) <= t BY <1>7, <1>8
  <2>3. SegOf(pc') = seg' OBVIOUS
  <2> QED BY <1>2, <1>5, <1>8, <2>1, <2>2, <2>3, SameActivations
<1>10. RegisterOK(bs)'
  <2>1. \A j \in 1..Outer : nest'[j] = nest[j] OBVIOUS
  <2>2. Outer' = Outer BY DEF Outer, Native
  <2>3. Register(bs, Outer, Len(bs))' = Register(bs, Outer, t)
    BY <1>7, <1>8, <2>1, <2>2, RegisterKept
  <2> QED BY <1>6, <2>3 DEF RegisterOK
<1> QED BY <1>9, <1>10 DEF Good, MachineInv

\* The same, when n words of data become d.
LEMMA AfterShuffle ==
  ASSUME NEW bs, Good(bs), RegisterOK(bs), NEW n \in Nat, NEW d \in Nat, DataOnTop(n),
         stack' = Shuffled(n, d), status = "running", status' = status, handlerSp' = handlerSp,
         base' = base, frames' = frames, seg' = seg, nest' = nest, handlers' = handlers, gc' = gc,
         pc' = pc
  PROVE  MachineInv'
<1>1. DataOK /\ SegsOK BY DEF Good
<1>2. PICK m : m = Height - n OBVIOUS
<1>3. /\ m \in 0..Height /\ m \in Nat /\ Height \in Nat /\ Top.h <= m
      /\ \A i \in 1..Len(bs) : bs[i].h <= m
  BY <1>2, OnTop
<1>4. /\ Shuffled(n, d) \in Seq(Word) /\ Len(Shuffled(n, d)) = m + d
      /\ \A i \in 1..m : Shuffled(n, d)[i] = stack[i]
  <2>1. DataOK /\ m = Height - n /\ m \in 0..Height BY <1>1, <1>2, <1>3
  <2> QED BY ONLY <2>1, n \in Nat, d \in Nat, ShuffledKnown
<1>5. m <= Len(stack') /\ m <= Height BY <1>3, <1>4
<1>6. pc' \in Address /\ SegOf(pc') = seg /\ handlerSp' \in Nat BY <1>1 DEF DataOK, SegsOK
<1>7. handlerSp' = Register(bs, Outer, Len(bs)) BY DEF RegisterOK
<1>8. PhaseOK' BY DEF PhaseOK
<1> QED BY <1>3, <1>4, <1>5, <1>6, <1>7, <1>8, AfterWords

\* The same, when a word is pushed or none is.
LEMMA AfterPush ==
  ASSUME NEW bs, Good(bs),
         stack' = stack \/ \E w \in Word : stack' = Append(stack, w),
         base' = base, frames' = frames, seg' = seg, nest' = nest, handlers' = handlers, gc' = gc,
         pc' \in Address, SegOf(pc') = seg, handlerSp' \in Nat,
         \/ handlerSp' = Register(bs, Outer, Len(bs))
         \/ status' # "running" /\ flight' \in HardErrors,
         PhaseOK'
  PROVE  MachineInv'
<1>1. DataOK /\ BaseOK /\ BlocksOK(bs) BY DEF Good
<1>2. stack \in Seq(Word) /\ Len(stack) = Height /\ Height \in Nat
  BY <1>1, TopKnown DEF DataOK, Height
<1>3. PICK m : m = Height OBVIOUS
<1>4. m \in Nat /\ m <= Height /\ Top.h <= m BY <1>1, <1>2, <1>3, TopKnown
<1>5. \A n \in 1..Len(bs) : bs[n].h <= m BY <1>1, <1>3, BlockKnown
<1>6. /\ stack' \in Seq(Word) /\ m <= Len(stack') /\ \A i \in 1..m : stack'[i] = stack[i]
  <2>1. CASE stack' = stack BY <1>2, <1>3, <2>1
  <2>2. CASE \E w \in Word : stack' = Append(stack, w)
    <3>1. PICK w \in Word : stack' = Append(stack, w) BY <2>2
    <3>2. /\ Append(stack, w) \in Seq(Word) /\ Len(Append(stack, w)) = Len(stack) + 1
          /\ \A i \in 1..Len(stack) : Append(stack, w)[i] = stack[i]
      BY <1>2, Appended
    <3> QED BY <1>2, <1>3, <3>1, <3>2
  <2> QED BY <2>1, <2>2
<1> QED BY <1>4, <1>5, <1>6, AfterWords

\* The instructions, calls of the runtime and native steps that stay in the
\* activation and leave handlers alone.
LEMMA AfterStep ==
  ASSUME NEW bs, Good(bs), RegisterOK(bs), PhaseOK,
         \/ DataStep \/ Jump \/ PushReturnAddress \/ PushHandler
         \/ NativeStep \/ NativeRaise \/ NativeCallOverflows
         \/ \E n \in 1..2 : /\ Stepping /\ DataOnTop(n) /\ (RtsReturns(n) \/ RtsFinishes(n))
                            /\ UNCHANGED pc
  PROVE  MachineInv'
<1>1. DataOK /\ BaseOK /\ SegsOK /\ NestOK /\ BlocksOK(bs) /\ ChainsOK(bs) BY DEF Good
<1>2. pc \in Address /\ SegOf(pc) = seg /\ handlerSp \in Nat BY <1>1 DEF DataOK, SegsOK
<1>3. status = "running" => handlerSp = Register(bs, Outer, Len(bs)) BY DEF RegisterOK
<1>4. CASE DataStep
  <2>1. PICK n \in 0..2, d \in 0..1 : DataOnTop(n) /\ stack' = Shuffled(n, d) BY <1>4 DEF DataStep
  <2>2. status = "running" /\ pc' = pc /\ seg' = seg /\ UNCHANGED control
    BY <1>4 DEF DataStep, Stepping, Interpreting
  <2>3. n \in Nat /\ d \in Nat OBVIOUS
  <2> QED BY <2>1, <2>2, <2>3, AfterShuffle DEF control
<1>5. CASE Jump
  <2>1. PICK p \in Places : pc' = [pc EXCEPT !.p = p] BY <1>5 DEF Jump, Elsewhere
  <2>2. status = "running" /\ stack' = stack /\ seg' = seg /\ UNCHANGED control
    BY <1>5 DEF Jump, Stepping, Interpreting
  <2>3. pc' \in Address /\ SegOf(pc') = seg BY <1>2, <2>1 DEF Address, SegOf
  <2>4. PhaseOK' BY <2>2 DEF control, PhaseOK
  <2> QED BY <1>2, <1>3, <2>2, <2>3, <2>4, AfterPush DEF control
<1>6. CASE PushReturnAddress
  <2>1. stack' = Append(stack, stack[Top.h - 1]) BY <1>6 DEF PushReturnAddress
  <2>2. status = "running" /\ pc' = pc /\ seg' = seg /\ UNCHANGED control
    BY <1>6 DEF PushReturnAddress, Stepping, Interpreting
  <2>3. stack[Top.h - 1] \in Word
    <3>1. /\ Top.h \in Nat /\ Top.h <= Height /\ Height \in Nat
          /\ Top.h = Floor(Len(base)) + 2 + Arity[Top.code]
          /\ Floor(Len(base)) \in Nat /\ Arity[Top.code] \in Nat
      BY <1>1, TopKnown
    <3>2. Top.h - 1 \in 1..Height BY <3>1
    <3> QED BY <1>1, <3>2, DataKnown DEF DataFacts
  <2>4. PhaseOK' BY <2>2 DEF control, PhaseOK
  <2> QED BY <1>2, <1>3, <2>1, <2>2, <2>3, <2>4, AfterPush DEF control
<1>7. CASE PushHandler
  <2>1. stack' = Append(stack, SavedHandler(handlerSp)) BY <1>7 DEF PushHandler
  <2>2. status = "running" /\ pc' = pc /\ seg' = seg /\ UNCHANGED control
    BY <1>7 DEF PushHandler, Stepping, Interpreting
  <2>3. SavedHandler(handlerSp) \in Word BY <1>2, WordsKnown
  <2>4. PhaseOK' BY <2>2 DEF control, PhaseOK
  <2> QED BY <1>2, <1>3, <2>1, <2>2, <2>3, <2>4, AfterPush DEF control
<1>8. CASE NativeStep
  <2>1. PICK n \in 0..2, d \in 0..1 : DataOnTop(n) /\ stack' = Shuffled(n, d) BY <1>8 DEF NativeStep
  <2>2. status = "running" /\ UNCHANGED <<Registers, nest, flight, status, base>>
    BY <1>8 DEF NativeStep, InRegion
  <2>3. n \in Nat /\ d \in Nat OBVIOUS
  <2> QED BY <2>1, <2>2, <2>3, AfterShuffle DEF Registers
<1>9. CASE NativeRaise
  <2>1. status = "running" /\ Native /\ status' = "raising" /\ UNCHANGED <<Registers, stack, nest, base>>
    BY <1>9 DEF NativeRaise, InRegion
  <2>2. Native' BY <2>1 DEF Native
  <2>3. PhaseOK' BY <2>1, <2>2 DEF PhaseOK
  <2> QED BY <1>2, <1>3, <2>1, <2>3, AfterPush DEF Registers
<1>10. CASE NativeCallOverflows
  <2>1. /\ Native /\ status' = "raising" /\ flight' = "stack" /\ handlerSp' = 0
        /\ UNCHANGED <<stack, pc, seg, frames, handlers, exn, nest, halt, gc, base>>
    BY <1>10 DEF NativeCallOverflows, InRegion, IsolatedHandler
  <2>2. Native' BY <2>1 DEF Native
  <2>3. PhaseOK' BY <2>1, <2>2 DEF PhaseOK
  <2>4. status' # "running" /\ flight' \in HardErrors BY <2>1 DEF HardErrors
  <2> QED BY <1>2, <2>1, <2>3, <2>4, AfterPush
<1>11. CASE \E n \in 1..2 : /\ Stepping /\ DataOnTop(n) /\ (RtsReturns(n) \/ RtsFinishes(n))
                            /\ UNCHANGED pc
  <2>1. PICK n \in 1..2 : /\ Stepping /\ DataOnTop(n) /\ (RtsReturns(n) \/ RtsFinishes(n))
                          /\ UNCHANGED pc
    BY <1>11
  <2>2. /\ stack' = Shuffled(n, 1) /\ status = "running" /\ status' = status
        /\ handlerSp' = handlerSp /\ base' = base /\ frames' = frames /\ seg' = seg
        /\ nest' = nest /\ handlers' = handlers /\ gc' = gc /\ pc' = pc
    <3>1. status = "running" BY <2>1 DEF Stepping, Interpreting
    <3>2. CASE RtsReturns(n) BY <2>1, <3>1, <3>2 DEF RtsReturns, control
    <3>3. CASE RtsFinishes(n) BY <2>1, <3>1, <3>3 DEF RtsFinishes
    <3> QED BY <2>1, <3>2, <3>3
  <2>3. n \in Nat /\ 1 \in Nat OBVIOUS
  <2>4. DataOnTop(n) BY <2>1
  <2> QED BY <2>2, <2>3, <2>4, AfterShuffle
<1> QED BY <1>4, <1>5, <1>6, <1>7, <1>8, <1>9, <1>10, <1>11

-----------------------------------------------------------------------------
(* Collections *)

\* A collection changes when an address was written, and nothing else of it.
LEMMA ForwardedKnown ==
  ASSUME gc \in Nat
  PROVE  /\ \A a \in Segment : Forwarded(a) \in Segment /\ Forwarded(a).c = a.c
                               /\ Forwarded(a) = [c |-> a.c, at |-> Forwarded(a).at]
         /\ \A a \in Address : Forwarded(a) \in Address /\ SegOf(Forwarded(a)) = Forwarded(SegOf(a))
<1>1. ASSUME NEW a \in Segment
      PROVE  Forwarded(a) \in Segment /\ Forwarded(a).c = a.c
             /\ Forwarded(a) = [c |-> a.c, at |-> Forwarded(a).at]
  <2>1. CASE a.c \notin Image /\ a.at = gc
    <3>1. Forwarded(a) = [a EXCEPT !.at = gc + 1] BY <2>1 DEF Forwarded
    <3> QED BY <3>1 DEF Segment
  <2>2. CASE ~ (a.c \notin Image /\ a.at = gc)
    <3>1. Forwarded(a) = a BY <2>2 DEF Forwarded
    <3> QED BY <3>1 DEF Segment
  <2> QED BY <2>1, <2>2
<1>2. ASSUME NEW a \in Address
      PROVE  Forwarded(a) \in Address /\ SegOf(Forwarded(a)) = Forwarded(SegOf(a))
  <2>1. SegOf(a).c = a.c /\ SegOf(a).at = a.at BY DEF SegOf
  <2>2. CASE a.c \notin Image /\ a.at = gc
    <3>1. Forwarded(a) = [a EXCEPT !.at = gc + 1] BY <2>2 DEF Forwarded
    <3>2. Forwarded(SegOf(a)) = [SegOf(a) EXCEPT !.at = gc + 1] BY <2>1, <2>2 DEF Forwarded
    <3> QED BY <3>1, <3>2 DEF Address, SegOf
  <2>3. CASE ~ (a.c \notin Image /\ a.at = gc)
    <3>1. Forwarded(a) = a BY <2>3 DEF Forwarded
    <3>2. Forwarded(SegOf(a)) = SegOf(a) BY <2>1, <2>3 DEF Forwarded
    <3> QED BY <3>1, <3>2
  <2> QED BY <2>2, <2>3
<1> QED BY <1>1, <1>2

\* A word stays what it is, with its address forwarded if it has one.
LEMMA ForwardedWordKnown ==
  ASSUME gc \in Nat, NEW w \in Word
  PROVE  /\ ForwardedWord(w) \in Word /\ ForwardedWord(w).k = w.k
         /\ w.k # "pc" => ForwardedWord(w) = w
         /\ w.k = "pc" => SegOf(ForwardedWord(w).pc) = Forwarded(SegOf(w.pc))
         /\ ForwardedWord(w) = Zero <=> w = Zero
<1>1. CASE w.k = "pc"
  <2>1. ForwardedWord(w) = CodeAddr(Forwarded(w.pc)) BY <1>1 DEF ForwardedWord
  <2>2. w.pc \in Address BY <1>1 DEF Word, Data, Zero
  <2>3. Forwarded(w.pc) \in Address /\ SegOf(Forwarded(w.pc)) = Forwarded(SegOf(w.pc))
    BY <2>2, ForwardedKnown
  <2>4. ForwardedWord(w).k = "pc" /\ ForwardedWord(w).pc = Forwarded(w.pc) BY <2>1 DEF CodeAddr
  <2>5. ForwardedWord(w) \in Word BY <2>1, <2>3, WordsKnown
  <2>6. Zero.k = "zero" BY DEF Zero
  <2>7. w # Zero /\ ForwardedWord(w) # Zero BY <1>1, <2>4, <2>6
  <2> QED BY <1>1, <2>3, <2>4, <2>5, <2>7
<1>2. CASE w.k # "pc" BY <1>2 DEF ForwardedWord
<1> QED BY <1>1, <1>2

\* A collection, on the words s.
LEMMA AfterCollect ==
  ASSUME NEW bs, Good(bs), RegisterOK(bs), status = "running",
         NEW s \in Seq(Word), NEW m \in Nat, m <= Height, m <= Len(s),
         \A i \in 1..m : s[i] = stack[i], Top.h <= m, \A n \in 1..Len(bs) : bs[n].h <= m,
         Collected(s), handlerSp' = handlerSp, nest' = nest, status' = status, base' = base
  PROVE  MachineInv'
<1>1. DataOK /\ BaseOK /\ SegsOK /\ NestOK /\ BlocksOK(bs) /\ ChainsOK(bs) BY DEF Good
<1>2. DataFacts /\ BaseFacts BY <1>1, DataKnown, BaseKnown
<1>3. gc \in Nat /\ seg \in Segment /\ pc \in Address BY <1>1 DEF DataOK
<1>4. /\ gc' = gc + 1 /\ stack' = [i \in DOMAIN s |-> ForwardedWord(s[i])]
      /\ seg' = Forwarded(seg) /\ pc' = [c |-> seg.c, p |-> pc.p, at |-> Forwarded(seg).at]
      /\ frames' = ForwardedSide(frames) /\ handlers' = ForwardedSide(handlers)
  BY DEF Collected
<1>5. stack' \in Seq(Word) /\ Len(stack') = Len(s) /\ \A i \in 1..m : stack'[i] = ForwardedWord(stack[i])
  <2>1. Len(s) \in Nat /\ DOMAIN s = 1..Len(s) /\ \A i \in 1..Len(s) : s[i] \in Word BY Elements
  <2>2. \A i \in 1..Len(s) : ForwardedWord(s[i]) \in Word BY <1>3, <2>1, ForwardedWordKnown
  <2>3. \A i \in 1..m : i \in 1..Len(s) BY <2>1
  <2>4. stack' = [i \in 1..Len(s) |-> ForwardedWord(s[i])] BY <1>4, <2>1
  <2>5. stack' \in Seq(Word) /\ Len(stack') = Len(s) BY <2>1, <2>2, <2>4
  <2> QED BY <2>3, <2>4, <2>5
<1>6. ASSUME NEW i \in 1..m
      PROVE  /\ stack'[i].k = stack[i].k
             /\ stack[i].k # "pc" => stack'[i] = stack[i]
             /\ stack[i].k = "pc" => SegOf(stack'[i].pc) = Forwarded(SegOf(stack[i].pc))
             /\ stack'[i] = Zero <=> stack[i] = Zero
  <2>1. stack[i] \in Word
    <3>1. i \in 1..Height BY <1>2 DEF DataFacts
    <3> QED BY <1>2, <3>1 DEF DataFacts
  <2>2. stack'[i] = ForwardedWord(stack[i]) BY <1>5
  <2> QED BY <1>3, <2>1, <2>2, ForwardedWordKnown
<1>7. /\ frames' \in Seq(Segment) /\ Len(frames') = Len(frames)
      /\ \A r \in 1..Len(frames) : frames'[r] = Forwarded(frames[r])
  <2>1. Len(frames) \in Nat /\ DOMAIN frames = 1..Len(frames)
        /\ \A r \in 1..Len(frames) : frames[r] \in Segment
    BY <1>2 DEF DataFacts
  <2>2. frames' = [r \in 1..Len(frames) |-> [frames[r] EXCEPT !.at = Forwarded(frames[r]).at]]
    BY <1>4, <2>1 DEF ForwardedSide
  <2>3. ASSUME NEW r \in 1..Len(frames)
        PROVE  frames'[r] = Forwarded(frames[r]) /\ frames'[r] \in Segment
    <3>1. frames[r] \in Segment BY <2>1
    <3>2. [frames[r] EXCEPT !.at = Forwarded(frames[r]).at] = [c |-> frames[r].c, at |-> Forwarded(frames[r]).at]
      BY <3>1 DEF Segment
    <3>3. Forwarded(frames[r]) \in Segment
          /\ Forwarded(frames[r]) = [c |-> frames[r].c, at |-> Forwarded(frames[r]).at]
      BY <1>3, <3>1, ForwardedKnown
    <3>4. frames'[r] = [frames[r] EXCEPT !.at = Forwarded(frames[r]).at] BY <2>2
    <3> QED BY <3>2, <3>3, <3>4
  <2>4. frames' \in [1..Len(frames) -> Segment] BY <2>2, <2>3
  <2> QED BY <2>1, <2>2, <2>3, <2>4
<1>8. /\ handlers' \in Seq([depth : Nat, c : Codes, at : Nat]) /\ Len(handlers') = Len(handlers)
      /\ \A n \in 1..Len(handlers) :
           /\ handlers'[n].c = handlers[n].c /\ handlers'[n].depth = handlers[n].depth
           /\ [c |-> handlers'[n].c, at |-> handlers'[n].at]
                = Forwarded([c |-> handlers[n].c, at |-> handlers[n].at])
  <2>1. Len(handlers) \in Nat /\ DOMAIN handlers = 1..Len(handlers)
        /\ \A n \in 1..Len(handlers) : handlers[n] \in [depth : Nat, c : Codes, at : Nat]
    BY <1>2 DEF DataFacts
  <2>2. handlers' = [n \in 1..Len(handlers) |-> [handlers[n] EXCEPT !.at = Forwarded(handlers[n]).at]]
    BY <1>4, <2>1 DEF ForwardedSide
  <2>3. ASSUME NEW n \in 1..Len(handlers)
        PROVE  /\ handlers'[n] \in [depth : Nat, c : Codes, at : Nat]
               /\ handlers'[n].c = handlers[n].c /\ handlers'[n].depth = handlers[n].depth
               /\ [c |-> handlers'[n].c, at |-> handlers'[n].at]
                    = Forwarded([c |-> handlers[n].c, at |-> handlers[n].at])
    <3>1. PICK x : x = handlers[n] OBVIOUS
    <3>2. PICK a : a = [c |-> x.c, at |-> x.at] OBVIOUS
    <3>3. x \in [depth : Nat, c : Codes, at : Nat] BY <2>1, <3>1
    <3>4. a \in Segment BY <3>2, <3>3 DEF Segment
    <3>5. Forwarded(a) \in Segment /\ Forwarded(a) = [c |-> a.c, at |-> Forwarded(a).at]
      BY <1>3, <3>4, ForwardedKnown
    <3>6. Forwarded(x).at = Forwarded(a).at
      <4>1. CASE x.c \notin Image /\ x.at = gc
        BY <3>2, <3>3, <4>1 DEF Forwarded
      <4>2. CASE ~ (x.c \notin Image /\ x.at = gc)
        BY <3>2, <3>3, <4>2 DEF Forwarded
      <4> QED BY <4>1, <4>2
    <3>7. handlers'[n] = [x EXCEPT !.at = Forwarded(a).at] BY <2>2, <3>1, <3>6
    <3>8. Forwarded(a).at \in Nat /\ a.c = x.c BY <3>2, <3>5 DEF Segment
    <3>9. /\ handlers'[n].c = x.c /\ handlers'[n].depth = x.depth
          /\ handlers'[n].at = Forwarded(a).at
          /\ handlers'[n] \in [depth : Nat, c : Codes, at : Nat]
      BY <3>3, <3>7, <3>8
    <3>10. [c |-> handlers'[n].c, at |-> handlers'[n].at] = Forwarded(a) BY <3>5, <3>8, <3>9
    <3> QED BY <3>1, <3>2, <3>9, <3>10
  <2>4. handlers' \in [1..Len(handlers) -> [depth : Nat, c : Codes, at : Nat]] BY <2>2, <2>3
  <2> QED BY SMTT(40), <2>1, <2>2, <2>3, <2>4
<1>9. seg' \in Segment /\ seg'.c = seg.c /\ pc' \in Address /\ SegOf(pc') = seg'
  <2>1. Forwarded(seg) \in Segment /\ Forwarded(seg).c = seg.c
        /\ Forwarded(seg) = [c |-> seg.c, at |-> Forwarded(seg).at]
    BY <1>3, ForwardedKnown
  <2> QED BY <1>3, <1>4, <2>1 DEF Segment, Address, SegOf
<1>10. DataOK' BY <1>1, <1>3, <1>4, <1>5, <1>7, <1>8, <1>9 DEF DataOK
<1>11. PICK b : b = Len(base) OBVIOUS
<1>12. /\ b \in Nat /\ b >= 1 /\ base[b].h <= m /\ DOMAIN base = 1..b /\ Top = base[b]
  BY <1>1, <1>2, <1>11, TopKnown DEF DataFacts
<1>13. ASSUME NEW i \in 1..b
       PROVE  base[i].h \in Nat /\ base[i].h - 1 \in 1..m /\ base[i].h <= m
  <2>1. base[i].h \in Nat /\ base[i].h >= 2 /\ base[i].h <= m BY <1>1, <1>11, <1>12, BelowKept
  <2> QED BY <2>1
<1>14. Interpreted' = Interpreted /\ \A i : Rank(i)' = Rank(i) /\ Floor(i)' = Floor(i)
  BY DEF Interpreted, Rank, Floor
<1>15. RankFacts /\ Len(frames) = Interpreted - 1 /\ Interpreted = Rank(b) /\ Rank(b) \in Nat
  BY <1>1, <1>11, <1>12, RankKnown DEF SegsOK, Interpreted, RankFacts
<1>16. BaseOK'
  <2>1. Height' = Len(s) /\ Len(s) \in Nat BY <1>5, Elements DEF Height
  <2>2. \A i \in 1..b : base[i].h <= Height'
    <3> SUFFICES ASSUME NEW i \in 1..b PROVE base[i].h <= Height' OBVIOUS
    <3>1. base[i].h \in Nat /\ base[i].h <= m BY <1>13
    <3> QED BY <2>1, <3>1
  <2>3. stack'[base[1].h - 1] = Zero
    <3>1. 1 \in 1..b BY <1>12
    <3> QED BY <1>2, <1>6, <1>13, <3>1 DEF BaseFacts
  <2>4. \A i \in 1..b : Floor(i)' >= 0 BY <1>1, <1>12, <1>14 DEF BaseOK
  <2>5. \A i, j \in 1..b : i < j => base[i].h <= Floor(j)' BY <1>1, <1>12, <1>14 DEF BaseOK
  <2> QED BY <1>1, <1>12, <2>2, <2>3, <2>4, <2>5 DEF BaseOK
<1>17. SegsOK'
  <2>1. Len(frames') = Interpreted' - 1 BY <1>7, <1>14, <1>15
  <2>2. ASSUME NEW i \in 1..b, ~base[i].native
        PROVE  /\ Rank(i) \in Nat /\ Rank(i) >= 1 /\ Rank(i) <= Rank(b)
    <3>1. i \in Nat /\ 0 < i /\ i <= b /\ b \in Nat BY <1>12
    <3> QED BY <1>15, <2>2, <3>1 DEF RankFacts
  <2>3. ASSUME NEW i \in 1..b, ~base[i].native PROVE SegAt(i)'.c = base[i].code
    <3>1. SegAt(i).c = base[i].code BY <1>1, <1>12, <2>3 DEF SegsOK
    <3>2. CASE Rank(i) = Interpreted
      <4>1. SegAt(i)' = seg' /\ SegAt(i) = seg BY <1>14, <3>2 DEF SegAt
      <4> QED BY <1>9, <3>1, <4>1
    <3>3. CASE Rank(i) # Interpreted
      <4>1. SegAt(i)' = frames'[Rank(i)] /\ SegAt(i) = frames[Rank(i)] BY <1>14, <3>3 DEF SegAt
      <4>2. Rank(i) \in 1..Len(frames) BY <1>15, <2>2, <2>3, <3>3
      <4>3. frames[Rank(i)] \in Segment BY <1>2, <4>2 DEF DataFacts
      <4>4. frames'[Rank(i)].c = frames[Rank(i)].c BY <1>3, <1>7, <4>2, <4>3, ForwardedKnown
      <4> QED BY <3>1, <4>1, <4>4
    <3> QED BY <3>2, <3>3
  <2>4. ASSUME NEW i \in 1..b, ~base[i].native, stack'[base[i].h - 1] # Zero
        PROVE  /\ i > 1 /\ ~base[i - 1].native
               /\ stack'[base[i].h - 1].k = "pc"
               /\ SegOf(stack'[base[i].h - 1].pc) = frames'[Rank(i) - 1]
    <3>1. base[i].h - 1 \in 1..m BY <1>13
    <3>2. stack[base[i].h - 1] # Zero BY <1>6, <2>4, <3>1
    <3>3. /\ i > 1 /\ ~base[i - 1].native /\ stack[base[i].h - 1].k = "pc"
          /\ SegOf(stack[base[i].h - 1].pc) = frames[Rank(i) - 1]
      BY <1>1, <1>12, <2>4, <3>2 DEF SegsOK
    <3>4. PICK a : a = i - 1 OBVIOUS
    <3>5. a \in 1..b /\ a \in Nat /\ i = a + 1 /\ a < i BY <1>12, <3>3, <3>4
    <3>6. Rank(i) = Rank(a) + 1 BY <1>15, <2>4, <3>5 DEF RankFacts
    <3>7. Rank(a) \in Nat /\ Rank(a) >= 1 BY <2>2, <3>3, <3>4, <3>5
    <3>8. Rank(i) - 1 \in 1..Len(frames) BY <1>15, <2>2, <2>4, <3>6, <3>7
    <3>9. frames'[Rank(i) - 1] = Forwarded(frames[Rank(i) - 1]) BY <1>7, <3>8
    <3> QED BY <1>6, <3>1, <3>3, <3>9
  <2>5. Len(frames') = Interpreted' - 1 /\ SegOf(pc') = seg' BY <1>9, <2>1
  <2> QED BY <1>12, <1>14, <2>3, <2>4, <2>5 DEF SegsOK
<1>18. NestOK'
  <2>1. Outer' = Outer /\ Native' = Native BY DEF Outer, Native
  <2>2. ASSUME NEW j \in 1..Outer PROVE FrameOK(j)'
    <3>1. PICK u : u = Caller(j) OBVIOUS
    <3>2. FrameOK(j) /\ u \in Nat /\ u >= 1 /\ u < b BY <1>1, <1>11, <3>1, NestKnown
    <3>3. /\ u \in 1..b - 1 /\ ~base[u + 1].native /\ stack[base[u + 1].h - 1] = Zero
          /\ SegOf(nest[j].saved.pc) = nest[j].saved.seg
          /\ nest[j].saved.depth = Rank(u) - 1
          /\ nest[j].saved.seg.c = frames[Rank(u)].c
      BY <1>11, <3>1, <3>2 DEF FrameOK
    <3>4. u + 1 \in 1..b BY <1>12, <3>2
    <3>5. stack'[base[u + 1].h - 1] = Zero BY <1>6, <1>13, <3>3, <3>4
    <3>6. frames'[Rank(u)].c = frames[Rank(u)].c
      <4>1. 1 \in Nat /\ 1 <= u /\ 0 < 1 /\ ~base[1].native /\ u + 1 \in Nat /\ u < u + 1 /\ u + 1 <= b
        BY <1>2, <1>12, <3>2 DEF BaseFacts
      <4>2. /\ Rank(u) \in Nat /\ Rank(u + 1) \in Nat /\ Rank(b) \in Nat /\ Rank(1) \in Nat
            /\ Rank(1) >= 1 /\ Rank(1) <= Rank(u) /\ Rank(u) < Rank(u + 1) /\ Rank(u + 1) <= Rank(b)
        BY <1>12, <1>15, <3>2, <3>3, <4>1 DEF RankFacts
      <4>3. Rank(u) \in 1..Len(frames) BY <1>15, <4>2
      <4>4. frames[Rank(u)] \in Segment BY <1>2, <4>3 DEF DataFacts
      <4> QED BY <1>3, <1>7, <4>3, <4>4, ForwardedKnown
    <3>7. Caller(j)' = u /\ Rank(Caller(j))' = Rank(u) BY <1>14, <3>1 DEF Caller, Rank
    <3>8. (SegOf(nest[j].saved.pc))' = SegOf(nest[j].saved.pc) BY DEF SegOf
    <3> QED BY <1>11, <3>3, <3>5, <3>6, <3>7, <3>8 DEF FrameOK
  <2>3. \A j : LastOf(j)' = LastOf(j) /\ Caller(j)' = Caller(j) BY <2>1 DEF LastOf, Caller
  <2>4. \A j \in DOMAIN nest : RootOK(j, LastOf(j))'
    <3> SUFFICES ASSUME NEW j \in DOMAIN nest PROVE RootOK(j, LastOf(j))' OBVIOUS
    <3>1. RootOK(j, LastOf(j)) BY <1>1 DEF NestOK
    <3> QED BY <2>3, <3>1 DEF RootOK
  <2> QED BY <1>1, <2>1, <2>2, <2>3, <2>4 DEF NestOK
<1>19. ASSUME NEW n \in 1..Len(bs)
       PROVE  /\ n \in DOMAIN bs /\ bs[n].h \in 1..m /\ bs[n].h - 1 \in 1..m
              /\ BlockOK(bs[n], n) /\ n \in 1..Len(handlers)
  <2>1. DOMAIN bs = 1..Len(bs) /\ bs[n].h \in Nat /\ bs[n].h > 1 /\ bs[n].h <= m BY <1>1, BlockKnown
  <2>2. Len(bs) = Len(handlers) /\ BlockOK(bs[n], n) BY <1>1, <2>1 DEF BlocksOK
  <2> QED BY <2>1, <2>2
<1>20. BlocksOK(bs)'
  <2>1. ASSUME NEW n \in 1..Len(bs) PROVE BlockOK(bs[n], n)'
    <3>1. PICK x : x = bs[n] OBVIOUS
    <3>2. BlockOK(x, n) /\ x.h \in 1..m /\ x.h - 1 \in 1..m BY <1>19, <3>1
    <3>3. x.h \in DOMAIN stack'
      <4>1. DOMAIN stack' = 1..Len(s) /\ Len(s) \in Nat BY <1>5, Elements
      <4> QED BY <3>2, <4>1
    <3>4. stack'[x.h].k = "pc" /\ stack'[x.h - 1].k = "hsp" BY <1>6, <3>2 DEF BlockOK
    <3>5. SegOf(stack'[x.h].pc) = [c |-> handlers'[n].c, at |-> handlers'[n].at]
      <4>1. SegOf(stack'[x.h].pc) = Forwarded(SegOf(stack[x.h].pc)) BY <1>6, <3>2 DEF BlockOK
      <4>2. SegOf(stack[x.h].pc) = [c |-> handlers[n].c, at |-> handlers[n].at] BY <3>2 DEF BlockOK
      <4> QED BY <1>8, <1>19, <4>1, <4>2
    <3>6. handlers'[n].c = handlers[n].c /\ handlers'[n].depth = handlers[n].depth BY <1>8, <1>19
    <3>7. BlockOK(x, n)' BY <1>14, <3>2, <3>3, <3>4, <3>5, <3>6 DEF BlockOK
    <3> QED BY <3>1, <3>7
  <2>2. DOMAIN bs = 1..Len(bs) BY <1>1, BlockKnown
  <2> QED BY <1>1, <1>8, <2>1, <2>2 DEF BlocksOK
<1>21. ChainsOK(bs)'
  <2>1. Outer' = Outer /\ (\A j : Cut(j)' = Cut(j) /\ Caller(j)' = Caller(j))
        /\ \A j, n : Register(bs, j, n)' = Register(bs, j, n)
    BY DEF Outer, Native, Cut, Caller, Register
  <2>2. \A n \in DOMAIN bs : stack'[bs[n].h - 1] = stack[bs[n].h - 1]
    <3> SUFFICES ASSUME NEW n \in DOMAIN bs PROVE stack'[bs[n].h - 1] = stack[bs[n].h - 1] OBVIOUS
    <3>1. n \in 1..Len(bs) BY <1>1, BlockKnown
    <3>2. stack[bs[n].h - 1].k = "hsp" BY <1>19, <3>1 DEF BlockOK
    <3> QED BY <1>6, <1>19, <3>1, <3>2
  <2>3. ASSUME NEW j \in 1..Outer
        PROVE  /\ Cut(j)' <= Len(bs)
               /\ nest'[j].saved.handlerSp = Register(bs, j - 1, Cut(j))'
               /\ \A n \in DOMAIN bs : n <= Cut(j)' <=> bs[n].own <= Caller(j)'
    <3>1. Register(bs, j - 1, Cut(j))' = Register(bs, j - 1, Cut(j)) BY DEF Register, Cut
    <3> QED BY <1>1, <2>1, <3>1 DEF ChainsOK
  <2> QED BY <1>1, <2>1, <2>2, <2>3 DEF ChainsOK
<1>22. RegisterOK(bs)' BY DEF RegisterOK, Register, Outer, Native, Cut
<1>23. PhaseOK' BY DEF PhaseOK
<1> QED BY <1>10, <1>16, <1>17, <1>18, <1>20, <1>21, <1>22, <1>23 DEF MachineInv

-----------------------------------------------------------------------------
(* Handlers *)

\* SET_HANDLER makes a block of the running activation.
LEMMA AfterSetHandler ==
  ASSUME NEW bs, Good(bs), RegisterOK(bs), SetHandler
  PROVE  MachineInv'
<1>1. DataOK /\ BaseOK /\ SegsOK /\ NestOK /\ BlocksOK(bs) /\ ChainsOK(bs) BY DEF Good
<1>2. DataFacts /\ BaseFacts BY <1>1, DataKnown, BaseKnown
<1>3. PICK q \in HandlerPlaces : stack' = Append(stack, CodeAddr([pc EXCEPT !.p = q]))
  BY DEF SetHandler
<1>4. PICK g : g = [depth |-> Len(frames), c |-> seg.c, at |-> seg.at] OBVIOUS
<1>5. PICK u : u = Height OBVIOUS
<1>6. /\ status = "running" /\ status' = status /\ ~Native /\ Owns(1)
      /\ stack[u] = SavedHandler(handlerSp) /\ pc' = pc /\ handlerSp' = u + 1
      /\ handlers' = Append(handlers, g) /\ seg' = seg /\ frames' = frames /\ nest' = nest
      /\ gc' = gc /\ base' = base
  BY <1>4, <1>5 DEF SetHandler, Stepping, Interpreting, outer
<1>7. handlerSp = Register(bs, Outer, Len(bs)) BY <1>6 DEF RegisterOK
<1>8. PICK b : b = Len(base) OBVIOUS
<1>9. /\ Top = base[b] /\ b \in Nat /\ b >= 1 /\ base[b].h \in Nat /\ base[b].h + 1 <= u /\ u \in Nat
      /\ ~base[b].native /\ seg.c = base[b].code /\ DOMAIN base = 1..b
  <2>1. Top.h \in Nat /\ Top = base[b] /\ b \in Nat /\ b >= 1 /\ u \in Nat BY <1>1, <1>5, <1>8, TopKnown
  <2>2. u - Top.h >= 1 BY <1>5, <1>6 DEF Owns
  <2>3. ~Top.native /\ seg.c = Top.code BY <1>1, <1>6, RunningCode
  <2> QED BY <1>2, <1>8, <2>1, <2>2, <2>3 DEF DataFacts
<1>10. PICK w : w = CodeAddr([pc EXCEPT !.p = q]) OBVIOUS
<1>11. w \in Word /\ w.k = "pc" /\ SegOf(w.pc) = seg
  <2>1. pc \in Address /\ q \in Places BY <1>1, MachineConstants DEF DataOK
  <2>2. [pc EXCEPT !.p = q] \in Address /\ SegOf([pc EXCEPT !.p = q]) = SegOf(pc)
    BY <2>1 DEF Address, SegOf
  <2>3. SegOf(pc) = seg BY <1>1 DEF SegsOK
  <2>4. w.k = "pc" /\ w.pc = [pc EXCEPT !.p = q] BY <1>10 DEF CodeAddr
  <2> QED BY <1>10, <2>2, <2>3, <2>4, WordsKnown
<1>12. /\ stack' \in Seq(Word) /\ Len(stack') = u + 1 /\ stack'[u + 1] = w
       /\ \A i \in 1..u : stack'[i] = stack[i]
  <2>1. stack \in Seq(Word) /\ Len(stack) = u BY <1>1, <1>5 DEF DataOK, Height
  <2> QED BY <1>3, <1>10, <1>11, <2>1, Appended
<1>13. PICK t : t = Len(bs) OBVIOUS
<1>14. t \in Nat /\ DOMAIN bs = 1..t /\ Len(handlers) = t /\ bs \in Seq([h : Nat, own : Nat])
  BY <1>1, <1>13, BlockKnown DEF BlocksOK
<1>15. /\ handlers' \in Seq([depth : Nat, c : Codes, at : Nat]) /\ Len(handlers') = t + 1
       /\ (\A n \in 1..t : handlers'[n] = handlers[n]) /\ handlers'[t + 1] = g
  <2>1. seg \in Segment /\ handlers \in Seq([depth : Nat, c : Codes, at : Nat]) BY <1>1 DEF DataOK
  <2>2. Len(frames) \in Nat BY <1>2 DEF DataFacts
  <2>3. g \in [depth : Nat, c : Codes, at : Nat] BY <1>4, <2>1, <2>2 DEF Segment
  <2> QED BY <1>6, <1>14, <2>1, <2>3, Appended
<1>16. DataOK' BY <1>1, <1>6, <1>9, <1>12, <1>15 DEF DataOK
<1>17. Keeps(u, b) /\ base[b].h <= u
  <2>1. u \in 0..Height /\ u <= Len(stack') /\ b \in 0..Len(base) /\ b <= Len(base')
    BY <1>5, <1>6, <1>8, <1>9, <1>12
  <2> QED BY <1>6, <1>9, <1>12, <2>1 DEF Keeps
<1>18. BaseOK' /\ SegsOK' /\ NestOK'
  <2>1. SegOf(pc') = seg' BY <1>1, <1>6 DEF SegsOK
  <2>2. Keeps(u, Len(base)) /\ Top.h <= u BY <1>8, <1>9, <1>17
  <2> QED BY <1>6, <1>16, <2>1, <2>2, SameFrames
<1>19. PICK e : e = [h |-> u + 1, own |-> b] OBVIOUS
<1>20. PICK cs : cs = Append(bs, e) OBVIOUS
<1>21. /\ cs \in Seq([h : Nat, own : Nat]) /\ Len(cs) = t + 1 /\ cs[t + 1] = e
       /\ (\A n \in 1..t : cs[n] = bs[n]) /\ DOMAIN cs = 1..(t + 1)
  <2>1. e \in [h : Nat, own : Nat] BY <1>9, <1>19
  <2>2. cs \in Seq([h : Nat, own : Nat]) /\ Len(cs) = t + 1 /\ cs[t + 1] = e
        /\ \A n \in 1..t : cs[n] = bs[n]
    BY <1>13, <1>14, <1>20, <2>1, Appended
  <2> QED BY <2>2, Elements
<1>22. \A n \in 1..t : bs[n].h \in Nat /\ bs[n].h > 1 /\ bs[n].h <= u BY <1>1, <1>5, <1>13, BlockKnown
<1>23. BlocksOK(cs)'
  <2>1. ASSUME NEW n \in 1..t PROVE BlockOK(bs[n], n)'
    <3>1. PICK x : x = bs[n] OBVIOUS
    <3>2. BlockOK(x, n) /\ x.h <= u BY <1>1, <1>14, <1>22, <3>1 DEF BlocksOK
    <3>3. x \in [h : Nat, own : Nat] BY <1>13, <1>14, <3>1, Elements
    <3>4. x.own <= b /\ b # b + 1 /\ b = Len(base')
      <4>1. x.own \in 1..b BY <1>9, <3>2 DEF BlockOK
      <4> QED BY <1>6, <1>8, <1>9, <4>1
    <3>5. BlockOK(x, n)' BY <1>1, <1>9, <1>15, <1>16, <1>17, <3>2, <3>3, <3>4, BlockKept
    <3> QED BY <3>1, <3>5
  <2>2. BlockOK(e, t + 1)'
    <3>1. e.h = u + 1 /\ e.own = b BY <1>19
    <3>2. DOMAIN stack' = 1..(u + 1) /\ u + 1 \in 1..(u + 1) BY <1>9, <1>12
    <3>3. stack'[u].k = "hsp"
      <4>1. u \in 1..u BY <1>9
      <4>2. stack'[u] = SavedHandler(handlerSp) BY <1>6, <1>12, <4>1
      <4> QED BY <4>2 DEF SavedHandler
    <3>4. SegOf(w.pc) = [c |-> g.c, at |-> g.at]
      <4>1. seg \in Segment BY <1>1 DEF DataOK
      <4> QED BY <1>4, <1>11, <4>1 DEF Segment
    <3>5. g.c = base[b].code /\ g.depth = Rank(b)' - 1
      <4>1. Len(frames) = Rank(b) - 1 BY <1>1, <1>8 DEF SegsOK, Interpreted
      <4>2. Rank(b)' = Rank(b) BY <1>6 DEF Rank
      <4> QED BY <1>4, <1>9, <4>1, <4>2
    <3>6. b \in 1..b /\ \A i \in 1..b : ~ (i > b) BY <1>9
    <3>7. e.h > base'[b].h + 1 BY <1>6, <1>9, <3>1
    <3>8. (u + 1) - 1 = u BY <1>9
    <3> QED BY <1>6, <1>9, <1>11, <1>12, <1>15, <3>1, <3>2, <3>3, <3>4, <3>5, <3>6, <3>7, <3>8
        DEF BlockOK
  <2>3. \A n \in 1..(t + 1) : n = t + 1 \/ n \in 1..t BY <1>14
  <2>4. \A n \in 1..(t + 1) : BlockOK(cs[n], n)'
    <3> SUFFICES ASSUME NEW n \in 1..(t + 1) PROVE BlockOK(cs[n], n)' OBVIOUS
    <3>1. PICK x : x = cs[n] OBVIOUS
    <3>2. CASE n = t + 1
      <4>1. x = e BY <1>21, <3>1, <3>2
      <4>2. BlockOK(x, n)' BY <2>2, <3>2, <4>1
      <4> QED BY <3>1, <4>2
    <3>3. CASE n \in 1..t
      <4>1. x = bs[n] BY <1>21, <3>1, <3>3
      <4>2. BlockOK(bs[n], n)' BY <2>1, <3>3
      <4>3. BlockOK(x, n)' BY <4>1, <4>2
      <4> QED BY <3>1, <4>3
    <3> QED BY <2>3, <3>2, <3>3
  <2>5. \A i, n \in 1..(t + 1) : i < n => cs[i].h < cs[n].h
    <3> SUFFICES ASSUME NEW i \in 1..(t + 1), NEW n \in 1..(t + 1), i < n PROVE cs[i].h < cs[n].h
      OBVIOUS
    <3>1. i \in 1..t /\ cs[i] = bs[i] BY <1>14, <1>21
    <3>2. CASE n = t + 1 BY <1>9, <1>19, <1>21, <1>22, <3>1, <3>2
    <3>3. CASE n \in 1..t
      <4>1. bs[i].h < bs[n].h BY <1>1, <1>14, <3>1, <3>3 DEF BlocksOK
      <4> QED BY <1>21, <3>1, <3>3, <4>1
    <3> QED BY <2>3, <3>2, <3>3
  <2>6. Len(cs) = Len(handlers') BY <1>15, <1>21
  <2> QED BY <1>21, <2>4, <2>5, <2>6 DEF BlocksOK
<1>24. PICK o : o = Outer OBVIOUS
<1>25. /\ o \in Nat /\ Outer' = o /\ \A j \in 0..o : Cut(j)' = Cut(j) /\ Cut(j) \in Nat /\ Cut(j) <= t
       /\ \A i \in 0..o : Cut(i) <= Cut(o)
  <2>1. Outer' = Outer /\ \A j : Cut(j)' = Cut(j) BY <1>6 DEF Outer, Native, Cut
  <2>2. o \in Nat /\ \A j \in 0..o : Cut(j) \in Nat BY <1>1, <1>24, CutsKnown
  <2>3. \A j \in 0..o : j = 0 \/ j \in 1..o BY <2>2
  <2>4. \A j \in 0..o : Cut(j) <= t BY <1>1, <1>13, <1>14, <1>24, <2>3 DEF ChainsOK, Cut
  <2>5. \A i \in 0..o : i = o \/ i < o BY <2>2
  <2>6. o \in 0..o BY <2>2
  <2>7. \A i \in 0..o : Cut(i) <= Cut(o)
    <3> SUFFICES ASSUME NEW i \in 0..o PROVE Cut(i) <= Cut(o) OBVIOUS
    <3>1. i < o => Cut(i) <= Cut(o) BY <1>1, <1>24, <2>6 DEF ChainsOK
    <3> QED BY <2>2, <2>5, <3>1
  <2> QED BY <1>24, <2>1, <2>2, <2>4, <2>7
<1>26. ChainsOK(cs)'
  <2>1. \A i, j \in 0..o : i < j => Cut(i)' <= Cut(j)' BY <1>1, <1>24, <1>25 DEF ChainsOK
  <2>2. ASSUME NEW j \in 1..o
        PROVE  /\ Cut(j)' <= Len(cs)
               /\ nest'[j].saved.handlerSp = Register(cs, j - 1, Cut(j))'
               /\ \A n \in DOMAIN cs : n <= Cut(j)' <=> cs[n].own <= Caller(j)'
    <3>1. PICK i : i = j - 1 OBVIOUS
    <3>2. PICK x : x = Cut(j) OBVIOUS
    <3>3. j \in 0..o /\ i \in 0..o BY <1>25, <3>1
    <3>4. x \in Nat /\ x <= t /\ Cut(j)' = x /\ Cut(i) \in Nat /\ Cut(i)' = Cut(i) BY <1>25, <3>2, <3>3
    <3>5. nest[j].saved.handlerSp = Register(bs, i, x)
      BY <1>1, <1>24, <3>1, <3>2 DEF ChainsOK
    <3>6. Register(cs, j - 1, Cut(j))' = Register(cs, i, x) BY <3>1, <3>4 DEF Register
    <3>7. Register(cs, i, x) = Register(bs, i, x)
      <4>1. CASE x = Cut(i) BY <4>1 DEF Register
      <4>2. CASE x # Cut(i)
        <5>1. Cut(i) <= x
          <6>1. i < j BY <1>25, <3>1
          <6> QED BY <1>1, <1>24, <3>2, <3>3, <6>1 DEF ChainsOK
        <5>2. x \in 1..t BY <1>14, <3>4, <4>2, <5>1
        <5> QED BY <1>21, <4>2, <5>2 DEF Register
      <4> QED BY <4>1, <4>2
    <3>8. Caller(j)' = Caller(j) /\ Caller(j) \in Nat /\ Caller(j) < b
      BY <1>1, <1>6, <1>8, <1>24, NestKnown DEF Caller
    <3>9. \A n \in 1..(t + 1) : n <= x <=> cs[n].own <= Caller(j)
      <4> SUFFICES ASSUME NEW n \in 1..(t + 1) PROVE n <= x <=> cs[n].own <= Caller(j) OBVIOUS
      <4>1. CASE n = t + 1
        <5>1. cs[n].own = b BY <1>19, <1>21, <4>1
        <5> QED BY <1>9, <1>14, <3>4, <3>8, <4>1, <5>1
      <4>2. CASE n \in 1..t
        <5>1. n <= Cut(j) <=> bs[n].own <= Caller(j) BY <1>1, <1>14, <1>24, <4>2 DEF ChainsOK
        <5> QED BY <1>21, <3>2, <4>2, <5>1
      <4> QED BY <1>14, <4>1, <4>2
    <3> QED BY SMTT(40), <1>6, <1>14, <1>21, <3>4, <3>5, <3>6, <3>7, <3>8, <3>9
  <2>3. ASSUME NEW n \in 1..(t + 1)
        PROVE  stack'[cs[n].h - 1].hsp = IF \E j \in 0..o : Cut(j) = n - 1 THEN 0 ELSE cs[n - 1].h
    <3>1. CASE n \in 1..t
      <4>1. bs[n].h - 1 \in 1..u /\ cs[n] = bs[n] BY SMTT(40), <1>9, <1>21, <1>22, <3>1
      <4>2. stack[bs[n].h - 1].hsp = IF \E j \in 0..o : Cut(j) = n - 1 THEN 0 ELSE bs[n - 1].h
        BY <1>1, <1>14, <1>24, <3>1 DEF ChainsOK
      <4>3. CASE n = 1
        <5>1. Cut(0) = n - 1 /\ 0 \in 0..o BY <1>25, <4>3 DEF Cut
        <5> QED BY <1>12, <4>1, <4>2, <5>1
      <4>4. CASE n # 1
        <5>1. n - 1 \in 1..t BY <1>14, <3>1, <4>4
        <5> QED BY <1>12, <1>21, <4>1, <4>2, <5>1
      <4> QED BY <4>3, <4>4
    <3>2. CASE n = t + 1
      <4>1. cs[n].h - 1 = u /\ n - 1 = t BY <1>9, <1>14, <1>19, <1>21, <3>2
      <4>2. u \in 1..u BY <1>9
      <4>3. stack'[u].hsp = handlerSp
        <5>1. stack'[u] = SavedHandler(handlerSp) BY <1>6, <1>12, <4>2
        <5> QED BY <5>1 DEF SavedHandler
      <4>4. handlerSp = IF t = Cut(o) THEN 0 ELSE bs[t].h BY <1>7, <1>13, <1>24 DEF Register
      <4>5. (\E j \in 0..o : Cut(j) = t) <=> t = Cut(o)
        <5>1. o \in 0..o BY <1>25
        <5>2. ASSUME NEW j \in 0..o, Cut(j) = t PROVE t = Cut(o)
          <6>1. Cut(o) \in Nat /\ Cut(o) <= t /\ t <= Cut(o) BY <1>25, <5>1, <5>2
          <6> QED BY <1>14, <6>1
        <5> QED BY <5>1, <5>2
      <4>6. CASE t = Cut(o) BY <4>1, <4>3, <4>4, <4>5, <4>6
      <4>7. CASE t # Cut(o)
        <5>1. o \in 0..o BY <1>25
        <5>2. t \in 1..t BY <1>14, <1>25, <4>7, <5>1
        <5> QED BY <1>21, <4>1, <4>3, <4>4, <4>5, <4>7, <5>2
      <4> QED BY <4>6, <4>7
    <3> QED BY <1>14, <3>1, <3>2
  <2>4. \A n \in 1..(t + 1) :
          (stack'[cs[n].h - 1].hsp = IF \E j \in 0..o : Cut(j)' = n - 1 THEN 0 ELSE cs[n - 1].h)
    BY <1>25, <2>3
  <2> QED BY <1>21, <1>25, <2>1, <2>2, <2>4 DEF ChainsOK
<1>27. RegisterOK(cs)'
  <2>1. o \in 0..o BY <1>25
  <2>2. Cut(o)' <= t /\ Cut(o)' \in Nat BY <1>25, <2>1
  <2>3. Register(cs, Outer, Len(cs))' = u + 1
    <3>1. t + 1 # Cut(o)' BY <1>14, <2>2
    <3> QED BY <1>19, <1>21, <1>25, <3>1 DEF Register
  <2> QED BY <1>6, <2>3 DEF RegisterOK
<1>28. PhaseOK' BY <1>6 DEF PhaseOK
<1> QED BY <1>16, <1>18, <1>23, <1>26, <1>27, <1>28 DEF MachineInv

\* DELETE_HANDLER drops the last block, which the running activation owns.
LEMMA AfterDeleteHandler ==
  ASSUME NEW bs, Good(bs), RegisterOK(bs), DeleteHandler
  PROVE  MachineInv'
<1>1. DataOK /\ BaseOK /\ SegsOK /\ NestOK /\ BlocksOK(bs) /\ ChainsOK(bs) BY DEF Good
<1>2. DataFacts /\ BaseFacts BY <1>1, DataKnown, BaseKnown
<1>3. PICK n : n = Len(bs) OBVIOUS
<1>4. PICK w : w = bs[n].own OBVIOUS
<1>5. PICK h : h = handlerSp OBVIOUS
<1>6. PICK m : m = h - 2 OBVIOUS
<1>7. /\ status = "running" /\ status' = status /\ h > Top.h
      /\ stack' = Append(SubSeq(stack, 1, m), Data) /\ handlerSp' = stack[h - 1].hsp
      /\ handlers' = Front(handlers) /\ pc' = pc /\ seg' = seg /\ frames' = frames /\ nest' = nest
      /\ gc' = gc /\ base' = base
  BY <1>5, <1>6 DEF DeleteHandler, HandlersLeft, Stepping, Interpreting, outer
<1>8. PICK b : b = Len(base) OBVIOUS
<1>9. /\ Top = base[b] /\ b \in Nat /\ b >= 1 /\ Top.h \in Nat /\ DOMAIN base = 1..b
      /\ Height \in Nat /\ Arity[Top.code] \in Nat /\ Floor(b) \in Nat
      /\ Top.h = Floor(b) + 2 + Arity[Top.code]
  BY <1>1, <1>2, <1>8, TopKnown DEF DataFacts
<1>10. handlerSp = Register(bs, Outer, Len(bs)) BY <1>7 DEF RegisterOK
<1>11. handlerSp # 0
  <2>1. handlerSp \in Nat BY <1>1 DEF DataOK
  <2> QED BY <1>5, <1>7, <1>9, <2>1
<1>12. /\ n \in 1..Len(bs) /\ n - 1 \in 0..Len(bs) /\ n \in Nat /\ n >= 1
       /\ h = bs[n].h /\ BlockOK(bs[n], n) /\ h \in Nat /\ h - 2 \in 0..Height
       /\ w \in 1..Len(base) /\ w \in Nat /\ base[w].h <= h - 2 /\ base[w].h \in Nat
       /\ ~base[w].native
       /\ Cut(Outer) <= n - 1
       /\ \A j \in 1..Outer : Caller(j) + 1 <= w
       /\ \A i \in 1..(n - 1) : bs[i].h <= h - 2 /\ bs[i].own <= w
       /\ stack[h - 1].hsp = Register(bs, Outer, n - 1)
       /\ stack[h].pc \in Address /\ stack[h - 1].hsp \in Nat
  BY ONLY SMTT(40), Good(bs), <1>3, <1>4, <1>5, <1>10, <1>11, LastBlock
<1>13. w = b
  <2>1. w < b => h <= Floor(b)
    <3>1. b \in DOMAIN base BY <1>9
    <3> QED BY <1>4, <1>9, <1>12, <3>1 DEF BlockOK
  <2>2. h \in Nat /\ h > Top.h BY <1>7, <1>12
  <2>4. ~ (h <= Floor(b)) BY <1>9, <2>2
  <2>3. w <= b /\ w \in Nat BY <1>8, <1>9, <1>12
  <2> QED BY <1>9, <2>1, <2>3, <2>4
<1>14. m \in 0..Height /\ m \in Nat /\ Top.h <= m BY <1>6, <1>9, <1>12, <1>13
<1>15. /\ stack' \in Seq(Word) /\ Len(stack') = m + 1 /\ \A i \in 1..m : stack'[i] = stack[i]
  <2>1. PICK s : s = SubSeq(stack, 1, m) OBVIOUS
  <2>2. stack \in Seq(Word) /\ Height = Len(stack) BY <1>1 DEF DataOK, Height
  <2>3. s \in Seq(Word) /\ Len(s) = m /\ \A i \in 1..m : s[i] = stack[i]
    <3>1. m \in 0..Len(stack) BY <1>14, <2>2
    <3> QED BY <2>1, <2>2, <3>1, Prefix
  <2>4. Append(s, Data) \in Seq(Word) /\ Len(Append(s, Data)) = m + 1
        /\ \A i \in 1..m : Append(s, Data)[i] = s[i]
    BY <2>3, WordsKnown, Appended
  <2> QED BY <1>7, <2>1, <2>3, <2>4
<1>16. PICK t : t = n - 1 OBVIOUS
<1>17. t \in 0..Len(bs) /\ Cut(Outer) <= t /\ Len(bs) = Len(handlers) /\ t \in Nat
  BY <1>1, <1>12, <1>16 DEF BlocksOK
<1>18. /\ handlers' \in Seq([depth : Nat, c : Codes, at : Nat]) /\ Len(handlers') = t
       /\ \A i \in 1..t : handlers'[i] = handlers[i]
  <2>1. handlers \in Seq([depth : Nat, c : Codes, at : Nat]) /\ Len(handlers) = n /\ n > 0
    BY <1>1, <1>3, <1>12, <1>17 DEF DataOK
  <2> QED BY <1>7, <1>16, <2>1, Shortened
<1>19. DataOK' BY <1>1, <1>7, <1>12, <1>15, <1>18 DEF DataOK
<1>20. PICK cs : cs = SubSeq(bs, 1, t) OBVIOUS
<1>21. Good(cs)'
  <2>1. Keeps(m, Len(base))
    <3>1. m \in 0..Height /\ m <= Len(stack') /\ b \in 0..b BY <1>9, <1>14, <1>15
    <3> QED BY <1>7, <1>8, <1>15, <3>1 DEF Keeps
  <2>2. SegOf(pc') = seg' BY <1>1, <1>7 DEF SegsOK
  <2>3. \A i \in 1..t : bs[i].h <= m BY <1>6, <1>12, <1>16
  <2> QED BY <1>7, <1>14, <1>17, <1>18, <1>19, <1>20, <2>1, <2>2, <2>3, SameActivations
<1>22. RegisterOK(cs)'
  <2>1. Outer' = Outer /\ \A j \in 1..Outer : nest'[j] = nest[j] BY <1>7 DEF Outer, Native
  <2>2. Register(cs, Outer, Len(cs))' = Register(bs, Outer, t)
    BY <1>17, <1>20, <2>1, RegisterKept
  <2> QED BY <1>7, <1>12, <1>16, <2>2 DEF RegisterOK
<1>23. PhaseOK' BY <1>7 DEF PhaseOK
<1> QED BY <1>21, <1>22, <1>23 DEF MachineInv, Good

-----------------------------------------------------------------------------
(* Raises and calls of the interpreter *)

\* An exception or an interpreter error of a running instruction or of a
\* region.
LEMMA AfterException ==
  ASSUME NEW bs, Good(bs), RegisterOK(bs), PhaseOK,
         \/ RaiseEx \/ RaiseOverflow \/ (Stepping /\ RtsRaises)
         \/ DivByZero \/ StackOverflows \/ HeapExhausted
         \/ HookRaises
  PROVE  MachineInv'
<1>1. ASSUME Stepping PROVE ~Native /\ handlerSp = Register(bs, Outer, Len(bs))
  BY <1>1 DEF Stepping, Interpreting, RegisterOK
<1>2. CASE RaiseEx
  <2>1. PICK x \in Packets : DoRaiseEx(x) BY <1>2 DEF RaiseEx
  <2>2. Stepping BY <1>2 DEF RaiseEx
  <2> QED BY <1>1, <2>1, <2>2, AfterRaise
<1>3. CASE RaiseOverflow
  <2>1. Stepping /\ DoRaiseEx(Overflow) BY <1>3 DEF RaiseOverflow
  <2> QED BY <1>1, <2>1, AfterRaise
<1>4. CASE Stepping /\ RtsRaises
  <2>1. PICK x \in Packets : DoRaiseEx(x) BY <1>4 DEF RtsRaises
  <2> QED BY <1>1, <1>4, <2>1, AfterRaise
<1>5. CASE DivByZero BY <1>1, <1>5, AfterFail DEF DivByZero
<1>6. CASE StackOverflows BY <1>1, <1>6, AfterFail DEF StackOverflows
<1>7. CASE HeapExhausted BY <1>1, <1>7, AfterFail DEF HeapExhausted
<1>8. CASE HookRaises
  <2>1. status = "escaped" /\ ~Native BY <1>8 DEF HookRaises, PhaseOK
  <2>2. CASE flight \in HardErrors
    <3>1. Fails(flight) BY <1>8, <2>2 DEF HookRaises
    <3> QED BY <2>1, <3>1, AfterFail
  <2>3. CASE flight \notin HardErrors
    <3>1. DoRaiseEx(flight) BY <1>8, <2>3 DEF HookRaises
    <3>2. handlerSp = Register(bs, Outer, Len(bs)) BY <2>3 DEF RegisterOK
    <3> QED BY <2>1, <3>1, <3>2, AfterRaise
  <2> QED BY <2>2, <2>3
<1> QED BY <1>2, <1>3, <1>4, <1>5, <1>6, <1>7, <1>8

\* do_call, from an instruction or from the runtime.
LEMMA AfterInterpretedCall ==
  ASSUME NEW bs, Good(bs), RegisterOK(bs),
         Call \/ \E n \in 1..2 : Stepping /\ DataOnTop(n) /\ RtsCallsBack(n)
  PROVE  MachineInv'
<1>1. DataOK BY DEF Good
<1>2. \E c \in Codes, p \in ReturnPlaces, n \in 0..2, d \in 0..1 :
        /\ Stepping /\ DataOnTop(Arity[c] + n - d) /\ n >= d /\ n <= Arity[c] + n - d
        /\ DoCall(c, p, Shuffled(n, d))
  <2>1. CASE Call
    <3>1. PICK c \in Codes, p \in ReturnPlaces, n \in 0..1 :
            DataOnTop(Arity[c] + n) /\ DoCall(c, p, Shuffled(n, 0))
      BY <2>1 DEF Call
    <3>2. Stepping BY <2>1 DEF Call
    <3>3. Arity[c] \in Nat BY MachineConstants
    <3>4. Arity[c] + n - 0 = Arity[c] + n /\ n \in 0..2 /\ n >= 0 /\ n <= Arity[c] + n - 0 BY <3>3
    <3> QED BY <3>1, <3>2, <3>4
  <2>2. CASE \E n \in 1..2 : Stepping /\ DataOnTop(n) /\ RtsCallsBack(n)
    <3>1. PICK n \in 1..2 : Stepping /\ DataOnTop(n) /\ RtsCallsBack(n) BY <2>2
    <3>2. PICK c \in Codes, p \in ReturnPlaces :
            n = 2 /\ Arity[c] = 1 /\ DoCall(c, p, Shuffled(n, 1))
      BY <3>1 DEF RtsCallsBack
    <3>3. Arity[c] + n - 1 = n /\ n \in 0..2 /\ n >= 1 /\ n <= Arity[c] + n - 1 BY <3>2
    <3> QED BY <3>1, <3>2, <3>3
  <2> QED BY <2>1, <2>2
<1>3. PICK c \in Codes, p \in ReturnPlaces, n \in 0..2, d \in 0..1 :
        /\ Stepping /\ DataOnTop(Arity[c] + n - d) /\ n >= d /\ n <= Arity[c] + n - d
        /\ DoCall(c, p, Shuffled(n, d))
  BY <1>2
<1>4. Arity[c] \in Nat /\ p \in Places BY MachineConstants
<1>5. PICK e : e = Arity[c] + n - d OBVIOUS
<1>6. e \in Nat /\ n \in Nat /\ d \in Nat /\ DataOnTop(e) /\ n <= e BY <1>3, <1>4, <1>5
<1>7. PICK m : m = Height - e OBVIOUS
<1>8. /\ m \in Nat /\ m \in 0..Height /\ Height \in Nat /\ Top.h <= m
      /\ \A i \in 1..Len(bs) : bs[i].h <= m
  BY <1>6, <1>7, OnTop
<1>9. PICK u : u = Height - n OBVIOUS
<1>10. u \in 0..Height /\ u \in Nat /\ m <= u BY <1>6, <1>7, <1>8, <1>9
<1>11. PICK s : s = Shuffled(n, d) OBVIOUS
<1>12. s \in Seq(Word) /\ Len(s) = u + d /\ \A i \in 1..u : s[i] = stack[i]
  <2>1. /\ Shuffled(n, d) \in Seq(Word) /\ Len(Shuffled(n, d)) = u + d
        /\ \A i \in 1..u : Shuffled(n, d)[i] = stack[i]
    <3>1. DataOK /\ u = Height - n /\ u \in 0..Height /\ n \in Nat /\ d \in Nat
      BY <1>1, <1>6, <1>9, <1>10
    <3> QED BY ONLY <3>1, ShuffledKnown
  <2> QED BY <1>11, <2>1
<1>13. m = Len(s) - Arity[c] /\ m <= Height
  <2>1. PICK a, l, x : a = Arity[c] /\ l = Len(s) /\ x = Height OBVIOUS
  <2>2. a \in Nat /\ l = u + d /\ e = a + n - d /\ m = x - e /\ u = x - n
    BY <1>4, <1>5, <1>7, <1>9, <1>12, <2>1
  <2>3. x \in Nat /\ n \in Nat /\ d \in Nat BY <1>6, <1>8, <2>1
  <2>4. m = l - a BY ONLY <2>2, <2>3
  <2> QED BY <1>8, <2>1, <2>4
<1>14. \A i \in 1..m : s[i] = stack[i]
  <2>1. \A i \in 1..m : i \in 1..u BY <1>8, <1>10
  <2> QED BY <1>12, <2>1
<1>15. ~Native /\ status = "running" /\ handlerSp = Register(bs, Outer, Len(bs))
  BY <1>3 DEF Stepping, Interpreting, RegisterOK
<1>16. DoCall(c, p, s) BY <1>3, <1>11
<1> QED BY <1>4, <1>8, <1>12, <1>13, <1>14, <1>15, <1>16, AfterCall

-----------------------------------------------------------------------------
(* Returns *)

\* What lies below the running activation: b activations on m words.
Below(bs, b, m) ==
  /\ b \in Nat /\ m \in Nat /\ Height \in Nat /\ m <= Height /\ Len(base) = b + 1
  /\ b >= 1 => base[b].h <= m /\ base[b].h \in Nat
  /\ b >= 1 <=> Len(base) > 1
  /\ DOMAIN base = 1..(b + 1)
  /\ Front(base) \in Seq([code : Codes, h : Nat, native : BOOLEAN])
  /\ Len(Front(base)) = b /\ \A i \in 1..b : Front(base)[i] = base[i]
  /\ Top = base[b + 1] /\ Top.h = m + 2 + Arity[Top.code]
  /\ Top.h <= Height /\ Top.h \in Nat /\ Arity[Top.code] \in Nat
  /\ \A n \in 1..Len(bs) :
       /\ bs[n].own \in 1..(b + 1) /\ ~base[bs[n].own].native
       /\ bs[n].own # b + 1 => bs[n].own <= b /\ bs[n].h <= m
  /\ \A j \in 1..Outer : Caller(j) \in Nat /\ Caller(j) >= 1 /\ Caller(j) <= b

LEMMA BelowTop ==
  ASSUME NEW bs, Good(bs), NEW b, b = Len(base) - 1, NEW m, m = Floor(Len(base))
  PROVE  Below(bs, b, m)
<1>1. DataOK /\ BaseOK /\ SegsOK /\ NestOK /\ BlocksOK(bs) /\ ChainsOK(bs) BY DEF Good
<1>2. DataFacts /\ BaseFacts BY <1>1, DataKnown, BaseKnown
<1>3. /\ Top = base[Len(base)] /\ Len(base) \in Nat /\ Len(base) >= 1
      /\ Top.h \in Nat /\ Top.h <= Height /\ Height \in Nat /\ Top.code \in Codes
      /\ Arity[Top.code] \in Nat /\ Floor(Len(base)) \in Nat
      /\ Top.h = Floor(Len(base)) + 2 + Arity[Top.code]
  BY <1>1, TopKnown
<1>4. PICK k : k = Len(base) OBVIOUS
<1>5. /\ b \in Nat /\ k = b + 1 /\ m \in Nat /\ Top.h = m + 2 + Arity[Top.code] /\ m <= Height
      /\ DOMAIN base = 1..(b + 1) /\ (b >= 1 <=> k > 1)
  <2>1. b \in Nat /\ k = b + 1 /\ (b >= 1 <=> k > 1) BY <1>3, <1>4
  <2>2. DOMAIN base = 1..(b + 1) BY <1>2, <1>4, <2>1 DEF DataFacts
  <2>3. PICK a : a = Arity[Top.code] OBVIOUS
  <2>4. Top.h = m + 2 + a /\ m \in Nat /\ a \in Nat BY <1>3, <2>3
  <2>5. m <= Height BY <1>3, <2>4
  <2> QED BY <2>1, <2>2, <2>3, <2>4, <2>5
<1>6. b >= 1 => base[b].h <= m /\ base[b].h \in Nat
  <2>1. b >= 1 => b \in 1..k /\ k \in 1..k /\ b < k BY <1>5
  <2> QED BY <1>2, <1>4, <2>1 DEF BaseFacts
<1>7. /\ Front(base) \in Seq([code : Codes, h : Nat, native : BOOLEAN])
      /\ Len(Front(base)) = b /\ \A i \in 1..b : Front(base)[i] = base[i]
  <2>1. base \in Seq([code : Codes, h : Nat, native : BOOLEAN]) /\ Len(base) > 0
    BY <1>1, <1>3 DEF DataOK
  <2> QED BY <2>1, Shortened
<1>8. ASSUME NEW n \in 1..Len(bs)
      PROVE  /\ bs[n].own \in 1..(b + 1) /\ ~base[bs[n].own].native
             /\ bs[n].own # b + 1 => bs[n].own <= b /\ bs[n].h <= m
  <2>1. n \in DOMAIN bs BY <1>1, BlockKnown
  <2>2. BlockOK(bs[n], n) BY <1>1, <2>1 DEF BlocksOK
  <2>3. bs[n].own \in 1..(b + 1) /\ ~base[bs[n].own].native BY <1>5, <2>2 DEF BlockOK
  <2>4. b + 1 \in DOMAIN base BY <1>5
  <2>5. b + 1 > bs[n].own => bs[n].h <= m BY <1>4, <1>5, <2>2, <2>4 DEF BlockOK
  <2> QED BY <1>5, <2>3, <2>5
<1>9. ASSUME NEW j \in 1..Outer PROVE Caller(j) \in Nat /\ Caller(j) >= 1 /\ Caller(j) <= b
  <2>1. Caller(j) \in Nat /\ Caller(j) >= 1 /\ Caller(j) < k BY <1>1, <1>4, NestKnown
  <2> QED BY <1>5, <2>1
<1> QED BY <1>3, <1>4, <1>5, <1>6, <1>7, <1>8, <1>9 DEF Below

\* The nested run ends, and what lies below its last activation is kept.
LEMMA RunEnds ==
  ASSUME NEW bs, Good(bs), ~Native, nest # <<>>, Restored, stack' \in Seq(Word),
         NEW m, m = Floor(Len(base)), m <= Len(stack'), \A i \in 1..m : stack'[i] = stack[i],
         status' \in {"running", "raising"}
  PROVE  MachineInv'
<1>1. DataOK /\ NestOK /\ BlocksOK(bs) /\ ChainsOK(bs) /\ BaseOK BY DEF Good
<1>2. PICK b : b = Len(base) - 1 OBVIOUS
<1>3. /\ b \in Nat /\ m \in Nat /\ m <= Height /\ Len(base) = b + 1
      /\ \A n \in 1..Len(bs) : bs[n].own # b + 1 => bs[n].h <= m
      /\ \A j \in 1..Outer : Caller(j) \in Nat /\ Caller(j) >= 1 /\ Caller(j) <= b
  BY <1>2, BelowTop DEF Below
<1>4. PICK o : o = Outer OBVIOUS
<1>5. o \in Nat /\ o \in 1..o /\ o \in 0..o
  <2>1. nest \in Seq(NestedFrame) BY <1>1 DEF DataOK
  <2>2. Len(nest) # 0 BY <2>1
  <2> QED BY <1>4, <2>1, <2>2, Elements DEF Outer
<1>6. Cut(o) \in Nat /\ Cut(o) <= Len(bs) /\ Len(bs) \in Nat /\ DOMAIN bs = 1..Len(bs)
  BY <1>1, <1>4, <1>5, CutsKnown, BlockKnown DEF ChainsOK
<1>7. Caller(o) \in Nat /\ Caller(o) <= b /\ Caller(o) >= 1 BY <1>3, <1>4, <1>5
<1>8. \A n \in 1..Cut(o) : bs[n].h <= m
  <2> SUFFICES ASSUME NEW n \in 1..Cut(o) PROVE bs[n].h <= m OBVIOUS
  <2>1. n \in 1..Len(bs) /\ n \in DOMAIN bs /\ n <= Cut(o) BY <1>6
  <2>2. bs[n].own <= Caller(o) BY <1>1, <1>4, <1>5, <2>1 DEF ChainsOK
  <2>3. bs[n].own \in Nat BY <1>1, <2>1, BlockKnown
  <2>4. bs[n].own # b + 1 BY <1>3, <1>7, <2>2, <2>3
  <2> QED BY <1>3, <2>1, <2>4
<1>9. base[Caller(o)].h <= m
  <2>1. Caller(o) \in 1..Len(base) /\ Len(base) \in 1..Len(base) /\ Caller(o) < Len(base)
    BY <1>3, <1>7
  <2> QED BY <1>1, <2>1, BaseKnown DEF BaseFacts
<1>10. PICK cs : cs = SubSeq(bs, 1, Cut(o)) OBVIOUS
<1>11. Good(cs)' /\ Native' /\ handlerSp' = Register(cs, Outer, Len(cs))'
  BY <1>3, <1>4, <1>8, <1>9, <1>10, AfterRestore
<1>12. PhaseOK' /\ RegisterOK(cs)' BY <1>11 DEF PhaseOK, RegisterOK
<1> QED BY <1>11, <1>12 DEF MachineInv, Good

\* The finish flag ends the run.
LEMMA AfterHalt ==
  ASSUME NEW bs, Good(bs), Halt
  PROVE  MachineInv'
<1>1. ~Native /\ status = "running" BY DEF Halt, Interpreting
<1>2. CASE nest = <<>>
  <2>1. status' = "finished" BY <1>2 DEF Halt
  <2> QED BY <2>1 DEF MachineInv, Live
<1>3. CASE nest # <<>>
  <2>1. /\ Restored /\ status' \in {"running", "raising"}
        /\ stack' = stack \/ stack' = Append(stack, Data)
    BY <1>1, <1>3 DEF Halt
  <2>2. PICK m : m = Floor(Len(base)) OBVIOUS
  <2>3. PICK b : b = Len(base) - 1 OBVIOUS
  <2>4. m \in Nat /\ Height \in Nat /\ m <= Height BY <2>2, <2>3, BelowTop DEF Below
  <2>5. stack \in Seq(Word) /\ Len(stack) = Height BY DEF Good, DataOK, Height
  <2>6. /\ stack' \in Seq(Word) /\ Len(stack') \in {Height, Height + 1}
        /\ \A i \in 1..Height : stack'[i] = stack[i]
    <3>1. CASE stack' = stack BY <2>5, <3>1
    <3>2. CASE stack' = Append(stack, Data) BY <2>5, <3>2, WordsKnown, Appended
    <3> QED BY <2>1, <3>1, <3>2
  <2>7. m <= Len(stack') /\ \A i \in 1..m : stack'[i] = stack[i] BY <2>4, <2>6
  <2> QED BY <1>1, <1>3, <2>1, <2>2, <2>6, <2>7, RunEnds
<1> QED BY <1>2, <1>3

\* A native activation is left, and with the root of its region the region.
LEMMA NativeLeaves ==
  ASSUME NEW bs, Good(bs), RegisterOK(bs), Native,
         NEW m, m = Floor(Len(base)), stack' \in Seq(Word), m <= Len(stack'),
         \A i \in 1..m : stack'[i] = stack[i],
         base' = Front(base), nest' = IF AtRoot THEN Front(nest) ELSE nest,
         UNCHANGED Registers, flight' = flight, status # "running" => status' # "running",
         AtRoot => status' # "raising", ~AtRoot => status' # "escaped"
  PROVE  MachineInv'
<1>1. DataOK /\ BaseOK /\ SegsOK /\ NestOK /\ BlocksOK(bs) /\ ChainsOK(bs) BY DEF Good
<1>2. DataFacts /\ BaseFacts BY <1>1, DataKnown, BaseKnown
<1>3. /\ pc' = pc /\ seg' = seg /\ frames' = frames /\ handlers' = handlers
      /\ handlerSp' = handlerSp /\ gc' = gc
  BY DEF Registers
<1>4. PICK b : b = Len(base) - 1 OBVIOUS
<1>5. /\ b \in Nat /\ m \in Nat /\ Height \in Nat /\ m <= Height /\ Len(base) = b + 1
      /\ b >= 1 => base[b].h <= m /\ base[b].h \in Nat
      /\ Front(base) \in Seq([code : Codes, h : Nat, native : BOOLEAN])
      /\ Len(Front(base)) = b /\ \A i \in 1..b : Front(base)[i] = base[i]
      /\ Top = base[b + 1]
      /\ \A n \in 1..Len(bs) :
           /\ bs[n].own \in 1..(b + 1) /\ ~base[bs[n].own].native
           /\ bs[n].own # b + 1 => bs[n].own <= b /\ bs[n].h <= m
      /\ \A j \in 1..Outer : Caller(j) \in Nat /\ Caller(j) >= 1 /\ Caller(j) <= b
  <2>1. Below(bs, b, m) BY <1>4, BelowTop
  <2> QED BY <2>1 DEF Below
<1>6. PICK o : o = Outer OBVIOUS
<1>7. o \in 0..Outer /\ o \in Nat /\ Len(nest) = o + 1 /\ RootOK(o + 1, b + 1)
  <2>1. Outer \in Nat /\ Len(nest) = Outer + 1 /\ RootOK(Len(nest), Len(base)) BY <1>1, NestKnown
  <2> QED BY <1>5, <1>6, <2>1
<1>8. PICK r \in 2..(b + 1) : /\ base[r].h = nest[o + 1].top + 2 /\ ~base[r - 1].native
                              /\ \A x \in r..(b + 1) : base[x].native
  BY <1>7 DEF RootOK
<1>9. b >= 1 /\ base[b + 1].native /\ b + 1 \in 1..Len(base) BY <1>5, <1>8
<1>10. nest \in Seq(NestedFrame) /\ Last(nest) = nest[o + 1] /\ Len(nest) > 0
  <2>1. nest \in Seq(NestedFrame) BY <1>1 DEF DataOK
  <2> QED BY <1>7, <2>1, Shortened
<1>11. AtRoot <=> r = b + 1
  <2>1. AtRoot <=> base[b + 1].h = base[r].h BY <1>5, <1>8, <1>10 DEF AtRoot
  <2>2. r < b + 1 => base[r].h + 2 <= base[b + 1].h
    <3>1. r \in 1..Len(base) BY <1>5
    <3> QED BY <1>2, <1>9, <3>1 DEF BaseFacts
  <2>3. base[r].h \in Nat /\ base[b + 1].h \in Nat
    <3>1. r \in 1..Len(base) BY <1>5
    <3> QED BY <1>2, <1>9, <3>1 DEF BaseFacts
  <2>4. r = b + 1 \/ r < b + 1 BY <1>5
  <2> QED BY <2>1, <2>2, <2>3, <2>4
<1>12. /\ nest' \in Seq(NestedFrame) /\ (\A j \in 1..o : nest'[j] = nest[j])
       /\ Outer' = o /\ (AtRoot <=> ~Native') /\ (~AtRoot => nest' = nest)
  <2>1. CASE AtRoot
    <3>1. nest' = Front(nest) BY <2>1
    <3>2. /\ Front(nest) \in Seq(NestedFrame) /\ Len(Front(nest)) = Len(nest) - 1
          /\ \A i \in 1..(Len(nest) - 1) : Front(nest)[i] = nest[i]
      BY <1>10, Shortened
    <3>3. nest' \in Seq(NestedFrame) /\ Len(nest') = o /\ \A j \in 1..o : nest'[j] = nest[j]
      BY <1>7, <3>1, <3>2
    <3>4. ~Native'
      <4>1. CASE o = 0
        <5>1. nest' = <<>> BY <3>3, <4>1
        <5> QED BY <5>1 DEF Native
      <4>2. CASE o # 0
        <5>1. o \in 1..o /\ o \in DOMAIN nest /\ o <= Outer BY <1>2, <1>6, <1>7, <4>2 DEF DataFacts
        <5>2. nest[o].saved # None BY <1>1, <5>1 DEF NestOK
        <5>3. Last(nest)' = nest[o] BY <3>3, <5>1 DEF Last
        <5> QED BY <5>2, <5>3 DEF Native
      <4> QED BY <4>1, <4>2
    <3> QED BY <2>1, <3>3, <3>4 DEF Outer
  <2>2. CASE ~AtRoot
    <3>1. nest' = nest BY <2>2
    <3>2. Native' BY <3>1 DEF Native
    <3>3. Outer' = Len(nest) - 1 BY <3>1, <3>2 DEF Outer
    <3> QED BY <1>7, <1>10, <2>2, <3>1, <3>2, <3>3
  <2> QED BY <2>1, <2>2
<1>13. DataOK' BY <1>1, <1>3, <1>5, <1>12 DEF DataOK
<1>14. Keeps(m, b) /\ Len(base') = b
  <2>1. m \in 0..Height /\ b \in 0..Len(base) /\ b <= Len(base') /\ Len(base') = b BY <1>5
  <2> QED BY <1>5, <2>1 DEF Keeps
<1>15. b # b + 1 /\ b # 0 /\ b = Len(base') BY <1>5, <1>9, <1>14
<1>16. RankFacts /\ Rank(b + 1) = Rank(b) /\ Rank(b) \in Nat /\ Len(frames) = Rank(b) - 1
  <2>1. Len(frames) = Rank(b + 1) - 1 BY <1>1, <1>5 DEF SegsOK, Interpreted
  <2>2. Rank(b) \in Nat /\ Rank(b + 1) = Rank(b) + (IF base[b + 1].native THEN 0 ELSE 1)
    BY <1>5, RankKnown DEF RankFacts
  <2>3. Rank(b + 1) = Rank(b) BY <1>9, <2>2
  <2> QED BY <2>1, <2>2, <2>3, RankKnown
<1>17. Rank(b)' = Rank(b) /\ Interpreted' = Rank(b) /\ \A i \in 0..b : Rank(i)' = Rank(i)
  <2>1. \A i \in 0..b : Rank(i)' = Rank(i) BY <1>5, <1>14, RankKept
  <2>2. b \in 0..b BY <1>5
  <2>3. Interpreted' = Rank(b)' BY <1>14 DEF Interpreted, Rank
  <2> QED BY <2>1, <2>2, <2>3
<1>18. BaseOK'
  <2>1. Len(base') >= 1 BY <1>9, <1>14
  <2> QED BY <1>1, <1>5, <1>13, <1>14, <1>15, <2>1, BaseStep
<1>19. SegsOK'
  <2>1. Len(frames') = Interpreted' - 1 /\ SegOf(pc') = seg' BY <1>1, <1>3, <1>16, <1>17 DEF SegsOK
  <2>2. ASSUME NEW i \in 1..b, ~base[i].native, Rank(i) = Rank(b) PROVE SegAt(i)'.c = base[i].code
    <3>1. i \in 0..b /\ i \in 1..Len(base) BY <1>5
    <3>2. Rank(i)' = Interpreted' BY <1>17, <2>2, <3>1
    <3>3. SegAt(i)' = seg' BY <3>2 DEF SegAt
    <3>4. Rank(i) = Rank(Len(base)) BY <1>5, <1>16, <2>2
    <3>5. seg.c = base[i].code BY <1>1, <2>2, <3>1, <3>4, LastBounds
    <3> QED BY <1>3, <3>3, <3>5
  <2>3. \A x \in 1..(Rank(b) - 1) : frames'[x] = frames[x] BY <1>3
  <2> QED BY <1>1, <1>5, <1>13, <1>14, <1>15, <2>1, <2>2, <2>3, SegsStep
<1>20. \A j \in 1..o : nest'[j] = nest[j] BY <1>12
<1>21. NestOK'
  <2>1. \A x \in 1..(Rank(b) - 1) : frames'[x] = frames[x] BY <1>3
  <2>2. \A j \in 1..o : Caller(j) + 1 <= b
    <3> SUFFICES ASSUME NEW j \in 1..o PROVE Caller(j) + 1 <= b OBVIOUS
    <3>1. Caller(j) \in Nat /\ Caller(j) <= b BY <1>5, <1>6
    <3>2. FrameOK(j) BY <1>1, <1>6 DEF NestOK
    <3>3. ~base[Caller(j) + 1].native BY <3>2 DEF FrameOK
    <3>4. Caller(j) # b BY <1>9, <3>3
    <3> QED BY <1>5, <3>1, <3>4
  <2>3. Native' => RootOK(o + 1, b)'
    <3> SUFFICES ASSUME Native' PROVE RootOK(o + 1, b)' OBVIOUS
    <3>1. nest' = nest /\ r # b + 1 BY <1>11, <1>12
    <3>2. r \in 2..b /\ r..b \subseteq r..(b + 1) BY <1>5, <3>1
    <3>3. RootOK(o + 1, b) BY <1>8, <3>2 DEF RootOK
    <3>4. b <= b /\ nest'[o + 1].top = nest[o + 1].top BY <1>5, <3>1
    <3> QED BY <1>5, <1>14, <3>3, <3>4, RootKept
  <2>4. ~Native' => ~base'[b].native
    <3> SUFFICES ASSUME ~Native' PROVE ~base'[b].native OBVIOUS
    <3>1. r - 1 = b BY <1>5, <1>11, <1>12
    <3>2. ~base[b].native BY <1>8, <3>1
    <3>3. b \in 1..b BY <1>5, <1>9
    <3> QED BY <1>5, <3>2, <3>3
  <2>5. Outer' = o BY <1>12
  <2>6. b >= 1 => base[b].h <= m BY <1>5
  <2> QED BY <1>1, <1>5, <1>7, <1>13, <1>14, <1>15, <1>20, <2>1, <2>2, <2>3, <2>4, <2>5, <2>6, NestStep
<1>22. PICK t : t = Len(bs) OBVIOUS
<1>23. /\ t \in 0..Len(bs) /\ Len(handlers') = t /\ (\A n \in 1..t : handlers'[n] = handlers[n])
       /\ bs = SubSeq(bs, 1, t) /\ Cut(o) <= t
  BY <1>1, <1>3, <1>6, <1>22, WholeKept
<1>24. BlocksOK(bs)' /\ ChainsOK(bs)'
  <2>1. \A n \in 1..t : bs[n].h <= m /\ bs[n].own <= b /\ (b = b + 1 => bs[n].h <= Floor(b + 1)')
    <3> SUFFICES ASSUME NEW n \in 1..t PROVE bs[n].h <= m /\ bs[n].own <= b
      BY <1>15
    <3>1. ~base[bs[n].own].native BY <1>5, <1>22
    <3>2. bs[n].own # b + 1 BY <1>9, <3>1
    <3> QED BY <1>5, <1>22, <3>2
  <2>2. t \in 0..Len(bs) /\ Len(handlers') = t /\ \A n \in 1..t : handlers'[n] = handlers[n]
    BY <1>23
  <2>3. Cut(o) <= t /\ bs = SubSeq(bs, 1, t) /\ o = Outer /\ Outer' = o BY <1>6, <1>12, <1>23
  <2>4. PICK k : k = b OBVIOUS
  <2>5. b \in Nat /\ Keeps(m, b) /\ k = Len(base') /\ (k = b \/ k = b + 1) BY <1>5, <1>14, <2>4
  <2>6. \A n \in 1..t : bs[n].h <= m /\ bs[n].own <= b /\ (k = b + 1 => bs[n].h <= Floor(b + 1)')
    BY <1>15, <2>1, <2>4
  <2>7. o \in 0..Outer BY <1>7
  <2> QED BY <1>1, <1>13, <1>20, <2>2, <2>3, <2>5, <2>6, <2>7, BlocksStep
<1>25. RegisterOK(bs)'
  <2>1. \A j \in 1..Outer : nest'[j] = nest[j] BY <1>6, <1>20
  <2>2. Outer' = Outer BY <1>6, <1>12
  <2>3. Register(bs, Outer, Len(bs))' = Register(bs, Outer, t)
    BY <1>6, <1>23, <2>1, <2>2, RegisterKept
  <2> QED BY <1>3, <1>22, <2>3 DEF RegisterOK
<1>26. PhaseOK' BY <1>12 DEF PhaseOK
<1> QED BY <1>13, <1>18, <1>19, <1>21, <1>24, <1>25, <1>26 DEF MachineInv

\* A native activation returns, or passes a raise on.
LEMMA AfterNativeReturn ==
  ASSUME NEW bs, Good(bs), RegisterOK(bs), PhaseOK, NativeReturn \/ NativePropagate
  PROVE  MachineInv'
<1>1. DataOK /\ BaseOK /\ SegsOK /\ NestOK /\ BlocksOK(bs) /\ ChainsOK(bs) BY DEF Good
<1>2. PICK b : b = Len(base) - 1 OBVIOUS
<1>3. PICK m : m = Floor(Len(base)) OBVIOUS
<1>4. PICK a : a = Arity[Top.code] OBVIOUS
<1>5. /\ b \in Nat /\ m \in Nat /\ Height \in Nat /\ m <= Height /\ Len(base) = b + 1
      /\ Top.h = m + 2 + a /\ Top.h <= Height /\ Top.h \in Nat /\ a \in Nat
  BY <1>2, <1>3, <1>4, BelowTop DEF Below
<1>6. stack \in Seq(Word) /\ Len(stack) = Height BY <1>1 DEF DataOK, Height
<1>7. CASE NativeReturn
  <2>1. /\ status = "running" /\ Native /\ Height = Top.h + 1
        /\ stack' = Append(SubSeq(stack, 1, Height - 3 - a), Data)
        /\ base' = Front(base) /\ nest' = (IF AtRoot THEN Front(nest) ELSE nest)
        /\ UNCHANGED Registers /\ flight' = flight /\ status' = status
    BY <1>4, <1>7 DEF NativeReturn, InRegion
  <2>2. Height - 3 - a = m
    <3>1. PICK x, y : x = Height /\ y = Top.h OBVIOUS
    <3>2. x \in Nat /\ y \in Nat /\ x = y + 1 /\ y = m + 2 + a /\ m \in Nat /\ a \in Nat
      BY <1>5, <2>1, <3>1
    <3>3. x - 3 - a = m BY ONLY <3>2
    <3> QED BY <3>1, <3>3
  <2>3. PICK s : s = SubSeq(stack, 1, m) OBVIOUS
  <2>4. s \in Seq(Word) /\ Len(s) = m /\ \A i \in 1..m : s[i] = stack[i]
    <3>1. m \in 0..Len(stack) BY <1>5, <1>6
    <3> QED BY <1>6, <2>3, <3>1, Prefix
  <2>5. /\ stack' \in Seq(Word) /\ m <= Len(stack') /\ \A i \in 1..m : stack'[i] = stack[i]
    <3>1. Append(s, Data) \in Seq(Word) /\ Len(Append(s, Data)) = m + 1
          /\ \A i \in 1..m : Append(s, Data)[i] = s[i]
      BY <2>4, WordsKnown, Appended
    <3>2. stack' = Append(s, Data) BY <2>1, <2>2, <2>3
    <3> QED BY <1>5, <2>4, <3>1, <3>2
  <2>6. status' # "raising" /\ status' # "escaped" BY <2>1
  <2> QED BY <1>3, <2>1, <2>5, <2>6, NativeLeaves
<1>8. CASE NativePropagate
  <2>1. status = "raising" /\ Native BY <1>8 DEF NativePropagate, PhaseOK
  <2>2. base' = Front(base) /\ UNCHANGED Registers /\ flight' = flight BY <1>8 DEF NativePropagate
  <2>3. CASE AtRoot
    <3>1. PICK u : u = Last(nest).top OBVIOUS
    <3>2. stack' = SubSeq(stack, 1, u) /\ nest' = Front(nest) /\ status' = "escaped"
      BY <1>8, <2>3, <3>1 DEF NativePropagate
    <3>3. u \in Nat
      <4>1. nest \in Seq(NestedFrame) /\ Len(nest) > 0
        <5>1. nest \in Seq(NestedFrame) /\ nest # <<>> BY <1>1, <2>1 DEF DataOK, Native
        <5> QED BY <5>1
      <4>2. Last(nest) \in NestedFrame BY <4>1, Shortened
      <4> QED BY <3>1, <4>2 DEF NestedFrame
    <3>4. u = m + a
      <4>1. Top.h = u + 2 BY <2>3, <3>1 DEF AtRoot
      <4> QED BY <1>5, <3>3, <4>1
    <3>5. u \in 0..Len(stack) /\ m <= u BY <1>5, <1>6, <3>4
    <3>6. PICK s : s = SubSeq(stack, 1, u) OBVIOUS
    <3>7. s \in Seq(Word) /\ Len(s) = u /\ \A i \in 1..u : s[i] = stack[i]
      BY <1>6, <3>5, <3>6, Prefix
    <3>8. \A i \in 1..m : i \in 1..u BY <1>5, <3>3, <3>5
    <3>9. stack' \in Seq(Word) /\ m <= Len(stack') /\ \A i \in 1..m : stack'[i] = stack[i]
      BY <3>2, <3>5, <3>6, <3>7, <3>8
    <3>10. nest' = IF AtRoot THEN Front(nest) ELSE nest BY <2>3, <3>2
    <3> QED BY <1>3, <2>1, <2>2, <2>3, <3>2, <3>9, <3>10, NativeLeaves
  <2>4. CASE ~AtRoot
    <3>1. stack' = stack /\ nest' = nest /\ status' = status BY <1>8, <2>4 DEF NativePropagate
    <3>2. nest' = IF AtRoot THEN Front(nest) ELSE nest BY <2>4, <3>1
    <3>3. stack' \in Seq(Word) /\ m <= Len(stack') /\ \A i \in 1..m : stack'[i] = stack[i]
      BY <1>5, <1>6, <3>1
    <3>4. status' # "running" /\ status' # "escaped" BY <2>1, <3>1
    <3> QED BY <1>3, <2>1, <2>2, <2>4, <3>2, <3>3, <3>4, NativeLeaves
  <2> QED BY <2>3, <2>4
<1> QED BY <1>7, <1>8

\* An interpreted activation returns to its caller, or to the hook of a region.
LEMMA AfterReturn ==
  ASSUME NEW bs, Good(bs), RegisterOK(bs), DoReturn
  PROVE  MachineInv'
<1>1. DataOK /\ BaseOK /\ SegsOK /\ NestOK /\ BlocksOK(bs) /\ ChainsOK(bs) BY DEF Good
<1>2. PICK b : b = Len(base) - 1 OBVIOUS
<1>3. PICK m : m = Floor(Len(base)) OBVIOUS
<1>4. PICK a : a = Arity[Top.code] OBVIOUS
<1>5. Below(bs, b, m) BY <1>2, <1>3, BelowTop
<1>6. /\ b \in Nat /\ m \in Nat /\ Height \in Nat /\ m <= Height /\ Len(base) = b + 1
      /\ Top = base[b + 1] /\ Top.h = m + 2 + a /\ Top.h \in Nat /\ a \in Nat
  BY <1>4, <1>5 DEF Below
<1>7. status = "running" /\ ~Native /\ Height = Top.h + 1
  BY DEF DoReturn, Stepping, Interpreting
<1>8. handlerSp = Register(bs, Outer, Len(bs)) BY <1>7 DEF RegisterOK
<1>9. seg.c = Top.code /\ ~Top.native BY <1>1, <1>7, RunningCode
<1>10. PICK ret : ret = stack[Height - 2] OBVIOUS
<1>11. PICK s : s = Append(SubSeq(stack, 1, Height - ReturnDrops), Data) OBVIOUS
<1>12. Height - ReturnDrops = m /\ Height - 2 = Top.h - 1
  <2>1. ReturnDrops = 3 + a BY <1>4, <1>9 DEF ReturnDrops
  <2>2. PICK x, y : x = Height /\ y = Top.h OBVIOUS
  <2>3. x \in Nat /\ y \in Nat /\ x = y + 1 /\ y = m + 2 + a /\ m \in Nat /\ a \in Nat
    BY <1>6, <1>7, <2>2
  <2>4. x - (3 + a) = m /\ x - 2 = y - 1 BY ONLY <2>3
  <2> QED BY <2>1, <2>2, <2>4
<1>13. /\ s \in Seq(Word) /\ Len(s) = m + 1 /\ \A i \in 1..m : s[i] = stack[i]
  <2>1. stack \in Seq(Word) /\ Len(stack) = Height BY <1>1 DEF DataOK, Height
  <2>2. PICK x : x = SubSeq(stack, 1, m) OBVIOUS
  <2>3. x \in Seq(Word) /\ Len(x) = m /\ \A i \in 1..m : x[i] = stack[i]
    <3>1. m \in 0..Len(stack) BY <1>6, <2>1
    <3> QED BY <2>1, <2>2, <3>1, Prefix
  <2>4. s = Append(x, Data) BY <1>11, <1>12, <2>2
  <2>5. Append(x, Data) \in Seq(Word) /\ Len(Append(x, Data)) = m + 1
        /\ \A i \in 1..m : Append(x, Data)[i] = x[i]
    BY <2>3, WordsKnown, Appended
  <2> QED BY <2>3, <2>4, <2>5
<1>14. m <= Len(s) BY <1>6, <1>13
<1>15. CASE ret = Zero
  <2>1. IF nest = <<>>
        THEN Quiesced /\ status' = "returned" /\ UNCHANGED flight
        ELSE Restored /\ stack' = s /\ UNCHANGED <<exn, flight, status>>
    BY <1>10, <1>11, <1>15 DEF DoReturn
  <2>2. CASE nest = <<>>
    <3>1. status' = "returned" BY <2>1, <2>2
    <3> QED BY <3>1 DEF MachineInv, Live
  <2>3. CASE nest # <<>>
    <3>1. Restored /\ stack' = s /\ status' = "running" BY <1>7, <2>1, <2>3
    <3> QED BY <1>3, <1>7, <1>13, <1>14, <2>3, <3>1, RunEnds
  <2> QED BY <2>2, <2>3
<1>16. CASE ret # Zero
  <2>1. /\ stack' = s /\ seg' = Last(frames) /\ frames' = Front(frames) /\ pc' = ret.pc
        /\ base' = Front(base) /\ handlers' = handlers /\ handlerSp' = handlerSp
        /\ nest' = nest /\ status' = status /\ gc' = gc
    BY <1>10, <1>11, <1>16 DEF DoReturn, outer
  <2>2. /\ b >= 1 => base[b].h <= m /\ base[b].h \in Nat
        /\ DOMAIN base = 1..(b + 1)
        /\ Front(base) \in Seq([code : Codes, h : Nat, native : BOOLEAN])
        /\ Len(Front(base)) = b /\ \A i \in 1..b : Front(base)[i] = base[i]
        /\ \A n \in 1..Len(bs) :
             /\ bs[n].own \in 1..(b + 1) /\ ~base[bs[n].own].native
             /\ bs[n].own # b + 1 => bs[n].own <= b /\ bs[n].h <= m
        /\ \A j \in 1..Outer : Caller(j) \in Nat /\ Caller(j) >= 1 /\ Caller(j) <= b
    BY <1>5 DEF Below
  <2>3. /\ b + 1 > 1 /\ ~base[b].native /\ ret.k = "pc"
        /\ SegOf(ret.pc) = frames[Rank(b + 1) - 1]
    <3>1. b + 1 \in DOMAIN base /\ (b + 1) - 1 = b BY <1>6, <2>2
    <3>2. ret = stack[base[b + 1].h - 1] /\ ~base[b + 1].native BY <1>6, <1>9, <1>10, <1>12
    <3> QED BY <1>1, <1>16, <3>1, <3>2 DEF SegsOK
  <2>4. b >= 1 /\ b # 0 /\ b # b + 1 BY <1>6, <2>3
  <2>5. PICK k : k = b OBVIOUS
  <2>6. RankFacts /\ Rank(b) \in Nat /\ Rank(b) >= 1 /\ Rank(b + 1) = Rank(b) + 1
        /\ Len(frames) = Rank(b)
    <3>1. b \in Nat /\ 0 < b BY <1>6, <2>4
    <3>2. Rank(b) \in Nat /\ Rank(b) >= 1 BY <2>3, <3>1, RankKnown DEF RankFacts
    <3>3. Rank(b + 1) = Rank(b) + (IF base[b + 1].native THEN 0 ELSE 1)
      BY <3>1, RankKnown DEF RankFacts
    <3>4. Rank(b + 1) = Rank(b) + 1 BY <1>6, <1>9, <3>3
    <3>5. Len(frames) = Rank(b + 1) - 1 BY <1>1, <1>6 DEF SegsOK, Interpreted
    <3> QED BY <3>2, <3>4, <3>5, RankKnown
  <2>7. /\ frames' \in Seq(Segment) /\ Len(frames') = Rank(b) - 1
        /\ (\A r \in 1..(Rank(b) - 1) : frames'[r] = frames[r])
        /\ seg' = frames[Rank(b)] /\ seg' \in Segment
    <3>1. frames \in Seq(Segment) /\ Len(frames) > 0 BY <1>1, <2>6 DEF DataOK
    <3> QED BY <2>1, <2>6, <3>1, Shortened
  <2>8. pc' \in Address /\ SegOf(pc') = seg'
    <3>1. Height - 2 \in 1..Height
      <4>1. PICK y : y = Top.h OBVIOUS
      <4>2. y \in Nat /\ y = m + 2 + a /\ Height = y + 1 BY <1>6, <1>7, <4>1
      <4> QED BY <1>6, <4>2
    <3>2. ret \in Word BY <1>1, <1>10, <3>1, DataKnown DEF DataFacts
    <3>3. ret.pc \in Address BY <2>3, <3>2 DEF Word, Data, Zero
    <3>4. Rank(b + 1) - 1 = Rank(b) BY <2>6
    <3> QED BY <2>1, <2>3, <2>7, <3>3, <3>4
  <2>9. DataOK'
    <3>1. base' \in Seq([code : Codes, h : Nat, native : BOOLEAN]) BY <2>1, <2>2
    <3>2. stack' \in Seq(Word) BY <1>13, <2>1
    <3> QED BY <1>1, <2>1, <2>7, <2>8, <3>1, <3>2 DEF DataOK
  <2>10. Keeps(m, b) /\ Len(base') = b
    <3>1. m \in 0..Height /\ m <= Len(stack') /\ b \in 0..Len(base) /\ Len(base') = b /\ b <= Len(base')
      BY <1>6, <1>14, <2>1, <2>2
    <3> QED BY <1>13, <2>1, <2>2, <3>1 DEF Keeps
  <2>11. Interpreted' = Rank(b) /\ \A i \in 0..b : Rank(i)' = Rank(i)
    <3>1. \A i \in 0..b : Rank(i)' = Rank(i) BY <1>6, <2>10, RankKept
    <3>2. b \in 0..b BY <1>6
    <3>3. Interpreted' = Rank(b)' BY <2>10 DEF Interpreted, Rank
    <3> QED BY <3>1, <3>2, <3>3
  <2>12. BaseOK'
    <3>1. Len(base') >= 1 BY <2>4, <2>10
    <3>2. b >= 1 => base[b].h <= m BY <2>2
    <3> QED BY <1>1, <1>6, <2>4, <2>9, <2>10, <3>1, <3>2, BaseStep
  <2>13. SegsOK'
    <3>1. Len(frames') = Interpreted' - 1 /\ SegOf(pc') = seg' BY <2>7, <2>8, <2>11
    <3>2. ASSUME NEW i \in 1..b, ~base[i].native, Rank(i) = Rank(b) PROVE SegAt(i)'.c = base[i].code
      <4>1. i \in 0..b /\ i \in 1..(b + 1) BY <1>6
      <4>2. Rank(i)' = Interpreted' BY <2>11, <3>2, <4>1
      <4>3. SegAt(i)' = seg' BY <4>2 DEF SegAt
      <4>4. Rank(i) # Interpreted
        <5>1. Interpreted = Rank(b) + 1 BY <1>6, <2>6 DEF Interpreted
        <5> QED BY <2>6, <3>2, <5>1
      <4>5. SegAt(i) = frames[Rank(b)] BY <3>2, <4>4 DEF SegAt
      <4>6. SegAt(i).c = base[i].code BY <1>1, <2>2, <3>2, <4>1 DEF SegsOK
      <4> QED BY <2>7, <4>3, <4>5, <4>6
    <3>3. \A r \in 1..(Rank(b) - 1) : frames'[r] = frames[r] BY <2>7
    <3>4. b >= 1 => base[b].h <= m BY <2>2
    <3> QED BY <1>1, <1>6, <2>4, <2>9, <2>10, <3>1, <3>2, <3>3, <3>4, SegsStep
  <2>14. PICK o : o = Outer OBVIOUS
  <2>15. /\ o \in 0..Outer /\ o \in Nat /\ Outer' = o /\ ~Native'
         /\ \A j \in 1..o : nest'[j] = nest[j]
    <3>1. o \in 0..Outer /\ o \in Nat BY <1>1, <2>14, CutsKnown
    <3> QED BY <1>7, <2>1, <2>14, <3>1 DEF Outer, Native
  <2>16. NestOK'
    <3>1. \A j \in 1..o : Caller(j) + 1 <= b
      <4> SUFFICES ASSUME NEW j \in 1..o PROVE Caller(j) + 1 <= b OBVIOUS
      <4>1. Caller(j) \in Nat /\ Caller(j) <= b BY <2>2, <2>14
      <4>2. FrameOK(j) BY <1>1, <2>14 DEF NestOK
      <4>3. stack[base[Caller(j) + 1].h - 1] = Zero BY <4>2 DEF FrameOK
      <4>4. Caller(j) # b BY <1>6, <1>10, <1>12, <1>16, <4>3
      <4> QED BY <1>6, <4>1, <4>4
    <3>2. ~base'[b].native
      <4>1. b \in 1..b BY <1>6, <2>4
      <4> QED BY <2>1, <2>2, <2>3, <4>1
    <3>3. \A r \in 1..(Rank(b) - 1) : frames'[r] = frames[r] BY <2>7
    <3>4. b \in Nat /\ Keeps(m, b) /\ k = Len(base') /\ (k = b \/ k = b + 1) /\ ~base'[k].native
      BY <1>6, <2>5, <2>10, <3>2
    <3>5. b >= 1 => base[b].h <= m BY <2>2
    <3> QED BY <1>1, <2>9, <2>15, <3>1, <3>3, <3>4, <3>5, NestStep
  <2>17. PICK t : t = Len(bs) OBVIOUS
  <2>18. /\ t \in 0..Len(bs) /\ Len(handlers') = t /\ (\A n \in 1..t : handlers'[n] = handlers[n])
         /\ bs = SubSeq(bs, 1, t) /\ Cut(o) <= t
    BY <1>1, <2>1, <2>14, <2>17, WholeKept
  <2>19. BlocksOK(bs)' /\ ChainsOK(bs)'
    <3>1. ASSUME NEW n \in 1..t PROVE bs[n].h <= m /\ bs[n].own <= b
      <4>1. bs[n].own # b + 1
        <5>1. bs[n].h \in Nat /\ bs[n].h <= Height /\ n \in DOMAIN bs BY <1>1, <2>17, BlockKnown
        <5>2. bs[n].h > base[bs[n].own].h + 1 BY <1>1, <5>1 DEF BlocksOK, BlockOK
        <5>3. bs[n].own = b + 1 => bs[n].h > Height BY <1>6, <1>7, <5>2
        <5> QED BY <1>6, <5>1, <5>3
      <4> QED BY <2>2, <2>17, <4>1
    <3>2. \A n \in 1..t : bs[n].h <= m /\ bs[n].own <= b /\ (k = b + 1 => bs[n].h <= Floor(b + 1)')
      BY <2>4, <2>5, <3>1
    <3>3. b \in Nat /\ Keeps(m, b) /\ k = Len(base') /\ (k = b \/ k = b + 1)
      BY <1>6, <2>5, <2>10
    <3>4. t \in 0..Len(bs) /\ Len(handlers') = t /\ \A n \in 1..t : handlers'[n] = handlers[n]
      BY <2>18
    <3>5. Cut(o) <= t /\ bs = SubSeq(bs, 1, t) /\ o = Outer BY <2>14, <2>18
    <3> QED BY <1>1, <2>9, <2>15, <3>2, <3>3, <3>4, <3>5, BlocksStep
  <2>20. RegisterOK(bs)'
    <3>1. (\A j \in 1..Outer : nest'[j] = nest[j]) /\ Outer' = Outer BY <2>14, <2>15
    <3>2. Register(bs, Outer, Len(bs))' = Register(bs, Outer, t)
      BY <2>14, <2>18, <3>1, RegisterKept
    <3> QED BY <1>8, <2>1, <2>17, <3>2 DEF RegisterOK
  <2>21. PhaseOK' BY <1>7, <2>1 DEF PhaseOK
  <2> QED BY <2>9, <2>12, <2>13, <2>16, <2>19, <2>20, <2>21 DEF MachineInv
<1> QED BY <1>15, <1>16

\* Two sequences, one after the other.
LEMMA Joined ==
  ASSUME NEW S, NEW s \in Seq(S), NEW u \in Seq(S)
  PROVE  /\ s \o u \in Seq(S) /\ Len(s \o u) = Len(s) + Len(u)
         /\ \A i \in 1..Len(s) : (s \o u)[i] = s[i]
OBVIOUS

\* The last n words of a sequence.
LEMMA Suffix ==
  ASSUME NEW S, NEW s \in Seq(S), NEW x, x = Len(s), NEW n \in 1..x
  PROVE  /\ SubSeq(s, x - n + 1, x) \in Seq(S) /\ Len(SubSeq(s, x - n + 1, x)) = n
         /\ \A i \in 1..n : SubSeq(s, x - n + 1, x)[i] = s[x - n + i]
<1>1. PICK l : l = x - n + 1 OBVIOUS
<1>2. x \in Nat /\ n \in Nat /\ l \in 1..x /\ x - l + 1 = n BY <1>1
<1>3. \A i \in l..x : s[i] \in S BY <1>2
<1>4. SubSeq(s, l, x) \in Seq(S) BY <1>2, <1>3
<1>5. Len(SubSeq(s, l, x)) = n BY <1>2
<1>6. \A i \in 1..n : SubSeq(s, l, x)[i] = s[l + i - 1] BY <1>2
<1>7. \A i \in 1..n : l + i - 1 = x - n + i BY <1>1, <1>2
<1> QED BY <1>1, <1>4, <1>5, <1>6, <1>7

\* What a tail call moves: n words, of which the last is the return address, go
\* to the floor m, and the return address below the closure.
MovedTo(S, z, s, d, m, n) ==
  /\ z \in Seq(S) /\ Len(z) = m + n /\ z[m + n - 1] = d[n]
  /\ \A i \in 1..m : z[i] = s[i]

LEMMA Moved ==
  ASSUME NEW S, NEW s, s \in Seq(S), NEW x, x = Len(s),
         NEW n, n \in 2..x, NEW m, m \in 0..x,
         NEW d, d = SubSeq(s, x - n + 1, x),
         NEW z, z = SubSeq(s, 1, m) \o SubSeq(d, 1, n - 2) \o <<d[n], d[n - 1]>>
  PROVE  MovedTo(S, z, s, d, m, n)
<1>1. x \in Nat /\ n \in Nat /\ m \in Nat /\ n \in 1..x /\ n - 2 \in Nat OBVIOUS
<1>2. d \in Seq(S) /\ Len(d) = n BY <1>1, Suffix
<1>3. PICK e : e = SubSeq(s, 1, m) OBVIOUS
<1>4. e \in Seq(S) /\ Len(e) = m /\ \A i \in 1..m : e[i] = s[i] BY <1>1, <1>3, Prefix
<1>5. PICK f, t : t = n - 2 /\ f = SubSeq(d, 1, t) OBVIOUS
<1>6. f \in Seq(S) /\ Len(f) = t /\ t \in Nat
  <2>1. t \in 0..Len(d) BY <1>1, <1>2, <1>5
  <2> QED BY <1>1, <1>2, <1>5, <2>1, Prefix
<1>7. PICK g : g = e \o f OBVIOUS
<1>8. g \in Seq(S) /\ Len(g) = m + t /\ \A i \in 1..m : g[i] = e[i]
  <2>1. g \in Seq(S) /\ Len(g) = Len(e) + Len(f)
        /\ \A i \in 1..Len(e) : g[i] = e[i]
    BY <1>4, <1>6, <1>7, Joined
  <2> QED BY <1>4, <1>6, <2>1
<1>9. d[n] \in S /\ d[n - 1] \in S
  <2>1. n \in 1..n /\ n - 1 \in 1..n BY <1>1
  <2> QED BY <1>2, <2>1
<1>10. z = g \o <<d[n], d[n - 1]>> BY <1>3, <1>5, <1>7
<1>11. /\ z \in Seq(S) /\ Len(z) = Len(g) + 2 /\ \A i \in 1..Len(g) : z[i] = g[i]
       /\ z[Len(g) + 1] = d[n]
  <2>1. PICK u, v : u = d[n] /\ v = d[n - 1] OBVIOUS
  <2>2. g \in Seq(S) /\ u \in S /\ v \in S BY <1>8, <1>9, <2>1
  <2>3. /\ g \o <<u, v>> \in Seq(S) /\ Len(g \o <<u, v>>) = Len(g) + 2
        /\ \A i \in 1..Len(g) : (g \o <<u, v>>)[i] = g[i]
        /\ (g \o <<u, v>>)[Len(g) + 1] = u
    BY ONLY <2>2, Pushed
  <2>4. z = g \o <<u, v>> BY <1>10, <2>1
  <2> QED BY <2>1, <2>3, <2>4
<1>12. Len(g) + 2 = m + n /\ Len(g) + 1 = m + n - 1 /\ \A i \in 1..m : i \in 1..Len(g)
  BY <1>1, <1>5, <1>6, <1>8
<1> QED BY <1>4, <1>8, <1>11, <1>12 DEF MovedTo

\* The callee of a tail call takes the place of its caller.
LEMMA AfterTailCall ==
  ASSUME NEW bs, Good(bs), RegisterOK(bs), DoTailCall
  PROVE  MachineInv'
<1>1. DataOK /\ BaseOK /\ SegsOK /\ NestOK /\ BlocksOK(bs) /\ ChainsOK(bs) BY DEF Good
<1>2. DataFacts /\ BaseFacts BY <1>1, DataKnown, BaseKnown
<1>3. PICK b : b = Len(base) - 1 OBVIOUS
<1>4. PICK m : m = Floor(Len(base)) OBVIOUS
<1>5. Below(bs, b, m) BY <1>3, <1>4, BelowTop
<1>6. PICK x : x = Height OBVIOUS
<1>7. PICK y : y = Top.h OBVIOUS
<1>8. PICK a : a = Arity[Top.code] OBVIOUS
<1>9. /\ b \in Nat /\ m \in Nat /\ x \in Nat /\ m <= x /\ Len(base) = b + 1
      /\ Top = base[b + 1] /\ y = m + 2 + a /\ y <= x /\ y \in Nat /\ a \in Nat
  BY <1>5, <1>6, <1>7, <1>8 DEF Below
<1>10. /\ b >= 1 => base[b].h <= m /\ base[b].h \in Nat
       /\ DOMAIN base = 1..(b + 1)
       /\ Front(base) \in Seq([code : Codes, h : Nat, native : BOOLEAN])
       /\ Len(Front(base)) = b /\ \A i \in 1..b : Front(base)[i] = base[i]
       /\ \A n \in 1..Len(bs) :
            /\ bs[n].own \in 1..(b + 1) /\ ~base[bs[n].own].native
            /\ bs[n].own # b + 1 => bs[n].own <= b /\ bs[n].h <= m
       /\ \A j \in 1..Outer : Caller(j) \in Nat /\ Caller(j) >= 1 /\ Caller(j) <= b
  BY <1>5 DEF Below
<1>11. PICK c \in Codes :
         LET n == Arity[c] + 2
             moved == SubSeq(stack, Height - n + 1, Height)
             floor == Top.h - 2 - Arity[Top.code]
         IN /\ Owns(n) /\ handlerSp < Top.h
            /\ moved[n] = stack[Top.h - 1]
            /\ \A i \in 1 .. n - 1 : moved[i] = Data
            /\ stack' = SubSeq(stack, 1, floor) \o SubSeq(moved, 1, n - 2)
                        \o <<moved[n], moved[n - 1]>>
            /\ seg' = Bounds(c) /\ pc' = Addr(c, 0)
            /\ base' = Append(Front(base), Activation(c, floor + n, FALSE))
  BY Zenon DEF DoTailCall
<1>12. PICK n : n = Arity[c] + 2 OBVIOUS
<1>13. PICK d : d = SubSeq(stack, x - n + 1, x) OBVIOUS
<1>14. y - 2 - a = m BY <1>9
<1>15. /\ Owns(n) /\ handlerSp < y /\ d[n] = stack[y - 1]
       /\ stack' = SubSeq(stack, 1, m) \o SubSeq(d, 1, n - 2) \o <<d[n], d[n - 1]>>
       /\ seg' = Bounds(c) /\ pc' = Addr(c, 0)
       /\ base' = Append(Front(base), Activation(c, m + n, FALSE))
  BY <1>6, <1>7, <1>8, <1>11, <1>12, <1>13, <1>14
<1>16. /\ status = "running" /\ ~Native /\ frames' = frames /\ handlers' = handlers
       /\ handlerSp' = handlerSp /\ nest' = nest /\ status' = status /\ gc' = gc
  BY DEF DoTailCall, Stepping, Interpreting, outer
<1>17. handlerSp = Register(bs, Outer, Len(bs)) BY <1>16 DEF RegisterOK
<1>18. n \in Nat /\ n >= 2 /\ n <= x /\ Arity[c] \in Nat
  <2>1. Arity[c] \in Nat BY MachineConstants
  <2>2. x - y >= n BY <1>6, <1>7, <1>15 DEF Owns
  <2> QED BY <1>9, <1>12, <2>1, <2>2
<1>19. /\ stack' \in Seq(Word) /\ Len(stack') = m + n /\ stack'[m + n - 1] = stack[y - 1]
       /\ \A i \in 1..m : stack'[i] = stack[i]
  <2>1. stack \in Seq(Word) /\ x = Len(stack) BY <1>1, <1>6 DEF DataOK, Height
  <2>2. n \in 2..x /\ m \in 0..x BY <1>9, <1>18
  <2>3. PICK z : z = SubSeq(stack, 1, m) \o SubSeq(d, 1, n - 2) \o <<d[n], d[n - 1]>> OBVIOUS
  <2>4. /\ z \in Seq(Word) /\ Len(z) = m + n /\ z[m + n - 1] = d[n]
        /\ \A i \in 1..m : z[i] = stack[i]
    <3>1. PICK s, S : s = stack /\ S = Word OBVIOUS
    <3>2. s \in Seq(S) BY <2>1, <3>1
    <3>3. x = Len(s) BY <2>1, <3>1
    <3>4. n \in 2..x /\ m \in 0..x BY <2>2
    <3>5. d = SubSeq(s, x - n + 1, x) BY <1>13, <3>1
    <3>6. z = SubSeq(s, 1, m) \o SubSeq(d, 1, n - 2) \o <<d[n], d[n - 1]>> BY <2>3, <3>1
    <3>7. MovedTo(S, z, s, d, m, n) BY ONLY <3>2, <3>3, <3>4, <3>5, <3>6, Moved
    <3> QED BY <3>1, <3>7 DEF MovedTo
  <2> QED BY <1>15, <2>3, <2>4
<1>20. PICK k : k = b + 1 OBVIOUS
<1>21. /\ base' \in Seq([code : Codes, h : Nat, native : BOOLEAN]) /\ Len(base') = k
       /\ base'[k].code = c /\ base'[k].h = m + n /\ ~base'[k].native
       /\ \A i \in 1..b : base'[i] = base[i]
  <2>1. PICK e : e = Activation(c, m + n, FALSE) OBVIOUS
  <2>2. e \in [code : Codes, h : Nat, native : BOOLEAN] BY <1>9, <1>18, <2>1 DEF Activation
  <2>3. PICK f : f = Front(base) OBVIOUS
  <2>4. f \in Seq([code : Codes, h : Nat, native : BOOLEAN]) /\ Len(f) = b
        /\ \A i \in 1..b : f[i] = base[i]
    BY <1>10, <2>3
  <2>5. base' = Append(f, e) BY <1>15, <2>1, <2>3
  <2>6. /\ base' \in Seq([code : Codes, h : Nat, native : BOOLEAN]) /\ Len(base') = b + 1
        /\ base'[b + 1] = e /\ \A i \in 1..b : base'[i] = f[i]
    BY <2>2, <2>4, <2>5, Appended
  <2>7. e.code = c /\ e.h = m + n /\ e.native = FALSE BY <2>1 DEF Activation
  <2> QED BY <1>20, <2>4, <2>6, <2>7
<1>22. pc' \in Address /\ seg' \in Segment /\ SegOf(pc') = seg' /\ seg'.c = c
  <2>1. gc \in Nat BY <1>1 DEF DataOK
  <2> QED BY <1>15, <2>1, MachineConstants DEF Addr, Bounds, At, Address, Segment, SegOf
<1>23. DataOK' BY <1>1, <1>16, <1>19, <1>21, <1>22 DEF DataOK
<1>24. Keeps(m, b) /\ k = Len(base') /\ (k = b \/ k = b + 1) /\ k # b
  <2>1. m \in 0..Height /\ m <= Len(stack') /\ b \in 0..Len(base) /\ b <= Len(base')
    BY SMTT(40), <1>6, <1>9, <1>18, <1>19, <1>20, <1>21
  <2> QED BY <1>9, <1>19, <1>20, <1>21, <2>1 DEF Keeps
<1>25. Floor(k)' = m
  <2>1. Floor(k)' = m + n - 2 - Arity[c] BY SMTT(40), <1>9, <1>18, <1>21 DEF Floor
  <2> QED BY SMTT(40), <1>9, <1>12, <1>18, <2>1
<1>26. /\ RankFacts /\ Rank(b) \in Nat /\ Rank(b + 1) = Rank(b) + 1 /\ Len(frames) = Rank(b)
       /\ Interpreted' = Rank(b) + 1 /\ \A i \in 0..b : Rank(i)' = Rank(i)
  <2>1. seg.c = Top.code /\ ~Top.native BY <1>1, <1>16, RunningCode
  <2>2. Rank(b) \in Nat /\ Rank(b + 1) = Rank(b) + (IF base[b + 1].native THEN 0 ELSE 1)
    BY <1>9, RankKnown DEF RankFacts
  <2>3. Rank(b + 1) = Rank(b) + 1 BY <1>9, <2>1, <2>2
  <2>4. Len(frames) = Rank(b + 1) - 1 BY <1>1, <1>9 DEF SegsOK, Interpreted
  <2>5. \A i \in 0..b : Rank(i)' = Rank(i) BY <1>9, <1>24, RankKept
  <2>6. Rank(b + 1)' = Rank(b)' + (IF base'[b + 1].native THEN 0 ELSE 1)
    BY <1>9, RankNext DEF RankFacts
  <2>7. b \in 0..b BY <1>9
  <2>8. Rank(b + 1)' = Rank(b) + 1 BY <1>20, <1>21, <2>5, <2>6, <2>7
  <2>9. Interpreted' = Rank(b + 1)' BY <1>20, <1>21 DEF Interpreted, Rank
  <2> QED BY <2>2, <2>3, <2>4, <2>5, <2>8, <2>9, RankKnown
<1>27. /\ stack'[base'[k].h - 1] = stack[base[b + 1].h - 1]
  <2>1. base'[k].h - 1 = m + n - 1 BY <1>9, <1>18, <1>21
  <2>2. base[b + 1].h - 1 = y - 1 BY <1>7, <1>9
  <2> QED BY <1>19, <2>1, <2>2
<1>28. b + 1 \in DOMAIN base /\ ~base[b + 1].native
  <2>1. ~Top.native BY <1>1, <1>16, RunningCode
  <2> QED BY <1>9, <1>10, <2>1
<1>29. BaseOK'
  <2>1. Len(base') >= 1 /\ Len(base') = b + 1 BY <1>9, <1>20, <1>21
  <2>2. base'[b + 1].h <= Height' /\ Floor(b + 1)' >= 0 /\ (b >= 1 => base[b].h <= Floor(b + 1)')
    <3>1. Height' = m + n BY <1>19 DEF Height
    <3>2. base'[b + 1].h = m + n BY <1>20, <1>21
    <3>3. Floor(b + 1)' = m BY <1>20, <1>25
    <3>4. m \in Nat /\ n \in Nat /\ (b >= 1 => base[b].h <= m) BY <1>9, <1>10, <1>18
    <3> QED BY <3>1, <3>2, <3>3, <3>4
  <2>3. b = 0 => ~base'[1].native /\ stack'[base'[1].h - 1] = Zero
    <3> SUFFICES ASSUME b = 0 PROVE ~base'[1].native /\ stack'[base'[1].h - 1] = Zero OBVIOUS
    <3>1. k = 1 BY <1>20
    <3>2. stack[base[1].h - 1] = Zero BY <1>2 DEF BaseFacts
    <3> QED BY <1>21, <1>27, <3>1, <3>2
  <2>4. b >= 1 => base[b].h <= m BY <1>10
  <2> QED BY <1>1, <1>9, <1>23, <1>24, <2>1, <2>2, <2>3, <2>4, BaseStep
<1>30. SegsOK'
  <2>1. Len(frames') = Interpreted' - 1 /\ SegOf(pc') = seg' BY <1>16, <1>22, <1>26
  <2>2. ASSUME NEW i \in 1..b, ~base[i].native, Rank(i) = Rank(b) PROVE SegAt(i)'.c = base[i].code
    <3>1. i \in 0..b /\ i \in 1..(b + 1) BY <1>9
    <3>2. Rank(i)' = Rank(b) /\ Rank(i)' # Interpreted' BY <1>26, <2>2, <3>1
    <3>3. SegAt(i)' = frames[Rank(b)] BY <1>16, <3>2 DEF SegAt
    <3>4. Interpreted = Rank(b) + 1 BY <1>9, <1>26 DEF Interpreted
    <3>5. SegAt(i) = frames[Rank(b)] BY <1>26, <2>2, <3>4 DEF SegAt
    <3>6. SegAt(i).c = base[i].code BY <1>1, <1>10, <2>2, <3>1 DEF SegsOK
    <3> QED BY <3>3, <3>5, <3>6
  <2>3. SegAt(b + 1)'.c = base'[b + 1].code
    <3>1. Rank(b + 1)' = Interpreted' BY <1>20, <1>21 DEF Interpreted, Rank
    <3>2. SegAt(b + 1)' = seg' BY <3>1 DEF SegAt
    <3> QED BY <1>20, <1>21, <1>22, <3>2
  <2>4. ASSUME stack'[base'[b + 1].h - 1] # Zero
        PROVE  /\ b >= 1 /\ ~base[b].native
               /\ stack'[base'[b + 1].h - 1].k = "pc"
               /\ SegOf(stack'[base'[b + 1].h - 1].pc) = frames'[Rank(b)]
    <3>1. PICK w : w = stack[base[b + 1].h - 1] OBVIOUS
    <3>2. stack'[base'[b + 1].h - 1] = w BY <1>20, <1>27, <3>1
    <3>3. /\ b + 1 > 1 /\ ~base[(b + 1) - 1].native /\ w.k = "pc"
          /\ SegOf(w.pc) = frames[Rank(b + 1) - 1]
      BY <1>1, <1>28, <2>4, <3>1, <3>2 DEF SegsOK
    <3>4. (b + 1) - 1 = b /\ b >= 1 /\ Rank(b + 1) - 1 = Rank(b) BY <1>9, <1>26, <3>3
    <3> QED BY <1>16, <3>2, <3>3, <3>4
  <2>5. \A r \in 1..(Rank(b) - 1) : frames'[r] = frames[r] BY <1>16
  <2>6. b >= 1 => base[b].h <= m BY <1>10
  <2> QED BY <1>1, <1>9, <1>20, <1>23, <1>24, <2>1, <2>2, <2>3, <2>4, <2>5, <2>6, SegsStep
<1>31. PICK o : o = Outer OBVIOUS
<1>32. /\ o \in 0..Outer /\ o \in Nat /\ Outer' = o /\ ~Native'
       /\ \A j \in 1..o : nest'[j] = nest[j]
  <2>1. o \in 0..Outer /\ o \in Nat BY <1>1, <1>31, CutsKnown
  <2> QED BY <1>16, <1>31, <2>1 DEF Outer, Native
<1>33. NestOK'
  <2>1. ASSUME NEW j \in 1..o
        PROVE  \/ Caller(j) + 1 <= b
               \/ /\ Caller(j) = b /\ k = b + 1 /\ ~base'[b + 1].native
                  /\ stack'[base'[b + 1].h - 1] = Zero /\ frames'[Rank(b)].c = frames[Rank(b)].c
    <3>1. Caller(j) \in Nat /\ Caller(j) <= b BY <1>10, <1>31
    <3>2. CASE Caller(j) = b
      <4>1. FrameOK(j) BY <1>1, <1>31 DEF NestOK
      <4>2. stack[base[b + 1].h - 1] = Zero BY <3>2, <4>1 DEF FrameOK
      <4>3. stack'[base'[b + 1].h - 1] = Zero BY <1>20, <1>27, <4>2
      <4> QED BY <1>16, <1>20, <1>21, <3>2, <4>3
    <3>3. CASE Caller(j) # b BY <1>9, <3>1, <3>3
    <3> QED BY <3>2, <3>3
  <2>2. \A r \in 1..(Rank(b) - 1) : frames'[r] = frames[r] BY <1>16
  <2>3. b \in Nat /\ Keeps(m, b) /\ k = Len(base') /\ (k = b \/ k = b + 1) /\ ~base'[k].native
    BY <1>9, <1>21, <1>24
  <2>4. b >= 1 => base[b].h <= m BY <1>10
  <2> QED BY <1>1, <1>23, <1>32, <2>1, <2>2, <2>3, <2>4, NestStep
<1>34. PICK t : t = Len(bs) OBVIOUS
<1>35. /\ t \in 0..Len(bs) /\ Len(handlers') = t /\ (\A i \in 1..t : handlers'[i] = handlers[i])
       /\ bs = SubSeq(bs, 1, t) /\ Cut(o) <= t
  BY <1>1, <1>16, <1>31, <1>34, WholeKept
<1>36. \A i \in 1..t : bs[i].own # b + 1
  <2>1. /\ t \in Nat /\ DOMAIN bs = 1..t
        /\ \A i \in 1..t : bs[i].own \in Nat /\ bs[i].h \in Nat /\ bs[i].h > 1
    BY <1>1, <1>34, BlockKnown
  <2>2. CASE handlerSp = 0
    <3> SUFFICES ASSUME NEW i \in 1..t PROVE bs[i].own # b + 1 OBVIOUS
    <3>1. t = Cut(o)
      <4>1. t \in 1..t BY <2>1
      <4> QED BY <1>17, <1>31, <1>34, <2>1, <2>2, <4>1 DEF Register
    <3>2. o # 0
      <4>1. o = 0 => t = 0 BY <3>1 DEF Cut
      <4> QED BY <2>1, <4>1
    <3>3. o \in 1..o BY <1>32, <3>2
    <3>4. i <= Cut(o) BY <2>1, <3>1
    <3>5. bs[i].own <= Caller(o) BY <1>1, <1>31, <2>1, <3>3, <3>4 DEF ChainsOK
    <3>6. Caller(o) \in Nat /\ Caller(o) <= b BY <1>10, <1>31, <3>3
    <3> QED BY <1>9, <2>1, <3>5, <3>6
  <2>3. CASE handlerSp # 0
    <3>1. PICK w : w = bs[t].own OBVIOUS
    <3>2. PICK h : h = handlerSp OBVIOUS
    <3>3. /\ w \in Nat /\ w \in 1..Len(base) /\ base[w].h <= h - 2 /\ base[w].h \in Nat /\ h \in Nat
          /\ \A i \in 1..(t - 1) : bs[i].own <= w
      BY ONLY Good(bs), <1>17, <1>34, <2>3, <3>1, <3>2, LastBlock
    <3>4. w # b + 1
      <4>1. w = b + 1 => y <= h - 2 BY <1>7, <1>9, <3>3
      <4> QED BY <1>9, <1>15, <3>2, <3>3, <4>1
    <3>5. w <= b BY <1>9, <3>3, <3>4
    <3> SUFFICES ASSUME NEW i \in 1..t PROVE bs[i].own # b + 1 OBVIOUS
    <3>6. i = t \/ i \in 1..(t - 1) BY <2>1
    <3>7. bs[i].own <= w BY <3>1, <3>3, <3>6
    <3> QED BY <1>9, <2>1, <3>3, <3>5, <3>7
  <2> QED BY <2>2, <2>3
<1>37. BlocksOK(bs)' /\ ChainsOK(bs)'
  <2>1. \A i \in 1..t : bs[i].h <= m /\ bs[i].own <= b BY <1>10, <1>34, <1>36
  <2>2. \A i \in 1..t : bs[i].h <= m /\ bs[i].own <= b /\ (k = b + 1 => bs[i].h <= Floor(b + 1)')
    BY <1>20, <1>25, <2>1
  <2>3. b \in Nat /\ Keeps(m, b) /\ k = Len(base') /\ (k = b \/ k = b + 1) BY <1>9, <1>24
  <2>4. t \in 0..Len(bs) /\ Len(handlers') = t /\ \A i \in 1..t : handlers'[i] = handlers[i]
    BY <1>35
  <2>5. Cut(o) <= t /\ bs = SubSeq(bs, 1, t) /\ o = Outer BY <1>31, <1>35
  <2> QED BY <1>1, <1>23, <1>32, <2>2, <2>3, <2>4, <2>5, BlocksStep
<1>38. RegisterOK(bs)'
  <2>1. (\A j \in 1..Outer : nest'[j] = nest[j]) /\ Outer' = Outer BY <1>31, <1>32
  <2>2. Register(bs, Outer, Len(bs))' = Register(bs, Outer, t)
    BY <1>31, <1>35, <2>1, RegisterKept
  <2> QED BY <1>16, <1>17, <1>34, <2>2 DEF RegisterOK
<1>39. PhaseOK' BY <1>16 DEF PhaseOK
<1> QED BY <1>23, <1>29, <1>30, <1>33, <1>37, <1>38, <1>39 DEF MachineInv

-----------------------------------------------------------------------------
(* The invariant *)

\* The check at the top of a step, a region's poll, and PolyFullGC.
LEMMA AfterCollection ==
  ASSUME NEW bs, Good(bs), RegisterOK(bs),
         \/ TopOfStepCollect \/ RegionSafepoint
         \/ \E n \in 1..2 : Stepping /\ DataOnTop(n) /\ RtsCollects(n)
  PROVE  MachineInv'
<1>1. DataOK /\ BaseOK /\ BlocksOK(bs) BY DEF Good
<1>2. CASE TopOfStepCollect \/ RegionSafepoint
  <2>1. /\ status = "running" /\ Collected(stack)
        /\ handlerSp' = handlerSp /\ nest' = nest /\ status' = status /\ base' = base
    BY <1>2 DEF TopOfStepCollect, RegionSafepoint, Stepping, Interpreting, InRegion
  <2>2. PICK m : m = Height OBVIOUS
  <2>3. stack \in Seq(Word) /\ m \in Nat /\ m <= Height /\ m <= Len(stack)
    BY <1>1, <2>2, DataKnown DEF DataOK, DataFacts
  <2>4. Top.h <= m /\ \A n \in 1..Len(bs) : bs[n].h <= m BY <1>1, <2>2, TopKnown, BlockKnown
  <2>5. \A i \in 1..m : stack[i] = stack[i] OBVIOUS
  <2> QED BY <2>1, <2>3, <2>4, <2>5, AfterCollect
<1>3. CASE \E n \in 1..2 : Stepping /\ DataOnTop(n) /\ RtsCollects(n)
  <2>1. PICK n \in 1..2 : Stepping /\ DataOnTop(n) /\ RtsCollects(n) BY <1>3
  <2>2. PICK s : s = Shuffled(n, 1) OBVIOUS
  <2>3. /\ status = "running" /\ Collected(s)
        /\ handlerSp' = handlerSp /\ nest' = nest /\ status' = status /\ base' = base
    BY <2>1, <2>2 DEF RtsCollects, Stepping, Interpreting
  <2>4. PICK m : m = Height - n OBVIOUS
  <2>5. n \in Nat /\ DataOnTop(n) BY <2>1
  <2>6. /\ m \in Nat /\ m \in 0..Height /\ Height \in Nat /\ Top.h <= m
        /\ \A i \in 1..Len(bs) : bs[i].h <= m
    BY <2>4, <2>5, OnTop
  <2>7. /\ Shuffled(n, 1) \in Seq(Word) /\ Len(Shuffled(n, 1)) = m + 1
        /\ \A i \in 1..m : Shuffled(n, 1)[i] = stack[i]
    <3>1. DataOK /\ m = Height - n /\ m \in 0..Height /\ n \in Nat /\ 1 \in Nat
      BY <1>1, <2>4, <2>5, <2>6
    <3> QED BY ONLY <3>1, ShuffledKnown
  <2>8. s \in Seq(Word) /\ m <= Height /\ m <= Len(s) /\ \A i \in 1..m : s[i] = stack[i]
    BY <2>2, <2>6, <2>7
  <2> QED BY <2>3, <2>6, <2>8, AfterCollect
<1> QED BY <1>2, <1>3

\* The program's first activation, and no side stack.
LEMMA MachineInit == Init => MachineInv
<1> SUFFICES ASSUME Init PROVE MachineInv OBVIOUS
<1>1. PICK c \in Codes :
        /\ pc = [c |-> c, p |-> 0, at |-> 0] /\ seg = [c |-> c, at |-> 0]
        /\ base = <<Activation(c, 2 + Arity[c], FALSE)>>
        /\ stack = [i \in 1 .. Arity[c] |-> Data] \o <<Zero, Data>>
  BY DEF Init
<1>2. /\ frames = <<>> /\ handlers = <<>> /\ handlerSp = 0 /\ nest = <<>>
      /\ status = "running" /\ gc = 0
  BY DEF Init
<1>3. PICK a : a = Arity[c] OBVIOUS
<1>4. a \in Nat BY <1>3, MachineConstants
<1>5. /\ stack \in Seq(Word) /\ Len(stack) = a + 2 /\ stack[a + 1] = Zero
  <2>1. PICK s : s = [i \in 1..a |-> Data] OBVIOUS
  <2>2. s \in Seq(Word) /\ Len(s) = a BY <1>4, <2>1, WordsKnown
  <2>3. PICK S, u, v : S = Word /\ u = Zero /\ v = Data OBVIOUS
  <2>4. s \in Seq(S) /\ u \in S /\ v \in S BY <2>2, <2>3, WordsKnown
  <2>5. /\ s \o <<u, v>> \in Seq(S) /\ Len(s \o <<u, v>>) = Len(s) + 2
        /\ (s \o <<u, v>>)[Len(s) + 1] = u
    BY ONLY <2>4, Pushed
  <2>6. stack = s \o <<u, v>> BY <1>1, <1>3, <2>1, <2>3
  <2> QED BY <2>2, <2>3, <2>5, <2>6
<1>6. /\ base \in Seq([code : Codes, h : Nat, native : BOOLEAN]) /\ Len(base) = 1
      /\ DOMAIN base = {1} /\ base # <<>>
      /\ base[1].code = c /\ base[1].h = a + 2 /\ base[1].native = FALSE
  <2>1. PICK e : e = Activation(c, 2 + Arity[c], FALSE) OBVIOUS
  <2>2. e.code = c /\ e.h = a + 2 /\ e.native = FALSE
        /\ e \in [code : Codes, h : Nat, native : BOOLEAN]
    BY <1>3, <1>4, <2>1 DEF Activation
  <2>3. base = <<e>> BY <1>1, <2>1
  <2> QED BY <2>2, <2>3
<1>7. DataOK
  <2>1. pc \in Address /\ seg \in Segment BY <1>1, MachineConstants DEF Address, Segment
  <2> QED BY <1>2, <1>5, <1>6, <2>1 DEF DataOK
<1>8. BaseOK
  <2>1. Floor(1) = 0
    <3>1. Floor(1) = (a + 2) - 2 - a BY <1>3, <1>6 DEF Floor
    <3> QED BY <1>4, <3>1
  <2>2. base[1].h <= Height /\ base[1].h - 1 = a + 1 BY <1>4, <1>5, <1>6 DEF Height
  <2>3. ~base[1].native BY <1>6
  <2> QED BY <1>5, <1>6, <2>1, <2>2, <2>3 DEF BaseOK
<1>9. SegsOK
  <2>1. Rank(1) = 1
    <3>1. Rank(0) = 0 /\ Rank(0 + 1) = Rank(0) + (IF base[0 + 1].native THEN 0 ELSE 1)
      BY RankKnown DEF RankFacts
    <3>2. Rank(0 + 1) = Rank(1) /\ base[0 + 1].native = FALSE BY <1>6
    <3> QED BY <3>1, <3>2
  <2>2. Interpreted = 1 BY <1>6, <2>1 DEF Interpreted
  <2>3. Len(frames) = Interpreted - 1 BY <1>2, <2>2
  <2>4. SegOf(pc) = seg BY <1>1 DEF SegOf
  <2>5. SegAt(1) = seg /\ seg.c = c BY <1>1, <2>1, <2>2 DEF SegAt
  <2>6. stack[base[1].h - 1] = Zero BY <1>8 DEF BaseOK
  <2> QED BY <1>6, <2>3, <2>4, <2>5, <2>6 DEF SegsOK
<1>10. Outer = 0 /\ ~Native BY <1>2 DEF Outer, Native
<1>11. NestOK
  <2>1. DOMAIN nest = {} BY <1>2
  <2>2. 1..Outer = {} BY <1>10
  <2>3. ~base[Len(base)].native BY <1>6
  <2> QED BY <2>1, <2>2, <2>3 DEF NestOK
<1>12. PICK bs : bs = <<>> OBVIOUS
<1>13. bs \in Seq([h : Nat, own : Nat]) /\ Len(bs) = 0 /\ DOMAIN bs = {} BY <1>12
<1>14. BlocksOK(bs) BY <1>2, <1>13 DEF BlocksOK
<1>15. ChainsOK(bs)
  <2>1. 0..Outer = {0} /\ 1..Outer = {} BY <1>10
  <2> QED BY <1>13, <2>1 DEF ChainsOK
<1>16. RegisterOK(bs) BY <1>2, <1>10, <1>13 DEF RegisterOK, Register, Cut
<1>17. PhaseOK BY <1>2 DEF PhaseOK
<1> QED BY <1>7, <1>8, <1>9, <1>11, <1>14, <1>15, <1>16, <1>17 DEF MachineInv

\* A run that has ended takes no step.
LEMMA OnlyLive == ASSUME Next PROVE Live
<1>1. (TopOfStepCollect \/ DataStep \/ Jump \/ PushReturnAddress) => Stepping
  BY DEF TopOfStepCollect, DataStep, Jump, PushReturnAddress
<1>2. (PushHandler \/ SetHandler \/ DeleteHandler \/ RaiseEx \/ RaiseOverflow) => Stepping
  BY DEF PushHandler, SetHandler, DeleteHandler, RaiseEx, RaiseOverflow
<1>3. (DivByZero \/ StackOverflows \/ HeapExhausted) => Stepping
  BY DEF DivByZero, StackOverflows, HeapExhausted
<1>4. (Call \/ DoTailCall \/ DoReturn \/ RtsCall) => Stepping
  <2>1. Call => Stepping BY DEF Call
  <2>2. DoTailCall => Stepping BY Zenon DEF DoTailCall
  <2>3. DoReturn => Stepping BY Zenon DEF DoReturn
  <2>4. RtsCall => Stepping BY DEF RtsCall
  <2> QED BY <2>1, <2>2, <2>3, <2>4
<1>5. Halt => Interpreting BY DEF Halt
<1>6. (NativeStep \/ RegionSafepoint \/ NativeCall \/ NativeReturn) => InRegion
  BY DEF NativeStep, RegionSafepoint, NativeCall, NativeReturn
<1>7. (NativeCallsBack \/ NativeCallOverflows \/ NativeRaise) => InRegion
  BY DEF NativeCallsBack, NativeCallOverflows, NativeRaise
<1>8. NativePropagate => status = "raising" BY DEF NativePropagate
<1>9. HookRaises => status = "escaped" BY DEF HookRaises
<1>10. (Stepping \/ Interpreting \/ InRegion) => status = "running"
  BY DEF Stepping, Interpreting, InRegion
<1> QED BY <1>1, <1>2, <1>3, <1>4, <1>5, <1>6, <1>7, <1>8, <1>9, <1>10 DEF Next, Live

\* The invariant of a live machine, with its blocks named.
LEMMA MachineStep == MachineInv /\ [Next]_vars => MachineInv'
<1> SUFFICES ASSUME MachineInv, [Next]_vars PROVE MachineInv' OBVIOUS
<1>1. CASE UNCHANGED vars
  <2>1. MachineInv' <=> MachineInv
    <3>1. /\ UNCHANGED <<stack, pc, seg, frames, handlers, handlerSp, nest, flight, status, gc, base>>
      BY <1>1 DEF vars
    <3>2. Live' = Live /\ PhaseOK' = PhaseOK BY <3>1 DEF Live, PhaseOK, Native
    <3>3. DataOK' = DataOK BY <3>1 DEF DataOK
    <3>4. BaseOK' = BaseOK BY <3>1 DEF BaseOK, Floor, Height
    <3>5. SegsOK' = SegsOK BY <3>1 DEF SegsOK, SegAt, Interpreted, Rank
    <3>6. NestOK' = NestOK
      BY <3>1 DEF NestOK, FrameOK, RootOK, LastOf, Caller, Outer, Native, Rank
    <3>7. ASSUME NEW bs
          PROVE  /\ BlocksOK(bs)' = BlocksOK(bs) /\ ChainsOK(bs)' = ChainsOK(bs)
                 /\ RegisterOK(bs)' = RegisterOK(bs)
      <4>1. BlocksOK(bs)' = BlocksOK(bs) BY <3>1 DEF BlocksOK, BlockOK, Rank, Floor
      <4>2. ChainsOK(bs)' = ChainsOK(bs)
        BY <3>1 DEF ChainsOK, Cut, Register, Caller, Outer, Native
      <4>3. RegisterOK(bs)' = RegisterOK(bs)
        BY <3>1 DEF RegisterOK, Register, Cut, Outer, Native
      <4> QED BY <4>1, <4>2, <4>3
    <3> QED BY <3>2, <3>3, <3>4, <3>5, <3>6, <3>7 DEF MachineInv
  <2> QED BY <2>1
<1>2. CASE Next
  <2>1. Live BY <1>2, OnlyLive
  <2>2. DataOK /\ BaseOK /\ SegsOK /\ NestOK /\ PhaseOK BY <2>1 DEF MachineInv
  <2>3. PICK bs : BlocksOK(bs) /\ ChainsOK(bs) /\ RegisterOK(bs) BY <2>1 DEF MachineInv
  <2>4. Good(bs) BY <2>2, <2>3 DEF Good
  <2>5. RegisterOK(bs) /\ PhaseOK BY <2>2, <2>3
  <2>6. CASE \/ DataStep \/ Jump \/ PushReturnAddress \/ PushHandler
             \/ NativeStep \/ NativeRaise \/ NativeCallOverflows
    BY <2>4, <2>5, <2>6, AfterStep
  <2>7. CASE TopOfStepCollect \/ RegionSafepoint BY <2>4, <2>5, <2>7, AfterCollection
  <2>8. CASE SetHandler BY <2>4, <2>5, <2>8, AfterSetHandler
  <2>9. CASE DeleteHandler BY <2>4, <2>5, <2>9, AfterDeleteHandler
  <2>10. CASE \/ RaiseEx \/ RaiseOverflow \/ DivByZero \/ StackOverflows \/ HeapExhausted
              \/ HookRaises
    BY <2>4, <2>5, <2>10, AfterException
  <2>11. CASE Call BY <2>4, <2>5, <2>11, AfterInterpretedCall
  <2>12. CASE DoTailCall BY <2>4, <2>5, <2>12, AfterTailCall
  <2>13. CASE DoReturn BY <2>4, <2>5, <2>13, AfterReturn
  <2>14. CASE RtsCall
    <3>1. Stepping BY <2>14 DEF RtsCall
    <3>2. PICK n \in 1..2 : /\ DataOnTop(n)
                            /\ \/ (RtsReturns(n) \/ RtsFinishes(n)) /\ UNCHANGED pc
                               \/ RtsCollects(n)
                               \/ RtsRaises
                               \/ RtsCallsBack(n)
      BY <2>14 DEF RtsCall
    <3>3. CASE (RtsReturns(n) \/ RtsFinishes(n)) /\ UNCHANGED pc
      <4>1. \E i \in 1..2 : /\ Stepping /\ DataOnTop(i) /\ (RtsReturns(i) \/ RtsFinishes(i))
                            /\ UNCHANGED pc
        BY <3>1, <3>2, <3>3
      <4> QED BY <2>4, <2>5, <4>1, AfterStep
    <3>4. CASE RtsCollects(n)
      <4>1. \E i \in 1..2 : Stepping /\ DataOnTop(i) /\ RtsCollects(i) BY <3>1, <3>2, <3>4
      <4> QED BY <2>4, <2>5, <4>1, AfterCollection
    <3>5. CASE RtsRaises BY <2>4, <2>5, <3>1, <3>5, AfterException
    <3>6. CASE RtsCallsBack(n)
      <4>1. \E i \in 1..2 : Stepping /\ DataOnTop(i) /\ RtsCallsBack(i) BY <3>1, <3>2, <3>6
      <4> QED BY <2>4, <2>5, <4>1, AfterInterpretedCall
    <3> QED BY <3>2, <3>3, <3>4, <3>5, <3>6
  <2>15. CASE NativeCall BY <2>4, <2>5, <2>15, AfterNativeCall
  <2>16. CASE NativeReturn \/ NativePropagate BY <2>4, <2>5, <2>16, AfterNativeReturn
  <2>17. CASE NativeCallsBack BY <2>4, <2>5, <2>17, AfterCallBack
  <2>18. CASE Halt BY <2>4, <2>18, AfterHalt
  <2> QED BY <1>2, <2>6, <2>7, <2>8, <2>9, <2>10, <2>11, <2>12, <2>13, <2>14, <2>15, <2>16,
             <2>17, <2>18 DEF Next
<1> QED BY <1>1, <1>2

\* The invariant of the machine, for all constants: the activations lie on the
\* stack one above the other, each return address and each handler block is in
\* the code whose bounds the side stacks hold for it, and each run's chain of
\* handlers is its part of the blocks (do_call, do_return, do_tail_call,
\* do_raise_ex, region_interp_call, ThreadRoots).
THEOREM Invariance == Spec => []MachineInv
<1>1. Init => MachineInv BY MachineInit
<1>2. MachineInv /\ [Next]_vars => MachineInv' BY MachineStep
<1> QED BY <1>1, <1>2, PTL DEF Spec

\* frames and handler_frames_depth always say what the value stack says: their
\* lengths, the code bounds and the depths (SET_HANDLER, DELETE_HANDLER,
\* do_call, do_return, do_raise_ex, region_interp_call, the collector).
THEOREM SideStacksAlways == Spec => []SideStacksShadow
<1>1. MachineInv => SideStacksShadow BY ShadowFollows
<1> QED BY <1>1, Invariance, PTL

-----------------------------------------------------------------------------
(* Collections leave no address behind *)

\* Words and bounds in code that is where the last collection put it.
FreshWord == {w \in Word : w.k = "pc" => Current(w.pc)}
FreshSegment == {s \in Segment : Current(s)}

\* What the Rust frames s saved.
SavedFresh(s) == \A j \in DOMAIN s : s[j].saved # None => Current(s[j].saved.pc)

\* The machine's addresses; handlers has those of the blocks, by MachineInv.
CodeFresh ==
  /\ stack \in Seq(FreshWord) /\ Current(pc)
  /\ frames \in Seq(FreshSegment)
  /\ SavedFresh(nest)

FreshInv == Live => CodeFresh

LEMMA Unmoved ==
  ASSUME gc' = gc
  PROVE  /\ FreshWord' = FreshWord /\ FreshSegment' = FreshSegment
         /\ \A a : Current(a)' <=> Current(a)
BY DEF FreshWord, FreshSegment, Current

\* A step without a collection, from what it writes.
LEMMA StaysFresh ==
  ASSUME gc' = gc, stack' \in Seq(FreshWord), Current(pc'), frames' \in Seq(FreshSegment),
         SavedFresh(nest')
  PROVE  CodeFresh'
<1>1. stack' \in Seq(FreshWord') /\ frames' \in Seq(FreshSegment') BY Unmoved
<1>2. Current(pc)' /\ SavedFresh(nest)' BY DEF Current, SavedFresh
<1> QED BY <1>1, <1>2 DEF CodeFresh

LEMMA FreshWords ==
  ASSUME DataOK
  PROVE  /\ FreshWord \subseteq Word /\ Data \in FreshWord /\ Zero \in FreshWord
         /\ \A h \in Nat : SavedHandler(h) \in FreshWord
         /\ \A a \in Address : Current(a) => CodeAddr(a) \in FreshWord
         /\ \A c \in Codes : Addr(c, 0) \in Address /\ Current(Addr(c, 0))
<1>1. FreshWord \subseteq Word BY DEF FreshWord
<1>2. Data \in FreshWord /\ Zero \in FreshWord BY WordsKnown DEF FreshWord, Data, Zero
<1>3. ASSUME NEW h \in Nat PROVE SavedHandler(h) \in FreshWord
  <2>1. SavedHandler(h) \in Word BY WordsKnown
  <2>2. SavedHandler(h).k = "hsp" BY DEF SavedHandler
  <2> QED BY <2>1, <2>2 DEF FreshWord
<1>4. \A a \in Address : Current(a) => CodeAddr(a) \in FreshWord
  BY WordsKnown DEF FreshWord, CodeAddr
<1>5. \A c \in Codes : Addr(c, 0) \in Address /\ Current(Addr(c, 0))
  BY MachineConstants DEF Addr, At, Address, Current, DataOK
<1> QED BY <1>1, <1>2, <1>3, <1>4, <1>5

\* The running code's bounds, and places in it.
LEMMA PlacesFresh ==
  ASSUME DataOK, SegsOK, CodeFresh
  PROVE  /\ seg \in FreshSegment /\ pc \in Address
         /\ \A p \in Places : [pc EXCEPT !.p = p] \in Address /\ Current([pc EXCEPT !.p = p])
<1>1. pc \in Address /\ seg \in Segment /\ Current(pc) /\ SegOf(pc) = seg
  BY DEF DataOK, SegsOK, CodeFresh
<1>2. seg \in FreshSegment BY <1>1 DEF FreshSegment, SegOf, Current
<1>3. \A p \in Places : [pc EXCEPT !.p = p] \in Address /\ Current([pc EXCEPT !.p = p])
  BY <1>1 DEF Address, Current
<1> QED BY <1>1, <1>2, <1>3

LEMMA ShuffledFresh ==
  ASSUME DataOK, CodeFresh, NEW n \in Nat, NEW m \in Nat, NEW u, u = Height - n, u \in 0..Height
  PROVE  Shuffled(n, m) \in Seq(FreshWord)
<1>1. PICK e, d : e = SubSeq(stack, 1, u) /\ d = [i \in 1..m |-> Data] OBVIOUS
<1>2. PICK S : S = FreshWord OBVIOUS
<1>3. stack \in Seq(S) /\ u \in 0..Len(stack) BY <1>2 DEF CodeFresh, Height
<1>4. e \in Seq(S) BY <1>1, <1>3, Prefix
<1>5. d \in Seq(S) BY <1>1, <1>2, FreshWords
<1>6. e \o d \in Seq(S) BY <1>4, <1>5, Joined
<1> QED BY <1>1, <1>2, <1>6 DEF Shuffled

\* The words below a height, and a word of data on them.
LEMMA CutFresh ==
  ASSUME DataOK, CodeFresh, NEW m \in 0..Height
  PROVE  /\ SubSeq(stack, 1, m) \in Seq(FreshWord)
         /\ Append(SubSeq(stack, 1, m), Data) \in Seq(FreshWord)
<1>1. PICK S, e, d : S = FreshWord /\ e = SubSeq(stack, 1, m) /\ d = Data OBVIOUS
<1>2. stack \in Seq(S) /\ m \in 0..Len(stack) BY <1>1 DEF CodeFresh, Height
<1>3. e \in Seq(S) BY <1>1, <1>2, Prefix
<1>4. d \in S BY <1>1, FreshWords
<1>5. Append(e, d) \in Seq(S) BY <1>3, <1>4, Appended
<1> QED BY <1>1, <1>3, <1>5

\* Two words on others.
LEMMA PushedFresh ==
  ASSUME DataOK, NEW s \in Seq(FreshWord), NEW w \in FreshWord
  PROVE  s \o <<w, Data>> \in Seq(FreshWord)
<1>1. PICK S, d : S = FreshWord /\ d = Data OBVIOUS
<1>2. s \in Seq(S) /\ w \in S /\ d \in S BY <1>1, FreshWords
<1>3. s \o <<w, d>> \in Seq(S) BY ONLY <1>2, Pushed
<1> QED BY <1>1, <1>3

\* The Rust frames, as one is put on and taken off.
LEMMA NestFresh ==
  ASSUME NEW s, s \in Seq(NestedFrame), SavedFresh(s)
  PROVE  /\ \A f : f.saved = None => SavedFresh(Append(s, f))
         /\ s # <<>> => SavedFresh(Front(s))
<1>1. /\ Len(s) \in Nat /\ DOMAIN s = 1..Len(s)
      /\ \A j \in 1..Len(s) : s[j].saved # None => Current(s[j].saved.pc)
  BY Elements DEF SavedFresh
<1>2. ASSUME NEW f, f.saved = None PROVE SavedFresh(Append(s, f))
  <2>1. PICK z : z = Append(s, f) OBVIOUS
  <2>2. DOMAIN z = 1..(Len(s) + 1) /\ z[Len(s) + 1] = f /\ \A j \in 1..Len(s) : z[j] = s[j]
    BY ONLY s \in Seq(NestedFrame), <2>1
  <2>3. SavedFresh(z) BY <1>1, <1>2, <2>2 DEF SavedFresh
  <2> QED BY <2>1, <2>3
<1>3. ASSUME s # <<>> PROVE SavedFresh(Front(s))
  <2>1. Len(s) > 0 BY <1>1, <1>3
  <2>2. PICK z : z = Front(s) OBVIOUS
  <2>3. z \in Seq(NestedFrame) /\ Len(z) = Len(s) - 1 /\ \A j \in 1..(Len(s) - 1) : z[j] = s[j]
    BY ONLY s \in Seq(NestedFrame), <2>1, <2>2, Shortened
  <2>4. DOMAIN z = 1..(Len(s) - 1) BY <2>3, Elements
  <2>5. SavedFresh(z) BY <1>1, <2>3, <2>4 DEF SavedFresh
  <2> QED BY <2>2, <2>5
<1> QED BY <1>2, <1>3

\* A nested run ends: what region_interp_call gives back is still there.
LEMMA RestoredFresh ==
  ASSUME NEW bs, Good(bs), CodeFresh, ~Native, nest # <<>>, Restored, stack' \in Seq(FreshWord)
  PROVE  CodeFresh'
<1>1. DataOK /\ BaseOK /\ SegsOK /\ NestOK BY DEF Good
<1>2. /\ Outer = Len(nest) /\ Len(nest) \in Nat /\ Len(nest) >= 1
      /\ DOMAIN nest = 1..Len(nest) /\ nest \in Seq(NestedFrame)
  <2>1. Len(nest) \in Nat /\ DOMAIN nest = 1..Len(nest) /\ nest \in Seq(NestedFrame)
    BY <1>1, DataKnown DEF DataFacts, DataOK
  <2>2. Len(nest) # 0 BY <2>1
  <2> QED BY <2>1, <2>2 DEF Outer
<1>3. PICK q : q = Outer OBVIOUS
<1>4. q \in Nat /\ q >= 1 /\ q = Len(nest) /\ q \in 1..Outer /\ q \in DOMAIN nest BY <1>2, <1>3
<1>5. PICK s : s = nest[q].saved OBVIOUS
<1>6. s \in Registered /\ s # None BY <1>1, <1>4, <1>5, CutsKnown, NothingSaved
<1>7. /\ pc' = s.pc /\ frames' = SubSeq(frames, 1, s.depth)
      /\ nest' = [nest EXCEPT ![q].saved = None] /\ gc' = gc
  BY <1>4, <1>5 DEF Restored, Last
<1>8. PICK d : d = s.depth OBVIOUS
<1>9. d \in 0..Len(frames)
  <2>1. PICK b : b = Caller(q) OBVIOUS
  <2>2. b \in Nat /\ b < Len(base) /\ FrameOK(q) BY <1>1, <1>4, <2>1, NestKnown
  <2>3. d = Rank(b) - 1 BY <1>5, <1>8, <2>1, <2>2 DEF FrameOK
  <2>4. d \in Nat BY <1>6, <1>8 DEF Registered
  <2>5. Len(base) \in Nat BY <1>1, DataKnown DEF DataFacts
  <2>6. Rank(b) <= Rank(Len(base)) /\ Rank(Len(base)) \in Nat /\ Rank(b) \in Nat
    BY <2>2, <2>5, RankKnown DEF RankFacts
  <2>7. Len(frames) = Rank(Len(base)) - 1 BY <1>1 DEF SegsOK, Interpreted
  <2> QED BY <2>3, <2>4, <2>6, <2>7
<1>10. frames' \in Seq(FreshSegment)
  <2>1. frames \in Seq(FreshSegment) BY DEF CodeFresh
  <2> QED BY <1>7, <1>8, <1>9, <2>1, Prefix
<1>11. SavedFresh(nest) BY DEF CodeFresh
<1>12. Current(pc') BY <1>4, <1>5, <1>6, <1>7, <1>11 DEF SavedFresh
<1>13. SavedFresh(nest')
  <2>1. nest[q] \in NestedFrame BY <1>2, <1>4, Elements
  <2>2. DOMAIN nest' = DOMAIN nest BY <1>7
  <2>3. nest'[q].saved = None BY <1>4, <1>7, <2>1 DEF NestedFrame
  <2>4. \A j \in DOMAIN nest : j # q => nest'[j] = nest[j] BY <1>7
  <2> QED BY <1>11, <2>2, <2>3, <2>4 DEF SavedFresh
<1> QED BY <1>7, <1>10, <1>12, <1>13, StaysFresh

\* do_raise_ex resumes at an address that was on the stack.
LEMMA RaiseFresh ==
  ASSUME NEW bs, Good(bs), CodeFresh, handlerSp = Register(bs, Outer, Len(bs)), ~Native,
         NEW x, DoRaiseEx(x)
  PROVE  FreshInv'
<1>1. DataOK /\ BaseOK /\ SegsOK /\ NestOK /\ BlocksOK(bs) BY DEF Good
<1>2. stack \in Seq(FreshWord) /\ frames \in Seq(FreshSegment) /\ SavedFresh(nest) BY DEF CodeFresh
<1>3. CASE handlerSp # 0
  <2>1. PICK n : n = Len(bs) OBVIOUS
  <2>2. PICK w : w = bs[n].own OBVIOUS
  <2>3. PICK h : h = handlerSp OBVIOUS
  <2>4. /\ n \in 1..Len(bs) /\ n \in Nat /\ n >= 1 /\ h = bs[n].h /\ BlockOK(bs[n], n)
        /\ h - 2 \in 0..Height /\ w \in 1..Len(base) /\ w \in Nat
    BY ZenonT(40), <1>3, <2>1, <2>2, <2>3, LastBlock
  <2>5. h \in DOMAIN stack /\ stack[h].k = "pc" /\ handlers[n].depth = Rank(w) - 1
    BY <2>2, <2>4 DEF BlockOK
  <2>6. /\ stack' = SubSeq(stack, 1, h - 2) /\ pc' = stack[h].pc
        /\ frames' = SubSeq(frames, 1, Last(handlers).depth) /\ nest' = nest /\ gc' = gc
    BY <1>3, <2>3 DEF DoRaiseEx, HandlerFrames
  <2>7. Current(pc')
    <3>1. stack[h] \in FreshWord BY <1>2, <2>5, Elements
    <3> QED BY <2>5, <2>6, <3>1 DEF FreshWord
  <2>8. stack' \in Seq(FreshWord) BY <1>1, <2>4, <2>6, CutFresh
  <2>9. PICK d : d = Last(handlers).depth OBVIOUS
  <2>10. d \in 0..Len(frames)
    <3>1. Len(handlers) = n /\ Len(handlers) \in Nat BY <1>1, <2>1, <2>4 DEF BlocksOK
    <3>2. Last(handlers) = handlers[n] /\ handlers[n].depth \in Nat
      BY <1>1, <2>4, <3>1, DataKnown DEF DataFacts, Last
    <3>3. d = Rank(w) - 1 /\ d \in Nat BY <2>5, <2>9, <3>2
    <3>4. Len(base) \in Nat /\ w <= Len(base) BY <1>1, <2>4, DataKnown DEF DataFacts
    <3>5. Rank(w) <= Rank(Len(base)) /\ Rank(Len(base)) \in Nat /\ Rank(w) \in Nat
      BY <2>4, <3>4, RankKnown DEF RankFacts
    <3>6. Len(frames) = Rank(Len(base)) - 1 BY <1>1 DEF SegsOK, Interpreted
    <3> QED BY <3>3, <3>5, <3>6
  <2>11. frames' \in Seq(FreshSegment) BY <1>2, <2>6, <2>9, <2>10, Prefix
  <2>12. SavedFresh(nest') BY <1>2, <2>6
  <2> QED BY <2>6, <2>7, <2>8, <2>11, <2>12, StaysFresh DEF FreshInv
<1>4. CASE handlerSp = 0 /\ nest = <<>>
  <2>1. status' = "uncaught" BY <1>4 DEF DoRaiseEx
  <2> QED BY <2>1 DEF FreshInv, Live
<1>5. CASE handlerSp = 0 /\ nest # <<>>
  <2>1. Restored /\ stack' = stack BY <1>5 DEF DoRaiseEx
  <2> QED BY <1>2, <1>5, <2>1, RestoredFresh DEF FreshInv
<1> QED BY <1>3, <1>4, <1>5

LEMMA FailFresh ==
  ASSUME NEW bs, Good(bs), CodeFresh, ~Native, NEW kind, Fails(kind)
  PROVE  FreshInv'
<1>1. stack \in Seq(FreshWord) BY DEF CodeFresh
<1>2. CASE nest = <<>>
  <2>1. status' = "error" BY <1>2 DEF Fails
  <2> QED BY <2>1 DEF FreshInv, Live
<1>3. CASE nest # <<>>
  <2>1. Restored /\ stack' = stack BY <1>3 DEF Fails
  <2> QED BY <1>1, <1>3, <2>1, RestoredFresh DEF FreshInv
<1> QED BY <1>2, <1>3

\* do_call leaves the place to return to.
LEMMA CallFresh ==
  ASSUME NEW bs, Good(bs), CodeFresh, NEW c \in Codes, NEW p \in Places,
         NEW s \in Seq(FreshWord), DoCall(c, p, s)
  PROVE  FreshInv'
<1>1. DataOK /\ SegsOK BY DEF Good
<1>2. /\ seg \in FreshSegment /\ [pc EXCEPT !.p = p] \in Address
      /\ Current([pc EXCEPT !.p = p])
  BY <1>1, PlacesFresh
<1>3. /\ frames \in Seq(FreshSegment) /\ SavedFresh(nest) /\ nest \in Seq(NestedFrame)
  BY <1>1 DEF CodeFresh, DataOK
<1>4. CASE c \in Regions
  <2>1. /\ stack' = s \o <<Zero, Data>> /\ nest' = Append(nest, [top |-> Len(s), saved |-> None])
        /\ pc' = [pc EXCEPT !.p = p] /\ frames' = frames /\ gc' = gc
    BY <1>4 DEF DoCall, Elsewhere
  <2>2. PICK z : z = Zero OBVIOUS
  <2>3. z \in FreshWord BY <1>1, <2>2, FreshWords
  <2>4. s \o <<z, Data>> \in Seq(FreshWord) BY <1>1, <2>3, PushedFresh
  <2>5. stack' \in Seq(FreshWord) BY <2>1, <2>2, <2>4
  <2>6. PICK f : f = [top |-> Len(s), saved |-> None] OBVIOUS
  <2>7. f.saved = None /\ nest' = Append(nest, f) BY <2>1, <2>6
  <2>8. SavedFresh(nest') BY <1>3, <2>7, NestFresh
  <2> QED BY <1>2, <1>3, <2>1, <2>5, <2>8, StaysFresh DEF FreshInv
<1>5. CASE c \notin Regions
  <2>1. PICK a : a = [pc EXCEPT !.p = p] OBVIOUS
  <2>2. PICK w : w = CodeAddr(a) OBVIOUS
  <2>3. /\ stack' = s \o <<w, Data>> /\ nest' = nest /\ pc' = Addr(c, 0)
        /\ frames' = Append(frames, seg) /\ gc' = gc
    BY <1>5, <2>1, <2>2 DEF DoCall, outer
  <2>4. w \in FreshWord /\ Current(Addr(c, 0)) BY <1>1, <1>2, <2>1, <2>2, FreshWords
  <2>5. stack' \in Seq(FreshWord) BY <1>1, <2>3, <2>4, PushedFresh
  <2>6. frames' \in Seq(FreshSegment) BY <1>2, <1>3, <2>3, Appended
  <2> QED BY <1>3, <2>3, <2>4, <2>5, <2>6, StaysFresh DEF FreshInv
<1> QED BY <1>4, <1>5

\* A collection outside nested runs moves every address there is.
LEMMA CollectionFresh ==
  ASSUME NEW bs, Good(bs), CodeFresh, NEW s \in Seq(FreshWord), Collected(s), nest' = nest,
         \A j \in DOMAIN nest : nest[j].saved = None
  PROVE  CodeFresh'
<1>1. DataOK /\ SegsOK BY DEF Good
<1>2. gc \in Nat /\ seg \in Segment /\ SegOf(pc) = seg /\ seg \in FreshSegment
  BY <1>1, PlacesFresh DEF DataOK, SegsOK
<1>3. /\ gc' = gc + 1 /\ stack' = [i \in DOMAIN s |-> ForwardedWord(s[i])]
      /\ pc' = [c |-> seg.c, p |-> pc.p, at |-> Forwarded(seg).at]
      /\ frames' = ForwardedSide(frames)
  BY DEF Collected
<1>4. PICK g : g = gc + 1 OBVIOUS
<1>5. /\ FreshSegment' = {x \in Segment : x.c \in Image \/ x.at = g}
      /\ FreshWord' = {x \in Word : x.k = "pc" => x.pc.c \in Image \/ x.pc.at = g}
  BY <1>3, <1>4 DEF FreshSegment, FreshWord, Current
<1>6. ASSUME NEW a \in FreshSegment PROVE Forwarded(a) \in FreshSegment'
  <2>1. a \in Segment /\ (a.c \in Image \/ a.at = gc) BY DEF FreshSegment, Current
  <2>2. Forwarded(a) \in Segment /\ Forwarded(a).c = a.c BY <1>2, <2>1, ForwardedKnown
  <2>3. a.c \notin Image => Forwarded(a).at = g BY <1>4, <2>1 DEF Forwarded, Segment
  <2>4. PICK f : f = Forwarded(a) OBVIOUS
  <2>5. f \in {x \in Segment : x.c \in Image \/ x.at = g} BY <2>2, <2>3, <2>4
  <2> QED BY <1>5, <2>4, <2>5
<1>7. ASSUME NEW w \in FreshWord PROVE ForwardedWord(w) \in FreshWord'
  <2>1. PICK v : v = ForwardedWord(w) OBVIOUS
  <2>2. w \in Word /\ (w.k = "pc" => Current(w.pc)) BY DEF FreshWord
  <2>3. v \in Word /\ v.k = w.k BY <1>2, <2>1, <2>2, ForwardedWordKnown
  <2>4. w.k = "pc" => v.pc.c \in Image \/ v.pc.at = g
    <3> SUFFICES ASSUME w.k = "pc" PROVE v.pc.c \in Image \/ v.pc.at = g OBVIOUS
    <3>1. w.pc \in Address /\ (w.pc.c \in Image \/ w.pc.at = gc)
      BY <2>2 DEF Word, Data, Zero, Current
    <3>2. v.pc = Forwarded(w.pc) BY <2>1 DEF ForwardedWord, CodeAddr
    <3> QED BY <1>4, <3>1, <3>2 DEF Forwarded, Address
  <2>5. v \in {x \in Word : x.k = "pc" => x.pc.c \in Image \/ x.pc.at = g} BY <2>3, <2>4
  <2> QED BY <1>5, <2>1, <2>5
<1>8. stack' \in Seq(FreshWord')
  <2>1. Len(s) \in Nat /\ DOMAIN s = 1..Len(s) /\ \A i \in 1..Len(s) : s[i] \in FreshWord
    BY Elements
  <2>2. \A i \in 1..Len(s) : ForwardedWord(s[i]) \in FreshWord' BY <1>7, <2>1
  <2>3. stack' = [i \in 1..Len(s) |-> ForwardedWord(s[i])] BY <1>3, <2>1
  <2> QED BY <2>1, <2>2, <2>3
<1>9. frames' \in Seq(FreshSegment')
  <2>1. /\ Len(frames) \in Nat /\ DOMAIN frames = 1..Len(frames)
        /\ \A i \in 1..Len(frames) : frames[i] \in FreshSegment
    <3>1. frames \in Seq(FreshSegment) BY DEF CodeFresh
    <3> QED BY <3>1, Elements
  <2>2. ASSUME NEW i \in 1..Len(frames)
        PROVE  [frames[i] EXCEPT !.at = Forwarded(frames[i]).at] \in FreshSegment'
    <3>1. frames[i] \in FreshSegment /\ frames[i] \in Segment BY <2>1 DEF FreshSegment
    <3>2. Forwarded(frames[i]) \in FreshSegment' BY <1>6, <3>1
    <3>3. Forwarded(frames[i]) = [c |-> frames[i].c, at |-> Forwarded(frames[i]).at]
      BY <1>2, <3>1, ForwardedKnown
    <3>4. [frames[i] EXCEPT !.at = Forwarded(frames[i]).at]
            = [c |-> frames[i].c, at |-> Forwarded(frames[i]).at]
      BY <3>1 DEF Segment
    <3> QED BY <3>2, <3>3, <3>4
  <2>3. frames' = [i \in 1..Len(frames) |-> [frames[i] EXCEPT !.at = Forwarded(frames[i]).at]]
    BY <1>3, <2>1 DEF ForwardedSide
  <2> QED BY <2>1, <2>2, <2>3
<1>10. Current(pc)'
  <2>1. Forwarded(seg) \in {x \in Segment : x.c \in Image \/ x.at = g} BY <1>2, <1>5, <1>6
  <2>2. Forwarded(seg).c = seg.c BY <1>2, ForwardedKnown
  <2>3. pc'.c \in Image \/ pc'.at = g BY <1>3, <2>1, <2>2
  <2> QED BY <1>3, <1>4, <2>3 DEF Current
<1>11. SavedFresh(nest)' BY DEF SavedFresh
<1> QED BY <1>8, <1>9, <1>10, <1>11 DEF CodeFresh

\* The steps that stay in the activation and leave handlers alone.
LEMMA StepFresh ==
  ASSUME NEW bs, Good(bs), CodeFresh,
         \/ DataStep \/ Jump \/ PushReturnAddress \/ PushHandler
         \/ NativeStep \/ NativeRaise \/ NativeCallOverflows
         \/ \E n \in 1..2 : /\ Stepping /\ DataOnTop(n) /\ (RtsReturns(n) \/ RtsFinishes(n))
                            /\ UNCHANGED pc
  PROVE  CodeFresh'
<1>1. DataOK /\ BaseOK /\ SegsOK BY DEF Good
<1>2. /\ stack \in Seq(FreshWord) /\ frames \in Seq(FreshSegment) /\ SavedFresh(nest)
      /\ Current(pc)
  BY DEF CodeFresh
<1>3. ASSUME NEW n \in 0..2, NEW d \in 0..1, DataOnTop(n), stack' = Shuffled(n, d),
             pc' = pc, frames' = frames, nest' = nest, gc' = gc
      PROVE  CodeFresh'
  <2>1. PICK m : m = Height - n OBVIOUS
  <2>2. n \in Nat /\ d \in Nat OBVIOUS
  <2>3. m \in 0..Height BY <1>3, <2>1, <2>2, OnTop
  <2>4. Shuffled(n, d) \in Seq(FreshWord) BY <1>1, <2>1, <2>2, <2>3, ShuffledFresh
  <2> QED BY <1>2, <1>3, <2>4, StaysFresh
<1>4. ASSUME stack' = stack, pc' = pc, frames' = frames, nest' = nest, gc' = gc PROVE CodeFresh'
  BY <1>2, <1>4, StaysFresh
<1>5. ASSUME NEW w \in FreshWord, stack' = Append(stack, w),
             pc' = pc, frames' = frames, nest' = nest, gc' = gc
      PROVE  CodeFresh'
  <2>1. Append(stack, w) \in Seq(FreshWord) BY <1>2, Appended
  <2> QED BY <1>2, <1>5, <2>1, StaysFresh
<1>6. CASE DataStep
  <2>1. PICK n \in 0..2, d \in 0..1 : DataOnTop(n) /\ stack' = Shuffled(n, d) BY <1>6 DEF DataStep
  <2>2. pc' = pc /\ frames' = frames /\ nest' = nest /\ gc' = gc BY <1>6 DEF DataStep, control
  <2> QED BY <1>3, <2>1, <2>2
<1>7. CASE NativeStep
  <2>1. PICK n \in 0..2, d \in 0..1 : DataOnTop(n) /\ stack' = Shuffled(n, d)
    BY <1>7 DEF NativeStep
  <2>2. pc' = pc /\ frames' = frames /\ nest' = nest /\ gc' = gc BY <1>7 DEF NativeStep, Registers
  <2> QED BY <1>3, <2>1, <2>2
<1>8. CASE Jump
  <2>1. PICK p \in Places : pc' = [pc EXCEPT !.p = p] BY <1>8 DEF Jump, Elsewhere
  <2>2. stack' = stack /\ frames' = frames /\ nest' = nest /\ gc' = gc BY <1>8 DEF Jump, control
  <2>3. Current(pc') BY <1>1, <2>1, PlacesFresh
  <2> QED BY <1>2, <2>2, <2>3, StaysFresh
<1>9. CASE PushReturnAddress
  <2>1. PICK i : i = Top.h - 1 OBVIOUS
  <2>2. i \in 1..Height
    <3>1. PICK y, f, a : y = Top.h /\ f = Floor(Len(base)) /\ a = Arity[Top.code] OBVIOUS
    <3>2. /\ y \in Nat /\ f \in Nat /\ a \in Nat /\ Height \in Nat /\ y <= Height /\ y = f + 2 + a
      BY <1>1, <3>1, TopKnown
    <3>3. i = y - 1 BY <2>1, <3>1
    <3> QED BY ONLY <3>2, <3>3
  <2>3. Height = Len(stack) BY DEF Height
  <2>4. stack[i] \in FreshWord BY <1>2, <2>2, <2>3, Elements
  <2>5. /\ stack' = Append(stack, stack[i])
        /\ pc' = pc /\ frames' = frames /\ nest' = nest /\ gc' = gc
    BY <1>9, <2>1 DEF PushReturnAddress, control
  <2> QED BY <1>5, <2>4, <2>5
<1>10. CASE PushHandler
  <2>1. SavedHandler(handlerSp) \in FreshWord
    <3>1. handlerSp \in Nat BY <1>1 DEF DataOK
    <3> QED BY <1>1, <3>1, FreshWords
  <2>2. /\ stack' = Append(stack, SavedHandler(handlerSp))
        /\ pc' = pc /\ frames' = frames /\ nest' = nest /\ gc' = gc
    BY <1>10 DEF PushHandler, control
  <2> QED BY <1>5, <2>1, <2>2
<1>11. CASE NativeRaise BY <1>4, <1>11 DEF NativeRaise, Registers
<1>12. CASE NativeCallOverflows BY <1>4, <1>12 DEF NativeCallOverflows
<1>13. CASE \E n \in 1..2 : /\ Stepping /\ DataOnTop(n) /\ (RtsReturns(n) \/ RtsFinishes(n))
                            /\ UNCHANGED pc
  <2>1. PICK n \in 1..2 : DataOnTop(n) /\ (RtsReturns(n) \/ RtsFinishes(n)) /\ UNCHANGED pc
    BY <1>13
  <2>2. /\ stack' = Shuffled(n, 1) /\ pc' = pc
        /\ frames' = frames /\ nest' = nest /\ gc' = gc
    BY <2>1 DEF RtsReturns, RtsFinishes, control
  <2>3. n \in 0..2 /\ 1 \in 0..1 OBVIOUS
  <2> QED BY <1>3, <2>1, <2>2, <2>3
<1> QED BY <1>6, <1>7, <1>8, <1>9, <1>10, <1>11, <1>12, <1>13

\* Handlers are set in the running code, and taken down with their block.
LEMMA HandlerFresh ==
  ASSUME NEW bs, Good(bs), RegisterOK(bs), CodeFresh, SetHandler \/ DeleteHandler
  PROVE  CodeFresh'
<1>1. DataOK /\ BaseOK /\ SegsOK BY DEF Good
<1>2. /\ stack \in Seq(FreshWord) /\ frames \in Seq(FreshSegment) /\ SavedFresh(nest)
      /\ Current(pc)
  BY DEF CodeFresh
<1>3. CASE SetHandler
  <2>1. PICK q \in HandlerPlaces : stack' = Append(stack, CodeAddr([pc EXCEPT !.p = q]))
    BY <1>3 DEF SetHandler
  <2>2. pc' = pc /\ frames' = frames /\ nest' = nest /\ gc' = gc BY <1>3 DEF SetHandler, outer
  <2>3. PICK a : a = [pc EXCEPT !.p = q] OBVIOUS
  <2>4. a \in Address /\ Current(a)
    <3>1. q \in Places BY MachineConstants
    <3> QED BY <1>1, <2>3, <3>1, PlacesFresh
  <2>5. CodeAddr(a) \in FreshWord BY <1>1, <2>4, FreshWords
  <2>6. stack' \in Seq(FreshWord) BY <1>2, <2>1, <2>3, <2>5, Appended
  <2> QED BY <1>2, <2>2, <2>6, StaysFresh
<1>4. CASE DeleteHandler
  <2>1. /\ status = "running" /\ handlerSp > Top.h
        /\ stack' = Append(SubSeq(stack, 1, handlerSp - 2), Data)
        /\ pc' = pc /\ frames' = frames /\ nest' = nest /\ gc' = gc
    BY <1>4 DEF DeleteHandler, outer, Stepping, Interpreting
  <2>2. handlerSp = Register(bs, Outer, Len(bs)) BY <2>1 DEF RegisterOK
  <2>3. handlerSp # 0
    <3>1. Top.h \in Nat BY <1>1, TopKnown
    <3> QED BY <2>1, <3>1
  <2>4. PICK n, w, h : n = Len(bs) /\ w = bs[n].own /\ h = handlerSp OBVIOUS
  <2>5. h - 2 \in 0..Height BY ZenonT(40), <2>2, <2>3, <2>4, LastBlock
  <2>6. Append(SubSeq(stack, 1, h - 2), Data) \in Seq(FreshWord) BY <1>1, <2>5, CutFresh
  <2>7. stack' \in Seq(FreshWord) BY <2>1, <2>4, <2>6
  <2> QED BY <1>2, <2>1, <2>7, StaysFresh
<1> QED BY <1>3, <1>4

\* Exceptions and failures of the interpreter.
LEMMA ExceptionFresh ==
  ASSUME NEW bs, Good(bs), RegisterOK(bs), PhaseOK, CodeFresh,
         \/ RaiseEx \/ RaiseOverflow \/ (Stepping /\ RtsRaises)
         \/ DivByZero \/ StackOverflows \/ HeapExhausted
         \/ HookRaises
  PROVE  FreshInv'
<1>1. ASSUME Stepping PROVE ~Native /\ handlerSp = Register(bs, Outer, Len(bs))
  BY <1>1 DEF Stepping, Interpreting, RegisterOK
<1>2. CASE RaiseEx
  <2>1. PICK x \in Packets : DoRaiseEx(x) BY <1>2 DEF RaiseEx
  <2>2. Stepping BY <1>2 DEF RaiseEx
  <2> QED BY <1>1, <2>1, <2>2, RaiseFresh
<1>3. CASE RaiseOverflow
  <2>1. Stepping /\ DoRaiseEx(Overflow) BY <1>3 DEF RaiseOverflow
  <2> QED BY <1>1, <2>1, RaiseFresh
<1>4. CASE Stepping /\ RtsRaises
  <2>1. PICK x \in Packets : DoRaiseEx(x) BY <1>4 DEF RtsRaises
  <2> QED BY <1>1, <1>4, <2>1, RaiseFresh
<1>5. CASE DivByZero BY <1>1, <1>5, FailFresh DEF DivByZero
<1>6. CASE StackOverflows BY <1>1, <1>6, FailFresh DEF StackOverflows
<1>7. CASE HeapExhausted BY <1>1, <1>7, FailFresh DEF HeapExhausted
<1>8. CASE HookRaises
  <2>1. status = "escaped" /\ ~Native BY <1>8 DEF HookRaises, PhaseOK
  <2>2. CASE flight \in HardErrors
    <3>1. Fails(flight) BY <1>8, <2>2 DEF HookRaises
    <3> QED BY <2>1, <3>1, FailFresh
  <2>3. CASE flight \notin HardErrors
    <3>1. DoRaiseEx(flight) BY <1>8, <2>3 DEF HookRaises
    <3>2. handlerSp = Register(bs, Outer, Len(bs)) BY <2>3 DEF RegisterOK
    <3> QED BY <2>1, <3>1, <3>2, RaiseFresh
  <2> QED BY <2>2, <2>3
<1> QED BY <1>2, <1>3, <1>4, <1>5, <1>6, <1>7, <1>8

\* Calls by do_call, from an instruction or from the runtime.
LEMMA InterpretedCallFresh ==
  ASSUME NEW bs, Good(bs), CodeFresh,
         Call \/ \E n \in 1..2 : Stepping /\ DataOnTop(n) /\ RtsCallsBack(n)
  PROVE  FreshInv'
<1>1. DataOK BY DEF Good
<1>2. ASSUME NEW c \in Codes, NEW p \in ReturnPlaces, NEW n \in Nat, NEW d \in Nat,
             NEW e \in Nat, DataOnTop(e), n <= e, DoCall(c, p, Shuffled(n, d))
      PROVE  FreshInv'
  <2>1. PICK m : m = Height - n OBVIOUS
  <2>2. m \in 0..Height
    <3>1. PICK x : x = Height OBVIOUS
    <3>2. x - e \in 0..x /\ x \in Nat BY <1>2, <3>1, OnTop
    <3>3. x - n \in 0..x BY ONLY <3>2, <1>2, n \in Nat, e \in Nat
    <3> QED BY <2>1, <3>1, <3>3
  <2>3. PICK s : s = Shuffled(n, d) OBVIOUS
  <2>4. s \in Seq(FreshWord) BY <1>1, <2>1, <2>2, <2>3, ShuffledFresh
  <2>5. p \in Places BY MachineConstants
  <2>6. DoCall(c, p, s) BY <1>2, <2>3
  <2> QED BY <2>4, <2>5, <2>6, CallFresh
<1>3. CASE Call
  <2>1. PICK c \in Codes, p \in ReturnPlaces, i \in 0..1 :
          DataOnTop(Arity[c] + i) /\ DoCall(c, p, Shuffled(i, 0))
    BY <1>3 DEF Call
  <2>2. PICK e : e = Arity[c] + i OBVIOUS
  <2>3. e \in Nat /\ i \in Nat /\ 0 \in Nat /\ i <= e
    <3>1. Arity[c] \in Nat BY MachineConstants
    <3> QED BY <2>2, <3>1
  <2>4. DataOnTop(e) BY <2>1, <2>2
  <2> QED BY <1>2, <2>1, <2>3, <2>4
<1>4. CASE \E n \in 1..2 : Stepping /\ DataOnTop(n) /\ RtsCallsBack(n)
  <2>1. PICK n \in 1..2 : DataOnTop(n) /\ RtsCallsBack(n) BY <1>4
  <2>2. PICK c \in Codes, p \in ReturnPlaces : DoCall(c, p, Shuffled(n, 1)) BY <2>1 DEF RtsCallsBack
  <2>3. n \in Nat /\ 1 \in Nat /\ n <= n OBVIOUS
  <2> QED BY <1>2, <2>1, <2>2, <2>3
<1> QED BY <1>3, <1>4

\* A tail call takes the return address along.
LEMMA TailCallFresh ==
  ASSUME NEW bs, Good(bs), CodeFresh, DoTailCall
  PROVE  CodeFresh'
<1>1. DataOK /\ BaseOK BY DEF Good
<1>2. stack \in Seq(FreshWord) /\ frames \in Seq(FreshSegment) /\ SavedFresh(nest)
  BY DEF CodeFresh
<1>3. PICK c \in Codes :
         LET n == Arity[c] + 2
             moved == SubSeq(stack, Height - n + 1, Height)
             floor == Top.h - 2 - Arity[Top.code]
         IN /\ Owns(n) /\ handlerSp < Top.h
            /\ moved[n] = stack[Top.h - 1]
            /\ \A i \in 1 .. n - 1 : moved[i] = Data
            /\ stack' = SubSeq(stack, 1, floor) \o SubSeq(moved, 1, n - 2)
                        \o <<moved[n], moved[n - 1]>>
            /\ seg' = Bounds(c) /\ pc' = Addr(c, 0)
            /\ base' = Append(Front(base), Activation(c, floor + n, FALSE))
  BY Zenon DEF DoTailCall
<1>4. PICK n : n = Arity[c] + 2 OBVIOUS
<1>5. PICK x : x = Height OBVIOUS
<1>6. PICK d : d = SubSeq(stack, x - n + 1, x) OBVIOUS
<1>7. PICK m : m = Top.h - 2 - Arity[Top.code] OBVIOUS
<1>8. /\ Owns(n) /\ pc' = Addr(c, 0)
      /\ stack' = SubSeq(stack, 1, m) \o SubSeq(d, 1, n - 2) \o <<d[n], d[n - 1]>>
  BY <1>3, <1>4, <1>5, <1>6, <1>7
<1>9. frames' = frames /\ nest' = nest /\ gc' = gc BY DEF DoTailCall, outer
<1>10. n \in 2..x /\ m \in 0..x
  <2>1. PICK y, f, a, k : /\ y = Top.h /\ f = Floor(Len(base)) /\ a = Arity[Top.code]
                          /\ k = Arity[c]
    OBVIOUS
  <2>2. /\ y \in Nat /\ f \in Nat /\ a \in Nat /\ x \in Nat /\ y <= x /\ y = f + 2 + a
    BY <1>1, <1>5, <2>1, TopKnown
  <2>3. k \in Nat BY <2>1, MachineConstants
  <2>4. x - y >= n BY <1>5, <1>8, <2>1 DEF Owns
  <2>5. n = k + 2 /\ m = y - 2 - a BY <1>4, <1>7, <2>1
  <2> QED BY ONLY <2>2, <2>3, <2>4, <2>5
<1>11. stack' \in Seq(FreshWord)
  <2>1. PICK S, s, z :
          /\ S = FreshWord /\ s = stack
          /\ z = SubSeq(s, 1, m) \o SubSeq(d, 1, n - 2) \o <<d[n], d[n - 1]>>
    OBVIOUS
  <2>2. s \in Seq(S) BY <1>2, <2>1
  <2>3. x = Len(s) BY <1>5, <2>1 DEF Height
  <2>4. n \in 2..x /\ m \in 0..x BY <1>10
  <2>5. d = SubSeq(s, x - n + 1, x) BY <1>6, <2>1
  <2>6. z = SubSeq(s, 1, m) \o SubSeq(d, 1, n - 2) \o <<d[n], d[n - 1]>> BY <2>1
  <2>7. MovedTo(S, z, s, d, m, n) BY ONLY <2>2, <2>3, <2>4, <2>5, <2>6, Moved
  <2>8. z \in Seq(S) BY ONLY <2>7 DEF MovedTo
  <2> QED BY <1>8, <2>1, <2>8
<1>12. Current(pc') BY <1>1, <1>8, FreshWords
<1> QED BY <1>2, <1>9, <1>11, <1>12, StaysFresh

\* A return resumes at the address on the stack, or where the region's caller
\* was.
LEMMA ReturnFresh ==
  ASSUME NEW bs, Good(bs), CodeFresh, DoReturn
  PROVE  FreshInv'
<1>1. DataOK /\ BaseOK /\ SegsOK /\ NestOK BY DEF Good
<1>2. stack \in Seq(FreshWord) /\ frames \in Seq(FreshSegment) /\ SavedFresh(nest)
  BY DEF CodeFresh
<1>3. status = "running" /\ ~Native /\ Height = Top.h + 1
  BY DEF DoReturn, Stepping, Interpreting
<1>4. seg.c = Top.code /\ ~Top.native BY <1>1, <1>3, RunningCode
<1>5. PICK ret : ret = stack[Height - 2] OBVIOUS
<1>6. PICK m : m = Height - ReturnDrops OBVIOUS
<1>7. PICK s : s = Append(SubSeq(stack, 1, m), Data) OBVIOUS
<1>8. /\ m \in 0..Height /\ Height - 2 \in 1..Height /\ Height - 2 = Top.h - 1
  <2>1. PICK y, f, a, x : /\ y = Top.h /\ f = Floor(Len(base)) /\ a = Arity[Top.code]
                          /\ x = Height
    OBVIOUS
  <2>2. /\ y \in Nat /\ f \in Nat /\ a \in Nat /\ x \in Nat /\ y <= x /\ y = f + 2 + a
    BY <1>1, <2>1, TopKnown
  <2>3. x = y + 1 /\ m = x - (3 + a) BY <1>3, <1>4, <1>6, <2>1 DEF ReturnDrops
  <2>4. m \in 0..x /\ x - 2 \in 1..x /\ x - 2 = y - 1 BY ONLY <2>2, <2>3
  <2> QED BY <2>1, <2>4
<1>9. s \in Seq(FreshWord) BY <1>1, <1>7, <1>8, CutFresh
<1>10. CASE ret = Zero
  <2>1. IF nest = <<>>
        THEN Quiesced /\ status' = "returned" /\ UNCHANGED flight
        ELSE Restored /\ stack' = s /\ UNCHANGED <<exn, flight, status>>
    BY <1>5, <1>6, <1>7, <1>10 DEF DoReturn
  <2>2. CASE nest = <<>>
    <3>1. status' = "returned" BY <2>1, <2>2
    <3> QED BY <3>1 DEF FreshInv, Live
  <2>3. CASE nest # <<>>
    <3>1. Restored /\ stack' = s BY <2>1, <2>3
    <3> QED BY <1>3, <1>9, <2>3, <3>1, RestoredFresh DEF FreshInv
  <2> QED BY <2>2, <2>3
<1>11. CASE ret # Zero
  <2>1. /\ stack' = s /\ frames' = Front(frames) /\ pc' = ret.pc /\ nest' = nest /\ gc' = gc
    BY <1>5, <1>6, <1>7, <1>11 DEF DoReturn, outer
  <2>2. PICK l : l = Len(base) OBVIOUS
  <2>3. l \in DOMAIN base /\ l \in Nat /\ Top = base[l] /\ DataFacts
    BY <1>1, <2>2, TopKnown, DataKnown DEF DataFacts
  <2>4. ~base[l].native /\ ret = stack[base[l].h - 1] BY <1>4, <1>5, <1>8, <2>3
  <2>5. l > 1 /\ ret.k = "pc" BY <1>1, <1>11, <2>3, <2>4 DEF SegsOK
  <2>6. ret \in FreshWord
    <3>1. Height = Len(stack) BY DEF Height
    <3> QED BY <1>2, <1>5, <1>8, <3>1, Elements
  <2>7. Current(pc') BY <2>1, <2>5, <2>6 DEF FreshWord
  <2>8. Len(frames) > 0
    <3>1. l - 1 \in DOMAIN base /\ l - 1 \in Nat /\ ~base[l - 1].native /\ 0 < l - 1
      BY SMTT(40), <1>1, <1>11, <2>3, <2>4, <2>5 DEF SegsOK, DataFacts
    <3>2. PICK k : k = l - 1 OBVIOUS
    <3>3. k \in Nat /\ 0 < k /\ l = k + 1 BY <2>3, <3>1, <3>2
    <3>4. Rank(k) \in Nat /\ Rank(k) >= 1 BY <3>1, <3>2, <3>3, RankKnown DEF RankFacts
    <3>5. Rank(k + 1) = Rank(k) + (IF base[k + 1].native THEN 0 ELSE 1)
      BY <3>3, RankKnown DEF RankFacts
    <3>6. Len(frames) = Rank(k + 1) - 1 BY <1>1, <2>2, <3>3 DEF SegsOK, Interpreted
    <3>7. ~base[k + 1].native BY <2>4, <3>3
    <3> QED BY <3>4, <3>5, <3>6, <3>7
  <2>9. frames' \in Seq(FreshSegment) BY <1>2, <2>1, <2>8, Shortened
  <2> QED BY <1>2, <1>9, <2>1, <2>7, <2>9, StaysFresh DEF FreshInv
<1> QED BY <1>10, <1>11

\* A nested run that is halted gives back what was saved.
LEMMA HaltFresh ==
  ASSUME NEW bs, Good(bs), CodeFresh, Halt
  PROVE  FreshInv'
<1>1. ~Native BY DEF Halt, Interpreting
<1>2. stack \in Seq(FreshWord) /\ DataOK BY DEF CodeFresh, Good
<1>3. CASE nest = <<>>
  <2>1. status' = "finished" BY <1>3 DEF Halt
  <2> QED BY <2>1 DEF FreshInv, Live
<1>4. CASE nest # <<>>
  <2>1. Restored /\ (stack' = stack \/ stack' = Append(stack, Data)) BY <1>4 DEF Halt
  <2>2. stack' \in Seq(FreshWord)
    <3>1. Append(stack, Data) \in Seq(FreshWord) BY <1>2, FreshWords, Appended
    <3> QED BY <1>2, <2>1, <3>1
  <2> QED BY <1>1, <1>4, <2>1, <2>2, RestoredFresh DEF FreshInv
<1> QED BY <1>3, <1>4

\* Calls within the region, and back into the interpreter: the pc of the
\* region's caller is current when it is saved.
LEMMA NativeCallFresh ==
  ASSUME NEW bs, Good(bs), CodeFresh, NativeCall \/ NativeCallsBack
  PROVE  CodeFresh'
<1>1. DataOK /\ SegsOK BY DEF Good
<1>2. /\ stack \in Seq(FreshWord) /\ frames \in Seq(FreshSegment) /\ SavedFresh(nest)
      /\ Current(pc)
  BY DEF CodeFresh
<1>3. stack' = stack \o <<Zero, Data>> /\ Native /\ gc' = gc
  BY DEF NativeCall, NativeCallsBack, InRegion, Registers
<1>4. stack' \in Seq(FreshWord)
  <2>1. PICK z : z = Zero OBVIOUS
  <2>2. z \in FreshWord BY <1>1, <2>1, FreshWords
  <2>3. stack \o <<z, Data>> \in Seq(FreshWord) BY <1>1, <1>2, <2>2, PushedFresh
  <2> QED BY <1>3, <2>1, <2>3
<1>5. CASE NativeCall
  <2>1. pc' = pc /\ frames' = frames /\ nest' = nest BY <1>5 DEF NativeCall, Registers
  <2> QED BY <1>2, <1>3, <1>4, <2>1, StaysFresh
<1>6. CASE NativeCallsBack
  <2>1. PICK c \in Codes : pc' = Addr(c, 0) BY <1>6 DEF NativeCallsBack
  <2>2. frames' = Append(frames, seg) BY <1>6 DEF NativeCallsBack
  <2>3. PICK q : q = Len(nest) OBVIOUS
  <2>4. PICK r : r = [pc |-> pc, seg |-> seg, depth |-> Len(frames), handlerSp |-> handlerSp,
                      hdepth |-> Len(handlers), caller |-> Len(base)]
    OBVIOUS
  <2>5. nest' = [nest EXCEPT ![q].saved = r] BY <1>6, <2>3, <2>4 DEF NativeCallsBack
  <2>6. Current(pc') BY <1>1, <2>1, FreshWords
  <2>7. frames' \in Seq(FreshSegment)
    <3>1. seg \in FreshSegment BY <1>1, PlacesFresh
    <3> QED BY <1>2, <2>2, <3>1, Appended
  <2>8. SavedFresh(nest')
    <3>1. DataFacts /\ nest # <<>> /\ nest \in Seq(NestedFrame)
      BY <1>1, <1>3, DataKnown DEF DataOK, Native
    <3>2. q \in DOMAIN nest
      <4>1. Len(nest) # 0 BY <3>1
      <4>2. Len(nest) \in Nat /\ DOMAIN nest = 1..Len(nest) BY <3>1 DEF DataFacts
      <4> QED BY <2>3, <4>1, <4>2
    <3>3. nest[q] \in NestedFrame BY <3>1, <3>2, Elements
    <3>4. DOMAIN nest' = DOMAIN nest /\ \A j \in DOMAIN nest : j # q => nest'[j] = nest[j]
      BY <2>5
    <3>5. nest'[q].saved = r BY <2>5, <3>2, <3>3 DEF NestedFrame
    <3>6. r.pc = pc BY <2>4
    <3> QED BY <1>2, <3>4, <3>5, <3>6 DEF SavedFresh
  <2> QED BY <1>3, <1>4, <2>6, <2>7, <2>8, StaysFresh
<1> QED BY <1>5, <1>6

\* A native activation is left.
LEMMA NativeReturnFresh ==
  ASSUME NEW bs, Good(bs), PhaseOK, CodeFresh, NativeReturn \/ NativePropagate
  PROVE  CodeFresh'
<1>1. DataOK /\ BaseOK BY DEF Good
<1>2. /\ stack \in Seq(FreshWord) /\ frames \in Seq(FreshSegment) /\ SavedFresh(nest)
      /\ Current(pc)
  BY DEF CodeFresh
<1>3. pc' = pc /\ frames' = frames /\ gc' = gc BY DEF NativeReturn, NativePropagate, Registers
<1>4. Native BY DEF NativeReturn, InRegion, NativePropagate, PhaseOK
<1>5. /\ nest \in Seq(NestedFrame) /\ nest # <<>> BY <1>1, <1>4 DEF DataOK, Native
<1>6. SavedFresh(Front(nest)) BY <1>2, <1>5, NestFresh
<1>7. PICK y, f, a, x : y = Top.h /\ f = Floor(Len(base)) /\ a = Arity[Top.code] /\ x = Height
  OBVIOUS
<1>8. /\ y \in Nat /\ f \in Nat /\ a \in Nat /\ x \in Nat /\ y <= x /\ y = f + 2 + a
  BY <1>1, <1>7, TopKnown
<1>9. CASE NativeReturn
  <2>1. /\ Height = Top.h + 1 /\ stack' = Append(SubSeq(stack, 1, Height - 3 - a), Data)
        /\ nest' = Front(nest) \/ nest' = nest
    BY <1>7, <1>9 DEF NativeReturn
  <2>2. PICK m : m = Height - 3 - a OBVIOUS
  <2>3. m \in 0..Height
    <3>1. x = y + 1 /\ m = x - 3 - a BY <1>7, <2>1, <2>2
    <3>2. m \in 0..x BY ONLY <1>8, <3>1
    <3> QED BY <1>7, <3>2
  <2>4. stack' \in Seq(FreshWord) BY <1>1, <2>1, <2>2, <2>3, CutFresh
  <2>5. SavedFresh(nest') BY <1>2, <1>6, <2>1
  <2> QED BY <1>2, <1>3, <2>4, <2>5, StaysFresh
<1>10. CASE NativePropagate /\ AtRoot
  <2>1. PICK u : u = Last(nest).top OBVIOUS
  <2>2. stack' = SubSeq(stack, 1, u) /\ nest' = Front(nest)
    BY <1>10, <2>1 DEF NativePropagate
  <2>3. u \in 0..Height
    <3>1. Last(nest) \in NestedFrame
      <4>1. Len(nest) > 0 BY <1>5
      <4> QED BY <1>5, <4>1, Shortened
    <3>2. u \in Nat /\ y = u + 2 BY <1>7, <1>10, <2>1, <3>1 DEF NestedFrame, AtRoot
    <3>3. u \in 0..x BY ONLY <1>8, <3>2
    <3> QED BY <1>7, <3>3
  <2>4. stack' \in Seq(FreshWord) BY <1>1, <2>2, <2>3, CutFresh
  <2>5. SavedFresh(nest') BY <1>6, <2>2
  <2> QED BY <1>2, <1>3, <2>4, <2>5, StaysFresh
<1>11. CASE NativePropagate /\ ~AtRoot
  <2>1. stack' = stack /\ nest' = nest BY <1>11 DEF NativePropagate
  <2> QED BY <1>2, <1>3, <2>1, StaysFresh
<1> QED BY <1>9, <1>10, <1>11

\* Outside nested runs, nothing is saved in a Rust frame.
LEMMA CollectFresh ==
  ASSUME NEW bs, Good(bs), CodeFresh, "collect" \notin Nested,
         \/ TopOfStepCollect \/ RegionSafepoint
         \/ \E n \in 1..2 : Stepping /\ DataOnTop(n) /\ RtsCollects(n)
  PROVE  CodeFresh'
<1>1. DataOK BY DEF Good
<1>2. stack \in Seq(FreshWord) BY DEF CodeFresh
<1>3. MayCollect /\ nest' = nest BY DEF TopOfStepCollect, RegionSafepoint, RtsCollects
<1>4. \A j \in DOMAIN nest : nest[j].saved = None BY <1>3 DEF MayCollect, InNestedRun
<1>5. CASE TopOfStepCollect \/ RegionSafepoint
  <2>1. Collected(stack) BY <1>5 DEF TopOfStepCollect, RegionSafepoint
  <2> QED BY <1>2, <1>3, <1>4, <2>1, CollectionFresh
<1>6. CASE \E n \in 1..2 : Stepping /\ DataOnTop(n) /\ RtsCollects(n)
  <2>1. PICK n \in 1..2 : DataOnTop(n) /\ RtsCollects(n) BY <1>6
  <2>2. PICK s, m : s = Shuffled(n, 1) /\ m = Height - n OBVIOUS
  <2>3. Collected(s) BY <2>1, <2>2 DEF RtsCollects
  <2>4. n \in Nat /\ 1 \in Nat OBVIOUS
  <2>5. m \in 0..Height BY <2>1, <2>2, <2>4, OnTop
  <2>6. s \in Seq(FreshWord) BY <1>1, <2>2, <2>4, <2>5, ShuffledFresh
  <2> QED BY <1>3, <1>4, <2>3, <2>6, CollectionFresh
<1> QED BY <1>5, <1>6

LEMMA FreshInit == Init => FreshInv
<1> SUFFICES ASSUME Init PROVE FreshInv OBVIOUS
<1>1. PICK c \in Codes :
        /\ pc = [c |-> c, p |-> 0, at |-> 0]
        /\ stack = [i \in 1 .. Arity[c] |-> Data] \o <<Zero, Data>>
  BY DEF Init
<1>2. frames = <<>> /\ nest = <<>> /\ gc = 0 /\ status = "running" BY DEF Init
<1>3. DataOK BY <1>2, MachineInit DEF MachineInv, Live
<1>4. stack \in Seq(FreshWord)
  <2>1. PICK a, s, z : a = Arity[c] /\ s = [i \in 1..a |-> Data] /\ z = Zero OBVIOUS
  <2>2. a \in Nat BY <2>1, MachineConstants
  <2>3. Data \in FreshWord /\ z \in FreshWord BY <1>3, <2>1, FreshWords
  <2>4. s \in Seq(FreshWord) BY <2>1, <2>2, <2>3
  <2>5. s \o <<z, Data>> \in Seq(FreshWord) BY <1>3, <2>3, <2>4, PushedFresh
  <2> QED BY <1>1, <2>1, <2>5
<1>5. Current(pc) BY <1>1, <1>2 DEF Current
<1>6. frames \in Seq(FreshSegment) BY <1>2
<1>7. SavedFresh(nest) BY <1>2 DEF SavedFresh
<1> QED BY <1>4, <1>5, <1>6, <1>7 DEF FreshInv, CodeFresh

LEMMA FreshStep ==
  ASSUME "collect" \notin Nested, MachineInv, FreshInv, [Next]_vars
  PROVE  FreshInv'
<1>1. CASE UNCHANGED vars
  <2>1. stack' = stack /\ pc' = pc /\ frames' = frames /\ nest' = nest /\ gc' = gc /\ status' = status
    BY <1>1 DEF vars
  <2>2. Live' => Live BY <2>1 DEF Live
  <2>3. CodeFresh => CodeFresh'
    <3> SUFFICES ASSUME CodeFresh PROVE CodeFresh' OBVIOUS
    <3>1. /\ stack \in Seq(FreshWord) /\ frames \in Seq(FreshSegment) /\ SavedFresh(nest)
          /\ Current(pc)
      BY DEF CodeFresh
    <3> QED BY <2>1, <3>1, StaysFresh
  <2> QED BY <2>2, <2>3 DEF FreshInv
<1>2. CASE Next
  <2>1. Live BY <1>2, OnlyLive
  <2>2. DataOK /\ BaseOK /\ SegsOK /\ NestOK /\ PhaseOK BY <2>1 DEF MachineInv
  <2>3. PICK bs : BlocksOK(bs) /\ ChainsOK(bs) /\ RegisterOK(bs) BY <2>1 DEF MachineInv
  <2>4. Good(bs) BY <2>2, <2>3 DEF Good
  <2>5. RegisterOK(bs) /\ PhaseOK BY <2>2, <2>3
  <2>6. CodeFresh BY <2>1 DEF FreshInv
  <2>7. ASSUME CodeFresh' PROVE FreshInv' BY <2>7 DEF FreshInv
  <2>8. CASE \/ DataStep \/ Jump \/ PushReturnAddress \/ PushHandler
             \/ NativeStep \/ NativeRaise \/ NativeCallOverflows
    BY <2>4, <2>6, <2>7, <2>8, StepFresh
  <2>9. CASE TopOfStepCollect \/ RegionSafepoint BY <2>4, <2>6, <2>7, <2>9, CollectFresh
  <2>10. CASE SetHandler \/ DeleteHandler BY <2>4, <2>5, <2>6, <2>7, <2>10, HandlerFresh
  <2>11. CASE \/ RaiseEx \/ RaiseOverflow \/ DivByZero \/ StackOverflows \/ HeapExhausted
              \/ HookRaises
    BY <2>4, <2>5, <2>6, <2>11, ExceptionFresh
  <2>12. CASE Call BY <2>4, <2>6, <2>12, InterpretedCallFresh
  <2>13. CASE DoTailCall BY <2>4, <2>6, <2>7, <2>13, TailCallFresh
  <2>14. CASE DoReturn BY <2>4, <2>6, <2>14, ReturnFresh
  <2>15. CASE RtsCall
    <3>1. Stepping BY <2>15 DEF RtsCall
    <3>2. PICK n \in 1..2 : /\ DataOnTop(n)
                            /\ \/ (RtsReturns(n) \/ RtsFinishes(n)) /\ UNCHANGED pc
                               \/ RtsCollects(n)
                               \/ RtsRaises
                               \/ RtsCallsBack(n)
      BY <2>15 DEF RtsCall
    <3>3. CASE (RtsReturns(n) \/ RtsFinishes(n)) /\ UNCHANGED pc
      <4>1. \E i \in 1..2 : /\ Stepping /\ DataOnTop(i) /\ (RtsReturns(i) \/ RtsFinishes(i))
                            /\ UNCHANGED pc
        BY <3>1, <3>2, <3>3
      <4> QED BY <2>4, <2>6, <2>7, <4>1, StepFresh
    <3>4. CASE RtsCollects(n)
      <4>1. \E i \in 1..2 : Stepping /\ DataOnTop(i) /\ RtsCollects(i) BY <3>1, <3>2, <3>4
      <4> QED BY <2>4, <2>6, <2>7, <4>1, CollectFresh
    <3>5. CASE RtsRaises BY <2>4, <2>5, <2>6, <3>1, <3>5, ExceptionFresh
    <3>6. CASE RtsCallsBack(n)
      <4>1. \E i \in 1..2 : Stepping /\ DataOnTop(i) /\ RtsCallsBack(i) BY <3>1, <3>2, <3>6
      <4> QED BY <2>4, <2>6, <4>1, InterpretedCallFresh
    <3> QED BY <3>2, <3>3, <3>4, <3>5, <3>6
  <2>16. CASE Halt BY <2>4, <2>6, <2>16, HaltFresh
  <2>17. CASE NativeCall \/ NativeCallsBack BY <2>4, <2>6, <2>7, <2>17, NativeCallFresh
  <2>18. CASE NativeReturn \/ NativePropagate
    BY <2>4, <2>5, <2>6, <2>7, <2>18, NativeReturnFresh
  <2> QED BY <1>2, <2>8, <2>9, <2>10, <2>11, <2>12, <2>13, <2>14, <2>15, <2>16, <2>17, <2>18
          DEF Next
<1> QED BY <1>1, <1>2

\* The bounds of the running code are where pc is, and those of a handler where
\* its block's entry is.
LEMMA FreshFollows ==
  ASSUME MachineInv, FreshInv
  PROVE  NoStaleCode
<1> SUFFICES ASSUME status = "running"
             PROVE  /\ Current(pc) /\ Current(seg)
                    /\ \A i \in DOMAIN stack : stack[i].k = "pc" => Current(stack[i].pc)
                    /\ \A i \in DOMAIN frames : Current(frames[i])
                    /\ \A i \in DOMAIN handlers : Current(handlers[i])
  BY DEF NoStaleCode
<1>1. Live BY DEF Live
<1>2. DataOK /\ SegsOK /\ CodeFresh BY <1>1 DEF MachineInv, FreshInv
<1>3. PICK bs : BlocksOK(bs) BY <1>1 DEF MachineInv
<1>4. stack \in Seq(FreshWord) /\ frames \in Seq(FreshSegment) /\ Current(pc)
  BY <1>2 DEF CodeFresh
<1>5. Current(seg)
  <2>1. seg \in FreshSegment BY <1>2, PlacesFresh
  <2> QED BY <2>1 DEF FreshSegment
<1>6. ASSUME NEW i \in DOMAIN stack, stack[i].k = "pc" PROVE Current(stack[i].pc)
  <2>1. stack[i] \in FreshWord BY <1>4, Elements
  <2> QED BY <1>6, <2>1 DEF FreshWord
<1>7. ASSUME NEW i \in DOMAIN frames PROVE Current(frames[i])
  <2>1. frames[i] \in FreshSegment BY <1>4, Elements
  <2> QED BY <2>1 DEF FreshSegment
<1>8. ASSUME NEW i \in DOMAIN handlers PROVE Current(handlers[i])
  <2>1. i \in DOMAIN bs
    <3>1. Len(handlers) = Len(bs) /\ bs \in Seq([h : Nat, own : Nat]) BY <1>3 DEF BlocksOK
    <3>2. DOMAIN handlers = 1..Len(handlers) BY <1>2, DataKnown DEF DataFacts
    <3> QED BY <3>1, <3>2, Elements
  <2>2. PICK x : x = bs[i] OBVIOUS
  <2>3. BlockOK(x, i) BY <1>3, <2>1, <2>2 DEF BlocksOK
  <2>4. /\ x.h \in DOMAIN stack /\ stack[x.h].k = "pc"
        /\ SegOf(stack[x.h].pc) = [c |-> handlers[i].c, at |-> handlers[i].at]
    BY <2>3 DEF BlockOK
  <2>5. Current(stack[x.h].pc) BY <1>6, <2>4
  <2> QED BY <2>4, <2>5 DEF Current, SegOf
<1> QED BY <1>4, <1>5, <1>6, <1>7, <1>8

\* Whatever will be resumed at or run in has moved with its code, when no
\* collection happens while a region's callee is interpreted: pc, the return
\* addresses, the handler entries and the bounds on both side stacks; also what
\* region_interp_call gives back (ThreadRoots, region_interp_call).
THEOREM NoStaleCodeAlways == "collect" \notin Nested => (Spec => []NoStaleCode)
<1> SUFFICES ASSUME "collect" \notin Nested PROVE Spec => []NoStaleCode OBVIOUS
<1>1. Init => FreshInv BY FreshInit
<1>2. MachineInv /\ FreshInv /\ [Next]_vars => FreshInv' BY FreshStep
<1>3. MachineInv /\ FreshInv => NoStaleCode BY FreshFollows
<1> QED BY <1>1, <1>2, <1>3, Invariance, PTL DEF Spec
=============================================================================
