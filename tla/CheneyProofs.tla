---------------------------- MODULE CheneyProofs ----------------------------
(***************************************************************************)
(* For every finite from-space, every heap and every order of the root     *)
(* visitor: there is one copy of an object, the copies are faithful, there *)
(* is room for them, the collection is a trace, and every weak slot gets   *)
(* its verdict.  The invariants build on each other:                       *)
(*   - CopyInv: types, and tombstones name copies;                         *)
(*   - WordsInv: the words of copies and of permanent objects against      *)
(*     those of the heap before the collection, behind and ahead of the    *)
(*     scan, and the words of to-space in use;                             *)
(*   - ListInv: what the trace has reached, and that the list of weak      *)
(*     objects has each that it met, once and untouched;                   *)
(*   - JudgeInv: in the fixup, the verdicts behind it, the words ahead of  *)
(*     it, and the cells, which tell whether their ref lives whatever the  *)
(*     fixup has made of them.                                             *)
(* What the actions share is that they store into one slot (StoreTypes,    *)
(* StoreWords), perhaps after they appended a copy (CopyOutStep).          *)
(***************************************************************************)
EXTENDS Cheney, FiniteSetTheorems, TLAPS

Memory == [From \cup Permanent -> Seq(Addresses)]
Copies == [of : From, words : Seq(Addresses)]

CopyInv == TypeOK /\ OneCopyEach

\* A sequence keeps its type and its domain when one element is replaced.
LEMMA SeqElement ==
  ASSUME NEW S, NEW s \in Seq(S), NEW i \in DOMAIN s
  PROVE  i \in Nat /\ s[i] \in S
<1>1. DOMAIN s = 1..Len(s) /\ Len(s) \in Nat OBVIOUS
<1> QED BY <1>1

\* One element of a sequence replaced.
LEMMA SeqReplace ==
  ASSUME NEW S, NEW s \in Seq(S), NEW i, NEW v \in S
  PROVE  LET r == [s EXCEPT ![i] = v] IN
         r \in Seq(S) /\ DOMAIN r = DOMAIN s /\ Len(r) = Len(s)
<1> DEFINE r == [s EXCEPT ![i] = v]
<1>1. Len(s) \in Nat /\ s \in [1..Len(s) -> S] OBVIOUS
<1>2. r \in [1..Len(s) -> S] BY <1>1
<1>3. r \in Seq(S)
  <2> HIDE DEF r
  <2>1. \A n \in Nat : [1..n -> S] \subseteq Seq(S) OBVIOUS
  <2> QED BY <1>1, <1>2, <2>1
<1>4. DOMAIN r = 1..Len(s) BY <1>2
<1>5. Len(r) = Len(s)
  <2> HIDE DEF r
  <2> QED BY <1>1, <1>3, <1>4
<1> QED BY <1>1, <1>3, <1>4, <1>5

\* The object that a phase is at is permanent, or a copy.
LEMMA ObjectKnown ==
  ASSUME TypeOK, phase \in Tracing \cup {"weak"}, at.obj <= Count
  PROVE  object \in Permanent \cup DOMAIN to
<1>1. at.obj \in 1..Count BY DEF TypeOK, Count
<1>2. CASE phase = "roots"
  BY <1>1, <1>2, CheneyAssumption DEF object, Nth, Count
<1>3. CASE phase = "scan"
  BY <1>1, <1>3 DEF object, Nth, Count, TypeOK
<1>4. CASE phase = "weak"
  BY <1>1, <1>4 DEF object, Nth, Count, TypeOK
<1> QED BY <1>2, <1>3, <1>4 DEF Tracing

\* The word in the next slot is an address.
LEMMA SlotKnown ==
  ASSUME TypeOK, phase \in Tracing \cup {"weak"}, HasSlot({phase})
  PROVE  Slot \in Addresses
<1>1. object \in Permanent \cup DOMAIN to BY ObjectKnown DEF HasSlot
<1>2. Words(object) \in Seq(Addresses)
  <2>1. CASE object \in DOMAIN to
    <3>1. object \in Nat /\ to[object] \in [of : From, words : Seq(Addresses)]
      BY <2>1, SeqElement DEF TypeOK
    <3> QED BY <3>1 DEF Words
  <2>2. CASE object \in Permanent
    <3>1. object \notin Nat BY <2>2, CheneyAssumption
    <3> QED BY <2>2, <3>1 DEF Words, TypeOK
  <2> QED BY <1>1, <2>1, <2>2
<1>3. at.slot \in 1..Len(Words(object)) BY <1>2 DEF HasSlot, TypeOK
<1> QED BY <1>2, <1>3 DEF Slot

\* Storing an address into a slot changes no type and no copy's original.
LEMMA StoreTypes ==
  ASSUME NEW m \in Memory, NEW t \in Seq(Copies), NEW v \in Addresses,
         object \in Permanent \cup DOMAIN t, Store(m, t, v)
  PROVE  /\ mem' \in Memory /\ to' \in Seq(Copies)
         /\ Len(to') = Len(t)
         /\ \A c \in DOMAIN t : to'[c].of = t[c].of
<1>1. CASE object \in Nat
  <2>1. object \in 1..Len(t) BY <1>1, CheneyAssumption
  <2> DEFINE r == [t[object] EXCEPT !.words[at.slot] = v]
  <2>2. t[object] \in Copies BY <2>1
  <2>3. [t[object].words EXCEPT ![at.slot] = v] \in Seq(Addresses)
    BY <2>2, SeqReplace DEF Copies
  <2>4. r = [of |-> t[object].of, words |-> [t[object].words EXCEPT ![at.slot] = v]]
    BY <2>2 DEF Copies
  <2>5. r \in Copies /\ r.of = t[object].of BY <2>2, <2>3, <2>4 DEF Copies
  <2>6. to' = [t EXCEPT ![object] = r] BY <1>1 DEF Store
  <2>7. mem' = m BY <1>1 DEF Store
  <2> HIDE DEF r
  <2> QED BY <2>1, <2>5, <2>6, <2>7
<1>2. CASE object \notin Nat
  <2>1. object \in Permanent BY <1>2
  <2>2. mem' = [m EXCEPT ![object][at.slot] = v] /\ to' = t BY <1>2 DEF Store
  <2>3. [m[object] EXCEPT ![at.slot] = v] \in Seq(Addresses) BY <2>1, SeqReplace DEF Memory
  <2> QED BY <2>1, <2>2, <2>3 DEF Memory
<1> QED BY <1>1, <1>2

\* Where the steps of a phase leave the cursor.
LEMMA CursorKnown ==
  ASSUME TypeOK
  PROVE  /\ NextSlot \in [obj : Nat \ {0}, slot : Nat \ {0}] /\ NextSlot.obj = at.obj
         /\ [obj |-> at.obj + 1, slot |-> 1] \in [obj : Nat \ {0}, slot : Nat \ {0}]
         /\ First \in [obj : Nat \ {0}, slot : Nat \ {0}] /\ First.obj = 1
         /\ Count \in Nat
<1>1. Count \in Nat
  BY CheneyAssumption DEF TypeOK, Count
<1>2. NextSlot = [obj |-> at.obj, slot |-> at.slot + 1]
  <2>1. at \in [obj : Nat \ {0}, slot : Nat \ {0}] BY DEF TypeOK
  <2> QED BY <2>1 DEF NextSlot
<1>3. at.obj \in Nat \ {0} /\ at.slot \in Nat \ {0} BY DEF TypeOK
<1> QED BY <1>1, <1>2, <1>3 DEF First

\* A list of weak objects stays one when to-space grows.
LEMMA WeakGrows ==
  ASSUME TypeOK, NEW n \in Nat, Len(to) <= n
  PROVE  weak \in Seq((Permanent \cap Weak) \cup 1..n)
<1>1. DOMAIN to = 1..Len(to) /\ Len(to) \in Nat BY DEF TypeOK
<1>2. (Permanent \cap Weak) \cup DOMAIN to \subseteq (Permanent \cap Weak) \cup 1..n
  BY <1>1
<1>3. weak \in Seq((Permanent \cap Weak) \cup DOMAIN to) BY DEF TypeOK
<1> HIDE DEF TypeOK
<1> QED BY <1>2, <1>3

\* A step that only stores an address into the next slot.
LEMMA StoreStep ==
  ASSUME CopyInv, phase \in Tracing \cup {"weak"}, HasSlot({phase}),
         NEW m \in Memory, NEW v \in Addresses, Store(m, to, v),
         at' = NextSlot, UNCHANGED <<heap, tombstone, to_used, weak, phase, traced>>
  PROVE  CopyInv'
<1> USE DEF CopyInv
<1>1. object \in Permanent \cup DOMAIN to BY ObjectKnown DEF HasSlot
<1>2. to \in Seq(Copies) BY DEF TypeOK, Copies
<1>3. /\ mem' \in Memory /\ to' \in Seq(Copies) /\ Len(to') = Len(to)
      /\ \A c \in DOMAIN to : to'[c].of = to[c].of
  BY <1>1, <1>2, StoreTypes
<1>4. DOMAIN to' = DOMAIN to BY <1>2, <1>3
<1>5. Count' = Count BY <1>3 DEF Count
<1>6. TypeOK'
  <2>1. at' \in [obj : Nat \ {0}, slot : Nat \ {0}] /\ at'.obj <= Count' + 1
    BY <1>5, CursorKnown DEF HasSlot
  <2> QED BY <2>1, <1>3, <1>4 DEF TypeOK, Memory, Copies
<1>7. OneCopyEach'
  <2>1. \A c \in DOMAIN to : tombstone[to[c].of] = c BY DEF OneCopyEach
  <2>2. \A o \in From : tombstone[o] # 0 => to[tombstone[o]].of = o
    BY DEF OneCopyEach, Forwarded
  <2>3. \A o \in From : tombstone[o] # 0 => tombstone[o] \in DOMAIN to
    BY <1>2 DEF TypeOK
  <2> QED BY <2>1, <2>2, <2>3, <1>3, <1>4 DEF OneCopyEach, Forwarded
<1> QED BY <1>6, <1>7
\* A step that appends a copy, with its tombstone, and stores its address; or
\* that finds to-space full.
LEMMA CopyOutStep ==
  ASSUME CopyInv, phase \in Tracing \cup {"weak"}, HasSlot({phase}),
         NEW o \in From, ~Forwarded(o), NEW words \in Seq(Addresses),
         CopyOut(o, words), UNCHANGED <<heap, weak, traced>>
  PROVE  CopyInv'
<1> USE DEF CopyInv
<1> DEFINE n == Len(to) + 1
           copy == [of |-> o, words |-> words]
           used == to_used + 1 + Len(words)
<1>1. CASE used > Capacity
  <2>1. phase' = "overflow" /\ UNCHANGED <<mem, to, to_used, tombstone, at>>
    BY <1>1 DEF CopyOut
  <2>2. OneCopyEach' BY <2>1 DEF OneCopyEach, Forwarded
  <2> QED BY <2>1, <2>2 DEF TypeOK, Tracing
<1>2. CASE ~(used > Capacity)
  <2>1. /\ Store(mem, Append(to, copy), n)
        /\ tombstone' = [tombstone EXCEPT ![o] = n]
        /\ to_used' = used /\ at' = NextSlot /\ phase' = phase
    BY <1>2 DEF CopyOut
  <2>2. copy \in Copies /\ copy.of = o BY DEF Copies
  <2>3. to \in Seq(Copies) BY DEF TypeOK, Copies
  <2>4. n \in Nat /\ n = Len(to) + 1 /\ Len(to) \in Nat BY <2>3
  <2> DEFINE grown == Append(to, copy)
  <2>5. /\ grown \in Seq(Copies) /\ Len(grown) = n /\ DOMAIN grown = 1..n
        /\ grown[n].of = o /\ \A c \in 1..Len(to) : grown[c] = to[c]
    <3> HIDE DEF copy
    <3> QED BY <2>2, <2>3, <2>4
  <2> HIDE DEF grown, copy, n
  <2>6. object \in Permanent \cup DOMAIN grown
    <3>1. DOMAIN to \subseteq 1..n BY <2>3, <2>4
    <3> QED BY <3>1, <2>5, ObjectKnown DEF HasSlot
  <2>7. mem \in Memory /\ n \in Addresses BY <2>4 DEF TypeOK, Memory, Addresses
  <2>8. Store(mem, grown, n) BY <2>1 DEF grown
  <2>9. /\ mem' \in Memory /\ to' \in Seq(Copies) /\ Len(to') = n
        /\ \A c \in 1..n : to'[c].of = grown[c].of
    BY <2>5, <2>6, <2>7, <2>8, StoreTypes
  <2>10. DOMAIN to' = 1..n BY <2>9
  <2>11. tombstone \in [From -> 0..Len(to)] BY DEF TypeOK
  <2>12. tombstone' \in [From -> 0..n] BY <2>1, <2>4, <2>11
  <2>13. TypeOK'
    <3>1. weak' \in Seq((Permanent \cap Weak) \cup DOMAIN to')
      BY <2>4, <2>10, WeakGrows
    <3>2. used \in Nat BY DEF TypeOK
    <3>3. Count \in Nat /\ Count' \in Nat /\ Count <= Count'
      BY <2>1, <2>4, <2>9, CursorKnown DEF Count
    <3>4. at' \in [obj : Nat \ {0}, slot : Nat \ {0}] /\ at'.obj <= Count' + 1
      <4>1. NextSlot \in [obj : Nat \ {0}, slot : Nat \ {0}] /\ NextSlot.obj <= Count
        BY CursorKnown DEF HasSlot
      <4> QED BY <2>1, <3>3, <4>1
    <3>5. traced' \in 0..Len(to') BY <2>4, <2>9 DEF TypeOK
    <3> HIDE DEF used
    <3> QED BY <2>1, <2>9, <2>12, <3>1, <3>2, <3>4, <3>5 DEF TypeOK, Memory, Copies
  <2>14. OneCopyEach'
    <3>1. \A c \in 1..Len(to) : to[c].of \in From /\ tombstone[to[c].of] = c
      <4>1. \A c \in 1..Len(to) : to[c] \in Copies BY <2>3
      <4>2. \A c \in 1..Len(to) : tombstone[to[c].of] = c BY <2>3 DEF OneCopyEach
      <4> QED BY <4>1, <4>2 DEF Copies
    <3>2. tombstone[o] = 0 BY DEF Forwarded
    <3>3. \A c \in 1..Len(to) : to[c].of # o /\ to'[c].of = to[c].of
      BY <2>4, <2>5, <2>9, <3>1, <3>2
    <3>4. to'[n].of = o BY <2>4, <2>5, <2>9
    <3>5. \A c \in 1..n : tombstone'[to'[c].of] = c
      BY <2>1, <2>4, <2>11, <3>1, <3>3, <3>4
    <3>6. \A p \in From : tombstone[p] # 0 => tombstone[p] \in 1..Len(to) /\ to[tombstone[p]].of = p
      BY <2>4, <2>11 DEF OneCopyEach, Forwarded
    <3>7. \A p \in From : tombstone'[p] # 0 => to'[tombstone'[p]].of = p
      BY <2>1, <2>4, <2>11, <3>3, <3>4, <3>6
    <3> QED BY <2>10, <3>5, <3>7 DEF OneCopyEach, Forwarded
  <2> QED BY <2>13, <2>14
<1> QED BY <1>1, <1>2

\* Tombstones, and what an address becomes with them, are addresses.
LEMMA TombstoneKnown ==
  ASSUME TypeOK, NEW a, Forwarded(a)
  PROVE  tombstone[a] \in Addresses
<1>1. a \in From BY DEF Forwarded
<1>2. Len(to) \in Nat /\ tombstone[a] \in 0..Len(to) BY <1>1 DEF TypeOK
<1> QED BY <1>2 DEF Addresses

\* What a slot is forwarded to is again an address.
LEMMA NewKnown ==
  ASSUME TypeOK, NEW a \in Addresses
  PROVE  New(a) \in Addresses
<1>1. CASE a \in From
  <2>1. Len(to) \in Nat /\ tombstone[a] \in 0..Len(to) BY <1>1 DEF TypeOK
  <2> QED BY <1>1, <2>1 DEF New, Addresses
<1> QED BY <1>1 DEF New

\* The first word of an object is overwritten with an address; an object
\* without words stays as it is.
LEMMA MemoryReplace ==
  ASSUME TypeOK, NEW o \in From \cup Permanent, NEW v, v \in Addresses \/ mem[o] = <<>>
  PROVE  [mem EXCEPT ![o][1] = v] \in Memory
<1>1. mem \in Memory /\ mem[o] \in Seq(Addresses) BY DEF TypeOK, Memory
<1>2. [mem[o] EXCEPT ![1] = v] \in Seq(Addresses)
  <2>1. CASE v \in Addresses BY <1>1, <2>1, SeqReplace
  <2>2. CASE mem[o] = <<>>
    <3>1. 1 \notin DOMAIN mem[o] BY <2>2
    <3>2. [mem[o] EXCEPT ![1] = v] = mem[o] BY <1>1, <3>1
    <3> QED BY <1>1, <3>2
  <2> QED BY <2>1, <2>2
<1> QED BY <1>1, <1>2 DEF Memory

\* A step that moves the cursor within the list and perhaps writes into an
\* object that is no copy.
LEMMA CursorStep ==
  ASSUME CopyInv, UNCHANGED <<heap, tombstone, to, to_used, weak, phase, traced>>,
         mem' \in Memory, at' \in [obj : Nat \ {0}, slot : Nat \ {0}],
         phase \in Tracing \cup {"weak"} => at'.obj <= Count + 1
  PROVE  CopyInv'
<1>1. Count' = Count BY DEF Count
<1>2. TypeOK' BY <1>1 DEF CopyInv, TypeOK, Memory
<1>3. OneCopyEach' BY DEF CopyInv, OneCopyEach, Forwarded
<1> QED BY <1>2, <1>3 DEF CopyInv

\* Every step of the collection.
LEMMA CopyInvStep ==
  ASSUME CopyInv, Next
  PROVE  CopyInv'
<1> USE DEF CopyInv
<1>1. CASE RegisterWeak
  <2>1. object \in (Permanent \cap Weak) \cup DOMAIN to
    BY <1>1, ObjectKnown, CheneyAssumption DEF RegisterWeak, IsWeak
  <2>2. weak' \in Seq((Permanent \cap Weak) \cup DOMAIN to)
    BY <1>1, <2>1 DEF RegisterWeak, TypeOK
  <2>3. Count' = Count /\ Count \in Nat
    BY <1>1, CursorKnown DEF RegisterWeak, Count, Tracing
  <2>4. at' \in [obj : Nat \ {0}, slot : Nat \ {0}] /\ at'.obj <= Count + 1
    BY <1>1, <2>3, CursorKnown DEF RegisterWeak, TypeOK
  <2>5. TypeOK' BY <1>1, <2>2, <2>3, <2>4 DEF RegisterWeak, TypeOK
  <2>6. OneCopyEach' BY <1>1 DEF RegisterWeak, OneCopyEach, Forwarded
  <2> QED BY <2>5, <2>6
<1>2. ASSUME ForwardNothing \/ FixNone PROVE CopyInv'
  <2>1. at' = NextSlot /\ HasSlot({phase}) BY <1>2
    DEF ForwardNothing, FixNone, MayTrace, MayFix, HasSlot
  <2>2. at' \in [obj : Nat \ {0}, slot : Nat \ {0}] /\ at'.obj <= Count + 1
    BY <2>1, CursorKnown DEF HasSlot
  <2> QED BY <1>2, <2>2, CursorStep DEF ForwardNothing, FixNone, TypeOK, Memory
<1>3. CASE ForwardKnown
  <2>1. HasSlot({phase}) /\ phase \in Tracing
    BY <1>3 DEF ForwardKnown, MayTrace, HasSlot
  <2>2. mem \in Memory /\ tombstone[Slot] \in Addresses
    BY <1>3, TombstoneKnown DEF ForwardKnown, TypeOK, Memory
  <2> QED BY <1>3, <2>1, <2>2, StoreStep DEF ForwardKnown
<1>4. CASE ForwardCopy
  <2>1. HasSlot({phase}) /\ phase \in Tracing
    BY <1>4 DEF ForwardCopy, MayTrace, HasSlot
  <2>2. Slot \in From /\ mem[Slot] \in Seq(Addresses) BY <1>4 DEF ForwardCopy, TypeOK
  <2> QED BY <1>4, <2>1, <2>2, CopyOutStep DEF ForwardCopy
<1>5. CASE NextObject
  <2>1. at' \in [obj : Nat \ {0}, slot : Nat \ {0}] /\ at'.obj <= Count + 1
    BY <1>5, CursorKnown DEF NextObject
  <2> QED BY <1>5, <2>1, CursorStep DEF NextObject, TypeOK, Memory
<1>6. CASE NextPhase
  <2>1. at' \in [obj : Nat \ {0}, slot : Nat \ {0}] /\ at'.obj = 1
    BY <1>6, CursorKnown DEF NextPhase
  <2>2. Count' \in Nat
    BY <1>6, CheneyAssumption DEF NextPhase, Count, TypeOK
  <2>3. phase' \in {"scan", "weak", "done"} BY <1>6 DEF NextPhase
  <2>4. traced' \in 0..Len(to') BY <1>6 DEF NextPhase, TypeOK
  <2>5. TypeOK' BY SMTT(40), <1>6, <2>1, <2>2, <2>3, <2>4 DEF NextPhase, TypeOK
  <2>6. OneCopyEach' BY <1>6 DEF NextPhase, OneCopyEach, Forwarded
  <2> QED BY <2>5, <2>6
<1>7. CASE FixCopied
  <2>1. HasSlot({phase}) /\ phase = "weak" BY <1>7 DEF FixCopied, MayFix, HasSlot
  <2>2. mem \in Memory /\ tombstone[Slot] \in Addresses
    BY <1>7, TombstoneKnown DEF FixCopied, TypeOK, Memory
  <2> QED BY <1>7, <2>1, <2>2, StoreStep DEF FixCopied
<1>8. CASE FixDemote
  <2>1. HasSlot({phase}) /\ phase = "weak" BY <1>8 DEF FixDemote, MayFix, HasSlot
  <2>2. mem \in Memory /\ Null \in Addresses BY DEF TypeOK, Memory, Addresses
  <2> QED BY <1>8, <2>1, <2>2, StoreStep DEF FixDemote
<1>9. CASE FixDead
  <2>1. HasSlot({phase}) /\ phase = "weak" BY <1>9 DEF FixDead, MayFix, HasSlot
  <2>2. Null \in Addresses BY DEF Addresses
  <2>3. Slot \in From \cup Permanent BY <1>9 DEF FixDead, Cell
  <2>4. [mem EXCEPT ![Slot][1] = Null] \in Memory BY <2>2, <2>3, MemoryReplace
  <2> QED BY <1>9, <2>1, <2>2, <2>4, StoreStep DEF FixDead
<1>10. CASE FixPermanent
  <2>1. HasSlot({phase}) /\ phase = "weak" BY <1>10 DEF FixPermanent, MayFix, HasSlot
  <2>2. Slot \in Permanent /\ mem' = [mem EXCEPT ![Slot][1] = New(Content)]
    BY <1>10 DEF FixPermanent
  <2>3. New(Content) \in Addresses \/ mem[Slot] = <<>>
    <3>1. mem[Slot] \in Seq(Addresses) BY <2>2 DEF TypeOK
    <3>2. mem[Slot] = <<>> \/ mem[Slot][1] \in Addresses BY <3>1
    <3> QED BY <3>2, NewKnown DEF Content
  <2>4. mem' \in Memory BY <2>2, <2>3, MemoryReplace
  <2>5. at' = NextSlot BY <1>10 DEF FixPermanent
  <2>6. at' \in [obj : Nat \ {0}, slot : Nat \ {0}] /\ at'.obj <= Count + 1
    BY <2>1, <2>5, CursorKnown DEF HasSlot
  <2> QED BY <1>10, <2>4, <2>6, CursorStep DEF FixPermanent
<1>11. CASE FixSurvivor
  <2>1. HasSlot({phase}) /\ phase = "weak" BY <1>11 DEF FixSurvivor, MayFix, HasSlot
  <2>2. Slot \in From /\ Slot \notin Permanent
    BY <1>11, CheneyAssumption DEF FixSurvivor
  <2>3. ~Forwarded(Slot) /\ Len(mem[Slot]) = 1 BY <1>11, <2>2 DEF FixSurvivor, Cell
  <2>4. mem[Slot] \in Seq(Addresses) BY <2>2 DEF TypeOK
  <2>5. New(Content) \in Addresses BY <2>3, <2>4, NewKnown DEF Content
  <2>6. <<New(Content)>> \in Seq(Addresses) BY <2>5
  <2> QED BY <1>11, <2>1, <2>2, <2>3, <2>6, CopyOutStep DEF FixSurvivor
<1> QED
  BY <1>1, <1>2, <1>3, <1>4, <1>5, <1>6, <1>7, <1>8, <1>9, <1>10, <1>11 DEF Next

\* The collection begins without copies.
LEMMA CopyInvInit == Init => CopyInv
<1> SUFFICES ASSUME Init PROVE CopyInv OBVIOUS
<1>1. heap \in [From \cup Permanent -> Seq(Addresses)]
  <2>1. heap \in [From \cup Permanent -> Seq(From \cup Permanent \cup {Null})]
    BY CheneyAssumption DEF Init
  <2>2. Seq(From \cup Permanent \cup {Null}) \subseteq Seq(Addresses) BY DEF Addresses
  <2> QED BY <2>1, <2>2
<1>2. Count \in Nat BY CheneyAssumption DEF Init, Count
<1>3. TypeOK BY <1>1, <1>2 DEF Init, TypeOK, First
<1>4. OneCopyEach BY DEF Init, OneCopyEach, Forwarded
<1> QED BY <1>3, <1>4 DEF CopyInv

\* The invariant of the collection, over all its phases.
LEMMA CopyInvAlways == Spec => []CopyInv
<1>1. CopyInv /\ UNCHANGED vars => CopyInv'
  BY DEF vars, CopyInv, TypeOK, OneCopyEach, Forwarded, Count
<1>2. CopyInv /\ [Next]_vars => CopyInv' BY <1>1, CopyInvStep
<1> QED BY <1>2, CopyInvInit, PTL DEF Spec

\* Type correctness of the collection (gc.rs, Collector).
THEOREM CollectionTypes == Spec => []TypeOK
<1>1. CopyInv => TypeOK BY DEF CopyInv
<1> QED BY <1>1, CopyInvAlways, PTL

\* forward_object and weak_fixup make one copy of an object at most, and the
\* tombstone of the object names it.
THEOREM OneCopyAlways == Spec => []OneCopyEach
<1>1. CopyInv => OneCopyEach BY DEF CopyInv
<1> QED BY <1>1, CopyInvAlways, PTL

-----------------------------------------------------------------------------
(* Room in to-space *)

\* The words of some objects are finitely many.
LEMMA FootprintFinite ==
  ASSUME TypeOK, NEW S \in SUBSET From
  PROVE  IsFiniteSet(Footprint(S))
<1> DEFINE part == [o \in S |-> {o} \X (0..Len(heap[o]))]
           Parts == {part[o] : o \in S}
<1>1. IsFiniteSet(S) BY CheneyAssumption, FS_Subset
<1>2. \A T \in Parts : IsFiniteSet(T)
  <2> SUFFICES ASSUME NEW o \in S PROVE IsFiniteSet({o} \X (0..Len(heap[o]))) OBVIOUS
  <2>1. IsFiniteSet({o}) BY FS_Singleton
  <2>2. Len(heap[o]) \in Int BY DEF TypeOK
  <2>3. IsFiniteSet(0..Len(heap[o])) BY <2>2, FS_Interval
  <2> QED BY <2>1, <2>3, FS_Product
<1>3. IsFiniteSet(Parts)
  <2>1. part \in Surjection(S, Parts) BY DEF Surjection
  <2> HIDE DEF part, Parts
  <2> QED BY <1>1, <2>1, FS_Surjection
<1>4. Footprint(S) = UNION Parts BY DEF Footprint
<1> HIDE DEF Parts
<1> QED BY <1>2, <1>3, <1>4, FS_UNION

\* One object more takes its header and its words more.
LEMMA FootprintGrows ==
  ASSUME TypeOK, NEW S \in SUBSET From, NEW o \in From \ S
  PROVE  Cardinality(Footprint(S \cup {o})) = Cardinality(Footprint(S)) + 1 + Len(heap[o])
<1> DEFINE own == {o} \X (0..Len(heap[o]))
<1>1. Len(heap[o]) \in Nat BY DEF TypeOK
<1>2. IsFiniteSet(0..Len(heap[o])) /\ Cardinality(0..Len(heap[o])) = Len(heap[o]) + 1
  BY SMTT(40), <1>1, FS_Interval
<1>3. IsFiniteSet({o}) /\ Cardinality({o}) = 1 BY FS_Singleton
<1>4. IsFiniteSet(own) /\ Cardinality(own) = Len(heap[o]) + 1
  <2>1. IsFiniteSet(own) /\ Cardinality(own) = 1 * (Len(heap[o]) + 1)
    BY <1>2, <1>3, FS_Product
  <2> QED BY <2>1, <1>1
<1>5. Footprint(S \cup {o}) = Footprint(S) \cup own BY DEF Footprint
<1>6. Footprint(S) \cap own = {} BY DEF Footprint
<1>7. IsFiniteSet(Footprint(S)) BY FootprintFinite
<1>8. Cardinality(Footprint(S)) \in Nat BY <1>7, FS_CardinalityType
<1> HIDE DEF own
<1> DEFINE fs == Footprint(S)
<1> HIDE DEF fs
<1>9. Cardinality(fs \cup own) = Cardinality(fs) + Cardinality(own) - Cardinality(fs \cap own)
  BY <1>4, <1>7, FS_Union DEF fs
<1>10. Cardinality(fs \cap own) = 0 BY <1>6, FS_EmptySet DEF fs
<1>11. Cardinality(fs \cup own) = Cardinality(fs) + 1 + Len(heap[o])
  BY <1>1, <1>4, <1>8, <1>9, <1>10 DEF fs
<1> QED BY <1>5, <1>11 DEF fs

\* Objects in from-space fit into to-space together.
LEMMA FootprintFits ==
  ASSUME TypeOK, NEW S \in SUBSET From
  PROVE  Cardinality(Footprint(S)) <= Capacity
<1>1. Footprint(S) \subseteq Footprint(From) BY DEF Footprint
<1>2. IsFiniteSet(Footprint(From)) BY FootprintFinite
<1> QED BY <1>1, <1>2, FS_Subset DEF Capacity

-----------------------------------------------------------------------------
(* The words of the copies *)

\* An object and its copy keep their length.
Lengths ==
  /\ \A o \in From \cup Permanent : Len(mem[o]) = Len(heap[o])
  /\ \A c \in DOMAIN to : Len(to[c].words) = Len(heap[to[c].of])

\* to_used counts the words of the objects copied, and there was room for them.
Copied == {to[c].of : c \in DOMAIN to}
Accounted == to_used = Cardinality(Footprint(Copied)) /\ phase # "overflow"

\* What the fixup goes through are weak objects.
WeakListed == \A k \in DOMAIN weak : IsWeak(weak[k])

\* From-space is left as it was, up to the cells that the fixup overwrites.
FromKept ==
  \A o \in From : mem[o] = heap[o] \/ (phase \in {"weak", "done"} /\ mem[o] = <<Null>>)

\* A word of the heap as it was needs no copy any more.
Settled(a) == a \in From => Forwarded(a)

\* Behind the scan a word has become what it has to be and will not change
\* again, since what it names has been copied; ahead of it it is the old one.
Faithful ==
  \A c \in DOMAIN to : to[c].of \notin Weak =>
    \A i \in DOMAIN heap[to[c].of] :
      /\ Behind(c, i) => Settled(heap[to[c].of][i]) /\ to[c].words[i] = New(heap[to[c].of][i])
      /\ ~Behind(c, i) => to[c].words[i] = heap[to[c].of][i]

\* A word outside from-space has at most been forwarded while the trace is on.
RootsKept ==
  phase \in Tracing => \A q \in Permanent : \A i \in DOMAIN heap[q] :
    \/ mem[q][i] = heap[q][i]
    \/ Forwarded(heap[q][i]) /\ mem[q][i] = tombstone[heap[q][i]]

\* What the visitor is past has been copied.
Visiting(n, i) == phase = "roots" /\ (at.obj < n \/ (at.obj = n /\ at.slot <= i))
RootsSettled ==
  \A n \in DOMAIN Visited : Visited[n] \notin Weak => \A i \in DOMAIN heap[Visited[n]] :
    ~Visiting(n, i) => Settled(heap[Visited[n]][i])

WordsInv ==
  /\ Lengths /\ Accounted /\ WeakListed /\ FromKept
  /\ Faithful /\ RootsKept /\ RootsSettled

\* A copy and its original are known.
LEMMA CopyKnown ==
  ASSUME TypeOK, NEW c \in DOMAIN to
  PROVE  /\ c \in Nat \ {0} /\ c <= Len(to) /\ to[c].of \in From
         /\ to[c].words \in Seq(Addresses) /\ heap[to[c].of] \in Seq(Addresses)
<1>1. to \in Seq(Copies) BY DEF TypeOK, Copies
<1>2. c \in 1..Len(to) /\ Len(to) \in Nat /\ to[c] \in Copies BY <1>1
<1>3. to[c].of \in From /\ to[c].words \in Seq(Addresses) BY <1>2 DEF Copies
<1>4. \A o \in From : heap[o] \in Seq(Addresses) BY DEF TypeOK
<1> QED BY <1>2, <1>3, <1>4

\* The object that a phase is at, and its words.
LEMMA ObjectWords ==
  ASSUME TypeOK, phase \in Tracing \cup {"weak"}, HasSlot({phase})
  PROVE  /\ object \in Permanent \cup DOMAIN to
         /\ object \in DOMAIN to =>
              /\ object \in Nat /\ at.slot \in DOMAIN to[object].words
              /\ Slot = to[object].words[at.slot]
         /\ object \in Permanent =>
              /\ object \notin Nat /\ at.slot \in DOMAIN mem[object]
              /\ Slot = mem[object][at.slot]
         /\ at.slot \in Nat \ {0} /\ at.obj \in Nat \ {0}
<1>1. object \in Permanent \cup DOMAIN to BY ObjectKnown DEF HasSlot
<1>2. at.slot \in Nat \ {0} /\ at.obj \in Nat \ {0} BY DEF TypeOK
<1>3. object \in DOMAIN to =>
        /\ object \in Nat /\ at.slot \in DOMAIN to[object].words
        /\ Slot = to[object].words[at.slot]
  <2> SUFFICES ASSUME object \in DOMAIN to
               PROVE  /\ object \in Nat /\ at.slot \in DOMAIN to[object].words
                      /\ Slot = to[object].words[at.slot]
    OBVIOUS
  <2>1. object \in Nat /\ to[object].words \in Seq(Addresses) BY CopyKnown
  <2>2. at.slot <= Len(to[object].words) BY <2>1 DEF HasSlot, Words
  <2>3. at.slot \in DOMAIN to[object].words BY <1>2, <2>1, <2>2
  <2> QED BY <2>1, <2>3 DEF Slot, Words
<1>4. object \in Permanent =>
        /\ object \notin Nat /\ at.slot \in DOMAIN mem[object]
        /\ Slot = mem[object][at.slot]
  <2> SUFFICES ASSUME object \in Permanent
               PROVE  /\ object \notin Nat /\ at.slot \in DOMAIN mem[object]
                      /\ Slot = mem[object][at.slot]
    OBVIOUS
  <2>1. object \notin Nat BY CheneyAssumption
  <2>2. mem[object] \in Seq(Addresses) BY DEF TypeOK
  <2>3. at.slot <= Len(mem[object]) BY <2>1 DEF HasSlot, Words
  <2>4. at.slot \in DOMAIN mem[object] BY <1>2, <2>2, <2>3
  <2> QED BY <2>1, <2>4 DEF Slot, Words
<1> QED BY <1>1, <1>2, <1>3, <1>4

\* There is room for one copy more.
LEMMA RoomForCopy ==
  ASSUME CopyInv, WordsInv, NEW o \in From, ~Forwarded(o)
  PROVE  /\ to_used + 1 + Len(heap[o]) <= Capacity
         /\ to_used + 1 + Len(heap[o]) = Cardinality(Footprint(Copied \cup {o}))
<1>1. TypeOK /\ OneCopyEach BY DEF CopyInv
<1>2. Copied \in SUBSET From BY <1>1, CopyKnown DEF Copied
<1>3. o \notin Copied
  <2> SUFFICES ASSUME o \in Copied PROVE FALSE OBVIOUS
  <2>1. PICK c \in DOMAIN to : to[c].of = o BY DEF Copied
  <2>2. tombstone[o] = c /\ c # 0 BY <1>1, <2>1, CopyKnown DEF OneCopyEach
  <2> QED BY <2>2 DEF Forwarded
<1>4. Cardinality(Footprint(Copied \cup {o})) = to_used + 1 + Len(heap[o])
  BY <1>1, <1>2, <1>3, FootprintGrows DEF WordsInv, Accounted
<1>5. Copied \cup {o} \in SUBSET From BY <1>2
<1>6. Cardinality(Footprint(Copied \cup {o})) <= Capacity BY <1>1, <1>5, FootprintFits
<1> QED BY <1>4, <1>6

\* What Store does to the words: one changes.
LEMMA StoreWords ==
  ASSUME NEW m \in Memory, NEW t \in Seq(Copies), NEW v \in Addresses,
         object \in Permanent \cup DOMAIN t, Store(m, t, v),
         object \in DOMAIN t => at.slot \in DOMAIN t[object].words,
         object \in Permanent => at.slot \in DOMAIN m[object]
  PROVE  /\ mem' \in Memory /\ to' \in Seq(Copies) /\ Len(to') = Len(t)
         /\ \A c \in DOMAIN t :
              /\ to'[c].of = t[c].of /\ Len(to'[c].words) = Len(t[c].words)
              /\ \A i \in DOMAIN t[c].words :
                   to'[c].words[i] = IF c = object /\ i = at.slot THEN v ELSE t[c].words[i]
         /\ \A q \in From \cup Permanent :
              /\ Len(mem'[q]) = Len(m[q])
              /\ q # object => mem'[q] = m[q]
              /\ \A i \in DOMAIN m[q] :
                   mem'[q][i] = IF q = object /\ i = at.slot THEN v ELSE m[q][i]
<1>1. mem' \in Memory /\ to' \in Seq(Copies) /\ Len(to') = Len(t) BY StoreTypes
<1>2. CASE object \in Nat
  <2>1. object \in DOMAIN t /\ DOMAIN t = 1..Len(t) BY <1>2, CheneyAssumption
  <2> DEFINE ws == [t[object].words EXCEPT ![at.slot] = v]
  <2>2. mem' = m /\ to' = [t EXCEPT ![object].words[at.slot] = v] BY <1>2 DEF Store
  <2>3. t[object] \in Copies BY <2>1
  <2> DEFINE old == t[object].words
  <2>9. old \in Seq(Addresses) BY <2>3 DEF Copies
  <2>10. ws = [old EXCEPT ![at.slot] = v] OBVIOUS
  <2>4. ws \in Seq(Addresses) /\ Len(ws) = Len(old)
    <3> HIDE DEF old, ws
    <3> QED BY <2>9, <2>10, SeqReplace
  <2>5. \A i \in DOMAIN t[object].words : ws[i] = IF i = at.slot THEN v ELSE t[object].words[i]
    BY <2>1, <2>9
  <2>6. to'[object].of = t[object].of /\ to'[object].words = ws
    BY <2>1, <2>2, <2>3 DEF Copies
  <2>7. \A c \in DOMAIN t : c # object => to'[c] = t[c] BY <2>1, <2>2
  <2>8. object \notin From \cup Permanent BY <1>2, CheneyAssumption
  <2> HIDE DEF ws
  <2> QED BY <1>1, <2>2, <2>4, <2>5, <2>6, <2>7, <2>8
<1>3. CASE object \notin Nat
  <2>1. object \in Permanent /\ object \notin DOMAIN t BY <1>3
  <2> DEFINE ws == [m[object] EXCEPT ![at.slot] = v]
  <2>2. to' = t /\ mem' = [m EXCEPT ![object][at.slot] = v] BY <1>3 DEF Store
  <2>3. m[object] \in Seq(Addresses) BY <2>1 DEF Memory
  <2> DEFINE old == m[object]
  <2>9. old \in Seq(Addresses) BY <2>3
  <2>10. ws = [old EXCEPT ![at.slot] = v] OBVIOUS
  <2>4. ws \in Seq(Addresses) /\ Len(ws) = Len(old)
    <3> HIDE DEF old, ws
    <3> QED BY <2>9, <2>10, SeqReplace
  <2>5. \A i \in DOMAIN m[object] : ws[i] = IF i = at.slot THEN v ELSE m[object][i]
    BY <2>1, <2>3
  <2>6. mem'[object] = ws /\ \A q \in From \cup Permanent : q # object => mem'[q] = m[q]
    BY <2>1, <2>2 DEF Memory
  <2> HIDE DEF ws
  <2> QED BY <1>1, <2>1, <2>2, <2>4, <2>5, <2>6
<1> QED BY <1>2, <1>3

\* The effect on the words of a step that stores v into the next slot.
Stored(v) ==
  /\ \A c \in DOMAIN to :
       /\ to'[c].of = to[c].of /\ Len(to'[c].words) = Len(to[c].words)
       /\ \A i \in DOMAIN to[c].words :
            to'[c].words[i] = IF c = object /\ i = at.slot THEN v ELSE to[c].words[i]
  /\ \A q \in From \cup Permanent :
       /\ Len(mem'[q]) = Len(mem[q])
       /\ q # object => mem'[q] = mem[q]
       /\ \A i \in DOMAIN mem[q] :
            mem'[q][i] = IF q = object /\ i = at.slot THEN v ELSE mem[q][i]

\* A copy is made behind the others, as long as its original.
LEMMA CopyOutWords ==
  ASSUME CopyInv, WordsInv, phase \in Tracing \cup {"weak"}, HasSlot({phase}),
         NEW o \in From, ~Forwarded(o), NEW words \in Seq(Addresses),
         Len(words) = Len(heap[o]), CopyOut(o, words)
  PROVE  /\ at' = NextSlot /\ phase' = phase
         /\ tombstone' = [tombstone EXCEPT ![o] = Len(to) + 1]
         /\ to_used' = Cardinality(Footprint(Copied \cup {o}))
         /\ Len(to') = Len(to) + 1 /\ to' \in Seq(Copies)
         /\ to'[Len(to) + 1] = [of |-> o, words |-> words]
         /\ Stored(Len(to) + 1)
<1> DEFINE n == Len(to) + 1
           copy == [of |-> o, words |-> words]
           grown == Append(to, copy)
<1>1. TypeOK BY DEF CopyInv
<1>2. to_used + 1 + Len(words) <= Capacity
  /\ to_used + 1 + Len(words) = Cardinality(Footprint(Copied \cup {o}))
  BY RoomForCopy
<1>3. Cardinality(Footprint(Copied \cup {o})) \in Nat
  <2>1. Copied \cup {o} \in SUBSET From BY <1>1, CopyKnown DEF Copied
  <2> QED BY <1>1, <2>1, FootprintFinite, FS_CardinalityType
<1>4. Capacity \in Nat
  BY <1>1, FootprintFinite, FS_CardinalityType DEF Capacity
<1>5. ~(to_used + 1 + Len(words) > Capacity) BY <1>2, <1>3, <1>4
<1>6. /\ Store(mem, grown, n) /\ tombstone' = [tombstone EXCEPT ![o] = n]
      /\ to_used' = to_used + 1 + Len(words) /\ at' = NextSlot /\ phase' = phase
  BY <1>5 DEF CopyOut
<1>7. mem \in Memory /\ to \in Seq(Copies) BY <1>1 DEF TypeOK, Memory, Copies
<1>8. copy \in Copies BY DEF Copies
<1>9. n \in Nat /\ Len(to) \in Nat /\ n = Len(to) + 1 /\ DOMAIN to = 1..Len(to) BY <1>7
<1> HIDE DEF n
<1>10. /\ grown \in Seq(Copies) /\ Len(grown) = n /\ DOMAIN grown = 1..n
       /\ grown[n] = copy /\ \A c \in 1..Len(to) : grown[c] = to[c]
  <2> HIDE DEF copy
  <2> QED BY <1>7, <1>8, <1>9
<1>11. n \in Addresses BY <1>9 DEF Addresses
<1>12. /\ object \in Permanent \cup DOMAIN to
       /\ object \in DOMAIN to => at.slot \in DOMAIN to[object].words
       /\ object \in Permanent => at.slot \in DOMAIN mem[object]
  BY <1>1, ObjectWords
<1>13. object # n BY <1>9, <1>12, CheneyAssumption
<1> HIDE DEF grown, copy
<1>14. /\ object \in Permanent \cup DOMAIN grown
       /\ object \in DOMAIN grown => at.slot \in DOMAIN grown[object].words
  BY <1>9, <1>10, <1>12, <1>13
<1>15. /\ mem' \in Memory /\ to' \in Seq(Copies) /\ Len(to') = n
       /\ \A c \in DOMAIN grown :
            /\ to'[c].of = grown[c].of /\ Len(to'[c].words) = Len(grown[c].words)
            /\ \A i \in DOMAIN grown[c].words :
                 to'[c].words[i] = IF c = object /\ i = at.slot THEN n ELSE grown[c].words[i]
       /\ \A q \in From \cup Permanent :
            /\ Len(mem'[q]) = Len(mem[q])
            /\ q # object => mem'[q] = mem[q]
            /\ \A i \in DOMAIN mem[q] :
                 mem'[q][i] = IF q = object /\ i = at.slot THEN n ELSE mem[q][i]
  <2>1. Store(mem, grown, n) /\ mem \in Memory /\ grown \in Seq(Copies) /\ Len(grown) = n
    BY <1>6, <1>7, <1>10
  <2> QED BY ONLY <2>1, <1>11, <1>12, <1>14, StoreWords
<1>16. Stored(n) BY <1>9, <1>10, <1>15 DEF Stored
<1>17. to'[n] = copy
  <2>1. to'[n] \in Copies BY <1>9, <1>15
  <2>2. copy.of = o /\ copy.words = words BY DEF copy
  <2>3. to'[n].of = o /\ Len(to'[n].words) = Len(words)
    BY <1>9, <1>10, <1>15, <2>2
  <2>4. \A i \in DOMAIN words : to'[n].words[i] = words[i]
    BY <1>9, <1>10, <1>13, <1>15, <2>2
  <2>5. to'[n].words \in Seq(Addresses) BY <2>1 DEF Copies
  <2>6. to'[n].words = words
    <3> DEFINE s == to'[n].words
    <3>1. s \in Seq(Addresses) /\ Len(s) = Len(words) /\ \A i \in DOMAIN words : s[i] = words[i]
      BY <2>3, <2>4, <2>5
    <3> HIDE DEF s
    <3>2. s = words BY <3>1
    <3> QED BY <3>2 DEF s
  <2> QED BY <2>1, <2>3, <2>6 DEF Copies, copy
<1> QED BY <1>2, <1>6, <1>15, <1>16, <1>17 DEF n, copy

-----------------------------------------------------------------------------
(* The trace *)

\* A step that forwards a slot, whatever it holds, and what the word becomes.
Forward == ForwardNothing \/ ForwardKnown \/ ForwardCopy
Landing == IF Slot \in From THEN tombstone'[Slot] ELSE Slot

\* No copy is made, or one of object o with its number of words.
NoCopy == UNCHANGED to_used /\ Len(to') = Len(to) /\ tombstone' = tombstone
CopyOf(o, words) ==
  /\ ~Forwarded(o) /\ Len(words) = Len(heap[o])
  /\ tombstone' = [tombstone EXCEPT ![o] = Len(to) + 1]
  /\ to_used' = Cardinality(Footprint(Copied \cup {o}))
  /\ Len(to') = Len(to) + 1
  /\ to'[Len(to) + 1] = [of |-> o, words |-> words]

\* Forwarding settles one word, and copies what it names if nobody has.
LEMMA ForwardWords ==
  ASSUME CopyInv, WordsInv, Forward
  PROVE  /\ phase \in Tracing /\ HasSlot({phase}) /\ ~IsWeak(object)
         /\ at' = NextSlot /\ UNCHANGED <<heap, weak, phase, traced>>
         /\ Slot \in From => tombstone'[Slot] # 0
         /\ NoCopy \/ (Slot \in From /\ CopyOf(Slot, heap[Slot]))
         /\ Stored(Landing)
<1>1. TypeOK BY DEF CopyInv
<1>2. phase \in Tracing /\ HasSlot({phase}) /\ ~IsWeak(object)
  BY DEF Forward, ForwardNothing, ForwardKnown, ForwardCopy, MayTrace, HasSlot
<1>3. /\ object \in Permanent \cup DOMAIN to
      /\ object \in DOMAIN to =>
           /\ at.slot \in DOMAIN to[object].words /\ Slot = to[object].words[at.slot]
      /\ object \in Permanent =>
           /\ at.slot \in DOMAIN mem[object] /\ Slot = mem[object][at.slot]
  BY <1>1, <1>2, ObjectWords
<1>4. CASE ForwardNothing
  <2>1. Landing = Slot /\ to' = to /\ mem' = mem BY <1>4 DEF ForwardNothing, Landing
  <2>2. DOMAIN to \subseteq Nat BY <1>1, CopyKnown
  <2>3. object \in From \cup Permanent => object \in Permanent
    BY <1>3, <2>2, CheneyAssumption
  <2>4. PICK v : v = Landing OBVIOUS
  <2>5. Stored(v) BY <1>3, <2>1, <2>3, <2>4 DEF Stored
  <2>6. Stored(Landing) BY <2>4, <2>5
  <2> QED BY <1>2, <1>4, <2>6 DEF ForwardNothing, NoCopy
<1>5. CASE ForwardKnown
  <2>1. /\ Slot \in From /\ tombstone[Slot] # 0 /\ tombstone' = tombstone
        /\ Store(mem, to, Landing) /\ Landing = tombstone[Slot]
    BY <1>5 DEF ForwardKnown, Forwarded, Landing
  <2>2. Landing \in Addresses BY <1>1, <2>1, TombstoneKnown DEF Forwarded
  <2>3. mem \in Memory /\ to \in Seq(Copies) BY <1>1 DEF TypeOK, Memory, Copies
  <2>4. Len(to') = Len(to) /\ Stored(Landing)
    <3>1. PICK v : v = Landing OBVIOUS
    <3>2. Store(mem, to, v) /\ v \in Addresses BY <2>1, <2>2, <3>1
    <3>3. Len(to') = Len(to) /\ Stored(v)
      BY ONLY <1>3, <2>3, <3>2, StoreWords DEF Stored
    <3> QED BY <3>1, <3>3
  <2> QED BY <1>2, <1>5, <2>1, <2>4 DEF ForwardKnown, NoCopy
<1>6. CASE ForwardCopy
  <2>1. Slot \in From /\ ~Forwarded(Slot) /\ CopyOut(Slot, mem[Slot])
        /\ UNCHANGED <<heap, weak, traced>>
    BY <1>6 DEF ForwardCopy
  <2>2. mem[Slot] = heap[Slot] BY <1>2, <2>1 DEF WordsInv, FromKept, Tracing
  <2>3. heap[Slot] \in Seq(Addresses) BY <1>1, <2>1 DEF TypeOK
  <2>4. PICK o : o = Slot OBVIOUS
  <2>5. /\ o \in From /\ ~Forwarded(o) /\ CopyOut(o, heap[o])
        /\ heap[o] \in Seq(Addresses) /\ phase \in Tracing \cup {"weak"} /\ HasSlot({phase})
    BY <1>2, <2>1, <2>2, <2>3, <2>4
  <2>6. /\ at' = NextSlot /\ phase' = phase
        /\ tombstone' = [tombstone EXCEPT ![o] = Len(to) + 1]
        /\ to_used' = Cardinality(Footprint(Copied \cup {o}))
        /\ Len(to') = Len(to) + 1
        /\ to'[Len(to) + 1] = [of |-> o, words |-> heap[o]]
        /\ Stored(Len(to) + 1)
    BY <2>5, CopyOutWords
  <2>7. Len(to) \in Nat /\ tombstone \in [From -> 0..Len(to)] BY <1>1 DEF TypeOK
  <2>8. tombstone'[o] = Len(to) + 1 /\ tombstone'[o] # 0 BY <2>5, <2>6, <2>7
  <2>9. Landing = Len(to) + 1 BY <2>1, <2>4, <2>8 DEF Landing
  <2> QED BY <1>2, <2>1, <2>4, <2>5, <2>6, <2>8, <2>9 DEF CopyOf
<1> QED BY <1>4, <1>5, <1>6 DEF Forward

\* What was forwarded stays, as the tombstones do.
LEMMA SettledStays ==
  ASSUME TypeOK, NoCopy \/ \E o \in From : \E words : CopyOf(o, words), NEW a, Settled(a)
  PROVE  Settled(a)' /\ New(a)' = New(a)
<1>1. tombstone \in [From -> 0..Len(to)] /\ Len(to) \in Nat BY DEF TypeOK
<1>2. CASE NoCopy BY <1>2 DEF NoCopy, Settled, Forwarded, New
<1>3. ASSUME NEW o \in From, NEW words, CopyOf(o, words) PROVE Settled(a)' /\ New(a)' = New(a)
  BY <1>1, <1>3 DEF CopyOf, Settled, Forwarded, New
<1> QED BY <1>2, <1>3

\* The books are kept when a copy is made or none.
LEMMA CopyKeeps ==
  ASSUME CopyInv, WordsInv, to' \in Seq(Copies), heap' = heap, phase' # "overflow",
         \A c \in DOMAIN to : to'[c].of = to[c].of /\ Len(to'[c].words) = Len(to[c].words),
         \A q \in From \cup Permanent : Len(mem'[q]) = Len(mem[q]),
         NoCopy \/ \E o \in From : \E words : CopyOf(o, words)
  PROVE  Lengths' /\ Accounted'
<1>1. /\ to \in Seq(Copies) /\ Len(to) \in Nat /\ DOMAIN to = 1..Len(to)
      /\ DOMAIN to' = 1..Len(to')
  BY DEF CopyInv, TypeOK, Copies
<1>2. CASE NoCopy
  <2>1. DOMAIN to' = DOMAIN to BY <1>1, <1>2 DEF NoCopy
  <2>2. Lengths' BY <2>1 DEF WordsInv, Lengths
  <2>3. Copied' = Copied BY <2>1 DEF Copied
  <2> QED BY <1>2, <2>2, <2>3 DEF NoCopy, WordsInv, Accounted, Footprint
<1>3. ASSUME NEW o \in From, NEW words, CopyOf(o, words) PROVE Lengths' /\ Accounted'
  <2>1. DOMAIN to' = DOMAIN to \cup {Len(to) + 1} BY <1>1, <1>3 DEF CopyOf
  <2>2. to'[Len(to) + 1].of = o /\ to'[Len(to) + 1].words = words /\ Len(words) = Len(heap[o]) BY <1>3 DEF CopyOf
  <2>3. Lengths' BY <2>1, <2>2 DEF WordsInv, Lengths
  <2>4. Copied' = Copied \cup {o} BY <2>1, <2>2 DEF Copied
  <2>5. Footprint(Copied)' = Footprint(Copied \cup {o}) BY <2>4 DEF Footprint
  <2> QED BY <1>3, <2>3, <2>5 DEF CopyOf, Accounted
<1> QED BY <1>2, <1>3

\* The copies stay faithful when a slot is forwarded.
LEMMA ForwardFaithful ==
  ASSUME CopyInv, WordsInv, Forward, CopyInv'
  PROVE  Faithful'
<1>1. TypeOK BY DEF CopyInv
<1>2. /\ phase \in Tracing /\ HasSlot({phase}) /\ ~IsWeak(object)
      /\ at' = NextSlot /\ UNCHANGED <<heap, weak, phase, traced>>
      /\ Slot \in From => tombstone'[Slot] # 0
      /\ NoCopy \/ (Slot \in From /\ CopyOf(Slot, heap[Slot]))
      /\ Stored(Landing)
  BY ForwardWords
<1>3. /\ object \in Permanent \cup DOMAIN to
      /\ object \in DOMAIN to =>
           /\ at.slot \in DOMAIN to[object].words /\ Slot = to[object].words[at.slot]
      /\ at.slot \in Nat /\ at.obj \in Nat
  BY <1>1, <1>2, ObjectWords
<1>4. /\ Len(to) \in Nat /\ DOMAIN to = 1..Len(to) /\ Len(to') \in Nat /\ DOMAIN to' = 1..Len(to')
  BY DEF CopyInv, TypeOK
<1>5. at'.obj = at.obj /\ at'.slot = at.slot + 1
  BY <1>1, <1>2, CursorKnown DEF NextSlot, TypeOK
<1>6. phase = "scan" => object = at.obj /\ at.obj <= Len(to)
  BY <1>2 DEF object, Nth, HasSlot, Count
<1>7. phase = "roots" \/ phase = "scan" BY <1>2 DEF Tracing
<1> SUFFICES ASSUME NEW c \in DOMAIN to', to'[c].of \notin Weak,
                    NEW i \in DOMAIN heap'[to'[c].of]
             PROVE  /\ Behind(c, i)' => /\ Settled(heap[to[c].of][i])'
                                        /\ to'[c].words[i] = New(heap[to[c].of][i])'
                    /\ ~Behind(c, i)' => to'[c].words[i] = heap'[to'[c].of][i]
  BY DEF Faithful
<1>8. PICK a : a = heap[to'[c].of][i] OBVIOUS
<1> SUFFICES /\ Behind(c, i)' => Settled(a)' /\ to'[c].words[i] = New(a)'
             /\ ~Behind(c, i)' => to'[c].words[i] = a
  BY <1>2, <1>8 DEF Settled, Forwarded, New
<1>9. c \in Nat BY <1>4
<1>10. CASE c \notin DOMAIN to
  <2>1. c > Len(to) BY <1>4, <1>9, <1>10
  <2>2. c = Len(to) + 1 /\ to'[c].words = heap[to'[c].of]
    <3>1. CASE NoCopy BY <1>4, <2>1, <3>1 DEF NoCopy
    <3>2. CASE CopyOf(Slot, heap[Slot]) BY <1>4, <2>1, <3>2 DEF CopyOf
    <3> QED BY <1>2, <3>1, <3>2
  <2>3. at.obj <= Len(to) => ~(c <= at.obj) BY <1>3, <1>4, <2>2
  <2>4. ~Behind(c, i)' BY <1>2, <1>3, <1>4, <1>5, <1>6, <1>7, <1>9, <2>2, <2>3 DEF Behind
  <2> QED BY <1>8, <2>2, <2>4
<1>11. CASE c \in DOMAIN to
  <2>1. to'[c].of = to[c].of BY <1>2, <1>11 DEF Stored
  <2>2. to[c].of \notin Weak /\ i \in DOMAIN heap[to[c].of] /\ a = heap[to[c].of][i]
    BY <1>2, <1>8, <2>1
  <2>3. i \in DOMAIN to[c].words /\ i \in Nat
    <3>1. Len(to[c].words) = Len(heap[to[c].of]) BY <1>11 DEF WordsInv, Lengths
    <3>2. heap[to[c].of] \in Seq(Addresses) /\ to[c].words \in Seq(Addresses)
      BY <1>1, <1>11, CopyKnown
    <3> QED BY <2>2, <3>1, <3>2
  <2>4. to'[c].words[i] = IF c = object /\ i = at.slot THEN Landing ELSE to[c].words[i]
    BY <1>2, <1>11, <2>3 DEF Stored
  <2>5. /\ Behind(c, i) => Settled(a) /\ to[c].words[i] = New(a)
        /\ ~Behind(c, i) => to[c].words[i] = a
    BY <1>11, <2>2 DEF WordsInv, Faithful
  <2>6. CASE c = object /\ i = at.slot
    <3>1. phase = "scan" /\ c = at.obj
      <4>1. c \notin Permanent BY <1>9, CheneyAssumption
      <4>2. phase # "roots"
        <5> SUFFICES ASSUME phase = "roots" PROVE FALSE OBVIOUS
        <5>1. at.obj \in 1..Len(Visited)
          BY <1>1, <1>2 DEF HasSlot, Count, TypeOK
        <5>2. object \in Permanent BY <5>1, CheneyAssumption DEF object, Nth
        <5> QED BY <2>6, <4>1, <5>2
      <4> QED BY <1>6, <1>7, <2>6, <4>2
    <3>2. ~Behind(c, i) BY <1>3, <2>6, <3>1 DEF Behind
    <3>3. Slot = a BY <1>3, <1>11, <2>5, <2>6, <3>2
    <3>4. Settled(a)' /\ Landing = New(a)' BY <1>2, <3>3 DEF Settled, Forwarded, Landing, New
    <3>5. Behind(c, i)'
      BY <1>2, <1>3, <1>5, <2>6, <3>1 DEF Behind
    <3> QED BY <2>4, <2>6, <3>4, <3>5
  <2>7. CASE ~(c = object /\ i = at.slot)
    <3>1. Behind(c, i)' <=> Behind(c, i)
      <4>1. CASE phase = "roots" BY <1>2, <4>1 DEF Behind
      <4>2. CASE phase = "scan"
        BY <1>2, <1>3, <1>5, <1>6, <1>9, <2>3, <2>7, <4>2 DEF Behind
      <4> QED BY <1>7, <4>1, <4>2
    <3>2. Settled(a) => Settled(a)' /\ New(a)' = New(a) BY <1>1, <1>2, SettledStays
    <3>3. to'[c].words[i] = to[c].words[i] BY <2>4, <2>7
    <3> QED BY <2>5, <3>1, <3>2, <3>3
  <2> QED BY <2>6, <2>7
<1> QED BY <1>10, <1>11

\* Forwarding a slot keeps the invariant of the words.
LEMMA ForwardKeeps ==
  ASSUME CopyInv, WordsInv, Forward, CopyInv'
  PROVE  WordsInv'
<1>1. TypeOK /\ TypeOK' BY DEF CopyInv
<1>2. /\ phase \in Tracing /\ HasSlot({phase}) /\ ~IsWeak(object)
      /\ at' = NextSlot /\ UNCHANGED <<heap, weak, phase, traced>>
      /\ Slot \in From => tombstone'[Slot] # 0
      /\ NoCopy \/ (Slot \in From /\ CopyOf(Slot, heap[Slot]))
      /\ Stored(Landing)
  BY ForwardWords
<1>3. /\ object \in Permanent \cup DOMAIN to
      /\ object \in DOMAIN to => object \in Nat
      /\ object \in Permanent =>
           /\ at.slot \in DOMAIN mem[object] /\ Slot = mem[object][at.slot]
      /\ at.slot \in Nat /\ at.obj \in Nat
  BY <1>1, <1>2, ObjectWords
<1>4. at'.obj = at.obj /\ at'.slot = at.slot + 1
  BY <1>1, <1>2, CursorKnown DEF NextSlot, TypeOK
<1>5. Lengths' /\ Accounted'
  <2>1. to' \in Seq(Copies) BY <1>1 DEF TypeOK, Copies
  <2>2. phase' # "overflow" BY <1>2 DEF Tracing
  <2>3. NoCopy \/ \E o \in From : \E words : CopyOf(o, words) BY <1>2
  <2> QED BY <1>2, <2>1, <2>2, <2>3, CopyKeeps DEF Stored
<1>6. WeakListed'
  <2> SUFFICES ASSUME NEW k \in DOMAIN weak PROVE IsWeak(weak[k])'
    BY <1>2 DEF WeakListed
  <2>1. weak[k] \in (Permanent \cap Weak) \cup DOMAIN to BY <1>1, SeqElement DEF TypeOK
  <2>2. IsWeak(weak[k]) BY DEF WordsInv, WeakListed
  <2>3. weak[k] \in DOMAIN to => to'[weak[k]].of = to[weak[k]].of BY <1>2 DEF Stored
  <2>4. weak'[k] = weak[k] BY <1>2
  <2> QED BY <2>1, <2>2, <2>3, <2>4, CheneyAssumption DEF IsWeak
<1>7. FromKept'
  <2> SUFFICES ASSUME NEW o \in From PROVE mem'[o] = heap[o]
    BY <1>2 DEF FromKept
  <2>1. mem[o] = heap[o] BY <1>2 DEF WordsInv, FromKept, Tracing
  <2>2. o # object BY <1>3, CheneyAssumption
  <2> QED BY <1>2, <2>1, <2>2 DEF Stored
<1>8. Faithful' BY ForwardFaithful
<1>9. RootsKept'
  <2> SUFFICES ASSUME NEW q \in Permanent, NEW i \in DOMAIN heap[q]
               PROVE  \/ mem'[q][i] = heap[q][i]
                      \/ Forwarded(heap[q][i])' /\ mem'[q][i] = tombstone'[heap[q][i]]
    BY <1>2 DEF RootsKept
  <2>1. PICK a : a = heap[q][i] OBVIOUS
  <2>2. mem[q][i] = a \/ (Forwarded(a) /\ mem[q][i] = tombstone[a])
    BY <1>2, <2>1 DEF WordsInv, RootsKept
  <2>3. Forwarded(a) => Forwarded(a)' /\ tombstone'[a] = tombstone[a] /\ tombstone[a] \notin From
    <3>1. Forwarded(a) => Settled(a)' /\ New(a)' = New(a)
      BY <1>1, <1>2, SettledStays DEF Settled, Forwarded
    <3>2. Forwarded(a) => tombstone[a] \in Nat BY <1>1 DEF Forwarded, TypeOK
    <3> QED BY <3>1, <3>2, CheneyAssumption DEF Settled, Forwarded, New
  <2>4. mem'[q][i] = IF q = object /\ i = at.slot THEN Landing ELSE mem[q][i]
    <3>1. Len(mem[q]) = Len(heap[q]) BY DEF WordsInv, Lengths
    <3>2. mem[q] \in Seq(Addresses) /\ heap[q] \in Seq(Addresses) BY <1>1 DEF TypeOK
    <3>3. i \in DOMAIN mem[q] BY <3>1, <3>2
    <3> QED BY <1>2, <3>3 DEF Stored
  <2>5. CASE q = object /\ i = at.slot
    <3>1. Slot = mem[q][i] BY <1>3, <2>5
    <3>2. CASE Slot = a
      <4>1. CASE a \in From
        BY <1>2, <2>1, <2>4, <2>5, <3>2, <4>1 DEF Landing, Forwarded
      <4>2. CASE a \notin From BY <2>1, <2>4, <2>5, <3>2, <4>2 DEF Landing
      <4> QED BY <4>1, <4>2
    <3>3. CASE Slot # a
      <4>1. Forwarded(a) /\ Slot = tombstone[a] BY <2>2, <3>1, <3>3
      <4>2. Landing = Slot BY <2>3, <4>1 DEF Landing
      <4> QED BY <1>2, <2>1, <2>3, <2>4, <2>5, <4>1, <4>2 DEF Forwarded
    <3> QED BY <3>2, <3>3
  <2>6. CASE ~(q = object /\ i = at.slot) BY <1>2, <2>1, <2>2, <2>3, <2>4, <2>6 DEF Forwarded
  <2> QED BY <2>5, <2>6
<1>10. RootsSettled'
  <2> SUFFICES ASSUME NEW n \in DOMAIN Visited, Visited[n] \notin Weak,
                      NEW i \in DOMAIN heap[Visited[n]], ~Visiting(n, i)'
               PROVE  Settled(heap[Visited[n]][i])'
    BY <1>2 DEF RootsSettled
  <2>1. PICK a : a = heap[Visited[n]][i] OBVIOUS
  <2>2. n \in Nat /\ Visited[n] \in Permanent /\ i \in Nat
    <3>1. n \in Nat /\ Visited[n] \in Permanent BY CheneyAssumption, SeqElement
    <3>2. heap[Visited[n]] \in Seq(Addresses) BY <1>1, <3>1 DEF TypeOK
    <3> QED BY <3>1, <3>2
  <2>3. CASE ~Visiting(n, i)
    <3>1. Settled(a) BY <2>1, <2>3 DEF WordsInv, RootsSettled
    <3> QED BY <1>1, <1>2, <2>1, <3>1, SettledStays
  <2>4. CASE Visiting(n, i)
    <3>1. phase = "roots" /\ n = at.obj /\ i = at.slot
      BY <1>2, <1>3, <1>4, <2>2, <2>4 DEF Visiting
    <3>2. object = Visited[n] BY <3>1 DEF object, Nth
    <3>3. Slot = mem[object][i] BY <1>3, <2>2, <3>1, <3>2
    <3>4. Slot = a \/ Forwarded(a) BY <1>2, <2>1, <2>2, <3>2, <3>3 DEF WordsInv, RootsKept
    <3>5. CASE Slot = a BY <1>2, <2>1, <3>5 DEF Settled, Forwarded
    <3>6. CASE Forwarded(a) BY <1>1, <1>2, <2>1, <3>6, SettledStays DEF Settled
    <3> QED BY <3>4, <3>5, <3>6
  <2> QED BY <2>3, <2>4
<1> QED BY <1>5, <1>6, <1>7, <1>8, <1>9, <1>10 DEF WordsInv

\* The steps that move on to the next object or phase keep it too.
LEMMA MoveKeeps ==
  ASSUME CopyInv, WordsInv, RegisterWeak \/ NextObject \/ NextPhase
  PROVE  WordsInv'
<1>1. TypeOK BY DEF CopyInv
<1>2. UNCHANGED <<heap, mem, tombstone, to, to_used>>
  BY DEF RegisterWeak, NextObject, NextPhase
<1>3. at.obj \in Nat \ {0} /\ at.slot \in Nat \ {0} BY <1>1 DEF TypeOK
<1>4. Lengths' BY <1>2 DEF WordsInv, Lengths
<1>5. Accounted'
  <2>1. phase' # "overflow"
    BY DEF RegisterWeak, NextObject, NextPhase, Tracing, WordsInv, Accounted
  <2> QED BY <1>2, <2>1 DEF WordsInv, Accounted, Footprint, Copied
<1>6. FromKept'
  BY <1>2 DEF RegisterWeak, NextObject, NextPhase, Tracing, WordsInv, FromKept
<1>7. RootsKept'
  BY <1>2 DEF RegisterWeak, NextObject, NextPhase, Tracing, WordsInv, RootsKept, Forwarded
<1>8. WeakListed'
  <2>1. CASE RegisterWeak
    <3>1. weak' = Append(weak, object) /\ IsWeak(object) BY <2>1 DEF RegisterWeak
    <3>2. weak \in Seq((Permanent \cap Weak) \cup DOMAIN to) BY <1>1 DEF TypeOK
    <3>3. PICK x : x = object OBVIOUS
    <3>4. \A k \in DOMAIN weak' : weak'[k] = x \/ (k \in DOMAIN weak /\ weak'[k] = weak[k])
      BY <3>1, <3>2, <3>3
    <3>5. \A k \in DOMAIN weak' : IsWeak(weak'[k])
      BY <3>1, <3>3, <3>4 DEF WordsInv, WeakListed
    <3> QED BY <1>2, <3>5 DEF WeakListed, IsWeak
  <2>2. CASE NextObject \/ NextPhase
    BY <1>2, <2>2 DEF NextObject, NextPhase, WordsInv, WeakListed, IsWeak
  <2> QED BY <2>1, <2>2
<1>9. ASSUME NEW c \in DOMAIN to, to[c].of \notin Weak, NEW i \in DOMAIN heap[to[c].of]
      PROVE  Behind(c, i)' <=> Behind(c, i)
  <2>1. c \in Nat /\ c <= Len(to) /\ c # 0 /\ Len(to) \in Nat BY SMTT(40), <1>1, CopyKnown DEF TypeOK
  <2>2. i \in Nat /\ i # 0 /\ i <= Len(to[c].words)
    <3>1. heap[to[c].of] \in Seq(Addresses) BY <1>1, CopyKnown
    <3>2. i \in Nat /\ i # 0 /\ i <= Len(heap[to[c].of]) BY <1>9, <3>1
    <3> QED BY <3>2 DEF WordsInv, Lengths
  <2>3. phase = "scan" => object = at.obj /\ Count = Len(to) BY DEF object, Nth, Count
  <2>4. CASE RegisterWeak
    <3>1. at' = [obj |-> at.obj + 1, slot |-> 1] /\ phase' = phase /\ phase \in Tracing
      BY <2>4 DEF RegisterWeak
    <3>2. phase = "scan" => c # at.obj
      BY <1>9, <2>1, <2>3, <2>4 DEF RegisterWeak, IsWeak
    <3>3. CASE phase = "scan" BY <1>3, <2>1, <2>2, <3>1, <3>2, <3>3 DEF Behind
    <3>4. CASE phase = "roots" BY <3>1, <3>4 DEF Behind
    <3> QED BY <3>1, <3>3, <3>4 DEF Tracing
  <2>5. CASE NextObject
    <3>1. at' = [obj |-> at.obj + 1, slot |-> 1] /\ phase' = phase BY <2>5 DEF NextObject
    <3>2. phase = "scan" /\ c = at.obj => i < at.slot
      <4> SUFFICES ASSUME phase = "scan", c = at.obj PROVE i < at.slot OBVIOUS
      <4>1. Words(object) = to[c].words BY <2>1, <2>3 DEF Words
      <4>2. Len(to[c].words) \in Nat BY <1>1, CopyKnown
      <4> QED BY <1>3, <2>2, <2>5, <4>1, <4>2 DEF NextObject
    <3>3. CASE phase = "scan" BY <1>3, <2>1, <2>2, <3>1, <3>2, <3>3 DEF Behind
    <3>4. CASE phase # "scan" BY <3>1, <3>4 DEF Behind
    <3> QED BY <3>3, <3>4
  <2>6. CASE NextPhase
    <3>1. at.obj > Count /\ at' = First BY <2>6 DEF NextPhase
    <3>2. CASE phase = "roots"
      <4>1. phase' = "scan" BY <2>6, <3>2 DEF NextPhase
      <4> QED BY <2>1, <2>2, <3>1, <3>2, <4>1 DEF Behind, First
    <3>3. CASE phase = "scan"
      <4>1. phase' = "weak" BY <2>6, <3>3 DEF NextPhase
      <4>2. c < at.obj BY <1>3, <2>1, <2>3, <3>1, <3>3
      <4> QED BY <3>3, <4>1, <4>2 DEF Behind
    <3>4. CASE phase = "weak"
      <4>1. phase' = "done" BY <2>6, <3>4 DEF NextPhase
      <4> QED BY <3>4, <4>1 DEF Behind
    <3> QED BY <2>6, <3>2, <3>3, <3>4 DEF NextPhase, Tracing
  <2> QED BY <2>4, <2>5, <2>6
<1>10. Faithful'
  <2> SUFFICES ASSUME NEW c \in DOMAIN to, to[c].of \notin Weak, NEW i \in DOMAIN heap[to[c].of]
               PROVE  LET a == heap[to[c].of][i] IN
                      /\ Behind(c, i)' => Settled(a) /\ to[c].words[i] = New(a)
                      /\ ~Behind(c, i)' => to[c].words[i] = a
    BY <1>2 DEF Faithful, Settled, Forwarded, New
  <2> QED BY <1>9 DEF WordsInv, Faithful
<1>11. RootsSettled'
  <2> SUFFICES ASSUME NEW n \in DOMAIN Visited, Visited[n] \notin Weak,
                      NEW i \in DOMAIN heap[Visited[n]], ~Visiting(n, i)'
               PROVE  Settled(heap[Visited[n]][i])
    BY <1>2 DEF RootsSettled, Settled, Forwarded
  <2>1. n \in Nat /\ n <= Len(Visited) /\ Len(Visited) \in Nat /\ Visited[n] \in Permanent
    <3>1. n \in 1..Len(Visited) /\ Len(Visited) \in Nat BY CheneyAssumption
    <3> QED BY <3>1, CheneyAssumption
  <2>2. heap[Visited[n]] \in Seq(Addresses) /\ mem[Visited[n]] \in Seq(Addresses)
    BY <1>1, <2>1 DEF TypeOK
  <2>3. i \in Nat /\ i # 0 /\ i <= Len(mem[Visited[n]])
    BY <2>1, <2>2 DEF WordsInv, Lengths
  <2>4. phase = "roots" => object = Visited[at.obj] /\ Count = Len(Visited)
    BY DEF object, Nth, Count
  <2>5. ~Visiting(n, i)
    <3> SUFFICES ASSUME Visiting(n, i) PROVE FALSE OBVIOUS
    <3>1. phase = "roots" /\ (at.obj < n \/ (at.obj = n /\ at.slot <= i)) BY DEF Visiting
    <3>2. CASE RegisterWeak
      <4>1. at' = [obj |-> at.obj + 1, slot |-> 1] /\ phase' = phase BY <3>2 DEF RegisterWeak
      <4>2. IsWeak(Visited[at.obj]) BY <2>4, <3>1, <3>2 DEF RegisterWeak
      <4>3. Visited[n] \notin Nat BY <2>1, CheneyAssumption
      <4>4. n # at.obj BY <4>2, <4>3 DEF IsWeak
      <4> QED BY <1>3, <2>1, <2>3, <3>1, <4>1, <4>4 DEF Visiting
    <3>3. CASE NextObject
      <4>1. at' = [obj |-> at.obj + 1, slot |-> 1] /\ phase' = phase BY <3>3 DEF NextObject
      <4>2. n # at.obj
        <5> SUFFICES ASSUME n = at.obj PROVE FALSE OBVIOUS
        <5>1. Words(object) = mem[Visited[n]] BY <2>1, <2>4, <3>1, CheneyAssumption DEF Words
        <5>2. Len(mem[Visited[n]]) \in Nat BY <2>2
        <5> QED BY <1>3, <2>3, <3>1, <3>3, <5>1, <5>2 DEF NextObject
      <4> QED BY <1>3, <2>1, <2>3, <3>1, <4>1, <4>2 DEF Visiting
    <3>4. CASE NextPhase BY <1>3, <2>1, <2>4, <3>1, <3>4 DEF NextPhase
    <3> QED BY <3>2, <3>3, <3>4
  <2> QED BY <2>5 DEF WordsInv, RootsSettled
<1> QED BY <1>4, <1>5, <1>6, <1>7, <1>8, <1>10, <1>11 DEF WordsInv

-----------------------------------------------------------------------------
(* The fixup *)

Fix == FixNone \/ FixCopied \/ FixDemote \/ FixDead \/ FixPermanent \/ FixSurvivor

\* Overwriting the first word of an object.
LEMMA Overwrite ==
  ASSUME TypeOK, NEW s \in From \cup Permanent, NEW v, v \in Addresses \/ mem[s] = <<>>,
         NEW m, m = [mem EXCEPT ![s][1] = v]
  PROVE  /\ m \in Memory
         /\ \A q \in From \cup Permanent : Len(m[q]) = Len(mem[q])
         /\ \A q \in From \cup Permanent : q # s => m[q] = mem[q]
         /\ Len(mem[s]) = 1 => m[s] = <<v>>
<1>1. m \in Memory BY MemoryReplace
<1>2. mem \in Memory /\ mem[s] \in Seq(Addresses) BY DEF TypeOK, Memory
<1>3. \A q \in From \cup Permanent : q # s => m[q] = mem[q] BY <1>2 DEF Memory
<1>4. PICK old : old = mem[s] OBVIOUS
<1>5. m[s] = [old EXCEPT ![1] = v] BY <1>2, <1>4 DEF Memory
<1>6. CASE old = <<>>
  <2>1. 1 \notin DOMAIN old BY <1>6
  <2>2. [old EXCEPT ![1] = v] = old BY <1>2, <1>4, <2>1
  <2>3. Len(old) # 1 BY <1>6
  <2> QED BY <1>1, <1>3, <1>4, <1>5, <2>2, <2>3
<1>7. CASE v \in Addresses
  <2>1. old \in Seq(Addresses) BY <1>2, <1>4
  <2>2. [old EXCEPT ![1] = v] \in Seq(Addresses) /\ Len([old EXCEPT ![1] = v]) = Len(old)
    BY <1>7, <2>1, SeqReplace
  <2>3. PICK r : r = [old EXCEPT ![1] = v] OBVIOUS
  <2>4. Len(old) = 1 => r = <<v>>
    <3> SUFFICES ASSUME Len(old) = 1 PROVE r = <<v>> OBVIOUS
    <3>1. 1 \in DOMAIN old BY <2>1
    <3>2. r[1] = v BY <2>1, <2>3, <3>1
    <3>3. r \in Seq(Addresses) /\ Len(r) = 1 BY <2>2, <2>3
    <3> QED BY <1>7, <3>2, <3>3
  <2> QED BY <1>1, <1>3, <1>4, <1>5, <2>2, <2>3, <2>4
<1> QED BY <1>2, <1>4, <1>6, <1>7

\* Storing after an overwriting step.
LEMMA FixStores ==
  ASSUME CopyInv, WordsInv, MayFix, NEW m \in Memory, NEW v \in Addresses, Store(m, to, v),
         \A q \in From \cup Permanent : Len(m[q]) = Len(mem[q])
  PROVE  /\ Len(to') = Len(to)
         /\ \A c \in DOMAIN to :
              /\ to'[c].of = to[c].of /\ Len(to'[c].words) = Len(to[c].words)
              /\ \A i \in DOMAIN to[c].words :
                   to'[c].words[i] = IF c = object /\ i = at.slot THEN v ELSE to[c].words[i]
         /\ \A q \in From \cup Permanent :
              /\ Len(mem'[q]) = Len(mem[q])
              /\ q # object => mem'[q] = m[q]
              /\ \A i \in DOMAIN m[q] :
                   mem'[q][i] = IF q = object /\ i = at.slot THEN v ELSE m[q][i]
<1>1. TypeOK BY DEF CopyInv
<1>2. phase \in Tracing \cup {"weak"} /\ HasSlot({phase}) BY DEF MayFix, HasSlot
<1>3. /\ object \in Permanent \cup DOMAIN to
      /\ object \in DOMAIN to => at.slot \in DOMAIN to[object].words
      /\ object \in Permanent => at.slot \in DOMAIN mem[object]
  BY <1>1, <1>2, ObjectWords
<1>4. object \in Permanent => at.slot \in DOMAIN m[object]
  <2> SUFFICES ASSUME object \in Permanent PROVE at.slot \in DOMAIN m[object] OBVIOUS
  <2>1. m[object] \in Seq(Addresses) /\ mem[object] \in Seq(Addresses)
    BY <1>1 DEF TypeOK, Memory
  <2>2. Len(m[object]) = Len(mem[object]) OBVIOUS
  <2> QED BY <1>3, <2>1, <2>2
<1>5. to \in Seq(Copies) BY <1>1 DEF TypeOK, Copies
<1> QED BY ONLY <1>3, <1>4, <1>5, Store(m, to, v), StoreWords, m \in Memory, v \in Addresses,
     \A q \in From \cup Permanent : Len(m[q]) = Len(mem[q])

\* The object being fixed is a weak one, and in no case in from-space.
LEMMA FixObject ==
  ASSUME CopyInv, WordsInv, MayFix
  PROVE  /\ phase = "weak" /\ object = weak[at.obj] /\ at.obj \in DOMAIN weak /\ IsWeak(object)
         /\ object \in Permanent \cup DOMAIN to /\ object \notin From
<1>1. TypeOK BY DEF CopyInv
<1>2. phase = "weak" /\ at.obj <= Count BY DEF MayFix, HasSlot
<1>3. object = weak[at.obj] /\ Count = Len(weak) BY <1>2 DEF object, Nth, Count
<1>4. at.obj \in DOMAIN weak BY <1>1, <1>2, <1>3 DEF TypeOK
<1>5. IsWeak(object) BY <1>3, <1>4 DEF WordsInv, WeakListed
<1>6. object \in Permanent \cup DOMAIN to BY <1>1, <1>2, ObjectKnown
<1>7. object \notin From BY <1>1, <1>6, CopyKnown, CheneyAssumption
<1> QED BY <1>2, <1>3, <1>4, <1>5, <1>6, <1>7

\* A SOME cell in from-space that still names something is as it was.
LEMMA SurvivorWords ==
  ASSUME CopyInv, WordsInv, FixSurvivor
  PROVE  /\ Slot \in From /\ ~Forwarded(Slot) /\ Len(heap[Slot]) = 1
         /\ mem[Slot] = heap[Slot] /\ Content = heap[Slot][1]
         /\ heap[Slot][1] # Null /\ Settled(heap[Slot][1]) /\ New(heap[Slot][1]) \in Addresses
         /\ CopyOf(Slot, <<New(heap[Slot][1])>>)
         /\ Stored(Len(to) + 1)
<1>1. TypeOK BY DEF CopyInv
<1>2. /\ MayFix /\ Slot \in From /\ Cell(Slot) /\ Content # Null /\ ~Dead(Content)
      /\ CopyOut(Slot, <<New(Content)>>)
  BY DEF FixSurvivor
<1>3. ~Forwarded(Slot) /\ Len(mem[Slot]) = 1 BY <1>2, CheneyAssumption DEF Cell
<1>4. mem[Slot] = heap[Slot]
  <2> SUFFICES ASSUME mem[Slot] = <<Null>> PROVE FALSE
    BY <1>2 DEF WordsInv, FromKept
  <2>1. mem[Slot][1] = Null OBVIOUS
  <2> QED BY <1>2, <2>1 DEF Content
<1>5. Content = heap[Slot][1] /\ Len(heap[Slot]) = 1 BY <1>3, <1>4 DEF Content
<1>6. Settled(heap[Slot][1]) BY <1>2, <1>5 DEF Settled, Dead
<1>7. New(heap[Slot][1]) \in Addresses
  <2>1. heap[Slot] \in Seq(Addresses) BY <1>1, <1>2 DEF TypeOK
  <2>2. heap[Slot][1] \in Addresses BY <1>5, <2>1
  <2> QED BY <1>1, <2>2, NewKnown
<1>8. PICK o, words : o = Slot /\ words = <<New(heap[Slot][1])>> OBVIOUS
<1>9. /\ o \in From /\ ~Forwarded(o) /\ words \in Seq(Addresses) /\ Len(words) = Len(heap[o])
      /\ CopyOut(o, words)
  BY <1>2, <1>3, <1>5, <1>7, <1>8
<1>10. phase \in Tracing \cup {"weak"} /\ HasSlot({phase}) BY <1>2 DEF MayFix, HasSlot
<1>11. CopyOf(o, words) /\ Stored(Len(to) + 1)
  BY <1>9, <1>10, CopyOutWords DEF CopyOf
<1> QED BY <1>2, <1>3, <1>4, <1>5, <1>6, <1>7, <1>8, <1>11

\* What a step of the fixup does to the words that are not its business.
LEMMA FixEffect ==
  ASSUME CopyInv, WordsInv, Fix
  PROVE  /\ MayFix /\ at' = NextSlot /\ UNCHANGED <<heap, weak, phase, traced>>
         /\ NoCopy \/ (FixSurvivor /\ CopyOf(Slot, <<New(heap[Slot][1])>>))
         /\ \A c \in DOMAIN to :
              /\ to'[c].of = to[c].of /\ Len(to'[c].words) = Len(to[c].words)
              /\ c # object => \A i \in DOMAIN to[c].words : to'[c].words[i] = to[c].words[i]
         /\ \A q \in From \cup Permanent : Len(mem'[q]) = Len(mem[q])
         /\ \A o \in From : mem'[o] = mem[o] \/ mem'[o] = <<Null>>
<1>1. TypeOK BY DEF CopyInv
<1>2. MayFix /\ UNCHANGED <<heap, weak, traced>>
  BY DEF Fix, FixNone, FixCopied, FixDemote, FixDead, FixPermanent, FixSurvivor
<1>3. object \notin From BY <1>2, FixObject
<1>4. mem \in Memory /\ Null \in Addresses BY <1>1 DEF TypeOK, Memory, Addresses
<1>5. CASE FixNone BY <1>5 DEF FixNone, NoCopy
<1>6. CASE FixCopied \/ FixDemote
  <2>1. PICK v \in Addresses : Store(mem, to, v)
    BY <1>1, <1>4, <1>6, TombstoneKnown DEF FixCopied, FixDemote
  <2>2. UNCHANGED <<to_used, tombstone, phase>> /\ at' = NextSlot
    BY <1>6 DEF FixCopied, FixDemote
  <2>3. /\ Len(to') = Len(to)
        /\ \A c \in DOMAIN to :
             /\ to'[c].of = to[c].of /\ Len(to'[c].words) = Len(to[c].words)
             /\ \A i \in DOMAIN to[c].words :
                  to'[c].words[i] = IF c = object /\ i = at.slot THEN v ELSE to[c].words[i]
        /\ \A q \in From \cup Permanent :
             Len(mem'[q]) = Len(mem[q]) /\ (q # object => mem'[q] = mem[q])
    BY <1>2, <1>4, <2>1, FixStores
  <2> QED BY <1>2, <1>3, <2>2, <2>3 DEF NoCopy
<1>7. CASE FixDead
  <2>1. /\ Cell(Slot) /\ Store([mem EXCEPT ![Slot][1] = Null], to, Null)
        /\ UNCHANGED <<to_used, tombstone, phase>> /\ at' = NextSlot
    BY <1>7 DEF FixDead
  <2>2. PICK m : m = [mem EXCEPT ![Slot][1] = Null] OBVIOUS
  <2>3. Slot \in From \cup Permanent /\ (Slot \in From => Len(mem[Slot]) = 1)
    BY <2>1, CheneyAssumption DEF Cell
  <2>4. PICK s : s = Slot OBVIOUS
  <2>5. /\ m \in Memory
        /\ \A q \in From \cup Permanent : Len(m[q]) = Len(mem[q])
        /\ \A q \in From \cup Permanent : q # s => m[q] = mem[q]
        /\ Len(mem[s]) = 1 => m[s] = <<Null>>
    <3>1. PICK v : v = Null OBVIOUS
    <3>2. /\ m = [mem EXCEPT ![s][1] = v] /\ s \in From \cup Permanent
          /\ v \in Addresses \/ mem[s] = <<>>
      BY <1>4, <2>2, <2>3, <2>4, <3>1
    <3>3. /\ \A q \in From \cup Permanent : Len(m[q]) = Len(mem[q])
          /\ \A q \in From \cup Permanent : q # s => m[q] = mem[q]
      BY <1>1, <3>2, Overwrite
    <3>4. m \in Memory BY <1>1, <3>2, Overwrite
    <3>5. Len(mem[s]) = 1 => m[s] = <<v>> BY ZenonT(60), <1>1, <3>2, Overwrite
    <3> QED BY <3>1, <3>3, <3>4, <3>5
  <2>6. Store(m, to, Null) BY <2>1, <2>2
  <2>7. /\ Len(to') = Len(to)
        /\ \A c \in DOMAIN to :
             /\ to'[c].of = to[c].of /\ Len(to'[c].words) = Len(to[c].words)
             /\ \A i \in DOMAIN to[c].words :
                  to'[c].words[i] = IF c = object /\ i = at.slot THEN Null ELSE to[c].words[i]
        /\ \A q \in From \cup Permanent :
             Len(mem'[q]) = Len(mem[q]) /\ (q # object => mem'[q] = m[q])
    BY <1>2, <1>4, <2>5, <2>6, FixStores
  <2>8. \A o \in From : mem'[o] = mem[o] \/ mem'[o] = <<Null>>
    BY <1>3, <2>3, <2>4, <2>5, <2>7
  <2> QED BY <1>2, <2>1, <2>7, <2>8 DEF NoCopy
<1>8. CASE FixPermanent
  <2>1. /\ Slot \in Permanent /\ UNCHANGED <<to, to_used, tombstone, phase>> /\ at' = NextSlot
        /\ mem' = [mem EXCEPT ![Slot][1] = New(Content)]
    BY <1>8 DEF FixPermanent
  <2>2. PICK s, v : s = Slot /\ v = New(Content) OBVIOUS
  <2>3. v \in Addresses \/ mem[s] = <<>>
    <3>1. mem[s] \in Seq(Addresses) BY <1>1, <2>1, <2>2 DEF TypeOK
    <3>2. mem[s] = <<>> \/ mem[s][1] \in Addresses BY <3>1
    <3>3. Content = mem[s][1] BY <2>2 DEF Content
    <3> QED BY <1>1, <2>2, <3>2, <3>3, NewKnown
  <2>4. /\ \A q \in From \cup Permanent : Len(mem'[q]) = Len(mem[q])
        /\ \A q \in From \cup Permanent : q # s => mem'[q] = mem[q]
    <3>1. PICK m : m = mem' OBVIOUS
    <3>2. m = [mem EXCEPT ![s][1] = v] /\ s \in From \cup Permanent BY <2>1, <2>2, <3>1
    <3> QED BY <1>1, <2>3, <3>1, <3>2, Overwrite
  <2>5. \A o \in From : mem'[o] = mem[o] BY <2>1, <2>2, <2>4, CheneyAssumption
  <2> QED BY <1>2, <2>1, <2>4, <2>5 DEF NoCopy
<1>9. CASE FixSurvivor
  <2>1. CopyOf(Slot, <<New(heap[Slot][1])>>) /\ Stored(Len(to) + 1)
    BY <1>9, SurvivorWords
  <2>2. at' = NextSlot /\ phase' = phase
    <3>1. ~(to_used + 1 + Len(<<New(Content)>>) > Capacity)
      <4>1. to_used + 1 + Len(heap[Slot]) <= Capacity /\ Len(heap[Slot]) = 1
        BY <1>9, SurvivorWords, RoomForCopy
      <4>2. to_used \in Nat /\ Capacity \in Nat
        BY <1>1, FootprintFinite, FS_CardinalityType DEF TypeOK, Capacity
      <4> QED BY <4>1, <4>2
    <3> QED BY <1>9, <3>1 DEF FixSurvivor, CopyOut
  <2> QED BY <1>2, <1>3, <1>9, <2>1, <2>2 DEF Stored
<1> QED BY <1>5, <1>6, <1>7, <1>8, <1>9 DEF Fix

\* The fixup keeps the invariant of the words.
LEMMA FixKeeps ==
  ASSUME CopyInv, WordsInv, Fix, CopyInv'
  PROVE  WordsInv'
<1>1. TypeOK /\ TypeOK' BY DEF CopyInv
<1>2. /\ MayFix /\ at' = NextSlot /\ UNCHANGED <<heap, weak, phase, traced>>
      /\ NoCopy \/ (FixSurvivor /\ CopyOf(Slot, <<New(heap[Slot][1])>>))
      /\ \A c \in DOMAIN to :
           /\ to'[c].of = to[c].of /\ Len(to'[c].words) = Len(to[c].words)
           /\ c # object => \A i \in DOMAIN to[c].words : to'[c].words[i] = to[c].words[i]
      /\ \A q \in From \cup Permanent : Len(mem'[q]) = Len(mem[q])
      /\ \A o \in From : mem'[o] = mem[o] \/ mem'[o] = <<Null>>
  BY FixEffect
<1>3. phase = "weak" /\ IsWeak(object) BY <1>2, FixObject
<1>4. NoCopy \/ \E o \in From : \E words : CopyOf(o, words) BY <1>2, SurvivorWords
<1>5. Lengths' /\ Accounted'
  <2>1. to' \in Seq(Copies) BY <1>1 DEF TypeOK, Copies
  <2>2. phase' # "overflow" BY <1>2, <1>3
  <2> QED BY <1>2, <1>4, <2>1, <2>2, CopyKeeps
<1>6. WeakListed'
  <2> SUFFICES ASSUME NEW k \in DOMAIN weak PROVE IsWeak(weak[k])'
    BY <1>2 DEF WeakListed
  <2>1. weak[k] \in (Permanent \cap Weak) \cup DOMAIN to BY <1>1, SeqElement DEF TypeOK
  <2>2. IsWeak(weak[k]) BY DEF WordsInv, WeakListed
  <2>3. weak'[k] = weak[k] BY <1>2
  <2> QED BY <1>2, <2>1, <2>2, <2>3, CheneyAssumption DEF IsWeak
<1>7. FromKept' BY <1>2, <1>3 DEF WordsInv, FromKept
<1>8. RootsKept' BY <1>2, <1>3 DEF RootsKept, Tracing
<1>9. RootsSettled'
  <2> SUFFICES ASSUME NEW n \in DOMAIN Visited, Visited[n] \notin Weak,
                      NEW i \in DOMAIN heap[Visited[n]]
               PROVE  Settled(heap[Visited[n]][i])'
    BY <1>2 DEF RootsSettled
  <2>1. PICK a : a = heap[Visited[n]][i] OBVIOUS
  <2>2. Settled(a) BY <1>3, <2>1 DEF WordsInv, RootsSettled, Visiting
  <2>3. Settled(a)' BY <1>1, <1>4, <2>2, SettledStays
  <2> QED BY <1>2, <2>1, <2>3 DEF Settled, Forwarded
<1>10. Faithful'
  <2> SUFFICES ASSUME NEW c \in DOMAIN to', to'[c].of \notin Weak,
                      NEW i \in DOMAIN heap'[to'[c].of]
               PROVE  /\ Settled(heap[to[c].of][i])'
                      /\ to'[c].words[i] = New(heap[to[c].of][i])'
    BY <1>2, <1>3 DEF Faithful, Behind
  <2>1. PICK a : a = heap[to'[c].of][i] OBVIOUS
  <2> SUFFICES Settled(a)' /\ to'[c].words[i] = New(a)'
    BY <1>2, <2>1 DEF Settled, Forwarded, New
  <2>2. CASE c \in DOMAIN to
    <3>1. to'[c].of = to[c].of /\ a = heap[to[c].of][i] /\ i \in DOMAIN heap[to[c].of]
      BY <1>2, <2>1, <2>2
    <3>2. Settled(a) /\ to[c].words[i] = New(a)
      BY <1>3, <2>2, <3>1 DEF WordsInv, Faithful, Behind
    <3>3. c # object
      <4>1. c \in Nat BY <1>1, <2>2, CopyKnown
      <4> QED BY <1>3, <3>1, <4>1 DEF IsWeak
    <3>4. i \in DOMAIN to[c].words
      <4>1. Len(to[c].words) = Len(heap[to[c].of]) BY <2>2 DEF WordsInv, Lengths
      <4>2. heap[to[c].of] \in Seq(Addresses) /\ to[c].words \in Seq(Addresses)
        BY <1>1, <2>2, CopyKnown
      <4> QED BY <3>1, <4>1, <4>2
    <3>5. to'[c].words[i] = to[c].words[i] BY <1>2, <2>2, <3>3, <3>4
    <3> QED BY <1>1, <1>4, <3>2, <3>5, SettledStays
  <2>3. CASE c \notin DOMAIN to
    <3>1. /\ Len(to) \in Nat /\ DOMAIN to = 1..Len(to)
          /\ Len(to') \in Nat /\ DOMAIN to' = 1..Len(to')
      <4>1. to \in Seq(Copies) /\ to' \in Seq(Copies) BY <1>1 DEF TypeOK, Copies
      <4> QED BY <4>1
    <3>2. CASE NoCopy BY <2>3, <3>1, <3>2 DEF NoCopy
    <3>3. CASE FixSurvivor /\ CopyOf(Slot, <<New(heap[Slot][1])>>)
      <4>1. c = Len(to) + 1 BY <2>3, <3>1, <3>3 DEF CopyOf
      <4>2. to'[c].of = Slot /\ to'[c].words = <<New(heap[Slot][1])>>
        BY <3>3, <4>1 DEF CopyOf
      <4>3. Len(heap[Slot]) = 1 /\ Settled(heap[Slot][1]) /\ Slot \in From
        BY <3>3, SurvivorWords
      <4>4. heap[Slot] \in Seq(Addresses) BY <1>1, <4>3 DEF TypeOK
      <4>5. i = 1 BY <1>2, <4>2, <4>3, <4>4
      <4>6. Settled(a) /\ to'[c].words[i] = New(a) BY <2>1, <4>2, <4>3, <4>5
      <4> QED BY <1>1, <1>4, <4>6, SettledStays
    <3> QED BY <1>2, <3>2, <3>3
  <2> QED BY <2>2, <2>3
<1> QED BY <1>5, <1>6, <1>7, <1>8, <1>9, <1>10 DEF WordsInv

\* The two invariants of the collection, over all its phases.
LEMMA WordsInvAlways == Spec => [](CopyInv /\ WordsInv)
<1> DEFINE Inv == CopyInv /\ WordsInv
<1>1. Init => Inv
  <2> SUFFICES ASSUME Init PROVE WordsInv BY CopyInvInit
  <2>1. to = <<>> /\ DOMAIN to = {} /\ Copied = {} BY DEF Init, Copied
  <2>2. Accounted
    <3>1. Footprint({}) = {} BY DEF Footprint
    <3> QED BY <2>1, <3>1, FS_EmptySet DEF Init, Accounted
  <2>3. Lengths /\ Faithful BY <2>1 DEF Init, Lengths, Faithful
  <2>4. WeakListed BY DEF Init, WeakListed
  <2>5. FromKept /\ RootsKept
    BY DEF Init, FromKept, RootsKept
  <2>6. RootsSettled
    <3>1. heap \in [From \cup Permanent -> Seq(Addresses)] BY CopyInvInit DEF CopyInv, TypeOK
    <3> SUFFICES ASSUME NEW n \in DOMAIN Visited, NEW i \in DOMAIN heap[Visited[n]]
                 PROVE  Visiting(n, i)
      BY DEF RootsSettled
    <3>2. n \in Nat /\ n # 0 /\ Visited[n] \in Permanent BY CheneyAssumption, SeqElement
    <3>3. heap[Visited[n]] \in Seq(Addresses) BY <3>1, <3>2
    <3>4. i \in Nat /\ i # 0 BY <3>3
    <3> QED BY <3>2, <3>4 DEF Init, First, Visiting
  <2> QED BY <2>2, <2>3, <2>4, <2>5, <2>6 DEF WordsInv
<1>2. Inv /\ [Next]_vars => Inv'
  <2>1. ASSUME CopyInv, WordsInv, Next PROVE CopyInv' /\ WordsInv'
    <3>1. CopyInv' BY <2>1, CopyInvStep
    <3>2. CASE Forward BY <2>1, <3>1, <3>2, ForwardKeeps
    <3>3. CASE RegisterWeak \/ NextObject \/ NextPhase BY <2>1, <3>3, <3>1, MoveKeeps
    <3>4. CASE Fix BY <2>1, <3>1, <3>4, FixKeeps
    <3> QED BY <2>1, <3>1, <3>2, <3>3, <3>4 DEF Next, Forward, Fix
  <2>2. ASSUME CopyInv, WordsInv, UNCHANGED vars PROVE CopyInv' /\ WordsInv'
    <3> USE <2>2 DEF vars
    <3>1. CopyInv' BY DEF CopyInv, TypeOK, OneCopyEach, Forwarded, Count
    <3>2. (Lengths /\ WeakListed /\ FromKept)'
      BY DEF WordsInv, Lengths, WeakListed, FromKept, IsWeak
    <3>3. Accounted' BY DEF WordsInv, Accounted, Footprint, Copied
    <3>4. (Faithful /\ RootsKept /\ RootsSettled)'
      BY DEF WordsInv, Faithful, RootsKept, RootsSettled, Settled, Forwarded, New, Behind, Visiting
    <3> QED BY <3>1, <3>2, <3>3, <3>4 DEF WordsInv
  <2> QED BY <2>1, <2>2
<1> QED BY <1>1, <1>2, PTL DEF Spec

\* A copy has the words of its original, forwarded behind the scan and as they
\* were ahead of it, for every heap and every order of the roots (scan_object,
\* forward_object).
THEOREM CopiesAreFaithfulAlways == Spec => []CopiesAreFaithful
<1>1. WordsInv => CopiesAreFaithful
  BY DEF WordsInv, Faithful, Lengths, CopiesAreFaithful
<1> QED BY <1>1, WordsInvAlways, PTL

\* The assertion in bump_to never fails: to-space has room for whatever is
\* copied, the SOME cells of weak_fixup included.
THEOREM ToSpaceSufficesAlways == Spec => []ToSpaceSuffices
<1>1. WordsInv => ToSpaceSuffices BY DEF WordsInv, Accounted, ToSpaceSuffices
<1> QED BY <1>1, WordsInvAlways, PTL

-----------------------------------------------------------------------------
(* The trace is one *)

\* The end of the trace, and what it has copied up to there.
Over == phase \in {"weak", "done"}
Evacuated == {to[c].of : c \in IF Over THEN 1..traced ELSE DOMAIN to}

\* A step copies one object that something copied, or a root, refers to; or it
\* ends the trace when nothing is left to copy; or it is no step of the trace.
Evacuates(o) ==
  /\ ~Over /\ o \in From \ Evacuated
  /\ o \in RootRefs \/ \E p \in Evacuated : o \in Strong(p)
  /\ Evacuated' = Evacuated \cup {o} /\ ~Over'
EndsTrace ==
  /\ RootRefs \subseteq Evacuated /\ \A p \in Evacuated : Strong(p) \subseteq Evacuated
  /\ Evacuated' = Evacuated /\ Over'
OffTrace == Evacuated' = Evacuated /\ Over' = Over

\* What has a tombstone has a copy.
LEMMA ForwardedCopied ==
  ASSUME CopyInv, NEW a, Forwarded(a)
  PROVE  tombstone[a] \in DOMAIN to /\ to[tombstone[a]].of = a
<1>1. a \in From /\ tombstone[a] # 0 BY DEF Forwarded
<1>2. tombstone[a] \in 0..Len(to) /\ Len(to) \in Nat /\ DOMAIN to = 1..Len(to)
  BY <1>1 DEF CopyInv, TypeOK
<1> QED BY <1>1, <1>2 DEF CopyInv, OneCopyEach

\* What is copied in the trace is named by a root, or by a copied object.
LEMMA ForwardEvacuates ==
  ASSUME CopyInv, WordsInv, Forward, CopyInv'
  PROVE  OffTrace \/ \E o \in From : Evacuates(o)
<1>1. TypeOK /\ TypeOK' BY DEF CopyInv
<1>2. /\ phase \in Tracing /\ HasSlot({phase}) /\ ~IsWeak(object)
      /\ UNCHANGED <<heap, phase>>
      /\ NoCopy \/ (Slot \in From /\ CopyOf(Slot, heap[Slot]))
      /\ Stored(Landing)
  BY ForwardWords
<1>3. /\ object \in Permanent \cup DOMAIN to
      /\ object \in DOMAIN to =>
           /\ at.slot \in DOMAIN to[object].words /\ Slot = to[object].words[at.slot]
      /\ object \in Permanent =>
           /\ at.slot \in DOMAIN mem[object] /\ Slot = mem[object][at.slot]
      /\ at.slot \in Nat /\ at.obj \in Nat
  BY <1>1, <1>2, ObjectWords
<1>4. ~Over /\ ~Over' /\ Evacuated = Copied /\ Evacuated' = Copied'
  BY <1>2 DEF Over, Evacuated, Copied, Tracing
<1>5. /\ Len(to) \in Nat /\ DOMAIN to = 1..Len(to) /\ DOMAIN to' = 1..Len(to')
  <2>1. to \in Seq(Copies) /\ to' \in Seq(Copies) BY <1>1 DEF TypeOK, Copies
  <2> QED BY <2>1
<1>6. \A c \in DOMAIN to : to'[c].of = to[c].of BY <1>2 DEF Stored
<1>7. CASE NoCopy
  <2>1. DOMAIN to' = DOMAIN to BY <1>5, <1>7 DEF NoCopy
  <2>2. Copied' = Copied BY <1>6, <2>1 DEF Copied
  <2>3. Over' = Over BY <1>2 DEF Over
  <2> QED BY <1>4, <2>2, <2>3 DEF OffTrace
<1>8. CASE Slot \in From /\ CopyOf(Slot, heap[Slot])
  <2>1. PICK o : o = Slot OBVIOUS
  <2>2. o \in From /\ CopyOf(o, heap[o]) BY <1>8, <2>1
  <2>3. Copied' = Copied \cup {o}
    <3>1. DOMAIN to' = DOMAIN to \cup {Len(to) + 1} /\ to'[Len(to) + 1].of = o
      BY <1>5, <2>2 DEF CopyOf
    <3> QED BY <1>6, <3>1 DEF Copied
  <2>4. o \notin Copied
    <3> SUFFICES ASSUME NEW c \in DOMAIN to, to[c].of = o PROVE FALSE BY DEF Copied
    <3>1. tombstone[o] = c /\ c # 0 BY <1>1, CopyKnown DEF CopyInv, OneCopyEach
    <3> QED BY <2>2, <3>1 DEF CopyOf, Forwarded
  <2>5. o \in RootRefs \/ \E p \in Copied : o \in Strong(p)
    <3>1. CASE phase = "roots"
      <4>1. at.obj \in DOMAIN Visited /\ object = Visited[at.obj]
        BY <1>1, <1>2, <3>1, CheneyAssumption DEF HasSlot, Count, TypeOK, object, Nth
      <4>2. object \in Permanent /\ object \notin Weak
        BY <1>2, <4>1, CheneyAssumption, SeqElement DEF IsWeak
      <4>3. at.slot \in DOMAIN heap[object]
        <5>1. mem[object] \in Seq(Addresses) /\ heap[object] \in Seq(Addresses)
          BY <1>1, <4>2 DEF TypeOK
        <5>2. Len(mem[object]) = Len(heap[object]) BY <4>2 DEF WordsInv, Lengths
        <5> QED BY <1>3, <4>2, <5>1, <5>2
      <4>4. heap[object][at.slot] = o
        <5>1. Forwarded(heap[object][at.slot]) => tombstone[heap[object][at.slot]] \notin From
          BY <1>1, CheneyAssumption DEF Forwarded, TypeOK
        <5> QED BY <1>2, <1>3, <2>1, <2>2, <4>2, <4>3, <5>1 DEF WordsInv, RootsKept
      <4>5. o \in Strong(object) BY <2>2, <4>2, <4>3, <4>4 DEF Strong
      <4> QED BY <4>1, <4>5 DEF RootRefs
    <3>2. CASE phase = "scan"
      <4>1. object = at.obj /\ object \in DOMAIN to
        BY <1>1, <1>2, <1>5, <3>2 DEF HasSlot, Count, TypeOK, object, Nth
      <4>2. object \in Nat /\ to[object].of \notin Weak BY <1>2, <1>5, <4>1 DEF IsWeak
      <4>3. at.slot \in DOMAIN heap[to[object].of]
        <5>1. to[object].words \in Seq(Addresses) /\ heap[to[object].of] \in Seq(Addresses)
          BY <1>1, <4>1, CopyKnown
        <5>2. Len(to[object].words) = Len(heap[to[object].of]) BY <4>1 DEF WordsInv, Lengths
        <5> QED BY <1>3, <4>1, <5>1, <5>2
      <4>4. ~Behind(object, at.slot) BY <1>3, <3>2, <4>1 DEF Behind
      <4>5. o = heap[to[object].of][at.slot]
        BY <1>3, <2>1, <4>1, <4>2, <4>3, <4>4 DEF WordsInv, Faithful
      <4>6. o \in Strong(to[object].of) BY <2>2, <4>2, <4>3, <4>5 DEF Strong
      <4> QED BY <4>1, <4>6 DEF Copied
    <3> QED BY <1>2, <3>1, <3>2 DEF Tracing
  <2> QED BY <1>4, <2>2, <2>3, <2>4, <2>5 DEF Evacuates
<1> QED BY <1>2, <1>7, <1>8

\* When the scan meets the allocation no reference to an object left behind
\* remains.
LEMMA ScanCloses ==
  ASSUME CopyInv, WordsInv, phase = "scan", at.obj > Len(to)
  PROVE  RootRefs \subseteq Copied /\ \A p \in Copied : Strong(p) \subseteq Copied
<1>1. TypeOK BY DEF CopyInv
<1>2. \A a \in From : Settled(a) => a \in Copied
  BY ForwardedCopied DEF Settled, Copied
<1>3. RootRefs \subseteq Copied
  <2> SUFFICES ASSUME NEW n \in DOMAIN Visited, NEW a \in Strong(Visited[n])
               PROVE  a \in Copied
    BY DEF RootRefs
  <2>1. Visited[n] \notin Weak /\ a \in From BY DEF Strong
  <2>2. PICK i \in DOMAIN heap[Visited[n]] : a = heap[Visited[n]][i] BY <2>1 DEF Strong
  <2>3. Settled(a) BY <2>1, <2>2 DEF WordsInv, RootsSettled, Visiting
  <2> QED BY <1>2, <2>1, <2>3
<1>4. ASSUME NEW p \in Copied, NEW a \in Strong(p) PROVE a \in Copied
  <2>1. PICK c \in DOMAIN to : to[c].of = p BY DEF Copied
  <2>2. p \notin Weak /\ a \in From BY <1>4 DEF Strong
  <2>3. PICK i \in DOMAIN heap[p] : a = heap[p][i] BY <1>4, <2>2 DEF Strong
  <2>4. Behind(c, i)
    <3>1. c \in Nat /\ c <= Len(to) /\ Len(to) \in Nat /\ at.obj \in Nat
      BY SMTT(40), <1>1, CopyKnown DEF TypeOK
    <3> QED BY <3>1 DEF Behind
  <2>5. Settled(a) BY <2>1, <2>2, <2>3, <2>4 DEF WordsInv, Faithful
  <2> QED BY <1>2, <2>2, <2>5
<1> QED BY <1>3, <1>4

\* Every step of the collection is one of the trace or stutters there.
LEMMA TraceStep ==
  ASSUME CopyInv, WordsInv, Next, CopyInv'
  PROVE  OffTrace \/ EndsTrace \/ \E o \in From : Evacuates(o)
<1>1. TypeOK BY DEF CopyInv
<1>2. CASE Forward BY <1>2, ForwardEvacuates
<1>3. CASE RegisterWeak \/ NextObject
  BY <1>3 DEF RegisterWeak, NextObject, OffTrace, Over, Evacuated
<1>4. CASE NextPhase
  <2>1. UNCHANGED to BY <1>4 DEF NextPhase
  <2>2. CASE phase = "roots"
    <3>1. phase' = "scan" BY <1>4, <2>2 DEF NextPhase
    <3> QED BY <2>1, <2>2, <3>1 DEF OffTrace, Over, Evacuated
  <2>3. CASE phase = "scan"
    <3>1. phase' = "weak" /\ traced' = Len(to) /\ at.obj > Len(to)
      BY <1>4, <2>3 DEF NextPhase, Count
    <3>2. DOMAIN to = 1..Len(to) BY <1>1 DEF TypeOK
    <3>3. Over' /\ Evacuated' = Copied /\ Evacuated = Copied
      BY <2>1, <2>3, <3>1, <3>2 DEF Over, Evacuated, Copied
    <3> QED BY <2>3, <3>1, <3>3, ScanCloses DEF EndsTrace
  <2>4. CASE phase = "weak"
    <3>1. phase' = "done" /\ traced' = traced BY <1>4, <2>4 DEF NextPhase
    <3> QED BY <2>1, <2>4, <3>1 DEF OffTrace, Over, Evacuated
  <2> QED BY <1>4, <2>2, <2>3, <2>4 DEF NextPhase, Tracing
<1>5. CASE Fix
  <2>1. /\ UNCHANGED <<phase, traced>> /\ MayFix
        /\ \A c \in DOMAIN to : to'[c].of = to[c].of
    BY <1>5, FixEffect
  <2>2. Over /\ Over' BY <2>1 DEF Over, MayFix, HasSlot
  <2>3. 1..traced \subseteq DOMAIN to BY <1>1 DEF TypeOK
  <2>4. Evacuated' = Evacuated BY <2>1, <2>2, <2>3 DEF Evacuated
  <2> QED BY <2>2, <2>4 DEF OffTrace
<1> QED BY <1>2, <1>3, <1>4, <1>5 DEF Next, Forward, Fix

\* The serial collection up to its fixup is a trace from the roots: it copies
\* what a root or a copied object refers to, and it goes on to the fixup when
\* nothing refers to what is not copied (gc.rs, cheney_scan).
THEOREM CollectionTraces == Spec => ImplementsTrace
<1> DEFINE Inv == CopyInv /\ WordsInv
<1>1. Init => Traced!Init
  BY DEF Init, Traced!Init
<1>2. Inv /\ Inv' /\ [Next]_vars => [Traced!Next]_(Traced!vars)
  <2> SUFFICES ASSUME CopyInv, WordsInv, CopyInv', [Next]_vars
               PROVE  [Traced!Next]_(Traced!vars)
    OBVIOUS
  <2>1. heap' = heap
    BY DEF vars, Next, RegisterWeak, ForwardNothing, ForwardKnown, ForwardCopy, NextObject,
       NextPhase, FixNone, FixCopied, FixDemote, FixDead, FixPermanent, FixSurvivor
  <2>2. /\ [o \in From |-> Strong(o)]' = [o \in From |-> Strong(o)] /\ RootRefs' = RootRefs
    BY <2>1 DEF Strong, RootRefs
  <2>3. OffTrace \/ EndsTrace \/ \E o \in From : Evacuates(o)
    <3>1. CASE Next BY <3>1, TraceStep
    <3>2. CASE UNCHANGED vars BY <3>2 DEF vars, OffTrace, Over, Evacuated
    <3> QED BY <3>1, <3>2
  <2>4. Evacuated \subseteq From
    <3>1. \A c \in DOMAIN to : to[c].of \in From BY CopyKnown DEF CopyInv
    <3>2. 1..traced \subseteq DOMAIN to BY DEF CopyInv, TypeOK
    <3> QED BY <3>1, <3>2 DEF Evacuated
  <2>5. CASE OffTrace
    <3>1. (Traced!vars)' = Traced!vars
      BY <2>2, <2>5 DEF OffTrace, Over, Evacuated, Traced!vars, Traced!graph
    <3> QED BY <3>1
  <2>6. CASE EndsTrace
    <3>1. Traced!Finish
      BY <2>2, <2>4, <2>6 DEF EndsTrace, Over, Evacuated, Traced!Finish, Traced!graph
    <3> QED BY <3>1 DEF Traced!Next
  <2>7. ASSUME NEW o \in From, Evacuates(o) PROVE Traced!Next
    <3>1. Traced!Evacuate(o)
      BY <2>2, <2>4, <2>7 DEF Evacuates, Over, Evacuated, Traced!Evacuate, Traced!graph
    <3> QED BY <3>1 DEF Traced!Next
  <2> QED BY <2>3, <2>5, <2>6, <2>7
<1> QED BY <1>1, <1>2, WordsInvAlways, PTL DEF Spec, ImplementsTrace, Traced!Spec

-----------------------------------------------------------------------------
(* The list of weak objects *)

\* What has been copied in the trace is in every closed set, and closed itself
\* when the trace is over.
Reached ==
  /\ \A S \in SUBSET From : Closed(S) => Evacuated \subseteq S
  /\ Over => RootRefs \subseteq Evacuated /\ \A p \in Evacuated : Strong(p) \subseteq Evacuated

\* The object in the heap before the collection.
Original(x) == IF x \in Nat THEN to[x].of ELSE x

\* The trace has met the object, one that does not move or a copy, and has
\* gone on to the next.
Past(x) ==
  \/ \E n \in DOMAIN Visited : x = Visited[n] /\ (phase = "roots" => n < at.obj)
  \/ Over /\ x \in 1..traced
  \/ phase = "scan" /\ x \in DOMAIN to /\ x < at.obj

\* Every weak object that the trace has met is on the list, once.
Listed ==
  /\ \A k, l \in DOMAIN weak : weak[k] = weak[l] => k = l
  /\ \A k \in DOMAIN weak : Past(weak[k])
  /\ \A x \in Permanent \cup DOMAIN to :
       Past(x) /\ IsWeak(x) /\ heap[Original(x)] # <<>> => \E k \in DOMAIN weak : weak[k] = x

\* The trace leaves a weak object as it is.
Untraced ==
  phase \in Tracing =>
    /\ at.obj <= Count /\ IsWeak(object) => at.slot = 1
    /\ \A x \in Permanent \cup DOMAIN to : IsWeak(x) =>
         \A i \in DOMAIN heap[Original(x)] : Words(x)[i] = heap[Original(x)][i]

ListInv == heap \in Heaps /\ Reached /\ Listed /\ Untraced

\* What is reached stays so, step by step.
LEMMA ReachedKept ==
  ASSUME Reached, heap' = heap, OffTrace \/ EndsTrace \/ \E o \in From : Evacuates(o)
  PROVE  Reached'
<1>1. /\ \A S : Closed(S)' <=> Closed(S)
      /\ RootRefs' = RootRefs /\ \A p : Strong(p)' = Strong(p)
  BY DEF Closed, RootRefs, Strong
<1>2. ASSUME NEW S \in SUBSET From, Closed(S) PROVE Evacuated' \subseteq S
  <2>1. Evacuated \subseteq S BY <1>2 DEF Reached
  <2>2. CASE OffTrace \/ EndsTrace BY <2>1, <2>2 DEF OffTrace, EndsTrace
  <2>3. ASSUME NEW o \in From, Evacuates(o) PROVE Evacuated' \subseteq S
    <3>1. o \in S BY <1>2, <2>1, <2>3 DEF Evacuates, Closed
    <3> QED BY <2>1, <2>3, <3>1 DEF Evacuates
  <2> QED BY <2>2, <2>3
<1>3. ASSUME Over'
      PROVE  RootRefs \subseteq Evacuated' /\ \A p \in Evacuated' : Strong(p) \subseteq Evacuated'
  BY <1>3 DEF OffTrace, EndsTrace, Evacuates, Reached
<1> QED BY <1>1, <1>2, <1>3 DEF Reached

\* When the trace is over, what it has copied is all that is alive.
LEMMA EvacuatedIsLive ==
  ASSUME CopyInv, Reached, Over
  PROVE  Evacuated = Live
<1>1. Evacuated \subseteq From
  <2>1. \A c \in DOMAIN to : to[c].of \in From BY CopyKnown DEF CopyInv
  <2>2. 1..traced \subseteq DOMAIN to BY DEF CopyInv, TypeOK
  <2> QED BY <2>1, <2>2 DEF Evacuated
<1>2. Closed(Evacuated) BY DEF Reached, Closed
<1> QED BY <1>1, <1>2 DEF Reached, Live

\* The objects that the trace has met, and the copies' numbers.
LEMMA PastKnown ==
  ASSUME TypeOK, NEW x, Past(x)
  PROVE  x \in Permanent \cup DOMAIN to
<1>1. \A n \in DOMAIN Visited : Visited[n] \in Permanent BY CheneyAssumption, SeqElement
<1>2. 1..traced \subseteq DOMAIN to BY DEF TypeOK
<1> QED BY <1>1, <1>2 DEF Past

\* Copies are numbers, from 1 on, and what does not move is none.
LEMMA NumbersApart ==
  ASSUME TypeOK
  PROVE  /\ Len(to) \in Nat /\ DOMAIN to = 1..Len(to)
         /\ \A x \in Permanent : x \notin Nat /\ x \notin From
         /\ \A x \in DOMAIN to : x \in Nat /\ x # 0 /\ x \notin From
<1>1. to \in Seq(Copies) BY DEF TypeOK, Copies
<1> QED BY <1>1, CheneyAssumption

\* A step that keeps the copies' originals keeps what an address stands for.
LEMMA NameStays ==
  ASSUME TypeOK, \A c \in DOMAIN to : to'[c].of = to[c].of, NEW x \in Permanent \cup DOMAIN to
  PROVE  (IsWeak(x)' <=> IsWeak(x)) /\ Original(x)' = Original(x)
<1>1. CASE x \in Permanent BY <1>1, NumbersApart DEF IsWeak, Original
<1>2. CASE x \in DOMAIN to BY <1>2, NumbersApart DEF IsWeak, Original
<1> QED BY <1>1, <1>2

\* A step that neither adds to the list nor meets an object keeps the list.
LEMMA ListedStays ==
  ASSUME TypeOK, Listed, UNCHANGED <<heap, weak>>, \A c \in DOMAIN to : to'[c].of = to[c].of,
         \A x \in Permanent \cup DOMAIN to' : Past(x)' <=> Past(x), DOMAIN to \subseteq DOMAIN to'
  PROVE  Listed'
<1>1. ASSUME NEW k \in DOMAIN weak PROVE Past(weak[k])'
  <2>1. PICK x : x = weak[k] OBVIOUS
  <2>2. Past(x) /\ x \in Permanent \cup DOMAIN to BY <2>1, PastKnown DEF Listed
  <2>3. Past(x)' BY <2>2
  <2> QED BY <2>1, <2>3 DEF Past
<1>2. ASSUME NEW x \in Permanent \cup DOMAIN to', Past(x)', IsWeak(x)', heap'[Original(x)'] # <<>>
      PROVE  \E k \in DOMAIN weak' : weak'[k] = x
  <2>1. Past(x) BY <1>2
  <2>2. x \in Permanent \cup DOMAIN to BY <2>1, PastKnown
  <2>3. IsWeak(x) /\ Original(x)' = Original(x) BY <1>2, <2>2, NameStays
  <2> QED BY <1>2, <2>1, <2>2, <2>3 DEF Listed
<1>3. \A k, l \in DOMAIN weak' : weak'[k] = weak'[l] => k = l BY DEF Listed
<1> QED BY <1>1, <1>2, <1>3 DEF Listed

\* Forwarding meets no object, and no weak one is touched.
LEMMA ForwardLists ==
  ASSUME CopyInv, WordsInv, ListInv, Forward, CopyInv'
  PROVE  Listed' /\ Untraced'
<1>1. TypeOK /\ TypeOK' BY DEF CopyInv
<1>2. /\ phase \in Tracing /\ HasSlot({phase}) /\ ~IsWeak(object)
      /\ at' = NextSlot /\ UNCHANGED <<heap, weak, phase, traced>>
      /\ NoCopy \/ (Slot \in From /\ CopyOf(Slot, heap[Slot]))
      /\ Stored(Landing)
  BY ForwardWords
<1>3. \A c \in DOMAIN to : to'[c].of = to[c].of BY <1>2 DEF Stored
<1>4. /\ Len(to) \in Nat /\ DOMAIN to = 1..Len(to) /\ DOMAIN to' = 1..Len(to')
      /\ Len(to') \in Nat
  BY <1>1, NumbersApart
<1>14. \A x \in Permanent : x \notin Nat BY <1>1, NumbersApart
<1>5. Len(to') = Len(to) \/ Len(to') = Len(to) + 1
  BY <1>2 DEF NoCopy, CopyOf
<1>15. DOMAIN to \subseteq DOMAIN to'
  <2>1. PICK n, m : n = Len(to) /\ m = Len(to') OBVIOUS
  <2>2. n \in Nat /\ m \in Nat BY <1>4, <2>1
  <2>4. m = n \/ m = n + 1 BY <1>5, <2>1
  <2>5. n <= m BY <2>2, <2>4
  <2>3. 1..n \subseteq 1..m BY <2>2, <2>5
  <2> QED BY <1>4, <2>1, <2>3
<1>6. at'.obj = at.obj /\ at.obj \in Nat BY <1>1, <1>2, CursorKnown DEF TypeOK
<1>7. phase = "scan" => at.obj <= Len(to) BY <1>2 DEF HasSlot, Count
<1>8. ASSUME NEW x \in Permanent \cup DOMAIN to' PROVE Past(x)' <=> Past(x)
  <2>1. CASE phase = "roots" BY <1>2, <1>6, <2>1 DEF Past, Over
  <2>2. CASE phase = "scan"
    <3>1. (x \in DOMAIN to' /\ x < at'.obj) <=> (x \in DOMAIN to /\ x < at.obj)
      <4>1. PICK n, m, a : n = Len(to) /\ m = Len(to') /\ a = at.obj OBVIOUS
      <4>2. n \in Nat /\ m \in Nat /\ (m = n \/ m = n + 1) /\ a \in Nat /\ a <= n
        BY <1>4, <1>5, <1>6, <1>7, <2>2, <4>1
      <4>3. (x \in 1..m /\ x < a) <=> (x \in 1..n /\ x < a) BY <4>2
      <4> QED BY <1>4, <1>6, <4>1, <4>3
    <3> QED BY <1>2, <2>2, <3>1 DEF Past, Over
  <2> QED BY <1>2, <2>1, <2>2 DEF Tracing
<1>9. Listed' BY <1>1, <1>2, <1>3, <1>8, <1>15, ListedStays DEF ListInv
<1>10. object \in Permanent \cup DOMAIN to BY <1>1, <1>2, ObjectKnown DEF HasSlot
<1>11. ~IsWeak(object)'
  <2>1. object' = object BY <1>2, <1>6 DEF object, Nth, Tracing
  <2>2. PICK x : x = object OBVIOUS
  <2>3. ~IsWeak(x)' BY <1>1, <1>2, <1>3, <1>10, <2>2, NameStays
  <2> QED BY <2>1, <2>2, <2>3 DEF IsWeak
<1>12. ASSUME NEW x \in Permanent \cup DOMAIN to', IsWeak(x)',
              NEW i \in DOMAIN heap[Original(x)']
       PROVE  Words(x)'[i] = heap[Original(x)'][i]
  <2>1. CASE x \in Permanent \cup DOMAIN to
    <3>1. IsWeak(x) /\ Original(x)' = Original(x) BY <1>1, <1>3, <1>12, <2>1, NameStays
    <3>2. x # object BY <1>2, <3>1
    <3>3. Words(x)[i] = heap[Original(x)][i]
      BY <1>2, <1>12, <2>1, <3>1 DEF ListInv, Untraced
    <3>4. CASE x \in Permanent
      BY <1>2, <1>14, <3>1, <3>2, <3>3, <3>4 DEF Stored, Words
    <3>5. CASE x \in DOMAIN to
      <4>1. i \in DOMAIN to[x].words
        <5>1. Original(x) = to[x].of BY <1>4, <3>5 DEF Original
        <5>2. Len(to[x].words) = Len(heap[to[x].of]) BY <3>5 DEF WordsInv, Lengths
        <5>3. heap[to[x].of] \in Seq(Addresses) /\ to[x].words \in Seq(Addresses)
          BY <1>1, <3>5, CopyKnown
        <5> QED BY <1>12, <3>1, <5>1, <5>2, <5>3
      <4>2. to'[x].words[i] = to[x].words[i] BY <1>2, <3>2, <3>5, <4>1 DEF Stored
      <4>3. x \in Nat BY <1>4, <3>5
      <4> QED BY <3>1, <3>3, <4>2, <4>3 DEF Words
    <3> QED BY <2>1, <3>4, <3>5
  <2>2. CASE x \notin Permanent \cup DOMAIN to
    <3>1. x = Len(to) + 1 /\ x \in Nat
      <4>1. x \in DOMAIN to' /\ x \notin DOMAIN to BY <1>12, <2>2
      <4>2. PICK n, m : n = Len(to) /\ m = Len(to') OBVIOUS
      <4>3. n \in Nat /\ (m = n \/ m = n + 1) /\ x \in 1..m /\ x \notin 1..n
        BY <1>4, <1>5, <4>1, <4>2
      <4> QED BY <4>2, <4>3
    <3>2. CopyOf(Slot, heap[Slot]) BY <1>2, <1>4, <1>12, <2>2 DEF NoCopy
    <3>3. to'[x] = [of |-> Slot, words |-> heap[Slot]] BY <3>1, <3>2 DEF CopyOf
    <3> QED BY <3>1, <3>3 DEF Words, Original
  <2> QED BY <2>1, <2>2
<1>13. Untraced' BY <1>2, <1>11, <1>12 DEF Untraced
<1> QED BY <1>9, <1>13

\* A step on to the next object of the trace leaves one object behind.
LEMMA MeetsObject ==
  ASSUME TypeOK, phase \in Tracing, at.obj <= Count,
         at' = [obj |-> at.obj + 1, slot |-> 1], UNCHANGED <<to, phase, traced>>
  PROVE  /\ object \in Permanent \cup DOMAIN to
         /\ \A x : Past(x)' <=> Past(x) \/ x = object
         /\ ~Past(object)
<1>1. at.obj \in Nat /\ at.obj # 0 /\ at'.obj = at.obj + 1 BY DEF TypeOK
<1>2. object \in Permanent \cup DOMAIN to BY ObjectKnown
<1>3. CASE phase = "roots"
  <2>1. object = Visited[at.obj] /\ Count = Len(Visited) BY <1>3 DEF object, Nth, Count
  <2>2. at.obj \in DOMAIN Visited BY <1>1, <2>1, CheneyAssumption
  <2>3. ~Past(object) BY <1>1, <1>3, <2>1, <2>2, WeakAssumption DEF Past, Over
  <2>4. \A n \in DOMAIN Visited : n \in Nat BY CheneyAssumption
  <2>5. ASSUME NEW x PROVE Past(x)' <=> Past(x) \/ x = object
    <3>1. Past(x) <=> \E n \in DOMAIN Visited : x = Visited[n] /\ n < at.obj
      BY <1>3 DEF Past, Over
    <3>2. Past(x)' <=> \E n \in DOMAIN Visited : x = Visited[n] /\ n < at.obj + 1
      BY <1>1, <1>3 DEF Past, Over
    <3>3. \A n \in DOMAIN Visited : n < at.obj + 1 <=> n < at.obj \/ n = at.obj
      BY <1>1, <2>4
    <3> QED BY <2>1, <2>2, <3>1, <3>2, <3>3
  <2> QED BY <1>2, <2>3, <2>5
<1>4. CASE phase = "scan"
  <2>1. object = at.obj /\ Count = Len(to) BY <1>4 DEF object, Nth, Count
  <2>2. at.obj \in DOMAIN to
    <3>1. at.obj <= Len(to) BY <2>1
    <3>2. at.obj \in 1..Len(to) BY <1>1, <3>1, NumbersApart
    <3> QED BY <3>2, NumbersApart
  <2>3. \A n \in DOMAIN Visited : Visited[n] \notin Nat
    BY CheneyAssumption, SeqElement, NumbersApart
  <2>4. ~Past(object) BY <1>1, <1>4, <2>1, <2>3 DEF Past, Over
  <2>5. ASSUME NEW x PROVE Past(x)' <=> Past(x) \/ x = object
    <3>1. x \in DOMAIN to => (x < at.obj + 1 <=> x < at.obj \/ x = at.obj)
      BY <1>1, NumbersApart
    <3> QED BY <1>1, <1>4, <2>1, <2>2, <3>1 DEF Past, Over
  <2> QED BY <1>2, <2>4, <2>5
<1> QED BY <1>3, <1>4 DEF Tracing

\* Going on to the next object or phase keeps the list: a weak object that is
\* not put on it has no words.
LEMMA MoveLists ==
  ASSUME CopyInv, WordsInv, ListInv, RegisterWeak \/ NextObject \/ NextPhase
  PROVE  Listed' /\ Untraced'
<1>1. TypeOK BY DEF CopyInv
<1>2. UNCHANGED <<heap, mem, tombstone, to, to_used>>
  BY DEF RegisterWeak, NextObject, NextPhase
<1>3. Untraced'
  <2>1. phase' \in Tracing => phase \in Tracing /\ at'.slot = 1
    BY DEF RegisterWeak, NextObject, NextPhase, Tracing, First
  <2> QED BY <1>2, <2>1 DEF ListInv, Untraced, IsWeak, Original, Words
<1>4. CASE RegisterWeak
  <2>1. /\ phase \in Tracing /\ at.obj <= Count /\ IsWeak(object)
        /\ weak' = Append(weak, object) /\ at' = [obj |-> at.obj + 1, slot |-> 1]
        /\ UNCHANGED <<to, phase, traced>>
    BY <1>4 DEF RegisterWeak
  <2>2. PICK o : o = object OBVIOUS
  <2>3. /\ o \in Permanent \cup DOMAIN to
        /\ \A x : Past(x)' <=> Past(x) \/ x = o
        /\ ~Past(o)
    BY <1>1, <2>1, <2>2, MeetsObject
  <2>4. weak \in Seq((Permanent \cap Weak) \cup DOMAIN to) BY <1>1 DEF TypeOK
  <2>5. PICK n : n = Len(weak) OBVIOUS
  <2>6. /\ n \in Nat /\ DOMAIN weak = 1..n /\ DOMAIN weak' = 1..(n + 1)
        /\ weak'[n + 1] = o /\ \A k \in 1..n : weak'[k] = weak[k]
    BY <2>1, <2>2, <2>4, <2>5
  <2>7. \A k \in 1..(n + 1) : k \in 1..n \/ k = n + 1 BY <2>6
  <2>8. \A k \in 1..n : weak[k] # o BY <2>3, <2>6 DEF ListInv, Listed
  <2>9. \A k, l \in DOMAIN weak' : weak'[k] = weak'[l] => k = l
    BY <2>6, <2>7, <2>8 DEF ListInv, Listed
  <2>10. ASSUME NEW k \in DOMAIN weak' PROVE Past(weak[k])'
    <3>1. PICK x : x = weak'[k] OBVIOUS
    <3>2. x = o \/ Past(x) BY <2>6, <2>7, <2>10, <3>1 DEF ListInv, Listed
    <3>3. Past(x)' BY <2>3, <3>2
    <3> QED BY <3>1, <3>3 DEF Past
  <2>11. ASSUME NEW x \in Permanent \cup DOMAIN to', Past(x)', IsWeak(x)', heap'[Original(x)'] # <<>>
         PROVE  \E k \in DOMAIN weak' : weak'[k] = x
    <3>1. Past(x) \/ x = o BY <2>3, <2>11
    <3>2. CASE x = o
      <4>1. n + 1 \in DOMAIN weak' BY <2>6
      <4> QED BY <2>6, <3>2, <4>1
    <3>3. CASE Past(x)
      <4>1. x \in Permanent \cup DOMAIN to /\ IsWeak(x) /\ heap[Original(x)] # <<>>
        BY <1>2, <2>11 DEF IsWeak, Original
      <4>2. PICK k \in DOMAIN weak : weak[k] = x BY <3>3, <4>1 DEF ListInv, Listed
      <4>3. k \in DOMAIN weak' /\ weak'[k] = x BY <2>6, <4>2
      <4> QED BY <4>3
    <3> QED BY <3>1, <3>2, <3>3
  <2>12. Listed' BY <2>9, <2>10, <2>11 DEF Listed
  <2> QED BY <1>3, <2>12
<1>5. CASE NextObject /\ phase \in Tracing
  <2>1. /\ at.obj <= Count /\ at.slot > Len(Words(object))
        /\ at' = [obj |-> at.obj + 1, slot |-> 1] /\ UNCHANGED <<weak, to, phase, traced>>
    BY <1>5 DEF NextObject
  <2>2. PICK o : o = object OBVIOUS
  <2>3. o \in Permanent \cup DOMAIN to /\ \A x : Past(x)' <=> Past(x) \/ x = o
    BY <1>1, <1>5, <2>1, <2>2, MeetsObject
  <2>4. IsWeak(o) => heap[Original(o)] = <<>>
    <3> SUFFICES ASSUME IsWeak(o) PROVE heap[Original(o)] = <<>> OBVIOUS
    <3>1. at.slot = 1 BY <1>5, <2>1, <2>2 DEF ListInv, Untraced, IsWeak
    <3>2. Words(o) \in Seq(Addresses) /\ heap[Original(o)] \in Seq(Addresses)
          /\ Len(Words(o)) = Len(heap[Original(o)])
      <4>1. CASE o \in Permanent
        <5>1. o \notin Nat BY <1>1, <4>1, NumbersApart
        <5> QED BY <1>1, <4>1, <5>1 DEF Words, Original, TypeOK, WordsInv, Lengths
      <4>2. CASE o \in DOMAIN to
        <5>1. o \in Nat BY <1>1, <4>2, NumbersApart
        <5> QED BY <1>1, <4>2, <5>1, CopyKnown DEF Words, Original, WordsInv, Lengths
      <4> QED BY <2>3, <4>1, <4>2
    <3>3. Len(Words(o)) < 1 /\ Len(Words(o)) \in Nat BY <2>1, <2>2, <3>1, <3>2
    <3> QED BY <3>2, <3>3
  <2>5. ASSUME NEW k \in DOMAIN weak' PROVE Past(weak[k])'
    <3>1. PICK x : x = weak[k] OBVIOUS
    <3>2. Past(x)' BY <2>1, <2>3, <2>5, <3>1 DEF ListInv, Listed
    <3> QED BY <2>1, <3>1, <3>2 DEF Past
  <2>6. ASSUME NEW x \in Permanent \cup DOMAIN to', Past(x)', IsWeak(x)', heap'[Original(x)'] # <<>>
        PROVE  \E k \in DOMAIN weak' : weak'[k] = x
    <3>1. x \in Permanent \cup DOMAIN to /\ IsWeak(x) /\ heap[Original(x)] # <<>>
      BY <1>2, <2>6 DEF IsWeak, Original
    <3>2. Past(x) BY <2>3, <2>4, <2>6, <3>1
    <3> QED BY <2>1, <3>1, <3>2 DEF ListInv, Listed
  <2>7. \A k, l \in DOMAIN weak' : weak'[k] = weak'[l] => k = l
    BY <2>1 DEF ListInv, Listed
  <2>8. Listed' BY <2>5, <2>6, <2>7 DEF Listed
  <2> QED BY <1>3, <2>8
<1>6. CASE (NextObject /\ phase \notin Tracing) \/ NextPhase
  <2>1. UNCHANGED weak BY <1>6 DEF NextObject, NextPhase
  <2>2. ASSUME NEW x PROVE Past(x)' <=> Past(x)
    <3>1. CASE NextObject /\ phase \notin Tracing
      BY <3>1 DEF NextObject, Past, Over, Tracing
    <3>2. CASE NextPhase /\ phase = "roots"
      <4>1. phase' = "scan" /\ at' = First /\ at.obj > Len(Visited)
        BY <3>2 DEF NextPhase, Count
      <4>2. \A n \in DOMAIN Visited : n < at.obj
        <5>1. Len(Visited) \in Nat /\ DOMAIN Visited = 1..Len(Visited) /\ at.obj \in Nat
          BY <1>1, CheneyAssumption DEF TypeOK
        <5> QED BY <4>1, <5>1
      <4>3. \A c \in DOMAIN to : ~(c < 1)
        <5>1. \A c \in DOMAIN to : c \in Nat /\ c # 0 BY <1>1, NumbersApart
        <5> QED BY <5>1
      <4> QED BY <1>2, <3>2, <4>1, <4>2, <4>3 DEF Past, Over, First
    <3>3. CASE NextPhase /\ phase = "scan"
      <4>1. phase' = "weak" /\ at.obj > Len(to) /\ traced' = Len(to)
        BY <3>3 DEF NextPhase, Count
      <4>2. DOMAIN to = 1..Len(to) /\ \A c \in DOMAIN to : c < at.obj
        <5>1. Len(to) \in Nat /\ DOMAIN to = 1..Len(to) BY <1>1, NumbersApart
        <5>2. at.obj \in Nat BY <1>1 DEF TypeOK
        <5>3. \A c \in 1..Len(to) : c < at.obj BY <4>1, <5>1, <5>2
        <5> QED BY <5>1, <5>3
      <4> QED BY <1>2, <3>3, <4>1, <4>2 DEF Past, Over
    <3>4. CASE NextPhase /\ phase = "weak"
      <4>1. phase' = "done" /\ traced' = traced BY <3>4 DEF NextPhase
      <4> QED BY <1>2, <3>4, <4>1 DEF Past, Over
    <3> QED BY <1>6, <3>1, <3>2, <3>3, <3>4 DEF NextPhase, Tracing
  <2>3. Listed'
    <3>1. DOMAIN to' = DOMAIN to /\ \A c \in DOMAIN to : to'[c].of = to[c].of BY <1>2
    <3>2. \A x \in Permanent \cup DOMAIN to' : Past(x)' <=> Past(x) BY <2>2
    <3>3. DOMAIN to \subseteq DOMAIN to' BY <3>1
    <3> QED BY <1>1, <1>2, <2>1, <3>1, <3>2, <3>3, ListedStays DEF ListInv
  <2> QED BY <1>3, <2>3
<1> QED BY <1>4, <1>5, <1>6

\* The fixup leaves the list as it is.
LEMMA FixLists ==
  ASSUME CopyInv, WordsInv, ListInv, Fix, CopyInv'
  PROVE  Listed' /\ Untraced'
<1>1. TypeOK /\ TypeOK' BY DEF CopyInv
<1>2. /\ UNCHANGED <<heap, weak, phase, traced>> /\ MayFix
      /\ NoCopy \/ CopyOf(Slot, <<New(heap[Slot][1])>>)
      /\ \A c \in DOMAIN to : to'[c].of = to[c].of
  BY FixEffect
<1>3. phase = "weak" BY <1>2, FixObject
<1>4. \A x : Past(x)' <=> Past(x) BY <1>2, <1>3 DEF Past, Over
<1>5. DOMAIN to \subseteq DOMAIN to'
  <2>1. PICK n, m : n = Len(to) /\ m = Len(to') OBVIOUS
  <2>2. n \in Nat /\ DOMAIN to = 1..n BY <1>1, <2>1, NumbersApart
  <2>3. m \in Nat /\ DOMAIN to' = 1..m BY <1>1, <2>1, NumbersApart
  <2>4. m = n \/ m = n + 1 BY <1>2, <2>1 DEF NoCopy, CopyOf
  <2>5. 1..n \subseteq 1..m BY <2>2, <2>3, <2>4
  <2> QED BY <2>2, <2>3, <2>5
<1>6. Listed' BY <1>1, <1>2, <1>4, <1>5, ListedStays DEF ListInv
<1>7. Untraced' BY <1>2, <1>3 DEF Untraced, Tracing
<1> QED BY <1>6, <1>7

\* What was initially there, what was reached, and the list.
LEMMA ListInvInit == Init => ListInv
<1> SUFFICES ASSUME Init PROVE ListInv OBVIOUS
<1>1. TypeOK BY CopyInvInit DEF CopyInv
<1>2. /\ heap \in Heaps /\ mem = heap /\ to = <<>> /\ weak = <<>> /\ phase = "roots"
      /\ at = First /\ at.obj = 1 /\ at.slot = 1
  BY DEF Init, First
<1>3. DOMAIN to = {} /\ DOMAIN weak = {} BY <1>2
<1>4. ~Over /\ Evacuated = {} BY <1>2, <1>3 DEF Over, Evacuated
<1>5. Reached BY <1>4 DEF Reached
<1>6. \A x : ~Past(x)
  <2>1. \A n \in DOMAIN Visited : n \in Nat /\ n # 0 BY CheneyAssumption, SeqElement
  <2>2. \A n \in DOMAIN Visited : ~(n < 1) BY <2>1
  <2> QED BY <1>2, <1>4, <2>2 DEF Past
<1>7. Listed BY <1>3, <1>6 DEF Listed
<1>8. Untraced
  <2> SUFFICES ASSUME NEW x \in Permanent, NEW i \in DOMAIN heap[Original(x)]
               PROVE  Words(x)[i] = heap[Original(x)][i]
    BY <1>2, <1>3 DEF Untraced
  <2>1. x \notin Nat BY <1>1, NumbersApart
  <2> QED BY <1>2, <2>1 DEF Words, Original
<1> QED BY <1>2, <1>5, <1>7, <1>8 DEF ListInv

\* The list is kept by every step of the collection.
LEMMA ListInvStep ==
  ASSUME CopyInv, WordsInv, ListInv, Next, CopyInv'
  PROVE  ListInv'
<1>1. heap' = heap
  BY DEF Next, RegisterWeak, ForwardNothing, ForwardKnown, ForwardCopy, NextObject,
     NextPhase, FixNone, FixCopied, FixDemote, FixDead, FixPermanent, FixSurvivor
<1>2. Reached' BY <1>1, TraceStep, ReachedKept DEF ListInv
<1>3. Listed' /\ Untraced'
  <2>1. CASE Forward BY <2>1, ForwardLists
  <2>2. CASE RegisterWeak \/ NextObject \/ NextPhase BY <2>2, MoveLists
  <2>3. CASE Fix BY <2>3, FixLists
  <2> QED BY <2>1, <2>2, <2>3 DEF Next, Forward, Fix
<1> QED BY <1>1, <1>2, <1>3 DEF ListInv

-----------------------------------------------------------------------------
(* The verdicts *)

\* The fixup is past slot i of the k-th object on the list.
Fixed(k, i) == phase = "done" \/ k < at.obj \/ (k = at.obj /\ i < at.slot)

\* What a slot that held s when the collection began holds behind the fixup,
\* and what a permanent cell s holds then.
Verdict(s, is) ==
  /\ s \in Evacuated => is = tombstone[s]
  /\ s \in From \ Evacuated =>
       IF Len(heap[s]) = 1 /\ RefLives(s, Evacuated)
       THEN Forwarded(s) /\ is = tombstone[s] ELSE is = Null
  /\ s \in Permanent =>
       IF RefLives(s, Evacuated) THEN is = s /\ mem[s][1] = New(heap[s][1]) ELSE is = Null
  /\ s = Null => is = Null

Judged ==
  Over => \A k \in DOMAIN weak : \A i \in DOMAIN heap[Original(weak[k])] :
    /\ Fixed(k, i) => Verdict(heap[Original(weak[k])][i], Words(weak[k])[i])
    /\ ~Fixed(k, i) => Words(weak[k])[i] = heap[Original(weak[k])][i]

\* What the fixup copies are cells to keep.
Later == Over => \A c \in DOMAIN to : c > traced => to[c].of \in KeptCells(Evacuated)

\* A cell is as it was, or what the fixup makes of it where it is.
SomeCells == {s \in WeaklyNamed(heap) \ {Null} : Len(heap[s]) = 1}
Cells ==
  Over => \A s \in SomeCells :
    \/ mem[s][1] = heap[s][1]
    \/ s \in Permanent /\ RefLives(s, Evacuated) /\ mem[s][1] = New(heap[s][1])
    \/ ~RefLives(s, Evacuated) /\ mem[s][1] = Null

JudgeInv == Judged /\ Later /\ Cells

\* The words of an object in the heap before the collection.
LEMMA HeapWords ==
  ASSUME heap \in Heaps, NEW o \in From \cup Permanent
  PROVE  /\ heap[o] \in Seq(From \cup Permanent \cup {Null})
         /\ \A i \in DOMAIN heap[o] :
              i \in Nat /\ i # 0 /\ heap[o][i] \in From \cup Permanent \cup {Null}
BY CheneyAssumption, SeqElement

\* A cell has one word, which is no cell, and is no weak object.
LEMMA CellKnown ==
  ASSUME TypeOK, WordsInv, heap \in Heaps, NEW s \in SomeCells
  PROVE  /\ s \in From \cup Permanent /\ s \notin Weak
         /\ heap[s][1] \in From \cup Permanent \cup {Null} /\ 1 \in DOMAIN heap[s]
         /\ heap[s][1] \notin WeaklyNamed(heap) \ {Null}
         /\ mem[s] \in Seq(Addresses) /\ Len(mem[s]) = 1 /\ 1 \in DOMAIN mem[s]
<1>1. PICK w \in Weak : \E i \in DOMAIN heap[w] : s = heap[w][i]
  BY DEF SomeCells, WeaklyNamed, Names
<1>2. w \in From \cup Permanent BY CheneyAssumption
<1>3. s \in From \cup Permanent BY <1>1, <1>2, HeapWords DEF SomeCells
<1>4. s \in WeaklyNamed(heap) \ {Null} /\ Len(heap[s]) = 1 BY DEF SomeCells
<1>5. s \notin Weak /\ heap[s][1] \notin WeaklyNamed(heap) \ {Null}
  BY <1>4, WeakAssumption
<1>6. heap[s] \in Seq(From \cup Permanent \cup {Null}) BY <1>3, HeapWords
<1>7. 1 \in DOMAIN heap[s] BY <1>4, <1>6
<1>8. heap[s][1] \in From \cup Permanent \cup {Null} BY <1>3, <1>7, HeapWords
<1>9. mem[s] \in Seq(Addresses) /\ Len(mem[s]) = 1 BY <1>3, <1>4 DEF TypeOK, WordsInv, Lengths
<1>10. 1 \in DOMAIN mem[s] BY <1>9
<1> QED BY <1>3, <1>5, <1>7, <1>8, <1>9, <1>10

\* What a weak slot held when the collection began.
LEMMA WeakSlotKnown ==
  ASSUME heap \in Heaps, NEW w \in Weak, NEW i \in DOMAIN heap[w], NEW s, s = heap[w][i]
  PROVE  /\ s \in From \cup Permanent \cup {Null} /\ s \in WeaklyNamed(heap)
         /\ s \in Permanent => s \in SomeCells /\ s \notin Weak
         /\ s \in From /\ Len(heap[s]) = 1 => s \in SomeCells
<1>1. w \in From \cup Permanent BY CheneyAssumption
<1>2. s \in From \cup Permanent \cup {Null} BY <1>1, HeapWords
<1>3. s \in WeaklyNamed(heap) BY DEF WeaklyNamed, Names
<1>4. s \in From \cup Permanent => s # Null BY CheneyAssumption
<1>5. s \in Permanent => Len(heap[s]) = 1 BY <1>3, <1>4, WeakAssumption
<1>6. s \in Permanent => s \notin Weak BY <1>3, <1>4, <1>5, WeakAssumption
<1> QED BY <1>2, <1>3, <1>4, <1>5, <1>6 DEF SomeCells

\* An object on the list is alive, and its words are those of the heap in number.
LEMMA EntryKnown ==
  ASSUME TypeOK, WordsInv, ListInv, Over, NEW k \in DOMAIN weak, NEW x, x = weak[k]
  PROVE  /\ x \in Permanent \/ x \in 1..traced
         /\ Original(x) \in LiveWeak(Evacuated) /\ Original(x) \in Weak
         /\ x \in Permanent => x \notin Nat /\ Original(x) = x /\ Words(x) = mem[x]
         /\ x \in DOMAIN to => x \in Nat /\ Original(x) = to[x].of /\ Words(x) = to[x].words
         /\ heap[Original(x)] \in Seq(Addresses) /\ Words(x) \in Seq(Addresses)
         /\ Len(Words(x)) = Len(heap[Original(x)])
         /\ DOMAIN Words(x) = DOMAIN heap[Original(x)]
<1>1. Past(x) /\ phase # "roots" /\ phase # "scan" BY DEF ListInv, Listed, Over
<1>2. (\E n \in DOMAIN Visited : x = Visited[n]) \/ x \in 1..traced BY <1>1 DEF Past
<1>3. x \in Permanent => x \notin Nat /\ Original(x) = x /\ Words(x) = mem[x]
  BY NumbersApart DEF Original, Words
<1>4. x \in DOMAIN to => x \in Nat /\ Original(x) = to[x].of /\ Words(x) = to[x].words
  BY NumbersApart DEF Original, Words
<1>5. IsWeak(x) BY DEF WordsInv, WeakListed
<1>6. Original(x) \in Weak BY <1>5 DEF IsWeak, Original
<1>7. 1..traced \subseteq DOMAIN to BY DEF TypeOK
<1>8. CASE \E n \in DOMAIN Visited : x = Visited[n]
  <2>1. x \in Permanent BY <1>8, CheneyAssumption, SeqElement
  <2>2. Original(x) \in LiveWeak(Evacuated) BY <1>3, <1>6, <1>8, <2>1 DEF LiveWeak
  <2>3. /\ heap[x] \in Seq(Addresses) /\ mem[x] \in Seq(Addresses)
        /\ Len(mem[x]) = Len(heap[x])
    BY <2>1 DEF TypeOK, WordsInv, Lengths
  <2>4. DOMAIN mem[x] = DOMAIN heap[x] BY <2>3
  <2> QED BY <1>3, <1>4, <1>6, <2>1, <2>2, <2>3, <2>4
<1>9. CASE x \in 1..traced
  <2>1. x \in DOMAIN to BY <1>7, <1>9
  <2>2. to[x].of \in Evacuated BY <1>9 DEF Evacuated
  <2>3. Original(x) \in LiveWeak(Evacuated) BY <1>4, <1>6, <2>1, <2>2 DEF LiveWeak
  <2>4. /\ heap[to[x].of] \in Seq(Addresses) /\ to[x].words \in Seq(Addresses)
        /\ Len(to[x].words) = Len(heap[to[x].of])
    BY <2>1, CopyKnown DEF WordsInv, Lengths
  <2>5. DOMAIN to[x].words = DOMAIN heap[to[x].of] BY <2>4
  <2> QED BY <1>3, <1>4, <1>6, <1>9, <2>1, <2>3, <2>4, <2>5
<1> QED BY <1>2, <1>8, <1>9

\* What has been copied is alive, or a cell to keep.
LEMMA ForwardedWhat ==
  ASSUME CopyInv, Later, Over, NEW a
  PROVE  /\ a \in Evacuated => a \in From /\ Forwarded(a) /\ tombstone[a] \in 1..traced
         /\ Forwarded(a) => a \in Evacuated \/ a \in KeptCells(Evacuated)
<1>1. TypeOK BY DEF CopyInv
<1>2. 1..traced \subseteq DOMAIN to BY <1>1 DEF TypeOK
<1>3. ASSUME a \in Evacuated
      PROVE  a \in From /\ Forwarded(a) /\ tombstone[a] \in 1..traced
  <2>1. PICK c \in 1..traced : to[c].of = a BY <1>3 DEF Evacuated
  <2>2. c \in DOMAIN to BY <1>2
  <2>3. a \in From /\ c # 0 BY <1>1, <2>1, <2>2, CopyKnown
  <2>4. tombstone[a] = c BY <2>1, <2>2 DEF CopyInv, OneCopyEach
  <2> QED BY <2>3, <2>4 DEF Forwarded
<1>4. ASSUME Forwarded(a) PROVE a \in Evacuated \/ a \in KeptCells(Evacuated)
  <2>1. PICK c : c = tombstone[a] OBVIOUS
  <2>2. c \in DOMAIN to /\ to[c].of = a BY <1>4, <2>1, ForwardedCopied
  <2>3. CASE c > traced BY <2>2, <2>3 DEF Later
  <2>4. CASE ~(c > traced)
    <3>1. c \in Nat /\ c # 0 /\ traced \in Nat BY SMTT(40), <1>1, <2>2, NumbersApart DEF TypeOK
    <3>2. c \in 1..traced BY <2>4, <3>1
    <3> QED BY <2>2, <3>2 DEF Evacuated
  <2> QED BY <2>3, <2>4
<1> QED BY <1>3, <1>4

\* The ref of a cell is alive when the trace has copied it, or when it does not
\* move; the fixup copies no ref.
LEMMA RefKnown ==
  ASSUME CopyInv, WordsInv, heap \in Heaps, Later, Over, NEW s \in SomeCells
  PROVE  /\ heap[s][1] \in From => (Forwarded(heap[s][1]) <=> heap[s][1] \in Evacuated)
         /\ RefLives(s, Evacuated) <=> heap[s][1] # Null /\ ~Dead(heap[s][1])
         /\ RefLives(s, Evacuated) =>
              New(heap[s][1]) # Null /\ New(heap[s][1]) \notin From /\ Settled(heap[s][1])
<1>1. TypeOK BY DEF CopyInv
<1>2. PICK a : a = heap[s][1] OBVIOUS
<1>3. a \in From \cup Permanent \cup {Null} /\ a \notin WeaklyNamed(heap) \ {Null}
  BY <1>1, <1>2, CellKnown
<1>4. a \in From => (Forwarded(a) <=> a \in Evacuated)
  <2> SUFFICES ASSUME a \in From, Forwarded(a), a \in KeptCells(Evacuated) PROVE FALSE
    BY ForwardedWhat
  <2>1. a \in WeaklyNamed(heap)
    <3>1. PICK w \in LiveWeak(Evacuated) : \E i \in DOMAIN heap[w] : a = heap[w][i]
      BY DEF KeptCells, Names
    <3>2. w \in Weak BY DEF LiveWeak
    <3> QED BY <3>1, <3>2 DEF WeaklyNamed, Names
  <2> QED BY <1>3, <2>1, CheneyAssumption
<1>5. RefLives(s, Evacuated) <=> a # Null /\ ~Dead(a)
  BY <1>2, <1>4 DEF RefLives, Dead
<1>6. RefLives(s, Evacuated) => New(a) # Null /\ New(a) \notin From /\ Settled(a)
  <2> SUFFICES ASSUME a # Null, ~Dead(a) PROVE New(a) # Null /\ New(a) \notin From /\ Settled(a)
    BY <1>5
  <2>1. CASE a \in From
    <3>1. Forwarded(a) BY <2>1 DEF Dead
    <3>2. tombstone[a] \in Nat BY <1>1, <2>1 DEF TypeOK
    <3> QED BY <2>1, <3>1, <3>2, CheneyAssumption DEF New, Settled
  <2>2. CASE a \notin From BY <2>2 DEF New, Settled
  <2> QED BY <2>1, <2>2
<1> QED BY <1>2, <1>4, <1>5, <1>6

\* What weak_fixup reads in a cell tells whether its ref is alive.
LEMMA ContentTells ==
  ASSUME CopyInv, WordsInv, heap \in Heaps, Later, Cells, Over, NEW s \in SomeCells,
         NEW v, v = mem[s][1]
  PROVE  /\ v = Null \/ Dead(v) => ~RefLives(s, Evacuated)
         /\ v # Null /\ ~Dead(v) => RefLives(s, Evacuated) /\ New(v) = New(heap[s][1])
<1>1. PICK a : a = heap[s][1] OBVIOUS
<1>2. /\ RefLives(s, Evacuated) <=> a # Null /\ ~Dead(a)
      /\ RefLives(s, Evacuated) => New(a) # Null /\ New(a) \notin From
  BY <1>1, RefKnown
<1>3. \/ v = a
      \/ RefLives(s, Evacuated) /\ v = New(a)
      \/ ~RefLives(s, Evacuated) /\ v = Null
  BY <1>1 DEF Cells
<1>4. New(a) \notin From => New(New(a)) = New(a) /\ ~Dead(New(a)) BY DEF New, Dead
<1> QED BY <1>1, <1>2, <1>3, <1>4

\* The slot to be fixed: a word of a weak object that is alive.
LEMMA SlotNow ==
  ASSUME CopyInv, WordsInv, ListInv, JudgeInv, MayFix, NEW w, w = Original(object)
  PROVE  /\ Over /\ phase = "weak" /\ object = weak[at.obj] /\ at.obj \in DOMAIN weak
         /\ w \in LiveWeak(Evacuated) /\ w \in Weak /\ at.slot \in DOMAIN heap[w]
         /\ Slot = heap[w][at.slot]
<1>1. TypeOK BY DEF CopyInv
<1>2. phase = "weak" /\ object = weak[at.obj] /\ at.obj \in DOMAIN weak
  BY FixObject
<1>3. Over BY <1>2 DEF Over
<1>4. PICK x : x = object OBVIOUS
<1>5. /\ w \in LiveWeak(Evacuated) /\ w \in Weak /\ Words(x) \in Seq(Addresses)
      /\ DOMAIN Words(x) = DOMAIN heap[w]
  BY <1>1, <1>2, <1>3, <1>4, EntryKnown
<1>6. at.slot \in Nat /\ at.slot # 0 /\ at.slot <= Len(Words(x))
  BY <1>1, <1>4 DEF MayFix, HasSlot, TypeOK
<1>7. at.slot \in DOMAIN Words(x) BY <1>5, <1>6
<1>8. ~Fixed(at.obj, at.slot)
  <2>1. at.obj \in Nat BY <1>1 DEF TypeOK
  <2> QED BY <1>2, <1>6, <2>1 DEF Fixed
<1>9. Words(x)[at.slot] = heap[w][at.slot]
  BY <1>2, <1>3, <1>4, <1>5, <1>7, <1>8 DEF JudgeInv, Judged
<1> QED BY <1>2, <1>3, <1>4, <1>5, <1>7, <1>9 DEF Slot

\* A step of the fixup: the slot becomes v, and the cell that it names holds u.
Entries == {weak[k] : k \in DOMAIN weak}
Gets(v, u) ==
  /\ \A x \in Entries : \A i \in DOMAIN heap[Original(x)] :
       Words(x)'[i] = IF x = object /\ i = at.slot THEN v ELSE Words(x)[i]
  /\ \A s \in SomeCells : mem'[s][1] = IF s = Slot THEN u ELSE mem[s][1]

\* A store of v, in a memory m where only the cell has changed.
LEMMA StoreGets ==
  ASSUME CopyInv, WordsInv, ListInv, JudgeInv, MayFix, NEW v, NEW u, NEW m,
         \A c \in DOMAIN to : \A i \in DOMAIN to[c].words :
           to'[c].words[i] = IF c = object /\ i = at.slot THEN v ELSE to[c].words[i],
         \A q \in From \cup Permanent :
           /\ q # object => mem'[q] = m[q]
           /\ \A i \in DOMAIN mem[q] :
                mem'[q][i] = IF q = object /\ i = at.slot THEN v ELSE m[q][i],
         \A q \in From \cup Permanent : q # Slot => m[q] = mem[q],
         Slot \in SomeCells => m[Slot][1] = u
  PROVE  Gets(v, u)
<1>1. TypeOK BY DEF CopyInv
<1>2. PICK w : w = Original(object) OBVIOUS
<1>3. /\ Over /\ object = weak[at.obj] /\ at.obj \in DOMAIN weak
      /\ w \in Weak /\ at.slot \in DOMAIN heap[w] /\ Slot = heap[w][at.slot]
  BY <1>2, SlotNow
<1>4. Slot \in Permanent => Slot \notin Weak BY <1>3, WeakSlotKnown DEF ListInv
<1>5. ASSUME NEW x \in Entries, NEW i \in DOMAIN heap[Original(x)]
      PROVE  Words(x)'[i] = IF x = object /\ i = at.slot THEN v ELSE Words(x)[i]
  <2>1. PICK k \in DOMAIN weak : x = weak[k] BY <1>5 DEF Entries
  <2>2. /\ x \in Permanent \/ x \in 1..traced
        /\ Original(x) \in Weak
        /\ x \in Permanent => x \notin Nat /\ Original(x) = x /\ Words(x) = mem[x]
        /\ x \in DOMAIN to => x \in Nat /\ Original(x) = to[x].of /\ Words(x) = to[x].words
        /\ DOMAIN Words(x) = DOMAIN heap[Original(x)]
    BY <1>1, <1>3, <2>1, EntryKnown
  <2>3. CASE x \in Permanent
    <3>1. m[x] = mem[x] BY <1>4, <2>2, <2>3
    <3>2. mem'[x][i] = IF x = object /\ i = at.slot THEN v ELSE m[x][i] BY <1>5, <2>2, <2>3
    <3>3. Words(x)' = mem'[x] BY <2>2, <2>3 DEF Words
    <3> QED BY <2>2, <2>3, <3>1, <3>2, <3>3
  <2>4. CASE x \in 1..traced
    <3>1. x \in DOMAIN to BY <1>1, <2>4 DEF TypeOK
    <3>2. Words(x)' = to'[x].words BY <2>2, <3>1 DEF Words
    <3>3. i \in DOMAIN to[x].words BY <1>5, <2>2, <3>1
    <3> QED BY <2>2, <3>1, <3>2, <3>3
  <2> QED BY <2>2, <2>3, <2>4
<1>6. ASSUME NEW s \in SomeCells
      PROVE  mem'[s][1] = IF s = Slot THEN u ELSE mem[s][1]
  <2>1. s \in From \cup Permanent /\ s \notin Weak BY <1>1, CellKnown DEF ListInv
  <2>2. s # object
    <3>1. object \notin From /\ IsWeak(object) BY FixObject
    <3>2. object \in Permanent => object \in Weak BY <1>1, <3>1, NumbersApart DEF IsWeak
    <3> QED BY <2>1, <3>1, <3>2
  <2>3. mem'[s] = m[s] BY <2>1, <2>2
  <2>4. s # Slot => m[s] = mem[s] BY <2>1
  <2> QED BY <1>6, <2>3, <2>4
<1> QED BY <1>5, <1>6 DEF Gets

\* What each step of the fixup writes.
LEMMA FixGets ==
  ASSUME CopyInv, WordsInv, ListInv, JudgeInv, Fix
  PROVE  \/ FixNone /\ Gets(Slot, Content)
         \/ FixCopied /\ Gets(tombstone[Slot], Content)
         \/ FixDemote /\ Gets(Null, Content)
         \/ FixDead /\ Gets(Null, Null)
         \/ FixPermanent /\ Gets(Slot, New(Content))
         \/ FixSurvivor /\ Gets(Len(to) + 1, Content)
<1>1. TypeOK /\ MayFix BY FixEffect DEF CopyInv
<1>2. mem \in Memory /\ Null \in Addresses BY <1>1 DEF TypeOK, Memory, Addresses
<1>3. Content = mem[Slot][1] BY DEF Content
<1>4. phase \in Tracing \cup {"weak"} /\ HasSlot({phase}) BY <1>1 DEF MayFix, HasSlot
<1>5. /\ object \in DOMAIN to => Slot = to[object].words[at.slot]
      /\ object \in Permanent => Slot = mem[object][at.slot]
      /\ object \notin From
  BY <1>1, <1>4, ObjectWords, FixObject
<1>6. CASE FixNone
  <2>1. UNCHANGED <<mem, to>> BY <1>6 DEF FixNone
  <2>2. Gets(Slot, Content) BY <1>1, <1>3, <1>5, <2>1, StoreGets
  <2> QED BY <1>6, <2>2
<1>7. ASSUME NEW v \in Addresses, Store(mem, to, v)
      PROVE  Gets(v, Content)
  <2>1. /\ \A c \in DOMAIN to : \A i \in DOMAIN to[c].words :
             to'[c].words[i] = IF c = object /\ i = at.slot THEN v ELSE to[c].words[i]
        /\ \A q \in From \cup Permanent :
             /\ q # object => mem'[q] = mem[q]
             /\ \A i \in DOMAIN mem[q] :
                  mem'[q][i] = IF q = object /\ i = at.slot THEN v ELSE mem[q][i]
    BY <1>1, <1>2, <1>7, FixStores
  <2> QED BY <1>1, <1>3, <2>1, StoreGets
<1>8. CASE FixCopied
  <2>1. tombstone[Slot] \in Addresses BY <1>1, <1>8, TombstoneKnown DEF FixCopied
  <2>2. Gets(tombstone[Slot], Content) BY <1>7, <1>8, <2>1 DEF FixCopied
  <2> QED BY <1>8, <2>2
<1>9. CASE FixDemote
  <2>1. Gets(Null, Content) BY <1>2, <1>7, <1>9 DEF FixDemote
  <2> QED BY <1>9, <2>1
<1>10. CASE FixDead
  <2>1. Cell(Slot) /\ Store([mem EXCEPT ![Slot][1] = Null], to, Null)
    BY <1>10 DEF FixDead
  <2>2. PICK m, s, v : m = [mem EXCEPT ![Slot][1] = Null] /\ s = Slot /\ v = Null OBVIOUS
  <2>3. /\ m = [mem EXCEPT ![s][1] = v] /\ s \in From \cup Permanent /\ v \in Addresses
    BY <1>2, <2>1, <2>2 DEF Cell
  <2>4. m \in Memory BY <1>1, <2>3, Overwrite
  <2>5. \A q \in From \cup Permanent : Len(m[q]) = Len(mem[q]) BY <1>1, <2>3, Overwrite
  <2>6. \A q \in From \cup Permanent : q # s => m[q] = mem[q] BY <1>1, <2>3, Overwrite
  <2>7. Len(mem[s]) = 1 => m[s] = <<v>> BY <1>1, <2>3, Overwrite
  <2>8. Slot \in SomeCells => m[Slot][1] = Null
    <3>1. Slot \in SomeCells => Len(mem[s]) = 1 BY <1>1, <2>2, CellKnown DEF ListInv
    <3> QED BY <2>2, <2>7, <3>1
  <2>9. Store(m, to, Null) BY <2>1, <2>2
  <2>10. /\ \A c \in DOMAIN to : \A i \in DOMAIN to[c].words :
             to'[c].words[i] = IF c = object /\ i = at.slot THEN Null ELSE to[c].words[i]
         /\ \A q \in From \cup Permanent :
             /\ q # object => mem'[q] = m[q]
             /\ \A i \in DOMAIN m[q] :
                  mem'[q][i] = IF q = object /\ i = at.slot THEN Null ELSE m[q][i]
    BY <1>1, <1>2, <2>4, <2>5, <2>9, FixStores
  <2>11. \A q \in From \cup Permanent : DOMAIN m[q] = DOMAIN mem[q]
    BY <1>2, <2>4, <2>5 DEF Memory
  <2>12. \A q \in From \cup Permanent :
           /\ q # object => mem'[q] = m[q]
           /\ \A i \in DOMAIN mem[q] :
                mem'[q][i] = IF q = object /\ i = at.slot THEN Null ELSE m[q][i]
    BY <2>10, <2>11
  <2>13. \A q \in From \cup Permanent : q # Slot => m[q] = mem[q] BY <2>2, <2>6
  <2>14. Gets(Null, Null) BY <1>1, <2>8, <2>10, <2>12, <2>13, StoreGets
  <2> QED BY <1>10, <2>14
<1>11. CASE FixPermanent
  <2>1. /\ Slot \in Permanent /\ UNCHANGED to /\ mem' = [mem EXCEPT ![Slot][1] = New(Content)]
    BY <1>11 DEF FixPermanent
  <2>2. PICK w : w = Original(object) OBVIOUS
  <2>3. w \in Weak /\ at.slot \in DOMAIN heap[w] /\ Slot = heap[w][at.slot]
    BY <1>1, <2>2, SlotNow
  <2>4. Slot \in SomeCells /\ Slot \notin Weak BY <2>1, <2>3, WeakSlotKnown DEF ListInv
  <2>5. PICK m, s, v : m = mem' /\ s = Slot /\ v = New(Content) OBVIOUS
  <2>6. v \in Addresses
    <3>1. mem[s] \in Seq(Addresses) /\ 1 \in DOMAIN mem[s] BY <1>1, <2>4, <2>5, CellKnown DEF ListInv
    <3>2. Content \in Addresses BY <1>3, <2>5, <3>1, SeqElement
    <3> QED BY <1>1, <2>5, <3>2, NewKnown
  <2>7. m = [mem EXCEPT ![s][1] = v] /\ s \in From \cup Permanent BY <2>1, <2>5
  <2>8. \A q \in From \cup Permanent : q # s => m[q] = mem[q] BY <1>1, <2>6, <2>7, Overwrite
  <2>9. Len(mem[s]) = 1 => m[s] = <<v>> BY <1>1, <2>6, <2>7, Overwrite
  <2>10. m[s][1] = v
    <3>1. Len(mem[s]) = 1 BY <1>1, <2>4, <2>5, CellKnown DEF ListInv
    <3> QED BY <2>9, <3>1
  <2>11. object # s
    <3>1. object \in Permanent => object \in Weak
      BY <1>1, FixObject, NumbersApart DEF IsWeak
    <3> QED BY <2>1, <2>4, <2>5, <3>1
  <2>12. object \in Permanent => m[object][at.slot] = Slot BY <1>5, <2>8, <2>11
  <2>13. \A c \in DOMAIN to : \A i \in DOMAIN to[c].words :
           to'[c].words[i] = IF c = object /\ i = at.slot THEN Slot ELSE to[c].words[i]
    BY <1>5, <2>1
  <2>14. \A q \in From \cup Permanent :
           /\ q # object => mem'[q] = m[q]
           /\ \A i \in DOMAIN mem[q] :
                mem'[q][i] = IF q = object /\ i = at.slot THEN Slot ELSE m[q][i]
    BY <1>5, <2>5, <2>12
  <2>15. Gets(Slot, New(Content)) BY <1>1, <2>5, <2>8, <2>10, <2>13, <2>14, StoreGets
  <2> QED BY <1>11, <2>15
<1>12. CASE FixSurvivor
  <2>1. Stored(Len(to) + 1) BY <1>12, SurvivorWords
  <2>2. Gets(Len(to) + 1, Content) BY <1>1, <1>3, <2>1, StoreGets DEF Stored
  <2> QED BY <1>12, <2>2
<1> QED BY <1>6, <1>8, <1>9, <1>10, <1>11, <1>12 DEF Fix

\* What a step of the fixup leaves alone.
LEMMA FixFrame ==
  ASSUME CopyInv, WordsInv, ListInv, JudgeInv, Fix
  PROVE  /\ MayFix /\ Over /\ Over' /\ Evacuated' = Evacuated
         /\ at' = NextSlot /\ UNCHANGED <<heap, weak, phase, traced>>
         /\ \A c \in DOMAIN to : to'[c].of = to[c].of
         /\ \A a : Settled(a) => Settled(a)' /\ New(a)' = New(a)
         /\ \A a : Forwarded(a) => Forwarded(a)' /\ tombstone'[a] = tombstone[a]
<1>1. TypeOK BY DEF CopyInv
<1>2. /\ MayFix /\ at' = NextSlot /\ UNCHANGED <<heap, weak, phase, traced>>
      /\ NoCopy \/ (FixSurvivor /\ CopyOf(Slot, <<New(heap[Slot][1])>>))
      /\ \A c \in DOMAIN to : to'[c].of = to[c].of
  BY FixEffect
<1>3. Over /\ Over' BY <1>2, FixObject DEF Over
<1>4. Evacuated' = Evacuated
  <2>1. 1..traced \subseteq DOMAIN to BY <1>1 DEF TypeOK
  <2> QED BY <1>2, <1>3, <2>1 DEF Evacuated
<1>5. NoCopy \/ \E o \in From : \E words : CopyOf(o, words) BY <1>2, SurvivorWords
<1>6. \A a : Settled(a) => Settled(a)' /\ New(a)' = New(a) BY <1>1, <1>5, SettledStays
<1>7. ASSUME NEW a, Forwarded(a) PROVE Forwarded(a)' /\ tombstone'[a] = tombstone[a]
  <2>1. a \in From /\ Settled(a) BY <1>7 DEF Forwarded, Settled
  <2>2. Settled(a)' /\ New(a)' = New(a) BY <1>6, <2>1
  <2> QED BY <2>1, <2>2 DEF Settled, New
<1> QED BY <1>2, <1>3, <1>4, <1>6, <1>7

\* The fixup leaves a cell as it was, or as its ref asks for.
LEMMA FixCells ==
  ASSUME CopyInv, WordsInv, ListInv, JudgeInv, Fix
  PROVE  Cells'
<1>1. /\ Over /\ Evacuated' = Evacuated /\ heap' = heap
      /\ \A a : Settled(a) => New(a)' = New(a)
  BY FixFrame
<1>2. SomeCells' = SomeCells BY <1>1 DEF SomeCells, WeaklyNamed, Names
<1>3. ASSUME NEW s \in SomeCells
      PROVE  \/ mem'[s][1] = heap[s][1]
             \/ s \in Permanent /\ RefLives(s, Evacuated) /\ mem'[s][1] = New(heap[s][1])
             \/ ~RefLives(s, Evacuated) /\ mem'[s][1] = Null
  <2>1. mem'[s][1] = mem[s][1] => \/ mem'[s][1] = heap[s][1]
                                  \/ /\ s \in Permanent /\ RefLives(s, Evacuated)
                                     /\ mem'[s][1] = New(heap[s][1])
                                  \/ ~RefLives(s, Evacuated) /\ mem'[s][1] = Null
    BY <1>1 DEF JudgeInv, Cells
  <2>2. PICK v : v = mem[s][1] OBVIOUS
  <2>3. /\ v = Null \/ Dead(v) => ~RefLives(s, Evacuated)
        /\ v # Null /\ ~Dead(v) => RefLives(s, Evacuated) /\ New(v) = New(heap[s][1])
    BY <1>1, <2>2, ContentTells DEF ListInv, JudgeInv
  <2>4. s = Slot => Content = v BY <2>2 DEF Content
  <2>5. CASE s # Slot
    <3>1. mem'[s][1] = mem[s][1] BY <2>5, FixGets DEF Gets
    <3> QED BY <2>1, <3>1
  <2>6. CASE s = Slot /\ \E u : Gets(u, Content)
    <3>1. mem'[s][1] = mem[s][1] BY <2>2, <2>4, <2>6 DEF Gets
    <3> QED BY <2>1, <3>1
  <2>7. CASE s = Slot /\ FixDead /\ Gets(Null, Null)
    <3>1. mem'[s][1] = Null BY <2>7 DEF Gets
    <3>2. Dead(v) BY <2>4, <2>7 DEF FixDead
    <3> QED BY <2>3, <3>1, <3>2
  <2>8. CASE s = Slot /\ FixPermanent /\ Gets(Slot, New(Content))
    <3>1. mem'[s][1] = New(v) BY <2>4, <2>8 DEF Gets
    <3>2. v # Null /\ ~Dead(v) /\ s \in Permanent BY <2>4, <2>8 DEF FixPermanent
    <3> QED BY <2>3, <3>1, <3>2
  <2> QED BY <2>5, <2>6, <2>7, <2>8, FixGets
<1>4. ASSUME NEW s \in SomeCells, RefLives(s, Evacuated)
      PROVE  New(heap[s][1])' = New(heap[s][1])
  <2>1. PICK a : a = heap[s][1] OBVIOUS
  <2>2. Settled(a) BY <1>1, <1>4, <2>1, RefKnown DEF ListInv, JudgeInv
  <2>3. New(a)' = New(a) BY <1>1, <2>2
  <2> QED BY <1>1, <2>1, <2>3 DEF New
<1>5. \A s : RefLives(s, Evacuated)' <=> RefLives(s, Evacuated) BY <1>1 DEF RefLives
<1> QED BY <1>1, <1>2, <1>3, <1>4, <1>5 DEF Cells

\* A cell that the fixup copies is one that a living weak object keeps.
LEMMA FixLater ==
  ASSUME CopyInv, WordsInv, ListInv, JudgeInv, Fix, CopyInv'
  PROVE  Later'
<1>1. TypeOK /\ TypeOK' BY DEF CopyInv
<1>2. /\ MayFix /\ Over /\ Evacuated' = Evacuated /\ UNCHANGED <<heap, traced>>
      /\ \A c \in DOMAIN to : to'[c].of = to[c].of
  BY FixFrame
<1>3. KeptCells(Evacuated)' = KeptCells(Evacuated)
  BY <1>2 DEF KeptCells, Names, LiveWeak, RefLives
<1>4. ASSUME NEW c \in DOMAIN to', c > traced PROVE to'[c].of \in KeptCells(Evacuated)
  <2>1. CASE c \in DOMAIN to BY <1>2, <1>4, <2>1 DEF JudgeInv, Later
  <2>2. CASE c \notin DOMAIN to
    <3>1. PICK n, m : n = Len(to) /\ m = Len(to') OBVIOUS
    <3>2. n \in Nat /\ DOMAIN to = 1..n BY <1>1, <3>1, NumbersApart
    <3>3. m \in Nat /\ DOMAIN to' = 1..m BY <1>1, <3>1, NumbersApart
    <3>4. c \in 1..m /\ c \notin 1..n BY <1>4, <2>2, <3>2, <3>3
    <3>5. m # n BY <3>4
    <3>6. FixSurvivor /\ CopyOf(Slot, <<New(heap[Slot][1])>>)
      BY <3>1, <3>5, FixEffect DEF NoCopy
    <3>7. m = n + 1 BY <3>1, <3>6 DEF CopyOf
    <3>8. c = n + 1 BY <3>2, <3>4, <3>7
    <3>9. to'[c].of = Slot BY <3>1, <3>6, <3>8 DEF CopyOf
    <3>10. PICK w, s : w = Original(object) /\ s = Slot OBVIOUS
    <3>11. /\ w \in LiveWeak(Evacuated) /\ w \in Weak
           /\ at.slot \in DOMAIN heap[w] /\ s = heap[w][at.slot]
      BY <1>2, <3>10, SlotNow
    <3>12. s \in From /\ Len(heap[s]) = 1 BY <3>6, <3>10, SurvivorWords
    <3>13. s \in SomeCells BY <3>11, <3>12, WeakSlotKnown DEF ListInv
    <3>14. Content = mem[s][1] /\ Content # Null /\ ~Dead(Content)
      BY <3>6, <3>10 DEF FixSurvivor, Content
    <3>15. RefLives(s, Evacuated)
      BY <1>2, <3>13, <3>14, ContentTells DEF ListInv, JudgeInv
    <3>16. s \in Names(heap, LiveWeak(Evacuated)) BY <3>11 DEF Names
    <3>17. s \in KeptCells(Evacuated) BY <3>12, <3>15, <3>16 DEF KeptCells
    <3> QED BY <3>9, <3>10, <3>17
  <2> QED BY <2>1, <2>2
<1> QED BY <1>2, <1>3, <1>4 DEF Later

\* The slot that the fixup is at gets its verdict.
LEMMA NewVerdict ==
  ASSUME CopyInv, WordsInv, ListInv, JudgeInv, Fix
  PROVE  \E v, u : Gets(v, u) /\ \A s : s = Slot => Verdict(s, v)'
<1>1. TypeOK BY DEF CopyInv
<1>2. /\ MayFix /\ Over /\ Evacuated' = Evacuated /\ heap' = heap
      /\ \A a : Settled(a) => New(a)' = New(a)
      /\ \A a : Forwarded(a) => Forwarded(a)' /\ tombstone'[a] = tombstone[a]
  BY FixFrame
<1>3. PICK w, s : w = Original(object) /\ s = Slot OBVIOUS
<1>4. w \in Weak /\ at.slot \in DOMAIN heap[w] /\ s = heap[w][at.slot]
  BY <1>2, <1>3, SlotNow
<1>5. /\ s \in From \cup Permanent \cup {Null}
      /\ s \in Permanent => s \in SomeCells /\ s \notin Weak
      /\ s \in From /\ Len(heap[s]) = 1 => s \in SomeCells
  BY <1>4, WeakSlotKnown DEF ListInv
<1>6. PICK x : x = Content OBVIOUS
<1>7. s \in SomeCells =>
        /\ x = Null \/ Dead(x) => ~RefLives(s, Evacuated)
        /\ x # Null /\ ~Dead(x) => RefLives(s, Evacuated) /\ New(x) = New(heap[s][1])
  BY <1>2, <1>3, <1>6, ContentTells DEF ListInv, JudgeInv, Content
<1>8. /\ s \in Evacuated => s \in From /\ Forwarded(s)
      /\ Forwarded(s) /\ s \notin Evacuated => s \in KeptCells(Evacuated)
  BY <1>2, ForwardedWhat DEF JudgeInv
<1>9. /\ RefLives(s, Evacuated)' <=> RefLives(s, Evacuated)
      /\ (s \in Evacuated)' <=> s \in Evacuated
  BY <1>2 DEF RefLives
<1>10. s \in From => s \notin Permanent /\ s # Null BY CheneyAssumption
<1>11. s \in Permanent => s # Null BY CheneyAssumption
<1>12. CASE FixNone /\ Gets(Slot, Content)
  <2>1. s = Null BY <1>3, <1>12 DEF FixNone
  <2>2. Verdict(s, s)' BY <1>8, <1>9, <1>10, <1>11, <2>1 DEF Verdict
  <2> QED BY <1>3, <1>12, <2>2
<1>13. CASE FixCopied /\ Gets(tombstone[Slot], Content)
  <2>1. Forwarded(s) /\ s \in From BY <1>3, <1>13 DEF FixCopied, Forwarded
  <2>2. s \in Evacuated \/ (Len(heap[s]) = 1 /\ RefLives(s, Evacuated))
    BY <1>8, <2>1 DEF KeptCells
  <2>3. PICK v : v = tombstone[s] OBVIOUS
  <2>4. Forwarded(s)' /\ tombstone'[s] = v BY <1>2, <2>1, <2>3
  <2>5. Verdict(s, v)' BY <1>2, <1>9, <1>10, <2>1, <2>2, <2>4 DEF Verdict
  <2> QED BY <1>3, <1>13, <2>3, <2>5
<1>14. CASE (FixDemote /\ Gets(Null, Content)) \/ (FixDead /\ Gets(Null, Null))
  <2>1. /\ s \in From => ~Forwarded(s)
        /\ s \in From /\ Len(heap[s]) = 1 => ~RefLives(s, Evacuated)
        /\ s \in Permanent => ~RefLives(s, Evacuated)
    <3>1. CASE Dead(s) /\ ~Cell(s)
      <4>1. s \in From /\ ~Forwarded(s) /\ Len(mem[s]) # 1 BY <3>1 DEF Dead, Cell
      <4>2. Len(heap[s]) # 1 BY <4>1 DEF WordsInv, Lengths
      <4> QED BY <1>10, <4>1, <4>2
    <3>2. CASE Cell(s) /\ (x = Null \/ Dead(x))
      <4>1. s \in From => ~Forwarded(s) BY <1>10, <3>2 DEF Cell
      <4>2. s \in SomeCells => ~RefLives(s, Evacuated) BY <1>7, <3>2
      <4> QED BY <1>5, <4>1, <4>2
    <3> QED BY <1>3, <1>6, <1>14, <3>1, <3>2 DEF FixDemote, FixDead
  <2>2. s \notin Evacuated BY <1>8, <2>1
  <2>3. Verdict(s, Null)' BY <1>2, <1>9, <1>10, <1>11, <2>1, <2>2 DEF Verdict
  <2> QED BY <1>3, <1>14, <2>3
<1>15. CASE FixPermanent /\ Gets(Slot, New(Content))
  <2>1. s \in Permanent /\ x # Null /\ ~Dead(x) BY <1>3, <1>6, <1>15 DEF FixPermanent
  <2>2. s \in SomeCells /\ RefLives(s, Evacuated) /\ New(x) = New(heap[s][1])
    BY <1>5, <1>7, <2>1
  <2>3. mem'[s][1] = New(x) BY <1>3, <1>6, <1>15, <2>2 DEF Gets
  <2>4. PICK a : a = heap[s][1] OBVIOUS
  <2>5. Settled(a) BY <1>2, <2>2, <2>4, RefKnown DEF ListInv, JudgeInv
  <2>6. New(a)' = New(a) BY <1>2, <2>5
  <2>7. New(heap[s][1])' = mem'[s][1] BY <1>2, <2>2, <2>3, <2>4, <2>6 DEF New
  <2>8. s \notin From /\ s \notin Evacuated BY <1>8, <1>10, <2>1
  <2>9. Verdict(s, s)' BY <1>9, <1>11, <2>1, <2>2, <2>7, <2>8 DEF Verdict
  <2> QED BY <1>3, <1>15, <2>9
<1>16. CASE FixSurvivor /\ Gets(Len(to) + 1, Content)
  <2>1. /\ s \in From /\ ~Forwarded(s) /\ Len(heap[s]) = 1
        /\ tombstone' = [tombstone EXCEPT ![s] = Len(to) + 1]
    BY <1>3, <1>16, SurvivorWords DEF CopyOf
  <2>2. x # Null /\ ~Dead(x) BY <1>6, <1>16 DEF FixSurvivor
  <2>3. RefLives(s, Evacuated) BY <1>5, <1>7, <2>1, <2>2
  <2>4. PICK v : v = Len(to) + 1 OBVIOUS
  <2>5. tombstone'[s] = v /\ v # 0
    <3>1. s \in DOMAIN tombstone BY <1>1, <2>1 DEF TypeOK
    <3>2. Len(to) \in Nat BY <1>1, NumbersApart
    <3> QED BY <2>1, <2>4, <3>1, <3>2
  <2>6. Forwarded(s)' BY <2>1, <2>5 DEF Forwarded
  <2>7. s \notin Evacuated BY <1>8, <2>1
  <2>8. Verdict(s, v)' BY <1>2, <1>9, <1>10, <2>1, <2>3, <2>5, <2>6, <2>7 DEF Verdict
  <2> QED BY <1>3, <1>16, <2>4, <2>8
<1> QED BY <1>12, <1>13, <1>14, <1>15, <1>16, FixGets

\* A verdict that was given stands.
LEMMA OldVerdict ==
  ASSUME CopyInv, WordsInv, ListInv, JudgeInv, Fix,
         NEW w \in Weak, NEW i \in DOMAIN heap[w], NEW s, s = heap[w][i],
         NEW is, Verdict(s, is)
  PROVE  Verdict(s, is)'
<1>1. /\ MayFix /\ Over /\ Evacuated' = Evacuated /\ heap' = heap
      /\ \A a : Settled(a) => New(a)' = New(a)
      /\ \A a : Forwarded(a) => Forwarded(a)' /\ tombstone'[a] = tombstone[a]
  BY FixFrame
<1>2. RefLives(s, Evacuated)' <=> RefLives(s, Evacuated) BY <1>1 DEF RefLives
<1>3. s \in Evacuated => Forwarded(s) BY <1>1, ForwardedWhat DEF JudgeInv
<1>4. s \in Permanent => s \in SomeCells BY WeakSlotKnown DEF ListInv
<1>5. ASSUME s \in Permanent, RefLives(s, Evacuated)
      PROVE  is = s /\ mem'[s][1] = New(heap[s][1])'
  <2>1. is = s /\ mem[s][1] = New(heap[s][1]) BY <1>5 DEF Verdict
  <2>2. PICK a, v : a = heap[s][1] /\ v = New(a) OBVIOUS
  <2>3. v # Null /\ v \notin From /\ Settled(a)
    BY <1>1, <1>4, <1>5, <2>2, RefKnown DEF ListInv, JudgeInv
  <2>4. New(a)' = v BY <1>1, <2>2, <2>3
  <2>5. New(heap[s][1])' = v BY <1>1, <2>2, <2>4 DEF New
  <2>6. mem'[s][1] = v
    <3>1. mem[s][1] = v BY <2>1, <2>2
    <3>2. s = Slot => Content = v BY <3>1 DEF Content
    <3>3. CASE s # Slot BY <1>4, <1>5, <3>1, <3>3, FixGets DEF Gets
    <3>4. CASE s = Slot
      <4>1. ~Dead(v) /\ New(v) = v BY <2>3 DEF Dead, New
      <4>2. ~FixDead BY <3>2, <3>4, <4>1 DEF FixDead
      <4>3. \E x : Gets(x, v) BY <3>2, <3>4, <4>1, <4>2, FixGets
      <4> QED BY <1>4, <1>5, <3>4, <4>3 DEF Gets
    <3> QED BY <3>3, <3>4
  <2> QED BY <2>1, <2>5, <2>6
<1> QED BY <1>1, <1>2, <1>3, <1>5 DEF Verdict

\* The fixup goes on from slot to slot.
LEMMA FixJudges ==
  ASSUME CopyInv, WordsInv, ListInv, JudgeInv, Fix
  PROVE  Judged'
<1>1. TypeOK BY DEF CopyInv
<1>2. /\ MayFix /\ Over /\ Evacuated' = Evacuated
      /\ at' = NextSlot /\ UNCHANGED <<heap, weak, phase, traced>>
      /\ \A c \in DOMAIN to : to'[c].of = to[c].of
  BY FixFrame
<1>3. phase = "weak" /\ object = weak[at.obj] /\ at.obj \in DOMAIN weak BY <1>2, FixObject
<1>4. PICK v, u : Gets(v, u) /\ \A s : s = Slot => Verdict(s, v)' BY NewVerdict
<1>5. PICK o : o = object OBVIOUS
<1>6. at.slot \in DOMAIN heap[Original(o)] /\ Slot = heap[Original(o)][at.slot]
  <2>1. PICK w : w = Original(object) OBVIOUS
  <2> QED BY <1>2, <1>5, <2>1, SlotNow
<1>7. ASSUME NEW k \in DOMAIN weak, NEW x, x = weak[k], NEW i \in DOMAIN heap[Original(x)],
             NEW s, s = heap[Original(x)][i], NEW is, is = Words(x)'[i]
      PROVE  /\ Original(x)' = Original(x)
             /\ Fixed(k, i)' => Verdict(s, is)'
             /\ ~Fixed(k, i)' => is = s
  <2>1. /\ x \in Permanent \/ x \in 1..traced
        /\ Original(x) \in Weak /\ heap[Original(x)] \in Seq(Addresses)
    BY <1>1, <1>2, <1>7, EntryKnown
  <2>2. x \in Permanent \cup DOMAIN to BY <1>1, <2>1 DEF TypeOK
  <2>3. Original(x)' = Original(x) BY <1>1, <1>2, <2>2, NameStays
  <2>4. x = o <=> k = at.obj BY <1>3, <1>5, <1>7 DEF ListInv, Listed
  <2>5. x \in Entries BY <1>7 DEF Entries
  <2>6. is = IF x = o /\ i = at.slot THEN v ELSE Words(x)[i]
    BY <1>4, <1>5, <1>7, <2>5 DEF Gets
  <2>7. k \in Nat /\ i \in Nat /\ at.obj \in Nat /\ at.slot \in Nat
    BY <1>1, <2>1, <1>7 DEF TypeOK
  <2>8. at'.obj = at.obj /\ at'.slot = at.slot + 1
    BY <1>1, <1>2 DEF NextSlot, TypeOK
  <2>9. Fixed(k, i)' <=> Fixed(k, i) \/ (k = at.obj /\ i = at.slot)
    BY <1>2, <1>3, <2>7, <2>8 DEF Fixed
  <2>10. CASE k = at.obj /\ i = at.slot
    <3>1. s = Slot /\ is = v BY <1>5, <1>6, <1>7, <2>4, <2>6, <2>10
    <3>2. Verdict(s, is)' BY <1>4, <3>1
    <3> QED BY <2>3, <2>9, <2>10, <3>2
  <2>11. CASE ~(k = at.obj /\ i = at.slot)
    <3>1. is = Words(x)[i] BY <2>4, <2>6, <2>11
    <3>2. Fixed(k, i) => Verdict(s, is) BY <1>2, <1>7, <3>1 DEF JudgeInv, Judged
    <3>3. ~Fixed(k, i) => is = s BY <1>2, <1>7, <3>1 DEF JudgeInv, Judged
    <3>4. Fixed(k, i) => Verdict(s, is)' BY <1>7, <2>1, <3>2, OldVerdict
    <3> QED BY <2>3, <2>9, <2>11, <3>3, <3>4
  <2> QED BY <2>10, <2>11
<1>8. ASSUME NEW k \in DOMAIN weak', NEW i \in DOMAIN heap'[Original(weak[k])']
      PROVE  /\ Fixed(k, i)' => Verdict(heap[Original(weak[k])][i], Words(weak[k])[i])'
             /\ ~Fixed(k, i)' => Words(weak[k])'[i] = heap'[Original(weak[k])'][i]
  <2>1. PICK x : x = weak[k] OBVIOUS
  <2>2. weak'[k] = x /\ k \in DOMAIN weak BY <1>2, <1>8, <2>1
  <2>3. Original(weak[k])' = Original(x)' BY <2>2 DEF Original
  <2>4. Words(weak[k])' = Words(x)' BY <2>2 DEF Words
  <2>5. Original(x)' = Original(x)
    <3>1. x \in Permanent \cup DOMAIN to
      BY <1>1, <1>2, <2>1, <2>2, EntryKnown DEF TypeOK
    <3> QED BY <1>1, <1>2, <3>1, NameStays
  <2>6. PICK s, is : s = heap[Original(x)][i] /\ is = Words(x)'[i] OBVIOUS
  <2>7. i \in DOMAIN heap[Original(x)] BY <1>2, <1>8, <2>3, <2>5
  <2>8. (Fixed(k, i)' => Verdict(s, is)') /\ (~Fixed(k, i)' => is = s)
    BY <1>7, <2>1, <2>2, <2>6, <2>7
  <2>9. heap'[Original(weak[k])'][i] = s /\ Words(weak[k])'[i] = is
    BY <1>2, <2>3, <2>4, <2>5, <2>6
  <2>10. Verdict(s, is)' => Verdict(heap[Original(weak[k])][i], Words(weak[k])[i])'
    BY <2>9 DEF Verdict, RefLives, New, Forwarded
  <2> QED BY <2>8, <2>9, <2>10
<1> QED BY <1>8 DEF Judged

\* A step that changes no word and passes no slot changes no verdict.
LEMMA JudgedStays ==
  ASSUME Over, Over', Judged, UNCHANGED <<heap, mem, tombstone, to, weak, traced>>,
         \A k \in DOMAIN weak : \A i \in DOMAIN heap[Original(weak[k])] :
           Fixed(k, i)' <=> Fixed(k, i)
  PROVE  Judged'
<1>1. Evacuated' = Evacuated BY DEF Evacuated
<1>2. ASSUME NEW k \in DOMAIN weak', NEW i \in DOMAIN heap'[Original(weak[k])']
      PROVE  /\ Fixed(k, i)' => Verdict(heap[Original(weak[k])][i], Words(weak[k])[i])'
             /\ ~Fixed(k, i)' => Words(weak[k])'[i] = heap'[Original(weak[k])'][i]
  <2>1. /\ Original(weak[k])' = Original(weak[k]) /\ Words(weak[k])' = Words(weak[k])
        /\ heap' = heap /\ weak' = weak
    BY DEF Original, Words
  <2>2. PICK s, is : s = heap[Original(weak[k])][i] /\ is = Words(weak[k])[i] OBVIOUS
  <2>3. (Fixed(k, i)' => Verdict(s, is)) /\ (~Fixed(k, i)' => is = s)
    BY <1>2, <2>1, <2>2 DEF Judged
  <2>4. Verdict(s, is) => Verdict(s, is)'
    BY <1>1 DEF Verdict, RefLives, New, Forwarded
  <2>5. heap'[Original(weak[k])'][i] = s /\ Words(weak[k])'[i] = is BY <2>1, <2>2
  <2>6. Verdict(s, is)' => Verdict(heap[Original(weak[k])][i], Words(weak[k])[i])'
    BY <2>5 DEF Verdict, RefLives, New, Forwarded
  <2> QED BY <2>3, <2>4, <2>5, <2>6
<1> QED BY <1>2 DEF Judged

\* The fixup begins with every slot and cell as the trace has left it, and the
\* steps from object to object give and change no verdict.
LEMMA MoveJudges ==
  ASSUME CopyInv, WordsInv, ListInv, JudgeInv, RegisterWeak \/ NextObject \/ NextPhase, CopyInv'
  PROVE  JudgeInv'
<1>1. TypeOK BY DEF CopyInv
<1>2. UNCHANGED <<heap, mem, tombstone, to, to_used>>
  BY DEF RegisterWeak, NextObject, NextPhase
<1>3. CASE ~Over' BY <1>3 DEF JudgeInv, Judged, Later, Cells
<1>4. CASE Over
  <2>1. CASE Over' /\ UNCHANGED <<weak, traced>>
    <3>1. Evacuated' = Evacuated BY <1>2, <1>4, <2>1 DEF Evacuated
    <3>2. Later' /\ Cells'
      BY <1>2, <1>4, <2>1, <3>1
      DEF JudgeInv, Later, Cells, KeptCells, LiveWeak, Names, RefLives, SomeCells, WeaklyNamed,
          New, Forwarded
    <3>3. ASSUME NEW k \in DOMAIN weak, NEW i \in DOMAIN heap[Original(weak[k])]
          PROVE  Fixed(k, i)' <=> Fixed(k, i)
      <4>1. PICK x : x = weak[k] OBVIOUS
      <4>2. /\ heap[Original(x)] \in Seq(Addresses) /\ Words(x) \in Seq(Addresses)
            /\ DOMAIN Words(x) = DOMAIN heap[Original(x)]
        BY <1>1, <1>4, <4>1, EntryKnown
      <4>3. i \in Nat /\ i # 0 /\ i <= Len(Words(x)) /\ Len(Words(x)) \in Nat
        BY <3>3, <4>1, <4>2
      <4>4. weak \in Seq((Permanent \cap Weak) \cup DOMAIN to) BY <1>1 DEF TypeOK
      <4>5. k \in Nat /\ k <= Len(weak) /\ Len(weak) \in Nat BY <3>3, <4>4
      <4>6. at.obj \in Nat /\ at.slot \in Nat BY <1>1 DEF TypeOK
      <4>7. CASE phase = "done"
        BY <4>7 DEF RegisterWeak, NextObject, NextPhase, Tracing, Fixed
      <4>8. CASE phase = "weak" /\ NextObject
        <5>1. /\ at' = [obj |-> at.obj + 1, slot |-> 1] /\ phase' = phase
              /\ object = weak[at.obj] /\ at.slot > Len(Words(object))
          BY <4>8 DEF NextObject, object, Nth
        <5>2. k = at.obj => i < at.slot BY <4>1, <4>3, <4>6, <5>1
        <5>3. at'.obj = at.obj + 1 /\ at'.slot = 1 BY <5>1
        <5> QED BY <4>3, <4>5, <4>6, <4>8, <5>1, <5>2, <5>3 DEF Fixed
      <4>9. CASE phase = "weak" /\ NextPhase
        <5>1. phase' = "done" /\ at.obj > Len(weak) BY <4>9 DEF NextPhase, Count
        <5> QED BY <4>5, <4>6, <5>1 DEF Fixed
      <4> QED BY <1>4, <4>7, <4>8, <4>9 DEF Over, RegisterWeak, Tracing
    <3>4. Judged' BY <1>2, <1>4, <2>1, <3>3, JudgedStays DEF JudgeInv
    <3> QED BY <3>2, <3>4 DEF JudgeInv
  <2>2. Over' /\ UNCHANGED <<weak, traced>>
    BY <1>4 DEF Over, RegisterWeak, NextObject, NextPhase, Tracing
  <2> QED BY <2>1, <2>2
<1>5. CASE ~Over /\ Over'
  <2>1. NextPhase /\ phase = "scan" /\ phase' = "weak" /\ UNCHANGED weak /\ at' = First
        /\ traced' = Len(to) /\ at.obj > Len(to)
    BY <1>5 DEF Over, RegisterWeak, NextObject, NextPhase, Tracing, Count
  <2>2. Len(to) \in Nat /\ DOMAIN to = 1..Len(to) BY <1>1, NumbersApart
  <2>3. Evacuated' = Copied BY <1>2, <1>5, <2>1, <2>2 DEF Evacuated, Copied
  <2>4. Later'
    <3>1. \A c \in DOMAIN to : ~(c > Len(to)) BY <2>2
    <3> QED BY <1>2, <2>1, <3>1 DEF Later
  <2>5. Cells'
    <3>1. SomeCells' = SomeCells BY <1>2 DEF SomeCells, WeaklyNamed, Names
    <3>2. ASSUME NEW s \in SomeCells
          PROVE  \/ mem[s][1] = heap[s][1]
                 \/ s \in Permanent /\ RefLives(s, Copied) /\ mem[s][1] = New(heap[s][1])
      <4>1. s \in From \cup Permanent /\ 1 \in DOMAIN heap[s]
        BY <1>1, CellKnown DEF ListInv
      <4>2. CASE s \in From BY <2>1, <4>2 DEF WordsInv, FromKept
      <4>3. CASE s \in Permanent
        <5>1. PICK a : a = heap[s][1] OBVIOUS
        <5>2. mem[s][1] = a \/ (Forwarded(a) /\ mem[s][1] = tombstone[a])
          BY <2>1, <4>1, <4>3, <5>1 DEF WordsInv, RootsKept, Tracing
        <5>3. Forwarded(a) => a \in From /\ a \in Copied /\ a # Null /\ New(a) = tombstone[a]
          BY ForwardedCopied, CheneyAssumption DEF Copied, Forwarded, New
        <5> QED BY <4>3, <5>1, <5>2, <5>3 DEF RefLives
      <4> QED BY <4>1, <4>2, <4>3
    <3> QED BY <1>2, <2>3, <3>1, <3>2 DEF Cells, RefLives, New, Forwarded
  <2>6. Judged'
    <3>1. ASSUME NEW k \in DOMAIN weak, NEW i \in DOMAIN heap[Original(weak[k])]
          PROVE  ~Fixed(k, i)' /\ Words(weak[k])[i] = heap[Original(weak[k])][i]
      <4>1. PICK x : x = weak[k] OBVIOUS
      <4>2. Past(x) /\ IsWeak(x) BY <4>1 DEF ListInv, Listed, WordsInv, WeakListed
      <4>3. x \in Permanent \cup DOMAIN to BY <1>1, <4>2, PastKnown
      <4>4. Words(x)[i] = heap[Original(x)][i]
        BY <2>1, <3>1, <4>1, <4>2, <4>3 DEF ListInv, Untraced, Tracing
      <4>5. heap[Original(x)] \in Seq(Addresses)
        <5>1. CASE x \in Permanent BY <1>1, <5>1, NumbersApart DEF Original, TypeOK
        <5>2. CASE x \in DOMAIN to BY <1>1, <5>2, NumbersApart, CopyKnown DEF Original
        <5> QED BY <4>3, <5>1, <5>2
      <4>6. i \in Nat /\ i # 0 BY <3>1, <4>1, <4>5
      <4>7. weak \in Seq((Permanent \cap Weak) \cup DOMAIN to) BY <1>1 DEF TypeOK
      <4>8. k \in Nat /\ k # 0 BY <3>1, <4>7
      <4>9. ~Fixed(k, i)' BY <2>1, <4>6, <4>8 DEF Fixed, First
      <4> QED BY <4>1, <4>4, <4>9
    <3> QED BY <1>2, <2>1, <3>1 DEF Judged, Words, Original
  <2> QED BY <2>4, <2>5, <2>6 DEF JudgeInv
<1> QED BY <1>3, <1>4, <1>5

\* The verdicts are kept by every step of the collection.
LEMMA JudgeInvStep ==
  ASSUME CopyInv, WordsInv, ListInv, JudgeInv, Next, CopyInv'
  PROVE  JudgeInv'
<1>1. CASE Forward
  <2>1. phase \in Tracing /\ phase' = phase BY <1>1, ForwardWords
  <2>2. ~Over' BY <2>1 DEF Over, Tracing
  <2> QED BY <2>2 DEF JudgeInv, Judged, Later, Cells
<1>2. CASE RegisterWeak \/ NextObject \/ NextPhase BY <1>2, MoveJudges
<1>3. CASE Fix BY <1>3, FixCells, FixLater, FixJudges DEF JudgeInv
<1> QED BY <1>1, <1>2, <1>3 DEF Next, Forward, Fix

\* The invariants of the collection with its weak references.
LEMMA JudgeInvAlways == Spec => [](CopyInv /\ WordsInv /\ ListInv /\ JudgeInv)
<1> DEFINE Inv == CopyInv /\ WordsInv
           Weakly == ListInv /\ JudgeInv
<1>1. Init => Weakly
  <2>1. Init => JudgeInv BY DEF Init, JudgeInv, Judged, Later, Cells, Over
  <2> QED BY <2>1, ListInvInit
<1>2. Inv /\ Inv' /\ Weakly /\ [Next]_vars => Weakly'
  <2>1. CASE Next BY <2>1, ListInvStep, JudgeInvStep
  <2>2. CASE UNCHANGED vars
    <3> USE <2>2 DEF vars
    <3> SUFFICES ASSUME ListInv, JudgeInv PROVE ListInv' /\ JudgeInv' OBVIOUS
    <3>2. Reached' BY DEF ListInv, Reached, Closed, RootRefs, Strong, Evacuated, Over
    <3>3. Listed' BY DEF ListInv, Listed, Past, Over, IsWeak, Original
    <3>4. Untraced'
      BY DEF ListInv, Untraced, IsWeak, Original, Words, Count, object, Nth
    <3>5. (Later /\ Cells)'
      BY DEF JudgeInv, Later, Cells, Over, KeptCells, LiveWeak, Names, RefLives, SomeCells,
         WeaklyNamed, New, Forwarded, Evacuated
    <3>6. Judged'
      <4>1. \A k, i : Fixed(k, i)' <=> Fixed(k, i) BY DEF Fixed
      <4>2. CASE Over
        <5>1. Over' BY <4>2 DEF Over
        <5> QED BY <4>1, <4>2, <5>1, JudgedStays DEF JudgeInv
      <4>3. CASE ~Over BY <4>3 DEF Judged, Over
      <4> QED BY <4>2, <4>3
    <3> QED BY <3>2, <3>3, <3>4, <3>5, <3>6 DEF ListInv, JudgeInv
  <2> QED BY <2>1, <2>2
<1> QED BY <1>1, <1>2, WordsInvAlways, PTL DEF Spec

\* When the collection is over every weak slot has its verdict.
LEMMA Verdicts ==
  ASSUME CopyInv, WordsInv, ListInv, JudgeInv, phase = "done"
  PROVE  \A w \in LiveWeak(Evacuated) : \A i \in DOMAIN heap[w] :
           Verdict(heap[w][i], Words(New(w))[i])
<1>1. TypeOK /\ Over BY DEF CopyInv, Over
<1> SUFFICES ASSUME NEW w \in LiveWeak(Evacuated), NEW i \in DOMAIN heap[w]
             PROVE  Verdict(heap[w][i], Words(New(w))[i])
  OBVIOUS
<1>2. w \in Weak /\ (w \in Evacuated \/ \E n \in DOMAIN Visited : w = Visited[n])
  BY DEF LiveWeak
<1>3. w \in From \cup Permanent BY <1>2, CheneyAssumption
<1>4. PICK x : x = New(w) OBVIOUS
<1>5. Past(x) /\ IsWeak(x) /\ Original(x) = w /\ x \in Permanent \cup DOMAIN to
  <2>1. CASE w \in Evacuated
    <3>1. w \in From /\ Forwarded(w) /\ tombstone[w] \in 1..traced
      BY <1>1, <2>1, ForwardedWhat DEF JudgeInv
    <3>2. x = tombstone[w] BY <1>4, <3>1 DEF New
    <3>3. x \in DOMAIN to /\ to[x].of = w BY <3>1, <3>2, ForwardedCopied
    <3>4. x \in Nat BY <1>1, <3>3, NumbersApart
    <3> QED BY <1>1, <1>2, <3>1, <3>2, <3>3, <3>4 DEF Past, IsWeak, Original
  <2>2. ASSUME NEW n \in DOMAIN Visited, w = Visited[n]
        PROVE  Past(x) /\ IsWeak(x) /\ Original(x) = w /\ x \in Permanent \cup DOMAIN to
    <3>1. w \in Permanent BY <2>2, CheneyAssumption, SeqElement
    <3>2. w \notin Nat /\ w \notin From BY <1>1, <3>1, NumbersApart
    <3>3. x = w BY <1>4, <3>2 DEF New
    <3> QED BY <1>1, <1>2, <2>2, <3>1, <3>2, <3>3 DEF Past, IsWeak, Original, Over
  <2> QED BY <1>2, <2>1, <2>2
<1>6. heap[w] # <<>>
  <2>1. heap[w] \in Seq(Addresses) BY <1>1, <1>3 DEF TypeOK
  <2> QED BY <2>1
<1>7. PICK k \in DOMAIN weak : weak[k] = x BY <1>5, <1>6 DEF ListInv, Listed
<1>8. Fixed(k, i) BY DEF Fixed
<1>9. Verdict(heap[Original(weak[k])][i], Words(weak[k])[i])
  BY <1>1, <1>5, <1>7, <1>8 DEF JudgeInv, Judged
<1> QED BY <1>4, <1>5, <1>7, <1>9

\* The collection copies what is alive and the SOME cells that weak slots keep,
\* and gives every slot of a living weak object the verdict that the heap
\* before it asks for (gc.rs, weak_fixup).
THEOREM WeakVerdictsAlways == Spec => []WeakVerdicts
<1>1. ASSUME CopyInv, WordsInv, ListInv, JudgeInv PROVE WeakVerdicts
  <2> SUFFICES ASSUME phase = "done" PROVE WeakVerdicts BY DEF WeakVerdicts
  <2>1. TypeOK /\ Over BY <1>1 DEF CopyInv, Over
  <2>2. Live = Evacuated BY <1>1, <2>1, EvacuatedIsLive DEF ListInv
  <2>3. PICK live : live = Evacuated OBVIOUS
  <2>4. 1..traced \subseteq DOMAIN to BY <2>1 DEF TypeOK
  <2>5. ASSUME NEW w \in LiveWeak(live), NEW i \in DOMAIN heap[w], NEW s, s = heap[w][i],
               NEW is, is = Words(New(w))[i]
        PROVE  /\ s \in live => is = tombstone[s]
               /\ s \in KeptCells(live) \/ (s \in Permanent /\ RefLives(s, live)) =>
                    is = New(s) /\ Words(is) = <<New(heap[s][1])>>
               /\ s \notin live /\ ~(s \in KeptCells(live) \/ (s \in Permanent /\ RefLives(s, live))) =>
                    is = Null
               /\ s \in KeptCells(live) => Forwarded(s)
    <3>1. Verdict(s, is) BY <1>1, <2>3, <2>5, Verdicts
    <3>2. w \in Weak BY <2>5 DEF LiveWeak
    <3>3. /\ s \in From \cup Permanent \cup {Null} /\ s \in WeaklyNamed(heap)
          /\ s \in Permanent => s \in SomeCells /\ s \notin Weak
          /\ s \in From /\ Len(heap[s]) = 1 => s \in SomeCells
      BY <1>1, <2>5, <3>2, WeakSlotKnown DEF ListInv
    <3>4. s \in Names(heap, LiveWeak(live)) BY <2>5 DEF Names
    <3>5. s \in KeptCells(live) <=> s \in From /\ Len(heap[s]) = 1 /\ RefLives(s, live)
      BY <3>4 DEF KeptCells
    <3>6. s \in From => s \notin Permanent /\ s # Null BY CheneyAssumption
    <3>7. s \in live => s \in From /\ Forwarded(s)
      BY <1>1, <2>1, <2>3, ForwardedWhat DEF JudgeInv
    <3>8. s \in KeptCells(live) => Forwarded(s) /\ is = tombstone[s]
      BY <2>3, <3>1, <3>5, <3>7 DEF Verdict
    <3>9. ASSUME s \in KeptCells(live)
          PROVE  is = New(s) /\ Words(is) = <<New(heap[s][1])>>
      <4>1. s \in From /\ s \in SomeCells /\ Forwarded(s) /\ is = tombstone[s] /\ Len(heap[s]) = 1
        BY <3>3, <3>5, <3>8, <3>9
      <4>2. is = New(s) BY <4>1 DEF New
      <4>3. is \in DOMAIN to /\ to[is].of = s BY <1>1, <4>1, ForwardedCopied
      <4>4. s \notin Weak /\ 1 \in DOMAIN heap[s] BY <1>1, <2>1, <4>1, CellKnown DEF ListInv
      <4>5. to[is].words[1] = New(heap[s][1])
        BY <1>1, <4>3, <4>4 DEF WordsInv, Faithful, Behind
      <4>6. to[is].words \in Seq(Addresses) /\ Len(to[is].words) = 1
        BY <1>1, <2>1, <4>1, <4>3, CopyKnown DEF WordsInv, Lengths
      <4>7. to[is].words = <<New(heap[s][1])>> BY <4>5, <4>6
      <4>8. is \in Nat BY <2>1, <4>3, NumbersApart
      <4> QED BY <4>2, <4>7, <4>8 DEF Words
    <3>10. ASSUME s \in Permanent, RefLives(s, live)
           PROVE  is = New(s) /\ Words(is) = <<New(heap[s][1])>>
      <4>1. is = s /\ mem[s][1] = New(heap[s][1]) BY <2>3, <3>1, <3>10 DEF Verdict
      <4>2. s \notin Nat /\ s \notin From BY <2>1, <3>10, NumbersApart
      <4>3. mem[s] \in Seq(Addresses) /\ Len(mem[s]) = 1
        BY <1>1, <2>1, <3>3, <3>10, CellKnown DEF ListInv
      <4>4. mem[s] = <<New(heap[s][1])>> BY <4>1, <4>3
      <4> QED BY <4>1, <4>2, <4>4 DEF Words, New
    <3>11. s \notin live /\ ~(s \in KeptCells(live) \/ (s \in Permanent /\ RefLives(s, live)))
             => is = Null
      BY <2>3, <3>1, <3>3, <3>5 DEF Verdict
    <3>12. s \in live => is = tombstone[s] BY <2>3, <3>1 DEF Verdict
    <3> QED BY <3>8, <3>9, <3>10, <3>11, <3>12
  <2>6. {to[c].of : c \in DOMAIN to} = live \cup KeptCells(live)
    <3>1. ASSUME NEW c \in DOMAIN to PROVE to[c].of \in live \cup KeptCells(live)
      <4>1. CASE c > traced BY <1>1, <2>1, <2>3, <4>1 DEF JudgeInv, Later
      <4>2. CASE ~(c > traced)
        <5>1. c \in Nat /\ c # 0 /\ traced \in Nat BY SMTT(40), <2>1, NumbersApart DEF TypeOK
        <5>2. c \in 1..traced BY <4>2, <5>1
        <5> QED BY <2>1, <2>3, <5>2 DEF Evacuated
      <4> QED BY <4>1, <4>2
    <3>2. ASSUME NEW s \in live \cup KeptCells(live) PROVE \E c \in DOMAIN to : to[c].of = s
      <4>1. CASE s \in live BY <2>1, <2>3, <2>4, <4>1 DEF Evacuated
      <4>2. CASE s \in KeptCells(live)
        <5>1. PICK w \in LiveWeak(live) : \E i \in DOMAIN heap[w] : s = heap[w][i]
          BY <4>2 DEF KeptCells, Names
        <5>2. PICK i \in DOMAIN heap[w] : s = heap[w][i] BY <5>1
        <5>3. PICK is : is = Words(New(w))[i] OBVIOUS
        <5>4. Forwarded(s) BY <2>5, <4>2, <5>1, <5>2, <5>3
        <5> QED BY <1>1, <5>4, ForwardedCopied
      <4> QED BY <3>2, <4>1, <4>2
    <3> QED BY <3>1, <3>2
  <2> QED BY <2>2, <2>3, <2>5, <2>6 DEF WeakVerdicts
<1> QED BY <1>1, JudgeInvAlways, PTL

-----------------------------------------------------------------------------
(* What the trace comes to *)

\* A step of the trace changes no closed set, keeps what is evacuated inside
\* each of them, and ends the trace only when that is closed itself.
LEMMA ReachableStep ==
  ASSUME Traced!EvacuatesTheReachable, [Traced!Next]_(Traced!vars)
  PROVE  Traced!EvacuatesTheReachable'
<1> DEFINE F == [o \in From |-> Strong(o)]
<1>1. ASSUME NEW S PROVE Traced!Closed(S)' <=> Traced!Closed(S)
  <2>1. F' = F /\ RootRefs' = RootRefs
    BY DEF Traced!Next, Traced!Evacuate, Traced!Finish, Traced!vars, Traced!graph
  <2> QED BY <2>1 DEF Traced!Closed
<1>2. \/ Evacuated' = Evacuated /\ (Over' <=> Over)
      \/ Evacuated' = Evacuated /\ Traced!Closed(Evacuated)
      \/ /\ ~Over /\ ~Over'
         /\ \E o \in From : /\ Evacuated' = Evacuated \cup {o}
                            /\ o \in RootRefs \/ \E p \in Evacuated : o \in F[p]
  BY DEF Traced!Next, Traced!Evacuate, Traced!Finish, Traced!vars, Traced!Closed, Evacuated, Over
<1>3. /\ \A S \in SUBSET From : Traced!Closed(S) => Evacuated \subseteq S
      /\ Over => Traced!Closed(Evacuated)
  BY DEF Traced!EvacuatesTheReachable, Evacuated, Over
<1>4. ASSUME NEW S \in SUBSET From, Traced!Closed(S)' PROVE Evacuated' \subseteq S
  <2>1. Traced!Closed(S) BY <1>1, <1>4
  <2>2. Evacuated \subseteq S BY <1>3, <2>1
  <2>3. RootRefs \subseteq S /\ \A p \in S : F[p] \subseteq S BY <2>1 DEF Traced!Closed
  <2> QED BY <1>2, <2>2, <2>3
<1>5. ASSUME Over' PROVE Traced!Closed(Evacuated') /\ Evacuated' = Evacuated
  BY <1>2, <1>3, <1>5
<1>6. ASSUME NEW S, S = Evacuated', Over' PROVE Traced!Closed(S)'
  BY <1>1, <1>5, <1>6
<1> QED BY <1>4, <1>6 DEF Traced!EvacuatesTheReachable, Evacuated, Over

\* What is evacuated is reachable, and when the trace is over it is all that
\* is reachable, without weak references (gc.rs, cheney_scan).
THEOREM EvacuatesAlways == Spec => []Traced!EvacuatesTheReachable
<1>1. Traced!Init => Traced!EvacuatesTheReachable
  BY DEF Traced!Init, Traced!EvacuatesTheReachable, Traced!Closed
<1> QED BY <1>1, ReachableStep, CollectionTraces, PTL DEF ImplementsTrace, Traced!Spec
=============================================================================
