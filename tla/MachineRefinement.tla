------------------------- MODULE MachineRefinement -------------------------
(***************************************************************************)
(* The machine implements plain activations, for all code objects, stacks  *)
(* of any height and any number of collections, as long as a nested run    *)
(* neither collects nor finishes nor runs out of heap.                     *)
(*                                                                         *)
(* CallInv adds to MachineInv and FreshInv which Rust frame or return      *)
(* address each activation was entered by; with the three, every part of   *)
(* what Activated computes is known.                                       *)
(***************************************************************************)
EXTENDS MachineProofs

-----------------------------------------------------------------------------
(* How activations were entered *)

\* A native root by a hook of do_call, the callee of a region by
\* region_interp_call, any other by a call that left a return address.
EntryOK(i) ==
  IF base[i].native
  THEN ~base[i - 1].native => \E j \in DOMAIN nest : base[i].h = nest[j].top + 2
  ELSE IF base[i - 1].native
       THEN \E j \in 1..Outer : Caller(j) = i - 1
       ELSE stack[base[i].h - 1] # Zero

EntriesOK == \A i \in 2..Len(base) : EntryOK(i)

\* A region raises no heap exhaustion of its own.
FlightOK == status # "running" => flight \in (Packets \cup HardErrors) \ {"heap"}

\* PolyFinish was called by the outermost run, which halts next.
HaltOK == halt => status = "running" /\ nest = <<>>

CallInv == Live => EntriesOK /\ FlightOK /\ HaltOK

\* The entries, as lower activations stay, with the frames they were entered
\* by, and one may be put on top.
LEMMA EntriesStep ==
  ASSUME DataOK, BaseOK, EntriesOK, NEW m \in Nat, NEW b \in Nat, Keeps(m, b),
         b >= 1 => base[b].h <= m, NEW l, l = Len(base'), l = b \/ l = b + 1,
         NEW k \in Nat, k <= Len(nest), k <= Len(nest'),
         \A j \in 1..k : nest'[j].top = nest[j].top,
         \A j \in 1..Len(nest) : k < j => base[b].h < nest[j].top + 2,
         NEW o \in Nat, Outer \in Nat, Outer' \in Nat, o <= Outer', \A j \in 1..o : Caller(j)' = Caller(j),
         \A j \in 1..Outer : o < j => Caller(j) >= b,
         l = b + 1 /\ b >= 1 => EntryOK(b + 1)'
  PROVE  EntriesOK'
<1>1. Len(base) \in Nat /\ Len(nest) \in Nat /\ DOMAIN nest = 1..Len(nest) BY DataKnown DEF DataFacts
<1>2. b <= Len(base) /\ b <= l /\ l \in Nat BY DEF Keeps
<1>3. ASSUME NEW i \in 2..b PROVE EntryOK(i)'
  <2>1. i \in 1..b /\ i - 1 \in 1..b /\ b \in 1..b /\ i \in 2..Len(base) BY <1>1, <1>2
  <2>2. base'[i] = base[i] /\ base'[i - 1] = base[i - 1] BY <2>1 DEF Keeps
  <2>3. EntryOK(i) BY <2>1 DEF EntriesOK
  <2>4. base[i].h \in Nat /\ base[i].h >= 2 /\ base[i].h <= m BY <1>2, <2>1, BelowKept
  <2>5. stack'[base[i].h - 1] = stack[base[i].h - 1]
    <3>1. base[i].h - 1 \in 1..m BY SMTT(40), <2>4
    <3> QED BY <3>1 DEF Keeps
  <2>6. base[i].h <= base[b].h
    <3>1. b \in 1..Len(base) /\ i \in 1..Len(base) BY <1>1, <1>2, <2>1
    <3>2. i < b => base[i].h + 2 <= base[b].h BY <3>1, BaseKnown DEF BaseFacts
    <3>3. base[b].h \in Nat BY <3>1, DataKnown DEF DataFacts
    <3> QED BY SMTT(40), <2>1, <2>4, <3>2, <3>3
  <2>7. CASE base[i].native
    <3>1. SUFFICES ASSUME ~base[i - 1].native
                   PROVE  \E j \in DOMAIN nest' : base'[i].h = nest'[j].top + 2
      BY <2>2, <2>7 DEF EntryOK
    <3>2. PICK j \in 1..Len(nest) : base[i].h = nest[j].top + 2 BY <1>1, <2>3, <2>7, <3>1 DEF EntryOK
    <3>3. ~ k < j
      <4> SUFFICES ASSUME k < j PROVE FALSE OBVIOUS
      <4>1. base[b].h < nest[j].top + 2 BY <3>2
      <4>2. base[b].h \in Nat
        <5>1. b \in 1..Len(base) BY <1>1, <1>2, <2>1
        <5> QED BY <5>1, DataKnown DEF DataFacts
      <4>3. base[b].h < base[i].h BY <3>2, <4>1
      <4> QED BY SMTT(40), <2>4, <2>6, <4>2, <4>3
    <3>4. j \in 1..k /\ j \in DOMAIN nest'
      <4>1. j \in 1..k BY <3>3, <1>1
      <4> QED BY <4>1
    <3> QED BY <2>2, <3>2, <3>4
  <2>8. CASE ~base[i].native /\ base[i - 1].native
    <3>1. PICK j \in 1..Outer : Caller(j) = i - 1 BY <2>3, <2>8 DEF EntryOK
    <3>2. j \in 1..o /\ j \in 1..Outer'
      <4>1. j \in Nat /\ ~ Caller(j) >= b BY <2>1, <3>1
      <4>2. ~ o < j BY <4>1
      <4> QED BY <4>1, <4>2
    <3> QED BY <2>2, <2>8, <3>1, <3>2 DEF EntryOK
  <2>9. CASE ~base[i].native /\ ~base[i - 1].native BY <2>2, <2>3, <2>5, <2>9 DEF EntryOK
  <2> QED BY <2>7, <2>8, <2>9
<1> QED
  <2> SUFFICES ASSUME NEW i \in 2..l PROVE EntryOK(i)' BY DEF EntriesOK
  <2>1. i <= b \/ (i = b + 1 /\ b >= 1 /\ l = b + 1) BY <1>2
  <2>2. CASE i <= b BY <1>2, <1>3, <2>2
  <2>3. CASE i = b + 1 /\ b >= 1 /\ l = b + 1
    <3>1. EntryOK(b + 1)' BY <2>3
    <3> QED BY <2>3, <3>1
  <2> QED BY <2>1, <2>2, <2>3

-----------------------------------------------------------------------------
(* Chains of activations *)

LEMMA SameSequence ==
  ASSUME NEW S, NEW a \in Seq(S), NEW b \in Seq(S), Len(a) = Len(b),
         \A i \in 1..Len(a) : a[i] = b[i]
  PROVE  a = b
OBVIOUS

\* The last activation replaced.
LEMMA LastReplaced ==
  ASSUME NEW S, NEW a \in Seq(S), Len(a) > 0, NEW e \in S
  PROVE  /\ A!Replaced(a, e) \in Seq(S) /\ Len(A!Replaced(a, e)) = Len(a)
         /\ \A i \in 1..(Len(a) - 1) : A!Replaced(a, e)[i] = a[i]
         /\ A!Replaced(a, e)[Len(a)] = e
<1>1. PICK f : f = Front(a) OBVIOUS
<1>2. f \in Seq(S) /\ Len(f) = Len(a) - 1 /\ \A i \in 1..(Len(a) - 1) : f[i] = a[i]
  BY <1>1, Shortened
<1>3. /\ Append(f, e) \in Seq(S) /\ Len(Append(f, e)) = Len(f) + 1
      /\ \A i \in 1..Len(f) : Append(f, e)[i] = f[i]
      /\ Append(f, e)[Len(f) + 1] = e
  BY <1>2, Appended
<1>4. A!Replaced(a, e) = Append(f, e) BY <1>1 DEF A!Replaced, A!Front, Front
<1>5. PICK n : n = Len(a) OBVIOUS
<1>6. n \in Nat /\ Len(f) = n - 1 /\ Len(f) + 1 = n BY <1>2, <1>5
<1> QED BY <1>2, <1>3, <1>4, <1>5, <1>6

LEMMA IsReplaced ==
  ASSUME NEW S, NEW a \in Seq(S), NEW b \in Seq(S), NEW n \in Nat, n > 0, Len(a) = n, Len(b) = n,
         \A i \in 1..(n - 1) : b[i] = a[i]
  PROVE  b = A!Replaced(a, b[n])
<1>1. PICK e : e = b[n] OBVIOUS
<1>2. e \in S BY <1>1
<1>3. PICK d : d = A!Replaced(a, e) OBVIOUS
<1>4. /\ d \in Seq(S) /\ Len(d) = Len(a)
      /\ \A i \in 1..(Len(a) - 1) : d[i] = a[i]
      /\ d[Len(a)] = e
  <2>1. Len(a) > 0 OBVIOUS
  <2> QED BY ONLY ZenonT(60), a \in Seq(S), <2>1, <1>2, <1>3, LastReplaced
<1>5. \A i \in 1..n : b[i] = d[i]
  <2> SUFFICES ASSUME NEW i \in 1..n PROVE b[i] = d[i] OBVIOUS
  <2>1. i = n \/ i \in 1..(n - 1) OBVIOUS
  <2> QED BY <1>1, <1>4, <2>1
<1>6. b = d BY ONLY <1>4, <1>5, b \in Seq(S), Len(a) = n, Len(b) = n, SameSequence
<1> QED BY <1>1, <1>3, <1>6

\* Two chains agree below the n-th activation, the last of the first.
Agree(S, a, b, n) ==
  /\ a \in Seq(S) /\ b \in Seq(S) /\ n \in Nat /\ n > 0 /\ Len(a) = n
  /\ \A i \in 1..(n - 1) : b[i] = a[i]

LEMMA IsComputing ==
  ASSUME NEW S, NEW a, NEW b, NEW n, Agree(S, a, b, n), Len(b) = n,
         b[n] = A!Goes(a[n], b[n].pos, b[n].temps, a[n].hs)
  PROVE  A!Computes(a, b)
<1>1. a \in Seq(S) /\ b \in Seq(S) /\ n \in Nat /\ n > 0 /\ Len(a) = n
      /\ \A i \in 1..(n - 1) : b[i] = a[i]
  BY DEF Agree
<1>2. b = A!Replaced(a, b[n]) BY <1>1, IsReplaced
<1>3. A!Last(a) = a[n] /\ A!Last(b) = b[n] BY <1>1 DEF A!Last
<1> QED BY <1>1, <1>2, <1>3, Zenon DEF A!Computes

LEMMA IsTailCall ==
  ASSUME NEW S, NEW a, NEW b, NEW n, Agree(S, a, b, n), Len(b) = n, a[n].hs = <<>>,
         NEW c \in Codes, b[n] = A!Fresh(c)
  PROVE  A!TailCalls(a, b)
<1>1. a \in Seq(S) /\ b \in Seq(S) /\ n \in Nat /\ n > 0 /\ Len(a) = n
      /\ \A i \in 1..(n - 1) : b[i] = a[i]
  BY DEF Agree
<1>2. b = A!Replaced(a, b[n]) BY <1>1, IsReplaced
<1>3. A!Last(a) = a[n] BY <1>1 DEF A!Last
<1>4. b = A!Replaced(a, A!Fresh(c)) BY <1>2, Zenon
<1>5. A!Last(a).hs = <<>> BY <1>3, Zenon
<1> QED BY <1>4, <1>5, Zenon DEF A!TailCalls

LEMMA IsCall ==
  ASSUME NEW S, NEW a, NEW b, NEW n, Agree(S, a, b, n), Len(b) = n + 1,
         NEW c \in Codes, b[n + 1] = A!Fresh(c), NEW k \in {Arity[c], Arity[c] + 1},
         a[n].temps >= k, b[n] = A!Goes(a[n], b[n].pos, a[n].temps - k, a[n].hs)
  PROVE  A!Calls(a, b)
<1>1. a \in Seq(S) /\ b \in Seq(S) /\ n \in Nat /\ n > 0 /\ Len(a) = n
      /\ \A i \in 1..(n - 1) : b[i] = a[i]
  BY DEF Agree
<1>2. PICK d : d = SubSeq(b, 1, n) OBVIOUS
<1>3. d \in Seq(S) /\ Len(d) = n /\ \A i \in 1..n : d[i] = b[i]
  <2>1. n \in 0..Len(b) BY <1>1
  <2> QED BY <1>1, <1>2, <2>1, Prefix
<1>4. d = A!Replaced(a, d[n])
  <2>1. \A i \in 1..(n - 1) : d[i] = a[i] BY <1>1, <1>3
  <2> QED BY ONLY <1>1, <1>3, <2>1, IsReplaced
<1>5. d[n] = b[n] BY <1>1, <1>3
<1>6. b = Append(d, b[n + 1])
  <2>1. PICK e : e = b[n + 1] OBVIOUS
  <2>2. e \in S
    <3>1. n + 1 \in 1..Len(b) BY <1>1
    <3> QED BY <1>1, <2>1, <3>1, Elements
  <2>3. PICK z : z = Append(d, e) OBVIOUS
  <2>4. z \in Seq(S) /\ Len(z) = n + 1 /\ (\A i \in 1..n : z[i] = d[i]) /\ z[n + 1] = e
    BY ONLY <1>1, <1>3, <2>2, <2>3, Appended
  <2>5. \A i \in 1..(n + 1) : b[i] = z[i]
    <3> SUFFICES ASSUME NEW i \in 1..(n + 1) PROVE b[i] = z[i] OBVIOUS
    <3>1. i \in 1..n \/ i = n + 1 BY <1>1
    <3> QED BY <1>3, <2>1, <2>4, <3>1
  <2>6. b = z BY ONLY <1>1, <2>4, <2>5, Len(b) = n + 1, SameSequence
  <2> QED BY <2>1, <2>3, <2>6
<1>7. A!Last(a) = a[n] /\ A!Last(b) = b[n + 1] BY <1>1 DEF A!Last
<1>8. A!Last(b).code = c BY <1>7 DEF A!Fresh
<1>9. PICK r : r = A!Goes(a[n], b[n].pos, a[n].temps - k, a[n].hs) OBVIOUS
<1>10. d = A!Replaced(a, r) BY <1>4, <1>5, <1>9
<1>11. b = Append(A!Replaced(a, r), A!Fresh(c)) BY <1>6, <1>10
<1>12. r = A!Goes(A!Last(a), b[Len(a)].pos, A!Last(a).temps - k, A!Last(a).hs) BY <1>1, <1>7, <1>9
<1>13. k \in {Arity[A!Last(b).code], Arity[A!Last(b).code] + 1} BY <1>8
<1>14. A!Last(a).temps >= k BY <1>7
<1>15. Len(b) = Len(a) + 1 BY SMTT(40), <1>1
<1>16. b = Append(A!Replaced(a, A!Goes(A!Last(a), b[Len(a)].pos, A!Last(a).temps - k, A!Last(a).hs)),
                  A!Fresh(A!Last(b).code))
  BY <1>8, <1>11, <1>12
<1> QED BY <1>8, <1>13, <1>14, <1>15, <1>16, Zenon DEF A!Calls

LEMMA IsReturn ==
  ASSUME NEW S, NEW a \in Seq(S), NEW b \in Seq(S), NEW n \in Nat, n > 0,
         Len(a) = n + 1, Len(b) = n, \A i \in 1..(n - 1) : b[i] = a[i],
         a[n + 1].temps = 1, a[n + 1].hs = <<>>,
         b[n] = A!Goes(a[n], a[n].pos, a[n].temps + 1, a[n].hs)
  PROVE  A!Returns(a, b)
<1>1. PICK f : f = A!Front(a) OBVIOUS
<1>2. f = Front(a) BY <1>1 DEF A!Front, Front
<1>3. f \in Seq(S) /\ Len(f) = n /\ \A i \in 1..n : f[i] = a[i]
  <2>1. Len(a) > 0 OBVIOUS
  <2>2. f \in Seq(S) /\ Len(f) = Len(a) - 1 /\ \A i \in 1..(Len(a) - 1) : f[i] = a[i]
    BY ONLY <2>1, <1>2, a \in Seq(S), Shortened
  <2> QED BY <2>2
<1>4. b = A!Replaced(f, b[n])
  <2>1. \A i \in 1..(n - 1) : b[i] = f[i] BY <1>3
  <2> QED BY ONLY <1>3, <2>1, b \in Seq(S), n \in Nat, n > 0, Len(b) = n, IsReplaced
<1>5. A!Last(f) = a[n] /\ A!Last(a) = a[n + 1] BY <1>3 DEF A!Last
<1>6. Len(a) > 1 OBVIOUS
<1>7. b[n] = A!Goes(A!Last(f), A!Last(f).pos, A!Last(f).temps + 1, A!Last(f).hs) BY <1>5
<1>8. A!Last(a).temps = 1 /\ A!Last(a).hs = <<>> BY <1>5
<1> QED BY <1>1, <1>4, <1>6, <1>7, <1>8, Zenon DEF A!Returns

LEMMA IsSettingHandler ==
  ASSUME NEW S, NEW a, NEW b, NEW n, Agree(S, a, b, n), Len(b) = n, a[n].temps > 0,
         NEW H, a[n].hs \in Seq(H), NEW x, NEW h \in H, h = [pos |-> x, temps |-> a[n].temps - 1],
         b[n] = A!Goes(a[n], b[n].pos, a[n].temps - 1, Append(a[n].hs, h))
  PROVE  A!SetsHandler(a, b)
<1>1. a \in Seq(S) /\ b \in Seq(S) /\ n \in Nat /\ n > 0 /\ Len(a) = n
      /\ \A i \in 1..(n - 1) : b[i] = a[i]
  BY DEF Agree
<1>2. b = A!Replaced(a, b[n]) BY <1>1, IsReplaced
<1>3. A!Last(a) = a[n] /\ A!Last(b) = b[n] BY <1>1 DEF A!Last
<1>4. PICK s, v : s = a[n].hs /\ v = Append(s, h) OBVIOUS
<1>5. v \in Seq(H) /\ Len(v) = Len(s) + 1 /\ v[Len(s) + 1] = h /\ s \in Seq(H)
  BY <1>4, Appended
<1>6. Len(s) \in Nat /\ v # <<>> /\ A!Last(v) = h BY <1>5 DEF A!Last
<1>7. b[n].hs = v BY <1>4 DEF A!Goes
<1>8. h = [pos |-> A!Last(A!Last(b).hs).pos, temps |-> A!Last(a).temps - 1]
  <2>1. h.pos = x OBVIOUS
  <2> QED BY <1>3, <1>6, <1>7, <2>1
<1>9. h.temps = a[n].temps - 1 OBVIOUS
<1>10. b[n] = A!Goes(A!Last(a), A!Last(b).pos, h.temps, Append(A!Last(a).hs, h)) BY <1>3, <1>9
<1>11. A!Last(a).temps > 0 /\ Len(b) = Len(a) /\ A!Last(b).hs # <<>> BY <1>1, <1>3, <1>6, <1>7
<1> QED BY <1>2, <1>8, <1>10, <1>11, Zenon DEF A!SetsHandler

LEMMA IsDeletingHandler ==
  ASSUME NEW S, NEW a, NEW b, NEW n, Agree(S, a, b, n), Len(b) = n,
         a[n].hs # <<>>, NEW t, t = A!Last(a[n].hs).temps, a[n].temps > t,
         b[n] = A!Goes(a[n], b[n].pos, t + 1, A!Front(a[n].hs))
  PROVE  A!DeletesHandler(a, b)
<1>1. a \in Seq(S) /\ b \in Seq(S) /\ n \in Nat /\ n > 0 /\ Len(a) = n
      /\ \A i \in 1..(n - 1) : b[i] = a[i]
  BY DEF Agree
<1>2. b = A!Replaced(a, b[n]) BY <1>1, IsReplaced
<1>3. A!Last(a) = a[n] /\ A!Last(b) = b[n] BY <1>1 DEF A!Last
<1>4. b[n] = A!Goes(A!Last(a), A!Last(b).pos, A!Last(A!Last(a).hs).temps + 1, A!Front(A!Last(a).hs))
  BY <1>3
<1>5. A!Last(a).hs # <<>> /\ A!Last(a).temps > A!Last(A!Last(a).hs).temps /\ Len(b) = Len(a)
  BY <1>1, <1>3
<1> QED BY <1>2, <1>4, <1>5, Zenon DEF A!DeletesHandler

\* What a raise leaves: the chain up to the m-th activation, that one changed.
LEMMA CutTo ==
  ASSUME NEW S, NEW a \in Seq(S), NEW b \in Seq(S), NEW m \in Nat, m > 0, m <= Len(a), Len(b) = m,
         \A i \in 1..(m - 1) : b[i] = a[i]
  PROVE  b = Append(SubSeq(a, 1, m - 1), b[m])
<1>1. PICK l, d, e : l = m - 1 /\ d = SubSeq(a, 1, l) /\ e = b[m] OBVIOUS
<1>2. l \in 0..Len(a) /\ l + 1 = m BY <1>1
<1>3. d \in Seq(S) /\ Len(d) = l /\ \A i \in 1..l : d[i] = a[i] BY <1>1, <1>2, Prefix
<1>4. e \in S BY <1>1
<1>5. PICK z : z = Append(d, e) OBVIOUS
<1>6. z \in Seq(S) /\ Len(z) = l + 1 /\ (\A i \in 1..l : z[i] = d[i]) /\ z[l + 1] = e
  BY ONLY <1>2, <1>3, <1>4, <1>5, Appended
<1>7. \A i \in 1..m : b[i] = z[i]
  <2> SUFFICES ASSUME NEW i \in 1..m PROVE b[i] = z[i] OBVIOUS
  <2>1. i \in 1..l \/ i = m BY <1>1
  <2> QED BY <1>1, <1>2, <1>3, <1>6, <2>1
<1>8. b = z BY ONLY <1>2, <1>6, <1>7, b \in Seq(S), Len(b) = m, SameSequence
<1> QED BY <1>1, <1>5, <1>8

LEMMA IsCatching ==
  ASSUME NEW S, NEW a \in Seq(S), NEW b \in Seq(S), NEW m \in Nat, m > 0, m <= Len(a), Len(b) = m,
         \A i \in 1..(m - 1) : b[i] = a[i], \A i \in m + 1..Len(a) : a[i].hs = <<>>,
         NEW x, x \notin HardErrors, a[m].hs # <<>>,
         b[m] = A!Goes(a[m], A!Last(a[m].hs).pos, A!Last(a[m].hs).temps, A!Front(a[m].hs))
  PROVE  A!Unwinds(a, b, x, "running")
<1>1. b = Append(SubSeq(a, 1, m - 1), b[m]) BY CutTo
<1>2. A!Catches(a, b, m) BY <1>1, Zenon DEF A!Catches
<1> QED BY <1>2 DEF A!Unwinds

LEMMA IsPropagating ==
  ASSUME NEW S, NEW a \in Seq(S), NEW b \in Seq(S), NEW m \in Nat, m > 0, m <= Len(a), Len(b) = m,
         \A i \in 1..(m - 1) : b[i] = a[i], \A i \in m + 1..Len(a) : a[i].hs = <<>>,
         NEW x, x \notin HardErrors,
         b[m] = A!Goes(a[m], a[m].pos, b[m].temps, a[m].hs)
  PROVE  A!Unwinds(a, b, x, "raising")
<1>1. b = Append(SubSeq(a, 1, m - 1), b[m]) BY CutTo
<1>2. A!Last(b) = b[m] BY DEF A!Last
<1>3. b[m] = A!Goes(a[m], a[m].pos, A!Last(b).temps, a[m].hs) BY <1>2
<1>4. A!Propagates(a, b, m, x) BY <1>1, <1>3, Zenon DEF A!Propagates
<1> QED BY <1>4 DEF A!Unwinds

LEMMA IsDoomed ==
  ASSUME NEW a, NEW b, NEW m \in Nat, m > 0, Len(a) \in Nat, m <= Len(a), Len(b) = m,
         NEW x \in HardErrors, b = [i \in 1..m |-> A!Fresh(a[i].code)]
  PROVE  A!Unwinds(a, b, x, "raising")
<1>1. A!Propagates(a, b, m, x) BY Zenon DEF A!Propagates
<1> QED BY <1>1 DEF A!Unwinds

LEMMA IsEnd ==
  ASSUME NEW a, Len(a) \in Nat, NEW x, \A i \in 1..Len(a) : a[i].hs = <<>> \/ x \in HardErrors
  PROVE  A!Unwinds(a, <<>>, x, IF x \in HardErrors THEN "error" ELSE "uncaught")
BY DEF A!Unwinds

-----------------------------------------------------------------------------
(* The blocks of an activation, in order *)

\* How many members of S are below x.
Under(S, x) == Cardinality({y \in S : y < x})

LEMMA UnderKnown ==
  ASSUME NEW S, S \subseteq Nat, IsFiniteSet(S)
  PROVE  /\ Cardinality(S) \in Nat /\ \A x : Under(S, x) \in Nat
         /\ \A x, z \in S : x < z => Under(S, x) + 1 <= Under(S, z)
         /\ \A x \in S : Under(S, x) + 1 <= Cardinality(S)
<1> DEFINE B(x) == {y \in S : y < x}
<1>1. ASSUME NEW x PROVE IsFiniteSet(B(x)) /\ Cardinality(B(x)) \in Nat
  <2>1. B(x) \in SUBSET S OBVIOUS
  <2> HIDE DEF B
  <2> QED BY <2>1, FS_Subset, FS_CardinalityType
<1>2. ASSUME NEW x \in S, NEW T, T \subseteq S, B(x) \subseteq T, x \in T
      PROVE  Cardinality(B(x)) + 1 <= Cardinality(T)
  <2>1. IsFiniteSet(T) BY <1>2, FS_Subset
  <2>2. x \notin B(x) BY <1>2
  <2>3. IsFiniteSet(B(x)) BY <1>1
  <2> HIDE DEF B
  <2>4. Cardinality(B(x) \cup {x}) = Cardinality(B(x)) + 1 BY <2>2, <2>3, FS_AddElement
  <2>5. (B(x) \cup {x}) \in SUBSET T BY <1>2
  <2>6. Cardinality(B(x) \cup {x}) <= Cardinality(T) BY <2>1, <2>5, FS_Subset
  <2> QED BY <2>4, <2>6
<1>3. ASSUME NEW x \in S, NEW z \in S, x < z PROVE Under(S, x) + 1 <= Under(S, z)
  <2>1. B(x) \subseteq B(z) /\ x \in B(z) /\ B(z) \subseteq S
    <3>1. \A y \in S : y \in Nat OBVIOUS
    <3>2. ASSUME NEW y \in B(x) PROVE y \in B(z)
      <4>1. y \in S /\ y < x OBVIOUS
      <4>2. y \in Nat /\ x \in Nat /\ z \in Nat BY <3>1, <4>1
      <4> QED BY <1>3, <4>1, <4>2
    <3>3. B(z) \subseteq S /\ x \in B(z) BY <1>3
    <3> HIDE DEF B
    <3> QED BY <3>2, <3>3
  <2>2. Cardinality(B(x)) + 1 <= Cardinality(B(z))
    <3> HIDE DEF B
    <3> QED BY <1>2, <2>1
  <2> QED BY <2>2 DEF Under
<1>4. ASSUME NEW x \in S PROVE Under(S, x) + 1 <= Cardinality(S)
  <2>1. B(x) \subseteq S OBVIOUS
  <2>2. Cardinality(B(x)) + 1 <= Cardinality(S)
    <3> HIDE DEF B
    <3> QED BY <1>2, <2>1
  <2> QED BY <2>2 DEF Under
<1>5. Cardinality(S) \in Nat BY FS_CardinalityType
<1>6. \A x : Under(S, x) \in Nat BY <1>1 DEF Under
<1> QED BY <1>3, <1>4, <1>5, <1>6

\* Every number up to the cardinality has its member.
LEMMA NthExists ==
  ASSUME NEW S, S \subseteq Nat, IsFiniteSet(S), NEW n \in Nat, n < Cardinality(S)
  PROVE  \E x \in S : Under(S, x) = n
<1> DEFINE T == {k \in Nat : k < Cardinality(S) => \E x \in S : Under(S, x) = k}
<1>1. Cardinality(S) \in Nat BY FS_CardinalityType
<1>2. 0 \in T
  <2> SUFFICES ASSUME 0 < Cardinality(S) PROVE \E x \in S : Under(S, x) = 0 OBVIOUS
  <2>1. S # {} BY FS_EmptySet
  <2>2. PICK x \in S : \A y \in S : x <= y BY <2>1, Least
  <2>3. {y \in S : y < x} = {}
    <3>1. ASSUME NEW y \in S PROVE ~ (y < x)
      <4>1. y \in Nat /\ x \in Nat /\ x <= y BY <2>2
      <4> QED BY <4>1
    <3> QED BY <3>1
  <2>4. Under(S, x) = 0 BY <2>3, FS_EmptySet DEF Under
  <2> QED BY <2>4
<1>3. ASSUME NEW k \in Nat, k \in T PROVE k + 1 \in T
  <2> SUFFICES ASSUME k + 1 < Cardinality(S) PROVE \E x \in S : Under(S, x) = k + 1 OBVIOUS
  <2>1. PICK x \in S : Under(S, x) = k BY <1>1, <1>3
  <2>2. PICK D : D = {y \in S : y < x} \cup {x} OBVIOUS
  <2>3. IsFiniteSet(D) /\ Cardinality(D) = k + 1
    <3>1. PICK B : B = {y \in S : y < x} OBVIOUS
    <3>2. IsFiniteSet(B) /\ x \notin B /\ Cardinality(B) = k
      <4>1. B \in SUBSET S BY <3>1
      <4> QED BY <2>1, <3>1, <4>1, FS_Subset DEF Under
    <3> QED BY <2>2, <3>1, <3>2, FS_AddElement
  <2>4. D # S BY <2>3, <1>1
  <2>5. PICK U : U = {y \in S : x < y} OBVIOUS
  <2>6. U # {} /\ U \subseteq Nat
    <3>1. D \subseteq S BY <2>2
    <3>2. PICK y \in S : y \notin D BY <2>4, <3>1
    <3>3. ~ (y < x) /\ y # x /\ x \in Nat /\ y \in Nat BY <2>2, <3>2
    <3>4. x < y BY <3>3
    <3> QED BY <2>5, <3>2, <3>4
  <2>7. PICK z \in U : \A y \in U : z <= y BY <2>6, Least
  <2>8. {y \in S : y < z} = D
    <3>1. z \in S /\ x < z /\ z \in Nat /\ x \in Nat BY <2>5, <2>6, <2>7
    <3>2. ASSUME NEW y \in S PROVE y < z <=> y < x \/ y = x
      <4>1. y \in Nat OBVIOUS
      <4>2. x < y => z <= y BY <2>5, <2>7
      <4> QED BY <3>1, <4>1, <4>2
    <3> QED BY <2>2, <3>2
  <2>9. z \in S /\ Under(S, z) = k + 1 BY <2>3, <2>5, <2>7, <2>8 DEF Under
  <2> QED BY <2>9
<1> HIDE DEF T
<1>4. Nat \subseteq T BY <1>2, <1>3, Counting
<1> QED BY <1>4 DEF T

LEMMA NthIs ==
  ASSUME NEW S, S \subseteq Nat, IsFiniteSet(S)
  PROVE  /\ \A n \in 1..Cardinality(S) : Nth(S, n) \in S /\ Under(S, Nth(S, n)) = n - 1
         /\ \A n \in Int, x \in S : Under(S, x) = n - 1 => Nth(S, n) = x
<1>1. Cardinality(S) \in Nat BY FS_CardinalityType
<1>2. \A n : Nth(S, n) = CHOOSE x \in S : Under(S, x) = n - 1 BY DEF Nth, Under
<1>3. ASSUME NEW n \in 1..Cardinality(S)
      PROVE  Nth(S, n) \in S /\ Under(S, Nth(S, n)) = n - 1
  <2>1. n - 1 \in Nat /\ n - 1 < Cardinality(S) BY <1>1
  <2>2. \E x \in S : Under(S, x) = n - 1 BY <2>1, NthExists
  <2> QED BY <1>2, <2>2
<1>4. ASSUME NEW n \in Int, NEW x \in S, Under(S, x) = n - 1 PROVE Nth(S, n) = x
  <2>1. PICK z : z = Nth(S, n) OBVIOUS
  <2>2. z \in S /\ Under(S, z) = n - 1 BY <1>2, <1>4, <2>1
  <2>3. ~ (x < z) /\ ~ (z < x)
    <3>1. /\ x < z => Under(S, x) + 1 <= Under(S, z)
          /\ z < x => Under(S, z) + 1 <= Under(S, x)
      BY <2>2, UnderKnown
    <3> QED BY <1>4, <2>2, <3>1
  <2>4. x \in Nat /\ z \in Nat BY <2>2
  <2> QED BY <2>1, <2>3, <2>4
<1> QED BY <1>3, <1>4

\* One more block, above the others.
GrownBy(S, x, T) ==
  /\ IsFiniteSet(T) /\ T \subseteq Nat /\ Cardinality(T) = Cardinality(S) + 1
  /\ Nth(T, Cardinality(S) + 1) = x
  /\ \A n \in 1..Cardinality(S) : Nth(T, n) = Nth(S, n)

LEMMA NthGrown ==
  ASSUME NEW S, S \subseteq Nat, IsFiniteSet(S), NEW x \in Nat, \A y \in S : y < x,
         NEW T, T = S \cup {x}
  PROVE  GrownBy(S, x, T)
<1>1. Cardinality(S) \in Nat BY FS_CardinalityType
<1>2. x \notin S OBVIOUS
<1>3. IsFiniteSet(T) /\ Cardinality(T) = Cardinality(S) + 1 BY <1>2, FS_AddElement
<1>4. T \subseteq Nat OBVIOUS
<1>5. Under(T, x) = Cardinality(S)
  <2>1. {y \in T : y < x} = S
    <3>1. ~ (x < x) OBVIOUS
    <3> QED BY <3>1
  <2> QED BY <2>1 DEF Under
<1>6. Nth(T, Cardinality(S) + 1) = x
  <2>1. PICK n : n = Cardinality(S) + 1 OBVIOUS
  <2>2. n \in Int /\ Under(T, x) = n - 1 /\ x \in T BY <1>1, <1>5, <2>1
  <2>3. Nth(T, n) = x BY <1>3, <1>4, <2>2, NthIs
  <2> QED BY <2>1, <2>3
<1>7. ASSUME NEW n \in 1..Cardinality(S) PROVE Nth(T, n) = Nth(S, n)
  <2>1. PICK z : z = Nth(S, n) OBVIOUS
  <2>2. z \in S /\ Under(S, z) = n - 1 BY <2>1, NthIs
  <2>3. {y \in T : y < z} = {y \in S : y < z}
    <3>1. z < x /\ z \in Nat BY <2>2
    <3>2. ~ (x < z) BY <3>1
    <3> QED BY <3>2
  <2>4. Under(T, z) = n - 1 BY <2>2, <2>3 DEF Under
  <2>5. z \in T /\ n \in Int BY <2>2
  <2>6. Nth(T, n) = z BY <1>3, <1>4, <2>4, <2>5, NthIs
  <2> QED BY <2>1, <2>6
<1> QED BY <1>3, <1>4, <1>6, <1>7 DEF GrownBy

\* Each block is two words.
LEMMA Packed ==
  ASSUME NEW S, NEW lo \in Nat, NEW hi \in Nat, lo <= hi,
         \A x \in S : x \in Nat /\ lo + 2 <= x /\ x <= hi,
         \A x \in S : x + 1 \notin S
  PROVE  IsFiniteSet(S) /\ 2 * Cardinality(S) <= hi - lo
<1>1. PICK R : R = lo + 1..hi OBVIOUS
<1>2. IsFiniteSet(R) /\ Cardinality(R) = hi - lo
  <2>1. lo + 1 \in Int /\ hi \in Int OBVIOUS
  <2>2. IsFiniteSet(R) /\ Cardinality(R) = IF lo + 1 > hi THEN 0 ELSE hi - (lo + 1) + 1
    BY <1>1, <2>1, FS_Interval
  <2> QED BY <2>2
<1>3. PICK L : L = {x - 1 : x \in S} OBVIOUS
<1>4. S \in SUBSET R /\ L \in SUBSET R BY <1>1, <1>3
<1>5. S \cap L = {}
  <2> SUFFICES ASSUME NEW x \in S, x \in L PROVE FALSE OBVIOUS
  <2>1. PICK y \in S : x = y - 1 BY <1>3
  <2>2. y = x + 1
    <3>1. y \in Nat OBVIOUS
    <3> QED BY <2>1, <3>1
  <2> QED BY <2>1, <2>2
<1>6. IsFiniteSet(S) /\ IsFiniteSet(L) BY <1>2, <1>4, FS_Subset
<1>7. Cardinality(L) = Cardinality(S)
  <2> DEFINE f == [x \in S |-> x - 1]
  <2>1. f \in Bijection(S, L)
    <3>1. \A x, y \in S : f[x] = f[y] => x = y
      <4> SUFFICES ASSUME NEW x \in S, NEW y \in S, f[x] = f[y] PROVE x = y OBVIOUS
      <4>1. x \in Nat /\ y \in Nat /\ x - 1 = y - 1 OBVIOUS
      <4> QED BY <4>1
    <3> QED BY <1>3, <3>1 DEF Bijection, Injection, Surjection, IsInjective
  <2> HIDE DEF f
  <2>2. ExistsBijection(S, L) BY <2>1 DEF ExistsBijection
  <2> QED BY <1>6, <2>2, FS_Bijection
<1>8. Cardinality(S \cup L) = Cardinality(S) + Cardinality(L) - Cardinality(S \cap L)
  BY <1>6, FS_Union
<1>9. Cardinality(S \cap L) = 0 BY <1>5, FS_EmptySet
<1>10. (S \cup L) \in SUBSET R BY <1>4
<1>11. Cardinality(S \cup L) <= Cardinality(R) BY <1>2, <1>10, FS_Subset
<1>12. Cardinality(S) \in Nat BY <1>6, FS_CardinalityType
<1> QED BY <1>2, <1>6, <1>7, <1>8, <1>9, <1>11, <1>12

-----------------------------------------------------------------------------
(* What the invariants say of the blocks and of the activations *)

Sound == Live /\ MachineInv /\ FreshInv /\ CallInv

LEMMA SoundParts ==
  ASSUME Sound
  PROVE  /\ DataOK /\ BaseOK /\ SegsOK /\ NestOK /\ PhaseOK /\ DataFacts /\ BaseFacts
         /\ CodeFresh /\ EntriesOK /\ FlightOK /\ HaltOK
<1>1. DataOK /\ BaseOK /\ SegsOK /\ NestOK /\ PhaseOK BY DEF Sound, MachineInv
<1>2. CodeFresh /\ EntriesOK /\ FlightOK /\ HaltOK BY DEF Sound, FreshInv, CallInv
<1> QED BY <1>1, <1>2, DataKnown, BaseKnown

\* The words above an activation, up to the arguments of the next.
CeilingFacts ==
  /\ \A i \in 1..Len(base) :
       /\ Ceiling(i) \in Nat /\ base[i].h \in Nat /\ base[i].h <= Ceiling(i) /\ Ceiling(i) <= Height
       /\ i = Len(base) => Ceiling(i) = Height
       /\ i < Len(base) => Ceiling(i) = Floor(i + 1) /\ Ceiling(i) + 2 <= base[i + 1].h
  /\ \A i, j \in 1..Len(base) : i < j => Ceiling(i) + 2 <= base[j].h

LEMMA CeilingKnown == DataOK /\ BaseOK => CeilingFacts
<1> SUFFICES ASSUME DataOK, BaseOK PROVE CeilingFacts OBVIOUS
<1>1. DataFacts /\ BaseFacts BY DataKnown, BaseKnown
<1>2. Len(base) \in Nat /\ Height \in Nat BY <1>1 DEF DataFacts
<1>3. ASSUME NEW i \in 1..Len(base)
      PROVE  /\ Ceiling(i) \in Nat /\ base[i].h \in Nat /\ base[i].h <= Ceiling(i)
             /\ Ceiling(i) <= Height
             /\ i = Len(base) => Ceiling(i) = Height
             /\ i < Len(base) => Ceiling(i) = Floor(i + 1) /\ Ceiling(i) + 2 <= base[i + 1].h
  <2>1. base[i].h \in Nat /\ base[i].h <= Height BY <1>1 DEF BaseFacts
  <2>2. CASE i = Len(base)
    <3>1. Ceiling(i) = Height BY <2>2 DEF Ceiling
    <3> QED BY <1>2, <2>1, <2>2, <3>1
  <2>3. CASE i # Len(base)
    <3>1. Ceiling(i) = Floor(i + 1) BY <2>3 DEF Ceiling, Floor
    <3>2. i + 1 \in 1..Len(base) /\ i < i + 1 BY <1>2, <2>3
    <3>3. base[i].h <= Floor(i + 1) /\ Floor(i + 1) \in Nat /\ Arity[base[i + 1].code] \in Nat
          /\ base[i + 1].h = Floor(i + 1) + 2 + Arity[base[i + 1].code]
          /\ base[i + 1].h <= Height /\ base[i + 1].h \in Nat
      BY <1>1, <3>2 DEF BaseFacts
    <3> QED BY <1>2, <2>1, <2>3, <3>1, <3>3
  <2> QED BY <2>2, <2>3
<1>4. ASSUME NEW i \in 1..Len(base), NEW j \in 1..Len(base), i < j
      PROVE  Ceiling(i) + 2 <= base[j].h
  <2>1. i + 1 \in 1..Len(base) /\ i < Len(base) BY <1>2, <1>4
  <2>2. Ceiling(i) + 2 <= base[i + 1].h /\ Ceiling(i) \in Nat BY <1>3, <2>1
  <2>3. base[i + 1].h \in Nat /\ base[j].h \in Nat BY <1>3, <2>1
  <2>4. i + 1 < j => base[i + 1].h + 2 <= base[j].h BY <1>1, <2>1 DEF BaseFacts
  <2>5. i + 1 = j \/ i + 1 < j BY <1>4
  <2> QED BY <2>2, <2>3, <2>4, <2>5
<1> QED BY <1>3, <1>4 DEF CeilingFacts

\* Blocks lie two words above their activations, which are interpreted, and
\* the register leads to the last.
BlockFacts ==
  /\ Blocks \subseteq Nat /\ IsFiniteSet(Blocks)
  /\ \A x \in Blocks :
       /\ x \in 2..Height /\ stack[x].k = "pc" /\ stack[x - 1].k = "hsp"
       /\ stack[x].pc \in Address /\ Current(stack[x].pc)
       /\ stack[x - 1].hsp \in Nat /\ stack[x - 1].hsp < x /\ stack[x - 1].hsp \in Blocks \cup {0}
       /\ \E o \in 1..Len(base) : ~base[o].native /\ base[o].h + 2 <= x /\ x <= Ceiling(o)
  /\ handlerSp \in Blocks \cup {0}
  /\ handlerSp # 0 => \A x \in Blocks : x <= handlerSp
  /\ handlerSp = 0 =>
       \A x \in Blocks : /\ Outer >= 1
                         /\ \E o \in 1..Len(base) : o <= Caller(Outer) /\ x <= Ceiling(o)
  /\ \A j \in 1..Outer : /\ nest[j].saved.handlerSp \in Blocks \cup {0}
                         /\ handlerSp # 0 => nest[j].saved.handlerSp < handlerSp

LEMMA BlocksFollow == Sound /\ ~Doomed => BlockFacts
<1> SUFFICES ASSUME Sound, ~Doomed PROVE BlockFacts OBVIOUS
<1>1. DataOK /\ BaseOK /\ SegsOK /\ NestOK /\ DataFacts /\ BaseFacts /\ CodeFresh BY SoundParts
<1>2. PICK bs : BlocksOK(bs) /\ ChainsOK(bs) /\ RegisterOK(bs) BY DEF Sound, MachineInv
<1>3. handlerSp = Register(bs, Outer, Len(bs)) BY <1>2 DEF RegisterOK, Doomed
<1>4. Blocks = {bs[n].h : n \in 1..Len(bs)} BY <1>1, <1>2, <1>3, BlocksKnown
<1>5. /\ Len(bs) \in Nat /\ DOMAIN bs = 1..Len(bs)
      /\ \A n \in 1..Len(bs) :
           bs[n].h \in Nat /\ bs[n].h > 1 /\ bs[n].h <= Height /\ bs[n].own \in Nat
  BY <1>1, <1>2, BlockKnown
<1>6. Outer \in Nat /\ \A j \in 0..Outer : Cut(j) \in Nat BY <1>1, CutsKnown
<1>7. CeilingFacts BY <1>1, CeilingKnown
<1>8. Len(base) \in Nat /\ Height \in Nat /\ DOMAIN base = 1..Len(base) BY <1>1 DEF DataFacts
<1>9. Blocks \subseteq Nat BY <1>4, <1>5
<1>10. IsFiniteSet(Blocks)
  <2>1. Len(bs) \in 0..Len(bs) BY <1>5
  <2> QED BY <1>1, <1>2, <1>4, <2>1, BlocksBelow
<1>11. ASSUME NEW n \in 1..Len(bs)
       PROVE  /\ stack[bs[n].h].k = "pc" /\ stack[bs[n].h - 1].k = "hsp"
              /\ bs[n].own \in 1..Len(base) /\ ~base[bs[n].own].native
              /\ base[bs[n].own].h + 2 <= bs[n].h /\ bs[n].h <= Ceiling(bs[n].own)
  <2>1. BlockOK(bs[n], n) BY <1>2, <1>5 DEF BlocksOK
  <2>2. PICK o, h : o = bs[n].own /\ h = bs[n].h OBVIOUS
  <2>3. /\ stack[h].k = "pc" /\ stack[h - 1].k = "hsp" /\ o \in 1..Len(base) /\ ~base[o].native
        /\ h > base[o].h + 1 /\ \A i \in 1..Len(base) : i > o => h <= Floor(i)
    BY <1>8, <2>1, <2>2 DEF BlockOK
  <2>4. h \in Nat /\ h <= Height /\ base[o].h \in Nat BY <1>5, <1>7, <2>2, <2>3 DEF CeilingFacts
  <2>5. h <= Ceiling(o)
    <3>1. CASE o = Len(base) BY <1>7, <2>3, <2>4, <3>1 DEF CeilingFacts
    <3>2. CASE o # Len(base)
      <4>1. o + 1 \in 1..Len(base) /\ o + 1 > o /\ o < Len(base)
        <5>1. PICK l : l = Len(base) BY ZenonT(60)
        <5>2. o \in 1..l /\ l \in Nat /\ o # l BY <1>8, <2>3, <3>2, <5>1
        <5>3. o + 1 \in 1..l /\ o + 1 > o /\ o < l BY ONLY <5>2
        <5> QED BY <5>1, <5>3
      <4>2. h <= Floor(o + 1) BY <2>3, <4>1
      <4> QED BY <1>7, <2>3, <4>1, <4>2 DEF CeilingFacts
    <3> QED BY <3>1, <3>2
  <2>6. base[o].h + 2 <= h BY <2>3, <2>4
  <2> QED BY <2>2, <2>3, <2>5, <2>6
<1>12. ASSUME NEW n \in 1..Len(bs)
       PROVE  /\ stack[bs[n].h - 1].hsp \in Nat /\ stack[bs[n].h - 1].hsp < bs[n].h
              /\ stack[bs[n].h - 1].hsp \in Blocks \cup {0}
  <2>1. stack[bs[n].h - 1].hsp = IF \E j \in 0..Outer : Cut(j) = n - 1 THEN 0 ELSE bs[n - 1].h
    BY <1>2, <1>5 DEF ChainsOK
  <2>2. CASE \E j \in 0..Outer : Cut(j) = n - 1
    <3>1. stack[bs[n].h - 1].hsp = 0 BY <2>1, <2>2
    <3>2. bs[n].h > 0 BY <1>5
    <3> QED BY <3>1, <3>2
  <2>3. CASE ~ \E j \in 0..Outer : Cut(j) = n - 1
    <3>1. n # 1
      <4>1. Cut(0) = 0 /\ 0 \in 0..Outer BY <1>6 DEF Cut
      <4> QED BY <2>3, <4>1
    <3>2. n - 1 \in 1..Len(bs) /\ n - 1 < n BY <1>5, <3>1
    <3>3. bs[n - 1].h < bs[n].h BY <1>2, <1>5, <3>2 DEF BlocksOK
    <3>4. stack[bs[n].h - 1].hsp = bs[n - 1].h BY <2>1, <2>3
    <3>5. bs[n - 1].h \in Blocks /\ bs[n - 1].h \in Nat BY <1>4, <1>5, <3>2
    <3> QED BY <3>3, <3>4, <3>5
  <2> QED BY <2>2, <2>3
<1>13. ASSUME NEW x \in Blocks
       PROVE  /\ x \in 2..Height /\ stack[x].k = "pc" /\ stack[x - 1].k = "hsp"
              /\ stack[x].pc \in Address /\ Current(stack[x].pc)
              /\ stack[x - 1].hsp \in Nat /\ stack[x - 1].hsp < x
              /\ stack[x - 1].hsp \in Blocks \cup {0}
              /\ \E o \in 1..Len(base) : ~base[o].native /\ base[o].h + 2 <= x /\ x <= Ceiling(o)
  <2>1. PICK n \in 1..Len(bs) : x = bs[n].h BY <1>4
  <2>2. x \in 2..Height BY <1>5, <1>8, <2>1
  <2>3. stack[x] \in FreshWord
    <3>1. stack \in Seq(FreshWord) /\ x \in 1..Len(stack) BY <1>1, <1>8, <2>2 DEF CodeFresh, Height
    <3> QED BY <3>1, Elements
  <2>4. stack[x].k = "pc" BY <1>11, <2>1
  <2>5. stack[x].pc \in Address /\ Current(stack[x].pc)
    <3>1. stack[x] \in Word /\ Current(stack[x].pc) BY <2>3, <2>4 DEF FreshWord
    <3>2. stack[x].pc \in Address BY <2>4, <3>1 DEF Word, Data, Zero
    <3> QED BY <3>1, <3>2
  <2> QED BY <1>11, <1>12, <2>1, <2>2, <2>4, <2>5
<1>14. Cut(Outer) \in Nat /\ Cut(Outer) <= Len(bs)
  <2>1. Outer \in 0..Outer BY <1>6
  <2>2. Outer # 0 => Outer \in 1..Outer BY <1>6
  <2>3. Outer = 0 => Cut(Outer) = 0 BY DEF Cut
  <2>4. Outer # 0 => Cut(Outer) <= Len(bs) BY <1>2, <2>2 DEF ChainsOK
  <2> QED BY <1>5, <1>6, <2>1, <2>3, <2>4
<1>15. \/ Len(bs) = Cut(Outer) /\ handlerSp = 0
       \/ Len(bs) \in 1..Len(bs) /\ handlerSp = bs[Len(bs)].h
  <2>1. CASE Len(bs) = Cut(Outer) BY <1>3, <2>1 DEF Register
  <2>2. CASE Len(bs) # Cut(Outer)
    <3>1. handlerSp = bs[Len(bs)].h BY <1>3, <2>2 DEF Register
    <3>2. Len(bs) \in 1..Len(bs) BY <1>5, <1>14, <2>2
    <3> QED BY <3>1, <3>2
  <2> QED BY <2>1, <2>2
<1>16. handlerSp \in Blocks \cup {0} BY <1>4, <1>15
<1>17. ASSUME handlerSp # 0, NEW x \in Blocks PROVE x <= handlerSp
  <2>1. PICK n \in 1..Len(bs) : x = bs[n].h BY <1>4
  <2>2. PICK l : l = Len(bs) OBVIOUS
  <2>3. l \in 1..Len(bs) /\ handlerSp = bs[l].h BY <1>15, <1>17, <2>2
  <2>4. n < l => bs[n].h < bs[l].h BY <1>2, <1>5, <2>3 DEF BlocksOK
  <2>5. n = l \/ n < l
    <3>1. n \in 1..l /\ l \in Nat BY <1>5, <2>2
    <3> QED BY ONLY <3>1
  <2>6. bs[n].h \in Nat /\ bs[l].h \in Nat BY <1>5, <2>3
  <2> QED BY <2>1, <2>3, <2>4, <2>5, <2>6
<1>18. ASSUME handlerSp = 0, NEW x \in Blocks
       PROVE  Outer >= 1 /\ \E o \in 1..Len(base) : o <= Caller(Outer) /\ x <= Ceiling(o)
  <2>1. PICK n \in 1..Len(bs) : x = bs[n].h BY <1>4
  <2>2. Len(bs) = Cut(Outer)
    <3>1. Len(bs) \in 1..Len(bs) => bs[Len(bs)].h > 1 BY <1>5
    <3> QED BY <1>15, <1>18, <3>1
  <2>3. Outer # 0
    <3>1. Outer = 0 => Cut(Outer) = 0 BY DEF Cut
    <3> QED BY <1>5, <2>2, <3>1
  <2>4. Outer >= 1 /\ Outer \in 1..Outer BY <1>6, <2>3
  <2>5. n <= Cut(Outer) BY <1>5, <2>2
  <2>6. bs[n].own <= Caller(Outer) BY <1>2, <1>5, <2>4, <2>5 DEF ChainsOK, Caller
  <2> QED BY <1>11, <2>1, <2>4, <2>6
<1>19. ASSUME NEW j \in 1..Outer PROVE nest[j].saved.handlerSp \in Blocks \cup {0}
  <2>1. nest[j].saved.handlerSp = Register(bs, j - 1, Cut(j)) /\ Cut(j) <= Len(bs)
    BY <1>2 DEF ChainsOK
  <2>2. CASE Cut(j) = Cut(j - 1) BY <2>1, <2>2 DEF Register
  <2>3. CASE Cut(j) # Cut(j - 1)
    <3>1. nest[j].saved.handlerSp = bs[Cut(j)].h BY <2>1, <2>3 DEF Register
    <3>2. j - 1 \in 0..Outer /\ j \in 0..Outer /\ j - 1 < j BY <1>6
    <3>3. Cut(j - 1) <= Cut(j) BY <1>2, <3>2 DEF ChainsOK
    <3>4. Cut(j) \in 1..Len(bs) BY <1>5, <1>6, <2>1, <2>3, <3>2, <3>3
    <3> QED BY <1>4, <3>1, <3>4
  <2> QED BY <2>2, <2>3
<1>20. ASSUME NEW j \in 1..Outer, handlerSp # 0 PROVE nest[j].saved.handlerSp < handlerSp
  <2>1. nest[j].saved.handlerSp = Register(bs, j - 1, Cut(j)) BY <1>2 DEF ChainsOK
  <2>2. PICK l, c : l = Len(bs) /\ c = Cut(j) OBVIOUS
  <2>3. l \in 1..Len(bs) /\ handlerSp = bs[l].h /\ bs[l].h > 1 /\ bs[l].h \in Nat
    BY <1>5, <1>15, <1>20, <2>2
  <2>4. Cut(Outer) # l
    <3>1. CASE Outer = 0
      <4>1. Cut(Outer) = 0 BY <3>1 DEF Cut
      <4> QED BY <1>6, <3>1
    <3>2. CASE Cut(Outer) = Len(bs) BY <1>3, <1>20, <3>2 DEF Register
    <3> QED BY <2>2, <3>2
  <2>5. c \in Nat /\ c <= Cut(Outer)
    <3>1. j \in 0..Outer /\ Outer \in 0..Outer /\ (j < Outer \/ j = Outer) BY <1>6
    <3>2. j < Outer => Cut(j) <= Cut(Outer) BY <1>2, <3>1 DEF ChainsOK
    <3> QED BY <1>6, <1>14, <2>2, <3>1, <3>2
  <2>6. c < l BY <1>14, <2>2, <2>3, <2>4, <2>5
  <2>7. CASE nest[j].saved.handlerSp = 0 BY <2>3, <2>7
  <2>8. CASE nest[j].saved.handlerSp = bs[c].h /\ c # 0
    <3>1. c \in 1..Len(bs)
      <4>1. c \in 1..l BY <2>3, <2>5, <2>6, <2>8
      <4> QED BY <2>2, <4>1
    <3>2. bs[c].h < bs[l].h BY <1>2, <1>5, <2>3, <2>6, <3>1 DEF BlocksOK
    <3> QED BY <2>3, <2>8, <3>2
  <2>9. c = 0 => nest[j].saved.handlerSp = 0
    <3> SUFFICES ASSUME c = 0 PROVE nest[j].saved.handlerSp = 0 OBVIOUS
    <3>1. j - 1 \in 0..Outer /\ j \in 0..Outer /\ j - 1 < j BY <1>6
    <3>2. Cut(j - 1) <= Cut(j) /\ Cut(j - 1) \in Nat BY <1>2, <1>6, <3>1 DEF ChainsOK
    <3>3. Cut(j - 1) = 0 BY <2>2, <3>2
    <3> QED BY <2>1, <2>2, <3>3 DEF Register
  <2>10. nest[j].saved.handlerSp = 0 \/ nest[j].saved.handlerSp = bs[c].h BY <2>1, <2>2 DEF Register
  <2> QED BY <2>7, <2>8, <2>9, <2>10
<1> QED BY <1>9, <1>10, <1>13, <1>16, <1>17, <1>18, <1>19, <1>20 DEF BlockFacts

\* The blocks of an activation.
Own(i) == BlocksIn(Blocks, i)

OwnFacts ==
  /\ \A i \in 1..Len(base) :
       /\ Own(i) \subseteq Nat /\ Own(i) \subseteq Blocks /\ IsFiniteSet(Own(i))
       /\ Cardinality(Own(i)) \in Nat
       /\ \A x \in Own(i) : base[i].h + 2 <= x /\ x <= Ceiling(i) /\ x + 1 \notin Own(i)
       /\ base[i].native => Own(i) = {}
  /\ \A x \in Blocks : \E o \in 1..Len(base) : x \in Own(o) /\ ~base[o].native
  /\ \A i, j \in 1..Len(base), x \in Blocks : x \in Own(i) /\ x \in Own(j) => i = j

LEMMA OwnKnown == DataOK /\ BaseOK /\ BlockFacts => OwnFacts
<1> SUFFICES ASSUME DataOK, BaseOK, BlockFacts PROVE OwnFacts OBVIOUS
<1>1. DataFacts /\ BaseFacts /\ CeilingFacts BY DataKnown, BaseKnown, CeilingKnown
<1>2. \A i, x : x \in Own(i) <=> x \in Blocks /\ base[i].h < x /\ x <= Ceiling(i)
  BY DEF Own, BlocksIn
<1>3. Blocks \subseteq Nat /\ IsFiniteSet(Blocks) BY DEF BlockFacts
<1>4. ASSUME NEW i \in 1..Len(base), NEW j \in 1..Len(base), NEW x \in Blocks,
             base[i].h < x, x <= Ceiling(i), base[j].h < x, x <= Ceiling(j)
      PROVE  i = j
  <2>1. x \in Nat /\ base[i].h \in Nat /\ base[j].h \in Nat /\ Ceiling(i) \in Nat /\ Ceiling(j) \in Nat
    BY <1>1, <1>3 DEF CeilingFacts
  <2>2. ~ (i < j)
    <3> SUFFICES ASSUME i < j PROVE FALSE OBVIOUS
    <3>1. Ceiling(i) + 2 <= base[j].h BY <1>1 DEF CeilingFacts
    <3> QED BY <1>4, <2>1, <3>1
  <2>3. ~ (j < i)
    <3> SUFFICES ASSUME j < i PROVE FALSE OBVIOUS
    <3>1. Ceiling(j) + 2 <= base[i].h BY <1>1 DEF CeilingFacts
    <3> QED BY <1>4, <2>1, <3>1
  <2> QED BY <2>2, <2>3
<1>5. ASSUME NEW x \in Blocks
      PROVE  \E o \in 1..Len(base) : x \in Own(o) /\ ~base[o].native /\ base[o].h + 2 <= x
  <2>1. PICK o \in 1..Len(base) : ~base[o].native /\ base[o].h + 2 <= x /\ x <= Ceiling(o)
    BY DEF BlockFacts
  <2>2. x \in Nat /\ base[o].h \in Nat BY <1>1, <1>3 DEF CeilingFacts
  <2>3. base[o].h < x BY <2>1, <2>2
  <2> QED BY <1>2, <2>1, <2>3
<1>6. ASSUME NEW i \in 1..Len(base)
      PROVE  /\ Own(i) \subseteq Nat /\ Own(i) \subseteq Blocks /\ IsFiniteSet(Own(i))
             /\ Cardinality(Own(i)) \in Nat
             /\ \A x \in Own(i) : base[i].h + 2 <= x /\ x <= Ceiling(i) /\ x + 1 \notin Own(i)
             /\ base[i].native => Own(i) = {}
  <2>1. Own(i) \subseteq Blocks /\ Own(i) \subseteq Nat BY <1>2, <1>3
  <2>2. IsFiniteSet(Own(i)) /\ Cardinality(Own(i)) \in Nat
    <3>1. Own(i) \in SUBSET Blocks BY <2>1
    <3> QED BY <1>3, <3>1, FS_Subset, FS_CardinalityType
  <2>3. ASSUME NEW x \in Own(i)
        PROVE  base[i].h + 2 <= x /\ x <= Ceiling(i) /\ x + 1 \notin Own(i) /\ ~base[i].native
    <3>1. x \in Blocks /\ base[i].h < x /\ x <= Ceiling(i) BY <1>2
    <3>2. PICK o \in 1..Len(base) : x \in Own(o) /\ ~base[o].native /\ base[o].h + 2 <= x BY <1>5, <3>1
    <3>3. i = o BY <1>2, <1>4, <3>1, <3>2
    <3>4. x + 1 \notin Own(i)
      <4> SUFFICES ASSUME x + 1 \in Own(i) PROVE FALSE OBVIOUS
      <4>1. PICK y : y = x + 1 OBVIOUS
      <4>2. y \in Blocks BY <1>2, <4>1
      <4>3. stack[y - 1].k = "hsp" BY <4>2 DEF BlockFacts
      <4>4. y - 1 = x BY <2>1, <4>1
      <4>5. stack[x].k = "pc" BY <3>1 DEF BlockFacts
      <4> QED BY <4>3, <4>4, <4>5
    <3> QED BY <3>1, <3>2, <3>3, <3>4
  <2> QED BY <2>1, <2>2, <2>3
<1>7. \A i, j \in 1..Len(base), x \in Blocks : x \in Own(i) /\ x \in Own(j) => i = j BY <1>2, <1>4
<1> QED BY <1>5, <1>6, <1>7 DEF OwnFacts

\* Two regions have roots of their own.
LEMMA HooksApart ==
  ASSUME DataOK, BaseOK, NestOK, NEW j \in DOMAIN nest, NEW g \in DOMAIN nest, j # g
  PROVE  nest[j].top # nest[g].top
<1>1. ASSUME NEW a \in DOMAIN nest, NEW b \in DOMAIN nest, a < b PROVE nest[a].top # nest[b].top
  <2> SUFFICES ASSUME nest[a].top = nest[b].top PROVE FALSE OBVIOUS
  <2>1. Len(nest) \in Nat /\ DOMAIN nest = 1..Len(nest) BY CutsKnown
  <2>2. Len(base) \in Nat /\ DOMAIN base = 1..Len(base) BY DataKnown DEF DataFacts
  <2>3. Outer \in Nat /\ Len(nest) = Outer + (IF Native THEN 1 ELSE 0) BY NestKnown
  <2>4. a \in 1..Outer BY <1>1, <2>1, <2>3
  <2>5. FrameOK(a) /\ RootOK(a, Caller(a)) /\ Caller(a) \in Nat /\ Caller(a) < Len(base)
    BY <2>4, NestKnown
  <2>6. PICK q \in 2..Caller(a) : base[q].h = nest[a].top + 2 BY <2>5 DEF RootOK
  <2>7. RootOK(b, LastOf(b)) BY DEF NestOK
  <2>8. LastOf(b) \in Nat /\ Caller(a) < LastOf(b) /\ LastOf(b) <= Len(base)
    <3>1. CASE b <= Outer
      <4>1. b \in 1..Outer BY <2>1, <2>3, <3>1
      <4>2. Caller(a) < Caller(b) BY <1>1, <2>4, <4>1 DEF NestOK
      <4>3. Caller(b) \in Nat /\ Caller(b) < Len(base) BY <4>1, NestKnown
      <4> QED BY <2>2, <3>1, <4>2, <4>3 DEF LastOf
    <3>2. CASE ~ (b <= Outer) BY <2>2, <2>5, <3>2 DEF LastOf
    <3> QED BY <3>1, <3>2
  <2>9. PICK r \in 2..LastOf(b) : /\ base[r].h = nest[b].top + 2
                                  /\ \A k \in r..LastOf(b) : base[k].native
    BY <2>7 DEF RootOK
  <2>10. q = r
    <3>1. base[q].h = base[r].h BY <2>6, <2>9
    <3>2. q \in 1..Len(base) /\ r \in 1..Len(base) BY <2>2, <2>5, <2>6, <2>8, <2>9
    <3>3. base[q].h \in Nat /\ base[r].h \in Nat BY <3>2, DataKnown DEF DataFacts
    <3>4. /\ q < r => base[q].h + 2 <= base[r].h
          /\ r < q => base[r].h + 2 <= base[q].h
      BY <3>2, BaseKnown DEF BaseFacts
    <3> QED BY <3>1, <3>2, <3>3, <3>4
  <2>11. Caller(a) + 1 \in r..LastOf(b) BY <2>5, <2>6, <2>8, <2>10
  <2>12. ~base[Caller(a) + 1].native BY <2>5 DEF FrameOK
  <2> QED BY <2>9, <2>11, <2>12
<1>2. j \in Nat /\ g \in Nat BY CutsKnown
<1>3. j < g \/ g < j BY <1>2
<1> QED BY <1>1, <1>3

\* The hook by which an interpreted activation waits for a region.
LEMMA HookKnown ==
  ASSUME DataOK, BaseOK, NestOK, EntriesOK,
         NEW i \in 1..Len(base), i < Len(base), ~base[i].native, base[i + 1].native
  PROVE  /\ HookOf(i) \in 1..Len(nest) /\ base[i + 1].h = nest[HookOf(i)].top + 2
         /\ LastOf(HookOf(i)) \in i + 1..Len(base)
         /\ \A k \in i + 1..LastOf(HookOf(i)) : base[k].native
         /\ \A g \in 1..Len(nest) : base[i + 1].h = nest[g].top + 2 => g = HookOf(i)
<1>1. Len(nest) \in Nat /\ DOMAIN nest = 1..Len(nest) /\ Outer \in Nat BY CutsKnown
<1>2. Len(base) \in Nat /\ DOMAIN base = 1..Len(base) BY DataKnown DEF DataFacts
<1>3. i + 1 \in 2..Len(base) /\ (i + 1) - 1 = i BY <1>2
<1>4. EntryOK(i + 1) BY <1>3 DEF EntriesOK
<1>5. \E j \in DOMAIN nest : base[i + 1].h = nest[j].top + 2 BY <1>3, <1>4 DEF EntryOK
<1>6. PICK j : j = HookOf(i) OBVIOUS
<1>7. j \in DOMAIN nest /\ base[i + 1].h = nest[j].top + 2 BY <1>5, <1>6 DEF HookOf
<1>8. \A g \in DOMAIN nest : nest[g].top \in Nat
  <2> SUFFICES ASSUME NEW g \in DOMAIN nest PROVE nest[g].top \in Nat OBVIOUS
  <2>1. nest[g] \in NestedFrame BY <1>1, DataKnown DEF DataFacts
  <2> QED BY <2>1 DEF NestedFrame
<1>9. ASSUME NEW g \in DOMAIN nest, base[i + 1].h = nest[g].top + 2 PROVE g = j
  <2>1. nest[g].top = nest[j].top BY <1>7, <1>8, <1>9
  <2> QED BY <1>7, <2>1, HooksApart
<1>10. RootOK(j, LastOf(j)) BY <1>7 DEF NestOK
<1>11. LastOf(j) \in Nat /\ LastOf(j) <= Len(base)
  <2>1. CASE j <= Outer
    <3>1. j \in 1..Outer BY <1>1, <1>7, <2>1
    <3>2. Caller(j) \in Nat /\ Caller(j) < Len(base) BY <3>1, NestKnown
    <3> QED BY <1>2, <2>1, <3>2 DEF LastOf
  <2>2. CASE ~ (j <= Outer) BY <1>2, <2>2 DEF LastOf
  <2> QED BY <2>1, <2>2
<1>12. PICK r \in 2..LastOf(j) : /\ base[r].h = nest[j].top + 2
                                 /\ \A k \in r..LastOf(j) : base[k].native
  BY <1>10 DEF RootOK
<1>13. r = i + 1
  <2>1. PICK q : q = i + 1 OBVIOUS
  <2>2. q \in 1..Len(base) /\ r \in 1..Len(base) BY <1>2, <1>11, <2>1
  <2>3. base[q].h = base[r].h BY <1>7, <1>12, <2>1
  <2>4. base[q].h \in Nat /\ base[r].h \in Nat BY <2>2, DataKnown DEF DataFacts
  <2>5. /\ q < r => base[q].h + 2 <= base[r].h
        /\ r < q => base[r].h + 2 <= base[q].h
    BY <2>2, BaseKnown DEF BaseFacts
  <2> QED BY <2>1, <2>2, <2>3, <2>4, <2>5
<1>14. LastOf(j) \in i + 1..Len(base) BY <1>11, <1>13
<1> QED BY <1>1, <1>6, <1>7, <1>9, <1>12, <1>13, <1>14

\* Native activations in a row have no bounds of their own.
LEMMA RankOver ==
  ASSUME NEW i \in Nat, NEW l \in Nat, i <= l, \A k \in i + 1..l : base[k].native
  PROVE  Rank(l) = Rank(i)
<1>1. {j \in 1..l : ~base[j].native} = {j \in 1..i : ~base[j].native}
  <2>1. ASSUME NEW j \in 1..l, ~base[j].native PROVE j \in 1..i
    <3>1. j \notin i + 1..l BY <2>1
    <3> QED BY <3>1
  <2>2. 1..i \subseteq 1..l OBVIOUS
  <2> QED BY <2>1, <2>2
<1> QED BY <1>1 DEF Rank

\* Where an interpreted activation goes on, and the bounds it has.
PcFacts(i) ==
  /\ PcAt(i) \in Address /\ Current(PcAt(i)) /\ PcAt(i).c = base[i].code
  /\ Current(SegAt(i)) /\ SegAt(i).c = base[i].code

LEMMA PcKnown ==
  ASSUME Sound, NEW i \in 1..Len(base), ~base[i].native
  PROVE  PcFacts(i)
<1>1. /\ DataOK /\ BaseOK /\ SegsOK /\ NestOK /\ DataFacts /\ BaseFacts /\ CodeFresh
      /\ EntriesOK /\ RankFacts
  BY SoundParts, RankKnown
<1>2. /\ Len(base) \in Nat /\ DOMAIN base = 1..Len(base) /\ Len(nest) \in Nat
      /\ Len(frames) \in Nat /\ DOMAIN frames = 1..Len(frames)
  BY <1>1 DEF DataFacts
<1>3. SegAt(i).c = base[i].code BY <1>1, <1>2 DEF SegsOK
<1>4. seg \in FreshSegment /\ pc \in Address BY <1>1, PlacesFresh
<1>5. Len(frames) = Interpreted - 1 /\ Interpreted = Rank(Len(base)) /\ SegOf(pc) = seg
  BY <1>1 DEF SegsOK, Interpreted
<1>20. i \in Nat /\ 0 < i /\ i <= Len(base) /\ (i # Len(base) => i < Len(base))
  <2>1. PICK l : l = Len(base) OBVIOUS
  <2>2. i \in 1..l /\ l \in Nat BY <1>2, <2>1
  <2>3. i \in Nat /\ 0 < i /\ i <= l /\ (i # l => i < l) BY ONLY <2>2
  <2> QED BY <2>1, <2>3
<1>6. Rank(i) \in Nat /\ Rank(i) >= 1 /\ Rank(i) <= Interpreted /\ Interpreted \in Nat
  <2>0. PICK l : l = Len(base) OBVIOUS
  <2>1. Rank(i) \in Nat /\ Rank(l) \in Nat /\ Rank(i) <= Rank(l)
    <3>1. i \in Nat /\ l \in Nat /\ i <= l BY <1>2, <1>20, <2>0, Zenon
    <3>2. RankFacts BY <1>1
    <3> QED BY ONLY <3>1, <3>2 DEF RankFacts
  <2>2. Rank(i) >= 1 BY <1>1, <1>20 DEF RankFacts
  <2> QED BY <1>5, <2>0, <2>1, <2>2
<1>7. Current(SegAt(i))
  <2>1. CASE Rank(i) = Interpreted
    <3>1. SegAt(i) = seg BY <2>1 DEF SegAt
    <3> QED BY <1>4, <3>1 DEF FreshSegment
  <2>2. CASE Rank(i) # Interpreted
    <3>1. SegAt(i) = frames[Rank(i)] BY <2>2 DEF SegAt
    <3>2. Rank(i) \in 1..Len(frames) BY <1>2, <1>5, <1>6, <2>2
    <3>3. frames \in Seq(FreshSegment) BY <1>1 DEF CodeFresh
    <3>4. frames[Rank(i)] \in FreshSegment BY <3>2, <3>3, Elements
    <3> QED BY <3>1, <3>4 DEF FreshSegment
  <2> QED BY <2>1, <2>2
<1>8. PcAt(i) \in Address /\ Current(PcAt(i)) /\ PcAt(i).c = SegAt(i).c
  <2>1. Current(pc) /\ pc.c = seg.c BY <1>1, <1>5 DEF CodeFresh, SegOf
  <2>2. CASE i = Len(base)
    <3>1. PcAt(i) = pc BY <2>2 DEF PcAt
    <3>2. SegAt(i) = seg BY <1>5, <2>2 DEF SegAt
    <3> QED BY <1>4, <2>1, <3>1, <3>2
  <2>3. CASE i # Len(base) /\ ~base[i + 1].native
    <3>1. PICK q : q = i + 1 OBVIOUS
    <3>2. q \in 2..Len(base) /\ q - 1 = i /\ q \in 1..Len(base)
      <4>1. PICK l : l = Len(base) OBVIOUS
      <4>2. i \in Nat /\ 0 < i /\ i < l /\ l \in Nat BY <1>2, <1>20, <2>3, <4>1, Zenon
      <4>3. q \in 2..l /\ q - 1 = i /\ q \in 1..l BY ONLY <3>1, <4>2
      <4> QED BY <4>1, <4>3
    <3>3. PICK w : w = stack[base[q].h - 1] OBVIOUS
    <3>4. PcAt(i) = w.pc BY <2>3, <3>1, <3>3 DEF PcAt
    <3>5. w # Zero
      <4>1. EntryOK(q) BY SMTT(40), <1>1, <3>2 DEF EntriesOK
      <4> QED BY <2>3, <3>1, <3>2, <3>3, <4>1 DEF EntryOK
    <3>6. w.k = "pc" /\ SegOf(w.pc) = frames[Rank(q) - 1]
      BY <1>1, <1>2, <2>3, <3>1, <3>2, <3>3, <3>5 DEF SegsOK
    <3>7. w \in FreshWord
      <4>1. base[q].h - 1 \in 1..Height
        <5>1. base[q].h = Floor(q) + 2 + Arity[base[q].code] /\ Floor(q) \in Nat
              /\ Arity[base[q].code] \in Nat /\ base[q].h <= Height
          BY <1>1, <3>2 DEF BaseFacts
        <5>2. Height \in Nat BY <1>1 DEF DataFacts
        <5> QED BY <5>1, <5>2
      <4>2. stack \in Seq(FreshWord) /\ Height = Len(stack) BY <1>1 DEF CodeFresh, Height
      <4> QED BY <3>3, <4>1, <4>2, Elements
    <3>8. w \in Word /\ Current(w.pc) BY <3>6, <3>7 DEF FreshWord
    <3>9. w.pc \in Address BY <3>6, <3>8 DEF Word, Data, Zero
    <3>10. Rank(q) = Rank(i) + 1 /\ Rank(i) < Interpreted
      <4>1. Rank(i + 1) = Rank(i) + 1
        <5>1. Rank(i + 1) = Rank(i) + (IF base[i + 1].native THEN 0 ELSE 1) BY <1>1, <1>20 DEF RankFacts
        <5> QED BY <2>3, <5>1
      <4>2. Rank(q) <= Rank(Len(base)) /\ Rank(q) \in Nat BY <1>1, <1>2, <3>2 DEF RankFacts
      <4> QED BY <1>5, <1>6, <3>1, <4>1, <4>2
    <3>11. SegAt(i) = frames[Rank(i)] /\ Rank(q) - 1 = Rank(i) BY <1>6, <3>10 DEF SegAt
    <3>12. w.pc.c = frames[Rank(i)].c BY <3>6, <3>11 DEF SegOf
    <3> QED BY <3>4, <3>8, <3>9, <3>11, <3>12
  <2>4. CASE i # Len(base) /\ base[i + 1].native
    <3>1. i < Len(base) BY <1>20, <2>4
    <3>2. PICK j : j = HookOf(i) OBVIOUS
    <3>3. /\ j \in 1..Len(nest) /\ LastOf(j) \in i + 1..Len(base)
          /\ \A k \in i + 1..LastOf(j) : base[k].native
      BY <1>1, <2>4, <3>1, <3>2, HookKnown
    <3>4. Rank(LastOf(j)) = Rank(i)
      <4>1. i \in Nat /\ LastOf(j) \in Nat /\ i <= LastOf(j) BY <3>3
      <4> QED BY <3>3, <4>1, RankOver
    <3>5. nest[j].saved # None <=> j <= Outer
      <4>1. j \in DOMAIN nest BY <1>1, <3>3 DEF DataFacts
      <4> QED BY <1>1, <4>1 DEF NestOK
    <3>6. CASE nest[j].saved = None
      <4>1. LastOf(j) = Len(base) BY <3>5, <3>6 DEF LastOf
      <4>2. SegAt(i) = seg BY <1>5, <3>4, <4>1 DEF SegAt
      <4>3. PcAt(i) = pc BY <2>4, <3>2, <3>6 DEF PcAt
      <4> QED BY <1>4, <2>1, <4>2, <4>3
    <3>7. CASE nest[j].saved # None
      <4>1. j \in 1..Outer /\ LastOf(j) = Caller(j) BY <3>3, <3>5, <3>7, <1>1, CutsKnown DEF LastOf
      <4>2. FrameOK(j) /\ Caller(j) \in Nat /\ Caller(j) < Len(base) BY <1>1, <4>1, NestKnown
      <4>3. nest[j].saved \in Registered BY <1>1, <4>1, CutsKnown
      <4>4. nest[j].saved.pc \in Address BY <4>3 DEF Registered, Address
      <4>5. Current(nest[j].saved.pc)
        <5>1. j \in DOMAIN nest BY <1>1, <3>3 DEF DataFacts
        <5> QED BY <1>1, <3>7, <5>1 DEF CodeFresh, SavedFresh
      <4>6. Rank(i) < Interpreted
        <5>1. PICK q : q = Caller(j) + 1 OBVIOUS
        <5>2. q \in 1..Len(base) /\ Caller(j) < q /\ ~base[q].native BY <1>2, <4>2, <5>1 DEF FrameOK
        <5>3. Rank(Caller(j)) < Rank(q)
          <6>1. PICK r : r = Caller(j) OBVIOUS
          <6>2. r \in Nat /\ q \in Nat /\ r < q BY <4>2, <5>2, <6>1
          <6>3. Rank(r) < Rank(q) BY <1>1, <5>2, <6>2 DEF RankFacts
          <6> QED BY <6>1, <6>3
        <5>4. Rank(q) <= Rank(Len(base)) /\ Rank(q) \in Nat BY <1>1, <1>2, <5>2 DEF RankFacts
        <5> QED BY <1>5, <1>6, <3>4, <4>1, <5>3, <5>4
      <4>7. SegAt(i) = frames[Rank(i)] BY <4>6, <1>6 DEF SegAt
      <4>8. nest[j].saved.pc.c = frames[Rank(i)].c
        <5>1. SegOf(nest[j].saved.pc) = nest[j].saved.seg
              /\ nest[j].saved.seg.c = frames[Rank(Caller(j))].c
          BY <4>2 DEF FrameOK
        <5> QED BY <3>4, <4>1, <5>1 DEF SegOf
      <4>9. PcAt(i) = nest[j].saved.pc BY <2>4, <3>2, <3>7 DEF PcAt
      <4> QED BY <4>4, <4>5, <4>7, <4>8, <4>9
    <3> QED BY <3>6, <3>7
  <2> QED BY <2>2, <2>3, <2>4
<1> QED BY <1>3, <1>7, <1>8 DEF PcFacts

\* The operands of an activation below a height, its handlers, and the
\* activation as it is seen.
Operands(i, h) == h - base[i].h - 2 * Cardinality({g \in Own(i) : g <= h})
Resumes(i, x) == [pos |-> stack[x].pc.p, temps |-> Operands(i, x)]
Hs(i) == [n \in 1..Cardinality(Own(i)) |-> Resumes(i, Nth(Own(i), n))]
Pos(i) == IF base[i].native THEN 0 ELSE PcAt(i).p
Temps(i) == Operands(i, Ceiling(i))
Act(i) == [code |-> base[i].code, pos |-> Pos(i), temps |-> Temps(i), hs |-> Hs(i)]

Handler == [pos : Places, temps : Int]
Acts == [code : Codes, pos : Places, temps : Int, hs : Seq(Handler)]

LEMMA OperandsKnown ==
  ASSUME DataOK, BaseOK, OwnFacts, NEW i \in 1..Len(base)
  PROVE  /\ \A h \in Int : Operands(i, h) \in Int
         /\ \A h \in Int : (\A x \in Own(i) : x <= h) =>
                             Operands(i, h) = h - base[i].h - 2 * Cardinality(Own(i))
         /\ Temps(i) \in Int /\ Temps(i) = Ceiling(i) - base[i].h - 2 * Cardinality(Own(i))
<1>1. base[i].h \in Nat /\ Ceiling(i) \in Nat BY CeilingKnown DEF CeilingFacts
<1>2. IsFiniteSet(Own(i)) /\ Cardinality(Own(i)) \in Nat /\ \A x \in Own(i) : x <= Ceiling(i)
  BY DEF OwnFacts
<1>3. ASSUME NEW h \in Int PROVE Operands(i, h) \in Int
  <2>1. PICK G : G = {g \in Own(i) : g <= h} OBVIOUS
  <2>2. G \in SUBSET Own(i) BY <2>1
  <2>3. Cardinality(G) \in Nat BY <1>2, <2>2, FS_Subset, FS_CardinalityType
  <2> QED BY <1>1, <2>1, <2>3 DEF Operands
<1>4. ASSUME NEW h \in Int, \A x \in Own(i) : x <= h
      PROVE  Operands(i, h) = h - base[i].h - 2 * Cardinality(Own(i))
  <2>1. {g \in Own(i) : g <= h} = Own(i) BY <1>4
  <2> QED BY <2>1 DEF Operands
<1>5. Temps(i) = Ceiling(i) - base[i].h - 2 * Cardinality(Own(i))
  <2>1. PICK h : h = Ceiling(i) OBVIOUS
  <2>2. h \in Int /\ \A x \in Own(i) : x <= h BY <1>1, <1>2, <2>1
  <2>3. Operands(i, h) = h - base[i].h - 2 * Cardinality(Own(i)) BY <1>4, <2>2
  <2> QED BY <2>1, <2>3 DEF Temps
<1>6. Temps(i) \in Int BY <1>1, <1>3 DEF Temps
<1> QED BY <1>3, <1>4, <1>5, <1>6

\* Nothing waits to be handled where there are no blocks.
LEMMA NoHandlers ==
  ASSUME NEW i, Own(i) = {}
  PROVE  Hs(i) = <<>>
<1>1. Cardinality(Own(i)) = 0 BY FS_EmptySet
<1>2. 1..Cardinality(Own(i)) = {} BY <1>1
<1> QED BY <1>2 DEF Hs

LEMMA ActTyped ==
  ASSUME DataOK, BaseOK, BlockFacts, OwnFacts, NEW i \in 1..Len(base),
         ~base[i].native => PcFacts(i)
  PROVE  /\ Act(i) \in Acts /\ Hs(i) \in Seq(Handler) /\ Len(Hs(i)) = Cardinality(Own(i))
         /\ \A n \in 1..Cardinality(Own(i)) : Hs(i)[n] = Resumes(i, Nth(Own(i), n))
         /\ Hs(i) = <<>> <=> Own(i) = {}
         /\ \A x \in Own(i) : Resumes(i, x) \in Handler
<1>1. /\ Own(i) \subseteq Nat /\ Own(i) \subseteq Blocks /\ IsFiniteSet(Own(i))
      /\ Cardinality(Own(i)) \in Nat
  BY DEF OwnFacts
<1>2. ASSUME NEW x \in Own(i) PROVE Resumes(i, x) \in Handler
  <2>1. stack[x].pc \in Address BY <1>1 DEF BlockFacts
  <2>2. Operands(i, x) \in Int BY <1>1, OperandsKnown
  <2> QED BY <2>1, <2>2 DEF Resumes, Handler, Address
<1>3. PICK c : c = Cardinality(Own(i)) OBVIOUS
<1>4. \A n \in 1..c : Nth(Own(i), n) \in Own(i) BY <1>1, <1>3, NthIs
<1>5. PICK s : s = Hs(i) OBVIOUS
<1>6. s = [n \in 1..c |-> Resumes(i, Nth(Own(i), n))] BY <1>3, <1>5 DEF Hs
<1>7. c \in Nat BY <1>1, <1>3
<1>8. \A n \in 1..c : Resumes(i, Nth(Own(i), n)) \in Handler BY <1>2, <1>4
<1>9. s \in Seq(Handler) /\ Len(s) = c /\ \A n \in 1..c : s[n] = Resumes(i, Nth(Own(i), n))
  BY ONLY <1>6, <1>7, <1>8
<1>10. s = <<>> <=> Own(i) = {}
  <2>1. Own(i) = {} => s = <<>> BY <1>5, NoHandlers
  <2>2. s = <<>> => c = 0 BY <1>9
  <2>3. c = 0 => Own(i) = {} BY <1>1, <1>3, FS_EmptySet
  <2> QED BY <2>1, <2>2, <2>3
<1>11. Pos(i) \in Places
  <2>1. CASE base[i].native BY <2>1, MachineConstants DEF Pos
  <2>2. CASE ~base[i].native
    <3>1. PcAt(i) \in Address BY <2>2 DEF PcFacts
    <3> QED BY <2>2, <3>1 DEF Pos, Address
  <2> QED BY <2>1, <2>2
<1>12. base[i].code \in Codes /\ Temps(i) \in Int BY DataKnown, OperandsKnown DEF DataFacts
<1>13. Act(i) \in Acts BY <1>5, <1>9, <1>11, <1>12 DEF Act, Acts
<1> QED BY <1>2, <1>3, <1>5, <1>9, <1>10, <1>13

\* What is seen of the machine.
LEMMA Seen ==
  Sound => Activated = IF Doomed THEN [i \in 1..Len(base) |-> A!Fresh(base[i].code)]
                                 ELSE [i \in 1..Len(base) |-> Act(i)]
<1> SUFFICES ASSUME Sound
             PROVE  Activated = IF Doomed THEN [i \in 1..Len(base) |-> A!Fresh(base[i].code)]
                                          ELSE [i \in 1..Len(base) |-> Act(i)]
  OBVIOUS
<1>1. DataOK /\ BaseOK /\ DOMAIN base = 1..Len(base) BY SoundParts DEF DataFacts
<1>2. ASSUME NEW i \in 1..Len(base), NEW b PROVE ActivationAt(b, i).code = base[i].code
  <2>1. CASE base[i].native BY <2>1 DEF ActivationAt
  <2>2. CASE ~base[i].native
    <3>1. PcFacts(i) BY <2>2, PcKnown
    <3>2. Current(SegAt(i)) /\ SegAt(i).c = PcAt(i).c /\ SegAt(i).c = base[i].code BY <3>1 DEF PcFacts
    <3> QED BY <2>2, <3>2 DEF ActivationAt
  <2> QED BY <2>1, <2>2
<1>3. CASE Doomed
  <2>1. Activated = [i \in 1..Len(base) |->
                       [code |-> ActivationAt(Blocks, i).code, pos |-> 0, temps |-> 0, hs |-> <<>>]]
    BY <1>1, <1>3 DEF Activated
  <2>2. Activated = [i \in 1..Len(base) |-> A!Fresh(base[i].code)] BY <1>2, <2>1 DEF A!Fresh
  <2> QED BY <1>3, <2>2
<1>4. CASE ~Doomed
  <2>1. BlockFacts /\ OwnFacts BY <1>1, <1>4, BlocksFollow, OwnKnown
  <2>2. Activated = [i \in 1..Len(base) |-> ActivationAt(Blocks, i)] BY <1>1, <1>4 DEF Activated
  <2>3. ASSUME NEW i \in 1..Len(base) PROVE ActivationAt(Blocks, i) = Act(i)
    <3>1. Own(i) = BlocksIn(Blocks, i) /\ Own(i) \subseteq Blocks /\ (base[i].native => Own(i) = {})
      BY <2>1 DEF Own, OwnFacts
    <3>2. CASE base[i].native
      <4>1. Hs(i) = <<>> BY <3>1, <3>2, NoHandlers
      <4>2. ActivationAt(Blocks, i)
              = [code |-> base[i].code, pos |-> 0, temps |-> Temps(i), hs |-> <<>>]
        BY <3>1, <3>2 DEF ActivationAt, Temps, Operands
      <4> QED BY <3>2, <4>1, <4>2 DEF Act, Pos
    <3>3. CASE ~base[i].native
      <4>1. /\ Current(PcAt(i)) /\ PcAt(i).c = base[i].code
            /\ Current(SegAt(i)) /\ SegAt(i).c = base[i].code
        BY <3>3, PcKnown DEF PcFacts
      <4>2. ASSUME NEW n \in 1..Cardinality(Own(i))
            PROVE  Current(stack[Nth(Own(i), n)].pc)
        <5>1. Nth(Own(i), n) \in Own(i) BY <2>1, NthIs DEF OwnFacts
        <5> QED BY <2>1, <3>1, <5>1 DEF BlockFacts
      <4>3. Hs(i) = [n \in 1..Cardinality(Own(i)) |->
                       [pos |-> IF Current(stack[Nth(Own(i), n)].pc) THEN stack[Nth(Own(i), n)].pc.p
                                                                     ELSE Stale,
                        temps |-> Operands(i, Nth(Own(i), n))]]
        BY <4>2 DEF Hs, Resumes
      <4>4. ActivationAt(Blocks, i)
              = [code |-> SegAt(i).c, pos |-> PcAt(i).p, temps |-> Temps(i), hs |-> Hs(i)]
        BY <3>1, <3>3, <4>1, <4>3, Zenon DEF ActivationAt, Temps, Operands
      <4> QED BY <3>3, <4>1, <4>4 DEF Act, Pos
    <3> QED BY <3>2, <3>3
  <2> QED BY <1>4, <2>2, <2>3
<1> QED BY <1>3, <1>4

-----------------------------------------------------------------------------
(* What a step does to the blocks *)

Saves == {nest[j].saved.handlerSp : j \in 1..Outer}
HandlerRegisters == {handlerSp} \cup Saves

\* The chains lead from the registers to the blocks.
Leads == Blocks = UNION {Chain[g] : g \in HandlerRegisters}
Linked == Chain[0] = {} /\ \A h \in Nat : h > 0 => Chain[h] = {h} \cup Chain[Saved(h)]

LEMMA RegistersLead == DataOK /\ NestOK => Leads
<1> SUFFICES ASSUME DataOK, NestOK PROVE Leads OBVIOUS
<1>1. Outer \in Nat /\ Outer <= Len(nest) /\ DOMAIN nest = 1..Len(nest) /\ Len(nest) \in Nat
  BY CutsKnown
<1>2. {i \in DOMAIN nest : nest[i].saved # None} = 1..Outer BY <1>1 DEF NestOK
<1>3. Blocks = Chain[handlerSp] \cup UNION {Chain[nest[j].saved.handlerSp] : j \in 1..Outer}
  BY <1>2 DEF Blocks
<1> QED BY <1>3 DEF Leads, HandlerRegisters, Saves

LEMMA LeadNext == DataOK' /\ NestOK' => Leads'
<1>1. DataOK /\ NestOK => Leads BY RegistersLead
<1> QED BY <1>1, PTL

LEMMA LinkedNext == Linked /\ Linked'
<1>1. Linked BY ChainStep DEF Linked
<1> QED BY <1>1, PTL

\* A chain is as its blocks are, and stays so while they do.
LEMMA ChainKept ==
  ASSUME BlockFacts, NEW m \in Int,
         \A x \in Blocks : x <= m => stack'[x - 1].hsp = stack[x - 1].hsp
  PROVE  \A x \in Blocks \cup {0} : x <= m => /\ Chain'[x] = Chain[x] /\ Chain[x] \subseteq Blocks
                                              /\ \A y \in Chain[x] : y <= x
<1> DEFINE Same(x) == Chain'[x] = Chain[x] /\ Chain[x] \subseteq Blocks /\ \A y \in Chain[x] : y <= x
           T == {x \in Blocks \cup {0} : x <= m /\ ~ Same(x)}
<1>1. Same(0) BY LinkedNext DEF Linked
<1>2. SUFFICES ASSUME T # {} PROVE FALSE OBVIOUS
<1>3. Blocks \subseteq Nat BY DEF BlockFacts
<1>4. T \subseteq Blocks \cup {0} OBVIOUS
<1> HIDE DEF Same
<1>5. PICK x \in T : \A y \in T : x <= y
  <2> HIDE DEF T
  <2>1. T \subseteq Nat BY <1>3, <1>4
  <2> QED BY <1>2, <2>1, Least
<1>6. x \in Blocks /\ x <= m /\ ~ Same(x) /\ x \in Nat BY <1>1, <1>3, <1>5
<1>7. x > 0 BY <1>6 DEF BlockFacts
<1>8. PICK y : y = stack[x - 1].hsp OBVIOUS
<1>9. y \in Nat /\ y < x /\ y \in Blocks \cup {0} BY <1>6, <1>8 DEF BlockFacts
<1>10. stack'[x - 1].hsp = y BY <1>6, <1>8
<1>11. y \in 0..x - 1 BY <1>6, <1>9
<1>12. Saved(x) = y /\ Saved(x)' = y BY <1>8, <1>10, <1>11 DEF Saved
<1>13. Chain[x] = {x} \cup Chain[y] BY <1>6, <1>7, <1>12, LinkedNext DEF Linked
<1>14. Chain'[x] = {x} \cup Chain'[y]
  <2>1. Chain'[x] = {x} \cup Chain'[Saved(x)'] BY <1>6, <1>7, LinkedNext DEF Linked
  <2> QED BY <1>12, <2>1
<1>15. Same(y)
  <2>1. ~ (x <= y) BY <1>6, <1>9
  <2>2. y \notin T BY <1>5, <2>1
  <2>3. y <= m BY <1>6, <1>9
  <2> QED BY <1>9, <2>2, <2>3
<1>16. Same(x)
  <2>1. Chain'[x] = Chain[x] BY <1>13, <1>14, <1>15 DEF Same
  <2>2. Chain[x] \subseteq Blocks BY <1>6, <1>13, <1>15 DEF Same
  <2>3. \A z \in Chain[x] : z <= x
    <3> SUFFICES ASSUME NEW z \in Chain[x] PROVE z <= x OBVIOUS
    <3>1. z = x \/ z \in Chain[y] BY <1>13
    <3>2. z \in Nat BY <1>3, <2>2
    <3>3. z \in Chain[y] => z <= y BY <1>15 DEF Same
    <3> QED BY <1>6, <1>9, <3>1, <3>2, <3>3
  <2> QED BY <2>1, <2>2, <2>3 DEF Same
<1> QED BY <1>6, <1>16

\* The registers that lead to blocks stay, or one of them moves.
LEMMA BlocksSame ==
  ASSUME DataOK, NestOK, BlockFacts, DataOK', NestOK',
         \A x \in Blocks : stack'[x - 1].hsp = stack[x - 1].hsp,
         HandlerRegisters' \cup {0} = HandlerRegisters \cup {0}
  PROVE  Blocks' = Blocks
<1>1. Blocks = UNION {Chain[g] : g \in HandlerRegisters} BY RegistersLead DEF Leads
<1>2. Blocks' = UNION {Chain'[g] : g \in HandlerRegisters'} BY LeadNext DEF Leads
<1>3. Chain[0] = {} /\ Chain'[0] = {} BY LinkedNext DEF Linked
<1>4. HandlerRegisters \subseteq Blocks \cup {0} BY DEF BlockFacts, HandlerRegisters, Saves
<1>5. Height \in Int /\ \A x \in Blocks \cup {0} : x <= Height
  <2>1. Height \in Nat BY DataKnown DEF DataFacts
  <2> QED BY <2>1 DEF BlockFacts
<1>6. \A x \in Blocks \cup {0} : Chain'[x] = Chain[x]
  <2>1. PICK m \in Int : m = Height BY <1>5
  <2>2. \A x \in Blocks : x <= m => stack'[x - 1].hsp = stack[x - 1].hsp OBVIOUS
  <2> QED BY <1>5, <2>1, <2>2, ChainKept
<1>7. \A g \in HandlerRegisters \cup {0} : Chain'[g] = Chain[g] BY <1>4, <1>6
<1>8. \A z : z \in Blocks <=> \E g \in HandlerRegisters \cup {0} : z \in Chain[g] BY <1>1, <1>3
<1>9. \A z : z \in Blocks' <=> \E g \in HandlerRegisters \cup {0} : z \in Chain'[g] BY <1>2, <1>3
<1> QED BY <1>7, <1>8, <1>9

LEMMA BlocksGrow ==
  ASSUME DataOK, NestOK, BlockFacts, DataOK', NestOK',
         \A x \in Blocks : stack'[x - 1].hsp = stack[x - 1].hsp,
         NEW h \in Nat, h > 0, stack'[h - 1].hsp = handlerSp, handlerSp < h,
         handlerSp' = h, Saves' = Saves
  PROVE  Blocks' = Blocks \cup {h}
<1>1. Blocks = UNION {Chain[g] : g \in HandlerRegisters} BY RegistersLead DEF Leads
<1>2. Blocks' = UNION {Chain'[g] : g \in HandlerRegisters'} BY LeadNext DEF Leads
<1>3. HandlerRegisters = {handlerSp} \cup Saves /\ HandlerRegisters' = {h} \cup Saves BY DEF HandlerRegisters
<1>4. HandlerRegisters \subseteq Blocks \cup {0} BY DEF BlockFacts, HandlerRegisters, Saves
<1>5. Height \in Int /\ \A x \in Blocks \cup {0} : x <= Height
  <2>1. Height \in Nat BY DataKnown DEF DataFacts
  <2> QED BY <2>1 DEF BlockFacts
<1>6. \A x \in Blocks \cup {0} : Chain'[x] = Chain[x]
  <2>1. PICK m \in Int : m = Height BY <1>5
  <2>2. \A x \in Blocks : x <= m => stack'[x - 1].hsp = stack[x - 1].hsp OBVIOUS
  <2> QED BY <1>5, <2>1, <2>2, ChainKept
<1>7. \A g \in HandlerRegisters : Chain'[g] = Chain[g] BY <1>4, <1>6
<1>8. Saved(h)' = handlerSp
  <2>1. handlerSp \in 0..h - 1
    <3>1. handlerSp \in Nat BY DEF DataOK
    <3> QED BY <3>1
  <2> QED BY <2>1 DEF Saved
<1>9. Chain'[h] = {h} \cup Chain'[handlerSp] BY <1>8, LinkedNext DEF Linked
<1>10. Chain'[handlerSp] = Chain[handlerSp] BY <1>3, <1>7
<1> QED BY <1>1, <1>2, <1>3, <1>7, <1>9, <1>10

LEMMA BlocksShrink ==
  ASSUME DataOK, NestOK, BlockFacts, DataOK', NestOK', handlerSp # 0,
         \A x \in Blocks : x < handlerSp => stack'[x - 1].hsp = stack[x - 1].hsp,
         handlerSp' = stack[handlerSp - 1].hsp, Saves' = Saves
  PROVE  Blocks' = Blocks \ {handlerSp}
<1>1. Blocks = UNION {Chain[g] : g \in HandlerRegisters} BY RegistersLead DEF Leads
<1>2. Blocks' = UNION {Chain'[g] : g \in HandlerRegisters'} BY LeadNext DEF Leads
<1>3. PICK h, y : h = handlerSp /\ y = stack[h - 1].hsp OBVIOUS
<1>4. HandlerRegisters = {h} \cup Saves /\ HandlerRegisters' = {y} \cup Saves BY <1>3 DEF HandlerRegisters
<1>5. /\ h \in Nat /\ h > 0 /\ h \in Blocks /\ y \in Nat /\ y < h /\ y \in Blocks \cup {0}
  BY <1>3 DEF BlockFacts
<1>6. \A g \in Saves : g \in Blocks \cup {0} /\ g < h BY <1>3 DEF BlockFacts, Saves
<1>7. \A x \in Blocks \cup {0} : x < h => Chain'[x] = Chain[x] /\ \A z \in Chain[x] : z <= x
  <2>1. PICK m \in Int : m = h - 1 BY <1>5
  <2>2. Blocks \subseteq Nat BY DEF BlockFacts
  <2>3. \A x \in Blocks \cup {0} : x <= m <=> x < h BY <1>5, <2>1, <2>2
  <2>4. \A x \in Blocks : x <= m => stack'[x - 1].hsp = stack[x - 1].hsp BY <1>3, <2>3
  <2>5. \A x \in Blocks \cup {0} : x <= m => Chain'[x] = Chain[x] /\ \A z \in Chain[x] : z <= x
    BY <2>4, ChainKept
  <2> QED BY <2>3, <2>5
<1>8. \A g \in {y} \cup Saves : Chain'[g] = Chain[g] /\ h \notin Chain[g]
  <2> SUFFICES ASSUME NEW g \in {y} \cup Saves PROVE Chain'[g] = Chain[g] /\ h \notin Chain[g] OBVIOUS
  <2>1. g \in Blocks \cup {0} /\ g < h BY <1>5, <1>6
  <2>2. g \in Nat BY <2>1 DEF BlockFacts
  <2>3. ~ (h <= g) BY <1>5, <2>1, <2>2
  <2> QED BY <1>7, <2>1, <2>3
<1>9. Saved(h) = y
  <2>1. y \in 0..h - 1 BY <1>5
  <2> QED BY <1>3, <2>1 DEF Saved
<1>10. Chain[h] = {h} \cup Chain[y] BY <1>5, <1>9, LinkedNext DEF Linked
<1>11. \A z : z \in Blocks <=> z = h \/ \E g \in {y} \cup Saves : z \in Chain[g]
  BY <1>1, <1>4, <1>10
<1>12. \A z : z \in Blocks' <=> \E g \in {y} \cup Saves : z \in Chain[g] BY <1>2, <1>4, <1>8
<1> QED BY <1>3, <1>8, <1>11, <1>12

-----------------------------------------------------------------------------
(* What a step leaves alone *)

HookFacts ==
  \A i \in 1..Len(base) : i < Len(base) /\ ~base[i].native /\ base[i + 1].native =>
    /\ HookOf(i) \in 1..Len(nest) /\ base[i + 1].h = nest[HookOf(i)].top + 2
    /\ \A g \in 1..Len(nest) : base[i + 1].h = nest[g].top + 2 => g = HookOf(i)

ActFacts ==
  \A i \in 1..Len(base) :
    /\ Act(i) \in Acts /\ Hs(i) \in Seq(Handler) /\ Len(Hs(i)) = Cardinality(Own(i))
    /\ \A n \in 1..Cardinality(Own(i)) : Hs(i)[n] = Resumes(i, Nth(Own(i), n))
    /\ Hs(i) = <<>> <=> Own(i) = {}
    /\ \A x \in Own(i) : Resumes(i, x) \in Handler
    /\ Temps(i) = Ceiling(i) - base[i].h - 2 * Cardinality(Own(i))

SeenFacts ==
  /\ Activated \in Seq(Acts) /\ Len(Activated) = Len(base)
  /\ \A i \in 1..Len(base) : Activated[i] = Act(i)

\* All that is known of a machine that no hard error is ending.
Clear ==
  /\ DataFacts /\ BaseFacts /\ BlockFacts /\ OwnFacts /\ CeilingFacts /\ HookFacts /\ ActFacts
  /\ SeenFacts

LEMMA ClearKnown == Sound /\ ~Doomed => Clear
<1> SUFFICES ASSUME Sound, ~Doomed PROVE Clear OBVIOUS
<1>1. DataOK /\ BaseOK /\ NestOK /\ EntriesOK /\ DataFacts /\ BaseFacts BY SoundParts
<1>2. BlockFacts /\ OwnFacts /\ CeilingFacts BY <1>1, BlocksFollow, OwnKnown, CeilingKnown
<1>3. HookFacts BY <1>1, HookKnown DEF HookFacts
<1>4. ActFacts
  <2> SUFFICES ASSUME NEW i \in 1..Len(base)
               PROVE  /\ Act(i) \in Acts /\ Hs(i) \in Seq(Handler)
                      /\ Len(Hs(i)) = Cardinality(Own(i))
                      /\ \A n \in 1..Cardinality(Own(i)) : Hs(i)[n] = Resumes(i, Nth(Own(i), n))
                      /\ Hs(i) = <<>> <=> Own(i) = {}
                      /\ \A x \in Own(i) : Resumes(i, x) \in Handler
                      /\ Temps(i) = Ceiling(i) - base[i].h - 2 * Cardinality(Own(i))
    BY DEF ActFacts
  <2>1. ~base[i].native => PcFacts(i) BY PcKnown
  <2>2. Temps(i) = Ceiling(i) - base[i].h - 2 * Cardinality(Own(i)) BY <1>1, <1>2, OperandsKnown
  <2> QED BY <1>1, <1>2, <2>1, <2>2, ActTyped
<1>5. SeenFacts
  <2>1. PICK l : l = Len(base) OBVIOUS
  <2>2. l \in Nat BY <1>1, <2>1 DEF DataFacts
  <2>3. PICK s : s = Activated OBVIOUS
  <2>4. s = [i \in 1..l |-> Act(i)] BY <2>1, <2>3, Seen
  <2>5. \A i \in 1..l : Act(i) \in Acts BY <1>4, <2>1 DEF ActFacts
  <2>6. s \in Seq(Acts) /\ Len(s) = l /\ \A i \in 1..l : s[i] = Act(i) BY ONLY <2>2, <2>4, <2>5
  <2> QED BY <2>1, <2>3, <2>6 DEF SeenFacts
<1> QED BY <1>1, <1>2, <1>3, <1>4, <1>5 DEF Clear

LEMMA ClearNext == Sound' /\ ~Doomed' => Clear'
<1>1. Sound /\ ~Doomed => Clear BY ClearKnown
<1> QED BY <1>1, PTL

\* The handlers of an activation are those of its blocks.
LEMMA HsKept ==
  ASSUME OwnFacts, NEW i \in 1..Len(base), base'[i].h = base[i].h, Own(i)' = Own(i),
         \A x \in Own(i) : stack'[x].pc.p = stack[x].pc.p
  PROVE  Hs(i)' = Hs(i)
<1>1. PICK S, h, c : S = Own(i) /\ h = base[i].h /\ c = Cardinality(S) OBVIOUS
<1>2. S \subseteq Nat /\ IsFiniteSet(S) BY <1>1 DEF OwnFacts
<1>3. \A n \in 1..c : Nth(S, n) \in S BY <1>1, <1>2, NthIs
<1>4. Hs(i) = [n \in 1..c |-> [pos |-> stack[Nth(S, n)].pc.p,
                               temps |-> Nth(S, n) - h - 2 * Cardinality({g \in S : g <= Nth(S, n)})]]
  BY <1>1, Zenon DEF Hs, Resumes, Operands
<1>5. Hs(i)' = [n \in 1..c |-> [pos |-> stack'[Nth(S, n)].pc.p,
                                temps |-> Nth(S, n) - h - 2 * Cardinality({g \in S : g <= Nth(S, n)})]]
  BY <1>1, Zenon DEF Hs, Resumes, Operands
<1>6. \A n \in 1..c : stack'[Nth(S, n)].pc.p = stack[Nth(S, n)].pc.p BY <1>1, <1>3
<1> QED BY <1>4, <1>5, <1>6, Zenon

\* Where an activation resumes whose callee is a region.
HookPc(j) == IF nest[j].saved = None THEN pc.p ELSE nest[j].saved.pc.p

\* The activations below the b-th stay, with the blocks and words they have,
\* and so do the first k Rust frames; the b-th keeps what it was called with.
Stays(b, k) ==
  /\ b \in 1..Len(base) /\ b <= Len(base')
  /\ \A i \in 1..(b - 1) : base'[i] = base[i]
  /\ Floor(b)' = Floor(b) /\ base'[b].native = base[b].native
  /\ base[b].native => base'[b].h = base[b].h
  /\ \A i \in 2..b : stack'[base'[i].h - 1].pc.p = stack[base[i].h - 1].pc.p
  /\ \A x \in Blocks : x <= Floor(b) => x \in Blocks' /\ stack'[x].pc.p = stack[x].pc.p
  /\ \A x \in Blocks' : x <= Floor(b) => x \in Blocks
  /\ k \in Nat /\ k <= Len(nest) /\ k <= Len(nest')
  /\ \A j \in 1..k : nest'[j].top = nest[j].top /\ HookPc(j)' = HookPc(j)
  /\ \A j \in 1..Len(nest) : k < j => base[b].h < nest[j].top + 2

\* An activation resumes where it did as long as its callee stays.
LEMMA PosKept ==
  ASSUME Clear, Clear', NEW b, NEW k, Stays(b, k), NEW i \in 1..(b - 1)
  PROVE  Pos(i)' = Pos(i)
<1>1. b \in 1..Len(base) /\ b <= Len(base') BY DEF Stays
<1>2. Len(base) \in Nat /\ Len(base') \in Nat /\ Len(nest) \in Nat /\ Len(nest') \in Nat
  BY DEF Clear, DataFacts
<1>3. PICK q : q = i + 1 OBVIOUS
<1>4. /\ i \in 1..Len(base) /\ i < Len(base) /\ i \in 1..Len(base') /\ i < Len(base')
      /\ i # Len(base) /\ i # Len(base')
      /\ q \in 2..b /\ q \in 1..Len(base) /\ q \in 1..Len(base') /\ q <= b
  BY <1>1, <1>2, <1>3
<1>5. base'[i] = base[i] BY DEF Stays
<1>6. base'[q].native = base[q].native /\ (base[q].native => base'[q].h = base[q].h)
  <2>1. q < b => q \in 1..(b - 1) BY <1>1, <1>4
  <2>2. q < b \/ q = b BY <1>1, <1>4
  <2> QED BY <2>1, <2>2 DEF Stays
<1>7. CASE base[i].native BY <1>5, <1>7 DEF Pos
<1>8. CASE ~base[i].native /\ ~base[q].native
  <2>1. PcAt(i) = stack[base[q].h - 1].pc BY <1>3, <1>4, <1>8 DEF PcAt
  <2>2. PcAt(i)' = stack'[base'[q].h - 1].pc BY <1>3, <1>4, <1>6, <1>8 DEF PcAt
  <2>3. stack'[base'[q].h - 1].pc.p = stack[base[q].h - 1].pc.p BY <1>4 DEF Stays
  <2> QED BY <1>5, <1>8, <2>1, <2>2, <2>3 DEF Pos
<1>9. CASE ~base[i].native /\ base[q].native
  <2>1. PICK j : j = HookOf(i) OBVIOUS
  <2>2. j \in 1..Len(nest) /\ base[q].h = nest[j].top + 2
    <3>1. HookFacts BY DEF Clear
    <3> QED BY <1>3, <1>4, <1>9, <2>1, <3>1 DEF HookFacts
  <2>3. ~ (k < j)
    <3> SUFFICES ASSUME k < j PROVE FALSE OBVIOUS
    <3>1. base[b].h < nest[j].top + 2 BY <2>2 DEF Stays
    <3>2. base[q].h \in Nat /\ base[b].h \in Nat /\ (q < b => base[q].h + 2 <= base[b].h)
      BY <1>1, <1>4 DEF Clear, BaseFacts
    <3>3. q < b \/ q = b BY <1>1, <1>4
    <3>4. base[b].h < base[q].h BY <2>2, <3>1
    <3> QED BY <3>2, <3>3, <3>4
  <2>4. k \in Nat /\ k <= Len(nest') /\ j \in 1..k /\ j \in 1..Len(nest')
    <3>1. k \in Nat /\ k <= Len(nest') BY DEF Stays
    <3> QED BY <1>2, <2>2, <2>3, <3>1
  <2>5. nest'[j].top = nest[j].top /\ HookPc(j)' = HookPc(j) BY <2>4 DEF Stays
  <2>6. j = HookOf(i)'
    <3>1. HookFacts' BY DEF Clear
    <3>2. base'[q].h = nest'[j].top + 2 BY <1>6, <1>9, <2>2, <2>5
    <3>3. ~base'[i].native /\ base'[q].native BY <1>5, <1>6, <1>9
    <3> QED BY <1>3, <1>4, <2>4, <3>1, <3>2, <3>3 DEF HookFacts
  <2>7. PcAt(i).p = HookPc(j) BY <1>3, <1>4, <1>9, <2>1 DEF PcAt, HookPc
  <2>8. PcAt(i)'.p = HookPc(j)' BY <1>3, <1>4, <1>6, <1>9, <2>6 DEF PcAt, HookPc
  <2> QED BY <1>5, <1>9, <2>5, <2>7, <2>8 DEF Pos
<1> QED BY <1>7, <1>8, <1>9

LEMMA LowerKept ==
  ASSUME Clear, Clear', NEW b, NEW k, Stays(b, k)
  PROVE  \A i \in 1..(b - 1) : Act(i)' = Act(i)
<1> SUFFICES ASSUME NEW i \in 1..(b - 1) PROVE Act(i)' = Act(i) OBVIOUS
<1>1. b \in 1..Len(base) /\ b <= Len(base') BY DEF Stays
<1>2. Len(base) \in Nat /\ Len(base') \in Nat BY DEF Clear, DataFacts
<1>3. PICK q : q = i + 1 OBVIOUS
<1>4. /\ i \in 1..Len(base) /\ i < Len(base) /\ i \in 1..Len(base') /\ i < Len(base')
      /\ q \in 1..Len(base) /\ q <= b /\ i < b
  BY <1>1, <1>2, <1>3
<1>5. base'[i] = base[i] BY DEF Stays
<1>6. Pos(i)' = Pos(i) BY PosKept
<1>7. Ceiling(i) = Floor(q) /\ Ceiling(i)' = Floor(q)' BY <1>3, <1>4 DEF Clear, CeilingFacts
<1>8. Floor(q)' = Floor(q)
  <2>1. q < b => q \in 1..(b - 1) BY <1>1, <1>4
  <2>2. q < b \/ q = b BY <1>1, <1>4
  <2>3. q < b => base'[q] = base[q] BY <2>1 DEF Stays
  <2>4. q < b => Floor(q)' = Floor(q) BY <2>3 DEF Floor
  <2> QED BY <2>2, <2>4 DEF Stays
<1>9. Ceiling(i) \in Nat /\ Ceiling(i) <= Floor(b)
  <2>1. /\ Floor(q) \in Nat /\ Floor(b) \in Nat /\ base[q].h = Floor(q) + 2 + Arity[base[q].code]
        /\ Arity[base[q].code] \in Nat /\ (q < b => base[q].h <= Floor(b))
    BY <1>1, <1>4 DEF Clear, BaseFacts
  <2>2. q < b \/ q = b BY <1>1, <1>4
  <2> QED BY <1>7, <2>1, <2>2
<1>10. Own(i)' = Own(i) /\ \A x \in Own(i) : stack'[x].pc.p = stack[x].pc.p
  <2>1. PICK f, h, c, d : f = Floor(b) /\ h = base[i].h /\ c = Ceiling(i) /\ c \in Nat /\ d = Blocks
    BY <1>9
  <2>2. f \in Nat /\ c <= f
    <3>1. Floor(b) \in Nat BY <1>1 DEF Clear, BaseFacts
    <3> QED BY <1>9, <2>1, <3>1
  <2>3. d \subseteq Nat /\ Blocks' \subseteq Nat BY <2>1 DEF Clear, BlockFacts
  <2>4. Own(i) = {x \in d : h < x /\ x <= c} BY <2>1 DEF Own, BlocksIn
  <2>5. Own(i)' = {x \in Blocks' : h < x /\ x <= c}
    <3>1. h = base'[i].h /\ c = Ceiling(i)' BY <1>5, <1>7, <1>8, <2>1
    <3> QED BY <3>1 DEF Own, BlocksIn
  <2>6. /\ \A x \in d : x <= f => x \in Blocks' /\ stack'[x].pc.p = stack[x].pc.p
        /\ \A x \in Blocks' : x <= f => x \in d
    BY <2>1 DEF Stays
  <2>7. \A x \in Nat : x <= c => x <= f BY <2>1, <2>2
  <2> QED BY <2>3, <2>4, <2>5, <2>6, <2>7
<1>11. Hs(i)' = Hs(i) BY <1>4, <1>5, <1>10, HsKept DEF Clear
<1>12. Temps(i)' = Temps(i)
  <2>1. /\ Temps(i) = Ceiling(i) - base[i].h - 2 * Cardinality(Own(i))
        /\ Temps(i)' = Ceiling(i)' - base'[i].h - 2 * Cardinality(Own(i)')
    BY <1>4 DEF Clear, ActFacts
  <2> QED BY <1>5, <1>7, <1>8, <1>10, <2>1
<1> QED BY <1>5, <1>6, <1>11, <1>12 DEF Act

-----------------------------------------------------------------------------
(* Steps of the running activation *)

\* A step of plain activations, and the stuttering that TLC's runs allow too.
LEMMA IsRun ==
  ASSUME status = "running", status' = "running", exn' = exn,
         \/ A!Computes(Activated, Activated') \/ A!Calls(Activated, Activated')
         \/ A!TailCalls(Activated, Activated') \/ A!Returns(Activated, Activated')
         \/ A!SetsHandler(Activated, Activated') \/ A!DeletesHandler(Activated, Activated')
  PROVE  A!Next
<1>1. PICK a, b : a = Activated /\ b = Activated' OBVIOUS
<1>2. \/ A!Computes(a, b) \/ A!Calls(a, b) \/ A!TailCalls(a, b) \/ A!Returns(a, b)
      \/ A!SetsHandler(a, b) \/ A!DeletesHandler(a, b)
  BY <1>1
<1>3. A!Run BY <1>1, <1>2, Zenon DEF A!Run
<1> QED BY <1>3 DEF A!Next

\* No handler block is among the data words on top.
LEMMA OverBlocks ==
  ASSUME Clear, NEW n \in Nat, DataOnTop(n)
  PROVE  /\ Height - n \in Nat /\ Height - n <= Height /\ Top.h <= Height - n
         /\ \A x \in Blocks : x <= Height - n
<1>1. Height \in Nat BY DEF Clear, DataFacts
<1>2. Top = base[Len(base)] /\ Len(base) \in 1..Len(base) BY DEF Clear, DataFacts, BaseFacts, Top, Last
<1>3. Top.h \in Nat BY <1>2 DEF Clear, BaseFacts
<1>4. Top.h <= Height - n BY <1>1, <1>3 DEF DataOnTop, Owns
<1>5. ASSUME NEW x \in Blocks PROVE x <= Height - n
  <2>1. x \in 2..Height /\ stack[x].k = "pc" BY DEF Clear, BlockFacts
  <2>2. ASSUME ~ (x <= Height - n) PROVE FALSE
    <3>1. x \in Height - n + 1..Height BY <1>1, <2>1, <2>2
    <3>2. stack[x] = Data BY <3>1 DEF DataOnTop
    <3> QED BY <2>1, <3>2 DEF Data
  <2> QED BY <2>2
<1> QED BY <1>1, <1>3, <1>4, <1>5

\* The running activation has the blocks above it, and at least the words
\* above the blocks.
LEMMA TopKept ==
  ASSUME Clear, NEW m \in Nat, Top.h <= m, m <= Height, \A x \in Blocks : x <= m,
         NEW l, l = Len(base)
  PROVE  /\ l \in 1..Len(base) /\ l \in Nat /\ Top = base[l] /\ Ceiling(l) = Height
         /\ Own(l) = {x \in Blocks : base[l].h < x}
         /\ Temps(l) \in Int /\ Temps(l) >= Height - m
         /\ Temps(l) = Height - base[l].h - 2 * Cardinality(Own(l))
<1>1. /\ l \in 1..Len(base) /\ l \in Nat /\ Top = base[l] /\ Height \in Nat
  BY DEF Clear, DataFacts, BaseFacts, Top, Last
<1>2. Ceiling(l) = Height /\ base[l].h \in Nat BY <1>1 DEF Clear, CeilingFacts
<1>3. Blocks \subseteq Nat BY DEF Clear, BlockFacts
<1>4. Own(l) = {x \in Blocks : base[l].h < x}
  <2>1. \A x \in Blocks : x <= Height BY DEF Clear, BlockFacts
  <2> QED BY <1>2, <2>1 DEF Own, BlocksIn
<1>5. /\ Own(l) \subseteq Nat /\ IsFiniteSet(Own(l)) /\ Cardinality(Own(l)) \in Nat
      /\ \A x \in Own(l) : base[l].h + 2 <= x /\ x + 1 \notin Own(l)
  BY <1>1 DEF Clear, OwnFacts
<1>6. 2 * Cardinality(Own(l)) <= m - base[l].h
  <2>1. PICK S, h : S = Own(l) /\ h = base[l].h OBVIOUS
  <2>2. h \in Nat /\ h <= m BY <1>1, <1>2, <2>1
  <2>3. \A x \in S : x \in Nat /\ h + 2 <= x /\ x <= m BY <1>4, <1>5, <2>1
  <2>4. \A x \in S : x + 1 \notin S BY <1>5, <2>1
  <2>5. 2 * Cardinality(S) <= m - h BY ONLY <2>2, <2>3, <2>4, m \in Nat, Packed
  <2> QED BY <2>1, <2>5
<1>7. Temps(l) = Height - base[l].h - 2 * Cardinality(Own(l)) BY <1>1, <1>2 DEF Clear, ActFacts
<1>8. Temps(l) \in Int /\ Temps(l) >= Height - m BY <1>1, <1>2, <1>5, <1>6, <1>7
<1> QED BY <1>1, <1>2, <1>4, <1>7, <1>8

\* The same, and how little it has when no block and one word are above it.
LEMMA ActIs ==
  ASSUME NEW i, base'[i].code = base[i].code, Hs(i)' = Hs(i)
  PROVE  Act(i)' = A!Goes(Act(i), Act(i)'.pos, Act(i)'.temps, Act(i).hs)
BY DEF Act, A!Goes

\* Instructions that stay in their activation, and collections.
LEMMA Quiet ==
  ASSUME Sound, Sound', status = "running", status' = "running", exn' = exn,
         base' = base, nest' = nest, handlerSp' = handlerSp,
         \A x \in Blocks : /\ x <= Height' /\ stack'[x].pc.p = stack[x].pc.p
                           /\ stack'[x - 1].hsp = stack[x - 1].hsp,
         \A i \in 1..Len(base) : stack'[base[i].h - 1].pc.p = stack[base[i].h - 1].pc.p,
         \A j \in 1..Len(nest) : HookPc(j)' = HookPc(j)
  PROVE  A!Next
<1>1. Clear /\ Clear'
  <2>1. ~Doomed /\ ~Doomed' BY DEF Doomed
  <2> QED BY <2>1, ClearKnown, ClearNext
<1>2. DataOK /\ NestOK /\ BlockFacts BY <1>1, SoundParts DEF Clear
<1>3. DataOK' /\ NestOK' BY DEF Sound, MachineInv
<1>4. HandlerRegisters' = HandlerRegisters BY DEF HandlerRegisters, Saves, Outer, Native
<1>5. Blocks' = Blocks BY <1>2, <1>3, <1>4, BlocksSame
<1>6. PICK l : l = Len(base) OBVIOUS
<1>7. l \in Nat /\ l \in 1..l /\ l = Len(base') /\ Len(nest) \in Nat
  BY <1>1, <1>6 DEF Clear, DataFacts, BaseFacts
<1>8. Stays(l, Len(nest))
  <2>1. Floor(l)' = Floor(l) BY DEF Floor
  <2>2. \A i \in 2..l : stack'[base'[i].h - 1].pc.p = stack[base[i].h - 1].pc.p BY <1>6, <1>7
  <2> QED BY <1>5, <1>6, <1>7, <2>1, <2>2 DEF Stays
<1>9. \A i \in 1..(l - 1) : Act(i)' = Act(i) BY <1>1, <1>8, LowerKept
<1>10. Own(l)' = Own(l) /\ Own(l) \subseteq Blocks
  <2>1. Ceiling(l) = Height /\ Ceiling(l)' = Height' BY <1>6, <1>7, <1>1 DEF Clear, CeilingFacts
  <2>2. \A x \in Blocks : x <= Height BY <1>2 DEF BlockFacts
  <2>3. Own(l) = {x \in Blocks : base[l].h < x} BY <2>1, <2>2 DEF Own, BlocksIn
  <2>4. Own(l)' = {x \in Blocks : base[l].h < x} BY <1>5, <2>1 DEF Own, BlocksIn
  <2> QED BY <2>3, <2>4
<1>11. Hs(l)' = Hs(l)
  <2>1. l \in 1..Len(base) /\ OwnFacts BY <1>1, <1>6, <1>7 DEF Clear
  <2> QED BY <1>10, <2>1, HsKept
<1>12. Act(l)' = A!Goes(Act(l), Act(l)'.pos, Act(l)'.temps, Act(l).hs) BY <1>11, ActIs
<1>13. PICK a, b : a = Activated /\ b = Activated' OBVIOUS
<1>14. /\ a \in Seq(Acts) /\ Len(a) = l /\ \A i \in 1..l : a[i] = Act(i)
       /\ b \in Seq(Acts) /\ Len(b) = l /\ \A i \in 1..l : b[i] = Act(i)'
  BY <1>1, <1>6, <1>7, <1>13 DEF Clear, SeenFacts
<1>15. Agree(Acts, a, b, l)
  <2>1. \A i \in 1..(l - 1) : b[i] = a[i] BY <1>7, <1>9, <1>14
  <2> QED BY <1>7, <1>14, <2>1 DEF Agree
<1>16. b[l] = A!Goes(a[l], b[l].pos, b[l].temps, a[l].hs) BY <1>7, <1>12, <1>14
<1>17. A!Computes(a, b)
  <2>1. Len(b) = l BY <1>14
  <2> QED BY ONLY <1>15, <1>16, <2>1, IsComputing
<1> QED BY <1>13, <1>17, IsRun

\* Such a step enters no activation and leaves none.
LEMMA SameEntries ==
  ASSUME EntriesOK, base' = base, nest' = nest,
         \A i \in 1..Len(base) : stack'[base[i].h - 1] = Zero => stack[base[i].h - 1] = Zero
  PROVE  EntriesOK'
<1>1. Outer' = Outer /\ \A j \in 1..Outer : Caller(j)' = Caller(j) BY DEF Outer, Native, Caller
<1>2. SUFFICES ASSUME NEW i \in 2..Len(base) PROVE EntryOK(i)' BY DEF EntriesOK
<1>3. EntryOK(i) BY DEF EntriesOK
<1>4. stack'[base[i].h - 1] = Zero => stack[base[i].h - 1] = Zero
  <2>1. i \in 1..Len(base) OBVIOUS
  <2> QED BY <2>1
<1>5. CASE base[i].native BY <1>3, <1>5 DEF EntryOK
<1>6. CASE ~base[i].native BY <1>1, <1>3, <1>4, <1>6 DEF EntryOK
<1> QED BY <1>5, <1>6

\* What a running machine goes on as.
LEMMA GoesOn ==
  ASSUME EntriesOK', status' = "running", halt' => nest' = <<>>
  PROVE  CallInv'
BY DEF CallInv, FlightOK, HaltOK

\* The words below some height are left alone.
LEMMA QuietWords ==
  ASSUME Sound, MachineInv', FreshInv', status = "running", status' = "running", exn' = exn,
         halt' => nest' = <<>>, base' = base, nest' = nest, handlerSp' = handlerSp,
         pc' = pc \/ ~Native,
         NEW m \in Nat, m <= Height, m <= Height', Top.h <= m, \A x \in Blocks : x <= m,
         \A i \in 1..m : stack'[i] = stack[i]
  PROVE  CallInv' /\ A!Next
<1>1. ~Doomed BY DEF Doomed
<1>2. Clear BY <1>1, ClearKnown
<1>3. NestOK /\ EntriesOK /\ DataOK BY SoundParts
<1>4. ASSUME NEW i \in 1..Len(base) PROVE stack'[base[i].h - 1] = stack[base[i].h - 1]
  <2>1. PICK l : l = Len(base) OBVIOUS
  <2>2. l \in Nat /\ l \in 1..Len(base) /\ Top = base[l] /\ i \in 1..l
    BY <1>2, <2>1 DEF Clear, DataFacts, BaseFacts, Top, Last
  <2>3. /\ base[i].h = Floor(i) + 2 + Arity[base[i].code] /\ Floor(i) \in Nat
        /\ Arity[base[i].code] \in Nat /\ base[i].h \in Nat /\ base[l].h \in Nat
        /\ i < l => base[i].h + 2 <= base[l].h
    BY <1>2, <2>2 DEF Clear, BaseFacts
  <2>4. i < l \/ i = l BY <2>2
  <2>5. PICK f, a, h, g : f = Floor(i) /\ a = Arity[base[i].code] /\ h = base[i].h /\ g = base[l].h
    OBVIOUS
  <2>6. f \in Nat /\ a \in Nat /\ h = f + 2 + a /\ g \in Nat /\ (h <= g \/ h + 2 <= g) /\ g <= m
    BY <2>2, <2>3, <2>4, <2>5
  <2>7. h - 1 \in 1..m BY ONLY <2>6, m \in Nat
  <2> QED BY <2>5, <2>7
<1>5. ASSUME NEW x \in Blocks
      PROVE  x <= Height' /\ stack'[x].pc.p = stack[x].pc.p /\ stack'[x - 1].hsp = stack[x - 1].hsp
  <2>1. x \in 2..Height /\ x <= m BY <1>2 DEF Clear, BlockFacts
  <2>2. Height \in Nat BY <1>2 DEF Clear, DataFacts
  <2>3. x \in 1..m /\ x - 1 \in 1..m BY <2>1, <2>2
  <2>4. x <= Height'
    <3>1. Height' \in Nat
      <4>1. DataOK' BY DEF MachineInv, Live
      <4> QED BY <4>1, DataNext DEF DataFacts
    <3> QED BY <2>2, <2>3, <3>1
  <2> QED BY <2>3, <2>4
<1>6. ASSUME NEW j \in 1..Len(nest) PROVE HookPc(j)' = HookPc(j)
  <2>1. CASE pc' = pc BY <2>1 DEF HookPc
  <2>2. CASE ~Native
    <3>1. Outer = Len(nest) /\ DOMAIN nest = 1..Len(nest) /\ Len(nest) \in Nat
      BY <1>3, <2>2, CutsKnown DEF Outer
    <3>2. nest[j].saved # None BY <1>3, <3>1 DEF NestOK
    <3> QED BY <3>2 DEF HookPc
  <2> QED BY <2>1, <2>2
<1>7. CallInv' BY <1>3, <1>4, SameEntries, GoesOn
<1>8. Sound' BY <1>7 DEF Sound, Live
<1> QED BY <1>4, <1>5, <1>6, <1>7, <1>8, Quiet

LEMMA QuietShuffle ==
  ASSUME Sound, MachineInv', FreshInv', status = "running", status' = "running", exn' = exn,
         halt' => nest' = <<>>, base' = base, nest' = nest, handlerSp' = handlerSp, pc' = pc,
         NEW n \in Nat, NEW d \in Nat, DataOnTop(n), stack' = Shuffled(n, d)
  PROVE  CallInv' /\ A!Next
<1>1. Clear
  <2>1. ~Doomed BY DEF Doomed
  <2> QED BY <2>1, ClearKnown
<1>2. PICK m : m = Height - n OBVIOUS
<1>3. m \in Nat /\ m <= Height /\ Top.h <= m /\ \A x \in Blocks : x <= m BY <1>1, <1>2, OverBlocks
<1>4. Height \in Nat /\ DataOK BY <1>1, SoundParts DEF Clear, DataFacts
<1>5. /\ Len(Shuffled(n, d)) = m + d /\ \A i \in 1..m : Shuffled(n, d)[i] = stack[i]
  <2>1. DataOK /\ m = Height - n /\ m \in 0..Height BY <1>2, <1>3, <1>4
  <2> QED BY ONLY <2>1, n \in Nat, d \in Nat, ShuffledKnown
<1>6. m <= Height' BY <1>3, <1>5 DEF Height
<1> QED BY <1>3, <1>5, <1>6, QuietWords

LEMMA QuietPush ==
  ASSUME Sound, MachineInv', FreshInv', status = "running", status' = "running", exn' = exn,
         halt' = halt, base' = base, nest' = nest, handlerSp' = handlerSp, pc' = pc \/ ~Native,
         stack' = stack \/ \E w \in Word : stack' = Append(stack, w)
  PROVE  CallInv' /\ A!Next
<1>1. Clear
  <2>1. ~Doomed BY DEF Doomed
  <2> QED BY <2>1, ClearKnown
<1>2. stack \in Seq(Word) /\ Height = Len(stack) /\ Height \in Nat
  BY <1>1, SoundParts DEF Clear, DataFacts, DataOK, Height
<1>3. PICK m : m = Height OBVIOUS
<1>4. m \in Nat /\ m <= Height BY <1>2, <1>3
<1>5. Top.h <= m
  <2>1. PICK l : l = Len(base) OBVIOUS
  <2>2. l \in 1..Len(base) /\ Top = base[l] BY <1>1, <2>1 DEF Clear, DataFacts, BaseFacts, Top, Last
  <2> QED BY <1>1, <1>3, <2>2 DEF Clear, BaseFacts
<1>6. \A x \in Blocks : x <= m BY <1>1, <1>3 DEF Clear, BlockFacts
<1>7. m <= Len(stack') /\ \A i \in 1..m : stack'[i] = stack[i]
  <2>1. CASE stack' = stack BY <1>2, <1>3, <2>1
  <2>2. CASE \E w \in Word : stack' = Append(stack, w)
    <3>1. PICK w \in Word : stack' = Append(stack, w) BY <2>2
    <3>2. /\ Append(stack, w) \in Seq(Word) /\ Len(Append(stack, w)) = Len(stack) + 1
          /\ \A i \in 1..Len(stack) : Append(stack, w)[i] = stack[i]
      BY <1>2, Appended
    <3> QED BY <1>2, <1>3, <3>1, <3>2
  <2> QED BY <2>1, <2>2
<1>8. halt' => nest' = <<>> BY SoundParts DEF HaltOK
<1>9. m <= Height' BY <1>7 DEF Height
<1> QED BY <1>4, <1>5, <1>6, <1>7, <1>8, <1>9, QuietWords

\* The instructions, calls of the runtime and native steps that stay in their
\* activation and leave its handlers alone.
LEMMA QuietStep ==
  ASSUME Nested = {}, Sound, MachineInv', FreshInv',
         \/ DataStep \/ Jump \/ PushReturnAddress \/ PushHandler \/ NativeStep
         \/ \E n \in 1..2 : /\ Stepping /\ DataOnTop(n) /\ (RtsReturns(n) \/ RtsFinishes(n))
                            /\ UNCHANGED pc
  PROVE  CallInv' /\ A!Next
<1>1. DataOK /\ NestOK /\ HaltOK /\ DataFacts /\ BaseFacts BY SoundParts
<1>2. halt => nest = <<>> BY <1>1 DEF HaltOK
<1>3. CASE DataStep
  <2>1. PICK n \in 0..2, d \in 0..1 : DataOnTop(n) /\ stack' = Shuffled(n, d) BY <1>3 DEF DataStep
  <2>2. status = "running" /\ pc' = pc /\ UNCHANGED control
    BY <1>3 DEF DataStep, Stepping, Interpreting
  <2>3. n \in Nat /\ d \in Nat OBVIOUS
  <2>4. /\ status' = "running" /\ exn' = exn /\ (halt' => nest' = <<>>)
        /\ base' = base /\ nest' = nest /\ handlerSp' = handlerSp
    BY <1>2, <2>2 DEF control
  <2> QED BY <2>1, <2>2, <2>3, <2>4, QuietShuffle
<1>4. CASE NativeStep
  <2>1. PICK n \in 0..2, d \in 0..1 : DataOnTop(n) /\ stack' = Shuffled(n, d) BY <1>4 DEF NativeStep
  <2>2. status = "running" /\ UNCHANGED <<Registers, nest, flight, status, base>>
    BY <1>4 DEF NativeStep, InRegion
  <2>3. n \in Nat /\ d \in Nat OBVIOUS
  <2>4. /\ status' = "running" /\ exn' = exn /\ (halt' => nest' = <<>>)
        /\ base' = base /\ nest' = nest /\ handlerSp' = handlerSp /\ pc' = pc
    BY <1>2, <2>2 DEF Registers
  <2> QED BY <2>1, <2>2, <2>3, <2>4, QuietShuffle
<1>5. CASE Jump \/ PushReturnAddress \/ PushHandler
  <2>1. Stepping /\ UNCHANGED control BY <1>5 DEF Jump, PushReturnAddress, PushHandler
  <2>2. status = "running" /\ ~Native BY <2>1 DEF Stepping, Interpreting
  <2>3. stack' = stack \/ \E w \in Word : stack' = Append(stack, w)
    <3>1. CASE Jump BY <3>1 DEF Jump
    <3>2. CASE PushReturnAddress
      <4>1. stack' = Append(stack, stack[Top.h - 1]) BY <3>2 DEF PushReturnAddress
      <4>2. /\ Top.h \in Nat /\ Top.h <= Height /\ Height \in Nat
            /\ Top.h = Floor(Len(base)) + 2 + Arity[Top.code]
            /\ Floor(Len(base)) \in Nat /\ Arity[Top.code] \in Nat
        BY SoundParts, TopKnown
      <4>3. Top.h - 1 \in 1..Height BY <4>2
      <4>4. stack[Top.h - 1] \in Word BY <1>1, <4>3 DEF DataFacts
      <4> QED BY <4>1, <4>4
    <3>3. CASE PushHandler
      <4>1. stack' = Append(stack, SavedHandler(handlerSp)) BY <3>3 DEF PushHandler
      <4>2. SavedHandler(handlerSp) \in Word BY <1>1, WordsKnown DEF DataOK
      <4> QED BY <4>1, <4>2
    <3> QED BY <1>5, <3>1, <3>2, <3>3
  <2>4. /\ status' = "running" /\ exn' = exn /\ halt' = halt
        /\ base' = base /\ nest' = nest /\ handlerSp' = handlerSp
    BY <2>1, <2>2 DEF control
  <2> QED BY <2>2, <2>3, <2>4, QuietPush
<1>6. CASE \E n \in 1..2 : /\ Stepping /\ DataOnTop(n) /\ (RtsReturns(n) \/ RtsFinishes(n))
                           /\ UNCHANGED pc
  <2>1. PICK n \in 1..2 : /\ Stepping /\ DataOnTop(n) /\ (RtsReturns(n) \/ RtsFinishes(n))
                          /\ UNCHANGED pc
    BY <1>6
  <2>2. status = "running" /\ ~Native BY <2>1 DEF Stepping, Interpreting
  <2>3. /\ stack' = Shuffled(n, 1) /\ status' = "running" /\ exn' = exn
        /\ handlerSp' = handlerSp /\ base' = base /\ nest' = nest /\ pc' = pc
    <3>1. CASE RtsReturns(n) BY <2>1, <2>2, <3>1 DEF RtsReturns, control
    <3>2. CASE RtsFinishes(n) BY <2>1, <2>2, <3>2 DEF RtsFinishes
    <3> QED BY <2>1, <3>1, <3>2
  <2>4. halt' => nest' = <<>>
    <3>1. CASE RtsReturns(n) BY <1>2, <3>1 DEF RtsReturns, control
    <3>2. CASE RtsFinishes(n)
      <4>1. ~InNestedRun BY <3>2 DEF RtsFinishes
      <4>2. Outer = Len(nest) /\ DOMAIN nest = 1..Len(nest) /\ Len(nest) \in Nat
        BY <1>1, <2>2, CutsKnown DEF Outer
      <4>3. \A j \in DOMAIN nest : nest[j].saved # None BY <1>1, <4>2 DEF NestOK
      <4>4. DOMAIN nest = {} BY <4>1, <4>3 DEF InNestedRun
      <4>5. Len(nest) = 0 BY <4>2, <4>4
      <4>6. nest = <<>>
        <5>1. nest \in Seq(NestedFrame) BY <1>1 DEF DataOK
        <5> QED BY <4>5, <5>1
      <4> QED BY <2>3, <4>6
    <3> QED BY <2>1, <3>1, <3>2
  <2>5. n \in Nat /\ 1 \in Nat /\ DataOnTop(n) BY <2>1
  <2> QED BY <2>2, <2>3, <2>4, <2>5, QuietShuffle
<1> QED BY <1>3, <1>4, <1>5, <1>6

\* A collection writes where the code is now; it keeps every place in it.
LEMMA QuietCollect ==
  ASSUME Nested = {}, Sound, MachineInv', FreshInv', status = "running", status' = "running",
         exn' = exn, halt' = halt, base' = base, nest' = nest, handlerSp' = handlerSp, MayCollect,
         NEW s \in Seq(Word), Collected(s),
         NEW m \in Nat, m <= Height, m <= Len(s), Top.h <= m, \A x \in Blocks : x <= m,
         \A i \in 1..m : s[i] = stack[i]
  PROVE  CallInv' /\ A!Next
<1>1. ~Doomed BY DEF Doomed
<1>2. Clear BY <1>1, ClearKnown
<1>3. NestOK /\ EntriesOK /\ DataOK /\ HaltOK BY SoundParts
<1>4. /\ Len(s) \in Nat /\ DOMAIN s = 1..Len(s) /\ gc \in Nat /\ pc \in Address
      /\ \A i \in 1..Len(s) : s[i] \in Word
  BY <1>3, Elements DEF DataOK
<1>5. stack' = [i \in 1..Len(s) |-> ForwardedWord(s[i])] BY <1>4 DEF Collected
<1>6. \A w \in Word : /\ ForwardedWord(w).pc.p = w.pc.p
                      /\ w.k = "hsp" => ForwardedWord(w).hsp = w.hsp
                      /\ ForwardedWord(w) = Zero <=> w = Zero
  <2> SUFFICES ASSUME NEW w \in Word
               PROVE  /\ ForwardedWord(w).pc.p = w.pc.p
                      /\ w.k = "hsp" => ForwardedWord(w).hsp = w.hsp
                      /\ ForwardedWord(w) = Zero <=> w = Zero
    OBVIOUS
  <2>1. (w.k # "pc" => ForwardedWord(w) = w) /\ (ForwardedWord(w) = Zero <=> w = Zero)
    BY <1>4, ForwardedWordKnown
  <2>2. w.k = "pc" => ForwardedWord(w).pc.p = w.pc.p
    <3> SUFFICES ASSUME w.k = "pc" PROVE ForwardedWord(w).pc.p = w.pc.p OBVIOUS
    <3>1. w.pc \in Address BY DEF Word, Data, Zero
    <3>2. Forwarded(w.pc).p = w.pc.p BY <3>1 DEF Forwarded, Address
    <3> QED BY <3>2 DEF ForwardedWord, CodeAddr
  <2> QED BY <2>1, <2>2
<1>7. ASSUME NEW i \in 1..m
      PROVE  stack[i] \in Word /\ stack'[i] = ForwardedWord(stack[i])
  <2>1. i \in 1..Len(s) BY <1>4
  <2> QED BY <1>4, <1>5, <2>1
<1>8. ASSUME NEW i \in 1..Len(base) PROVE base[i].h - 1 \in 1..m
  <2>1. PICK l : l = Len(base) OBVIOUS
  <2>2. l \in Nat /\ l \in 1..Len(base) /\ Top = base[l] /\ i \in 1..l
    BY <1>2, <2>1 DEF Clear, DataFacts, BaseFacts, Top, Last
  <2>3. /\ base[i].h = Floor(i) + 2 + Arity[base[i].code] /\ Floor(i) \in Nat
        /\ Arity[base[i].code] \in Nat /\ base[i].h \in Nat /\ base[l].h \in Nat
        /\ i < l => base[i].h + 2 <= base[l].h
    BY <1>2, <2>2 DEF Clear, BaseFacts
  <2>4. i < l \/ i = l BY <2>2
  <2>5. PICK f, a, h, g : f = Floor(i) /\ a = Arity[base[i].code] /\ h = base[i].h /\ g = base[l].h
    OBVIOUS
  <2>6. f \in Nat /\ a \in Nat /\ h = f + 2 + a /\ g \in Nat /\ (h <= g \/ h + 2 <= g) /\ g <= m
    BY <2>2, <2>3, <2>4, <2>5
  <2>7. h - 1 \in 1..m BY ONLY <2>6, m \in Nat
  <2> QED BY <2>5, <2>7
<1>9. ASSUME NEW x \in Blocks
      PROVE  x <= Height' /\ stack'[x].pc.p = stack[x].pc.p /\ stack'[x - 1].hsp = stack[x - 1].hsp
  <2>1. x \in 2..Height /\ x <= m /\ stack[x - 1].k = "hsp" BY <1>2 DEF Clear, BlockFacts
  <2>2. Height \in Nat BY <1>2 DEF Clear, DataFacts
  <2>3. x \in 1..m /\ x - 1 \in 1..m BY <2>1, <2>2
  <2>4. x <= Height'
    <3>1. Height' = Len(s) BY <1>4, <1>5 DEF Height
    <3> QED BY <1>4, <2>3, <3>1
  <2>5. stack'[x].pc.p = stack[x].pc.p BY <1>6, <1>7, <2>3
  <2>6. stack'[x - 1].hsp = stack[x - 1].hsp
    <3>1. stack[x - 1] \in Word /\ stack'[x - 1] = ForwardedWord(stack[x - 1]) BY <1>7, <2>3
    <3> QED BY <1>6, <2>1, <3>1
  <2> QED BY <2>4, <2>5, <2>6
<1>10. ASSUME NEW j \in 1..Len(nest) PROVE HookPc(j)' = HookPc(j)
  <2>1. ~InNestedRun BY DEF MayCollect
  <2>2. nest[j].saved = None
    <3>1. j \in DOMAIN nest BY <1>2 DEF Clear, DataFacts
    <3> QED BY <2>1, <3>1 DEF InNestedRun
  <2>3. pc'.p = pc.p BY DEF Collected
  <2> QED BY <2>2, <2>3 DEF HookPc
<1>11. ASSUME NEW i \in 1..Len(base)
       PROVE  /\ stack'[base[i].h - 1].pc.p = stack[base[i].h - 1].pc.p
              /\ stack'[base[i].h - 1] = Zero => stack[base[i].h - 1] = Zero
  <2>1. PICK w : w = stack[base[i].h - 1] OBVIOUS
  <2>2. w \in Word /\ stack'[base[i].h - 1] = ForwardedWord(w) BY <1>7, <1>8, <2>1
  <2> QED BY <1>6, <2>1, <2>2
<1>12. halt' => nest' = <<>> BY <1>3 DEF HaltOK
<1>13. CallInv' BY <1>3, <1>11, <1>12, SameEntries, GoesOn
<1>14. Sound' BY <1>13 DEF Sound, Live
<1> QED BY <1>9, <1>10, <1>11, <1>13, <1>14, Quiet

LEMMA CollectStep ==
  ASSUME Nested = {}, Sound, MachineInv', FreshInv',
         \/ TopOfStepCollect \/ RegionSafepoint
         \/ \E n \in 1..2 : Stepping /\ DataOnTop(n) /\ RtsCollects(n)
  PROVE  CallInv' /\ A!Next
<1>1. status = "running"
  BY DEF TopOfStepCollect, RegionSafepoint, Stepping, Interpreting, InRegion
<1>2. Clear
  <2>1. ~Doomed BY <1>1 DEF Doomed
  <2> QED BY <2>1, ClearKnown
<1>3. DataOK /\ Height \in Nat /\ Height = Len(stack) BY <1>2, SoundParts DEF Clear, DataFacts
<1>4. CASE TopOfStepCollect \/ RegionSafepoint
  <2>1. /\ Collected(stack) /\ MayCollect
        /\ status' = "running" /\ exn' = exn /\ halt' = halt /\ base' = base /\ nest' = nest
        /\ handlerSp' = handlerSp
    BY <1>1, <1>4 DEF TopOfStepCollect, RegionSafepoint
  <2>2. PICK m : m = Height OBVIOUS
  <2>3. stack \in Seq(Word) /\ m \in Nat /\ m <= Height /\ m <= Len(stack)
    BY <1>3, <2>2 DEF DataOK
  <2>4. Top.h <= m
    <3>1. PICK l : l = Len(base) OBVIOUS
    <3>2. l \in 1..Len(base) /\ Top = base[l] BY <1>2, <3>1 DEF Clear, DataFacts, BaseFacts, Top, Last
    <3> QED BY <1>2, <2>2, <3>2 DEF Clear, BaseFacts
  <2>5. \A x \in Blocks : x <= m BY <1>2, <2>2 DEF Clear, BlockFacts
  <2>6. \A i \in 1..m : stack[i] = stack[i] OBVIOUS
  <2> QED BY <1>1, <2>1, <2>3, <2>4, <2>5, <2>6, QuietCollect
<1>5. CASE \E n \in 1..2 : Stepping /\ DataOnTop(n) /\ RtsCollects(n)
  <2>1. PICK n \in 1..2 : Stepping /\ DataOnTop(n) /\ RtsCollects(n) BY <1>5
  <2>2. PICK s : s = Shuffled(n, 1) OBVIOUS
  <2>3. /\ Collected(s) /\ MayCollect
        /\ status' = "running" /\ exn' = exn /\ halt' = halt /\ base' = base /\ nest' = nest
        /\ handlerSp' = handlerSp
    BY <1>1, <2>1, <2>2 DEF RtsCollects
  <2>4. PICK m : m = Height - n OBVIOUS
  <2>5. n \in Nat /\ DataOnTop(n) BY <2>1
  <2>6. m \in Nat /\ m <= Height /\ Top.h <= m /\ \A x \in Blocks : x <= m
    BY <1>2, <2>4, <2>5, OverBlocks
  <2>7. /\ Shuffled(n, 1) \in Seq(Word) /\ Len(Shuffled(n, 1)) = m + 1
        /\ \A i \in 1..m : Shuffled(n, 1)[i] = stack[i]
    <3>1. DataOK /\ m = Height - n /\ m \in 0..Height /\ n \in Nat /\ 1 \in Nat
      BY <1>3, <2>4, <2>5, <2>6
    <3> QED BY ONLY <3>1, ShuffledKnown
  <2>8. s \in Seq(Word) /\ m <= Len(s) /\ \A i \in 1..m : s[i] = stack[i] BY <2>2, <2>6, <2>7
  <2> QED BY <1>1, <2>3, <2>6, <2>8, QuietCollect
<1> QED BY <1>4, <1>5

-----------------------------------------------------------------------------
(* Handlers set and deleted *)

\* The handlers of the blocks S above a height, on the words w.
Resumed(S, lo, w, x) == [pos |-> w[x].pc.p, temps |-> x - lo - 2 * Cardinality({g \in S : g <= x})]
HsOf(S, lo, w) == [n \in 1..Cardinality(S) |-> Resumed(S, lo, w, Nth(S, n))]

LEMMA HsIs ==
  ASSUME NEW i
  PROVE  /\ Hs(i) = HsOf(Own(i), base[i].h, stack)
         /\ Hs(i)' = HsOf(Own(i)', base'[i].h, stack')
         /\ \A x : Resumes(i, x) = Resumed(Own(i), base[i].h, stack, x)
         /\ \A x : Resumes(i, x)' = Resumed(Own(i)', base'[i].h, stack', x)
<1>1. Hs(i) = HsOf(Own(i), base[i].h, stack) BY Zenon DEF Hs, Resumes, Operands, HsOf, Resumed
<1>2. Hs(i)' = HsOf(Own(i)', base'[i].h, stack')
  BY Zenon DEF Hs, Resumes, Operands, HsOf, Resumed
<1>3. \A x : Resumes(i, x) = Resumed(Own(i), base[i].h, stack, x)
  BY Zenon DEF Resumes, Operands, Resumed
<1>4. \A x : Resumes(i, x)' = Resumed(Own(i)', base'[i].h, stack', x)
  BY Zenon DEF Resumes, Operands, Resumed
<1> QED BY <1>1, <1>2, <1>3, <1>4

HsGrows(S, x, T, lo, v, w) ==
  /\ HsOf(T, lo, w) = Append(HsOf(S, lo, v), Resumed(T, lo, w, x))
  /\ HsOf(S, lo, v) \in Seq(Handler) /\ Len(HsOf(S, lo, v)) = Cardinality(S)
  /\ Cardinality(T) = Cardinality(S) + 1 /\ Cardinality(S) \in Nat
  /\ Resumed(T, lo, w, x).temps = x - lo - 2 * Cardinality(T)
  /\ Resumed(T, lo, w, x).pos = w[x].pc.p

LEMMA HsGrown ==
  ASSUME NEW S, S \subseteq Nat, IsFiniteSet(S), NEW x \in Nat, \A y \in S : y < x,
         NEW T, T = S \cup {x}, NEW lo \in Nat, NEW v, NEW w,
         \A y \in S : w[y].pc.p = v[y].pc.p,
         \A y \in S : Resumed(S, lo, v, y) \in Handler, Resumed(T, lo, w, x) \in Handler
  PROVE  HsGrows(S, x, T, lo, v, w)
<1>1. PICK c : c = Cardinality(S) OBVIOUS
<1>2. /\ Cardinality(T) = c + 1 /\ Nth(T, c + 1) = x
      /\ \A n \in 1..c : Nth(T, n) = Nth(S, n)
  <2>1. S \subseteq Nat OBVIOUS
  <2>2. IsFiniteSet(S) OBVIOUS
  <2>3. x \in Nat OBVIOUS
  <2>4. \A y \in S : y < x OBVIOUS
  <2>5. T = S \cup {x} OBVIOUS
  <2>6. GrownBy(S, x, T) BY ONLY <2>1, <2>2, <2>3, <2>4, <2>5, NthGrown
  <2> QED BY <1>1, <2>6 DEF GrownBy
<1>3. c \in Nat BY <1>1, FS_CardinalityType
<1>4. \A n \in 1..c : Nth(S, n) \in S BY <1>1, NthIs
<1>5. ASSUME NEW y \in S PROVE Resumed(T, lo, w, y) = Resumed(S, lo, v, y)
  <2>1. {g \in T : g <= y} = {g \in S : g <= y}
    <3>1. ~ (x <= y)
      <4>1. y \in Nat /\ y < x OBVIOUS
      <4> QED BY <4>1
    <3> QED BY <3>1
  <2> QED BY <2>1 DEF Resumed
<1>6. PICK r, f, g : r = Resumed(T, lo, w, x) /\ f = HsOf(S, lo, v) /\ g = HsOf(T, lo, w) OBVIOUS
<1>7. f \in Seq(Handler) /\ Len(f) = c /\ \A n \in 1..c : f[n] = Resumed(S, lo, v, Nth(S, n))
  <2>1. f = [n \in 1..c |-> Resumed(S, lo, v, Nth(S, n))] BY <1>1, <1>6 DEF HsOf
  <2>2. \A n \in 1..c : Resumed(S, lo, v, Nth(S, n)) \in Handler BY <1>4
  <2> QED BY ONLY <1>3, <2>1, <2>2
<1>8. /\ g \in Seq(Handler) /\ Len(g) = c + 1
      /\ \A n \in 1..(c + 1) : g[n] = Resumed(T, lo, w, Nth(T, n))
  <2>1. PICK d : d = c + 1 OBVIOUS
  <2>2. g = [n \in 1..d |-> Resumed(T, lo, w, Nth(T, n))] BY <1>2, <1>6, <2>1 DEF HsOf
  <2>3. ASSUME NEW n \in 1..d PROVE Resumed(T, lo, w, Nth(T, n)) \in Handler
    <3>1. n = c + 1 \/ n \in 1..c BY <1>3, <2>1
    <3>2. CASE n = c + 1 BY <1>2, <3>2
    <3>3. CASE n \in 1..c BY <1>2, <1>4, <1>5, <3>3
    <3> QED BY <3>1, <3>2, <3>3
  <2>4. d \in Nat BY <1>3, <2>1
  <2>5. g \in Seq(Handler) /\ Len(g) = d /\ \A n \in 1..d : g[n] = Resumed(T, lo, w, Nth(T, n))
    BY ONLY <2>2, <2>3, <2>4
  <2> QED BY <2>1, <2>5
<1>9. r \in Handler BY <1>6
<1>10. PICK z : z = Append(f, r) OBVIOUS
<1>11. z \in Seq(Handler) /\ Len(z) = c + 1 /\ (\A n \in 1..c : z[n] = f[n]) /\ z[c + 1] = r
  BY ONLY <1>7, <1>9, <1>10, Appended
<1>12. \A n \in 1..(c + 1) : g[n] = z[n]
  <2> SUFFICES ASSUME NEW n \in 1..(c + 1) PROVE g[n] = z[n] OBVIOUS
  <2>1. n = c + 1 \/ n \in 1..c BY <1>3
  <2>2. CASE n = c + 1 BY <1>2, <1>6, <1>8, <1>11, <2>2
  <2>3. CASE n \in 1..c
    <3>1. PICK y : y = Nth(S, n) OBVIOUS
    <3>2. y \in S /\ Nth(T, n) = y BY <1>2, <1>4, <2>3, <3>1
    <3>3. g[n] = Resumed(T, lo, w, y) BY <1>8, <3>2
    <3>4. z[n] = Resumed(S, lo, v, y) BY <1>7, <1>11, <2>3, <3>1
    <3> QED BY <1>5, <3>2, <3>3, <3>4
  <2> QED BY <2>1, <2>2, <2>3
<1>13. g = z
  <2>1. \A n \in 1..Len(g) : g[n] = z[n] BY <1>8, <1>12
  <2>2. Len(g) = Len(z) BY <1>8, <1>11
  <2> QED BY ONLY <1>8, <1>11, <2>1, <2>2, SameSequence
<1>14. r.temps = x - lo - 2 * Cardinality(T) /\ r.pos = w[x].pc.p
  <2>1. \A y \in T : y <= x
    <3> SUFFICES ASSUME NEW y \in T PROVE y <= x OBVIOUS
    <3>1. y = x \/ (y \in S /\ y \in Nat /\ y < x) OBVIOUS
    <3> QED BY <3>1
  <2>2. {y \in T : y <= x} = T BY <2>1
  <2> QED BY <1>6, <2>2 DEF Resumed
<1> QED BY <1>1, <1>2, <1>3, <1>6, <1>7, <1>10, <1>13, <1>14 DEF HsGrows

\* The chains a and z that are seen before and after a step that leaves the
\* activations below the b-th alone.
Chains(a, z, b) ==
  /\ a = Activated /\ a \in Seq(Acts) /\ Len(a) = Len(base)
  /\ \A i \in 1..Len(base) : a[i] = Act(i)
  /\ z = Activated' /\ z \in Seq(Acts) /\ Len(z) = Len(base')
  /\ \A i \in 1..Len(base') : z[i] = Act(i)'
  /\ \A i \in 1..(b - 1) : z[i] = a[i]

LEMMA ChainsKnown ==
  ASSUME Clear, Clear', NEW b, NEW k, Stays(b, k)
  PROVE  \E a, z : Chains(a, z, b)
<1>1. PICK a, z : a = Activated /\ z = Activated' OBVIOUS
<1>2. /\ a \in Seq(Acts) /\ Len(a) = Len(base) /\ \A i \in 1..Len(base) : a[i] = Act(i)
      /\ z \in Seq(Acts) /\ Len(z) = Len(base') /\ \A i \in 1..Len(base') : z[i] = Act(i)'
  BY <1>1 DEF Clear, SeenFacts
<1>3. ASSUME NEW i \in 1..(b - 1) PROVE z[i] = a[i]
  <2>1. Act(i)' = Act(i) BY LowerKept
  <2>2. b \in 1..Len(base) /\ b <= Len(base') BY DEF Stays
  <2>3. Len(base) \in Nat /\ Len(base') \in Nat BY DEF Clear, DataFacts
  <2>4. i \in 1..Len(base) /\ i \in 1..Len(base') BY <2>2, <2>3
  <2> QED BY <1>2, <2>1, <2>4
<1> QED BY <1>1, <1>2, <1>3 DEF Chains

LEMMA SetHandlerStep ==
  ASSUME Sound, MachineInv', FreshInv', SetHandler
  PROVE  CallInv' /\ A!Next
<1>1. /\ status = "running" /\ status' = "running" /\ halt' = FALSE /\ exn' = exn /\ nest' = nest
      /\ base' = base /\ pc' = pc /\ handlerSp' = Height + 1 /\ Owns(1)
      /\ stack[Height] = SavedHandler(handlerSp)
  BY DEF SetHandler, Stepping, Interpreting, outer
<1>2. PICK q \in HandlerPlaces : stack' = Append(stack, CodeAddr([pc EXCEPT !.p = q]))
  BY DEF SetHandler
<1>3. Clear
  <2>1. ~Doomed BY <1>1 DEF Doomed
  <2> QED BY <2>1, ClearKnown
<1>4. DataOK /\ NestOK /\ EntriesOK /\ BlockFacts /\ DataOK' /\ NestOK'
  BY <1>1, <1>3, SoundParts DEF Clear, MachineInv, Live
<1>5. PICK w : w = CodeAddr([pc EXCEPT !.p = q]) OBVIOUS
<1>6. PICK t, h, m : t = Height /\ h = t + 1 /\ m = t - 1 OBVIOUS
<1>7. t \in Nat /\ t = Len(stack) /\ stack \in Seq(Word) BY <1>3, <1>4, <1>6 DEF Clear, DataFacts, DataOK
<1>8. w \in Word
  <2>1. pc \in Address /\ q \in Places BY <1>4, MachineConstants DEF DataOK
  <2> QED BY <1>5, <2>1 DEF Word, CodeAddr, Address
<1>9. /\ Len(stack') = h /\ (\A i \in 1..t : stack'[i] = stack[i])
  BY <1>2, <1>5, <1>6, <1>7, <1>8, Appended
<1>10. PICK l : l = Len(base) OBVIOUS
<1>11. l \in Nat /\ l \in 1..Len(base) /\ Top = base[l] /\ Top.h \in Nat
  BY <1>3, <1>10 DEF Clear, DataFacts, BaseFacts, Top, Last
<1>12. m \in Nat /\ Top.h <= m /\ m <= Height /\ h \in Nat /\ h > 0 /\ t \in 1..t
  <2>1. t - Top.h >= 1 BY <1>1, <1>6 DEF Owns
  <2> QED BY <1>6, <1>7, <1>11, <2>1
<1>13. \A x \in Blocks : x \in Nat /\ x >= 2 /\ x <= m
  <2> SUFFICES ASSUME NEW x \in Blocks PROVE x \in Nat /\ x >= 2 /\ x <= m OBVIOUS
  <2>1. x \in 2..t /\ stack[x].k = "pc" BY <1>4, <1>6 DEF BlockFacts
  <2>2. stack[t].k = "hsp" BY <1>1, <1>6 DEF SavedHandler
  <2>3. x # t BY <2>1, <2>2
  <2> QED BY <1>6, <1>7, <2>1, <2>3
<1>14. /\ Ceiling(l) = Height /\ Own(l) = {x \in Blocks : base[l].h < x}
       /\ Temps(l) \in Int /\ Temps(l) >= Height - m
       /\ Temps(l) = Height - base[l].h - 2 * Cardinality(Own(l))
  <2>1. \A x \in Blocks : x <= m BY <1>13
  <2> QED BY <1>3, <1>10, <1>12, <2>1, TopKept
<1>15. handlerSp < h
  <2>1. handlerSp \in Blocks \cup {0} BY <1>4 DEF BlockFacts
  <2> QED BY <1>6, <1>7, <1>13, <2>1
<1>16. \A i \in 1..l : base[i].h - 1 \in 1..t
  <2> SUFFICES ASSUME NEW i \in 1..l PROVE base[i].h - 1 \in 1..t OBVIOUS
  <2>1. /\ Floor(i) \in Nat /\ Arity[base[i].code] \in Nat /\ base[i].h = Floor(i) + 2 + Arity[base[i].code]
        /\ base[i].h <= Height
    BY <1>3, <1>10, <1>11 DEF Clear, BaseFacts
  <2>2. PICK f, n, g : f = Floor(i) /\ n = Arity[base[i].code] /\ g = base[i].h OBVIOUS
  <2>3. f \in Nat /\ n \in Nat /\ g = f + 2 + n /\ g <= t BY <1>6, <2>1, <2>2
  <2>4. g - 1 \in 1..t BY ONLY <1>7, <2>3
  <2> QED BY <2>2, <2>4
<1>17. CallInv'
  <2>1. \A i \in 1..Len(base) : stack'[base[i].h - 1] = Zero => stack[base[i].h - 1] = Zero
    BY <1>9, <1>10, <1>16
  <2>2. EntriesOK' BY <1>1, <1>4, <2>1, SameEntries
  <2> QED BY <1>1, <2>2, GoesOn
<1>18. Clear'
  <2>1. Sound' /\ ~Doomed' BY <1>1, <1>17 DEF Sound, Live, Doomed
  <2> QED BY <2>1, ClearNext
<1>19. Blocks' = Blocks \cup {h}
  <2>1. \A x \in Blocks : stack'[x - 1].hsp = stack[x - 1].hsp
    <3> SUFFICES ASSUME NEW x \in Blocks PROVE stack'[x - 1].hsp = stack[x - 1].hsp OBVIOUS
    <3>1. x - 1 \in 1..t BY <1>6, <1>7, <1>13
    <3> QED BY <1>9, <3>1
  <2>2. stack'[h - 1].hsp = handlerSp
    <3>1. h - 1 = t /\ t \in 1..t BY <1>6, <1>7, <1>12
    <3>2. stack'[t] = SavedHandler(handlerSp) BY <1>1, <1>6, <1>9, <3>1
    <3> QED BY <3>1, <3>2 DEF SavedHandler
  <2>3. Saves' = Saves BY <1>1 DEF Saves, Outer, Native
  <2>4. h \in Nat /\ h > 0 /\ handlerSp' = h BY <1>1, <1>6, <1>12
  <2> QED BY <1>4, <1>15, <2>1, <2>2, <2>3, <2>4, BlocksGrow
<1>20. Floor(l) \in Nat /\ Floor(l) < h /\ base[l].h < h
  <2>1. Floor(l) \in Nat /\ Arity[base[l].code] \in Nat /\ base[l].h = Floor(l) + 2 + Arity[base[l].code]
    BY <1>3, <1>11 DEF Clear, BaseFacts
  <2>2. base[l].h \in Nat /\ base[l].h < h BY <1>6, <1>7, <1>11, <1>12
  <2> QED BY <1>12, <2>1, <2>2
<1>21. Stays(l, Len(nest))
  <2>1. Floor(l)' = Floor(l) BY <1>1 DEF Floor
  <2>2. \A i \in 2..l : stack'[base'[i].h - 1].pc.p = stack[base[i].h - 1].pc.p
    BY <1>1, <1>9, <1>16
  <2>3. \A x \in Blocks : x \in Blocks' /\ stack'[x].pc.p = stack[x].pc.p
    <3> SUFFICES ASSUME NEW x \in Blocks PROVE x \in Blocks' /\ stack'[x].pc.p = stack[x].pc.p OBVIOUS
    <3>1. x \in 1..t BY <1>6, <1>7, <1>13
    <3> QED BY <1>9, <1>19, <3>1
  <2>4. \A x \in Blocks' : x <= Floor(l) => x \in Blocks
    <3>1. ~ (h <= Floor(l)) BY <1>12, <1>20
    <3> QED BY <1>19, <3>1
  <2>5. \A j \in 1..Len(nest) : HookPc(j)' = HookPc(j) BY <1>1 DEF HookPc
  <2>6. Len(nest) \in Nat BY <1>3 DEF Clear, DataFacts
  <2>7. l <= Len(base') BY <1>1, <1>10, <1>11
  <2> QED BY <1>1, <1>11, <2>1, <2>2, <2>3, <2>4, <2>5, <2>6, <2>7 DEF Stays
<1>22. PICK a, z : Chains(a, z, l) BY <1>3, <1>18, <1>21, ChainsKnown
<1>23. Own(l)' = Own(l) \cup {h} /\ Ceiling(l)' = h
  <2>1. Ceiling(l)' = Height' BY <1>1, <1>10, <1>11, <1>18 DEF Clear, CeilingFacts
  <2>2. Height' = h BY <1>9 DEF Height
  <2>3. \A x \in Blocks : x <= h BY <1>6, <1>7, <1>13
  <2>4. Own(l)' = {x \in Blocks \cup {h} : base[l].h < x /\ x <= h}
    BY <1>1, <1>19, <2>1, <2>2 DEF Own, BlocksIn
  <2> QED BY <1>12, <1>14, <1>20, <2>1, <2>2, <2>3, <2>4
<1>24. PICK S, T, lo, c : S = Own(l) /\ T = Own(l)' /\ lo = base[l].h /\ c = Cardinality(S) OBVIOUS
<1>25. /\ S \subseteq Nat /\ IsFiniteSet(S) /\ (\A y \in S : y < h) /\ T = S \cup {h} /\ lo \in Nat
       /\ \A y \in S : y \in Blocks /\ y \in 1..t
  <2>1. S \subseteq Nat /\ IsFiniteSet(S) /\ S \subseteq Blocks
    BY <1>3, <1>11, <1>24 DEF Clear, OwnFacts
  <2>2. \A y \in S : y < h /\ y \in 1..t BY <1>6, <1>7, <1>13, <2>1
  <2> QED BY <1>11, <1>23, <1>24, <2>1, <2>2
<1>26. /\ Hs(l) = HsOf(S, lo, stack) /\ Hs(l)' = HsOf(T, lo, stack')
       /\ (\A x : Resumes(l, x) = Resumed(S, lo, stack, x))
       /\ \A x : Resumes(l, x)' = Resumed(T, lo, stack', x)
  <2>1. base'[l].h = lo BY <1>1, <1>24
  <2> QED BY <1>24, <2>1, HsIs
<1>27. PICK r : r = Resumed(T, lo, stack', h) OBVIOUS
<1>28. /\ Hs(l)' = Append(Hs(l), r) /\ Hs(l) \in Seq(Handler)
       /\ Cardinality(T) = c + 1 /\ c \in Nat /\ r.temps = h - lo - 2 * (c + 1) /\ r \in Handler
  <2>1. \A y \in S : stack'[y].pc.p = stack[y].pc.p BY <1>9, <1>25
  <2>2. \A y \in S : Resumed(S, lo, stack, y) \in Handler
    <3>1. \A y \in Own(l) : Resumes(l, y) \in Handler BY <1>3, <1>11 DEF Clear, ActFacts
    <3> QED BY <1>24, <1>26, <3>1
  <2>3. Resumed(T, lo, stack', h) \in Handler
    <3>1. l \in 1..Len(base') BY <1>1, <1>10, <1>11
    <3>2. \A y \in Own(l)' : Resumes(l, y)' \in Handler BY <1>18, <3>1 DEF Clear, ActFacts
    <3>3. h \in Own(l)' BY <1>23
    <3> QED BY <1>26, <3>2, <3>3
  <2>4. h \in Nat BY <1>12
  <2>5. PICK v, u : v = stack /\ u = stack' OBVIOUS
  <2>6. \A y \in S : u[y].pc.p = v[y].pc.p BY <2>1, <2>5
  <2>7. (\A y \in S : Resumed(S, lo, v, y) \in Handler) /\ Resumed(T, lo, u, h) \in Handler
    BY <2>2, <2>3, <2>5
  <2>8. HsGrows(S, h, T, lo, v, u) BY ONLY <1>25, <2>4, <2>6, <2>7, HsGrown
  <2> QED BY <1>24, <1>26, <1>27, <2>3, <2>5, <2>8 DEF HsGrows
<1>29. r.temps = Temps(l) - 1 /\ Temps(l)' = Temps(l) - 1 /\ Temps(l) > 0
  <2>1. Temps(l) = t - lo - 2 * c BY <1>6, <1>14, <1>24
  <2>2. Temps(l)' = Ceiling(l)' - base'[l].h - 2 * Cardinality(Own(l)')
    <3>1. l \in 1..Len(base') BY <1>1, <1>10, <1>11
    <3> QED BY <1>18, <3>1 DEF Clear, ActFacts
  <2>3. Temps(l)' = h - lo - 2 * (c + 1) BY <1>1, <1>23, <1>24, <1>28, <2>2
  <2>4. PICK e : e = Temps(l) OBVIOUS
  <2>5. e = t - lo - 2 * c /\ e >= t - m /\ lo \in Nat /\ c \in Nat
    BY <1>6, <1>14, <1>25, <1>28, <2>1, <2>4
  <2>6. h - lo - 2 * (c + 1) = e - 1 /\ e > 0 BY ONLY <1>6, <1>7, <2>5
  <2> QED BY <1>28, <2>3, <2>4, <2>6
<1>30. PICK e : e = Temps(l) OBVIOUS
<1>31. r = [pos |-> r.pos, temps |-> e - 1] BY <1>28, <1>29, <1>30 DEF Handler
<1>32. A!SetsHandler(a, z)
  <2>1. /\ a \in Seq(Acts) /\ z \in Seq(Acts) /\ Len(a) = l /\ Len(z) = l /\ a[l] = Act(l) /\ z[l] = Act(l)'
        /\ \A i \in 1..(l - 1) : z[i] = a[i]
    BY <1>1, <1>10, <1>11, <1>22 DEF Chains
  <2>2. Agree(Acts, a, z, l) /\ Len(z) = l BY <1>11, <2>1 DEF Agree
  <2>3. a[l].temps = e /\ a[l].hs = Hs(l) BY <1>30, <2>1 DEF Act
  <2>4. a[l].temps > 0 /\ a[l].hs \in Seq(Handler) /\ r \in Handler
    BY <1>28, <1>29, <1>30, <2>3
  <2>5. r = [pos |-> r.pos, temps |-> a[l].temps - 1] BY <1>31, <2>3
  <2>6. z[l] = A!Goes(a[l], z[l].pos, a[l].temps - 1, Append(a[l].hs, r))
    <3>1. Act(l)' = [code |-> base'[l].code, pos |-> Pos(l)', temps |-> Temps(l)', hs |-> Hs(l)']
      BY DEF Act
    <3>2. z[l] = [code |-> base[l].code, pos |-> z[l].pos, temps |-> e - 1, hs |-> Append(Hs(l), r)]
      BY <1>1, <1>28, <1>29, <1>30, <2>1, <3>1
    <3>3. a[l].code = base[l].code BY <2>1 DEF Act
    <3> QED BY <2>3, <3>2, <3>3 DEF A!Goes
  <2> QED BY ONLY <2>2, <2>4, <2>5, <2>6, IsSettingHandler
<1>33. A!SetsHandler(Activated, Activated') BY <1>22, <1>32 DEF Chains
<1> QED BY <1>1, <1>17, <1>33, IsRun

\* Where the words are that the activations were called with.
LEMMA HeightsKnown ==
  ASSUME Clear, NEW l, l = Len(base)
  PROVE  /\ l \in Nat /\ l \in 1..Len(base) /\ Top = base[l] /\ Top.h \in Nat /\ Top.h <= Height
         /\ Height \in Nat /\ Height = Len(stack)
         /\ \A i \in 1..l : /\ base[i].h - 1 \in 1..Top.h /\ base[i].h \in Nat /\ base[i].h <= Top.h
                            /\ Floor(i) \in Nat /\ Floor(i) + 2 <= base[i].h
<1>1. /\ l \in Nat /\ l \in 1..Len(base) /\ Top = base[l] /\ Height \in Nat /\ Height = Len(stack)
  BY DEF Clear, DataFacts, BaseFacts, Top, Last
<1>2. Top.h \in Nat /\ Top.h <= Height BY <1>1 DEF Clear, BaseFacts
<1>3. ASSUME NEW i \in 1..l
      PROVE  /\ base[i].h - 1 \in 1..Top.h /\ base[i].h \in Nat /\ base[i].h <= Top.h
             /\ Floor(i) \in Nat /\ Floor(i) + 2 <= base[i].h
  <2>1. /\ Floor(i) \in Nat /\ Arity[base[i].code] \in Nat
        /\ base[i].h = Floor(i) + 2 + Arity[base[i].code]
        /\ i < l => base[i].h + 2 <= base[l].h
    BY <1>1 DEF Clear, BaseFacts
  <2>2. i < l \/ i = l BY <1>1
  <2>3. PICK f, n, g, u : f = Floor(i) /\ n = Arity[base[i].code] /\ g = base[i].h /\ u = Top.h OBVIOUS
  <2>4. f \in Nat /\ n \in Nat /\ g = f + 2 + n /\ u \in Nat /\ (g + 2 <= u \/ g = u)
    BY <1>1, <1>2, <2>1, <2>2, <2>3
  <2>5. g - 1 \in 1..u /\ g \in Nat /\ g <= u /\ f + 2 <= g BY ONLY <2>4
  <2> QED BY <2>1, <2>3, <2>5
<1> QED BY <1>1, <1>2, <1>3

LEMMA AppendedParts ==
  ASSUME NEW S, NEW s \in Seq(S), NEW e \in S, NEW u, u = Append(s, e)
  PROVE  A!Last(u) = e /\ A!Front(u) = s /\ u # <<>>
<1>1. u \in Seq(S) /\ Len(u) = Len(s) + 1 /\ (\A i \in 1..Len(s) : u[i] = s[i]) /\ u[Len(s) + 1] = e
  BY Appended
<1>2. Len(s) \in Nat /\ Len(u) > 0 BY <1>1
<1>3. /\ Front(u) \in Seq(S) /\ Len(Front(u)) = Len(s) /\ \A i \in 1..Len(s) : Front(u)[i] = s[i]
  <2>1. /\ Front(u) \in Seq(S) /\ Len(Front(u)) = Len(u) - 1
        /\ \A i \in 1..(Len(u) - 1) : Front(u)[i] = u[i]
    BY <1>1, <1>2, Shortened
  <2>2. Len(u) - 1 = Len(s) BY <1>1, <1>2
  <2> QED BY <1>1, <2>1, <2>2
<1>4. Front(u) = s BY <1>3, SameSequence
<1>5. A!Last(u) = e BY <1>1 DEF A!Last
<1>6. A!Front(u) = Front(u) BY DEF A!Front, Front
<1>7. u # <<>> BY <1>1, <1>2
<1> QED BY <1>4, <1>5, <1>6, <1>7

LEMMA DeleteHandlerStep ==
  ASSUME Sound, MachineInv', FreshInv', DeleteHandler
  PROVE  CallInv' /\ A!Next
<1>1. /\ status = "running" /\ status' = "running" /\ halt' = FALSE /\ exn' = exn /\ nest' = nest
      /\ base' = base /\ pc' = pc /\ handlerSp' = stack[handlerSp - 1].hsp
      /\ handlerSp > Top.h /\ Height > handlerSp
      /\ stack' = Append(SubSeq(stack, 1, handlerSp - 2), Data)
  BY DEF DeleteHandler, Stepping, Interpreting, outer
<1>2. Clear
  <2>1. ~Doomed BY <1>1 DEF Doomed
  <2> QED BY <2>1, ClearKnown
<1>3. DataOK /\ NestOK /\ EntriesOK /\ BlockFacts /\ OwnFacts /\ DataOK' /\ NestOK'
  BY <1>1, <1>2, SoundParts DEF Clear, MachineInv, Live
<1>4. PICK l : l = Len(base) OBVIOUS
<1>5. /\ l \in Nat /\ l \in 1..Len(base) /\ Top = base[l] /\ Top.h \in Nat /\ Top.h <= Height
      /\ Height \in Nat /\ Height = Len(stack)
      /\ \A i \in 1..l : /\ base[i].h - 1 \in 1..Top.h /\ base[i].h \in Nat /\ base[i].h <= Top.h
                         /\ Floor(i) \in Nat /\ Floor(i) + 2 <= base[i].h
  BY <1>2, <1>4, HeightsKnown
<1>6. PICK t, h, m, lo : t = Height /\ h = handlerSp /\ m = h - 2 /\ lo = Top.h OBVIOUS
<1>7. h \in Nat /\ h > lo /\ h < t /\ t \in Nat /\ lo \in Nat /\ h # 0
  <2>1. h \in Nat /\ h > lo /\ t > h /\ t \in Nat /\ lo \in Nat BY <1>1, <1>3, <1>5, <1>6 DEF DataOK
  <2> QED BY ONLY <2>1
<1>8. h \in Blocks /\ stack[h - 1].k = "hsp" /\ \A x \in Blocks : x <= h
  <2>1. h \in Blocks /\ \A x \in Blocks : x <= h BY <1>3, <1>6, <1>7 DEF BlockFacts
  <2> QED BY <1>3, <2>1 DEF BlockFacts
<1>9. h \in Own(l) /\ lo + 2 <= h
  <2>1. PICK o \in 1..Len(base) : h \in Own(o) BY <1>3, <1>8 DEF OwnFacts
  <2>2. base[o].h + 2 <= h /\ h <= Ceiling(o) BY <1>3, <2>1 DEF OwnFacts
  <2>3. o = l
    <3> SUFFICES ASSUME o # l PROVE FALSE OBVIOUS
    <3>1. o < l BY <1>4, <1>5, <2>1
    <3>2. Ceiling(o) \in Nat /\ Ceiling(o) + 2 <= base[l].h BY <1>2, <1>5, <2>1, <3>1 DEF Clear, CeilingFacts
    <3> QED BY SMTT(40), <1>5, <1>6, <1>7, <2>2, <3>2
  <2> QED BY <1>5, <1>6, <2>1, <2>2, <2>3
<1>10. m \in Nat /\ lo <= m /\ m \in 0..t /\ h - 1 = m + 1 BY <1>6, <1>7, <1>9
<1>11. \A x \in Blocks : x < h => x \in 2..m
  <2> SUFFICES ASSUME NEW x \in Blocks, x < h PROVE x \in 2..m OBVIOUS
  <2>1. x \in 2..t /\ stack[x].k = "pc" BY <1>3, <1>6 DEF BlockFacts
  <2>2. x # h - 1 BY <1>8, <2>1
  <2> QED BY <1>6, <1>7, <2>1, <2>2
<1>12. Len(stack') = m + 1 /\ \A i \in 1..m : stack'[i] = stack[i]
  <2>1. stack \in Seq(Word) /\ Data \in Word /\ m \in 0..Len(stack) BY <1>3, <1>5, <1>6, <1>10 DEF DataOK, Word
  <2>2. PICK s : s = SubSeq(stack, 1, m) OBVIOUS
  <2>3. s \in Seq(Word) /\ Len(s) = m /\ \A i \in 1..m : s[i] = stack[i] BY <2>1, <2>2, Prefix
  <2>4. Len(Append(s, Data)) = Len(s) + 1 /\ \A i \in 1..Len(s) : Append(s, Data)[i] = s[i]
    BY <2>1, <2>3, Appended
  <2> QED BY <1>1, <1>6, <2>2, <2>3, <2>4
<1>13. \A i \in 1..l : base[i].h - 1 \in 1..m
  <2> SUFFICES ASSUME NEW i \in 1..l PROVE base[i].h - 1 \in 1..m OBVIOUS
  <2>1. base[i].h - 1 \in 1..lo BY <1>5, <1>6
  <2> QED BY <1>7, <1>10, <2>1
<1>14. CallInv'
  <2>1. \A i \in 1..Len(base) : stack'[base[i].h - 1] = Zero => stack[base[i].h - 1] = Zero
    BY <1>4, <1>12, <1>13
  <2>2. EntriesOK' BY <1>1, <1>3, <2>1, SameEntries
  <2> QED BY <1>1, <2>2, GoesOn
<1>15. Clear'
  <2>1. Sound' /\ ~Doomed' BY <1>1, <1>14 DEF Sound, Live, Doomed
  <2> QED BY <2>1, ClearNext
<1>16. Blocks' = Blocks \ {h}
  <2>1. \A x \in Blocks : x < handlerSp => stack'[x - 1].hsp = stack[x - 1].hsp
    <3> SUFFICES ASSUME NEW x \in Blocks, x < handlerSp PROVE stack'[x - 1].hsp = stack[x - 1].hsp
      OBVIOUS
    <3>1. x \in 2..m BY <1>6, <1>11
    <3>2. x - 1 \in 1..m BY <1>10, <3>1
    <3> QED BY <1>12, <3>2
  <2>2. Saves' = Saves BY <1>1 DEF Saves, Outer, Native
  <2>3. handlerSp # 0 BY <1>6, <1>7
  <2> QED BY <1>1, <1>3, <1>6, <2>1, <2>2, <2>3, BlocksShrink
<1>17. Stays(l, Len(nest))
  <2>1. Floor(l)' = Floor(l) BY <1>1 DEF Floor
  <2>2. \A i \in 2..l : stack'[base'[i].h - 1].pc.p = stack[base[i].h - 1].pc.p
    <3> SUFFICES ASSUME NEW i \in 2..l
                 PROVE  stack'[base'[i].h - 1].pc.p = stack[base[i].h - 1].pc.p
      OBVIOUS
    <3>1. i \in 1..l BY <1>5
    <3>2. PICK g : g = base[i].h - 1 OBVIOUS
    <3>3. g \in 1..m BY <1>13, <3>1, <3>2
    <3>4. stack'[g] = stack[g] BY <1>12, <3>3
    <3>5. base'[i].h - 1 = g BY <1>1, <3>2
    <3> QED BY <3>2, <3>4, <3>5
  <2>3. \A x \in Blocks : x <= Floor(l) => x \in Blocks' /\ stack'[x].pc.p = stack[x].pc.p
    <3> SUFFICES ASSUME NEW x \in Blocks, x <= Floor(l)
                 PROVE  x \in Blocks' /\ stack'[x].pc.p = stack[x].pc.p
      OBVIOUS
    <3>1. Floor(l) \in Nat /\ Floor(l) + 2 <= lo BY <1>4, <1>5, <1>6
    <3>2. x \in Nat BY <1>3 DEF BlockFacts
    <3>3. x < h BY <1>7, <3>1, <3>2
    <3>4. x \in 2..m BY <1>11, <3>3
    <3>5. x \in 1..m BY <1>10, <3>4
    <3>6. x \in Blocks' BY <1>7, <1>16, <3>2, <3>3
    <3> QED BY <1>12, <3>5, <3>6
  <2>4. \A x \in Blocks' : x <= Floor(l) => x \in Blocks BY <1>16
  <2>5. \A j \in 1..Len(nest) : HookPc(j)' = HookPc(j) BY <1>1 DEF HookPc
  <2>6. Len(nest) \in Nat BY <1>2 DEF Clear, DataFacts
  <2>7. l <= Len(base') BY <1>1, <1>4, <1>5
  <2>8. /\ \A j \in 1..Len(nest) : Len(nest) < j => base[l].h < nest[j].top + 2
        /\ Len(nest) <= Len(nest) /\ Len(nest) <= Len(nest')
    BY <1>1, <2>6
  <2> QED BY <1>1, <1>5, <2>1, <2>2, <2>3, <2>4, <2>5, <2>6, <2>7, <2>8, Zenon DEF Stays
<1>18. PICK a, z : Chains(a, z, l) BY <1>2, <1>15, <1>17, ChainsKnown
<1>19. l \in 1..Len(base') BY <1>1, <1>4, <1>5
<1>20. Ceiling(l) = t /\ Ceiling(l)' = m + 1
  <2>1. Ceiling(l) = Height BY <1>2, <1>4, <1>5 DEF Clear, CeilingFacts
  <2>2. Ceiling(l)' = Height' BY <1>1, <1>4, <1>15, <1>19 DEF Clear, CeilingFacts
  <2> QED BY <1>6, <1>12, <2>1, <2>2 DEF Height
<1>21. PICK S, T, c : S = Own(l)' /\ T = Own(l) /\ c = Cardinality(S) OBVIOUS
<1>22. S \subseteq Nat /\ IsFiniteSet(S) /\ (\A y \in S : y < h /\ y \in 1..m) /\ T = S \cup {h}
  <2>1. OwnFacts' BY <1>15 DEF Clear
  <2>2. S \subseteq Nat /\ IsFiniteSet(S) BY <1>19, <1>21, <2>1 DEF OwnFacts
  <2>3. T = {x \in Blocks : lo < x /\ x <= t} BY <1>5, <1>6, <1>20, <1>21 DEF Own, BlocksIn
  <2>4. S = {x \in Blocks \ {h} : lo < x /\ x <= m + 1}
    BY <1>1, <1>5, <1>6, <1>16, <1>20, <1>21 DEF Own, BlocksIn
  <2>5. \A x \in Blocks : x \in Nat BY <1>3 DEF BlockFacts
  <2>6. \A x \in Blocks \ {h} : x < h /\ x \in 1..m /\ x <= t /\ x <= m + 1
    <3> SUFFICES ASSUME NEW x \in Blocks \ {h} PROVE x < h /\ x \in 1..m /\ x <= t /\ x <= m + 1 OBVIOUS
    <3>1. x \in Nat /\ x <= h /\ x # h BY <1>8, <2>5
    <3>2. x < h BY <1>7, <3>1
    <3>3. x \in 2..m BY <1>11, <3>2
    <3> QED BY <1>7, <1>10, <3>2, <3>3
  <2>7. h \in T BY <1>9, <1>21
  <2> QED BY <2>2, <2>3, <2>4, <2>6, <2>7
<1>23. /\ Hs(l) = HsOf(T, lo, stack) /\ Hs(l)' = HsOf(S, lo, stack')
       /\ (\A x : Resumes(l, x) = Resumed(T, lo, stack, x))
       /\ \A x : Resumes(l, x)' = Resumed(S, lo, stack', x)
  <2>1. base'[l].h = lo /\ base[l].h = lo BY <1>1, <1>5, <1>6
  <2> QED BY <1>21, <2>1, HsIs
<1>24. PICK r : r = Resumed(T, lo, stack, h) OBVIOUS
<1>25. /\ Hs(l) = Append(Hs(l)', r) /\ Hs(l)' \in Seq(Handler)
       /\ Cardinality(T) = c + 1 /\ c \in Nat /\ r.temps = h - lo - 2 * (c + 1) /\ r \in Handler
  <2>1. PICK v, u : v = stack' /\ u = stack OBVIOUS
  <2>2. \A y \in S : u[y].pc.p = v[y].pc.p BY <1>12, <1>22, <2>1
  <2>3. \A y \in S : Resumed(S, lo, v, y) \in Handler
    <3>1. \A y \in Own(l)' : Resumes(l, y)' \in Handler BY <1>15, <1>19 DEF Clear, ActFacts
    <3> QED BY <1>21, <1>23, <2>1, <3>1
  <2>4. Resumed(T, lo, u, h) \in Handler
    <3>1. \A y \in Own(l) : Resumes(l, y) \in Handler BY <1>2, <1>5 DEF Clear, ActFacts
    <3> QED BY <1>9, <1>23, <2>1, <3>1
  <2>5. h \in Nat /\ lo \in Nat BY <1>7
  <2>6. S \subseteq Nat /\ IsFiniteSet(S) /\ (\A y \in S : y < h) /\ T = S \cup {h} BY <1>22
  <2>7. HsGrows(S, h, T, lo, v, u) BY ONLY <2>2, <2>3, <2>4, <2>5, <2>6, HsGrown
  <2> QED BY <1>21, <1>23, <1>24, <2>1, <2>4, <2>7 DEF HsGrows
<1>26. PICK e, s : e = Temps(l) /\ s = Hs(l)' OBVIOUS
<1>27. e > r.temps /\ Temps(l)' = r.temps + 1
  <2>1. Temps(l) = Ceiling(l) - base[l].h - 2 * Cardinality(Own(l))
    BY <1>2, <1>5 DEF Clear, ActFacts
  <2>2. Temps(l)' = Ceiling(l)' - base'[l].h - 2 * Cardinality(Own(l)')
    BY <1>15, <1>19 DEF Clear, ActFacts
  <2>3. e = t - lo - 2 * (c + 1) BY <1>5, <1>6, <1>20, <1>21, <1>25, <1>26, <2>1
  <2>4. Temps(l)' = m + 1 - lo - 2 * c
    <3>1. PICK x, y, g : x = Ceiling(l)' /\ y = base'[l].h /\ g = Cardinality(Own(l)') OBVIOUS
    <3>2. Temps(l)' = x - y - 2 * g BY <2>2, <3>1
    <3>3. x = m + 1 BY <1>20, <3>1
    <3>4. y = lo BY <1>1, <1>5, <1>6, <3>1
    <3>5. g = c BY <1>21, <3>1
    <3> QED BY <1>7, <1>10, <1>25, <3>2, <3>3, <3>4, <3>5
  <2>5. r.temps = h - lo - 2 * (c + 1) /\ c \in Nat BY <1>25
  <2>6. /\ t - lo - 2 * (c + 1) > h - lo - 2 * (c + 1)
        /\ m + 1 - lo - 2 * c = h - lo - 2 * (c + 1) + 1
    BY ONLY <1>6, <1>7, <1>10, <2>5
  <2> QED BY <2>3, <2>4, <2>5, <2>6
<1>28. A!DeletesHandler(a, z)
  <2>1. /\ a \in Seq(Acts) /\ z \in Seq(Acts) /\ Len(a) = l /\ Len(z) = l /\ a[l] = Act(l) /\ z[l] = Act(l)'
        /\ \A i \in 1..(l - 1) : z[i] = a[i]
    BY <1>1, <1>4, <1>5, <1>18, <1>19 DEF Chains
  <2>2. Agree(Acts, a, z, l) /\ Len(z) = l BY <1>5, <2>1 DEF Agree
  <2>3. a[l].temps = e /\ a[l].hs = Append(s, r) BY <1>25, <1>26, <2>1 DEF Act
  <2>4. A!Last(a[l].hs) = r /\ A!Front(a[l].hs) = s /\ a[l].hs # <<>>
    <3>1. s \in Seq(Handler) /\ r \in Handler BY <1>25, <1>26
    <3> QED BY <2>3, <3>1, AppendedParts
  <2>5. PICK n : n = r.temps OBVIOUS
  <2>6. a[l].hs # <<>> /\ n = A!Last(a[l].hs).temps /\ a[l].temps > n BY <1>27, <2>3, <2>4, <2>5
  <2>7. z[l] = A!Goes(a[l], z[l].pos, n + 1, A!Front(a[l].hs))
    <3>1. Act(l)' = [code |-> base'[l].code, pos |-> Pos(l)', temps |-> Temps(l)', hs |-> Hs(l)']
      BY DEF Act
    <3>2. z[l] = [code |-> base[l].code, pos |-> z[l].pos, temps |-> n + 1, hs |-> s]
      BY <1>1, <1>26, <1>27, <2>1, <2>5, <3>1
    <3>3. a[l].code = base[l].code BY <2>1 DEF Act
    <3> QED BY <2>4, <3>2, <3>3 DEF A!Goes
  <2> QED BY ONLY <2>2, <2>6, <2>7, IsDeletingHandler
<1>29. A!DeletesHandler(Activated, Activated') BY <1>18, <1>28 DEF Chains
<1> QED BY <1>1, <1>14, <1>29, IsRun

-----------------------------------------------------------------------------
(* Exceptions and errors *)

\* The handler register's block, the activation that made it, and those above.
HandledBy(o, h) ==
  /\ o \in Nat /\ o >= 1 /\ o <= Len(base) /\ h \in Nat /\ h <= Height
  /\ ~base[o].native /\ base[o].h + 2 <= h /\ h \in Own(o) /\ h \in Blocks
  /\ \A i \in 1..Len(base) : (base[i].h < h <=> i <= o) /\ (o < i => Own(i) = {})
  /\ \A j \in 1..Outer : Caller(j) < o
  /\ \A x \in Blocks : x <= h /\ (x < h => x \in 2..(h - 2))

LEMMA TopBlock ==
  ASSUME Sound, ~Doomed, handlerSp # 0, NEW h, h = handlerSp
  PROVE  \E o \in 1..Len(base) : HandledBy(o, h)
<1>1. Clear BY ClearKnown
<1>2. DataOK /\ BaseOK /\ SegsOK /\ NestOK /\ PhaseOK BY SoundParts
<1>3. PICK bs : BlocksOK(bs) /\ ChainsOK(bs) /\ RegisterOK(bs) BY DEF Sound, MachineInv
<1>4. Good(bs) BY <1>2, <1>3 DEF Good
<1>5. handlerSp = Register(bs, Outer, Len(bs)) BY <1>3 DEF RegisterOK, Doomed
<1>6. PICK n, w : n = Len(bs) /\ w = bs[n].own OBVIOUS
<1>7. /\ h \in Nat /\ w \in 1..Len(base) /\ w \in Nat /\ base[w].h <= h - 2 /\ base[w].h \in Nat
      /\ ~base[w].native /\ BlockOK(bs[n], n) /\ h = bs[n].h
      /\ \A j \in 1..Outer : Caller(j) + 1 <= w
  BY ZenonT(40), <1>4, <1>5, <1>6, LastBlock
<1>8. /\ OwnFacts /\ BlockFacts /\ CeilingFacts /\ BaseFacts /\ DataFacts BY <1>1 DEF Clear
<1>9. h \in Blocks /\ (\A x \in Blocks : x <= h) /\ h <= Height /\ stack[h - 1].k = "hsp"
  <2>1. h \in Blocks /\ (\A x \in Blocks : x <= h) BY <1>8 DEF BlockFacts
  <2>2. h \in 2..Height /\ stack[h - 1].k = "hsp" BY <1>8, <2>1 DEF BlockFacts
  <2>3. Height \in Nat BY <1>8 DEF DataFacts
  <2>4. h <= Height BY <2>2, <2>3
  <2> QED BY <2>1, <2>2, <2>4
<1>10. PICK o \in 1..Len(base) : h \in Own(o) /\ ~base[o].native BY <1>8, <1>9 DEF OwnFacts
<1>11. base[o].h + 2 <= h /\ h <= Ceiling(o) BY <1>8, <1>10 DEF OwnFacts
<1>12. Len(base) \in Nat /\ o \in Nat /\ o >= 1 /\ o <= Len(base) BY <1>8, <1>10 DEF DataFacts
<1>13. ASSUME NEW i \in 1..Len(base), o < i PROVE h + 2 <= base[i].h /\ base[i].h \in Nat
  <2>1. /\ Ceiling(o) + 2 <= base[i].h /\ Ceiling(o) \in Nat /\ base[i].h \in Nat
    BY <1>8, <1>10, <1>13 DEF CeilingFacts
  <2>2. PICK u, v : u = Ceiling(o) /\ v = base[i].h OBVIOUS
  <2>3. h \in Nat /\ h <= u /\ u \in Nat /\ v \in Nat /\ u + 2 <= v BY <1>7, <1>11, <2>1, <2>2
  <2>4. h + 2 <= v BY ONLY <2>3
  <2> QED BY <2>1, <2>2, <2>4
<1>14. ASSUME NEW i \in 1..Len(base), ~ (o < i) PROVE base[i].h < h
  <2>1. i < o \/ i = o BY <1>12, <1>14
  <2>2. base[i].h \in Nat /\ base[o].h \in Nat /\ (i < o => base[i].h + 2 <= base[o].h)
    BY <1>8, <1>10 DEF BaseFacts
  <2> QED BY <1>7, <1>11, <2>1, <2>2
<1>15. ASSUME NEW i \in 1..Len(base) PROVE (base[i].h < h <=> i <= o) /\ (o < i => Own(i) = {})
  <2>1. CASE o < i
    <3>1. ~ (base[i].h < h) /\ ~ (i <= o) BY <1>7, <1>12, <1>13, <2>1
    <3>2. ASSUME NEW x \in Own(i) PROVE FALSE
      <4>1. base[i].h + 2 <= x /\ x \in Blocks /\ x \in Nat BY <1>8, <3>2 DEF OwnFacts
      <4>2. x <= h BY <1>9, <4>1
      <4> QED BY SMTT(40), <1>7, <1>13, <2>1, <4>1, <4>2
    <3> QED BY <3>1, <3>2
  <2>2. CASE ~ (o < i) BY <1>12, <1>14, <2>2
  <2> QED BY <2>1, <2>2
<1>16. w = o
  <2>1. ~ (w > o) BY <1>7, <1>13
  <2>2. ~ (w < o)
    <3> SUFFICES ASSUME w < o PROVE FALSE OBVIOUS
    <3>1. o \in DOMAIN base BY <1>8, <1>10 DEF DataFacts
    <3>2. h <= Floor(o) BY <1>6, <1>7, <3>1 DEF BlockOK
    <3>3. /\ Floor(o) \in Nat /\ Arity[base[o].code] \in Nat
          /\ base[o].h = Floor(o) + 2 + Arity[base[o].code]
      BY <1>8, <1>10 DEF BaseFacts
    <3> QED BY <1>7, <1>11, <3>2, <3>3
  <2> QED BY <1>7, <1>12, <2>1, <2>2
<1>17. \A j \in 1..Outer : Caller(j) < o
  <2> SUFFICES ASSUME NEW j \in 1..Outer PROVE Caller(j) < o OBVIOUS
  <2>1. Caller(j) + 1 <= w /\ Caller(j) \in Nat BY <1>2, <1>7, NestKnown
  <2> QED BY <1>12, <1>16, <2>1
<1>18. ASSUME NEW x \in Blocks, x < h PROVE x \in 2..(h - 2)
  <2>1. x \in 2..Height /\ stack[x].k = "pc" BY <1>8 DEF BlockFacts
  <2>2. x # h - 1 BY <1>9, <2>1
  <2>3. Height \in Nat BY <1>8 DEF DataFacts
  <2> QED BY SMTT(40), <1>7, <1>18, <2>1, <2>2, <2>3
<1> QED BY <1>7, <1>9, <1>10, <1>11, <1>12, <1>15, <1>17, <1>18 DEF HandledBy

\* The raise that plain activations see.
LEMMA IsRaise ==
  ASSUME NEW x,
         \/ status = "running" /\ x \in Packets \cup HardErrors
         \/ status \in {"raising", "escaped"} /\ flight = x,
         \/ status' = "running" /\ exn' = x
         \/ status' \in {"raising", "escaped", "uncaught", "error"} /\ flight' = x,
         NEW how, how = IF status' = "escaped" THEN "raising" ELSE status',
         A!Unwinds(Activated, Activated', x, how)
  PROVE  A!Next
<1>1. PICK a, b : a = Activated /\ b = Activated' OBVIOUS
<1>2. PICK d, e, y, z : /\ d = (IF status = "escaped" THEN "raising" ELSE status)
                        /\ e = (IF status' = "escaped" THEN "raising" ELSE status')
                        /\ y = (IF status \in {"raising", "escaped", "uncaught", "error"}
                                THEN flight ELSE exn)
                        /\ z = (IF status' \in {"raising", "escaped", "uncaught", "error"}
                                THEN flight' ELSE exn')
  OBVIOUS
<1>3. e = how /\ z = x BY <1>2
<1>4. \/ d = "running" /\ z \in Packets \cup HardErrors
      \/ d = "raising" /\ z = y
  BY <1>2, <1>3
<1>5. \E f \in {a}, g \in {b} : A!Unwinds(f, g, z, e) BY <1>1, <1>3
<1>6. A!Raise BY <1>1, <1>2, <1>4, <1>5, Zenon DEF A!Raise
<1> QED BY <1>6 DEF A!Next

\* Nothing is left of a run that has ended.
NothingLeft == base = <<>> => Activated = <<>>

LEMMA NothingIsSeen == NothingLeft
<1> SUFFICES ASSUME base = <<>> PROVE Activated = <<>> BY DEF NothingLeft
<1>1. DOMAIN base = {} OBVIOUS
<1>2. PICK f : f = Activated OBVIOUS
<1>3. f = [i \in {} |-> f[i]] BY <1>1, <1>2, Zenon DEF Activated
<1> QED BY <1>2, <1>3

LEMMA NothingNext == NothingLeft'
<1>1. NothingLeft BY NothingIsSeen
<1> QED BY <1>1, PTL

\* A block is taken down: its handler was the last of its activation.
PopsHandler(o, h, r) ==
  /\ r = [pos |-> stack[h].pc.p, temps |-> h - base[o].h - 2 * Cardinality(Own(o))]
  /\ A!Last(Hs(o)) = r /\ A!Front(Hs(o)) = Hs(o)' /\ Hs(o) # <<>>
  /\ Cardinality(Own(o)) = Cardinality(Own(o)') + 1

LEMMA HandlerPopped ==
  ASSUME Clear, Clear', NEW o \in 1..Len(base), o \in 1..Len(base'), base'[o].h = base[o].h,
         NEW h \in Nat, h \in Own(o), Own(o)' = Own(o) \ {h}, \A y \in Own(o) : y <= h,
         \A y \in Own(o)' : stack'[y].pc.p = stack[y].pc.p
  PROVE  \E r : PopsHandler(o, h, r)
<1>1. PICK S, T, lo, v, u : S = Own(o)' /\ T = Own(o) /\ lo = base[o].h /\ v = stack' /\ u = stack
  OBVIOUS
<1>2. T \subseteq Nat /\ lo \in Nat BY <1>1 DEF Clear, OwnFacts, BaseFacts
<1>3. S \subseteq Nat /\ IsFiniteSet(S) BY <1>1 DEF Clear, OwnFacts
<1>4. T = S \cup {h} BY <1>1
<1>5. \A y \in S : y < h
  <2> SUFFICES ASSUME NEW y \in S PROVE y < h OBVIOUS
  <2>1. y \in Nat /\ y <= h /\ y # h BY <1>1, <1>2
  <2> QED BY <2>1
<1>6. /\ Hs(o) = HsOf(T, lo, u) /\ Hs(o)' = HsOf(S, lo, v)
      /\ (\A x : Resumes(o, x) = Resumed(T, lo, u, x))
      /\ \A x : Resumes(o, x)' = Resumed(S, lo, v, x)
  BY <1>1, HsIs
<1>7. \A y \in S : u[y].pc.p = v[y].pc.p BY <1>1
<1>8. \A y \in S : Resumed(S, lo, v, y) \in Handler
  <2>1. \A y \in Own(o)' : Resumes(o, y)' \in Handler BY DEF Clear, ActFacts
  <2> QED BY <1>1, <1>6, <2>1
<1>9. Resumed(T, lo, u, h) \in Handler
  <2>1. \A y \in Own(o) : Resumes(o, y) \in Handler BY DEF Clear, ActFacts
  <2> QED BY <1>1, <1>6, <2>1
<1>10. HsGrows(S, h, T, lo, v, u)
  BY ONLY <1>2, <1>3, <1>4, <1>5, <1>7, <1>8, <1>9, h \in Nat, HsGrown
<1>11. PICK r : r = Resumed(T, lo, u, h) OBVIOUS
<1>12. PICK s : s = Hs(o)' OBVIOUS
<1>13. s \in Seq(Handler) /\ r \in Handler /\ Hs(o) = Append(s, r)
  BY <1>6, <1>9, <1>10, <1>11, <1>12 DEF HsGrows
<1>14. A!Last(Hs(o)) = r /\ A!Front(Hs(o)) = s /\ Hs(o) # <<>> BY <1>13, AppendedParts
<1>15. r = [pos |-> stack[h].pc.p, temps |-> h - base[o].h - 2 * Cardinality(Own(o))]
  <2>1. r.temps = h - lo - 2 * Cardinality(T) /\ r.pos = u[h].pc.p BY <1>10, <1>11 DEF HsGrows
  <2>2. r = [pos |-> r.pos, temps |-> r.temps] BY <1>13 DEF Handler
  <2>3. r = [pos |-> u[h].pc.p, temps |-> h - lo - 2 * Cardinality(T)] BY <2>1, <2>2, Zenon
  <2> QED BY <1>1, <2>3, Zenon
<1>16. Cardinality(Own(o)) = Cardinality(Own(o)') + 1 BY <1>1, <1>10 DEF HsGrows
<1> QED BY <1>12, <1>14, <1>15, <1>16 DEF PopsHandler

\* What do_raise_ex does when there is a handler.
ToHandler(h, o, x) ==
  /\ stack' = SubSeq(stack, 1, h - 2) /\ handlerSp' = stack[h - 1].hsp /\ pc' = stack[h].pc
  /\ base' = SubSeq(base, 1, o)
  /\ exn' = x /\ status' = "running" /\ flight' = None /\ nest' = nest /\ halt' = halt

LEMMA CaughtIs ==
  ASSUME DataFacts, NEW x, DoRaiseEx(x), handlerSp # 0, NEW o, NEW h, h = handlerSp, HandledBy(o, h)
  PROVE  ToHandler(h, o, x)
<1>1. {i \in DOMAIN base : base[i].h < h} = 1..o
  <2>1. DOMAIN base = 1..Len(base) /\ Len(base) \in Nat BY DEF DataFacts
  <2>2. o \in Nat /\ o <= Len(base) BY DEF HandledBy
  <2>3. \A i \in 1..Len(base) : base[i].h < h <=> i <= o BY DEF HandledBy
  <2> QED BY <2>1, <2>2, <2>3
<1>2. Cardinality(1..o) = o
  <2>1. o \in Nat /\ o >= 1 BY DEF HandledBy
  <2> QED BY <2>1, FS_Interval
<1>3. Cardinality({i \in DOMAIN base : base[i].h < handlerSp}) = o BY <1>1, <1>2
<1> QED BY <1>3, Zenon DEF DoRaiseEx, ToHandler

LEMMA CaughtStep ==
  ASSUME Sound, MachineInv', FreshInv', ~Native, ~Doomed, halt' = halt, NEW x \in Packets,
         status = "running" \/ (status = "escaped" /\ flight = x),
         handlerSp # 0, DoRaiseEx(x)
  PROVE  CallInv' /\ A!Next
<1>1. Clear BY ClearKnown
<1>2. DataOK /\ BaseOK /\ NestOK /\ EntriesOK /\ HaltOK /\ BlockFacts /\ OwnFacts /\ DataFacts /\ BaseFacts
  BY <1>1, SoundParts DEF Clear
<1>3. PICK h : h = handlerSp OBVIOUS
<1>4. PICK o \in 1..Len(base) : HandledBy(o, h) BY <1>3, TopBlock
<1>5. ToHandler(h, o, x) BY <1>2, <1>3, <1>4, CaughtIs
<1>6. PICK m, lo, t : m = h - 2 /\ lo = base[o].h /\ t = Height OBVIOUS
<1>7. /\ o \in Nat /\ o >= 1 /\ o <= Len(base) /\ h \in Nat /\ h <= t /\ ~base[o].native
      /\ lo + 2 <= h /\ h \in Own(o) /\ h \in Blocks
      /\ \A i \in 1..Len(base) : (base[i].h < h <=> i <= o) /\ (o < i => Own(i) = {})
      /\ \A j \in 1..Outer : Caller(j) < o
      /\ \A y \in Blocks : y <= h /\ (y < h => y \in 2..m)
  BY <1>4, <1>6 DEF HandledBy
<1>8. lo \in Nat /\ t \in Nat /\ t = Len(stack) /\ Len(base) \in Nat
  BY <1>2, <1>4, <1>6 DEF BaseFacts, DataFacts
<1>9. m \in Nat /\ m \in 0..t /\ lo <= m /\ h - 1 = m + 1 BY <1>6, <1>7, <1>8
<1>10. /\ status' = "running" /\ exn' = x /\ nest' = nest /\ pc' = stack[h].pc
       /\ handlerSp' = stack[handlerSp - 1].hsp
  BY <1>3, <1>5 DEF ToHandler
<1>11. stack' \in Seq(Word) /\ Len(stack') = m /\ \A i \in 1..m : stack'[i] = stack[i]
  <2>1. stack \in Seq(Word) /\ m \in 0..Len(stack) /\ stack' = SubSeq(stack, 1, m)
    BY <1>2, <1>5, <1>6, <1>8, <1>9 DEF DataOK, ToHandler
  <2> QED BY <2>1, Prefix
<1>12. Len(base') = o /\ \A i \in 1..o : base'[i] = base[i]
  <2>1. base \in Seq([code : Codes, h : Nat, native : BOOLEAN]) BY <1>2 DEF DataOK
  <2>2. o \in 0..Len(base) BY <1>7, <1>8
  <2>3. base' = SubSeq(base, 1, o) BY <1>5 DEF ToHandler
  <2> QED BY <2>1, <2>2, <2>3, Prefix
<1>13. Keeps(m, o)
  <2>1. o \in 0..Len(base) /\ m <= Len(stack') /\ o <= Len(base') BY <1>7, <1>8, <1>9, <1>11, <1>12
  <2> QED BY <1>6, <1>9, <1>11, <1>12, <2>1 DEF Keeps
<1>14. Outer \in Nat /\ Outer' = Outer /\ \A j \in 1..Outer : Caller(j)' = Caller(j)
  <2>1. Outer \in Nat BY <1>2, CutsKnown
  <2> QED BY <1>10, <2>1 DEF Outer, Native, Caller
<1>15. Len(nest) \in Nat BY <1>2 DEF DataFacts
<1>16. EntriesOK'
  <2>1. PICK k, g, l : k = Len(nest) /\ g = Outer /\ l = o OBVIOUS
  <2>2. k \in Nat /\ k <= Len(nest) /\ k <= Len(nest') /\ g \in Nat /\ Outer \in Nat /\ Outer' \in Nat /\ g <= Outer'
    BY <1>10, <1>14, <1>15, <2>1
  <2>3. \A j \in 1..k : nest'[j].top = nest[j].top BY <1>10, <2>1
  <2>4. \A j \in 1..Len(nest) : k < j => base[o].h < nest[j].top + 2 BY <1>15, <2>1
  <2>5. \A j \in 1..g : Caller(j)' = Caller(j) BY <1>14, <2>1
  <2>6. \A j \in 1..Outer : g < j => Caller(j) >= o BY <1>14, <2>1
  <2>7. l = Len(base') /\ (l = o \/ l = o + 1) /\ l # o + 1 BY <1>7, <1>12, <2>1
  <2>8. o >= 1 => base[o].h <= m BY <1>6, <1>9
  <2>9. l = o + 1 /\ o >= 1 => EntryOK(o + 1)' BY <2>7
  <2>10. DataOK /\ BaseOK /\ EntriesOK /\ m \in Nat /\ o \in Nat BY <1>2, <1>7, <1>9
  <2> QED BY ONLY <1>13, <2>2, <2>3, <2>4, <2>5, <2>6, <2>7, <2>8, <2>9, <2>10, EntriesStep
<1>17. CallInv'
  <2>1. halt' => nest' = <<>> BY <1>2, <1>10 DEF HaltOK
  <2> QED BY <1>10, <1>16, <2>1, GoesOn
<1>18. Clear'
  <2>1. Sound' /\ ~Doomed' BY <1>10, <1>17 DEF Sound, Live, Doomed
  <2> QED BY <2>1, ClearNext
<1>19. Blocks' = Blocks \ {h}
  <2>1. \A y \in Blocks : y < handlerSp => stack'[y - 1].hsp = stack[y - 1].hsp
    <3> SUFFICES ASSUME NEW y \in Blocks, y < handlerSp PROVE stack'[y - 1].hsp = stack[y - 1].hsp
      OBVIOUS
    <3>1. y \in 2..m BY <1>3, <1>7
    <3>2. y - 1 \in 1..m BY <1>9, <3>1
    <3> QED BY <1>11, <3>2
  <2>2. Saves' = Saves BY <1>10 DEF Saves, Outer, Native
  <2>3. DataOK' /\ NestOK' BY <1>10 DEF MachineInv, Live
  <2> QED BY <1>2, <1>3, <1>10, <2>1, <2>2, <2>3, BlocksShrink
<1>20. \A y \in Blocks' : y \in 1..m /\ y \in Blocks
  <2> SUFFICES ASSUME NEW y \in Blocks' PROVE y \in 1..m /\ y \in Blocks OBVIOUS
  <2>1. y \in Blocks /\ y # h BY <1>19
  <2>2. y <= h /\ y \in Nat BY <1>2, <1>7, <2>1 DEF BlockFacts
  <2>3. y < h BY <1>7, <2>1, <2>2
  <2>4. y \in 2..m BY <1>7, <2>1, <2>3
  <2> QED BY <1>9, <2>1, <2>4
<1>21. \A i \in 1..o : base[i].h - 1 \in 1..m
  <2> SUFFICES ASSUME NEW i \in 1..o PROVE base[i].h - 1 \in 1..m OBVIOUS
  <2>1. base[i].h \in Nat /\ base[i].h >= 2 /\ base[i].h <= m
    <3>1. o >= 1 => base[o].h <= m BY <1>6, <1>9
    <3>2. o \in Nat /\ o <= Len(base) /\ m \in Nat BY <1>7, <1>9
    <3> QED BY <1>2, <3>1, <3>2, BelowKept
  <2> QED BY <1>9, <2>1
<1>22. Stays(o, Len(nest))
  <2>1. Floor(o)' = Floor(o) /\ base'[o].native = base[o].native /\ base'[o].h = base[o].h
    <3>1. o \in 1..o BY <1>7
    <3> QED BY <1>12, <3>1 DEF Floor
  <2>2. \A i \in 2..o : stack'[base'[i].h - 1].pc.p = stack[base[i].h - 1].pc.p
    <3> SUFFICES ASSUME NEW i \in 2..o PROVE stack'[base'[i].h - 1].pc.p = stack[base[i].h - 1].pc.p
      OBVIOUS
    <3>1. i \in 1..o BY <1>7
    <3>2. PICK g : g = base[i].h - 1 OBVIOUS
    <3>3. g \in 1..m BY <1>21, <3>1, <3>2
    <3>4. stack'[g] = stack[g] BY <1>11, <3>3
    <3>5. base'[i].h - 1 = g BY <1>12, <3>1, <3>2
    <3> QED BY <3>2, <3>4, <3>5
  <2>3. \A y \in Blocks : y <= Floor(o) => y \in Blocks' /\ stack'[y].pc.p = stack[y].pc.p
    <3> SUFFICES ASSUME NEW y \in Blocks, y <= Floor(o)
                 PROVE  y \in Blocks' /\ stack'[y].pc.p = stack[y].pc.p
      OBVIOUS
    <3>1. Floor(o) \in Nat /\ Floor(o) + 2 + Arity[base[o].code] = lo /\ Arity[base[o].code] \in Nat
      BY <1>2, <1>4, <1>6 DEF BaseFacts
    <3>2. y \in Nat BY <1>2 DEF BlockFacts
    <3>3. y # h BY <1>7, <1>8, <3>1, <3>2
    <3>4. y \in Blocks' BY <1>19, <3>3
    <3> QED BY <1>11, <1>20, <3>4
  <2>4. \A y \in Blocks' : y <= Floor(o) => y \in Blocks BY <1>20
  <2>5. \A j \in 1..Len(nest) : nest'[j].top = nest[j].top /\ HookPc(j)' = HookPc(j)
    <3> SUFFICES ASSUME NEW j \in 1..Len(nest) PROVE HookPc(j)' = HookPc(j) BY <1>10
    <3>1. Outer = Len(nest) /\ DOMAIN nest = 1..Len(nest) BY <1>2 DEF Outer, DataFacts
    <3>2. nest[j].saved # None BY <1>15, <3>1, <1>2 DEF NestOK
    <3> QED BY <1>10, <3>2 DEF HookPc
  <2>6. \A j \in 1..Len(nest) : Len(nest) < j => base[o].h < nest[j].top + 2 BY <1>15
  <2>7. Len(nest) <= Len(nest) /\ Len(nest) <= Len(nest') BY <1>10, <1>15
  <2>8. o <= Len(base') BY <1>7, <1>12
  <2>9. \A i \in 1..(o - 1) : base'[i] = base[i]
    <3>1. \A i \in 1..(o - 1) : i \in 1..o BY <1>7
    <3> QED BY <1>12, <3>1
  <2> QED BY <1>4, <1>15, <2>1, <2>2, <2>3, <2>4, <2>5, <2>6, <2>7, <2>8, <2>9, Zenon DEF Stays
<1>23. PICK a, z : Chains(a, z, o) BY <1>1, <1>18, <1>22, ChainsKnown
<1>24. o \in 1..Len(base') /\ base'[o] = base[o] BY <1>7, <1>12
<1>25. Ceiling(o)' = m
  <2>1. Ceiling(o)' = Height' BY <1>12, <1>18, <1>24 DEF Clear, CeilingFacts
  <2> QED BY <1>11, <2>1 DEF Height
<1>26. Own(o)' = Own(o) \ {h} /\ \A y \in Own(o) : y <= h
  <2>1. Ceiling(o) \in Nat /\ h <= Ceiling(o) BY <1>1, <1>2, <1>4, <1>7 DEF Clear, CeilingFacts, OwnFacts
  <2>2. Own(o) = {y \in Blocks : lo < y /\ y <= Ceiling(o)} BY <1>6 DEF Own, BlocksIn
  <2>3. Own(o)' = {y \in Blocks' : lo < y /\ y <= m} BY <1>6, <1>24, <1>25 DEF Own, BlocksIn
  <2>4. \A y \in Blocks' : y <= m /\ y <= Ceiling(o) BY <1>6, <1>7, <1>9, <1>20, <2>1
  <2>5. Own(o)' = {y \in Blocks' : lo < y} BY <2>3, <2>4
  <2>6. \A y \in Own(o) : y \in Blocks /\ y <= h BY <1>7, <2>2
  <2> QED BY <1>19, <2>2, <2>4, <2>5, <2>6
<1>27. PICK r : PopsHandler(o, h, r)
  <2>1. \A y \in Own(o)' : stack'[y].pc.p = stack[y].pc.p
    <3>1. \A y \in Own(o)' : y \in Blocks' BY <1>18, <1>24 DEF Clear, OwnFacts
    <3> QED BY <1>11, <1>20, <3>1
  <2>2. o \in 1..Len(base) /\ o \in 1..Len(base') /\ base'[o].h = base[o].h /\ h \in Nat /\ h \in Own(o)
    BY <1>4, <1>7, <1>24
  <2> QED BY <1>1, <1>18, <1>26, <2>1, <2>2, HandlerPopped
<1>28. Temps(o)' = r.temps
  <2>1. Temps(o)' = Ceiling(o)' - base'[o].h - 2 * Cardinality(Own(o)')
    BY <1>18, <1>24 DEF Clear, ActFacts
  <2>2. PICK c, d, u : c = Cardinality(Own(o)') /\ d = Cardinality(Own(o)) /\ u = Ceiling(o)' OBVIOUS
  <2>3. d = c + 1 /\ r.temps = h - lo - 2 * d BY <1>6, <1>27, <2>2 DEF PopsHandler
  <2>4. Temps(o)' = u - lo - 2 * c BY <1>6, <1>24, <2>1, <2>2
  <2>5. u = m BY <1>25, <2>2
  <2>6. c \in Nat BY <1>18, <1>24, <2>2 DEF Clear, OwnFacts
  <2> QED BY <1>6, <1>7, <1>8, <1>9, <2>3, <2>4, <2>5, <2>6
<1>29. Pos(o)' = r.pos
  <2>1. PcAt(o)' = pc' BY <1>12 DEF PcAt
  <2>2. ~base'[o].native BY <1>7, <1>24
  <2> QED BY <1>10, <1>27, <2>1, <2>2 DEF Pos, PopsHandler
<1>30. A!Unwinds(a, z, x, "running")
  <2>1. /\ a \in Seq(Acts) /\ z \in Seq(Acts) /\ Len(a) = Len(base) /\ Len(z) = o
        /\ a[o] = Act(o) /\ z[o] = Act(o)'
        /\ \A i \in 1..(o - 1) : z[i] = a[i]
    BY <1>4, <1>12, <1>23, <1>24 DEF Chains
  <2>2. \A i \in (o + 1)..Len(a) : a[i].hs = <<>>
    <3> SUFFICES ASSUME NEW i \in (o + 1)..Len(base) PROVE a[i].hs = <<>> BY <2>1
    <3>1. i \in 1..Len(base) /\ o < i BY <1>7, <1>8
    <3>2. Own(i) = {} BY <1>7, <3>1
    <3>3. a[i] = Act(i) BY <1>23, <3>1 DEF Chains
    <3> QED BY <3>2, <3>3, NoHandlers DEF Act
  <2>3. a[o].hs = Hs(o) BY <2>1 DEF Act
  <2>4. a[o].hs # <<>> /\ A!Last(a[o].hs) = r /\ A!Front(a[o].hs) = Hs(o)'
    BY <1>27, <2>3 DEF PopsHandler
  <2>5. z[o] = A!Goes(a[o], r.pos, r.temps, Hs(o)')
    <3>1. Act(o)' = [code |-> base'[o].code, pos |-> Pos(o)', temps |-> Temps(o)', hs |-> Hs(o)']
      BY DEF Act
    <3>2. z[o] = [code |-> base[o].code, pos |-> r.pos, temps |-> r.temps, hs |-> Hs(o)']
      BY <1>24, <1>28, <1>29, <2>1, <3>1
    <3>3. a[o].code = base[o].code BY <2>1 DEF Act
    <3> QED BY <3>2, <3>3 DEF A!Goes
  <2>6. z[o] = A!Goes(a[o], A!Last(a[o].hs).pos, A!Last(a[o].hs).temps, A!Front(a[o].hs))
    BY <2>4, <2>5
  <2>7. x \notin HardErrors BY PacketsAreNoErrors
  <2>8. o \in Nat /\ o > 0 /\ o <= Len(a) BY <1>7, <1>8, <2>1
  <2>9. a[o].hs # <<>> BY <2>4
  <2> QED BY ONLY <2>1, <2>2, <2>6, <2>7, <2>8, <2>9, IsCatching
<1>31. A!Unwinds(Activated, Activated', x, "running") BY <1>23, <1>30 DEF Chains
<1> QED BY <1>10, <1>17, <1>31, IsRaise

\* A nested run is left for the region's caller, the c-th activation.
RunLeft(c) ==
  /\ Outer \in Nat /\ Outer >= 1 /\ Outer = Len(nest) /\ Caller(Outer) = c
  /\ c \in Nat /\ c >= 1 /\ c < Len(base) /\ c \in 1..Len(base) /\ base[c].native
  /\ Len(base') = c /\ \A i \in 1..c : base'[i] = base[i]
  /\ Len(nest') = Len(nest)
  /\ \A j \in 1..Len(nest) : nest'[j].top = nest[j].top /\ HookPc(j)' = HookPc(j)
  /\ nest' # <<>> /\ Native' /\ Outer' = Outer - 1 /\ \A j \in 1..(Outer - 1) : nest'[j] = nest[j]
  /\ handlerSp' = nest[Outer].saved.handlerSp

LEMMA RunIsLeft ==
  ASSUME DataOK, BaseOK, NestOK, ~Native, nest # <<>>, Restored
  PROVE  \E c \in 1..Len(base) : RunLeft(c)
<1>1. PICK n, c : n = Len(nest) /\ c = Caller(n) OBVIOUS
<1>2. n \in Nat /\ n >= 1 /\ DOMAIN nest = 1..n /\ nest \in Seq(NestedFrame) /\ Outer = n
  <2>1. nest \in Seq(NestedFrame) BY DEF DataOK
  <2>2. Len(nest) # 0 BY <2>1
  <2> QED BY <1>1, <2>1, <2>2, Elements DEF Outer
<1>3. n \in 1..Outer /\ n \in 1..n BY <1>2
<1>4. RootOK(n, c) /\ c \in Nat /\ c >= 1 /\ c < Len(base) BY <1>1, <1>3, NestKnown
<1>5. Len(base) \in Nat BY DataKnown DEF DataFacts
<1>6. c \in 1..Len(base) BY <1>4, <1>5
<1>7. base[c].native
  <2>1. PICK r \in 2..c : \A k \in r..c : base[k].native BY <1>4 DEF RootOK
  <2>2. c \in r..c BY <1>4, <2>1
  <2> QED BY <2>1, <2>2
<1>8. Len(base') = c /\ \A i \in 1..c : base'[i] = base[i]
  <2>1. base \in Seq([code : Codes, h : Nat, native : BOOLEAN]) BY DEF DataOK
  <2>2. c \in 0..Len(base) BY <1>4, <1>5
  <2>3. base' = SubSeq(base, 1, c) BY <1>1 DEF Restored, Last, Caller
  <2> QED BY <2>1, <2>2, <2>3, Prefix
<1>9. PICK s : s = nest[n].saved OBVIOUS
<1>10. s # None /\ Last(nest) = nest[n]
  <2>1. n \in DOMAIN nest /\ n <= Outer BY <1>2
  <2> QED BY <1>1, <1>9, <2>1 DEF NestOK, Last
<1>11. nest' = [nest EXCEPT ![n].saved = None] /\ pc' = s.pc /\ handlerSp' = s.handlerSp
  BY <1>1, <1>9, <1>10 DEF Restored
<1>12. /\ Len(nest') = n /\ (\A j \in 1..n : j # n => nest'[j] = nest[j])
       /\ nest'[n].top = nest[n].top /\ nest'[n].saved = None
  <2>1. nest[n] \in NestedFrame BY <1>2, <1>3
  <2>2. PICK e : e = [nest[n] EXCEPT !.saved = None] OBVIOUS
  <2>3. e \in NestedFrame /\ e.top = nest[n].top /\ e.saved = None BY <2>1, <2>2 DEF NestedFrame
  <2>4. nest' = [nest EXCEPT ![n] = e] BY <1>11, <2>2, Zenon
  <2>5. n \in 1..Len(nest) BY <1>1, <1>3
  <2>6. /\ Len([nest EXCEPT ![n] = e]) = Len(nest) /\ [nest EXCEPT ![n] = e][n] = e
        /\ \A j \in 1..Len(nest) : j # n => [nest EXCEPT ![n] = e][j] = nest[j]
    BY ONLY <1>2, <2>3, <2>5, Replaced
  <2> QED BY <1>1, <2>3, <2>4, <2>6
<1>13. nest' # <<>> BY <1>2, <1>12
<1>14. Native' BY <1>12, <1>13 DEF Native, Last
<1>15. Outer' = n - 1 BY <1>12, <1>14 DEF Outer
<1>16. ASSUME NEW j \in 1..n PROVE nest'[j].top = nest[j].top /\ HookPc(j)' = HookPc(j)
  <2>1. CASE j = n
    <3>1. HookPc(j) = s.pc.p BY <1>9, <1>10, <2>1 DEF HookPc
    <3>2. HookPc(j)' = pc'.p BY <1>12, <2>1 DEF HookPc
    <3> QED BY <1>11, <1>12, <2>1, <3>1, <3>2
  <2>2. CASE j # n
    <3>1. nest'[j] = nest[j] BY <1>12, <2>2
    <3>2. j \in DOMAIN nest /\ j <= Outer BY <1>2
    <3>3. nest[j].saved # None BY <3>2 DEF NestOK
    <3> QED BY <3>1, <3>3 DEF HookPc
  <2> QED BY <2>1, <2>2
<1>17. \A j \in 1..(n - 1) : nest'[j] = nest[j]
  <2> SUFFICES ASSUME NEW j \in 1..(n - 1) PROVE nest'[j] = nest[j] OBVIOUS
  <2>1. j \in 1..n /\ j # n BY <1>2
  <2> QED BY <1>12, <2>1
<1>18. RunLeft(c)
  BY <1>1, <1>2, <1>4, <1>6, <1>7, <1>8, <1>9, <1>11, <1>12, <1>13, <1>14, <1>15, <1>16, <1>17, Zenon
  DEF RunLeft
<1> QED BY <1>6, <1>18

LEMMA EntriesLeft ==
  ASSUME DataOK, BaseOK, EntriesOK, NEW c, RunLeft(c), NEW m \in Nat, Keeps(m, c), base[c].h <= m
  PROVE  EntriesOK'
<1>1. PICK k, g, l : k = Len(nest) /\ g = Outer - 1 /\ l = c OBVIOUS
<1>2. /\ Outer \in Nat /\ Outer >= 1 /\ Outer = Len(nest) /\ Caller(Outer) = c
      /\ c \in Nat /\ c >= 1 /\ Len(base') = c /\ Len(nest') = Len(nest) /\ Outer' = Outer - 1
  BY DEF RunLeft
<1>3. k \in Nat /\ k <= Len(nest) /\ k <= Len(nest') /\ g \in Nat /\ Outer' \in Nat /\ g <= Outer'
  BY <1>1, <1>2
<1>4. \A j \in 1..k : nest'[j].top = nest[j].top BY <1>1 DEF RunLeft
<1>5. \A j \in 1..Len(nest) : k < j => base[c].h < nest[j].top + 2 BY <1>1, <1>3
<1>6. \A j \in 1..g : Caller(j)' = Caller(j)
  <2>1. \A j \in 1..g : nest'[j] = nest[j] BY <1>1 DEF RunLeft
  <2> QED BY <2>1 DEF Caller
<1>7. \A j \in 1..Outer : g < j => Caller(j) >= c
  <2> SUFFICES ASSUME NEW j \in 1..Outer, g < j PROVE Caller(j) >= c OBVIOUS
  <2>1. j = Outer BY <1>1, <1>2
  <2> QED BY <1>2, <2>1
<1>8. l = Len(base') /\ (l = c \/ l = c + 1) /\ l # c + 1 BY <1>1, <1>2
<1>9. c >= 1 => base[c].h <= m OBVIOUS
<1>10. l = c + 1 /\ c >= 1 => EntryOK(c + 1)' BY <1>8
<1>11. c \in Nat /\ Outer \in Nat BY <1>2
<1> QED BY ONLY <1>3, <1>4, <1>5, <1>6, <1>7, <1>8, <1>9, <1>10, <1>11, DataOK, BaseOK, EntriesOK,
                m \in Nat, Keeps(m, c), EntriesStep

\* Nothing above the region's caller has a handler when the register says so.
LEMMA BlocksLeft ==
  ASSUME Clear, NEW c, RunLeft(c), handlerSp = 0
  PROVE  /\ \A x \in Blocks : x <= base[c].h
         /\ \A i \in 1..Len(base) : c <= i => Own(i) = {}
<1>1. c \in 1..Len(base) /\ base[c].native /\ c \in Nat /\ Caller(Outer) = c BY DEF RunLeft
<1>2. BlockFacts /\ OwnFacts /\ CeilingFacts /\ BaseFacts BY DEF Clear
<1>3. base[c].h \in Nat BY <1>1, <1>2 DEF BaseFacts
<1>4. ASSUME NEW x \in Blocks PROVE x \in Nat /\ x <= base[c].h
  <2>1. PICK o \in 1..Len(base) : o <= c /\ x <= Ceiling(o) BY <1>1, <1>2 DEF BlockFacts
  <2>2. PICK q \in 1..Len(base) : x \in Own(q) /\ ~base[q].native BY <1>2 DEF OwnFacts
  <2>3. x \in Nat /\ base[q].h + 2 <= x /\ x <= Ceiling(q) BY <1>2, <2>2 DEF OwnFacts, BlockFacts
  <2>4. q < c
    <3>1. q # c BY <1>1, <2>2
    <3>2. ~ (c < q)
      <4> SUFFICES ASSUME c < q PROVE FALSE OBVIOUS
      <4>1. o < q BY <1>1, <2>1
      <4>2. Ceiling(o) + 2 <= base[q].h /\ Ceiling(o) \in Nat /\ base[q].h \in Nat
        BY <1>2, <2>1, <4>1 DEF CeilingFacts
      <4> QED BY <2>1, <2>3, <4>2
    <3> QED BY <1>1, <3>1, <3>2
  <2>5. Ceiling(q) + 2 <= base[c].h /\ Ceiling(q) \in Nat BY <1>1, <1>2, <2>4 DEF CeilingFacts
  <2> QED BY <1>3, <2>3, <2>5
<1>5. ASSUME NEW i \in 1..Len(base), c <= i, NEW x \in Own(i) PROVE FALSE
  <2>1. x \in Blocks /\ base[i].h + 2 <= x BY <1>2, <1>5 DEF OwnFacts
  <2>2. x \in Nat /\ x <= base[c].h BY <1>4, <2>1
  <2>3. base[i].h \in Nat /\ (c < i => base[c].h + 2 <= base[i].h) BY <1>1, <1>2 DEF BaseFacts
  <2>4. c = i \/ c < i BY <1>1, <1>5
  <2> QED BY <1>3, <2>1, <2>2, <2>3, <2>4
<1> QED BY <1>4, <1>5

LEMMA LeftStays ==
  ASSUME Clear, Clear', DataOK, BaseOK, NestOK, DataOK', NestOK', NEW c, RunLeft(c), handlerSp = 0,
         NEW m \in Nat,
         Keeps(m, c), base[c].h <= m
  PROVE  Stays(c, Len(nest)) /\ Own(c)' = {}
<1>1. /\ c \in 1..Len(base) /\ base[c].native /\ c \in Nat /\ c >= 1 /\ Outer \in Nat /\ Outer >= 1
      /\ Len(base') = c /\ (\A i \in 1..c : base'[i] = base[i]) /\ Outer' = Outer - 1
      /\ (\A j \in 1..(Outer - 1) : nest'[j] = nest[j]) /\ handlerSp' = nest[Outer].saved.handlerSp
      /\ Len(nest') = Len(nest)
      /\ \A j \in 1..Len(nest) : nest'[j].top = nest[j].top /\ HookPc(j)' = HookPc(j)
  BY DEF RunLeft
<1>2. \A x \in Blocks : x <= base[c].h BY BlocksLeft
<1>3. BlockFacts /\ BaseFacts /\ DataFacts BY DEF Clear
<1>4. base[c].h \in Nat BY <1>1, <1>3 DEF BaseFacts
<1>5. \A x \in Blocks : x \in 1..m /\ x - 1 \in 1..m
  <2> SUFFICES ASSUME NEW x \in Blocks PROVE x \in 1..m /\ x - 1 \in 1..m OBVIOUS
  <2>1. x \in 2..Height /\ Height \in Nat BY <1>3 DEF BlockFacts, DataFacts
  <2>2. x <= base[c].h BY <1>2
  <2> QED BY <1>4, <2>1, <2>2
<1>6. \A i \in 1..m : stack'[i] = stack[i] BY DEF Keeps
<1>7. Blocks' = Blocks
  <2>1. \A x \in Blocks : stack'[x - 1].hsp = stack[x - 1].hsp BY <1>5, <1>6
  <2>2. HandlerRegisters' \cup {0} = HandlerRegisters \cup {0}
    <3>1. PICK o : o = Outer OBVIOUS
    <3>2. o \in Nat /\ o >= 1 /\ Outer' = o - 1 BY <1>1, <3>1
    <3>3. HandlerRegisters = {0} \cup {nest[j].saved.handlerSp : j \in 1..o}
      BY <3>1 DEF HandlerRegisters, Saves
    <3>4. HandlerRegisters' = {nest[o].saved.handlerSp} \cup {nest'[j].saved.handlerSp : j \in 1..(o - 1)}
      BY <1>1, <3>1, <3>2 DEF HandlerRegisters, Saves
    <3>5. \A j \in 1..(o - 1) : nest'[j].saved.handlerSp = nest[j].saved.handlerSp BY <1>1, <3>1
    <3>6. {nest'[j].saved.handlerSp : j \in 1..(o - 1)} = {nest[j].saved.handlerSp : j \in 1..(o - 1)}
      BY <3>5
    <3>7. {nest[j].saved.handlerSp : j \in 1..o}
            = {nest[o].saved.handlerSp} \cup {nest[j].saved.handlerSp : j \in 1..(o - 1)}
      <4>1. \A j \in 1..o : j = o \/ j \in 1..(o - 1) BY <3>2
      <4>2. o \in 1..o /\ \A j \in 1..(o - 1) : j \in 1..o BY <3>2
      <4> QED BY <4>1, <4>2
    <3> QED BY <3>3, <3>4, <3>6, <3>7
  <2> QED BY <1>3, <2>1, <2>2, BlocksSame
<1>8. c \in 1..c BY <1>1
<1>9. Floor(c)' = Floor(c) /\ base'[c].native = base[c].native /\ base'[c].h = base[c].h
  BY <1>1, <1>8 DEF Floor
<1>10. \A i \in 2..c : stack'[base'[i].h - 1].pc.p = stack[base[i].h - 1].pc.p
  <2> SUFFICES ASSUME NEW i \in 2..c PROVE stack'[base'[i].h - 1].pc.p = stack[base[i].h - 1].pc.p
    OBVIOUS
  <2>1. i \in 1..c BY <1>1
  <2>2. base[i].h \in Nat /\ base[i].h >= 2 /\ base[i].h <= m
    <3>1. c >= 1 => base[c].h <= m OBVIOUS
    <3>2. c <= Len(base) BY <1>1, <1>3 DEF DataFacts
    <3> QED BY <1>1, <2>1, <3>1, <3>2, BelowKept
  <2>3. PICK g : g = base[i].h - 1 OBVIOUS
  <2>4. g \in 1..m BY <2>2, <2>3
  <2>5. stack'[g] = stack[g] BY <1>6, <2>4
  <2>6. base'[i].h - 1 = g BY <1>1, <2>1, <2>3
  <2> QED BY <2>3, <2>5, <2>6
<1>11. \A x \in Blocks : x \in Blocks' /\ stack'[x].pc.p = stack[x].pc.p BY <1>5, <1>6, <1>7
<1>12. \A x \in Blocks' : x \in Blocks BY <1>7
<1>13. Len(nest) \in Nat /\ Len(nest) <= Len(nest) /\ Len(nest) <= Len(nest') BY <1>1, <1>3 DEF DataFacts
<1>14. \A j \in 1..Len(nest) : Len(nest) < j => base[c].h < nest[j].top + 2 BY <1>13
<1>15. \A i \in 1..(c - 1) : base'[i] = base[i]
  <2>1. \A i \in 1..(c - 1) : i \in 1..c BY <1>1
  <2> QED BY <1>1, <2>1
<1>16. c <= Len(base') BY <1>1
<1>17. Stays(c, Len(nest))
  BY <1>1, <1>9, <1>10, <1>11, <1>12, <1>13, <1>14, <1>15, <1>16, Zenon DEF Stays
<1>18. Own(c)' = {}
  <2>1. OwnFacts' /\ c \in 1..Len(base') /\ base'[c].native BY <1>1, <1>8, <1>9 DEF Clear
  <2> QED BY <2>1 DEF OwnFacts
<1> QED BY <1>17, <1>18

LEMMA WordsStay ==
  ASSUME DataOK, BaseOK, stack' = stack, NEW c, RunLeft(c)
  PROVE  Keeps(Height, c) /\ Height \in Nat /\ base[c].h <= Height
<1>1. DataFacts /\ BaseFacts BY DataKnown, BaseKnown
<1>2. c \in 1..Len(base) /\ c \in Nat /\ Len(base') = c /\ \A i \in 1..c : base'[i] = base[i] BY DEF RunLeft
<1>3. Height \in Nat /\ Height = Len(stack) /\ Len(base) \in Nat BY <1>1 DEF DataFacts
<1>4. c \in 0..Len(base) /\ c <= Len(base') /\ Height \in 0..Height BY <1>2, <1>3
<1>5. Height <= Len(stack') BY <1>3
<1>6. base[c].h <= Height BY <1>1, <1>2 DEF BaseFacts
<1> QED BY <1>2, <1>3, <1>4, <1>5, <1>6 DEF Keeps

LEMMA SeenCodes ==
  ASSUME Sound
  PROVE  /\ Len(Activated) = Len(base) /\ Len(base) \in Nat
         /\ \A i \in 1..Len(base) : Activated[i].code = base[i].code
<1>1. Len(base) \in Nat
  <2>1. DataFacts BY SoundParts
  <2> QED BY <2>1 DEF DataFacts
<1>2. PICK l, a : l = Len(base) /\ a = Activated OBVIOUS
<1>3. CASE Doomed
  <2>1. a = [i \in 1..l |-> A!Fresh(base[i].code)] BY <1>2, <1>3, Seen
  <2>2. \A i \in 1..l : a[i] = A!Fresh(base[i].code) BY <2>1
  <2>3. Len(a) = l BY <1>1, <1>2, <2>1
  <2>4. ASSUME NEW i \in 1..l PROVE a[i].code = base[i].code
    <3>1. a[i] = A!Fresh(base[i].code) BY <2>2
    <3> QED BY <3>1 DEF A!Fresh
  <2> QED BY <1>1, <1>2, <2>3, <2>4
<1>4. CASE ~Doomed
  <2>1. a = [i \in 1..l |-> Act(i)] BY <1>2, <1>4, Seen
  <2>2. \A i \in 1..l : a[i] = Act(i) BY <2>1
  <2>3. Len(a) = l BY <1>1, <1>2, <2>1
  <2>4. ASSUME NEW i \in 1..l PROVE a[i].code = base[i].code
    <3>1. a[i] = Act(i) BY <2>2
    <3> QED BY <3>1 DEF Act
  <2> QED BY <1>1, <1>2, <2>3, <2>4
<1> QED BY <1>3, <1>4

\* What doomed activations are seen as.
DoomedSeen == Sound /\ Doomed => Activated = [i \in 1..Len(base) |-> A!Fresh(base[i].code)]

LEMMA DoomedIsSeen == DoomedSeen
BY Seen DEF DoomedSeen

LEMMA DoomedNext == DoomedSeen'
<1>1. DoomedSeen BY DoomedIsSeen
<1> QED BY <1>1, PTL

\* No handler catches the packet, in this run.
LEMMA UncaughtStep ==
  ASSUME Sound, MachineInv', FreshInv', ~Native, ~Doomed, halt' = halt, NEW x \in Packets,
         status = "running" \/ (status = "escaped" /\ flight = x),
         handlerSp = 0, DoRaiseEx(x)
  PROVE  CallInv' /\ A!Next
<1>1. Clear BY ClearKnown
<1>2. DataOK /\ BaseOK /\ NestOK /\ EntriesOK /\ HaltOK /\ BlockFacts /\ OwnFacts /\ DataFacts /\ BaseFacts
  BY <1>1, SoundParts DEF Clear
<1>3. x \notin HardErrors BY PacketsAreNoErrors
<1>4. PICK a : a = Activated OBVIOUS
<1>5. a \in Seq(Acts) /\ Len(a) = Len(base) /\ Len(base) \in Nat /\ \A i \in 1..Len(base) : a[i] = Act(i)
  BY <1>1, <1>4 DEF Clear, SeenFacts, DataFacts
<1>6. CASE nest = <<>>
  <2>1. flight' = x /\ base' = <<>> /\ status' = "uncaught" BY <1>6 DEF DoRaiseEx, Quiesced
  <2>2. CallInv' BY <2>1 DEF CallInv, Live
  <2>3. \A i \in 1..Len(a) : a[i].hs = <<>> \/ x \in HardErrors
    <3> SUFFICES ASSUME NEW i \in 1..Len(base) PROVE a[i].hs = <<>> BY <1>5
    <3>1. Outer = 0 BY <1>6 DEF Outer, Native
    <3>2. Blocks = {} BY <1>2, <3>1 DEF BlockFacts
    <3>3. Own(i) = {} BY <3>2 DEF Own, BlocksIn
    <3>4. a[i] = Act(i) BY <1>5
    <3> QED BY <3>3, <3>4, NoHandlers DEF Act
  <2>4. A!Unwinds(a, <<>>, x, IF x \in HardErrors THEN "error" ELSE "uncaught")
    <3>1. Len(a) \in Nat BY <1>5
    <3> QED BY ONLY <2>3, <3>1, IsEnd
  <2>5. A!Unwinds(a, <<>>, x, "uncaught") BY <1>3, <2>4
  <2>6. Activated' = <<>> BY <2>1, NothingNext DEF NothingLeft
  <2>7. A!Unwinds(Activated, Activated', x, "uncaught") BY <1>4, <2>5, <2>6
  <2> QED BY <2>1, <2>2, <2>7, IsRaise
<1>7. CASE nest # <<>>
  <2>1. Restored /\ status' = "raising" /\ exn' = x /\ stack' = stack /\ flight' = x
    BY <1>7 DEF DoRaiseEx
  <2>2. PICK c \in 1..Len(base) : RunLeft(c) BY <1>2, <1>7, <2>1, RunIsLeft
  <2>3. PICK m : m = Height OBVIOUS
  <2>4. Keeps(m, c) /\ m \in Nat /\ base[c].h <= m BY <1>2, <2>1, <2>2, <2>3, WordsStay
  <2>5. EntriesOK' BY <1>2, <2>2, <2>4, EntriesLeft
  <2>6. ~halt BY <1>2, <1>7 DEF HaltOK
  <2>7. CallInv'
    <3>1. FlightOK' BY <1>3, <2>1 DEF FlightOK, HardErrors
    <3>2. HaltOK' BY <2>6 DEF HaltOK
    <3> QED BY <2>5, <3>1, <3>2 DEF CallInv
  <2>8. Clear'
    <3>1. Sound' BY <2>1, <2>7 DEF Sound, Live
    <3>2. ~Doomed' BY <1>3, <2>1 DEF Doomed
    <3> QED BY <3>1, <3>2, ClearNext
  <2>9. DataOK' /\ NestOK' BY <2>1 DEF MachineInv, Live
  <2>10. Stays(c, Len(nest)) /\ Own(c)' = {} BY <1>1, <1>2, <2>2, <2>4, <2>8, <2>9, LeftStays
  <2>11. PICK z : z = Activated' OBVIOUS
  <2>12. \A i \in 1..Len(base) : c <= i => Own(i) = {} BY <1>1, <2>2, BlocksLeft
  <2>13. /\ c \in Nat /\ c >= 1 /\ c < Len(base) /\ base[c].native /\ Len(base') = c
         /\ base'[c] = base[c] /\ c \in 1..c
    <3>1. /\ c \in Nat /\ c >= 1 /\ c < Len(base) /\ base[c].native /\ Len(base') = c
          /\ \A i \in 1..c : base'[i] = base[i]
      BY <2>2 DEF RunLeft
    <3> QED BY <3>1
  <2>14. /\ z \in Seq(Acts) /\ Len(z) = c /\ z[c] = Act(c)' /\ \A i \in 1..(c - 1) : z[i] = a[i]
    <3>1. PICK f, g : Chains(f, g, c) BY <1>1, <2>8, <2>10, ChainsKnown
    <3>2. f = a /\ g = z BY <1>4, <2>11, <3>1 DEF Chains
    <3> QED BY <2>13, <3>1, <3>2 DEF Chains
  <2>15. \A i \in (c + 1)..Len(a) : a[i].hs = <<>>
    <3> SUFFICES ASSUME NEW i \in (c + 1)..Len(base) PROVE a[i].hs = <<>> BY <1>5
    <3>1. i \in 1..Len(base) /\ c <= i BY <1>5, <2>13
    <3>2. Own(i) = {} BY <2>12, <3>1
    <3>3. a[i] = Act(i) BY <1>5, <3>1
    <3> QED BY <3>2, <3>3, NoHandlers DEF Act
  <2>16. z[c] = A!Goes(a[c], a[c].pos, z[c].temps, a[c].hs)
    <3>1. a[c] = Act(c) BY <1>5
    <3>2. Own(c) = {}
      <4>1. c <= c BY <2>13
      <4> QED BY <2>12, <4>1
    <3>3. Hs(c) = <<>> BY <3>2, NoHandlers
    <3>4. Hs(c)' = <<>>
      <4>1. ActFacts' /\ c \in 1..Len(base') BY <2>8, <2>13 DEF Clear
      <4> QED BY <2>10, <4>1 DEF ActFacts
    <3>5. Pos(c) = 0 /\ Pos(c)' = 0 BY <2>13 DEF Pos
    <3>6. Act(c)' = [code |-> base'[c].code, pos |-> Pos(c)', temps |-> Temps(c)', hs |-> Hs(c)']
      BY DEF Act
    <3>7. Act(c) = [code |-> base[c].code, pos |-> Pos(c), temps |-> Temps(c), hs |-> Hs(c)]
      BY DEF Act
    <3> QED BY <2>13, <2>14, <3>1, <3>3, <3>4, <3>5, <3>6, <3>7 DEF A!Goes
  <2>17. A!Unwinds(a, z, x, "raising")
    <3>1. c > 0 /\ c <= Len(a) /\ c \in Nat BY <1>5, <2>13
    <3>2. a \in Seq(Acts) /\ z \in Seq(Acts) /\ Len(z) = c /\ \A i \in 1..(c - 1) : z[i] = a[i]
      BY <1>5, <2>14
    <3> QED BY ONLY <1>3, <2>15, <2>16, <3>1, <3>2, IsPropagating
  <2>18. A!Unwinds(Activated, Activated', x, "raising") BY <1>4, <2>11, <2>17
  <2> QED BY <2>1, <2>7, <2>18, IsRaise
<1> QED BY <1>6, <1>7

\* A hard error ends this run, and those below are only their code from then on.
LEMMA FailStep ==
  ASSUME Sound, MachineInv', FreshInv', ~Native, NEW x \in HardErrors, nest # <<>> => x # "heap",
         status = "running" \/ (status = "escaped" /\ flight = x), Fails(x)
  PROVE  CallInv' /\ A!Next
<1>1. DataOK /\ BaseOK /\ NestOK /\ EntriesOK /\ HaltOK BY SoundParts
<1>2. PICK a : a = Activated OBVIOUS
<1>3. Len(a) = Len(base) /\ Len(base) \in Nat /\ \A i \in 1..Len(base) : a[i].code = base[i].code
  BY <1>2, SeenCodes
<1>4. CASE nest = <<>>
  <2>1. flight' = x /\ base' = <<>> /\ status' = "error" BY <1>4 DEF Fails, Quiesced
  <2>2. CallInv' BY <2>1 DEF CallInv, Live
  <2>3. \A i \in 1..Len(a) : a[i].hs = <<>> \/ x \in HardErrors OBVIOUS
  <2>4. A!Unwinds(a, <<>>, x, IF x \in HardErrors THEN "error" ELSE "uncaught")
    <3>1. Len(a) \in Nat BY <1>3
    <3> QED BY ONLY <2>3, <3>1, IsEnd
  <2>5. A!Unwinds(a, <<>>, x, "error") BY <2>4
  <2>6. Activated' = <<>> BY <2>1, NothingNext DEF NothingLeft
  <2>7. A!Unwinds(Activated, Activated', x, "error") BY <1>2, <2>5, <2>6
  <2> QED BY <2>1, <2>2, <2>7, IsRaise
<1>5. CASE nest # <<>>
  <2>1. Restored /\ status' = "raising" /\ stack' = stack /\ flight' = x /\ halt' = halt /\ x # "heap"
    BY <1>5 DEF Fails
  <2>2. PICK c \in 1..Len(base) : RunLeft(c) BY <1>1, <1>5, <2>1, RunIsLeft
  <2>3. PICK m : m = Height OBVIOUS
  <2>4. Keeps(m, c) /\ m \in Nat /\ base[c].h <= m BY <1>1, <2>1, <2>2, <2>3, WordsStay
  <2>5. EntriesOK' BY <1>1, <2>2, <2>4, EntriesLeft
  <2>6. CallInv'
    <3>1. FlightOK' BY <2>1 DEF FlightOK
    <3>2. HaltOK' BY <1>1, <1>5, <2>1 DEF HaltOK
    <3> QED BY <2>5, <3>1, <3>2 DEF CallInv
  <2>7. Sound' /\ Doomed' BY <2>1, <2>6 DEF Sound, Live, Doomed
  <2>8. /\ c \in Nat /\ c >= 1 /\ c < Len(base) /\ Len(base') = c /\ \A i \in 1..c : base'[i] = base[i]
    BY <2>2 DEF RunLeft
  <2>9. Activated' = [i \in 1..c |-> A!Fresh(base'[i].code)]
    <3>1. Activated' = [i \in 1..Len(base') |-> A!Fresh(base'[i].code)]
      BY <2>7, DoomedNext DEF DoomedSeen
    <3> QED BY <2>8, <3>1
  <2>10. \A i \in 1..c : A!Fresh(base'[i].code) = A!Fresh(a[i].code)
    <3> SUFFICES ASSUME NEW i \in 1..c PROVE A!Fresh(base'[i].code) = A!Fresh(a[i].code) OBVIOUS
    <3>1. i \in 1..Len(base) BY <1>3, <2>8
    <3>2. base'[i].code = a[i].code BY <1>3, <2>8, <3>1
    <3> QED BY <3>2
  <2>11. PICK z : z = Activated' OBVIOUS
  <2>12. z = [i \in 1..c |-> A!Fresh(a[i].code)] BY <2>9, <2>10, <2>11
  <2>13. Len(z) = c BY <2>8, <2>12
  <2>14. A!Unwinds(a, z, x, "raising")
    <3>1. c \in Nat /\ c > 0 /\ Len(a) \in Nat /\ c <= Len(a) BY <1>3, <2>8
    <3>2. x \in HardErrors OBVIOUS
    <3> QED BY ONLY <2>12, <2>13, <3>1, <3>2, IsDoomed
  <2>15. A!Unwinds(Activated, Activated', x, "raising") BY <1>2, <2>11, <2>14
  <2> QED BY <2>1, <2>6, <2>15, IsRaise
<1> QED BY <1>4, <1>5

LEMMA ExceptionStep ==
  ASSUME Nested = {}, Sound, MachineInv', FreshInv',
         \/ RaiseEx \/ RaiseOverflow \/ (Stepping /\ RtsRaises)
         \/ DivByZero \/ StackOverflows \/ HeapExhausted
         \/ HookRaises
  PROVE  CallInv' /\ A!Next
<1>1. DataOK /\ NestOK /\ PhaseOK /\ FlightOK BY SoundParts
<1>2. ASSUME NEW x \in Packets, DoRaiseEx(x), ~Native, ~Doomed,
             status = "running" \/ (status = "escaped" /\ flight = x)
      PROVE  CallInv' /\ A!Next
  <2>1. halt' = halt BY <1>2 DEF DoRaiseEx
  <2>2. CASE handlerSp # 0 BY <1>2, <2>1, <2>2, CaughtStep
  <2>3. CASE handlerSp = 0 BY <1>2, <2>1, <2>3, UncaughtStep
  <2> QED BY <2>2, <2>3
<1>3. CASE RaiseEx \/ RaiseOverflow \/ (Stepping /\ RtsRaises)
  <2>1. Stepping /\ \E x \in Packets : DoRaiseEx(x)
    BY <1>3, MachineConstants DEF RaiseEx, RaiseOverflow, RtsRaises
  <2>2. status = "running" /\ ~Native /\ ~Doomed BY <2>1 DEF Stepping, Interpreting, Doomed
  <2> QED BY <1>2, <2>1, <2>2
<1>4. CASE DivByZero \/ StackOverflows
  <2>1. PICK x \in HardErrors : Stepping /\ Fails(x) /\ x # "heap"
    BY <1>4 DEF DivByZero, StackOverflows, HardErrors
  <2>2. status = "running" /\ ~Native BY <2>1 DEF Stepping, Interpreting
  <2> QED BY <2>1, <2>2, FailStep
<1>5. CASE HeapExhausted
  <2>1. Stepping /\ ~InNestedRun /\ Fails("heap") BY <1>5 DEF HeapExhausted
  <2>2. status = "running" /\ ~Native BY <2>1 DEF Stepping, Interpreting
  <2>3. nest = <<>>
    <3> SUFFICES ASSUME nest # <<>> PROVE FALSE OBVIOUS
    <3>1. nest \in Seq(NestedFrame) BY <1>1 DEF DataOK
    <3>2. DOMAIN nest = 1..Len(nest) /\ Len(nest) \in Nat /\ Len(nest) # 0 BY <3>1
    <3>3. 1 \in DOMAIN nest /\ 1 <= Len(nest) BY <3>2
    <3>4. Outer = Len(nest) BY <2>2 DEF Outer
    <3>5. nest[1].saved # None BY <1>1, <3>3, <3>4 DEF NestOK
    <3> QED BY <2>1, <3>3, <3>5 DEF InNestedRun
  <2>4. "heap" \in HardErrors BY DEF HardErrors
  <2>5. PICK x \in HardErrors : x = "heap" BY <2>4
  <2> QED BY <2>1, <2>2, <2>3, <2>5, FailStep
<1>6. CASE HookRaises
  <2>1. status = "escaped" /\ ~Native BY <1>1, <1>6 DEF HookRaises, PhaseOK
  <2>2. PICK x : x = flight OBVIOUS
  <2>3. x \in (Packets \cup HardErrors) \ {"heap"} BY <1>1, <2>1, <2>2 DEF FlightOK
  <2>4. CASE x \in HardErrors
    <3>1. Fails(x) /\ x # "heap" BY <1>6, <2>2, <2>3, <2>4 DEF HookRaises
    <3> QED BY <2>1, <2>2, <2>4, <3>1, FailStep
  <2>5. CASE x \notin HardErrors
    <3>1. DoRaiseEx(x) /\ x \in Packets /\ ~Doomed BY <1>6, <2>2, <2>3, <2>5 DEF HookRaises, Doomed
    <3> QED BY <1>2, <2>1, <2>2, <3>1
  <2> QED BY <2>4, <2>5
<1> QED BY <1>3, <1>4, <1>5, <1>6

-----------------------------------------------------------------------------
(* Calls *)

\* The callee c, entered on the k words on top: its arguments, and what the
\* closure was found in if that was an operand.
EntersBy(c, k) ==
  /\ c \in Codes /\ k \in {Arity[c], Arity[c] + 1} /\ DataOnTop(k)
  /\ Len(base') = Len(base) + 1 /\ \A i \in 1..Len(base) : base'[i] = base[i]
  /\ base'[Len(base) + 1].code = c /\ base'[Len(base) + 1].h = Height'
  /\ Height' = Height - k + Arity[c] + 2 /\ \A i \in 1..(Height - k) : stack'[i] = stack[i]
  /\ HandlerRegisters' \cup {0} = HandlerRegisters \cup {0}
  /\ ~base'[Len(base) + 1].native => pc'.p = 0
  /\ Len(nest) <= Len(nest')
  /\ \A j \in 1..Len(nest) : nest'[j].top = nest[j].top /\ HookPc(j)' = HookPc(j)
  /\ Outer <= Outer' /\ \A j \in 1..Outer : Caller(j)' = Caller(j)
  /\ EntryOK(Len(base))'

LEMMA EntersStep ==
  ASSUME Sound, MachineInv', FreshInv', status = "running", status' = "running", exn' = exn,
         halt' => nest' = <<>>, NEW c, NEW k, EntersBy(c, k)
  PROVE  CallInv' /\ A!Next
<1>1. Clear
  <2>1. ~Doomed BY DEF Doomed
  <2> QED BY <2>1, ClearKnown
<1>2. /\ DataOK /\ BaseOK /\ NestOK /\ EntriesOK /\ BlockFacts /\ OwnFacts /\ DataFacts /\ BaseFacts
      /\ DataOK' /\ NestOK'
  BY <1>1, SoundParts DEF Clear, MachineInv, Live
<1>3. PICK l, m, t, n : l = Len(base) /\ m = Height - k /\ t = Height /\ n = Arity[c] OBVIOUS
<1>4. /\ c \in Codes /\ k \in {n, n + 1} /\ DataOnTop(k)
      /\ Len(base') = l + 1 /\ (\A i \in 1..l : base'[i] = base[i])
      /\ base'[l + 1].code = c /\ base'[l + 1].h = Height'
      /\ Height' = m + n + 2 /\ (\A i \in 1..m : stack'[i] = stack[i])
      /\ HandlerRegisters' \cup {0} = HandlerRegisters \cup {0}
      /\ (~base'[l + 1].native => pc'.p = 0)
      /\ Len(nest) <= Len(nest')
      /\ (\A j \in 1..Len(nest) : nest'[j].top = nest[j].top /\ HookPc(j)' = HookPc(j))
      /\ Outer <= Outer' /\ (\A j \in 1..Outer : Caller(j)' = Caller(j))
      /\ EntryOK(l + 1)'
  <2>1. Len(base) = l /\ Height - k = m /\ Arity[c] = n BY <1>3
  <2>2. EntersBy(c, k) OBVIOUS
  <2>3. c \in Codes /\ k \in {n, n + 1} /\ DataOnTop(k) BY <2>1, <2>2, Zenon DEF EntersBy
  <2>4. Len(base') = l + 1 /\ \A i \in 1..l : base'[i] = base[i] BY <2>1, <2>2, Zenon DEF EntersBy
  <2>5. base'[l + 1].code = c /\ base'[l + 1].h = Height' BY <2>1, <2>2, Zenon DEF EntersBy
  <2>6. Height' = m + n + 2 /\ \A i \in 1..m : stack'[i] = stack[i]
    BY <2>1, <2>2, Zenon DEF EntersBy
  <2>7. HandlerRegisters' \cup {0} = HandlerRegisters \cup {0} /\ (~base'[l + 1].native => pc'.p = 0)
    BY <2>1, <2>2, Zenon DEF EntersBy
  <2>8. Len(nest) <= Len(nest') /\ \A j \in 1..Len(nest) : nest'[j].top = nest[j].top /\ HookPc(j)' = HookPc(j)
    BY <2>2, Zenon DEF EntersBy
  <2>9. Outer <= Outer' /\ \A j \in 1..Outer : Caller(j)' = Caller(j) BY <2>2, Zenon DEF EntersBy
  <2>10. EntryOK(l + 1)'
    <3>1. EntryOK(Len(base))' BY <2>2, Zenon DEF EntersBy
    <3>2. PICK q : q = Len(base') OBVIOUS
    <3>3. EntryOK(q)' BY <3>1, <3>2 DEF EntryOK
    <3>4. q = l + 1 BY <2>4, <3>2
    <3> QED BY <3>3, <3>4
  <2> QED BY <2>3, <2>4, <2>5, <2>6, <2>7, <2>8, <2>9, <2>10
<1>5. n \in Nat /\ k \in Nat
  <2>1. n \in Nat BY <1>3, <1>4, MachineConstants
  <2> QED BY <1>4, <2>1
<1>6. m \in Nat /\ m <= Height /\ Top.h <= m /\ \A x \in Blocks : x <= m BY <1>1, <1>3, <1>4, <1>5, OverBlocks
<1>7. /\ l \in Nat /\ l \in 1..Len(base) /\ Top = base[l] /\ Top.h \in Nat /\ t \in Nat /\ t = Len(stack)
      /\ \A i \in 1..l : /\ base[i].h - 1 \in 1..Top.h /\ base[i].h \in Nat /\ base[i].h <= Top.h
                         /\ Floor(i) \in Nat /\ Floor(i) + 2 <= base[i].h
  BY <1>1, <1>3, HeightsKnown
<1>8. /\ Ceiling(l) = Height /\ Own(l) = {x \in Blocks : base[l].h < x}
      /\ Temps(l) \in Int /\ Temps(l) >= Height - m
      /\ Temps(l) = Height - base[l].h - 2 * Cardinality(Own(l))
  BY <1>1, <1>3, <1>6, TopKept
<1>9. l + 1 \in 1..Len(base') /\ l \in 1..Len(base') /\ l \in 1..l /\ l < Len(base') BY <1>4, <1>7
<1>10. Keeps(m, l)
  <2>1. l \in 0..Len(base) /\ l <= Len(base') /\ m \in 0..Height
    BY <1>3, <1>4, <1>5, <1>6, <1>7, <1>9
  <2>2. m <= Len(stack')
    <3>1. PICK y : y = Height' OBVIOUS
    <3>2. y = m + n + 2 BY <1>4, <3>1
    <3>3. Len(stack') = y BY <3>1 DEF Height
    <3>4. m <= y BY ONLY <1>5, <1>6, <3>2
    <3> QED BY <3>3, <3>4
  <2> QED BY <1>4, <2>1, <2>2 DEF Keeps
<1>11. Len(nest) \in Nat /\ Outer \in Nat /\ Outer' \in Nat
  <2>1. Outer \in Nat BY <1>2, CutsKnown
  <2>2. Len(nest) \in Nat /\ Len(nest') \in Nat BY <1>2, DataNext DEF DataFacts
  <2>3. Outer' \in Nat \/ Outer' = Len(nest') - 1 \/ Outer' = Len(nest') BY DEF Outer
  <2>4. Outer' \in Int BY <2>2, <2>3
  <2> QED BY <1>4, <2>1, <2>2, <2>4
<1>12. EntriesOK'
  <2>1. PICK w, g, u : w = Len(nest) /\ g = Outer /\ u = l + 1 OBVIOUS
  <2>2. w \in Nat /\ w <= Len(nest) /\ w <= Len(nest') /\ g \in Nat /\ Outer \in Nat /\ Outer' \in Nat /\ g <= Outer'
    BY <1>4, <1>11, <2>1
  <2>3. \A j \in 1..w : nest'[j].top = nest[j].top BY <1>4, <2>1
  <2>4. \A j \in 1..Len(nest) : w < j => base[l].h < nest[j].top + 2 BY <1>11, <2>1
  <2>5. \A j \in 1..g : Caller(j)' = Caller(j) BY <1>4, <2>1
  <2>6. \A j \in 1..Outer : g < j => Caller(j) >= l BY <1>11, <2>1
  <2>7. u = Len(base') /\ (u = l \/ u = l + 1) BY <1>4, <2>1
  <2>8. l >= 1 => base[l].h <= m BY <1>6, <1>7
  <2>9. u = l + 1 /\ l >= 1 => EntryOK(l + 1)' BY <1>4
  <2>10. DataOK /\ BaseOK /\ EntriesOK /\ m \in Nat /\ l \in Nat BY <1>2, <1>6, <1>7
  <2> QED BY ONLY <1>10, <2>2, <2>3, <2>4, <2>5, <2>6, <2>7, <2>8, <2>9, <2>10, EntriesStep
<1>13. CallInv' BY <1>12, GoesOn
<1>14. Clear'
  <2>1. Sound' /\ ~Doomed' BY <1>13 DEF Sound, Live, Doomed
  <2> QED BY <2>1, ClearNext
<1>15. \A x \in Blocks : x \in 1..m /\ x - 1 \in 1..m
  <2> SUFFICES ASSUME NEW x \in Blocks PROVE x \in 1..m /\ x - 1 \in 1..m OBVIOUS
  <2>1. x \in 2..t BY <1>2, <1>3 DEF BlockFacts
  <2> QED BY <1>6, <1>7, <2>1
<1>16. Blocks' = Blocks
  <2>1. \A x \in Blocks : stack'[x - 1].hsp = stack[x - 1].hsp BY <1>4, <1>15
  <2> QED BY <1>2, <1>4, <2>1, BlocksSame
<1>17. Stays(l, Len(nest))
  <2>1. Floor(l)' = Floor(l) /\ base'[l].native = base[l].native /\ base'[l].h = base[l].h
    BY <1>4, <1>9 DEF Floor
  <2>2. \A i \in 2..l : stack'[base'[i].h - 1].pc.p = stack[base[i].h - 1].pc.p
    <3> SUFFICES ASSUME NEW i \in 2..l PROVE stack'[base'[i].h - 1].pc.p = stack[base[i].h - 1].pc.p
      OBVIOUS
    <3>1. i \in 1..l BY <1>7
    <3>2. PICK g : g = base[i].h - 1 OBVIOUS
    <3>3. g \in 1..Top.h BY <1>7, <3>1, <3>2
    <3>4. g \in 1..m
      <4>1. PICK y : y = Top.h OBVIOUS
      <4>2. y \in Nat /\ y <= m /\ g \in 1..y BY <1>6, <1>7, <3>3, <4>1
      <4> QED BY ONLY <1>6, <4>2
    <3>5. stack'[g] = stack[g] BY <1>4, <3>4
    <3>6. base'[i].h - 1 = g BY <1>4, <3>1, <3>2
    <3> QED BY <3>2, <3>5, <3>6
  <2>3. \A x \in Blocks : x \in Blocks' /\ stack'[x].pc.p = stack[x].pc.p BY <1>4, <1>15, <1>16
  <2>4. \A x \in Blocks' : x \in Blocks BY <1>16
  <2>5. \A j \in 1..Len(nest) : Len(nest) < j => base[l].h < nest[j].top + 2 BY <1>11
  <2>6. Len(nest) <= Len(nest) /\ Len(nest) <= Len(nest') BY <1>4, <1>11
  <2>7. l <= Len(base') BY <1>4, <1>7
  <2>8. \A i \in 1..(l - 1) : base'[i] = base[i]
    <3>1. \A i \in 1..(l - 1) : i \in 1..l BY <1>7
    <3> QED BY <1>4, <3>1
  <2> QED BY <1>4, <1>7, <1>11, <2>1, <2>2, <2>3, <2>4, <2>5, <2>6, <2>7, <2>8, Zenon DEF Stays
<1>18. PICK a, z : Chains(a, z, l) BY <1>1, <1>14, <1>17, ChainsKnown
<1>19. Ceiling(l)' = m /\ Ceiling(l + 1)' = Height'
  <2>1. CeilingFacts' BY <1>14 DEF Clear
  <2>2. Ceiling(l + 1)' = Height' BY <1>4, <1>9, <2>1 DEF CeilingFacts
  <2>3. Ceiling(l)' = Floor(l + 1)' BY <1>9, <2>1 DEF CeilingFacts
  <2>4. PICK e : e = base'[l + 1] OBVIOUS
  <2>5. e.h = m + n + 2 /\ e.code = c BY <1>4, <2>4
  <2>6. Floor(l + 1)' = e.h - 2 - Arity[e.code] BY <2>4 DEF Floor
  <2>7. PICK y, u, v : y = e.h /\ u = e.code /\ v = Arity[u] OBVIOUS
  <2>8. y = m + n + 2 /\ v = n BY <1>3, <2>5, <2>7
  <2>9. Floor(l + 1)' = y - 2 - v BY <2>6, <2>7
  <2>10. y - 2 - v = m BY ONLY <1>5, <1>6, <2>8
  <2> QED BY <2>2, <2>3, <2>9, <2>10
<1>20. Own(l)' = Own(l) /\ Hs(l)' = Hs(l)
  <2>1. Own(l)' = {x \in Blocks : base[l].h < x /\ x <= m}
    BY <1>4, <1>9, <1>16, <1>19 DEF Own, BlocksIn
  <2>2. Own(l)' = Own(l) BY <1>6, <1>8, <2>1
  <2>3. \A x \in Own(l) : stack'[x].pc.p = stack[x].pc.p BY <1>4, <1>8, <1>15
  <2>4. base'[l].h = base[l].h BY <1>4, <1>9
  <2> QED BY <1>2, <1>7, <2>2, <2>3, <2>4, HsKept
<1>21. Temps(l)' = Temps(l) - k /\ Temps(l) >= k
  <2>1. Temps(l)' = Ceiling(l)' - base'[l].h - 2 * Cardinality(Own(l)')
    BY <1>9, <1>14 DEF Clear, ActFacts
  <2>2. PICK lo, d, u, v : lo = base[l].h /\ d = Cardinality(Own(l)) /\ u = Temps(l) /\ v = Ceiling(l)'
    OBVIOUS
  <2>3. Temps(l)' = v - lo - 2 * d BY <1>4, <1>9, <1>20, <2>1, <2>2
  <2>4. u = t - lo - 2 * d /\ u >= t - m /\ v = m /\ m = t - k BY <1>3, <1>8, <1>19, <2>2
  <2>5. d \in Nat /\ lo \in Nat BY <1>2, <1>7, <2>2 DEF OwnFacts
  <2>6. v - lo - 2 * d = u - k /\ u >= k BY ONLY <1>5, <1>6, <1>7, <2>4, <2>5
  <2> QED BY <2>2, <2>3, <2>6
<1>22. Act(l + 1)' = A!Fresh(c)
  <2>1. PICK q : q = l + 1 OBVIOUS
  <2>2. q \in 1..Len(base') /\ q = Len(base') BY <1>4, <1>9, <2>1
  <2>3. Own(q)' = {}
    <3>1. \A x \in Blocks : ~ (base'[q].h < x)
      <4> SUFFICES ASSUME NEW x \in Blocks, base'[q].h < x PROVE FALSE OBVIOUS
      <4>1. x <= m /\ x \in 1..m BY <1>6, <1>15
      <4>2. base'[q].h = m + n + 2 BY <1>4, <2>1
      <4> QED BY <1>5, <1>6, <4>1, <4>2
    <3> QED BY <1>16, <3>1 DEF Own, BlocksIn
  <2>4. ActFacts' BY <1>14 DEF Clear
  <2>5. Hs(q)' = <<>> BY <2>2, <2>3, <2>4 DEF ActFacts
  <2>6. Temps(q)' = 0
    <3>1. Temps(q)' = Ceiling(q)' - base'[q].h - 2 * Cardinality(Own(q)')
      BY <2>2, <2>4 DEF ActFacts
    <3>2. Ceiling(q)' = m + n + 2 /\ base'[q].h = m + n + 2 BY <1>4, <1>19, <2>1
    <3>3. Cardinality(Own(q)') = 0 BY <2>3, FS_EmptySet
    <3> QED BY <1>5, <1>6, <3>1, <3>2, <3>3
  <2>7. Pos(q)' = 0
    <3>1. PcAt(q)' = pc' BY <2>2 DEF PcAt
    <3> QED BY <1>4, <2>1, <3>1 DEF Pos
  <2>8. Act(q)' = [code |-> base'[q].code, pos |-> Pos(q)', temps |-> Temps(q)', hs |-> Hs(q)']
    BY DEF Act
  <2> QED BY <1>4, <2>1, <2>5, <2>6, <2>7, <2>8 DEF A!Fresh
<1>23. A!Calls(a, z)
  <2>1. /\ a \in Seq(Acts) /\ z \in Seq(Acts) /\ Len(a) = l /\ Len(z) = l + 1
        /\ a[l] = Act(l) /\ z[l] = Act(l)' /\ z[l + 1] = Act(l + 1)'
        /\ \A i \in 1..(l - 1) : z[i] = a[i]
    BY <1>3, <1>4, <1>7, <1>9, <1>18 DEF Chains
  <2>2. Agree(Acts, a, z, l) BY <1>7, <2>1 DEF Agree
  <2>3. z[l + 1] = A!Fresh(c) BY <1>22, <2>1
  <2>4. a[l].temps >= k /\ k \in {Arity[c], Arity[c] + 1} /\ c \in Codes
    BY <1>3, <1>4, <1>21, <2>1 DEF Act
  <2>5. z[l] = A!Goes(a[l], z[l].pos, a[l].temps - k, a[l].hs)
    <3>1. Act(l)' = [code |-> base'[l].code, pos |-> Pos(l)', temps |-> Temps(l)', hs |-> Hs(l)']
      BY DEF Act
    <3>2. base'[l].code = base[l].code BY <1>4, <1>9
    <3>3. z[l] = [code |-> base[l].code, pos |-> z[l].pos, temps |-> Temps(l) - k, hs |-> Hs(l)]
      BY <1>20, <1>21, <2>1, <3>1, <3>2
    <3>4. a[l].code = base[l].code /\ a[l].temps = Temps(l) /\ a[l].hs = Hs(l) BY <2>1 DEF Act
    <3> QED BY <3>3, <3>4 DEF A!Goes
  <2>6. Len(z) = l + 1 BY <2>1
  <2> QED BY ONLY <2>2, <2>3, <2>4, <2>5, <2>6, IsCall
<1>24. A!Calls(Activated, Activated') BY <1>18, <1>23 DEF Chains
<1> QED BY <1>13, <1>24, IsRun

\* What a Rust frame that stays is known by.
FrameStays(g) ==
  /\ Outer = g /\ Outer' = g
  /\ \A j \in 1..g : nest'[j] = nest[j] /\ nest[j].saved # None

LEMMA FramesStay ==
  ASSUME NEW g, FrameStays(g), handlerSp' = handlerSp
  PROVE  /\ HandlerRegisters' = HandlerRegisters
         /\ \A j \in 1..g : nest'[j].top = nest[j].top /\ HookPc(j)' = HookPc(j) /\ Caller(j)' = Caller(j)
<1>1. Outer = g /\ Outer' = g /\ \A j \in 1..g : nest'[j] = nest[j] /\ nest[j].saved # None
  BY DEF FrameStays
<1>2. Saves = {nest[j].saved.handlerSp : j \in 1..g} BY <1>1, Zenon DEF Saves
<1>3. Saves' = {nest'[j].saved.handlerSp : j \in 1..g} BY <1>1, Zenon DEF Saves
<1>4. Saves' = Saves BY <1>1, <1>2, <1>3
<1>5. HandlerRegisters' = HandlerRegisters BY <1>4 DEF HandlerRegisters
<1>6. \A j \in 1..g : nest'[j].top = nest[j].top /\ HookPc(j)' = HookPc(j) /\ Caller(j)' = Caller(j)
  BY <1>1 DEF HookPc, Caller
<1> QED BY <1>5, <1>6

\* do_call leaves the Rust frames of the runs below.
LEMMA DoCallFrames ==
  ASSUME DataOK, NestOK, ~Native, NEW c \in Codes, NEW p, NEW s, DoCall(c, p, s)
  PROVE  /\ FrameStays(Len(nest)) /\ Len(nest) \in Nat /\ Len(nest) <= Len(nest')
         /\ c \in Regions => /\ Len(nest) + 1 \in DOMAIN nest' /\ nest'[Len(nest) + 1].top = Len(s)
<1>1. PICK g : g = Len(nest) OBVIOUS
<1>2. g \in Nat /\ DOMAIN nest = 1..g /\ nest \in Seq(NestedFrame) BY <1>1, DataKnown DEF DataOK, DataFacts
<1>3. Outer = g BY <1>1 DEF Outer
<1>4. \A j \in 1..g : nest[j].saved # None BY <1>2, <1>3 DEF NestOK
<1>5. CASE c \in Regions
  <2>1. PICK f : f = [top |-> Len(s), saved |-> None] OBVIOUS
  <2>2. nest' = Append(nest, f) BY <1>5, <2>1 DEF DoCall
  <2>3. Len(nest') = g + 1 /\ DOMAIN nest' = 1..(g + 1) /\ nest'[g + 1] = f
        /\ \A j \in 1..g : nest'[j] = nest[j]
    BY ONLY <1>1, <1>2, <2>2
  <2>4. Last(nest') = f
    <3>1. Last(nest') = nest'[Len(nest')] BY DEF Last
    <3> QED BY <2>3, <3>1
  <2>5. nest' # <<>>
    <3>1. Len(<<>>) = 0 OBVIOUS
    <3>2. Len(nest') # 0 BY ONLY <1>2, <2>3
    <3> QED BY <3>1, <3>2
  <2>6. Native' BY <2>1, <2>4, <2>5 DEF Native
  <2>7. Outer' = Len(nest') - 1 BY <2>6 DEF Outer
  <2>8. Outer' = g BY ONLY <1>2, <2>3, <2>7
  <2>9. g + 1 \in DOMAIN nest' /\ nest'[g + 1].top = Len(s) /\ g <= Len(nest')
    BY <1>2, <2>1, <2>3
  <2> QED BY <1>1, <1>2, <1>3, <1>4, <2>3, <2>8, <2>9 DEF FrameStays
<1>6. CASE c \notin Regions
  <2>1. nest' = nest BY <1>6 DEF DoCall, outer
  <2>2. ~Native' BY <2>1 DEF Native
  <2>3. Outer' = g BY <1>1, <2>1, <2>2 DEF Outer
  <2> QED BY <1>1, <1>2, <1>3, <1>4, <1>6, <2>1, <2>3 DEF FrameStays
<1> QED BY <1>5, <1>6

LEMMA DoCallStep ==
  ASSUME Sound, MachineInv', FreshInv', Stepping, NEW c \in Codes, NEW p \in Places,
         NEW s \in Seq(Word), NEW k \in {Arity[c], Arity[c] + 1}, DataOnTop(k),
         Len(s) = Height - k + Arity[c], \A i \in 1..(Height - k) : s[i] = stack[i],
         DoCall(c, p, s)
  PROVE  CallInv' /\ A!Next
<1>1. status = "running" /\ ~Native /\ ~halt BY DEF Stepping, Interpreting
<1>2. status' = "running" /\ exn' = exn /\ ~halt' /\ handlerSp' = handlerSp
  BY <1>1 DEF DoCall, outer
<1>3. DataOK /\ BaseOK /\ NestOK /\ DataFacts BY SoundParts
<1>4. PICK l, v, x : l = Len(base) /\ v = (c \in Regions) /\ x = Height - k OBVIOUS
<1>5. l \in Nat /\ l >= 1 /\ base \in Seq([code : Codes, h : Nat, native : BOOLEAN])
  BY <1>3, <1>4, TopKnown DEF DataOK
<1>6. PICK e : e = Activation(c, Len(s) + 2, v) OBVIOUS
<1>7. base' = Append(base, e) BY <1>4, <1>6 DEF DoCall
<1>8. e.code = c /\ e.h = Len(s) + 2 /\ e.native = v BY <1>6 DEF Activation
<1>9. Len(base') = l + 1 /\ base'[l + 1] = e /\ \A i \in 1..l : base'[i] = base[i]
  BY ONLY <1>4, <1>5, <1>7
<1>10. \E w \in Word : stack' = s \o <<w, Data>> /\ (~v => w # Zero)
  <2>1. CASE v
    <3>1. stack' = s \o <<Zero, Data>> BY <1>4, <2>1 DEF DoCall
    <3> QED BY <2>1, <3>1, WordsKnown
  <2>2. CASE ~v
    <3>1. PICK a : a = [pc EXCEPT !.p = p] OBVIOUS
    <3>2. a \in Address BY <1>3, <3>1 DEF DataOK, Address
    <3>3. stack' = s \o <<CodeAddr(a), Data>> BY <1>4, <2>2, <3>1 DEF DoCall
    <3>4. CodeAddr(a) # Zero BY DEF CodeAddr, Zero
    <3> QED BY <3>2, <3>3, <3>4, WordsKnown
  <2> QED BY <1>4, <2>1, <2>2
<1>11. PICK w \in Word : stack' = s \o <<w, Data>> /\ (~v => w # Zero) BY <1>10
<1>12. /\ Len(stack') = Len(s) + 2 /\ stack'[Len(s) + 1] = w
       /\ \A i \in 1..Len(s) : stack'[i] = s[i]
  BY <1>11, Pushed, WordsKnown
<1>13. Len(s) \in Nat /\ x \in Nat /\ x <= Len(s) /\ Arity[c] \in Nat /\ k \in Nat
  <2>1. Len(s) \in Nat /\ Arity[c] \in Nat BY MachineConstants
  <2>2. k \in Nat BY <2>1
  <2>3. ~Doomed BY <1>1 DEF Doomed
  <2>4. x \in Nat BY <1>4, <2>2, <2>3, ClearKnown, OverBlocks
  <2> QED BY <1>4, <2>1, <2>2, <2>4
<1>14. Height' = Len(s) + 2 BY <1>12 DEF Height
<1>15. /\ FrameStays(Len(nest)) /\ Len(nest) \in Nat /\ Len(nest) <= Len(nest')
       /\ v => Len(nest) + 1 \in DOMAIN nest' /\ nest'[Len(nest) + 1].top = Len(s)
  BY <1>1, <1>3, <1>4, DoCallFrames
<1>16. Outer = Len(nest) /\ Outer' = Len(nest) BY <1>15 DEF FrameStays
<1>17. /\ HandlerRegisters' = HandlerRegisters
       /\ \A j \in 1..Len(nest) : nest'[j].top = nest[j].top /\ HookPc(j)' = HookPc(j)
                                  /\ Caller(j)' = Caller(j)
  BY <1>2, <1>15, FramesStay
<1>18. ~v => pc'.p = 0
  <2>1. ~v => pc' = Addr(c, 0) BY <1>4 DEF DoCall
  <2> QED BY <2>1 DEF Addr
<1>19. EntryOK(Len(base))'
  <2>1. ~base[l].native BY <1>1, <1>3, <1>4 DEF NestOK
  <2>2. PICK q : q = l + 1 OBVIOUS
  <2>3. base'[q] = e /\ ~base'[q - 1].native /\ Len(base') = q
    <3>1. q - 1 = l /\ l \in 1..l BY ONLY <1>5, <2>2
    <3> QED BY <1>9, <2>1, <2>2, <3>1
  <2>4. CASE v
    <3>1. \E j \in DOMAIN nest' : base'[q].h = nest'[j].top + 2 BY <1>8, <1>15, <2>3, <2>4
    <3> QED BY <1>8, <2>3, <2>4, <3>1 DEF EntryOK
  <2>5. CASE ~v
    <3>1. base'[q].h - 1 = Len(s) + 1 BY <1>8, <1>13, <2>3
    <3>2. stack'[base'[q].h - 1] # Zero BY <1>11, <1>12, <2>5, <3>1
    <3> QED BY <1>8, <2>3, <2>5, <3>2 DEF EntryOK
  <2> QED BY <1>4, <2>4, <2>5
<1>20. EntersBy(c, k)
  <2>1. base'[l + 1].code = c /\ base'[l + 1].h = Height' /\ base'[l + 1].native = v
    BY <1>8, <1>9, <1>14
  <2>2. Height' = Height - k + Arity[c] + 2 BY <1>14
  <2>3. \A i \in 1..(Height - k) : stack'[i] = stack[i]
    <3>1. \A i \in 1..x : i \in 1..Len(s) BY <1>13
    <3> QED BY <1>4, <1>12, <3>1
  <2>4. HandlerRegisters' \cup {0} = HandlerRegisters \cup {0} BY <1>17
  <2>5. ~base'[l + 1].native => pc'.p = 0 BY <1>18, <2>1
  <2>6. Outer <= Outer' /\ \A j \in 1..Outer : Caller(j)' = Caller(j) BY <1>15, <1>16, <1>17
  <2> QED BY <1>4, <1>9, <1>15, <1>17, <1>19, <2>1, <2>2, <2>3, <2>4, <2>5, <2>6, Zenon DEF EntersBy
<1> QED BY <1>1, <1>2, <1>20, EntersStep

\* Calls by do_call, from an instruction or from the runtime.
LEMMA CallStepped ==
  ASSUME Sound, MachineInv', FreshInv',
         Call \/ \E n \in 1..2 : Stepping /\ DataOnTop(n) /\ RtsCallsBack(n)
  PROVE  CallInv' /\ A!Next
<1>1. DataOK /\ DataFacts BY SoundParts
<1>2. Stepping BY DEF Call
<1>3. Clear
  <2>1. ~Doomed BY <1>2 DEF Stepping, Interpreting, Doomed
  <2> QED BY <2>1, ClearKnown
<1>4. ReturnPlaces \subseteq Places BY MachineConstants
<1>5. CASE Call
  <2>1. PICK c \in Codes, p \in ReturnPlaces, n \in 0..1 :
          DataOnTop(Arity[c] + n) /\ DoCall(c, p, Shuffled(n, 0))
    BY <1>5 DEF Call
  <2>2. PICK a, t : a = Arity[c] /\ t = Height OBVIOUS
  <2>3. a \in Nat /\ t \in Nat /\ a + n \in Nat /\ n \in Nat /\ n <= a + n
    <3>1. a \in Nat BY <2>2, MachineConstants
    <3>2. t \in Nat BY <1>1, <2>2 DEF DataFacts
    <3> QED BY <3>1, <3>2
  <2>4. t - (a + n) \in Nat BY <1>3, <2>1, <2>2, <2>3, OverBlocks
  <2>5. PICK s, u : s = Shuffled(n, 0) /\ u = t - n OBVIOUS
  <2>6. u \in 0..t /\ \A i \in 1..(t - (a + n)) : i \in 1..u BY ONLY <2>3, <2>4, <2>5
  <2>7. s \in Seq(Word) /\ Len(s) = u + 0 /\ \A i \in 1..u : s[i] = stack[i]
    <3>1. 0 \in Nat /\ u = Height - n /\ u \in 0..Height BY <2>2, <2>5, <2>6
    <3> QED BY <1>1, <2>3, <2>5, <3>1, ShuffledKnown
  <2>8. Len(s) = t - (a + n) + a
    <3>1. Len(s) = t - n BY <2>3, <2>5, <2>7
    <3> QED BY ONLY <2>3, <3>1
  <2>9. a + n \in {a, a + 1} BY ONLY <2>3, <2>1
  <2>10. \A i \in 1..(t - (a + n)) : s[i] = stack[i] BY <2>6, <2>7
  <2>11. p \in Places BY <1>4
  <2>12. DataOnTop(a + n) /\ DoCall(c, p, s) BY <2>1, <2>2, <2>5
  <2>13. PICK k : k = a + n OBVIOUS
  <2>14. k \in {Arity[c], Arity[c] + 1} BY <2>2, <2>9, <2>13
  <2>15. Len(s) = Height - k + Arity[c] BY <2>2, <2>8, <2>13
  <2>16. \A i \in 1..(Height - k) : s[i] = stack[i] BY <2>2, <2>10, <2>13
  <2>17. DataOnTop(k) BY <2>12, <2>13
  <2> QED BY <1>2, <2>7, <2>11, <2>12, <2>14, <2>15, <2>16, <2>17, DoCallStep
<1>6. CASE \E n \in 1..2 : Stepping /\ DataOnTop(n) /\ RtsCallsBack(n)
  <2>1. PICK n \in 1..2, c \in Codes, p \in ReturnPlaces :
          DataOnTop(n) /\ n = 2 /\ Arity[c] = 1 /\ DoCall(c, p, Shuffled(n, 1))
    BY <1>6 DEF RtsCallsBack
  <2>2. PICK t : t = Height OBVIOUS
  <2>3. t - 2 \in Nat /\ t \in Nat
    <3>1. DataOnTop(2) /\ 2 \in Nat BY <2>1
    <3> QED BY <1>1, <1>3, <2>2, <3>1, OverBlocks DEF DataFacts
  <2>4. PICK s, u : s = Shuffled(2, 1) /\ u = t - 2 OBVIOUS
  <2>5. s \in Seq(Word) /\ Len(s) = u + 1 /\ \A i \in 1..u : s[i] = stack[i]
    <3>1. PICK y \in Nat, z \in Nat : y = 2 /\ z = 1 OBVIOUS
    <3>2. u = Height - y /\ u \in 0..Height BY <2>2, <2>3, <2>4, <3>1
    <3>3. s = Shuffled(y, z) BY <2>4, <3>1
    <3>4. s \in Seq(Word) /\ Len(s) = u + z /\ \A i \in 1..u : s[i] = stack[i]
      BY <1>1, <3>2, <3>3, ShuffledKnown
    <3> QED BY <3>1, <3>4
  <2>6. PICK k : k = 2 OBVIOUS
  <2>7. k \in {Arity[c], Arity[c] + 1} /\ DataOnTop(k) BY <2>1, <2>6
  <2>8. Len(s) = Height - k + Arity[c] BY <2>1, <2>2, <2>4, <2>5, <2>6
  <2>9. \A i \in 1..(Height - k) : s[i] = stack[i] BY <2>2, <2>4, <2>5, <2>6
  <2>10. p \in Places /\ DoCall(c, p, s) BY <1>4, <2>1, <2>4
  <2> QED BY <1>2, <2>5, <2>7, <2>8, <2>9, <2>10, DoCallStep
<1> QED BY <1>5, <1>6

\* Native code runs the last activation of a region.
LEMMA NativeTop ==
  ASSUME DataOK, BaseOK, NestOK, Native
  PROVE  /\ base[Len(base)].native /\ Len(nest) \in Nat /\ Len(nest) >= 1 /\ nest # <<>>
         /\ nest[Len(nest)].saved = None /\ Outer = Len(nest) - 1 /\ Outer \in Nat
         /\ \A j \in 1..Outer : nest[j].saved # None
<1>1. Outer \in Nat /\ Len(nest) = Outer + 1 /\ RootOK(Len(nest), Len(base)) BY NestKnown
<1>2. PICK l : l = Len(base) OBVIOUS
<1>3. l \in Nat /\ l >= 1 BY <1>2, TopKnown
<1>4. base[Len(base)].native
  <2>1. PICK r \in 2..l : \A k \in r..l : base[k].native BY <1>1, <1>2 DEF RootOK
  <2>2. l \in r..l BY <1>3, <2>1
  <2> QED BY <1>2, <2>1, <2>2
<1>5. nest # <<>> /\ nest[Len(nest)].saved = None BY DEF Native, Last
<1>6. \A j \in 1..Outer : nest[j].saved # None
  <2> SUFFICES ASSUME NEW j \in 1..Outer PROVE nest[j].saved # None OBVIOUS
  <2>1. DOMAIN nest = 1..Len(nest) BY CutsKnown
  <2>2. j \in DOMAIN nest /\ j <= Outer BY <1>1, <2>1
  <2> QED BY <2>2 DEF NestOK
<1> QED BY <1>1, <1>4, <1>5, <1>6

\* A native activation calls another, or is called back from.
LEMMA FromNative ==
  ASSUME Sound, MachineInv', FreshInv', InRegion, NEW c \in Codes, NEW v \in BOOLEAN,
         DataOnTop(Arity[c]), stack' = stack \o <<Zero, Data>>,
         base' = Append(base, Activation(c, Height + 2, v)),
         status' = status, exn' = exn, halt' = halt,
         HandlerRegisters' \cup {0} = HandlerRegisters \cup {0},
         ~v => pc'.p = 0, Len(nest) <= Len(nest'),
         \A j \in 1..Len(nest) : nest'[j].top = nest[j].top /\ HookPc(j)' = HookPc(j),
         Outer <= Outer', \A j \in 1..Outer : Caller(j)' = Caller(j),
         ~v => \E j \in 1..Outer' : nest'[j].saved.caller = Len(base)
  PROVE  CallInv' /\ A!Next
<1>1. status = "running" /\ Native BY DEF InRegion
<1>2. DataOK /\ BaseOK /\ NestOK /\ DataFacts /\ HaltOK BY SoundParts
<1>3. PICK l, t, k : l = Len(base) /\ t = Height /\ k = Arity[c] OBVIOUS
<1>4. l \in Nat /\ l >= 1 /\ base \in Seq([code : Codes, h : Nat, native : BOOLEAN]) /\ t \in Nat
  BY <1>2, <1>3, TopKnown DEF DataOK
<1>5. PICK e : e = Activation(c, t + 2, v) OBVIOUS
<1>6. base' = Append(base, e) BY <1>3, <1>5
<1>7. e.code = c /\ e.h = t + 2 /\ e.native = v BY <1>5 DEF Activation
<1>8. Len(base') = l + 1 /\ base'[l + 1] = e /\ \A i \in 1..l : base'[i] = base[i]
  BY ONLY <1>3, <1>4, <1>6
<1>9. Len(stack') = t + 2 /\ \A i \in 1..t : stack'[i] = stack[i]
  <2>1. stack \in Seq(Word) /\ Len(stack) = t BY <1>2, <1>3 DEF DataOK, Height
  <2> QED BY <2>1, Pushed, WordsKnown
<1>10. k \in Nat /\ t - k \in Nat
  <2>1. k \in Nat BY <1>3, MachineConstants
  <2>2. Clear
    <3>1. ~Doomed BY <1>1 DEF Doomed
    <3> QED BY <3>1, ClearKnown
  <2>3. DataOnTop(k) BY <1>3
  <2> QED BY <1>3, <2>1, <2>2, <2>3, OverBlocks
<1>11. Height' = t + 2 BY <1>9 DEF Height
<1>12. EntryOK(Len(base))'
  <2>1. base[l].native BY <1>1, <1>2, <1>3, NativeTop
  <2>2. PICK q : q = l + 1 OBVIOUS
  <2>3. base'[q] = e /\ base'[q - 1].native /\ Len(base') = q /\ q - 1 = l
    <3>1. q - 1 = l /\ l \in 1..l BY ONLY <1>4, <2>2
    <3> QED BY <1>8, <2>1, <2>2, <3>1
  <2>4. CASE v BY <1>7, <2>3, <2>4 DEF EntryOK
  <2>5. CASE ~v
    <3>1. \E j \in 1..Outer' : Caller(j)' = q - 1 BY <1>3, <2>3, <2>5 DEF Caller
    <3> QED BY <1>7, <2>3, <2>5, <3>1 DEF EntryOK
  <2> QED BY <2>4, <2>5
<1>13. EntersBy(c, k)
  <2>1. base'[l + 1].code = c /\ base'[l + 1].h = Height' /\ base'[l + 1].native = v
    BY <1>7, <1>8, <1>11
  <2>2. Height' = Height - k + Arity[c] + 2
    <3>1. t + 2 = t - k + k + 2 BY ONLY <1>4, <1>10
    <3> QED BY <1>3, <1>11, <3>1
  <2>3. \A i \in 1..(Height - k) : stack'[i] = stack[i]
    <3>1. \A i \in 1..(t - k) : i \in 1..t BY <1>4, <1>10
    <3> QED BY <1>3, <1>9, <3>1
  <2>4. ~base'[l + 1].native => pc'.p = 0 BY <2>1
  <2>5. k \in {Arity[c], Arity[c] + 1} /\ DataOnTop(k) BY <1>3
  <2> QED BY <1>3, <1>8, <1>12, <2>1, <2>2, <2>3, <2>4, <2>5, Zenon DEF EntersBy
<1>14. halt' => nest' = <<>>
  <2>1. ~halt BY <1>1 , <1>2 DEF HaltOK, Native
  <2> QED BY <2>1
<1> QED BY <1>1, <1>13, <1>14, EntersStep

LEMMA NativeCallStep ==
  ASSUME Sound, MachineInv', FreshInv', NativeCall \/ NativeCallsBack
  PROVE  CallInv' /\ A!Next
<1>1. InRegion /\ Native BY DEF NativeCall, NativeCallsBack, InRegion
<1>2. DataOK /\ BaseOK /\ NestOK /\ DataFacts BY SoundParts
<1>3. /\ Len(nest) \in Nat /\ Len(nest) >= 1 /\ nest # <<>>
      /\ nest[Len(nest)].saved = None /\ Outer = Len(nest) - 1 /\ Outer \in Nat
      /\ \A j \in 1..Outer : nest[j].saved # None
  BY <1>1, <1>2, NativeTop
<1>4. CASE NativeCall
  <2>1. PICK c \in Regions : DataOnTop(Arity[c]) /\ base' = Append(base, Activation(c, Height + 2, TRUE))
    BY <1>4 DEF NativeCall
  <2>2. c \in Codes BY MachineConstants
  <2>3. /\ stack' = stack \o <<Zero, Data>> /\ nest' = nest /\ status' = status
        /\ pc' = pc /\ handlerSp' = handlerSp /\ exn' = exn /\ halt' = halt
    BY <1>4 DEF NativeCall, Registers
  <2>4. Outer' = Outer BY <2>3 DEF Outer, Native
  <2>5. \A j : HookPc(j)' = HookPc(j) /\ Caller(j)' = Caller(j) BY <2>3 DEF HookPc, Caller
  <2>6. HandlerRegisters' \cup {0} = HandlerRegisters \cup {0}
    BY <2>3, <2>4 DEF HandlerRegisters, Saves
  <2>7. Outer <= Outer' BY <1>3, <2>4
  <2>8. Len(nest) <= Len(nest') BY <1>3, <2>3
  <2> QED BY <1>1, <2>1, <2>2, <2>3, <2>5, <2>6, <2>7, <2>8, FromNative
<1>5. CASE NativeCallsBack
  <2>1. PICK c \in Codes : /\ DataOnTop(Arity[c])
                           /\ base' = Append(base, Activation(c, Height + 2, FALSE))
                           /\ pc' = Addr(c, 0)
    BY <1>5 DEF NativeCallsBack
  <2>2. /\ stack' = stack \o <<Zero, Data>> /\ status' = status
        /\ handlerSp' = 0 /\ exn' = exn /\ halt' = halt
    BY <1>5 DEF NativeCallsBack, IsolatedHandler
  <2>3. PICK g, r : g = Len(nest)
                    /\ r = [pc |-> pc, seg |-> seg, depth |-> Len(frames), handlerSp |-> handlerSp,
                            hdepth |-> Len(handlers), caller |-> Len(base)]
    OBVIOUS
  <2>4. r \in Registered /\ r # None
    <3>1. /\ pc \in [c : Codes, p : Places, at : Nat] /\ seg \in [c : Codes, at : Nat]
          /\ Len(frames) \in Nat /\ handlerSp \in Nat /\ Len(handlers) \in Nat /\ Len(base) \in Nat
      BY <1>2 DEF DataOK, DataFacts, Address, Segment
    <3>2. r \in Registered BY <2>3, <3>1 DEF Registered
    <3> QED BY <3>2, NothingSaved
  <2>5. nest' = [nest EXCEPT ![g].saved = r] BY <1>5, <2>3 DEF NativeCallsBack
  <2>6. /\ Len(nest') = g /\ g \in 1..g /\ g \in Nat /\ nest'[g].saved = r /\ nest'[g].top = nest[g].top
        /\ \A j \in 1..(g - 1) : nest'[j] = nest[j]
    <3>1. nest \in Seq(NestedFrame) BY <1>2 DEF DataOK
    <3>2. g \in Nat /\ g >= 1 /\ g = Len(nest) BY <1>3, <2>3
    <3>3. nest[g] \in NestedFrame BY <3>1, <3>2
    <3>4. nest[g] = [top |-> nest[g].top, saved |-> nest[g].saved] BY <3>3 DEF NestedFrame
    <3>5. PICK y : y = [nest[g] EXCEPT !.saved = r] OBVIOUS
    <3>6. y.saved = r /\ y.top = nest[g].top BY <3>4, <3>5
    <3>7. nest' = [nest EXCEPT ![g] = y] BY <2>5, <3>5
    <3>8. Len(nest') = g /\ nest'[g] = y /\ \A j \in 1..(g - 1) : nest'[j] = nest[j]
      BY ONLY <3>1, <3>2, <3>7
    <3> QED BY <3>2, <3>6, <3>8
  <2>7. nest' # <<>> /\ Last(nest') = nest'[g]
    <3>1. Len(<<>>) = 0 OBVIOUS
    <3>2. Last(nest') = nest'[Len(nest')] BY DEF Last
    <3> QED BY <2>6, <3>1, <3>2
  <2>8. ~Native' BY <2>4, <2>6, <2>7 DEF Native
  <2>9. Outer' = g /\ Outer = g - 1 BY <1>3, <2>3, <2>6, <2>8 DEF Outer
  <2>10. \A j \in 1..g : nest'[j].top = nest[j].top /\ HookPc(j)' = HookPc(j)
    <3> SUFFICES ASSUME NEW j \in 1..g PROVE nest'[j].top = nest[j].top /\ HookPc(j)' = HookPc(j)
      OBVIOUS
    <3>1. CASE j = g
      <4>1. HookPc(g) = pc.p BY <1>3, <2>3 DEF HookPc
      <4>2. HookPc(g)' = r.pc.p BY <2>4, <2>6 DEF HookPc
      <4>3. r.pc = pc BY <2>3
      <4> QED BY <2>6, <3>1, <4>1, <4>2, <4>3
    <3>2. CASE j # g
      <4>1. j \in 1..(g - 1) /\ nest'[j] = nest[j] BY <2>6, <3>2
      <4>2. nest[j].saved # None BY <1>3, <2>9, <4>1
      <4> QED BY <4>1, <4>2 DEF HookPc
    <3> QED BY <3>1, <3>2
  <2>11. \A j \in 1..Outer : Caller(j)' = Caller(j) BY <2>6, <2>9 DEF Caller
  <2>12. HandlerRegisters' \cup {0} = HandlerRegisters \cup {0}
    <3>1. Saves = {nest[j].saved.handlerSp : j \in 1..(g - 1)} BY <2>9, Zenon DEF Saves
    <3>2. Saves' = {nest'[j].saved.handlerSp : j \in 1..g} BY <2>9, Zenon DEF Saves
    <3>3. \A j \in 1..g : j = g \/ j \in 1..(g - 1) BY <2>6
    <3>4. \A j \in 1..(g - 1) : j \in 1..g BY <2>6
    <3>5. nest'[g].saved.handlerSp = handlerSp BY <2>3, <2>6
    <3>6. Saves' = Saves \cup {handlerSp}
      <4>1. \A y \in Saves' : y \in Saves \cup {handlerSp} BY <2>6, <3>1, <3>2, <3>3, <3>5
      <4>2. \A y \in Saves : y \in Saves' BY <2>6, <3>1, <3>2, <3>4
      <4>3. handlerSp \in Saves' BY <2>6, <3>2, <3>5
      <4> QED BY <4>1, <4>2, <4>3
    <3> QED BY <2>2, <3>6 DEF HandlerRegisters
  <2>13. pc'.p = 0 BY <2>1 DEF Addr
  <2>14. \E j \in 1..Outer' : nest'[j].saved.caller = Len(base) BY <2>3, <2>6, <2>9
  <2>15. Outer <= Outer' /\ Len(nest) <= Len(nest') BY <2>3, <2>6, <2>9
  <2> QED BY <1>1, <2>1, <2>2, <2>3, <2>10, <2>11, <2>12, <2>13, <2>14, <2>15, FromNative
<1> QED BY <1>4, <1>5

-----------------------------------------------------------------------------
(* Returns *)

\* The last activation, the l-th, is gone, and the words above its floor m may
\* be; g runs and k Rust frames stay.
LeavesLast(l, m, g, k) ==
  /\ l = Len(base) /\ l > 1 /\ m = Floor(l)
  /\ Len(base') = l - 1 /\ \A i \in 1..(l - 1) : base'[i] = base[i]
  /\ m <= Height' /\ \A i \in 1..m : stack'[i] = stack[i]
  /\ handlerSp' = handlerSp
  /\ FrameStays(g) /\ k \in Nat /\ k <= Len(nest) /\ k <= Len(nest') /\ g <= k
  /\ \A j \in 1..k : nest'[j].top = nest[j].top /\ HookPc(j)' = HookPc(j)
  /\ \A j \in 1..Len(nest) : k < j => base[l - 1].h < nest[j].top + 2

LEMMA EntriesAfterLast ==
  ASSUME DataOK, BaseOK, NestOK, EntriesOK, NEW l, NEW m, NEW g, NEW k, LeavesLast(l, m, g, k)
  PROVE  /\ EntriesOK' /\ Keeps(m, l - 1) /\ m \in Nat /\ l \in Nat /\ base[l - 1].h <= m
         /\ base[l - 1].h \in Nat
<1>1. DataFacts /\ BaseFacts BY DataKnown, BaseKnown
<1>2. /\ l = Len(base) /\ l > 1 /\ m = Floor(l)
      /\ Len(base') = l - 1 /\ \A i \in 1..(l - 1) : base'[i] = base[i]
      /\ m <= Height' /\ \A i \in 1..m : stack'[i] = stack[i]
      /\ k \in Nat /\ k <= Len(nest) /\ k <= Len(nest')
      /\ \A j \in 1..k : nest'[j].top = nest[j].top
      /\ \A j \in 1..Len(nest) : k < j => base[l - 1].h < nest[j].top + 2
  BY DEF LeavesLast
<1>3. Outer = g /\ Outer' = g /\ \A j \in 1..g : nest'[j] = nest[j] BY DEF LeavesLast, FrameStays
<1>4. l \in Nat /\ l \in 1..Len(base) /\ m \in Nat /\ m <= Height /\ Height \in Nat
  <2>1. l \in Nat /\ l \in 1..Len(base) BY <1>1, <1>2 DEF DataFacts
  <2>2. m \in Nat /\ base[l].h \in Nat /\ base[l].h = m + 2 + Arity[base[l].code]
        /\ Arity[base[l].code] \in Nat /\ base[l].h <= Height
    BY <1>1, <1>2, <2>1 DEF BaseFacts
  <2>3. Height \in Nat BY <1>1 DEF DataFacts
  <2> QED BY <2>1, <2>2, <2>3
<1>5. PICK b : b = l - 1 OBVIOUS
<1>6. b \in Nat /\ b >= 1 /\ b \in 1..Len(base) /\ b < l BY <1>2, <1>4, <1>5
<1>7. base[b].h \in Nat /\ base[b].h <= m BY <1>1, <1>2, <1>4, <1>6 DEF BaseFacts
<1>8. Keeps(m, b)
  <2>1. b \in 0..Len(base) /\ b <= Len(base') /\ m \in 0..Height /\ m <= Len(stack')
    BY <1>2, <1>4, <1>5, <1>6 DEF Height
  <2> QED BY <1>2, <1>5, <2>1 DEF Keeps
<1>9. EntriesOK'
  <2>1. PICK n : n = Len(base') OBVIOUS
  <2>2. n = b BY <1>2, <1>5, <2>1
  <2>3. g \in Nat /\ Outer \in Nat /\ Outer' \in Nat /\ g <= Outer'
    <3>1. Outer \in Nat BY CutsKnown
    <3> QED BY <1>3, <3>1
  <2>4. \A j \in 1..g : Caller(j)' = Caller(j) BY <1>3 DEF Caller
  <2>5. \A j \in 1..Outer : g < j => Caller(j) >= b BY <1>3, <2>3
  <2>6. \A j \in 1..Len(nest) : k < j => base[b].h < nest[j].top + 2 BY <1>2, <1>5
  <2>7. b >= 1 => base[b].h <= m BY <1>7
  <2>8. n = b + 1 /\ b >= 1 => EntryOK(b + 1)' BY <1>6, <2>2
  <2>9. n = b \/ n = b + 1 BY <2>2
  <2>10. m \in Nat /\ b \in Nat /\ n = Len(base') /\ k \in Nat /\ k <= Len(nest) /\ k <= Len(nest')
         /\ \A j \in 1..k : nest'[j].top = nest[j].top
    BY <1>2, <1>4, <1>6, <2>1
  <2>11. DataOK /\ BaseOK /\ EntriesOK OBVIOUS
  <2> QED BY ONLY <1>8, <2>3, <2>4, <2>5, <2>6, <2>7, <2>8, <2>9, <2>10, <2>11, EntriesStep
<1> QED BY <1>4, <1>5, <1>7, <1>8, <1>9

\* The blocks when the last activation has none: below the words it was called
\* with.
LEMMA BlocksUnder ==
  ASSUME Clear, NEW l, l = Len(base), NEW m, m = Floor(l), Own(l) = {}
  PROVE  \A x \in Blocks : x \in 2..m
<1>1. DataFacts /\ BaseFacts /\ BlockFacts /\ OwnFacts /\ CeilingFacts BY DEF Clear
<1>2. l = Len(base) /\ m = Floor(l) OBVIOUS
<1>3. l \in Nat /\ l \in 1..Len(base) /\ m \in Nat
  <2>1. l \in Nat /\ l \in 1..Len(base) BY <1>1 DEF DataFacts, BaseFacts
  <2>2. m \in Nat BY <1>1, <2>1 DEF BaseFacts
  <2> QED BY <2>1, <2>2
<1>4. \A x \in Blocks : x \in 2..m
  <2> SUFFICES ASSUME NEW x \in Blocks PROVE x \in 2..m OBVIOUS
  <2>1. x \in Nat /\ 2 <= x
    <3>1. x \in Nat /\ x \in 2..Height /\ Height \in Nat BY <1>1 DEF BlockFacts, DataFacts
    <3> QED BY <3>1
  <2>2. PICK o \in 1..Len(base) : x \in Own(o) BY <1>1 DEF OwnFacts
  <2>3. o # l BY <2>2
  <2>4. o \in Nat /\ o < l BY <1>2, <2>2, <2>3, <1>3
  <2>5. x <= Ceiling(o) /\ Ceiling(o) \in Nat BY <1>1, <2>2 DEF OwnFacts, CeilingFacts
  <2>6. Ceiling(o) <= m
    <3>1. o + 1 \in 1..Len(base) /\ Ceiling(o) = Floor(o + 1)
      <4>1. o < Len(base) /\ o + 1 \in 1..Len(base) BY <1>2, <1>3, <2>4
      <4> QED BY <1>1, <2>2, <4>1 DEF CeilingFacts
    <3>2. CASE o + 1 = l
      <4>1. Ceiling(o) = m BY <1>2, <3>1, <3>2, Zenon
      <4> QED BY <1>3, <4>1
    <3>3. CASE o + 1 # l
      <4>1. o + 1 < l BY <1>3, <2>4, <3>3
      <4>2. base[o + 1].h <= Floor(l) BY <1>1, <1>3, <3>1, <4>1 DEF BaseFacts
      <4>3. /\ Floor(o + 1) \in Nat /\ Arity[base[o + 1].code] \in Nat
            /\ base[o + 1].h = Floor(o + 1) + 2 + Arity[base[o + 1].code]
        BY <1>1, <3>1 DEF BaseFacts
      <4>4. PICK y, u, v : y = base[o + 1].h /\ u = Floor(o + 1) /\ v = Arity[base[o + 1].code] OBVIOUS
      <4>5. y = u + 2 + v /\ u \in Nat /\ v \in Nat /\ y <= m BY <1>2, <4>2, <4>3, <4>4
      <4>6. u <= m BY ONLY <1>3, <4>5
      <4> QED BY <3>1, <4>4, <4>6
    <3> QED BY <3>2, <3>3
  <2> QED BY <1>3, <2>1, <2>5, <2>6
<1> QED BY <1>4

\* What stays, when the last activation had no handler.
LEMMA StaysAfterLast ==
  ASSUME Clear, DataOK, NestOK, DataOK', NestOK', NEW l, NEW m, NEW g, NEW k,
         LeavesLast(l, m, g, k), Own(l) = {}
  PROVE  /\ Stays(l - 1, k) /\ Own(l - 1)' = Own(l - 1) /\ Hs(l - 1)' = Hs(l - 1)
         /\ l - 1 \in 1..Len(base) /\ Ceiling(l - 1) = m /\ Ceiling(l - 1)' = Height'
<1>1. DataFacts /\ BaseFacts /\ BlockFacts /\ OwnFacts /\ CeilingFacts BY DEF Clear
<1>2. /\ l = Len(base) /\ l > 1 /\ m = Floor(l)
      /\ Len(base') = l - 1 /\ (\A i \in 1..(l - 1) : base'[i] = base[i])
      /\ m <= Height' /\ (\A i \in 1..m : stack'[i] = stack[i]) /\ handlerSp' = handlerSp
      /\ k \in Nat /\ k <= Len(nest) /\ k <= Len(nest') /\ FrameStays(g)
      /\ (\A j \in 1..k : nest'[j].top = nest[j].top /\ HookPc(j)' = HookPc(j))
      /\ (\A j \in 1..Len(nest) : k < j => base[l - 1].h < nest[j].top + 2)
  BY DEF LeavesLast
<1>3. PICK b : b = l - 1 OBVIOUS
<1>4. /\ l \in Nat /\ l \in 1..Len(base) /\ m \in Nat
      /\ b \in Nat /\ b >= 1 /\ b \in 1..Len(base) /\ b < l /\ b < Len(base) /\ b + 1 = l
  <2>1. l \in Nat /\ l \in 1..Len(base) BY <1>1, <1>2 DEF DataFacts
  <2>2. m \in Nat BY <1>1, <1>2, <2>1 DEF BaseFacts
  <2> QED BY <1>2, <1>3, <2>1, <2>2
<1>5. Ceiling(b) = m BY <1>1, <1>2, <1>4 DEF CeilingFacts
<1>6. \A x \in Blocks : x \in 2..m BY <1>2, BlocksUnder
<1>7. \A x \in Blocks : x \in 1..m /\ x - 1 \in 1..m BY <1>4, <1>6
<1>8. Blocks' = Blocks
  <2>1. \A x \in Blocks : stack'[x - 1].hsp = stack[x - 1].hsp BY <1>2, <1>7
  <2>2. HandlerRegisters' \cup {0} = HandlerRegisters \cup {0} BY <1>2, FramesStay
  <2> QED BY <1>1, <2>1, <2>2, BlocksSame
<1>9. base'[b] = base[b] /\ base[b].h \in Nat /\ base[b].h <= m
  <2>1. b \in 1..(l - 1) BY <1>3, <1>4
  <2> QED BY <1>1, <1>2, <1>4, <2>1 DEF BaseFacts
<1>10. Stays(b, k)
  <2>1. Floor(b)' = Floor(b) /\ base'[b].native = base[b].native /\ base'[b].h = base[b].h
    BY <1>9 DEF Floor
  <2>2. \A i \in 2..b : stack'[base'[i].h - 1].pc.p = stack[base[i].h - 1].pc.p
    <3> SUFFICES ASSUME NEW i \in 2..b PROVE stack'[base'[i].h - 1].pc.p = stack[base[i].h - 1].pc.p
      OBVIOUS
    <3>1. i \in 1..Len(base) /\ i \in 1..(l - 1) /\ i < l BY <1>3, <1>4
    <3>2. PICK h, f, v : h = base[i].h /\ f = Floor(i) /\ v = Arity[base[i].code] OBVIOUS
    <3>3. h <= m /\ h \in Nat /\ f \in Nat /\ v \in Nat /\ h = f + 2 + v
      BY <1>1, <1>2, <1>4, <3>1, <3>2 DEF BaseFacts
    <3>4. h - 1 \in 1..m BY ONLY <1>4, <3>3
    <3>5. base'[i].h = h BY <1>2, <3>1, <3>2
    <3> QED BY <1>2, <3>2, <3>4, <3>5
  <2>3. \A x \in Blocks : x \in Blocks' /\ stack'[x].pc.p = stack[x].pc.p BY <1>2, <1>7, <1>8
  <2>4. \A x \in Blocks' : x \in Blocks BY <1>8
  <2>5. \A j \in 1..Len(nest) : k < j => base[b].h < nest[j].top + 2 BY <1>2, <1>3
  <2>6. b <= Len(base') BY <1>2, <1>3, <1>4
  <2>7. \A i \in 1..(b - 1) : base'[i] = base[i]
    <3>1. \A i \in 1..(b - 1) : i \in 1..(l - 1) BY <1>3, <1>4
    <3> QED BY <1>2, <3>1
  <2> QED BY <1>2, <1>4, <2>1, <2>2, <2>3, <2>4, <2>5, <2>6, <2>7, Zenon DEF Stays
<1>11. Ceiling(b)' = Height' BY <1>2, <1>3 DEF Ceiling
<1>12. Own(b)' = Own(b)
  <2>1. Own(b)' = {x \in Blocks : base[b].h < x /\ x <= Height'}
    BY <1>8, <1>9, <1>11 DEF Own, BlocksIn
  <2>2. Own(b) = {x \in Blocks : base[b].h < x /\ x <= m} BY <1>5 DEF Own, BlocksIn
  <2>3. Height' \in Nat BY DataNext DEF DataFacts
  <2>4. \A x \in Blocks : x <= m /\ x <= Height' BY <1>2, <1>4, <1>6, <2>3
  <2> QED BY <2>1, <2>2, <2>4
<1>13. Hs(b)' = Hs(b)
  <2>1. \A x \in Own(b) : stack'[x].pc.p = stack[x].pc.p
    <3>1. Own(b) \subseteq Blocks BY <1>1, <1>4 DEF OwnFacts
    <3> QED BY <1>2, <1>7, <3>1
  <2>2. base'[b].h = base[b].h BY <1>9
  <2> QED BY <1>1, <1>4, <1>12, <2>1, <2>2, HsKept
<1> QED BY <1>3, <1>4, <1>5, <1>10, <1>11, <1>12, <1>13

LEMMA TempsAfterLast ==
  ASSUME Clear, Clear', DataOK, NestOK, DataOK', NestOK', NEW l, NEW m, NEW g, NEW k,
         LeavesLast(l, m, g, k), Own(l) = {}
  PROVE  Temps(l - 1)' = Temps(l - 1) + (Height' - m)
<1>1. PICK b : b = l - 1 OBVIOUS
<1>2. /\ Own(b)' = Own(b) /\ b \in 1..Len(base) /\ Ceiling(b) = m /\ Ceiling(b)' = Height'
      /\ Stays(b, k)
  BY <1>1, StaysAfterLast
<1>3. b \in 1..Len(base') /\ base'[b] = base[b]
  <2>1. Len(base') = b /\ \A i \in 1..b : base'[i] = base[i] BY <1>1 DEF LeavesLast
  <2>2. b \in Nat /\ b \in 1..b BY <1>2
  <2> QED BY <2>1, <2>2
<1>4. Temps(b) = m - base[b].h - 2 * Cardinality(Own(b)) BY <1>2 DEF Clear, ActFacts
<1>5. Temps(b)' = Height' - base'[b].h - 2 * Cardinality(Own(b)')
  <2>1. ActFacts' BY DEF Clear
  <2> QED BY <1>2, <1>3, <2>1 DEF ActFacts
<1>6. PICK h, d, t : h = base[b].h /\ d = Cardinality(Own(b)) /\ t = Height' OBVIOUS
<1>7. h \in Nat /\ d \in Nat BY <1>2, <1>6 DEF Clear, BaseFacts, OwnFacts
<1>8. t \in Nat
  <2>1. DataFacts' BY DEF Clear
  <2> QED BY <1>6, <2>1 DEF DataFacts
<1>9. m \in Nat BY <1>2 DEF Clear, CeilingFacts
<1>10. Temps(b) = m - h - 2 * d /\ Temps(b)' = t - h - 2 * d BY <1>2, <1>3, <1>4, <1>5, <1>6
<1>11. t - h - 2 * d = (m - h - 2 * d) + (t - m) BY ONLY <1>7, <1>8, <1>9
<1> QED BY <1>1, <1>6, <1>10, <1>11

\* The caller goes on with the result.
LEMMA ReturnStep ==
  ASSUME Sound, MachineInv', FreshInv', status = "running", status' = "running", exn' = exn,
         halt' => nest' = <<>>, NEW l, NEW m, NEW g, NEW k, LeavesLast(l, m, g, k), Own(l) = {},
         Height = base[l].h + 1, Height' = m + 1, Pos(l - 1)' = Pos(l - 1)
  PROVE  CallInv' /\ A!Next
<1>1. Clear
  <2>1. ~Doomed BY DEF Doomed
  <2> QED BY <2>1, ClearKnown
<1>2. /\ DataOK /\ BaseOK /\ NestOK /\ EntriesOK /\ DataOK' /\ NestOK'
  BY SoundParts DEF MachineInv, Live
<1>3. EntriesOK' /\ m \in Nat /\ l \in Nat BY <1>2, EntriesAfterLast
<1>4. CallInv' BY <1>3, GoesOn
<1>5. Clear'
  <2>1. Sound' /\ ~Doomed' BY <1>4 DEF Sound, Live, Doomed
  <2> QED BY <2>1, ClearNext
<1>6. PICK b : b = l - 1 OBVIOUS
<1>7. Stays(b, k) /\ Hs(b)' = Hs(b) /\ b \in 1..Len(base) BY <1>1, <1>2, <1>6, StaysAfterLast
<1>8. PICK a, z : Chains(a, z, b) BY <1>1, <1>5, <1>7, ChainsKnown
<1>9. /\ l = Len(base) /\ l = b + 1 /\ b > 0 /\ b \in Nat /\ Len(base') = b /\ base'[b] = base[b]
      /\ b \in 1..b /\ l \in 1..Len(base)
  <2>1. l = Len(base) /\ l > 1 /\ Len(base') = l - 1 /\ \A i \in 1..(l - 1) : base'[i] = base[i]
    BY DEF LeavesLast
  <2> QED BY <1>3, <1>6, <2>1
<1>10. Temps(b)' = Temps(b) + 1 /\ Temps(b) \in Int
  <2>1. Temps(b)' = Temps(b) + (Height' - m) BY <1>1, <1>2, <1>5, <1>6, TempsAfterLast
  <2>2. Height' - m = 1 BY <1>3
  <2>3. Act(b) \in Acts BY <1>1, <1>7 DEF Clear, ActFacts
  <2>4. Act(b).temps = Temps(b) BY DEF Act
  <2>5. Temps(b) \in Int BY <2>3, <2>4 DEF Acts
  <2> QED BY <2>1, <2>2, <2>5
<1>11. Temps(l) = 1 /\ Hs(l) = <<>>
  <2>1. Temps(l) = Ceiling(l) - base[l].h - 2 * Cardinality(Own(l))
    BY <1>1, <1>9 DEF Clear, ActFacts
  <2>2. Cardinality(Own(l)) = 0 BY FS_EmptySet
  <2>3. Ceiling(l) = Height BY <1>9 DEF Ceiling
  <2>4. PICK h, t : h = base[l].h /\ t = Height OBVIOUS
  <2>5. h \in Nat /\ t = h + 1 BY <1>1, <1>9, <2>4 DEF Clear, BaseFacts
  <2>6. Temps(l) = t - h - 2 * 0 BY <2>1, <2>2, <2>3, <2>4
  <2>7. t - h - 2 * 0 = 1 BY ONLY <2>5
  <2> QED BY <2>6, <2>7, NoHandlers
<1>12. A!Returns(a, z)
  <2>1. /\ a \in Seq(Acts) /\ z \in Seq(Acts) /\ Len(a) = b + 1 /\ Len(z) = b
        /\ a[b] = Act(b) /\ z[b] = Act(b)' /\ a[b + 1] = Act(l)
        /\ \A i \in 1..(b - 1) : z[i] = a[i]
    BY <1>7, <1>8, <1>9 DEF Chains
  <2>2. a[b + 1].temps = 1 /\ a[b + 1].hs = <<>> BY <1>11, <2>1 DEF Act
  <2>3. z[b] = A!Goes(a[b], a[b].pos, a[b].temps + 1, a[b].hs)
    <3>1. Act(b)' = [code |-> base'[b].code, pos |-> Pos(b)', temps |-> Temps(b)', hs |-> Hs(b)']
      BY DEF Act
    <3>2. z[b] = [code |-> base[b].code, pos |-> Pos(b), temps |-> Temps(b) + 1, hs |-> Hs(b)]
      BY <1>6, <1>7, <1>9, <1>10, <2>1, <3>1
    <3>3. a[b].code = base[b].code /\ a[b].temps = Temps(b) /\ a[b].hs = Hs(b) /\ a[b].pos = Pos(b)
      BY <2>1 DEF Act
    <3> QED BY <3>2, <3>3 DEF A!Goes
  <2> QED BY ONLY <1>9, <2>1, <2>2, <2>3, IsReturn
<1>13. A!Returns(Activated, Activated') BY <1>8, <1>12 DEF Chains
<1> QED BY <1>4, <1>13, IsRun

\* A native activation is left, and with the root of its region the hook.
LEMMA NativeLeavesLast ==
  ASSUME DataOK, BaseOK, NestOK, Native, base' = Front(base),
         nest' = IF AtRoot THEN Front(nest) ELSE nest, pc' = pc, handlerSp' = handlerSp,
         NEW m, m = Floor(Len(base)), m <= Height', \A i \in 1..m : stack'[i] = stack[i]
  PROVE  \E l, g, k : LeavesLast(l, m, g, k)
<1>1. /\ base[Len(base)].native /\ Len(nest) \in Nat /\ Len(nest) >= 1 /\ nest # <<>>
      /\ nest[Len(nest)].saved = None /\ Outer = Len(nest) - 1 /\ Outer \in Nat
      /\ \A j \in 1..Outer : nest[j].saved # None
  BY NativeTop
<1>2. DataFacts /\ BaseFacts BY DataKnown, BaseKnown
<1>3. PICK l, n : l = Len(base) /\ n = Len(nest) OBVIOUS
<1>4. l \in Nat /\ l > 1
  <2>1. l \in Nat /\ l >= 1 BY <1>2, <1>3 DEF BaseFacts, DataFacts
  <2>2. l # 1 BY <1>1, <1>2, <1>3 DEF BaseFacts
  <2> QED BY <2>1, <2>2
<1>5. Len(base') = l - 1 /\ \A i \in 1..(l - 1) : base'[i] = base[i]
  <2>1. base \in Seq([code : Codes, h : Nat, native : BOOLEAN]) BY DEF DataOK
  <2>2. Len(base) > 0 BY <1>3, <1>4
  <2> QED BY <1>3, <2>1, <2>2, Shortened
<1>6. n \in Nat /\ n >= 1 /\ nest \in Seq(NestedFrame) /\ Outer = n - 1 BY <1>1, <1>3 DEF DataOK
<1>7. CASE AtRoot
  <2>1. nest' = Front(nest) BY <1>7
  <2>2. Len(nest') = n - 1 /\ (\A j \in 1..(n - 1) : nest'[j] = nest[j]) /\ Last(nest) = nest[n]
    <3>1. Len(nest) > 0 BY <1>3, <1>6
    <3> QED BY <1>3, <1>6, <2>1, <3>1, Shortened
  <2>3. Outer' = n - 1
    <3>1. ~Native'
      <4>1. SUFFICES ASSUME nest' # <<>>, Last(nest').saved = None PROVE FALSE BY DEF Native
      <4>2. nest' \in Seq(NestedFrame)
        <5>1. Len(nest) > 0 BY <1>3, <1>6
        <5> QED BY <1>6, <2>1, <5>1, Shortened
      <4>3. n - 1 \in 1..(n - 1)
        <5>1. Len(nest') # 0 BY <4>1, <4>2
        <5> QED BY <1>6, <2>2, <5>1
      <4>4. Last(nest') = nest[n - 1]
        <5>1. Last(nest') = nest'[Len(nest')] BY DEF Last
        <5> QED BY <2>2, <4>3, <5>1
      <4> QED BY <1>1, <1>6, <4>1, <4>3, <4>4
    <3> QED BY <2>2, <3>1 DEF Outer
  <2>4. FrameStays(n - 1) BY <1>1, <1>6, <2>2, <2>3 DEF FrameStays
  <2>5. \A j \in 1..(n - 1) : nest'[j].top = nest[j].top /\ HookPc(j)' = HookPc(j)
    BY <2>2 DEF HookPc
  <2>6. \A j \in 1..Len(nest) : n - 1 < j => base[l - 1].h < nest[j].top + 2
    <3> SUFFICES ASSUME NEW j \in 1..n, n - 1 < j PROVE base[l - 1].h < nest[j].top + 2
      BY <1>3
    <3>1. j = n BY <1>6
    <3>2. base[l].h = nest[n].top + 2
      <4>1. Top = base[l] BY <1>3 DEF Top, Last
      <4> QED BY <1>7, <2>2, <4>1 DEF AtRoot
    <3>3. PICK x, y : x = base[l - 1].h /\ y = base[l].h OBVIOUS
    <3>4. x \in Nat /\ y \in Nat /\ x + 2 <= y
      <4>1. l - 1 \in 1..Len(base) /\ l \in 1..Len(base) /\ l - 1 < l BY <1>3, <1>4
      <4> QED BY <1>2, <3>3, <4>1 DEF BaseFacts
    <3>5. x < y BY ONLY <3>4
    <3> QED BY <3>1, <3>2, <3>3, <3>5
  <2>7. n - 1 \in Nat /\ n - 1 <= Len(nest) /\ n - 1 <= Len(nest') /\ n - 1 <= n - 1
    BY <1>3, <1>6, <2>2
  <2>8. LeavesLast(l, m, n - 1, n - 1)
    BY <1>3, <1>4, <1>5, <2>4, <2>5, <2>6, <2>7, Zenon DEF LeavesLast
  <2> QED BY <2>8
<1>8. CASE ~AtRoot
  <2>1. nest' = nest BY <1>8
  <2>2. Outer' = n - 1 BY <1>6, <2>1 DEF Outer, Native
  <2>3. FrameStays(n - 1) BY <1>1, <1>6, <2>1, <2>2 DEF FrameStays
  <2>4. \A j \in 1..n : nest'[j].top = nest[j].top /\ HookPc(j)' = HookPc(j) BY <2>1 DEF HookPc
  <2>5. \A j \in 1..Len(nest) : n < j => base[l - 1].h < nest[j].top + 2 BY <1>3, <1>6
  <2>6. n \in Nat /\ n <= Len(nest) /\ n <= Len(nest') /\ n - 1 <= n BY <1>3, <1>6, <2>1
  <2>7. LeavesLast(l, m, n - 1, n)
    BY <1>3, <1>4, <1>5, <2>3, <2>4, <2>5, <2>6, Zenon DEF LeavesLast
  <2> QED BY <2>7
<1> QED BY <1>7, <1>8

\* The activation that the last native one was called by goes on where it was.
LEMMA NativeResumes ==
  ASSUME Clear, DataOK, BaseOK, NestOK, Native, NEW l, l = Len(base), l > 1,
         Len(base') = l - 1, base'[l - 1] = base[l - 1], pc' = pc
  PROVE  Pos(l - 1)' = Pos(l - 1)
<1>1. PICK b, n : b = l - 1 /\ n = Len(nest) OBVIOUS
<1>2. l \in Nat /\ b \in Nat /\ b >= 1 /\ b + 1 = l /\ b \in 1..Len(base) /\ b < Len(base) /\ b # l
  <2>1. l \in Nat BY DEF Clear, DataFacts
  <2> QED BY <1>1, <2>1
<1>3. base'[b].native = base[b].native BY <1>1
<1>4. CASE base[b].native BY <1>1, <1>3, <1>4 DEF Pos
<1>5. CASE ~base[b].native
  <2>1. Pos(b)' = pc.p
    <3>1. PcAt(b)' = pc' BY <1>1 DEF PcAt
    <3> QED BY <1>3, <1>5, <3>1 DEF Pos
  <2>2. base[b + 1].native /\ nest[n].saved = None /\ n \in Nat /\ n >= 1
    BY <1>1, <1>2, NativeTop
  <2>3. base[l].h = nest[n].top + 2
    <3>1. RootOK(n, l) BY <1>1, NestKnown
    <3>2. PICK r \in 2..l : /\ base[r].h = nest[n].top + 2 /\ ~base[r - 1].native
                            /\ \A k \in r..l : base[k].native
      BY <3>1 DEF RootOK
    <3>3. r = l
      <4>1. r \in Nat /\ r <= l BY <1>2, <3>2
      <4>2. r <= b => b \in r..l BY <1>2, <4>1
      <4>3. ~(r <= b) BY <1>5, <3>2, <4>2
      <4> QED BY <1>2, <4>1, <4>3
    <3> QED BY <3>2, <3>3
  <2>4. HookOf(b) = n
    <3>1. n \in 1..Len(nest) BY <1>1, <2>2
    <3>2. base[b + 1].h = nest[n].top + 2 BY <1>2, <2>3
    <3> QED BY <1>2, <1>5, <2>2, <3>1, <3>2 DEF Clear, HookFacts
  <2>5. PcAt(b) = pc BY <1>2, <2>2, <2>4 DEF PcAt
  <2>6. Pos(b) = pc.p BY <1>5, <2>5 DEF Pos
  <2> QED BY <1>1, <2>1, <2>6
<1> QED BY <1>4, <1>5

LEMMA NativeReturnStep ==
  ASSUME Sound, MachineInv', FreshInv', NativeReturn
  PROVE  CallInv' /\ A!Next
<1>1. status = "running" /\ Native BY DEF NativeReturn, InRegion
<1>2. /\ Height = Top.h + 1
      /\ stack' = Append(SubSeq(stack, 1, Height - 3 - Arity[Top.code]), Data)
      /\ base' = Front(base) /\ nest' = (IF AtRoot THEN Front(nest) ELSE nest)
      /\ pc' = pc /\ handlerSp' = handlerSp /\ exn' = exn /\ halt' = halt /\ status' = status
  BY DEF NativeReturn, Registers
<1>3. DataOK /\ BaseOK /\ NestOK /\ HaltOK BY SoundParts
<1>4. Clear
  <2>1. ~Doomed BY <1>1 DEF Doomed
  <2> QED BY <2>1, ClearKnown
<1>5. PICK l, m : l = Len(base) /\ m = Floor(l) OBVIOUS
<1>6. /\ Top = base[l] /\ l \in Nat /\ l >= 1 /\ Top.h \in Nat /\ m \in Nat
      /\ Arity[Top.code] \in Nat /\ Top.h = m + 2 + Arity[Top.code] /\ Top.h <= Height
  BY <1>3, <1>5, TopKnown
<1>7. PICK h, a, t : h = Top.h /\ a = Arity[Top.code] /\ t = Height OBVIOUS
<1>8. t - 3 - a = m /\ m \in 0..t
  <2>1. h \in Nat /\ a \in Nat /\ h = m + 2 + a /\ t = h + 1 BY <1>2, <1>6, <1>7
  <2> QED BY ONLY <1>6, <2>1
<1>9. stack' = Append(SubSeq(stack, 1, m), Data) BY <1>2, <1>7, <1>8
<1>10. Len(stack') = m + 1 /\ \A i \in 1..m : stack'[i] = stack[i]
  <2>1. stack \in Seq(Word) /\ m \in 0..Len(stack) BY <1>3, <1>7, <1>8 DEF DataOK, Height
  <2>2. /\ SubSeq(stack, 1, m) \in Seq(Word) /\ Len(SubSeq(stack, 1, m)) = m
        /\ \A i \in 1..m : SubSeq(stack, 1, m)[i] = stack[i]
    BY <2>1, Prefix
  <2> QED BY <1>9, <2>2, Appended, WordsKnown
<1>11. Height' = m + 1 /\ m <= Height' BY <1>6, <1>10 DEF Height
<1>12. PICK d, g, k : LeavesLast(d, m, g, k) BY <1>1, <1>2, <1>3, <1>5, <1>10, <1>11, NativeLeavesLast
<1>13. d = l /\ l > 1 /\ Len(base') = l - 1 /\ \A i \in 1..(l - 1) : base'[i] = base[i]
  BY <1>5, <1>12 DEF LeavesLast
<1>14. Own(l) = {}
  <2>1. base[l].native BY <1>1, <1>3, <1>5, NativeTop
  <2>2. l \in 1..Len(base) BY <1>5, <1>6
  <2> QED BY <1>4, <2>1, <2>2 DEF Clear, OwnFacts
<1>15. Pos(l - 1)' = Pos(l - 1)
  <2>1. l - 1 \in 1..(l - 1) BY <1>6, <1>13
  <2> QED BY <1>1, <1>2, <1>3, <1>4, <1>5, <1>13, <2>1, NativeResumes
<1>16. halt' => nest' = <<>>
  <2>1. ~halt BY <1>1, <1>3 DEF HaltOK, Native
  <2> QED BY <1>2, <2>1
<1>17. Height = base[l].h + 1 BY <1>2, <1>6
<1>18. LeavesLast(l, m, g, k) BY <1>12, <1>13
<1> QED BY <1>1, <1>2, <1>11, <1>14, <1>15, <1>16, <1>17, <1>18, ReturnStep

-----------------------------------------------------------------------------
(* Raises of native code *)

\* A raise that no handler has caught yet goes on.
LEMMA Raising ==
  ASSUME EntriesOK', status' \in {"raising", "escaped"}, ~halt',
         flight' \in (Packets \cup HardErrors) \ {"heap"}
  PROVE  CallInv' /\ Live'
<1>1. FlightOK' BY DEF FlightOK
<1>2. HaltOK' BY DEF HaltOK
<1> QED BY <1>1, <1>2 DEF CallInv, Live

\* What a hard error leaves of the first n activations.
LEMMA DoomedRaise ==
  ASSUME Sound, Sound', NEW x \in HardErrors, flight' = x, status' \in {"raising", "escaped"},
         \/ status = "running"
         \/ status \in {"raising", "escaped"} /\ flight = x,
         NEW n \in Nat, n > 0, n <= Len(base), Len(base') = n,
         \A i \in 1..n : base'[i].code = base[i].code
  PROVE  A!Next
<1>1. PICK a, z : a = Activated /\ z = Activated' OBVIOUS
<1>2. /\ Len(a) = Len(base) /\ Len(base) \in Nat
      /\ \A i \in 1..Len(base) : a[i].code = base[i].code
  BY <1>1, SeenCodes
<1>3. Doomed' BY DEF Doomed
<1>4. z = [i \in 1..n |-> A!Fresh(base'[i].code)] BY <1>1, <1>3, DoomedNext DEF DoomedSeen
<1>5. \A i \in 1..n : A!Fresh(base'[i].code) = A!Fresh(a[i].code)
  <2> SUFFICES ASSUME NEW i \in 1..n PROVE A!Fresh(base'[i].code) = A!Fresh(a[i].code) OBVIOUS
  <2>1. i \in 1..Len(base) BY <1>2
  <2>2. base'[i].code = a[i].code BY <1>2, <2>1
  <2> QED BY <2>2
<1>6. z = [i \in 1..n |-> A!Fresh(a[i].code)] BY <1>4, <1>5
<1>7. Len(z) = n BY <1>6
<1>8. A!Unwinds(a, z, x, "raising")
  <2>1. n \in Nat /\ n > 0 /\ Len(a) \in Nat /\ n <= Len(a) BY <1>2
  <2>2. x \in HardErrors OBVIOUS
  <2> QED BY ONLY <1>6, <1>7, <2>1, <2>2, IsDoomed
<1>9. A!Unwinds(Activated, Activated', x, "raising") BY <1>1, <1>8
<1>10. x \in Packets \cup HardErrors OBVIOUS
<1>11. "raising" = (IF status' = "escaped" THEN "raising" ELSE status') OBVIOUS
<1> QED BY <1>9, <1>10, <1>11, IsRaise

\* What a packet leaves of them, when those above had no handler.
LEMMA PacketRaise ==
  ASSUME Clear, Clear', NEW x \in Packets, flight' = x, status' \in {"raising", "escaped"},
         \/ status = "running"
         \/ status \in {"raising", "escaped"} /\ flight = x,
         NEW n \in Nat, n > 0, n <= Len(base), Len(base') = n,
         NEW k, Stays(n, k), base'[n].code = base[n].code, Pos(n)' = Pos(n), Hs(n)' = Hs(n),
         \A i \in n + 1..Len(base) : Own(i) = {}
  PROVE  A!Next
<1>1. PICK a, z : Chains(a, z, n) BY ChainsKnown
<1>2. PICK l : l = Len(base) OBVIOUS
<1>3. /\ a \in Seq(Acts) /\ Len(a) = l /\ \A i \in 1..l : a[i] = Act(i)
      /\ z \in Seq(Acts) /\ Len(z) = n /\ z[n] = Act(n)' /\ \A i \in 1..(n - 1) : z[i] = a[i]
  <2>1. n \in 1..n OBVIOUS
  <2> QED BY <1>1, <1>2, <2>1 DEF Chains
<1>4. l \in Nat /\ n \in 1..l BY <1>2 DEF Clear, DataFacts
<1>5. \A i \in n + 1..Len(a) : a[i].hs = <<>>
  <2> SUFFICES ASSUME NEW i \in n + 1..l PROVE a[i].hs = <<>> BY <1>3
  <2>1. i \in 1..l BY <1>4
  <2>2. a[i] = Act(i) BY <1>3, <2>1
  <2>3. Hs(i) = <<>> BY <1>2, NoHandlers
  <2> QED BY <2>2, <2>3 DEF Act
<1>6. z[n] = A!Goes(a[n], a[n].pos, z[n].temps, a[n].hs)
  <2>1. a[n] = Act(n) BY <1>3, <1>4
  <2>2. Act(n)' = [code |-> base'[n].code, pos |-> Pos(n)', temps |-> Temps(n)', hs |-> Hs(n)']
    BY DEF Act
  <2>3. z[n] = [code |-> base[n].code, pos |-> Pos(n), temps |-> z[n].temps, hs |-> Hs(n)]
    BY <1>3, <2>2
  <2>4. a[n].code = base[n].code /\ a[n].hs = Hs(n) /\ a[n].pos = Pos(n) BY <2>1 DEF Act
  <2> QED BY <2>3, <2>4 DEF A!Goes
<1>7. A!Unwinds(a, z, x, "raising")
  <2>1. x \notin HardErrors BY PacketsAreNoErrors
  <2>2. n \in Nat /\ n > 0 /\ n <= Len(a) /\ Len(z) = n BY <1>2, <1>3
  <2>3. a \in Seq(Acts) /\ z \in Seq(Acts) /\ \A i \in 1..(n - 1) : z[i] = a[i] BY <1>3
  <2> QED BY ONLY <1>5, <1>6, <2>1, <2>2, <2>3, IsPropagating
<1>8. A!Unwinds(Activated, Activated', x, "raising") BY <1>1, <1>7 DEF Chains
<1>9. x \in Packets \cup HardErrors OBVIOUS
<1>10. "raising" = (IF status' = "escaped" THEN "raising" ELSE status') OBVIOUS
<1> QED BY <1>8, <1>9, <1>10, IsRaise

LEMMA NativePropagateStep ==
  ASSUME Sound, MachineInv', FreshInv', NativePropagate
  PROVE  CallInv' /\ A!Next
<1>1. status = "raising" /\ Native
  <2>1. PhaseOK BY SoundParts
  <2> QED BY <2>1 DEF NativePropagate, PhaseOK
<1>2. /\ base' = Front(base) /\ nest' = (IF AtRoot THEN Front(nest) ELSE nest)
      /\ pc' = pc /\ handlerSp' = handlerSp /\ halt' = halt /\ flight' = flight
      /\ status' \in {"raising", "escaped"}
  BY <1>1 DEF NativePropagate, Registers
<1>3. DataOK /\ BaseOK /\ NestOK /\ HaltOK /\ FlightOK /\ EntriesOK /\ DataFacts BY SoundParts
<1>4. DataOK' /\ NestOK' BY <1>2 DEF MachineInv, Live
<1>5. PICK l, m : l = Len(base) /\ m = Floor(l) OBVIOUS
<1>6. /\ Top = base[l] /\ l \in Nat /\ l >= 1 /\ Top.h \in Nat /\ m \in Nat
      /\ Arity[Top.code] \in Nat /\ Top.h = m + 2 + Arity[Top.code] /\ Top.h <= Height
  BY <1>3, <1>5, TopKnown
<1>7. PICK h, a, t : h = Top.h /\ a = Arity[Top.code] /\ t = Height OBVIOUS
<1>8. h \in Nat /\ a \in Nat /\ h = m + 2 + a /\ t \in Nat /\ h <= t BY <1>3, <1>6, <1>7 DEF DataFacts
<1>9. m <= Height' /\ \A i \in 1..m : stack'[i] = stack[i]
  <2>1. CASE AtRoot
    <3>1. PICK u : u = Last(nest).top OBVIOUS
    <3>2. stack' = SubSeq(stack, 1, u) BY <2>1, <3>1 DEF NativePropagate
    <3>3. u = h - 2 /\ u \in 0..t /\ m <= u
      <4>1. h = u + 2 BY <1>7, <2>1, <3>1 DEF AtRoot
      <4>2. u \in Nat
        <5>1. u \in Int
          <6>1. Len(nest) > 0 /\ nest \in Seq(NestedFrame) BY <1>1, <1>3, NativeTop DEF DataOK
          <6>2. Last(nest) \in NestedFrame BY <6>1, Shortened
          <6> QED BY <3>1, <6>2 DEF NestedFrame
        <5> QED BY <1>6, <1>8, <4>1, <5>1
      <4> QED BY ONLY <1>6, <1>8, <4>1, <4>2
    <3>4. stack \in Seq(Word) /\ u \in 0..Len(stack) BY <1>3, <1>7, <3>3 DEF DataOK, Height
    <3>5. Len(stack') = u /\ \A i \in 1..u : stack'[i] = stack[i] BY <3>2, <3>4, Prefix
    <3>6. \A i \in 1..m : i \in 1..u BY <1>6, <3>3
    <3> QED BY <3>3, <3>5, <3>6 DEF Height
  <2>2. CASE ~AtRoot
    <3>1. stack' = stack BY <2>2 DEF NativePropagate
    <3>2. m <= t BY ONLY <1>6, <1>8
    <3> QED BY <1>7, <3>1, <3>2 DEF Height
  <2> QED BY <2>1, <2>2
<1>10. PICK d, g, k : LeavesLast(d, m, g, k) BY <1>1, <1>2, <1>3, <1>5, <1>9, NativeLeavesLast
<1>11. d = l /\ l > 1 /\ Len(base') = l - 1 /\ \A i \in 1..(l - 1) : base'[i] = base[i]
  BY <1>5, <1>10 DEF LeavesLast
<1>12. EntriesOK' BY <1>3, <1>10, EntriesAfterLast
<1>13. PICK x : x = flight OBVIOUS
<1>14. x \in (Packets \cup HardErrors) \ {"heap"} BY <1>1, <1>3, <1>13 DEF FlightOK
<1>15. CallInv' /\ Sound'
  <2>1. ~halt BY <1>1, <1>3 DEF HaltOK
  <2>2. CallInv' /\ Live' BY <1>2, <1>12, <1>13, <1>14, <2>1, Raising
  <2> QED BY <2>2 DEF Sound
<1>16. PICK b : b = l - 1 OBVIOUS
<1>17. b \in Nat /\ b > 0 /\ b <= Len(base) /\ Len(base') = b /\ b \in 1..b /\ b + 1 = l
       /\ \A i \in 1..b : base'[i] = base[i]
  BY <1>5, <1>6, <1>11, <1>16
<1>18. CASE x \in HardErrors
  <2>1. \A i \in 1..b : base'[i].code = base[i].code BY <1>17
  <2>2. flight' = x /\ flight = x /\ status \in {"raising", "escaped"} BY <1>1, <1>2, <1>13
  <2>3. A!Next BY <1>2, <1>15, <1>17, <1>18, <2>1, <2>2, DoomedRaise
  <2> QED BY <1>15, <2>3
<1>19. CASE x \notin HardErrors
  <2>1. Clear
    <3>1. ~Doomed BY <1>13, <1>19 DEF Doomed
    <3> QED BY <3>1, ClearKnown
  <2>2. Clear'
    <3>1. ~Doomed' BY <1>2, <1>13, <1>19 DEF Doomed
    <3> QED BY <1>15, <3>1, ClearNext
  <2>3. Own(l) = {}
    <3>1. base[l].native BY <1>1, <1>3, <1>5, NativeTop
    <3>2. l \in 1..Len(base) BY <1>5, <1>6
    <3> QED BY <2>1, <3>1, <3>2 DEF Clear, OwnFacts
  <2>4. LeavesLast(l, m, g, k) BY <1>10, <1>11
  <2>5. Stays(b, k) /\ Hs(b)' = Hs(b) BY <1>3, <1>4, <1>16, <2>1, <2>3, <2>4, StaysAfterLast
  <2>6. Pos(b)' = Pos(b)
    <3>1. base'[l - 1] = base[l - 1] BY <1>16, <1>17
    <3> QED BY <1>1, <1>2, <1>3, <1>5, <1>11, <1>16, <2>1, <3>1, NativeResumes
  <2>7. \A i \in b + 1..Len(base) : Own(i) = {}
    <3> SUFFICES ASSUME NEW i \in b + 1..Len(base) PROVE Own(i) = {} OBVIOUS
    <3>1. i = l BY <1>5, <1>6, <1>17
    <3> QED BY <2>3, <3>1
  <2>8. x \in Packets BY <1>14, <1>19
  <2>9. base'[b].code = base[b].code BY <1>17
  <2>10. flight' = x /\ flight = x /\ status \in {"raising", "escaped"} BY <1>1, <1>2, <1>13
  <2>11. A!Next BY <1>2, <1>17, <2>1, <2>2, <2>5, <2>6, <2>7, <2>8, <2>9, <2>10, PacketRaise
  <2> QED BY <1>15, <2>11
<1> QED BY <1>18, <1>19

LEMMA NativeRaiseStep ==
  ASSUME Sound, MachineInv', FreshInv', NativeRaise \/ NativeCallOverflows
  PROVE  CallInv' /\ A!Next
<1>1. status = "running" /\ Native BY DEF NativeRaise, NativeCallOverflows, InRegion
<1>2. /\ base' = base /\ nest' = nest /\ stack' = stack /\ pc' = pc /\ halt' = halt
      /\ status' = "raising"
  BY DEF NativeRaise, NativeCallOverflows, Registers
<1>3. DataOK /\ BaseOK /\ NestOK /\ HaltOK /\ EntriesOK /\ DataFacts /\ BaseFacts BY SoundParts
<1>4. DataOK' /\ NestOK' BY <1>2 DEF MachineInv, Live
<1>5. EntriesOK' BY <1>2, <1>3, SameEntries
<1>6. PICK x : x = flight' OBVIOUS
<1>7. (x = Overflow /\ handlerSp' = handlerSp) \/ x \in {"divzero", "stack"}
  BY <1>6 DEF NativeRaise, NativeCallOverflows, Registers
<1>8. Overflow \in Packets /\ {"divzero", "stack"} \subseteq HardErrors /\ Overflow \notin HardErrors
      /\ "heap" \in HardErrors
  BY MachineConstants, PacketsAreNoErrors DEF HardErrors
<1>9. CallInv' /\ Sound'
  <2>1. ~halt' BY <1>1, <1>2, <1>3 DEF HaltOK, Native
  <2>2. x \in (Packets \cup HardErrors) \ {"heap"} BY <1>7, <1>8
  <2>3. CallInv' /\ Live' BY <1>2, <1>5, <1>6, <2>1, <2>2, Raising
  <2> QED BY <2>3 DEF Sound
<1>10. PICK l : l = Len(base) OBVIOUS
<1>11. l \in Nat /\ l > 0 /\ l <= Len(base) /\ Len(base') = l /\ l \in 1..Len(base)
  BY <1>2, <1>3, <1>10 DEF DataFacts, BaseFacts
<1>12. CASE x \in HardErrors
  <2>1. \A i \in 1..l : base'[i].code = base[i].code BY <1>2
  <2>2. status' \in {"raising", "escaped"} BY <1>2
  <2>3. A!Next BY <1>1, <1>6, <1>9, <1>11, <1>12, <2>1, <2>2, DoomedRaise
  <2> QED BY <1>9, <2>3
<1>13. CASE x \notin HardErrors
  <2>1. x = Overflow /\ handlerSp' = handlerSp BY <1>7, <1>8, <1>13
  <2>2. Clear
    <3>1. ~Doomed BY <1>1 DEF Doomed
    <3> QED BY <3>1, ClearKnown
  <2>3. Clear'
    <3>1. ~Doomed' BY <1>6, <1>13 DEF Doomed
    <3> QED BY <1>9, <3>1, ClearNext
  <2>4. Blocks' = Blocks
    <3>1. Outer' = Outer BY <1>2 DEF Outer, Native
    <3>2. HandlerRegisters' \cup {0} = HandlerRegisters \cup {0}
      BY <1>2, <2>1, <3>1 DEF HandlerRegisters, Saves
    <3>3. \A y \in Blocks : stack'[y - 1].hsp = stack[y - 1].hsp BY <1>2
    <3> QED BY <1>3, <1>4, <2>2, <3>2, <3>3, BlocksSame DEF Clear
  <2>5. Stays(l, Len(nest))
    <3>1. Floor(l)' = Floor(l) /\ base'[l].native = base[l].native /\ base'[l].h = base[l].h
      BY <1>2 DEF Floor
    <3>2. \A i \in 2..l : stack'[base'[i].h - 1].pc.p = stack[base[i].h - 1].pc.p BY <1>2
    <3>3. \A y \in Blocks : y \in Blocks' /\ stack'[y].pc.p = stack[y].pc.p BY <1>2, <2>4
    <3>4. \A y \in Blocks' : y \in Blocks BY <2>4
    <3>5. Len(nest) \in Nat /\ Len(nest) <= Len(nest) /\ Len(nest) <= Len(nest')
      BY <1>2, <1>3 DEF DataFacts
    <3>6. \A j \in 1..Len(nest) : Len(nest) < j => base[l].h < nest[j].top + 2 BY <3>5
    <3>7. \A j \in 1..Len(nest) : nest'[j].top = nest[j].top /\ HookPc(j)' = HookPc(j)
      BY <1>2 DEF HookPc
    <3>8. l <= Len(base') /\ \A i \in 1..(l - 1) : base'[i] = base[i] BY <1>2, <1>11
    <3> QED BY <1>11, <3>1, <3>2, <3>3, <3>4, <3>5, <3>6, <3>7, <3>8, Zenon DEF Stays
  <2>6. base[l].native BY <1>1, <1>3, <1>10, NativeTop
  <2>7. Pos(l)' = Pos(l) BY <1>2, <2>6 DEF Pos
  <2>8. Hs(l)' = Hs(l)
    <3>1. Own(l) = {} BY <1>11, <2>2, <2>6 DEF Clear, OwnFacts
    <3>2. Own(l)' = Own(l)
      <4>1. Ceiling(l)' = Ceiling(l) BY <1>2 DEF Ceiling, Height
      <4> QED BY <1>2, <2>4, <4>1 DEF Own, BlocksIn
    <3>3. \A y \in Own(l) : stack'[y].pc.p = stack[y].pc.p BY <3>1
    <3>4. base'[l].h = base[l].h BY <1>2
    <3> QED BY <1>11, <2>2, <3>2, <3>3, <3>4, HsKept DEF Clear
  <2>9. \A i \in l + 1..Len(base) : Own(i) = {} BY <1>10, <1>11
  <2>10. base'[l].code = base[l].code /\ x \in Packets /\ status' \in {"raising", "escaped"}
    BY <1>2, <1>8, <2>1
  <2>11. A!Next BY <1>1, <1>6, <1>11, <2>2, <2>3, <2>5, <2>7, <2>8, <2>9, <2>10, PacketRaise
  <2> QED BY <1>9, <2>11
<1> QED BY <1>12, <1>13

-----------------------------------------------------------------------------
(* The end of a run *)

\* The finish flag was set outside nested runs: the program ends.
LEMMA HaltStep ==
  ASSUME Sound, Halt
  PROVE  CallInv' /\ A!Next
<1>1. nest = <<>> /\ status = "running"
  <2>1. HaltOK BY SoundParts
  <2> QED BY <2>1 DEF HaltOK, Halt, Interpreting
<1>2. status' = "finished" /\ base' = <<>> /\ exn' = None BY <1>1 DEF Halt, Quiesced
<1>3. CallInv' BY <1>2 DEF CallInv, Live
<1>4. Activated' = <<>> BY <1>2, NothingNext DEF NothingLeft
<1>5. PICK d, e, z : /\ d = (IF status = "escaped" THEN "raising" ELSE status)
                     /\ e = (IF status' = "escaped" THEN "raising" ELSE status')
                     /\ z = (IF status' \in {"raising", "escaped", "uncaught", "error"}
                             THEN flight' ELSE exn')
  OBVIOUS
<1>6. d = "running" /\ e = "finished" /\ z = None BY <1>1, <1>2, <1>5
<1>7. A!Finish BY <1>4, <1>5, <1>6, Zenon DEF A!Finish
<1> QED BY <1>3, <1>7 DEF A!Next

\* An activation that holds one word has no handler.
LEMMA HoldsResult ==
  ASSUME Clear, NEW l, l = Len(base), Height = Top.h + 1
  PROVE  /\ Own(l) = {} /\ Temps(l) = 1 /\ Hs(l) = <<>> /\ l \in 1..Len(base) /\ l \in Nat
         /\ Act(l).temps = 1 /\ Act(l).hs = <<>>
<1>1. l \in Nat /\ l \in 1..Len(base) /\ Top = base[l] BY HeightsKnown
<1>2. PICK h, t : h = base[l].h /\ t = Height OBVIOUS
<1>3. h \in Nat /\ t = h + 1 BY <1>1, <1>2 DEF Clear, BaseFacts
<1>4. Ceiling(l) = t BY <1>2 DEF Ceiling
<1>5. Own(l) = {}
  <2> SUFFICES ASSUME NEW x \in Own(l) PROVE FALSE OBVIOUS
  <2>1. h + 2 <= x /\ x <= t /\ x \in Nat BY <1>1, <1>2, <1>4 DEF Clear, OwnFacts
  <2> QED BY ONLY <1>3, <2>1
<1>6. Temps(l) = t - h - 2 * 0
  <2>1. Temps(l) = Ceiling(l) - base[l].h - 2 * Cardinality(Own(l)) BY <1>1 DEF Clear, ActFacts
  <2>2. Cardinality(Own(l)) = 0 BY <1>5, FS_EmptySet
  <2> QED BY <1>2, <1>4, <2>1, <2>2
<1>7. t - h - 2 * 0 = 1 BY ONLY <1>3
<1>8. Hs(l) = <<>> BY SMTT(40), <1>5, NoHandlers
<1> QED BY <1>1, <1>5, <1>6, <1>7, <1>8 DEF Act

\* The words of a return: those below the floor of the arguments, and the result.
ReturnsTo(l, m, s) ==
  /\ m \in Nat /\ m <= Height /\ Len(s) = m + 1 /\ \A i \in 1..m : s[i] = stack[i]
  /\ ~base[l].native /\ stack[Height - 2] = stack[base[l].h - 1] /\ base[l].h = Top.h

LEMMA ReturnWords ==
  ASSUME DataOK, BaseOK, SegsOK, NestOK, ~Native, Height = Top.h + 1,
         NEW l, l = Len(base), NEW m, m = Floor(l),
         NEW s, s = Append(SubSeq(stack, 1, Height - ReturnDrops), Data)
  PROVE  ReturnsTo(l, m, s)
<1>1. ~Top.native /\ seg.c = Top.code /\ Top = base[l] BY RunningCode
<1>2. /\ Top.h \in Nat /\ m \in Nat /\ Height \in Nat
      /\ Arity[Top.code] \in Nat /\ Top.h = m + 2 + Arity[Top.code] /\ Top.h <= Height
  BY TopKnown
<1>3. PICK h, a, t : h = Top.h /\ a = Arity[Top.code] /\ t = Height OBVIOUS
<1>4. ReturnDrops = 3 + a BY <1>1, <1>3 DEF ReturnDrops
<1>5. h \in Nat /\ a \in Nat /\ h = m + 2 + a /\ t = h + 1 BY <1>2, <1>3
<1>6. t - (3 + a) = m /\ m \in 0..t /\ m <= t /\ t - 2 = h - 1 BY ONLY <1>2, <1>5
<1>7. s = Append(SubSeq(stack, 1, m), Data) BY <1>3, <1>4, <1>6
<1>8. stack \in Seq(Word) /\ m \in 0..Len(stack) BY <1>3, <1>6 DEF DataOK, Height
<1>9. /\ SubSeq(stack, 1, m) \in Seq(Word) /\ Len(SubSeq(stack, 1, m)) = m
      /\ \A i \in 1..m : SubSeq(stack, 1, m)[i] = stack[i]
  BY <1>8, Prefix
<1>10. Len(s) = m + 1 /\ \A i \in 1..m : s[i] = stack[i]
  <2>1. PICK w : w = SubSeq(stack, 1, m) OBVIOUS
  <2>2. w \in Seq(Word) /\ Len(w) = m /\ \A i \in 1..m : w[i] = stack[i] BY <1>9, <2>1
  <2>3. s = Append(w, Data) /\ Data \in Word BY <1>7, <2>1, WordsKnown
  <2>4. Len(s) = m + 1 /\ \A i \in 1..m : s[i] = w[i]
    <3>1. PICK S, d : S = Word /\ d = Data OBVIOUS
    <3>2. w \in Seq(S) /\ d \in S /\ s = Append(w, d) /\ Len(w) = m BY <2>2, <2>3, <3>1
    <3> QED BY ONLY <3>2, Appended
  <2> QED BY <2>2, <2>4
<1>11. m <= Height /\ t - 2 = base[l].h - 1 BY <1>1, <1>3, <1>6
<1> QED BY <1>1, <1>2, <1>3, <1>10, <1>11 DEF ReturnsTo

\* A return to an interpreted caller.
LEMMA PlainReturn ==
  ASSUME Sound, MachineInv', FreshInv', DoReturn, stack[Height - 2] # Zero
  PROVE  CallInv' /\ A!Next
<1>1. status = "running" /\ ~Native /\ ~halt /\ Height = Top.h + 1
  BY DEF DoReturn, Stepping, Interpreting
<1>2. DataOK /\ BaseOK /\ SegsOK /\ NestOK /\ DataFacts /\ BaseFacts BY SoundParts
<1>3. Clear
  <2>1. ~Doomed BY <1>1 DEF Doomed
  <2> QED BY <2>1, ClearKnown
<1>4. PICK l, m, s : /\ l = Len(base) /\ m = Floor(l)
                     /\ s = Append(SubSeq(stack, 1, Height - ReturnDrops), Data)
  OBVIOUS
<1>5. /\ m \in Nat /\ m <= Height /\ Len(s) = m + 1 /\ \A i \in 1..m : s[i] = stack[i]
      /\ ~base[l].native /\ stack[Height - 2] = stack[base[l].h - 1] /\ base[l].h = Top.h
  <2>1. ReturnsTo(l, m, s) BY <1>1, <1>2, <1>4, ReturnWords
  <2> QED BY <2>1 DEF ReturnsTo
<1>6. /\ stack' = s /\ pc' = stack[Height - 2].pc /\ base' = Front(base)
      /\ handlerSp' = handlerSp /\ exn' = exn /\ nest' = nest /\ status' = status /\ halt' = halt
  BY <1>4 DEF DoReturn, outer
<1>7. Own(l) = {} /\ l \in 1..Len(base) /\ l \in Nat BY <1>1, <1>3, <1>4, HoldsResult
<1>8. l > 1 /\ ~base[l - 1].native
  <2>1. stack[base[l].h - 1] # Zero BY <1>5
  <2> QED BY <1>2, <1>5, <1>7, <2>1 DEF SegsOK, DataFacts
<1>9. Len(base') = l - 1 /\ \A i \in 1..(l - 1) : base'[i] = base[i]
  <2>1. base \in Seq([code : Codes, h : Nat, native : BOOLEAN]) BY <1>2 DEF DataOK
  <2>2. Len(base) > 0 BY <1>4, <1>8
  <2> QED BY <1>4, <1>6, <2>1, <2>2, Shortened
<1>10. PICK n : n = Len(nest) OBVIOUS
<1>11. /\ n \in Nat /\ Outer = n /\ Outer' = n /\ nest' = nest /\ DOMAIN nest = 1..n
       /\ \A j \in 1..n : nest[j].saved # None
  <2>1. n \in Nat /\ DOMAIN nest = 1..n BY <1>2, <1>10 DEF DataFacts
  <2>2. Outer = n BY <1>1, <1>10 DEF Outer
  <2>3. Outer' = n BY <1>1, <1>6, <1>10 DEF Outer, Native
  <2>4. \A j \in 1..n : nest[j].saved # None BY <1>2, <2>1, <2>2 DEF NestOK
  <2> QED BY <1>6, <2>1, <2>2, <2>3, <2>4
<1>12. FrameStays(n) BY <1>11 DEF FrameStays
<1>13. \A j \in 1..n : nest'[j].top = nest[j].top /\ HookPc(j)' = HookPc(j) BY <1>11 DEF HookPc
<1>14. Height' = m + 1 /\ m <= Height'
  <2>1. Height' = Len(s) BY <1>6 DEF Height
  <2> QED BY <1>5, <2>1
<1>15. LeavesLast(l, m, n, n)
  <2>1. \A j \in 1..Len(nest) : n < j => base[l - 1].h < nest[j].top + 2 BY <1>10, <1>11
  <2>2. n <= Len(nest) /\ n <= Len(nest') /\ n <= n BY <1>10, <1>11
  <2>3. \A i \in 1..m : stack'[i] = stack[i] BY <1>5, <1>6
  <2> QED BY <1>4, <1>6, <1>8, <1>9, <1>11, <1>12, <1>13, <1>14, <2>1, <2>2, <2>3, Zenon
         DEF LeavesLast
<1>16. Pos(l - 1)' = Pos(l - 1)
  <2>1. PICK b : b = l - 1 OBVIOUS
  <2>2. b \in 1..b /\ b + 1 = l /\ b # l /\ Len(base') = b /\ base'[b] = base[b]
    BY <1>7, <1>8, <1>9, <2>1
  <2>3. PcAt(b) = stack[base[l].h - 1].pc BY <1>4, <1>5, <2>2 DEF PcAt
  <2>4. PcAt(b)' = pc' BY <2>2 DEF PcAt
  <2>5. ~base[b].native /\ ~base'[b].native BY <1>8, <2>1, <2>2
  <2>6. Pos(b) = PcAt(b).p /\ Pos(b)' = PcAt(b)'.p BY <2>5 DEF Pos
  <2> QED BY <1>5, <1>6, <2>1, <2>3, <2>4, <2>6
<1>17. Height = base[l].h + 1 BY <1>1, <1>5
<1>18. status' = "running" /\ (halt' => nest' = <<>>) BY <1>1, <1>6
<1> QED BY <1>1, <1>6, <1>7, <1>14, <1>15, <1>16, <1>17, <1>18, ReturnStep

\* The zero return address ends the run: it was left for a region's callee, or
\* for the program's first activation.
LEMMA ZeroReturn ==
  ASSUME DataOK, BaseOK, NestOK, EntriesOK, ~Native, NEW l, l = Len(base),
         ~base[l].native, stack[base[l].h - 1] = Zero
  PROVE  /\ nest = <<>> => l = 1
         /\ \A c \in Nat : RunLeft(c) => c = l - 1
<1>1. DataFacts /\ BaseFacts BY DataKnown, BaseKnown
<1>2. l \in Nat /\ l >= 1 BY <1>1 DEF DataFacts, BaseFacts
<1>3. l >= 2 => \E j \in 1..Outer : Caller(j) = l - 1
  <2>1. SUFFICES ASSUME l >= 2 PROVE \E j \in 1..Outer : Caller(j) = l - 1 OBVIOUS
  <2>2. l \in 2..Len(base) BY <1>2, <2>1
  <2>3. EntryOK(l) BY <2>2 DEF EntriesOK
  <2> QED BY <2>3 DEF EntryOK
<1>4. nest = <<>> => l = 1
  <2>1. SUFFICES ASSUME nest = <<>>, l # 1 PROVE FALSE OBVIOUS
  <2>2. Outer = 0 BY <2>1 DEF Outer
  <2> QED BY <1>2, <1>3, <2>1, <2>2
<1>5. ASSUME NEW c \in Nat, RunLeft(c) PROVE c = l - 1
  <2>1. c >= 1 /\ c < l /\ Outer \in Nat /\ Outer >= 1 /\ Caller(Outer) = c BY <1>5 DEF RunLeft
  <2>2. PICK j \in 1..Outer : Caller(j) = l - 1
    <3>1. l >= 2 BY <1>2, <2>1
    <3> QED BY <1>3, <3>1
  <2>3. CASE j = Outer BY <2>1, <2>2, <2>3
  <2>4. CASE j # Outer
    <3>1. j < Outer /\ Outer \in 1..Outer BY <2>1, <2>4
    <3>2. Caller(j) < Caller(Outer) BY <2>2, <3>1 DEF NestOK
    <3> QED BY <1>2, <2>1, <2>2, <3>2
  <2> QED BY <2>3, <2>4
<1> QED BY <1>4, <1>5

\* The program's first activation returns.
LEMMA LastReturn ==
  ASSUME Sound, DoReturn, stack[Height - 2] = Zero, nest = <<>>
  PROVE  CallInv' /\ A!Next
<1>1. status = "running" /\ ~Native /\ Height = Top.h + 1
  BY DEF DoReturn, Stepping, Interpreting
<1>2. DataOK /\ BaseOK /\ SegsOK /\ NestOK /\ EntriesOK BY SoundParts
<1>3. Clear
  <2>1. ~Doomed BY <1>1 DEF Doomed
  <2> QED BY <2>1, ClearKnown
<1>4. PICK l, m, s : /\ l = Len(base) /\ m = Floor(l)
                     /\ s = Append(SubSeq(stack, 1, Height - ReturnDrops), Data)
  OBVIOUS
<1>5. ReturnsTo(l, m, s) BY <1>1, <1>2, <1>4, ReturnWords
<1>6. l = 1
  <2>1. ~base[l].native /\ stack[base[l].h - 1] = Zero BY <1>5 DEF ReturnsTo
  <2> QED BY <1>1, <1>2, <1>4, <2>1, ZeroReturn
<1>7. status' = "returned" /\ base' = <<>> /\ exn' = None BY DEF DoReturn, Quiesced
<1>8. CallInv' BY <1>7 DEF CallInv, Live
<1>9. Activated' = <<>> BY <1>7, NothingNext DEF NothingLeft
<1>10. PICK a : a = Activated OBVIOUS
<1>11. Len(a) = 1 /\ a[1].temps = 1 /\ a[1].hs = <<>>
  <2>1. Len(a) = l /\ a[1] = Act(l) BY <1>3, <1>4, <1>6, <1>10 DEF Clear, SeenFacts
  <2>2. Act(l).temps = 1 /\ Act(l).hs = <<>> BY <1>1, <1>3, <1>4, HoldsResult
  <2> QED BY <1>6, <2>1, <2>2
<1>12. A!Last(a) = a[1]
  <2>1. A!Last(a) = a[Len(a)] BY Zenon DEF A!Last
  <2> QED BY <1>11, <2>1
<1>13. PICK d, e, z : /\ d = (IF status = "escaped" THEN "raising" ELSE status)
                      /\ e = (IF status' = "escaped" THEN "raising" ELSE status')
                      /\ z = (IF status' \in {"raising", "escaped", "uncaught", "error"}
                              THEN flight' ELSE exn')
  OBVIOUS
<1>14. d = "running" /\ e = "returned" /\ z = None BY <1>1, <1>7, <1>13
<1>15. A!Last(a).temps = 1 /\ A!Last(a).hs = <<>> BY <1>11, <1>12
<1>16. A!Stop BY <1>9, <1>10, <1>11, <1>13, <1>14, <1>15, Zenon DEF A!Stop
<1> QED BY <1>8, <1>16 DEF A!Next

\* A region's callee returns to it.
LEMMA NestedReturn ==
  ASSUME Sound, MachineInv', FreshInv', DoReturn, stack[Height - 2] = Zero, nest # <<>>
  PROVE  CallInv' /\ A!Next
<1>1. status = "running" /\ ~Native /\ ~halt /\ Height = Top.h + 1
  BY DEF DoReturn, Stepping, Interpreting
<1>2. DataOK /\ BaseOK /\ SegsOK /\ NestOK /\ EntriesOK /\ DataFacts /\ BaseFacts BY SoundParts
<1>3. Clear
  <2>1. ~Doomed BY <1>1 DEF Doomed
  <2> QED BY <2>1, ClearKnown
<1>4. PICK l, m, s : /\ l = Len(base) /\ m = Floor(l)
                     /\ s = Append(SubSeq(stack, 1, Height - ReturnDrops), Data)
  OBVIOUS
<1>5. ReturnsTo(l, m, s) BY <1>1, <1>2, <1>4, ReturnWords
<1>6. /\ m \in Nat /\ m <= Height /\ Len(s) = m + 1 /\ (\A i \in 1..m : s[i] = stack[i])
      /\ ~base[l].native /\ stack[base[l].h - 1] = Zero
  BY <1>5 DEF ReturnsTo
<1>7. Restored /\ stack' = s /\ exn' = exn /\ status' = "running" /\ halt' = halt
  BY <1>1, <1>4 DEF DoReturn
<1>8. PICK c \in 1..Len(base) : RunLeft(c) BY <1>1, <1>2, <1>7, RunIsLeft
<1>9. /\ c \in Nat /\ c >= 1 /\ c < Len(base) /\ c \in 1..Len(base) /\ base[c].native
      /\ Len(base') = c /\ (\A i \in 1..c : base'[i] = base[i]) /\ Outer >= 1 /\ Outer \in Nat
      /\ Caller(Outer) = c
  BY <1>8 DEF RunLeft
<1>10. c = l - 1 /\ l = c + 1 /\ l \in Nat /\ l \in 1..Len(base)
  <2>1. c = l - 1 BY <1>1, <1>2, <1>4, <1>6, <1>8, <1>9, ZeroReturn
  <2>2. l \in Nat BY <1>2, <1>4 DEF DataFacts
  <2> QED BY <1>4, <1>9, <2>1, <2>2
<1>11. Own(l) = {} /\ Act(l).temps = 1 /\ Act(l).hs = <<>> BY <1>1, <1>3, <1>4, HoldsResult
<1>12. handlerSp = 0
  <2>1. SUFFICES ASSUME handlerSp # 0 PROVE FALSE OBVIOUS
  <2>2. ~Doomed BY <1>1 DEF Doomed
  <2>3. PICK o \in 1..Len(base) : HandledBy(o, handlerSp) BY <2>1, <2>2, TopBlock
  <2>4. handlerSp \in Own(o) /\ \A j \in 1..Outer : Caller(j) < o BY <2>3 DEF HandledBy
  <2>5. c < o
    <3>1. Outer \in 1..Outer BY <1>9
    <3> QED BY <1>9, <2>4, <3>1
  <2>6. o = l BY <1>4, <1>10, <2>3, <2>5
  <2> QED BY <1>11, <2>4, <2>6
<1>13. Keeps(m, c) /\ base[c].h <= m /\ base[c].h \in Nat
  <2>1. base[c].h <= m /\ base[c].h \in Nat BY <1>2, <1>4, <1>9, <1>10 DEF BaseFacts
  <2>2. m \in 0..Height /\ m <= Len(stack') /\ c \in 0..Len(base) /\ c <= Len(base')
    <3>1. Height \in Nat BY <1>2 DEF DataFacts
    <3>2. m <= m + 1 BY <1>6
    <3> QED BY <1>6, <1>7, <1>9, <3>1, <3>2
  <2> QED BY <1>6, <1>7, <1>9, <2>1, <2>2 DEF Keeps
<1>14. EntriesOK' BY <1>2, <1>6, <1>8, <1>13, EntriesLeft
<1>15. CallInv' BY <1>1, <1>7, <1>14, GoesOn
<1>16. Clear'
  <2>1. Sound' /\ ~Doomed' BY <1>7, <1>15 DEF Sound, Live, Doomed
  <2> QED BY <2>1, ClearNext
<1>17. DataOK' /\ NestOK' BY <1>7 DEF MachineInv, Live
<1>18. Stays(c, Len(nest)) /\ Own(c)' = {}
  BY <1>2, <1>3, <1>6, <1>8, <1>12, <1>13, <1>16, <1>17, LeftStays
<1>19. PICK a, z : Chains(a, z, c) BY <1>3, <1>16, <1>18, ChainsKnown
<1>20. base'[c] = base[c] /\ c \in 1..Len(base') BY <1>9
<1>21. Own(c) = {}
  BY <1>3, <1>9 DEF Clear, OwnFacts
<1>22. Temps(c)' = Temps(c) + 1
  <2>1. Ceiling(c) = m BY <1>3, <1>4, <1>9, <1>10 DEF Clear, CeilingFacts
  <2>2. Ceiling(c)' = m + 1
    <3>1. Ceiling(c)' = Height' BY <1>9 DEF Ceiling
    <3> QED BY <1>6, <1>7, <3>1 DEF Height
  <2>3. Temps(c) = Ceiling(c) - base[c].h - 2 * Cardinality(Own(c))
    BY <1>3, <1>9 DEF Clear, ActFacts
  <2>4. Temps(c)' = Ceiling(c)' - base'[c].h - 2 * Cardinality(Own(c)')
    <3>1. ActFacts' BY <1>16 DEF Clear
    <3> QED BY <1>20, <3>1 DEF ActFacts
  <2>5. Cardinality(Own(c)) = 0 /\ Cardinality(Own(c)') = 0 BY <1>18, <1>21, FS_EmptySet
  <2>6. PICK h : h = base[c].h OBVIOUS
  <2>7. h \in Nat BY <1>13, <2>6
  <2>8. Temps(c) = m - h - 2 * 0 /\ Temps(c)' = m + 1 - h - 2 * 0
    <3>1. Temps(c) = m - h - 2 * 0 BY <2>1, <2>3, <2>5, <2>6
    <3>2. base'[c].h = h BY <1>20, <2>6
    <3>3. PICK u, v, w : u = Ceiling(c)' /\ v = base'[c].h /\ w = Cardinality(Own(c)') OBVIOUS
    <3>4. PICK y : y = Temps(c)' OBVIOUS
    <3>5. y = u - v - 2 * w BY <2>4, <3>3, <3>4
    <3>6. u = m + 1 /\ v = h /\ w = 0 BY <2>2, <2>5, <3>2, <3>3
    <3>7. y = m + 1 - h - 2 * 0 BY ONLY <1>6, <2>7, <3>5, <3>6
    <3> QED BY <3>1, <3>4, <3>7
  <2>9. m + 1 - h - 2 * 0 = (m - h - 2 * 0) + 1 BY ONLY <1>6, <2>7
  <2> QED BY <2>8, <2>9
<1>23. A!Returns(a, z)
  <2>1. /\ a \in Seq(Acts) /\ z \in Seq(Acts) /\ Len(a) = c + 1 /\ Len(z) = c
        /\ a[c] = Act(c) /\ z[c] = Act(c)' /\ a[c + 1] = Act(l)
        /\ \A i \in 1..(c - 1) : z[i] = a[i]
    BY <1>4, <1>9, <1>10, <1>19, <1>20 DEF Chains
  <2>2. a[c + 1].temps = 1 /\ a[c + 1].hs = <<>> BY <1>11, <2>1
  <2>3. z[c] = A!Goes(a[c], a[c].pos, a[c].temps + 1, a[c].hs)
    <3>1. Hs(c) = <<>> BY <1>21, NoHandlers
    <3>2. Hs(c)' = <<>>
      <4>1. ActFacts' BY <1>16 DEF Clear
      <4> QED BY <1>18, <1>20, <4>1 DEF ActFacts
    <3>3. Pos(c) = 0 /\ Pos(c)' = 0 BY <1>9, <1>20 DEF Pos
    <3>4. Act(c)' = [code |-> base'[c].code, pos |-> Pos(c)', temps |-> Temps(c)', hs |-> Hs(c)']
      BY DEF Act
    <3>5. z[c] = [code |-> base[c].code, pos |-> 0, temps |-> Temps(c) + 1, hs |-> <<>>]
      BY <1>20, <1>22, <2>1, <3>2, <3>3, <3>4
    <3>6. a[c].code = base[c].code /\ a[c].pos = 0 /\ a[c].temps = Temps(c) /\ a[c].hs = <<>>
      BY <2>1, <3>1, <3>3 DEF Act
    <3> QED BY <3>5, <3>6 DEF A!Goes
  <2>4. c \in Nat /\ c > 0 BY <1>9
  <2> QED BY ONLY <2>1, <2>2, <2>3, <2>4, IsReturn
<1>24. A!Returns(Activated, Activated') BY <1>19, <1>23 DEF Chains
<1> QED BY <1>1, <1>7, <1>15, <1>24, IsRun

LEMMA InterpretedReturn ==
  ASSUME Sound, MachineInv', FreshInv', DoReturn
  PROVE  CallInv' /\ A!Next
<1>1. CASE stack[Height - 2] # Zero BY <1>1, PlainReturn
<1>2. CASE stack[Height - 2] = Zero /\ nest = <<>> BY <1>2, LastReturn
<1>3. CASE stack[Height - 2] = Zero /\ nest # <<>> BY <1>3, NestedReturn
<1> QED BY <1>1, <1>2, <1>3

-----------------------------------------------------------------------------
(* Tail calls *)

\* The callee c takes the place of the last activation, the l-th, at its floor
\* m, with its return address.
TakesOver(c, l, m) ==
  /\ l = Len(base) /\ m = Floor(l) /\ m \in Nat /\ m <= Height /\ l \in Nat /\ l \in 1..Len(base)
  /\ c \in Codes /\ Arity[c] \in Nat /\ ~base[l].native /\ handlerSp < base[l].h
  /\ Len(base') = l /\ \A i \in 1..(l - 1) : base'[i] = base[i]
  /\ base'[l].code = c /\ base'[l].h = m + (Arity[c] + 2) /\ ~base'[l].native
  /\ Len(stack') = m + (Arity[c] + 2) /\ \A i \in 1..m : stack'[i] = stack[i]
  /\ stack'[base'[l].h - 1] = stack[base[l].h - 1]
  /\ pc'.p = 0

LEMMA TailCallIs ==
  ASSUME DataOK, BaseOK, SegsOK, NestOK, DoTailCall
  PROVE  \E c, l, m : TakesOver(c, l, m)
<1>1. status = "running" /\ ~Native BY DEF DoTailCall, Stepping, Interpreting
<1>2. PICK l, m, x : l = Len(base) /\ m = Floor(l) /\ x = Height OBVIOUS
<1>3. /\ Top = base[l] /\ l \in Nat /\ l >= 1 /\ Top.h \in Nat /\ m \in Nat /\ x \in Nat
      /\ Arity[Top.code] \in Nat /\ Top.h = m + 2 + Arity[Top.code] /\ Top.h <= x /\ ~Top.native
  BY <1>1, <1>2, TopKnown, RunningCode
<1>4. PICK y, a : y = Top.h /\ a = Arity[Top.code] OBVIOUS
<1>5. y \in Nat /\ a \in Nat /\ y = m + 2 + a /\ y <= x BY <1>3, <1>4
<1>6. y - 2 - a = m /\ m <= x BY ONLY <1>3, <1>5
<1>7. PICK c \in Codes :
        LET n == Arity[c] + 2
            moved == SubSeq(stack, Height - n + 1, Height)
            floor == Top.h - 2 - Arity[Top.code]
        IN /\ Owns(n) /\ handlerSp < Top.h
           /\ moved[n] = stack[Top.h - 1]
           /\ \A i \in 1 .. n - 1 : moved[i] = Data
           /\ stack' = SubSeq(stack, 1, floor) \o SubSeq(moved, 1, n - 2)
                       \o <<moved[n], moved[n - 1]>>
           /\ seg' = Bounds(c) /\ pc' = Addr(c, 0)
           /\ base' = Append(Front(base), Activation(c, floor + n, FALSE))
  BY Zenon DEF DoTailCall
<1>8. PICK n : n = Arity[c] + 2 OBVIOUS
<1>9. PICK d : d = SubSeq(stack, x - n + 1, x) BY Zenon
<1>10. /\ Owns(n) /\ handlerSp < y /\ d[n] = stack[y - 1]
       /\ stack' = SubSeq(stack, 1, m) \o SubSeq(d, 1, n - 2) \o <<d[n], d[n - 1]>>
       /\ pc' = Addr(c, 0) /\ base' = Append(Front(base), Activation(c, m + n, FALSE))
  <2>1. x = Height BY <1>2
  <2>2. y = Top.h BY <1>4
  <2>3. a = Arity[Top.code] BY <1>4
  <2>4. y - 2 - a = m BY <1>6
  <2> QED BY ONLY <2>1, <2>2, <2>3, <2>4, <1>7, <1>8, <1>9, Zenon
<1>11. n \in Nat /\ n >= 2 /\ n <= x /\ Arity[c] \in Nat
  <2>1. Arity[c] \in Nat BY MachineConstants
  <2>2. x - y >= n BY <1>2, <1>4, <1>10 DEF Owns
  <2> QED BY <1>3, <1>5, <1>8, <2>1, <2>2
<1>12. /\ Len(stack') = m + n /\ stack'[m + n - 1] = stack[y - 1]
       /\ \A i \in 1..m : stack'[i] = stack[i]
  <2>1. PICK s, S : s = stack /\ S = Word OBVIOUS
  <2>2. s \in Seq(S) /\ x = Len(s) BY <1>2, <2>1 DEF DataOK, Height
  <2>3. n \in 2..x /\ m \in 0..x BY <1>3, <1>6, <1>11
  <2>4. d = SubSeq(s, x - n + 1, x) BY <1>9, <2>1
  <2>5. PICK z : z = SubSeq(s, 1, m) \o SubSeq(d, 1, n - 2) \o <<d[n], d[n - 1]>> OBVIOUS
  <2>6. MovedTo(S, z, s, d, m, n) BY ONLY <2>2, <2>3, <2>4, <2>5, Moved
  <2>7. stack' = z BY <1>10, <2>1, <2>5
  <2> QED BY <1>10, <2>1, <2>6, <2>7 DEF MovedTo
<1>13. PICK e : e = Activation(c, m + n, FALSE) OBVIOUS
<1>14. e.code = c /\ e.h = m + n /\ ~e.native BY <1>13 DEF Activation
<1>15. Len(base') = l /\ base'[l] = e /\ \A i \in 1..(l - 1) : base'[i] = base[i]
  <2>1. PICK f, S : f = Front(base) /\ S = [code : Codes, h : Nat, native : BOOLEAN] OBVIOUS
  <2>2. f \in Seq(S) /\ Len(f) = l - 1 /\ \A i \in 1..(l - 1) : f[i] = base[i]
    <3>1. base \in Seq(S) /\ Len(base) > 0 BY <1>2, <1>3, <2>1 DEF DataOK
    <3> QED BY <1>2, <2>1, <3>1, Shortened
  <2>3. base' = Append(f, e) BY <1>10, <1>13, <2>1
  <2>4. Len(base') = l /\ base'[l] = e /\ \A i \in 1..(l - 1) : base'[i] = f[i]
    BY ONLY <1>3, <2>2, <2>3
  <2> QED BY <2>2, <2>4
<1>16. stack'[base'[l].h - 1] = stack[base[l].h - 1]
  <2>1. base'[l].h = m + n BY <1>14, <1>15
  <2>2. base[l].h = y BY <1>3, <1>4
  <2>3. stack'[m + n - 1] = stack[y - 1] BY <1>12
  <2>4. base'[l].h - 1 = m + n - 1
    <3>1. PICK g : g = base'[l].h OBVIOUS
    <3>2. g = m + n BY ONLY <2>1, <3>1
    <3>3. g - 1 = m + n - 1 BY ONLY <1>3, <1>11, <3>2
    <3> QED BY ONLY <3>1, <3>3, Zenon
  <2>5. base[l].h - 1 = y - 1 BY ONLY <2>2, Zenon
  <2> QED BY ONLY <2>3, <2>4, <2>5, Zenon
<1>17. pc'.p = 0 BY <1>10 DEF Addr
<1>18. l = Len(base) /\ l \in Nat /\ l \in 1..Len(base)
  <2>1. l \in 1..l BY <1>3
  <2> QED BY <1>2, <1>3, <2>1
<1>19. TakesOver(c, l, m)
  <2>1. m = Floor(l) /\ m \in Nat BY <1>2, <1>3
  <2>2. m <= Height BY <1>2, <1>6
  <2>3. c \in Codes /\ Arity[c] \in Nat BY <1>7, <1>11
  <2>4. ~base[l].native BY <1>3
  <2>5. handlerSp < base[l].h
    <3>1. base[l].h = y BY <1>3, <1>4
    <3> QED BY <1>10, <3>1, Zenon
  <2>6. Len(base') = l /\ \A i \in 1..(l - 1) : base'[i] = base[i] BY <1>15
  <2>7. m + n = m + (Arity[c] + 2) BY <1>8
  <2>8. base'[l].code = c /\ ~base'[l].native BY <1>14, <1>15
  <2>9. base'[l].h = m + (Arity[c] + 2) BY <1>14, <1>15, <2>7
  <2>10. Len(stack') = m + (Arity[c] + 2) BY <1>12, <2>7
  <2>11. \A i \in 1..m : stack'[i] = stack[i] BY <1>12
  <2> QED BY ONLY <1>16, <1>17, <1>18, <2>1, <2>2, <2>3, <2>4, <2>5, <2>6, <2>8, <2>9, <2>10, <2>11,
                  Zenon DEF TakesOver
<1> QED BY SMTT(40), <1>7, <1>19

\* The callee was entered as its caller was.
LEMMA EntriesTaken ==
  ASSUME DataOK, BaseOK, NestOK, EntriesOK, NEW c, NEW l, NEW m, TakesOver(c, l, m), nest' = nest
  PROVE  EntriesOK'
<1>1. DataFacts /\ BaseFacts BY DataKnown, BaseKnown
<1>2. /\ l = Len(base) /\ m = Floor(l) /\ m \in Nat /\ m <= Height /\ l \in Nat /\ l \in 1..Len(base)
      /\ Len(base') = l /\ (\A i \in 1..(l - 1) : base'[i] = base[i])
      /\ Len(stack') = m + (Arity[c] + 2) /\ (\A i \in 1..m : stack'[i] = stack[i])
      /\ stack'[base'[l].h - 1] = stack[base[l].h - 1]
      /\ Arity[c] \in Nat /\ ~base[l].native /\ ~base'[l].native
  BY DEF TakesOver
<1>3. PICK b, n, o, w : b = l - 1 /\ n = Len(base') /\ o = Outer /\ w = Len(nest) OBVIOUS
<1>4. b \in Nat /\ n = b + 1 /\ b + 1 = l /\ b \in 0..Len(base) BY <1>2, <1>3
<1>5. o \in Nat /\ Outer' = Outer /\ w \in Nat /\ Len(nest') = w
  <2>1. Outer \in Nat /\ Len(nest) \in Nat BY CutsKnown
  <2>2. Outer' = Outer BY DEF Outer, Native
  <2> QED BY <1>3, <2>1, <2>2
<1>6. b >= 1 => base[b].h <= m
  <2>1. SUFFICES ASSUME b >= 1 PROVE base[b].h <= m OBVIOUS
  <2>2. b \in 1..Len(base) /\ b < l BY <1>4, <2>1
  <2> QED BY <1>1, <1>2, <2>2 DEF BaseFacts
<1>7. Keeps(m, b)
  <2>1. m \in 0..Height
    <3>1. Height \in Nat BY <1>1 DEF DataFacts
    <3> QED BY <1>2, <3>1
  <2>2. m <= Len(stack')
    <3>1. PICK u, v : u = Arity[c] /\ v = Len(stack') OBVIOUS
    <3>2. v = m + (u + 2) /\ u \in Nat BY <1>2, <3>1
    <3>3. m <= v BY ONLY <1>2, <3>2
    <3> QED BY <3>1, <3>3
  <2>3. b <= Len(base') /\ \A i \in 1..b : base'[i] = base[i] BY <1>2, <1>3, <1>4
  <2> QED BY <1>2, <1>4, <2>1, <2>2, <2>3 DEF Keeps
<1>8. n = b + 1 /\ b >= 1 => EntryOK(b + 1)'
  <2>1. SUFFICES ASSUME b >= 1 PROVE EntryOK(l)' BY <1>4
  <2>2. l \in 2..Len(base) BY <1>2, <1>4, <2>1
  <2>3. EntryOK(l) BY <2>2 DEF EntriesOK
  <2>4. base'[l - 1] = base[l - 1]
    <3>1. l - 1 \in 1..(l - 1) BY <1>3, <1>4, <2>1
    <3> QED BY <1>2, <3>1
  <2>5. \A j \in 1..Outer : Caller(j)' = Caller(j) BY DEF Caller
  <2>6. CASE base[l - 1].native
    <3>1. \E j \in 1..Outer : Caller(j) = l - 1 BY <1>2, <2>3, <2>6 DEF EntryOK
    <3>2. \E j \in 1..Outer' : Caller(j)' = l - 1 BY <1>5, <2>5, <3>1
    <3> QED BY <1>2, <2>4, <2>6, <3>2 DEF EntryOK
  <2>7. CASE ~base[l - 1].native
    <3>1. stack[base[l].h - 1] # Zero BY <1>2, <2>3, <2>7 DEF EntryOK
    <3>2. stack'[base'[l].h - 1] # Zero BY <1>2, <3>1
    <3> QED BY <1>2, <2>4, <2>7, <3>2 DEF EntryOK
  <2> QED BY <2>6, <2>7
<1>9. o <= Outer' /\ Outer \in Nat /\ Outer' \in Nat /\ (\A j \in 1..o : Caller(j)' = Caller(j))
      /\ \A j \in 1..Outer : o < j => Caller(j) >= b
  BY <1>3, <1>5 DEF Caller
<1>10. w <= Len(nest) /\ w <= Len(nest') /\ (\A j \in 1..w : nest'[j].top = nest[j].top)
       /\ \A j \in 1..Len(nest) : w < j => base[b].h < nest[j].top + 2
  BY <1>3, <1>5
<1>11. n = Len(base') /\ (n = b \/ n = b + 1) BY <1>3, <1>4
<1>12. DataOK /\ BaseOK /\ EntriesOK OBVIOUS
<1> QED BY ONLY <1>2, <1>4, <1>5, <1>6, <1>7, <1>8, <1>9, <1>10, <1>11, <1>12, EntriesStep

LEMMA TailCallStep ==
  ASSUME Sound, MachineInv', FreshInv', DoTailCall
  PROVE  CallInv' /\ A!Next
<1>1. status = "running" /\ ~Native /\ ~halt BY DEF DoTailCall, Stepping, Interpreting
<1>2. nest' = nest /\ handlerSp' = handlerSp /\ exn' = exn /\ status' = "running" /\ ~halt'
  BY <1>1 DEF DoTailCall, outer
<1>3. DataOK /\ BaseOK /\ SegsOK /\ NestOK /\ EntriesOK BY SoundParts
<1>4. DataOK' /\ NestOK' BY <1>2 DEF MachineInv, Live
<1>5. Clear
  <2>1. ~Doomed BY <1>1 DEF Doomed
  <2> QED BY <2>1, ClearKnown
<1>6. DataFacts /\ BaseFacts /\ BlockFacts /\ OwnFacts /\ CeilingFacts BY <1>5 DEF Clear
<1>7. PICK c, l, m : TakesOver(c, l, m) BY <1>3, TailCallIs
<1>8. /\ l = Len(base) /\ m = Floor(l) /\ m \in Nat /\ m <= Height /\ l \in Nat /\ l \in 1..Len(base)
      /\ Len(base') = l /\ (\A i \in 1..(l - 1) : base'[i] = base[i])
      /\ base'[l].code = c /\ base'[l].h = m + (Arity[c] + 2)
      /\ Len(stack') = m + (Arity[c] + 2) /\ (\A i \in 1..m : stack'[i] = stack[i])
      /\ stack'[base'[l].h - 1] = stack[base[l].h - 1]
      /\ Arity[c] \in Nat /\ ~base[l].native /\ ~base'[l].native
      /\ handlerSp < base[l].h /\ pc'.p = 0 /\ c \in Codes
  BY <1>7 DEF TakesOver
<1>9. EntriesOK' BY <1>2, <1>3, <1>7, EntriesTaken
<1>10. CallInv' BY <1>2, <1>9, GoesOn
<1>11. Clear'
  <2>1. Sound' /\ ~Doomed' BY <1>2, <1>10 DEF Sound, Live, Doomed
  <2> QED BY <2>1, ClearNext
<1>12. Own(l) = {}
  <2> SUFFICES ASSUME NEW x \in Own(l) PROVE FALSE OBVIOUS
  <2>1. x \in Nat /\ base[l].h + 2 <= x /\ x \in Blocks /\ base[l].h \in Nat
    BY <1>6, <1>8 DEF OwnFacts, BaseFacts
  <2>2. CASE handlerSp # 0
    <3>1. x <= handlerSp /\ handlerSp \in Nat BY <1>3, <1>6, <2>1, <2>2 DEF BlockFacts, DataOK
    <3> QED BY <1>8, <2>1, <3>1
  <2>3. CASE handlerSp = 0
    <3>1. PICK o \in 1..Len(base) : Outer >= 1 /\ o <= Caller(Outer) /\ x <= Ceiling(o)
      BY <1>6, <2>1, <2>3 DEF BlockFacts
    <3>2. Outer \in Nat /\ \A j \in 1..Outer : Caller(j) \in Nat /\ Caller(j) < Len(base)
      BY <1>3, NestKnown
    <3>3. Outer \in 1..Outer BY <3>1, <3>2
    <3>4. o < l /\ o \in Nat BY <1>8, <3>1, <3>2, <3>3
    <3>5. Ceiling(o) + 2 <= base[l].h /\ Ceiling(o) \in Nat
      BY <1>6, <1>8, <3>1, <3>4 DEF CeilingFacts
    <3> QED BY <2>1, <3>1, <3>5
  <2> QED BY <2>2, <2>3
<1>13. \A x \in Blocks : x \in 1..m /\ x - 1 \in 1..m
  <2>1. \A x \in Blocks : x \in 2..m BY <1>5, <1>8, <1>12, BlocksUnder
  <2> QED BY <1>8, <2>1
<1>14. Blocks' = Blocks
  <2>1. \A x \in Blocks : stack'[x - 1].hsp = stack[x - 1].hsp BY <1>8, <1>13
  <2>2. HandlerRegisters' \cup {0} = HandlerRegisters \cup {0}
    <3>1. Outer' = Outer BY <1>2 DEF Outer, Native
    <3> QED BY <1>2, <3>1 DEF HandlerRegisters, Saves
  <2> QED BY <1>3, <1>4, <1>6, <2>1, <2>2, BlocksSame
<1>15. PICK n : n = Len(nest) OBVIOUS
<1>16. n \in Nat /\ \A j \in 1..n : nest[j].saved # None
  <2>1. n \in Nat /\ DOMAIN nest = 1..n BY <1>6, <1>15 DEF DataFacts
  <2>2. Outer = n BY <1>1, <1>15 DEF Outer
  <2> QED BY <1>3, <2>1, <2>2 DEF NestOK
<1>17. Floor(l)' = m
  <2>1. PICK e : e = base'[l] OBVIOUS
  <2>2. Floor(l)' = e.h - 2 - Arity[e.code] BY <2>1 DEF Floor
  <2>3. PICK y, u, v : y = e.h /\ u = e.code /\ v = Arity[u] OBVIOUS
  <2>4. y = m + (v + 2) /\ v \in Nat BY <1>8, <2>1, <2>3
  <2>5. y - 2 - v = m BY ONLY <1>8, <2>4
  <2> QED BY <2>2, <2>3, <2>5
<1>18. Stays(l, n)
  <2>1. Floor(l)' = Floor(l) /\ base'[l].native = base[l].native
    <3>1. base[l].native \in BOOLEAN /\ base'[l].native \in BOOLEAN
      <4>1. DataFacts' BY <1>11 DEF Clear
      <4>2. l \in 1..Len(base') BY <1>8
      <4> QED BY <1>6, <1>8, <4>1, <4>2 DEF DataFacts
    <3> QED BY <1>8, <1>17, <3>1
  <2>2. \A i \in 2..l : stack'[base'[i].h - 1].pc.p = stack[base[i].h - 1].pc.p
    <3> SUFFICES ASSUME NEW i \in 2..l PROVE stack'[base'[i].h - 1].pc.p = stack[base[i].h - 1].pc.p
      OBVIOUS
    <3>1. CASE i = l BY <1>8, <3>1
    <3>2. CASE i # l
      <4>1. i \in 1..Len(base) /\ i \in 1..(l - 1) /\ i < l BY <1>8, <3>2
      <4>2. PICK h, f, v : h = base[i].h /\ f = Floor(i) /\ v = Arity[base[i].code] OBVIOUS
      <4>3. h <= m /\ h \in Nat /\ f \in Nat /\ v \in Nat /\ h = f + 2 + v
        BY <1>6, <1>8, <4>1, <4>2 DEF BaseFacts
      <4>4. h - 1 \in 1..m BY ONLY <1>8, <4>3
      <4>5. base'[i].h = h BY <1>8, <4>1, <4>2
      <4> QED BY <1>8, <4>2, <4>4, <4>5
    <3> QED BY <3>1, <3>2
  <2>3. \A x \in Blocks : x \in Blocks' /\ stack'[x].pc.p = stack[x].pc.p BY <1>8, <1>13, <1>14
  <2>4. \A x \in Blocks' : x \in Blocks BY <1>14
  <2>5. n \in Nat /\ n <= Len(nest) /\ n <= Len(nest') BY <1>2, <1>15, <1>16
  <2>6. \A j \in 1..Len(nest) : n < j => base[l].h < nest[j].top + 2 BY <1>15, <1>16
  <2>7. \A j \in 1..n : nest'[j].top = nest[j].top /\ HookPc(j)' = HookPc(j)
    BY <1>2, <1>16 DEF HookPc
  <2>8. l <= Len(base') BY <1>8
  <2>9. base[l].native => base'[l].h = base[l].h BY <1>8
  <2> QED BY <1>8, <2>1, <2>2, <2>3, <2>4, <2>5, <2>6, <2>7, <2>8, <2>9, Zenon DEF Stays
<1>19. PICK a, z : Chains(a, z, l) BY <1>5, <1>11, <1>18, ChainsKnown
<1>20. Act(l)' = A!Fresh(c)
  <2>1. ActFacts' /\ l \in 1..Len(base') BY <1>8, <1>11 DEF Clear
  <2>2. PICK u, h : u = Arity[c] /\ h = base'[l].h OBVIOUS
  <2>3. u \in Nat /\ h = m + (u + 2) BY <1>8, <2>2
  <2>4. Own(l)' = {}
    <3>1. \A x \in Blocks : ~ (h < x)
      <4> SUFFICES ASSUME NEW x \in Blocks, h < x PROVE FALSE OBVIOUS
      <4>1. x \in 1..m BY <1>13
      <4> QED BY ONLY <1>8, <2>3, <4>1, h < x
    <3> QED BY <1>14, <2>2, <3>1 DEF Own, BlocksIn
  <2>5. Hs(l)' = <<>> BY <2>1, <2>4 DEF ActFacts
  <2>6. Temps(l)' = 0
    <3>1. Temps(l)' = Ceiling(l)' - base'[l].h - 2 * Cardinality(Own(l)') BY <2>1 DEF ActFacts
    <3>2. Cardinality(Own(l)') = 0 BY <2>4, FS_EmptySet
    <3>3. Ceiling(l)' = h
      <4>1. Ceiling(l)' = Height' BY <1>8 DEF Ceiling
      <4> QED BY <1>8, <2>2, <4>1 DEF Height
    <3>4. PICK y, e, w : y = Temps(l)' /\ e = Ceiling(l)' /\ w = Cardinality(Own(l)') OBVIOUS
    <3>5. y = e - h - 2 * w BY <2>2, <3>1, <3>4
    <3>6. e = h /\ w = 0 BY <3>2, <3>3, <3>4
    <3>7. y = 0 BY ONLY <1>8, <2>3, <3>5, <3>6
    <3> QED BY <3>4, <3>7
  <2>7. Pos(l)' = 0
    <3>1. PcAt(l)' = pc' BY <1>8 DEF PcAt
    <3> QED BY <1>8, <3>1 DEF Pos
  <2>8. Act(l)' = [code |-> base'[l].code, pos |-> Pos(l)', temps |-> Temps(l)', hs |-> Hs(l)']
    BY DEF Act
  <2> QED BY <1>8, <2>5, <2>6, <2>7, <2>8 DEF A!Fresh
<1>21. A!TailCalls(a, z)
  <2>1. /\ a \in Seq(Acts) /\ z \in Seq(Acts) /\ Len(a) = l /\ Len(z) = l
        /\ a[l] = Act(l) /\ z[l] = Act(l)' /\ \A i \in 1..(l - 1) : z[i] = a[i]
    <3>1. l \in 1..l BY <1>8
    <3> QED BY <1>8, <1>19, <3>1 DEF Chains
  <2>2. Agree(Acts, a, z, l) BY SMTT(40), <1>8, <2>1 DEF Agree
  <2>3. a[l].hs = <<>>
    <3>1. Hs(l) = <<>> BY <1>12, NoHandlers
    <3> QED BY <2>1, <3>1 DEF Act
  <2>4. z[l] = A!Fresh(c) /\ c \in Codes BY <1>8, <1>20, <2>1
  <2>5. Len(z) = l BY <2>1
  <2> QED BY ONLY <2>2, <2>3, <2>4, <2>5, IsTailCall
<1>22. A!TailCalls(Activated, Activated') BY <1>19, <1>21 DEF Chains
<1> QED BY <1>1, <1>2, <1>10, <1>22, IsRun

-----------------------------------------------------------------------------
(* Every step *)

\* What a reader of the machine's state sees stays with it.
LEMMA BlocksUnmoved ==
  ASSUME UNCHANGED vars
  PROVE  Chain' = Chain /\ Blocks' = Blocks
<1>1. stack' = stack /\ nest' = nest /\ handlerSp' = handlerSp BY DEF vars
<1>2. Chain' = Chain BY <1>1, Zenon DEF Chain, Saved
<1>3. Blocks' = Blocks
  <2>1. PICK f, n, x : f = Chain /\ n = nest /\ x = handlerSp BY Zenon
  <2>2. Chain' = f /\ nest' = n /\ handlerSp' = x BY <1>1, <1>2, <2>1
  <2>3. Blocks = f[x] \cup UNION {f[n[j].saved.handlerSp] : j \in {i \in DOMAIN n : n[i].saved # None}}
    BY <2>1, Zenon DEF Blocks
  <2>4. Blocks' = f[x] \cup UNION {f[n[j].saved.handlerSp] : j \in {i \in DOMAIN n : n[i].saved # None}}
    BY ZenonT(60), <2>2 DEF Blocks
  <2> QED BY <2>3, <2>4
<1> QED BY <1>2, <1>3

LEMMA ActivationUnmoved ==
  ASSUME UNCHANGED vars, NEW blocks, NEW i
  PROVE  ActivationAt(blocks, i)' = ActivationAt(blocks, i)
<1>1. stack' = stack /\ nest' = nest /\ base' = base /\ pc' = pc /\ seg' = seg /\ frames' = frames
      /\ gc' = gc
  BY DEF vars
<1>2. \A j : Ceiling(j)' = Ceiling(j) BY <1>1, Zenon DEF Ceiling, Height
<1>3. \A j : BlocksIn(blocks, j)' = BlocksIn(blocks, j) BY <1>1, <1>2, Zenon DEF BlocksIn
<1>4. \A j : Rank(j)' = Rank(j) BY <1>1, Zenon DEF Rank
<1>5. Interpreted' = Interpreted BY <1>1, <1>4, Zenon DEF Interpreted
<1>6. \A j : SegAt(j)' = SegAt(j) BY <1>1, <1>4, <1>5, Zenon DEF SegAt
<1>7. \A j : HookOf(j)' = HookOf(j) BY <1>1, Zenon DEF HookOf
<1>8. \A j : PcAt(j)' = PcAt(j) BY <1>1, <1>7, Zenon DEF PcAt
<1>9. PICK o, e, s, p, b, f, g : /\ o = BlocksIn(blocks, i) /\ e = Ceiling(i) /\ s = SegAt(i)
                                  /\ p = PcAt(i) /\ b = base /\ f = stack /\ g = gc
  BY Zenon
<1>10. /\ BlocksIn(blocks, i)' = o /\ Ceiling(i)' = e /\ SegAt(i)' = s /\ PcAt(i)' = p /\ base' = b
       /\ stack' = f /\ gc' = g
  BY <1>1, <1>2, <1>3, <1>6, <1>8, <1>9, Zenon
<1> DEFINE Now(a) == a.c \in Image \/ a.at = g
           Place(a) == IF Now(a) THEN a.p ELSE Stale
           Temps0(h) == h - b[i].h - 2 * Cardinality({x \in o : x <= h})
           It == IF b[i].native
                 THEN [code |-> b[i].code, pos |-> 0, temps |-> Temps0(e), hs |-> <<>>]
                 ELSE [code |-> IF Now(s) /\ s.c = p.c THEN s.c ELSE Stale,
                       pos |-> Place(p), temps |-> Temps0(e),
                       hs |-> [n \in 1 .. Cardinality(o) |->
                                 [pos |-> Place(f[Nth(o, n)].pc), temps |-> Temps0(Nth(o, n))]]]
<1>11. ActivationAt(blocks, i) = It BY <1>9, Zenon DEF ActivationAt, Current
<1>12. ActivationAt(blocks, i)' = It BY <1>10, Zenon DEF ActivationAt, Current
<1> QED BY <1>11, <1>12

LEMMA ActivatedUnmoved ==
  ASSUME UNCHANGED vars
  PROVE  UNCHANGED A!vars
<1>1. base' = base /\ status' = status /\ flight' = flight /\ exn' = exn BY DEF vars
<1>2. Blocks' = Blocks BY BlocksUnmoved
<1>3. \A b, i : ActivationAt(b, i)' = ActivationAt(b, i) BY ActivationUnmoved
<1>4. Doomed' = Doomed BY <1>1 DEF Doomed
<1>5. Activated' = Activated BY <1>1, <1>2, <1>3, <1>4, Zenon DEF Activated
<1> QED BY <1>1, <1>5 DEF A!vars

LEMMA CallUnmoved ==
  ASSUME CallInv, UNCHANGED vars
  PROVE  CallInv'
<1>1. /\ base' = base /\ nest' = nest /\ stack' = stack /\ status' = status /\ flight' = flight
      /\ halt' = halt
  BY DEF vars
<1>2. SUFFICES ASSUME Live' PROVE (EntriesOK /\ FlightOK /\ HaltOK)' BY DEF CallInv
<1>3. EntriesOK /\ FlightOK /\ HaltOK BY <1>1, <1>2 DEF CallInv, Live
<1>4. FlightOK' /\ HaltOK' BY <1>1, <1>3 DEF FlightOK, HaltOK
<1>5. Outer' = Outer BY <1>1 DEF Outer, Native
<1>6. \A j : Caller(j)' = Caller(j) BY <1>1 DEF Caller
<1>7. ASSUME NEW i \in 2..Len(base) PROVE EntryOK(i)'
  <2>1. EntryOK(i) BY <1>3 DEF EntriesOK
  <2> QED BY <1>1, <1>5, <1>6, <2>1 DEF EntryOK
<1>8. EntriesOK' BY <1>1, <1>7 DEF EntriesOK
<1> QED BY <1>4, <1>8

LEMMA CallInit == Init => CallInv
<1> SUFFICES ASSUME Init PROVE CallInv OBVIOUS
<1>1. PICK c \in Codes : base = <<Activation(c, 2 + Arity[c], FALSE)>> BY DEF Init
<1>2. status = "running" /\ ~halt BY DEF Init
<1>3. Len(base) = 1 BY <1>1
<1>4. EntriesOK BY <1>3 DEF EntriesOK
<1> QED BY <1>2, <1>4 DEF CallInv, FlightOK, HaltOK

\* The machine starts with one activation, which holds nothing.
LEMMA SeenInit == Init => A!Init
<1> SUFFICES ASSUME Init PROVE A!Init OBVIOUS
<1>1. Sound
  <2>1. MachineInv /\ FreshInv /\ CallInv BY MachineInit, FreshInit, CallInit
  <2>2. Live BY DEF Live, Init
  <2> QED BY <2>1, <2>2 DEF Sound
<1>2. PICK c \in Codes :
        /\ pc = [c |-> c, p |-> 0, at |-> 0] /\ seg = [c |-> c, at |-> 0]
        /\ base = <<Activation(c, 2 + Arity[c], FALSE)>>
        /\ stack = [i \in 1 .. Arity[c] |-> Data] \o <<Zero, Data>>
  BY DEF Init
<1>3. status = "running" /\ nest = <<>> /\ handlerSp = 0 /\ exn = None BY DEF Init
<1>4. ~Doomed BY <1>3 DEF Doomed
<1>5. Clear BY <1>1, <1>4, ClearKnown
<1>6. PICK a : a = Arity[c] OBVIOUS
<1>7. a \in Nat BY <1>6, MachineConstants
<1>8. Len(base) = 1 /\ base[1].code = c /\ base[1].h = 2 + a /\ base[1].native = FALSE
  <2>1. PICK e : e = Activation(c, 2 + Arity[c], FALSE) OBVIOUS
  <2>2. e.code = c /\ e.h = 2 + a /\ e.native = FALSE BY <1>6, <2>1 DEF Activation
  <2>3. base = <<e>> BY <1>2, <2>1
  <2> QED BY <2>2, <2>3
<1>9. Ceiling(1) = Height BY <1>8 DEF Ceiling
<1>10. Height = a + 2
  <2>1. PICK s : s = [i \in 1..a |-> Data] OBVIOUS
  <2>2. s \in Seq(Word) /\ Len(s) = a BY <1>7, <2>1, WordsKnown
  <2>3. PICK S, u, v : S = Word /\ u = Zero /\ v = Data OBVIOUS
  <2>4. s \in Seq(S) /\ u \in S /\ v \in S BY <2>2, <2>3, WordsKnown
  <2>5. Len(s \o <<u, v>>) = Len(s) + 2 BY ONLY <2>4, Pushed
  <2>6. stack = s \o <<u, v>> BY <1>2, <1>6, <2>1, <2>3
  <2> QED BY <2>2, <2>5, <2>6 DEF Height
<1>11. Own(1) = {}
  <2>1. Chain[handlerSp] = {} BY <1>3, ChainStep
  <2>2. {i \in DOMAIN nest : nest[i].saved # None} = {} BY <1>3
  <2>3. Blocks = {} BY <2>1, <2>2 DEF Blocks
  <2> QED BY <2>3 DEF Own, BlocksIn
<1>12. Hs(1) = <<>> BY <1>11, NoHandlers
<1>13. Temps(1) = 0
  <2>1. 1 \in 1..Len(base) BY <1>8
  <2>2. Temps(1) = Ceiling(1) - base[1].h - 2 * Cardinality(Own(1)) BY <1>5, <2>1 DEF Clear, ActFacts
  <2>3. Cardinality(Own(1)) = 0 BY <1>11, FS_EmptySet
  <2>4. Temps(1) = (a + 2) - (2 + a) - 2 * 0 BY <1>8, <1>9, <1>10, <2>2, <2>3
  <2>5. (a + 2) - (2 + a) - 2 * 0 = 0 BY ONLY <1>7
  <2> QED BY <2>4, <2>5
<1>14. Pos(1) = 0
  <2>1. PcAt(1) = pc BY <1>8 DEF PcAt
  <2>2. pc.p = 0 BY <1>2
  <2>3. ~base[1].native BY <1>8
  <2> QED BY ONLY <2>1, <2>2, <2>3 DEF Pos
<1>15. Act(1) = A!Fresh(c) BY <1>8, <1>12, <1>13, <1>14 DEF Act, A!Fresh
<1>16. Activated = <<A!Fresh(c)>>
  <2>1. Activated = [i \in 1..Len(base) |-> Act(i)] BY <1>1, <1>4, Seen
  <2>2. PICK s, x : s = Activated /\ x = Act(1) OBVIOUS
  <2>3. s = [i \in 1..1 |-> Act(i)] BY <1>8, <2>1, <2>2
  <2>4. s = [i \in 1..1 |-> x] BY <2>2, <2>3
  <2>5. s = <<x>> BY ONLY <2>4
  <2> QED BY <1>15, <2>2, <2>5
<1> QED BY <1>3, <1>16 DEF A!Init

LEMMA CallStep ==
  ASSUME Nested = {}, MachineInv, FreshInv, CallInv, [Next]_vars
  PROVE  CallInv' /\ [A!Next]_(A!vars)
<1>1. CASE UNCHANGED vars BY <1>1, CallUnmoved, ActivatedUnmoved
<1>2. CASE Next
  <2>1. Live BY <1>2, OnlyLive
  <2>2. Sound BY <2>1 DEF Sound
  <2>3. MachineInv' BY MachineStep
  <2>4. FreshInv' BY FreshStep
  <2>5. Nested = {} OBVIOUS
  <2>6. SUFFICES CallInv' /\ A!Next OBVIOUS
  <2>7. CASE \/ DataStep \/ Jump \/ PushReturnAddress \/ PushHandler \/ NativeStep
    BY <2>2, <2>3, <2>4, <2>5, <2>7, QuietStep
  <2>8. CASE TopOfStepCollect \/ RegionSafepoint BY <2>2, <2>3, <2>4, <2>5, <2>8, CollectStep
  <2>9. CASE SetHandler BY <2>2, <2>3, <2>4, <2>9, SetHandlerStep
  <2>10. CASE DeleteHandler BY <2>2, <2>3, <2>4, <2>10, DeleteHandlerStep
  <2>11. CASE \/ RaiseEx \/ RaiseOverflow \/ DivByZero \/ StackOverflows \/ HeapExhausted
              \/ HookRaises
    BY <2>2, <2>3, <2>4, <2>5, <2>11, ExceptionStep
  <2>12. CASE Call BY <2>2, <2>3, <2>4, <2>12, CallStepped
  <2>13. CASE DoTailCall BY <2>2, <2>3, <2>4, <2>13, TailCallStep
  <2>14. CASE DoReturn BY <2>2, <2>3, <2>4, <2>14, InterpretedReturn
  <2>15. CASE RtsCall
    <3>1. Stepping BY <2>15 DEF RtsCall
    <3>2. PICK n \in 1..2 : /\ DataOnTop(n)
                            /\ \/ (RtsReturns(n) \/ RtsFinishes(n)) /\ UNCHANGED pc
                               \/ RtsCollects(n)
                               \/ RtsRaises
                               \/ RtsCallsBack(n)
      BY <2>15 DEF RtsCall
    <3>3. CASE (RtsReturns(n) \/ RtsFinishes(n)) /\ UNCHANGED pc
      <4>1. \E i \in 1..2 : /\ Stepping /\ DataOnTop(i) /\ (RtsReturns(i) \/ RtsFinishes(i))
                            /\ UNCHANGED pc
        BY <3>1, <3>2, <3>3
      <4> QED BY <2>2, <2>3, <2>4, <2>5, <4>1, QuietStep
    <3>4. CASE RtsCollects(n)
      <4>1. \E i \in 1..2 : Stepping /\ DataOnTop(i) /\ RtsCollects(i) BY <3>1, <3>2, <3>4
      <4> QED BY <2>2, <2>3, <2>4, <2>5, <4>1, CollectStep
    <3>5. CASE RtsRaises BY <2>2, <2>3, <2>4, <2>5, <3>1, <3>5, ExceptionStep
    <3>6. CASE RtsCallsBack(n)
      <4>1. \E i \in 1..2 : Stepping /\ DataOnTop(i) /\ RtsCallsBack(i) BY <3>1, <3>2, <3>6
      <4> QED BY <2>2, <2>3, <2>4, <4>1, CallStepped
    <3> QED BY <3>2, <3>3, <3>4, <3>5, <3>6
  <2>16. CASE Halt BY <2>2, <2>16, HaltStep
  <2>17. CASE NativeCall \/ NativeCallsBack BY <2>2, <2>3, <2>4, <2>17, NativeCallStep
  <2>18. CASE NativeReturn BY <2>2, <2>3, <2>4, <2>18, NativeReturnStep
  <2>19. CASE NativePropagate BY <2>2, <2>3, <2>4, <2>19, NativePropagateStep
  <2>20. CASE NativeRaise \/ NativeCallOverflows BY <2>2, <2>3, <2>4, <2>20, NativeRaiseStep
  <2> QED BY <1>2, <2>7, <2>8, <2>9, <2>10, <2>11, <2>12, <2>13, <2>14, <2>15, <2>16, <2>17, <2>18,
             <2>19, <2>20
          DEF Next
<1> QED BY <1>1, <1>2

\* When a nested run neither collects nor finishes nor runs out of heap, what
\* the interpreter, the regions and the collector do between them is plain
\* activations calling, tail-calling, returning and handling exceptions: a call
\* resumes where it was made, a raise reaches the dynamically innermost handler
\* through native frames or not, and a collection moves nothing that is seen
\* (do_call, do_return, do_tail_call, do_raise_ex, region_interp_call,
\* ThreadRoots).
THEOREM MachineImplementsActivations == Nested = {} => (Spec => ImplementsActivations)
<1> SUFFICES ASSUME Nested = {} PROVE Spec => ImplementsActivations OBVIOUS
<1>1. Init => FreshInv BY FreshInit
<1>2. MachineInv /\ FreshInv /\ [Next]_vars => FreshInv' BY FreshStep
<1>3. Init => CallInv BY CallInit
<1>4. MachineInv /\ FreshInv /\ CallInv /\ [Next]_vars => CallInv' BY CallStep
<1>5. MachineInv /\ FreshInv /\ CallInv /\ [Next]_vars => [A!Next]_(A!vars) BY CallStep
<1>6. Init => A!Init BY SeenInit
<1> QED BY <1>1, <1>2, <1>3, <1>4, <1>5, <1>6, Invariance, PTL
        DEF Spec, ImplementsActivations, A!Spec
=============================================================================
