------------------------------- MODULE Native -------------------------------
(***************************************************************************)
(* One program, executed instruction by instruction by the interpreter, by *)
(* the code of the per-function translator and by the code of the region   *)
(* translator, with the translator's depth scan and argument count running *)
(* beside them.  The programs are the sequences of up to MaxSteps members  *)
(* of Instrs that the compiler could have made, on the stacks of Stacks.   *)
(***************************************************************************)
EXTENDS Effects, Words

CONSTANTS StackLen, ContainerBase,
          Instrs,        \* the instructions
          Stacks,        \* the arguments on entry, the top first
          Objects,       \* the heap on entry
          MaxSteps       \* bound on the length of a program

VARIABLES stack, heap, edge, outcome,               \* the interpreter
          vals, slots, theap, tedge, toutcome,      \* the translated function
          mem, sp, rheap, redge, routcome,          \* the region
          depth, counted,                           \* the scans
          args, steps                               \* the arguments, and the length so far

ivars == <<stack, heap, edge, outcome>>
tvars == <<vals, slots, theap, tedge, toutcome>>
rvars == <<mem, sp, rheap, redge, routcome>>
vars == <<ivars, tvars, rvars, depth, counted, args, steps>>

I == INSTANCE Instructions
T == INSTANCE Translate WITH heap <- theap, edge <- tedge, outcome <- toutcome
R == INSTANCE MemTrans WITH heap <- rheap, edge <- redge, outcome <- routcome

Init ==
    /\ args \in Stacks /\ steps = 0
    /\ stack = args /\ vals = Reverse(args) /\ slots = <<>>
    /\ sp = StackLen - Len(args)
    /\ mem = [a \in 0 .. StackLen - 1 |-> IF a < sp THEN tagged(0) ELSE args[a - sp + 1]]
    /\ heap = Objects /\ theap = Objects /\ rheap = Objects
    /\ edge = 0 /\ tedge = 0 /\ redge = 0
    /\ outcome = "running" /\ toutcome = "running" /\ routcome = "running"
    /\ depth = Len(args) /\ counted = [depth |-> 0, min_depth |-> 0]

----------------------------------------------------------------------------
(* What the compiler promises: a container's reference stays above its     *)
(* words, which hold no reference, are only reached through it and are     *)
(* dropped together with it.                                               *)
TopSlot(c) == -c - ContainerBase                      \* the height of its slot 0
Live == {c \in DOMAIN slots : TopSlot(c) < Len(vals) /\ vals[TopSlot(c) + 1] = c}
SlotHeights(c) == TopSlot(c) - Len(slots[c]) + 1 .. TopSlot(c)
InContainer(h) == \E c \in Live : h \in SlotHeights(c)
KeepsWhole(h) == \A c \in Live : h > TopSlot(c) \/ h < Min(SlotHeights(c))

Disciplined(i) ==
    Live # {} =>
        \/ i.op = "CONST_INT"
        \/ i.op = "LOCAL" /\ ~InContainer(Len(vals) - i.n)
        \/ /\ i.op = "MOVE_TO_CONTAINER" /\ stack[1] \notin Live
           /\ stack[2] \in Live /\ i.n < Len(slots[stack[2]])
        \/ /\ i.op = "INDIRECT_CONTAINER" /\ stack[1] \in Live /\ i.n < Len(slots[stack[1]])
           /\ Len(stack) > TopSlot(stack[1]) + 1          \* a copy of the reference
        \/ i.op = "RESET" /\ KeepsWhole(Len(vals) - i.n)
        \/ i.op = "RESET_R" /\ KeepsWhole(Len(vals) - i.n - 1) /\ stack[1] \notin Live

(* A cell made by ALLOC_REF differs in its mutable bit between the two;    *)
(* the programs here do not ask for the flags of such a cell.              *)
ReadsRefFlags(i) ==
    /\ i.op = "CELL_FLAGS" /\ toutcome = "running" /\ stack # <<>> /\ I!IsObject(stack[1])
    /\ heap[-stack[1]].flags # theap[-stack[1]].flags

Scans(i) ==
    /\ depth' = depth + Delta(i)
    /\ counted' = InferStep(i, counted.depth, counted.min_depth)

Execute(i) ==
    /\ steps < MaxSteps + (IF Live = {} THEN 0 ELSE 2)
    /\ Disciplined(i) /\ ~ReadsRefFlags(i)
    /\ I!Step(i)
    /\ IF toutcome # "running" THEN UNCHANGED tvars ELSE T!Step(i)
    /\ IF routcome # "running" THEN UNCHANGED rvars ELSE R!emit_one(i)
    /\ Scans(i)
    /\ steps' = steps + 1 /\ UNCHANGED args

Next == \E i \in Instrs : Execute(i)

Spec == Init /\ [][Next]_vars

----------------------------------------------------------------------------
Completed == outcome \in {"running", "returned"}

(* The region's code is the interpreter: whatever instruction it did not   *)
(* refuse, memory from the stack pointer up is the interpreter's stack,    *)
(* the heaps are one, and every jump and every exception is the same one   *)
(* (memtrans.rs, emit_one).                                                *)
RegionAgrees ==
    routcome # "refused" =>
        /\ redge = edge /\ rheap = heap /\ routcome = outcome
        /\ Completed => [k \in 1 .. StackLen - sp |-> mem[sp + k - 1]] = stack

(* A translated function that was not refused computes what the            *)
(* interpreter computes, value for value, as long as the interpreter       *)
(* raises no exception (fixed-precision overflow, division by zero and     *)
(* RAISE_EX are the translator's documented gaps); its refs lack the       *)
(* mutable bit (translate.rs, the emission of each instruction).           *)
SameObject(o, t) ==
    o.words = t.words /\ (t.flags = o.flags \/ (o.flags = F_MUTABLE_BIT /\ t.flags = 0))

WordAt(h) ==
    IF \E c \in Live : h \in SlotHeights(c)
    THEN LET c == CHOOSE c \in Live : h \in SlotHeights(c) IN slots[c][TopSlot(c) - h + 1]
    ELSE vals[h]

TranslatedAgrees ==
    Completed /\ toutcome # "refused" =>
        /\ toutcome = outcome /\ tedge = edge
        /\ Len(vals) = Len(stack) /\ \A h \in DOMAIN vals : WordAt(h) = stack[Len(stack) + 1 - h]
        /\ Len(theap) = Len(heap) /\ \A k \in DOMAIN heap : SameObject(heap[k], theap[k])

(* The depth the scan gives an instruction is the height of the stack when *)
(* the interpreter reaches it, and the argument count inferred from a body *)
(* covers every word of the caller that the body reads or replaces         *)
(* (translate.rs, scan_one_opcode and infer_arg_count).                    *)
ScansFollowTheStack ==
    outcome = "running" =>
        /\ depth = Len(stack) /\ Len(args) + counted.depth = Len(stack)
        /\ -counted.min_depth <= Len(args)
=============================================================================
