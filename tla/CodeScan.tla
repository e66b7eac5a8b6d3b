------------------------------ MODULE CodeScan ------------------------------
(***************************************************************************)
(* The analyses that decide which bytecode becomes native code.  A         *)
(* compiler lays out code as bytes and knows the height of the stack at    *)
(* each of its instructions; the per-function translator counts the        *)
(* arguments the code reaches for, follows its control flow to find the    *)
(* height at each branch target, and emits native code in one linear pass; *)
(* the installer then looks for instructions it will not run natively; and *)
(* the region translator walks the same bytes with the disassembler's      *)
(* lengths.  The model asks whether the heights and boundaries that these  *)
(* walks come up with are those of the interpreter.                        *)
(***************************************************************************)
EXTENDS Integers, Sequences, SequencesExt, FiniteSetsExt

CONSTANTS Emitted,    \* the opcodes that the compiler uses
          Numbers,    \* immediate operands other than jump distances
          Arities,    \* arguments of the compiled function
          Budget,     \* steps of infer_arg_count
          MaxBytes    \* bound: bytes of code

ASSUME ScanConstants == Arities \subseteq 1 .. 2 /\ Numbers \subseteq Nat /\ MaxBytes \in Nat /\ Budget \in Nat

----------------------------------------------------------------------------
(* The opcodes used, and those that the immediates 2 to 9 read as.         *)
JUMP8 == 2                JUMP8_FALSE == 3         JUMP_BACK8 == 30
CASE16 == 10              JUMP_TAGGED_LOCAL == 196
CONST_0 == 59             LOCAL_0 == 41            LOCAL_B == 34
RESET_1 == 80             RESET_R_1 == 100         STACK_CONTAINER_B == 14
CALL_CLOSURE == 12        CALL_LOCAL_B == 22       CALL_CONST_ADDR8_0 == 87
CALL_FAST_RTS0 == 131     PUSH_HANDLER == 120      TAIL_B_B == 123
RETURN_1 == 66            RETURN_2 == 67           RAISE_EX == 16
Named == {JUMP8, JUMP8_FALSE, JUMP_BACK8, CASE16, JUMP_TAGGED_LOCAL, CONST_0, LOCAL_0,
          LOCAL_B, RESET_1, RESET_R_1, STACK_CONTAINER_B, CALL_CLOSURE, CALL_LOCAL_B,
          CALL_CONST_ADDR8_0, CALL_FAST_RTS0, PUSH_HANDLER, TAIL_B_B, RETURN_1, RETURN_2,
          RAISE_EX} \cup 4 .. 9

Jumps == {JUMP8, JUMP8_FALSE, JUMP_BACK8}
Returns == {RETURN_1, RETURN_2}
ReturnArity(op) == op - 65
Immediate == Jumps \cup {LOCAL_B, STACK_CONTAINER_B, CALL_LOCAL_B, CALL_CONST_ADDR8_0}

At(c, pc) == c[pc + 1]
Word16(c, pc) == At(c, pc) + 256 * At(c, pc + 1)
CaseLength(c, pc) == IF pc + 2 < Len(c) THEN 3 + 2 * Word16(c, pc + 1) ELSE 1

(* What the interpreter fetches (step_one), what the translator skips      *)
(* (opcode_total_len), and what the disassembler says (imm_bytes).         *)
Length(c, pc) ==
    LET op == At(c, pc) IN
    IF op = CASE16 THEN CaseLength(c, pc)
    ELSE IF op \in {TAIL_B_B, JUMP_TAGGED_LOCAL} THEN 3
    ELSE IF op \in Immediate THEN 2 ELSE 1

opcode_total_len(c, pc) == Length(c, pc)

imm_bytes(c, pc) ==
    Length(c, pc) - 1 + (IF At(c, pc) \in {PUSH_HANDLER, CALL_FAST_RTS0} THEN 1 ELSE 0)

(* The pcs that a linear walk over code of n bytes visits, n if it ends    *)
(* there, and Lost if it steps over the end.                               *)
Lost == -1
Walk(n, step) ==
    LET from[pc \in 0 .. n] ==
          IF pc = n THEN {n}
          ELSE {pc} \cup (IF pc + step[pc] > n THEN {Lost} ELSE from[pc + step[pc]])
    IN from[0]

VARIABLES code,       \* the bytes
          arity,      \* of the function
          heights,    \* the compiler's height at each pc it can run, or will jump to
          phase,      \* "compile", "infer", "scan", "emit" or "done"
          cur,        \* the walk's pc and depth
          work,       \* the worklist of the walk, the last first
          entered,    \* entry_depth; depth_at
          min_depth, arg_count,
          budget,     \* what infer_arg_count has left of its steps
          targets,    \* block-target pcs and their depths
          returned,   \* no value flows into the next instruction
          emitted,    \* the depth at which each instruction was translated
          verdict     \* "translated", or the error

vars == <<code, arity, heights, phase, cur, work, entered, min_depth, arg_count, budget,
          targets, returned, emitted, verdict>>
compiled == <<code, arity, heights>>

Size == Len(code)
Edge(pc, d) == [pc |-> pc, depth |-> d]
Nothing == [p \in {} |-> 0]
With(f, p, d) == [q \in DOMAIN f \cup {p} |-> IF q = p THEN d ELSE f[q]]

E == INSTANCE Effects

----------------------------------------------------------------------------
(* The compiler.  Its heights are the interpreter's: a frame of a callee   *)
(* or the compiled function is its arguments, return address and closure,  *)
(* temporaries come on top, and each instruction is only ever reached with *)
(* one height.  A callee takes as many arguments as it wants.              *)
Frame == arity + 2

Operands(op) ==
    IF op \in Jumps THEN {<<d>> : d \in 0 .. MaxBytes - 3}
    ELSE IF op = JUMP_TAGGED_LOCAL THEN {<<0, d>> : d \in 0 .. MaxBytes - 5}
    ELSE IF op = CASE16 THEN {<<1, 0, d, 0>> : d \in 2 .. MaxBytes - 6}
    ELSE IF op = TAIL_B_B THEN {<<2, arity + 2>>}
    ELSE IF op \in Immediate THEN {<<n>> : n \in Numbers}
    ELSE {<<>>}

\* The interpreter's successors of the instruction at pc, run at height h.
Successors(c, pc, h, callee) ==
    LET op == At(c, pc)
        after == pc + Length(c, pc)
        To(S, d) == {Edge(p, d) : p \in S}
    IN CASE op = JUMP8 -> To({after + At(c, pc + 1)}, h)
         [] op = JUMP_BACK8 -> To({after - (At(c, pc + 1) + 2)}, h)
         [] op = JUMP8_FALSE -> To({after, after + At(c, pc + 1)}, h - 1)
         [] op = JUMP_TAGGED_LOCAL -> To({after, after + At(c, pc + 2)}, h)
         [] op = CASE16 -> To({pc + 3 + 2 * Word16(c, pc + 1), pc + 3 + Word16(c, pc + 3)}, h - 1)
         [] op \in Returns \cup {RAISE_EX, TAIL_B_B} -> {}
         [] op \in {CONST_0, LOCAL_0, LOCAL_B, PUSH_HANDLER} -> To({after}, h + 1)
         [] op = STACK_CONTAINER_B -> To({after}, h + At(c, pc + 1) + 1)
         [] op \in {RESET_1, RESET_R_1} -> To({after}, h - 1)
         [] op = CALL_CLOSURE -> To({after}, h - callee)
         [] op \in {CALL_LOCAL_B, CALL_CONST_ADDR8_0} -> To({after}, h - callee + 1)
         [] OTHER -> To({after}, h)

\* What an instruction needs on the stack: temporaries it takes, words it reads.
MayRun(c, pc, h, callee) ==
    LET op == At(c, pc)
        temps == h - Frame
    IN CASE op \in Returns -> temps = 1 /\ ReturnArity(op) = arity
         [] op \in {RESET_1, JUMP8_FALSE, CASE16, RAISE_EX, CALL_FAST_RTS0} -> temps >= 1
         [] op \in {RESET_R_1, TAIL_B_B} -> temps >= 2
         [] op = CALL_CLOSURE -> temps >= callee + 1
         [] op = CALL_CONST_ADDR8_0 -> callee = 1 /\ temps >= 1
         [] op = CALL_LOCAL_B -> temps >= callee /\ At(c, pc + 1) \in callee .. h - 1
         [] op = LOCAL_B -> At(c, pc + 1) < h
         [] OTHER -> TRUE

Callees(op) == IF op \in {CALL_CLOSURE, CALL_LOCAL_B, CALL_CONST_ADDR8_0} THEN 0 .. 1 ELSE {0}

Agrees(next) == \A s \in next : s.pc \in DOMAIN heights => heights[s.pc] = s.depth
Planned(next) == [p \in DOMAIN heights \cup {s.pc : s \in next} |->
                    IF p \in DOMAIN heights THEN heights[p]
                    ELSE (CHOOSE s \in next : s.pc = p).depth]
Pending(h, n) == {p \in DOMAIN h : p >= n}

Layout(op, operands) ==
    LET c == code \o <<op>> \o operands IN
    /\ Len(c) <= MaxBytes
    /\ Pending(heights, Size + 1) \cap 1 .. Len(c) - 1 = {}
    /\ code' = c

Analysis == <<cur, work, entered, min_depth, arg_count, budget, targets, returned, emitted, verdict>>

Compile ==
    /\ phase = "compile" /\ Size \in DOMAIN heights
    /\ \E op \in Emitted : \E operands \in Operands(op), callee \in Callees(op) :
          /\ Layout(op, operands)
          /\ MayRun(code', Size, heights[Size], callee)
          /\ LET next == Successors(code', Size, heights[Size], callee) IN
             /\ Agrees(next)
             /\ \A s \in next : s.pc \in 0 .. Size => s.pc \in DOMAIN heights
             /\ \A s \in next : s.pc \in Size + 1 .. MaxBytes => s.pc >= Len(code')
             /\ \A s \in next : s.pc \in 0 .. MaxBytes - 1
             /\ heights' = Planned(next)
    /\ UNCHANGED <<arity, phase, Analysis>>

(* Instructions that nothing reaches, before one that something does; they *)
(* jump to where something else does.                                      *)
CompileDead ==
    /\ phase = "compile" /\ Size \notin DOMAIN heights /\ Pending(heights, Size) # {}
    /\ \E op \in Emitted \cap {CONST_0, JUMP8, CASE16} :
          \E operands \in Operands(op) :
             /\ Layout(op, operands)
             /\ op = CONST_0 \/ \A s \in Successors(code', Size, 0, 0) :
                                   s.pc \in Pending(heights, Len(code'))
    /\ UNCHANGED <<arity, heights, phase, Analysis>>

Seal ==
    /\ phase = "compile" /\ Size > 0 /\ Pending(heights, Size) = {}
    /\ phase' = "infer"
    /\ cur' = Edge(0, 0) /\ entered' = With(Nothing, 0, 0)
    /\ UNCHANGED <<compiled, work, min_depth, arg_count, budget, targets, returned, emitted, verdict>>

----------------------------------------------------------------------------
(* What the instruction at pc is to the translator's tables.               *)
Instr(pc) ==
    LET op == At(code, pc)
        I(name, n) == [op |-> name, n |-> n]
    IN CASE op = CONST_0 -> I("CONST_INT", 0)
         [] op = LOCAL_0 -> I("LOCAL", 0)
         [] op = LOCAL_B -> I("LOCAL", At(code, pc + 1))
         [] op = RESET_1 -> I("RESET", 1)
         [] op = RESET_R_1 -> I("RESET_R", 1)
         [] op = STACK_CONTAINER_B -> I("STACK_CONTAINER", At(code, pc + 1))
         [] op = CALL_LOCAL_B -> I("CALL_LOCAL_B", At(code, pc + 1))
         [] op = CALL_CONST_ADDR8_0 -> I("TUPLE", 1)     \* the arity read off the callee
         [] op = CALL_FAST_RTS0 -> I("CALL_FAST_RTS", 0)
         [] op = PUSH_HANDLER -> I("PUSH_HANDLER", 0)
         [] op \in {JUMP8_FALSE, CASE16} -> I("CASE16", 0)
         [] op = JUMP_TAGGED_LOCAL -> I("JUMP_TAGGED_LOCAL", At(code, pc + 1))
         [] op \in Returns \cup {RAISE_EX} -> I("RETURN", 0)
         [] OTHER -> I("JUMP", 0)

After(pc) == pc + Length(code, pc)

(* Where a branch at pc may go, in the order in which the code lists it.   *)
Branches(pc) ==
    LET op == At(code, pc) IN
    CASE op = JUMP8 -> <<After(pc) + At(code, pc + 1)>>
      [] op = JUMP_BACK8 -> <<After(pc) - At(code, pc + 1) - 2>>
      [] op = JUMP8_FALSE -> <<After(pc) + At(code, pc + 1), After(pc)>>
      [] op = JUMP_TAGGED_LOCAL -> <<After(pc) + At(code, pc + 2), After(pc)>>
      [] op = CASE16 -> <<pc + 3 + 2 * Word16(code, pc + 1), pc + 3 + Word16(code, pc + 3)>>
      [] OTHER -> <<>>
Branching == Jumps \cup {JUMP_TAGGED_LOCAL, CASE16}

----------------------------------------------------------------------------
(* infer_arg_count: the worklist holds the depths, relative to the entry,  *)
(* at which a target is reached; it is looked at again only from a         *)
(* shallower one.  A loop that a call of unknown arity makes shallower at  *)
(* each turn ends with the budget (1024 or more in the code).              *)
IsShallower(pc, depth) == depth < entered[pc]

Enqueue(pcs, depth) ==
    LET new == SelectSeq(pcs, LAMBDA p : p \notin DOMAIN entered \/ IsShallower(p, depth)) IN
    /\ work' = work \o [i \in DOMAIN new |-> Edge(new[i], depth)]
    /\ entered' = [p \in DOMAIN entered \cup Range(new) |->
                     IF p \in Range(new) THEN depth ELSE entered[p]]

(* compute_arg_count: no prologue, so the larger of the inferred count and *)
(* the frame of the first RETURN of a linear walk, if there is one.        *)
ReturnsOn(step) == {pc \in Walk(Size, step) \ {Lost, Size} : At(code, pc) \in Returns}
TotalLen == [pc \in 0 .. Size - 1 |-> opcode_total_len(code, pc)]
FromReturn == IF ReturnsOn(TotalLen) = {} THEN {}
              ELSE {ReturnArity(At(code, Min(ReturnsOn(TotalLen))))}
compute_arg_count(min) == Max({-min} \cup {a + 2 : a \in FromReturn})

InferDone(min) ==
    /\ phase' = "scan"
    /\ min_depth' = min
    /\ arg_count' = compute_arg_count(min)
    /\ work' = <<0>> /\ cur' = Edge(0, 0)
    /\ entered' = With(Nothing, 0, compute_arg_count(min))

InferNext(min) ==
    IF work = <<>> THEN InferDone(min)
    ELSE /\ cur' = Last(work) /\ work' = Front(work)
         /\ min_depth' = min
         /\ UNCHANGED <<entered, arg_count, phase>>

Infer ==
    /\ phase = "infer"
    /\ LET op == At(code, cur.pc)
           s == E!InferStep(Instr(cur.pc), cur.depth, min_depth)
       IN IF cur.pc >= Size THEN InferNext(min_depth)
          ELSE IF budget = 0 THEN InferDone(min_depth)
          ELSE IF op \in Returns \cup {RAISE_EX, TAIL_B_B, CALL_CLOSURE} THEN InferNext(min_depth)
          ELSE IF op = CALL_CONST_ADDR8_0 THEN InferDone(min_depth)
          ELSE IF op \in {JUMP8, JUMP_BACK8, CASE16}
          THEN /\ Enqueue(Branches(cur.pc), s.depth)
               /\ min_depth' = s.min_depth
               /\ cur' = Edge(Size, 0)
               /\ UNCHANGED <<arg_count, phase>>
          ELSE IF op \in Branching
          THEN /\ Enqueue(<<Branches(cur.pc)[1]>>, s.depth)
               /\ min_depth' = s.min_depth
               /\ cur' = Edge(After(cur.pc), s.depth)
               /\ UNCHANGED <<arg_count, phase>>
          ELSE /\ cur' = Edge(After(cur.pc), s.depth)
               /\ min_depth' = s.min_depth
               /\ UNCHANGED <<work, entered, arg_count, phase>>
    /\ budget' = IF cur.pc < Size /\ budget > 0 THEN budget - 1 ELSE budget
    /\ UNCHANGED <<compiled, targets, returned, emitted, verdict>>

----------------------------------------------------------------------------
(* scan_branch_targets.  scan_one_opcode gives the edges out of an         *)
(* instruction; an edge of a branch makes its end a block.                 *)
ScanDepth(pc) == IF pc \in DOMAIN targets THEN targets[pc] ELSE entered[pc]

Underflows(pc, d) ==
    LET op == At(code, pc) IN
    d < (IF op = TAIL_B_B THEN 2 ELSE IF op = CALL_CLOSURE THEN 1 ELSE E!Takes(Instr(pc)))

\* Mutant of BranchDepth: a conditional jump does not take its condition.
BranchDepth_Unpopped(pc, d) == d

BranchDepth(pc, d) == d + E!Delta(Instr(pc))
StepDepth(pc, d) == IF At(code, pc) = CALL_CLOSURE THEN 1 ELSE d + E!Delta(Instr(pc))
Leaves(pc) == At(code, pc) \in Returns \cup {RAISE_EX, TAIL_B_B}

Scanned == [targets |-> targets, at |-> entered, work |-> Front(work), err |-> "none"]

BlockEdge(s, p, d) ==
    IF s.err # "none" THEN s
    ELSE IF p >= Size THEN [s EXCEPT !.err = "FellOffEnd"]
    ELSE IF p \in DOMAIN s.targets
         THEN IF s.targets[p] = d THEN s ELSE [s EXCEPT !.err = "0xFE"]
    ELSE IF p \in DOMAIN s.at /\ s.at[p] < d THEN [s EXCEPT !.err = "0xFD"]
    ELSE [s EXCEPT !.targets = With(s.targets, p, d), !.work = Append(@, p)]

FallThrough(s, p, d) ==
    IF p >= Size THEN [s EXCEPT !.err = "FellOffEnd"]
    ELSE IF p \in DOMAIN s.targets
         THEN IF d < s.targets[p] THEN [s EXCEPT !.err = "0xFD"] ELSE s
    ELSE IF p \in DOMAIN s.at
         THEN IF s.at[p] = d THEN s ELSE [s EXCEPT !.err = "0xFE"]
    ELSE [s EXCEPT !.at = With(s.at, p, d), !.work = Append(@, p)]

ScanOne(pc, d) ==
    IF Underflows(pc, d) THEN [Scanned EXCEPT !.err = "Underflow"]
    ELSE IF Leaves(pc) THEN Scanned
    ELSE IF At(code, pc) \in Branching
         THEN FoldLeft(LAMBDA s, p : BlockEdge(s, p, BranchDepth(pc, d)), Scanned, Branches(pc))
    ELSE FallThrough(Scanned, After(pc), StepDepth(pc, d))

Refuse(err) == phase' = "done" /\ verdict' = err

Scan ==
    /\ phase = "scan"
    /\ IF work = <<>>
       THEN /\ phase' = "emit" /\ cur' = Edge(0, arg_count) /\ returned' = FALSE
            /\ UNCHANGED <<work, entered, targets, verdict>>
       ELSE LET s == ScanOne(Last(work), ScanDepth(Last(work))) IN
            /\ targets' = s.targets /\ entered' = s.at /\ work' = s.work
            /\ IF s.err = "none" THEN UNCHANGED <<phase, verdict>> ELSE Refuse(s.err)
            /\ UNCHANGED <<cur, returned>>
    /\ UNCHANGED <<compiled, min_depth, arg_count, budget, emitted>>

----------------------------------------------------------------------------
(* The second pass walks the bytes in order.  A block's parameters replace *)
(* the compile-time stack, of which a deeper fall-through drops the top; a *)
(* place that nothing flows into is skipped.                               *)
InReturn(pc) == pc < Size /\ At(code, pc) \in Returns
Cleanup(pc) == /\ pc + 2 < Size
               /\ <<At(code, pc), At(code, pc + 1), At(code, pc + 2)>> = <<LOCAL_0, RESET_R_1, RETURN_1>>

\* Mutant of BlockDepth: the stack of the instruction before is kept.
BlockDepth_Kept == cur.depth

BlockDepth == targets[cur.pc]

EmitAt(d) ==
    LET pc == cur.pc
        op == At(code, pc)
        next == After(pc)
    IN IF Underflows(pc, d) THEN Refuse("Underflow") /\ UNCHANGED <<cur, returned, emitted>>
       ELSE IF op = CALL_CLOSURE /\ ~InReturn(next) /\ ~Cleanup(next)
       THEN Refuse("Unsupported") /\ UNCHANGED <<cur, returned, emitted>>
       ELSE /\ emitted' = With(emitted, pc, d)
            /\ returned' = (op \in Branching \/ Leaves(pc) \/ (op = CALL_CLOSURE /\ Cleanup(next)))
            /\ cur' = IF op = CALL_CLOSURE /\ Cleanup(next) THEN Edge(next + 3, 0)
                      ELSE Edge(next, IF returned' THEN 0 ELSE StepDepth(pc, d))
            /\ UNCHANGED <<phase, verdict>>

Emit ==
    /\ phase = "emit"
    /\ IF cur.pc >= Size
       THEN /\ Refuse(IF returned THEN "translated" ELSE "FellOffEnd")
            /\ UNCHANGED <<cur, returned, emitted>>
       ELSE IF cur.pc \in DOMAIN targets
       THEN IF ~returned /\ cur.depth < targets[cur.pc]
            THEN Refuse("Underflow") /\ UNCHANGED <<cur, returned, emitted>>
            ELSE EmitAt(BlockDepth)
       ELSE IF returned
       THEN /\ cur' = Edge(cur.pc + opcode_total_len(code, cur.pc), 0)
            /\ UNCHANGED <<returned, emitted, phase, verdict>>
       ELSE EmitAt(cur.depth)
    /\ UNCHANGED <<compiled, work, entered, min_depth, arg_count, budget, targets>>

Init == /\ code = <<>> /\ arity \in Arities /\ heights = With(Nothing, 0, arity + 2)
        /\ phase = "compile" /\ cur = Edge(0, 0) /\ work = <<>>
        /\ entered = Nothing /\ min_depth = 0 /\ arg_count = 0 /\ budget = Budget
        /\ targets = Nothing /\ returned = FALSE /\ emitted = Nothing /\ verdict = "none"

Next == Compile \/ CompileDead \/ Seal \/ Infer \/ Scan \/ Emit
Spec == Init /\ [][Next]_vars

----------------------------------------------------------------------------
(* install_all_jit_entries: the disassembler's walk, cut short when it     *)
(* meets a byte it has no name for, and the filters.                       *)
Disassembled == [pc \in 0 .. Size - 1 |-> 1 + imm_bytes(code, pc)]
Visited == Walk(Size, Disassembled) \ {Size}
Trusted == \A pc \in Visited : pc # Lost /\ At(code, pc) \in Named
Sees(ops) == IF Trusted THEN \E pc \in Visited : At(code, pc) \in ops
             ELSE \E pc \in 0 .. Size - 1 : At(code, pc) \in ops

TailEquivalent(pc) == LET next == pc + Disassembled[pc] IN InReturn(next) \/ Cleanup(next)
cca_all_tail_equivalent ==
    Trusted /\ \A pc \in Visited : At(code, pc) = CALL_CONST_ADDR8_0 => TailEquivalent(pc)

Outgoing == {CALL_CLOSURE, TAIL_B_B, CALL_FAST_RTS0}
TooDense == /\ Trusted
            /\ 2 * Cardinality({pc \in Visited : At(code, pc) \in Outgoing}) > Cardinality(Visited)

Blocked == \/ Sees({CALL_LOCAL_B})
           \/ Sees({CALL_CONST_ADDR8_0}) /\ ~cca_all_tail_equivalent

Installed == /\ phase = "done" /\ verdict = "translated"
             /\ \E a \in FromReturn : arg_count <= a + 2
             /\ ~Blocked /\ ~TooDense

(* The region translator: what it supports, where it cuts blocks, and the  *)
(* places to which it resolves a jump.                                     *)
InRegion == Named \ {RAISE_EX, CASE16, PUSH_HANDLER, CALL_FAST_RTS0, TAIL_B_B}

\* Mutant of BackTarget: the jump is taken from the end of its instruction.
BackTarget_FromEnd(pc) == pc + Disassembled[pc] - At(code, pc + 1)

BackTarget(pc) == pc - At(code, pc + 1)

jump_target(pc) ==
    LET after == pc + Disassembled[pc] IN
    CASE At(code, pc) \in {JUMP8, JUMP8_FALSE} -> {after + At(code, pc + 1)}
      [] At(code, pc) = JUMP_BACK8 -> {BackTarget(pc)}
      [] At(code, pc) = JUMP_TAGGED_LOCAL -> {after + At(code, pc + 2)}
      [] OTHER -> {}

RegionAccepts ==
    /\ \A pc \in Visited : pc # Lost /\ At(code, pc) \in InRegion
    /\ \A pc \in Visited : jump_target(pc) \subseteq Visited \cup {Size}

compute_block_offsets ==
    {0} \cup (UNION {jump_target(pc) \cup {pc + Disassembled[pc]}
                       : pc \in {q \in Visited : jump_target(q) # {}}} \ {Size})

----------------------------------------------------------------------------
Fetched == [pc \in 0 .. Size - 1 |-> Length(code, pc)]
Starts == Walk(Size, Fetched) \ {Size}
Uses(ops) == \E pc \in Starts : At(code, pc) \in ops
AfterCall == UNION {pc + 1 .. pc + 3 : pc \in {q \in Starts : At(code, q) = CALL_CLOSURE}}

(* Code that is installed was translated, at each place the interpreter    *)
(* may reach, for the height that the stack has there in the interpreter:  *)
(* its LOCAL_n and INDIRECT_n read the words that the compiler meant.  The *)
(* exception is what cleans up behind a call that ends the function        *)
(* (compile_with_consts_impl, install_all_jit_entries).                    *)
InstalledKeepsHeights ==
    Installed =>
    \A pc \in DOMAIN heights \ AfterCall : pc \in DOMAIN emitted /\ emitted[pc] = heights[pc]

(* The other direction: code in which every instruction has one height,    *)
(* and whose calls are not of unknown arity, is not refused, whatever jumps *)
(* over, into and behind what, and in whatever order the worklists take it *)
(* (infer_arg_count, scan_branch_targets).                                 *)
CompiledCodeTranslates ==
    phase = "done" /\ ~Uses({CALL_CLOSURE, CALL_LOCAL_B, CALL_CONST_ADDR8_0})
    => verdict = "translated"

(* The region translator reads the code as the interpreter does: it takes  *)
(* everything that only uses its instructions, finds their boundaries with *)
(* the disassembler's table, sends each jump where the interpreter goes,   *)
(* and starts a block there (build_region, compute_block_offsets).         *)
RegionFollowsTheInterpreter ==
    phase = "done" /\ (\A pc \in Starts : At(code, pc) \in InRegion) =>
    /\ RegionAccepts /\ Visited = Starts
    /\ \A pc \in Starts \cap DOMAIN heights : \A s \in Successors(code, pc, heights[pc], 0) :
          \/ s.pc = pc + Disassembled[pc]
          \/ s.pc \in jump_target(pc) \cap compute_block_offsets

(* The walk along instruction boundaries can only unblock a function: it   *)
(* never lets a real blocker slip through (scan_blockers_boundary_aware).  *)
BlockersAreSeen == phase = "done" /\ Uses({CALL_LOCAL_B}) => Sees({CALL_LOCAL_B})
=============================================================================
