----------------------------- MODULE Translate -----------------------------
(***************************************************************************)
(* The per-function translator: the bytecode's stack becomes a compile-    *)
(* time vector of SSA values, the top last, and only the heap and the      *)
(* slots of containers are memory.  A step is what the code emitted for an *)
(* instruction computes when it runs.                                      *)
(***************************************************************************)
EXTENDS Words

CONSTANTS ContainerBase

VARIABLES vals,       \* the translator's stack
          slots,      \* by reference, the stack slots of containers
          heap,
          edge,       \* the successor block of the branch; 0 is the fall-through
          outcome     \* "running", "refused" when the translator returns Unsupported,
                      \* or how the function ends; "trap" is a hardware trap

vars == <<vals, slots, heap, edge, outcome>>

Depth == Len(vals)
FromTop(d) == vals[Depth - d]
Below(n) == SubSeq(vals, 1, Depth - n)
Becomes(n, v) == vals' = Append(Below(n), v)
NoEffect == UNCHANGED <<slots, heap, outcome>> /\ edge' = 0
Returns(how, v) == outcome' = how /\ vals' = <<v>> /\ edge' = 0 /\ UNCHANGED <<slots, heap>>
Is(i, ops) == i.op \in ops /\ outcome = "running"

tag(n) == (2 * n + 1) % Modulus
sshr(v) == signed(v) \div 2
ushr(v) == v \div 2
ishl(v) == (2 * v) % Modulus
uextend(b) == ishl(IF b THEN 1 ELSE 0) + 1

LoadWord(p, i) == Word(heap[-p], i)
Writes(p, o) == heap' = [heap EXCEPT ![-p] = o] /\ edge' = 0 /\ UNCHANGED <<slots, outcome>>

----------------------------------------------------------------------------
Const(i) == Is(i, {"CONST_INT"}) /\ Becomes(0, tag(i.n)) /\ NoEffect

Local(i) == Is(i, {"LOCAL"}) /\ Becomes(0, FromTop(i.n)) /\ NoEffect

Reset(i) == Is(i, {"RESET"}) /\ vals' = Below(i.n) /\ NoEffect

\* Mutant of ResetR: one value too few is dropped below the top.
ResetR_KeepsOne(i) == Is(i, {"RESET_R"}) /\ Becomes(i.n, FromTop(0)) /\ NoEffect

ResetR(i) == Is(i, {"RESET_R"}) /\ Becomes(i.n + 1, FromTop(0)) /\ NoEffect

SetStackVal(i) ==
    /\ Is(i, {"SET_STACK_VAL"})
    /\ LET popped == Below(1)
       IN vals' = [popped EXCEPT ![Len(popped) - (i.n - 1)] = FromTop(0)]
    /\ NoEffect

Refuses(i) ==
    /\ Is(i, {"STACK_SIZE16", "ATOMIC_INCR", "ATOMIC_DECR"})
    /\ outcome' = "refused" /\ UNCHANGED <<vals, slots, heap, edge>>

Indirect(i) == Is(i, {"INDIRECT"}) /\ Becomes(1, LoadWord(FromTop(0), i.n)) /\ NoEffect

IndirectLocal(i) ==
    Is(i, {"INDIRECT_LOCAL"}) /\ Becomes(0, LoadWord(FromTop(i.n), i.m)) /\ NoEffect

IndirectClosure(i) ==
    Is(i, {"INDIRECT_CLOSURE"}) /\ Becomes(0, LoadWord(FromTop(i.n), i.m + 1)) /\ NoEffect

Lsb(v) == IF is_tagged(v) THEN 1 ELSE 0

Tags(i) ==
    \/ Is(i, {"IS_TAGGED"}) /\ Becomes(1, ishl(Lsb(FromTop(0))) + 1) /\ NoEffect
    \/ Is(i, {"NOT_BOOLEAN"}) /\ Becomes(1, IF FromTop(0) = tag(0) THEN tag(1) ELSE tag(0))
       /\ NoEffect

TagOfLocal(i) ==
    Is(i, {"IS_TAGGED_LOCAL"}) /\ Becomes(0, ishl(Lsb(FromTop(i.n))) + 1) /\ NoEffect

----------------------------------------------------------------------------
(* Arithmetic on the tagged forms; x is the top.  Fixed arithmetic wraps.  *)
X == FromTop(0)
Y == FromTop(1)
Computes(v) == Becomes(2, v) /\ NoEffect

FixedAdd(i) == Is(i, {"FIXED_ADD"}) /\ Computes((X + Y - 1) % Modulus)
FixedSub(i) == Is(i, {"FIXED_SUB"}) /\ Computes((Y - X + 1) % Modulus)
FixedMult(i) == Is(i, {"FIXED_MULT"}) /\ Computes((2 * (sshr(X - 1) * sshr(Y - 1)) + 1) % Modulus)

FixedDivide(i) ==
    /\ Is(i, {"FIXED_QUOT", "FIXED_REM"})
    /\ IF sshr(X) = 0 THEN Returns("trap", X)
       ELSE Computes(tag(IF i.op = "FIXED_QUOT" THEN Quotient(sshr(Y), sshr(X))
                                                ELSE Remainder(sshr(Y), sshr(X))))

ShiftBy == sshr(X) % Bits

WordResult(op) ==
    CASE op = "WORD_ADD" -> (Y + X - 1) % Modulus
      [] op = "WORD_SUB" -> (Y - X + 1) % Modulus
      [] op = "WORD_MULT" -> BitOr(ishl((sshr(X) * sshr(Y)) % Modulus), 1)
      [] op = "WORD_AND" -> BitAnd(Y, X)
      [] op = "WORD_OR" -> BitOr(Y, X)
      [] op = "WORD_XOR" -> BitOr(BitXor(Y, X), 1)
      [] op = "WORD_SHIFT_LEFT" -> BitOr(ishl((ushr(Y) * 2^ShiftBy) % Modulus), 1)
      [] op = "WORD_SHIFT_R_LOG" -> BitOr(ishl(ushr(Y) \div 2^ShiftBy), 1)

WordOp(i) ==
    /\ Is(i, {"WORD_ADD", "WORD_SUB", "WORD_MULT", "WORD_AND", "WORD_OR", "WORD_XOR",
              "WORD_SHIFT_LEFT", "WORD_SHIFT_R_LOG"})
    /\ Computes(WordResult(i.op))

\* A zero divisor gives zero.
WordDivide(i) ==
    /\ Is(i, {"WORD_DIV", "WORD_MOD"})
    /\ Computes(IF ushr(X) = 0 THEN 1
                ELSE ishl(IF i.op = "WORD_DIV" THEN ushr(Y) \div ushr(X) ELSE ushr(Y) % ushr(X)) + 1)

Compare(i) ==
    \/ Is(i, {"EQUAL_WORD"}) /\ Computes(uextend(X = Y))
    \/ Is(i, {"LESS_SIGNED"}) /\ Computes(uextend(signed(Y) < signed(X)))
    \/ Is(i, {"LESS_UNSIGNED"}) /\ Computes(uextend(Y < X))
    \/ Is(i, {"LESS_EQ_SIGNED"}) /\ Computes(uextend(signed(Y) <= signed(X)))
    \/ Is(i, {"LESS_EQ_UNSIGNED"}) /\ Computes(uextend(Y <= X))
    \/ Is(i, {"GREATER_SIGNED"}) /\ Computes(uextend(signed(Y) > signed(X)))
    \/ Is(i, {"GREATER_UNSIGNED"}) /\ Computes(uextend(Y > X))
    \/ Is(i, {"GREATER_EQ_SIGNED"}) /\ Computes(uextend(signed(Y) >= signed(X)))
    \/ Is(i, {"GREATER_EQ_UNSIGNED"}) /\ Computes(uextend(Y >= X))

----------------------------------------------------------------------------
(* Memory.                                                                 *)
LoadUntagged(i) == Is(i, {"LOAD_UNTAGGED"}) /\ Computes(ishl(LoadWord(Y, sshr(X))) + 1)
LoadMl(i) ==
    \/ Is(i, {"LOAD_ML_WORD"}) /\ Computes(LoadWord(Y, sshr(X)))
    \/ Is(i, {"LOAD_ML_BYTE"}) /\ Computes(BitOr(ishl(ByteOf(heap[-Y], sshr(X))), 1))

Stored(base, o) == Writes(base, o) /\ Becomes(3, tag(0))
StoreMl(i) ==
    \/ /\ Is(i, {"STORE_ML_WORD"})
       /\ Stored(FromTop(2), WithWord(heap[-FromTop(2)], sshr(Y), X))
    \/ /\ Is(i, {"STORE_ML_BYTE"})
       /\ Stored(FromTop(2), WithByte(heap[-FromTop(2)], sshr(Y), sshr(X) % Byte))
StoreUntagged(i) ==
    /\ Is(i, {"STORE_UNTAGGED"})
    /\ Stored(FromTop(2), WithWord(heap[-FromTop(2)], sshr(Y), sshr(X) % Modulus))

Cell(i) ==
    \/ Is(i, {"CELL_LENGTH"}) /\ Becomes(1, ishl(Len(heap[-X].words)) + 1) /\ NoEffect
    \/ Is(i, {"CELL_FLAGS"}) /\ Becomes(1, ishl(heap[-X].flags) + 1) /\ NoEffect

Lock(i) ==
    /\ Is(i, {"LOCK", "CLEAR_MUTABLE"})
    /\ Writes(X, [heap[-X] EXCEPT !.flags = Locked(@)])
    /\ IF i.op = "LOCK" THEN UNCHANGED vals ELSE Becomes(1, tag(0))

(* The five operands of a block operation, popped, and its trampoline.     *)
Span == sshr(FromTop(0))
To == FromTop(2)
ToOff == sshr(FromTop(1))
From == FromTop(4)
FromOff == sshr(FromTop(3))

BlockMove(i) ==
    /\ \/ /\ Is(i, {"BLOCK_MOVE_BYTE"})
          /\ LET moved[n \in 0 .. Span] ==
                     IF n = 0 THEN heap[-To]
                     ELSE WithByte(moved[n - 1], ToOff + n - 1, ByteOf(heap[-From], FromOff + n - 1))
             IN Writes(To, moved[Span])
       \/ /\ Is(i, {"BLOCK_MOVE_WORD"})
          /\ Writes(To, [heap[-To] EXCEPT !.words =
                 [k \in DOMAIN @ |-> IF k - 1 \in ToOff .. ToOff + Span - 1
                                     THEN LoadWord(From, FromOff + k - 1 - ToOff) ELSE @[k]]])
    /\ Becomes(5, tag(0))

BlockCompare(i) ==
    LET s == Bytes(heap[-From], FromOff, Span)
        t == Bytes(heap[-To], ToOff, Span)
        first == CHOOSE k \in DOMAIN s : s[k] # t[k] /\ \A j \in 1 .. k - 1 : s[j] = t[j]
    IN /\ \/ Is(i, {"BLOCK_EQUAL_BYTE"}) /\ Becomes(5, IF s = t THEN 3 ELSE 1)
          \/ Is(i, {"BLOCK_COMPARE_BYTE"})
             /\ Becomes(5, IF s = t THEN 1 ELSE IF s[first] < t[first] THEN Modulus - 1 ELSE 3)
       /\ NoEffect

(* Allocation through the trampolines of jit_bridge; alloc_tuple gives     *)
(* whatever it makes the flags of an ordinary word object.                 *)
Allocates(flags, words, n) ==
    /\ heap' = Append(heap, Object(flags, words))
    /\ Becomes(n, -(Len(heap) + 1))
    /\ edge' = 0 /\ UNCHANGED <<slots, outcome>>

Spilled(n) == SubSeq(vals, Depth - n + 1, Depth)

Tuple(i) == Is(i, {"TUPLE"}) /\ Allocates(0, Spilled(i.n), i.n)

Closure(i) ==
    /\ Is(i, {"CLOSURE"})
    /\ Allocates(F_CLOSURE_OBJ, <<LoadWord(FromTop(i.n), 0)>> \o Spilled(i.n), i.n + 1)

TupleFlags == 0

AllocRef(i) == Is(i, {"ALLOC_REF"}) /\ Allocates(TupleFlags, <<FromTop(0)>>, 1)

AllocMutClosure(i) ==
    /\ Is(i, {"ALLOC_MUT_CLOSURE"})
    /\ Allocates(F_CLOSURE_OBJ + F_MUTABLE_BIT,
                 <<LoadWord(FromTop(0), 0)>> \o [k \in 1 .. i.n |-> tag(0)], 1)

MoveToMutClosure(i) ==
    /\ Is(i, {"MOVE_TO_MUT_CLOSURE"})
    /\ Writes(FromTop(1), WithWord(heap[-FromTop(1)], i.n + 1, FromTop(0)))
    /\ vals' = Below(1)

AllocMemory(i) ==
    \/ /\ Is(i, {"ALLOC_WORD_MEMORY"})
       /\ Allocates(sshr(FromTop(1)) % Byte, [k \in 1 .. sshr(FromTop(2)) |-> FromTop(0)], 3)
    \/ /\ Is(i, {"ALLOC_BYTE_MEM"})
       /\ Allocates(sshr(X) % Byte, [k \in 1 .. sshr(Y) |-> 0], 2)

(* A container is an explicit stack slot; the vector gets place-holders.   *)
Container(i) ==
    /\ \/ /\ Is(i, {"STACK_CONTAINER"})
          /\ LET ref == -(ContainerBase + Depth + i.n)
             IN /\ vals' = vals \o [k \in 1 .. i.n |-> tag(0)] \o <<ref>>
                /\ slots' = [r \in DOMAIN slots \cup {ref} |->
                                IF r = ref THEN [k \in 1 .. i.n |-> tag(0)] ELSE slots[r]]
       \/ /\ Is(i, {"MOVE_TO_CONTAINER"})
          /\ slots' = [slots EXCEPT ![Y][i.n + 1] = X]
          /\ vals' = Below(1)
       \/ Is(i, {"INDIRECT_CONTAINER"}) /\ Becomes(1, slots[X][i.n + 1]) /\ UNCHANGED slots
    /\ edge' = 0 /\ UNCHANGED <<heap, outcome>>

----------------------------------------------------------------------------
(* Branches pass the whole vector to the successor block.                  *)
Branches(drop, b) ==
    vals' = Below(drop) /\ edge' = (IF b THEN 1 ELSE 0) /\ UNCHANGED <<slots, heap, outcome>>

Jump(i) ==
    \/ Is(i, {"JUMP_FALSE"}) /\ Branches(1, X = tag(0))
    \/ Is(i, {"JUMP_TRUE"}) /\ Branches(1, X # tag(0))

AsI8(b) == IF b >= Byte \div 2 THEN b - Byte ELSE b

JumpLocal(i) ==
    \/ Is(i, {"JUMP_TAGGED_LOCAL"}) /\ Branches(0, is_tagged(FromTop(i.n)))
    \/ Is(i, {"JUMP_NEQ_LOCAL"}) /\ Branches(0, FromTop(i.n) # tag(AsI8(i.m)))
    \/ Is(i, {"JUMP_NEQ_LOCAL_IND"}) /\ Branches(0, LoadWord(FromTop(i.n), 0) # tag(AsI8(i.m)))

\* The selector is compared with each entry's index, then the default is taken.
Case(i) ==
    /\ Is(i, {"CASE16"})
    /\ LET u == sshr(X) IN edge' = IF u \in 0 .. i.n - 1 THEN u + 1 ELSE i.n + 1
    /\ vals' = Below(1) /\ UNCHANGED <<slots, heap, outcome>>

Leave(i) ==
    \/ Is(i, {"RETURN"}) /\ Returns("returned", X)
    \/ Is(i, {"RAISE_EX"}) /\ Returns("returned", tag(0))

Step(i) ==
    \/ Const(i) \/ Local(i) \/ Reset(i) \/ ResetR(i) \/ SetStackVal(i) \/ Refuses(i)
    \/ Indirect(i) \/ IndirectLocal(i) \/ IndirectClosure(i) \/ Tags(i) \/ TagOfLocal(i)
    \/ FixedAdd(i) \/ FixedSub(i) \/ FixedMult(i) \/ FixedDivide(i) \/ WordOp(i) \/ WordDivide(i)
    \/ Compare(i) \/ LoadUntagged(i) \/ LoadMl(i) \/ StoreMl(i) \/ StoreUntagged(i) \/ Cell(i)
    \/ Lock(i) \/ BlockMove(i) \/ BlockCompare(i) \/ Tuple(i) \/ Closure(i) \/ AllocRef(i)
    \/ AllocMutClosure(i) \/ MoveToMutClosure(i) \/ AllocMemory(i) \/ Container(i) \/ Jump(i)
    \/ JumpLocal(i) \/ Case(i) \/ Leave(i)
=============================================================================
