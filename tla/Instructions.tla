---------------------------- MODULE Instructions ----------------------------
(***************************************************************************)
(* What the bytecode interpreter does for the instructions that compute:   *)
(* the value stack, the heap, the verdict of a jump, and the arithmetic on *)
(* tagged words.  An instruction is a record of its family and up to two   *)
(* operands; opcodes that differ only in how they encode an operand are    *)
(* one family.  Guards are what the compiler promises about operands.      *)
(***************************************************************************)
EXTENDS Words

CONSTANTS StackLen,      \* words of the value stack
          ContainerBase  \* the reference to a container at height h is -(ContainerBase + h)

VARIABLES stack,         \* [sp, len), the top first
          heap,
          edge,          \* where the last jump went: 0 falls through
          outcome        \* "running", or how the function ends

vars == <<stack, heap, edge, outcome>>

Height == Len(stack)
Under(n) == SubSeq(stack, n + 1, Height)
Peek(n) == stack[n + 1]
Replace(n, w) == stack' = <<w>> \o Under(n)            \* n pops and a push
Push(w) == Replace(0, w)
Pure == UNCHANGED <<heap, outcome>> /\ edge' = 0
Ends(how) == outcome' = how /\ edge' = 0 /\ UNCHANGED <<stack, heap>>

Obj(w) == heap[-w]
IsObject(w) == is_data_ptr(w) /\ -w \in DOMAIN heap
HasWord(w, k) == IsObject(w) /\ k \in 0 .. Len(Obj(w).words) - 1
IsBytes(w) == IsObject(w) /\ Obj(w).flags % F_MUTABLE_BIT = F_BYTE_OBJ
HasField(w, k) == HasWord(w, k) /\ ~IsBytes(w)
HasBytes(w, from, n) == IsBytes(w) /\ 0 <= from /\ from + n <= WordBytes * Len(Obj(w).words)
IsClosure(w) == HasField(w, 0) /\ Obj(w).flags % F_MUTABLE_BIT = F_CLOSURE_OBJ
Nums(n) == Height >= n /\ \A k \in 1 .. n : is_tagged(stack[k])
Is(i, ops) == i.op \in ops /\ outcome = "running"

----------------------------------------------------------------------------
(* Constants, locals and the shape of the stack.                           *)
Const(i) == Is(i, {"CONST_INT"}) /\ Push(tagged(i.n)) /\ Pure

Local(i) == Is(i, {"LOCAL"}) /\ i.n < Height /\ Push(Peek(i.n)) /\ Pure

Reset(i) == Is(i, {"RESET"}) /\ i.n <= Height /\ stack' = Under(i.n) /\ Pure

ResetR(i) == Is(i, {"RESET_R"}) /\ i.n < Height /\ Replace(i.n + 1, Peek(0)) /\ Pure

SetStackVal(i) ==
    /\ Is(i, {"SET_STACK_VAL"}) /\ i.n \in 1 .. Height - 1
    /\ stack' = [Under(1) EXCEPT ![i.n] = Peek(0)]
    /\ Pure

StackSize(i) ==
    /\ Is(i, {"STACK_SIZE16"})
    /\ IF StackLen - Height < i.n THEN Ends("StackOverflow") ELSE UNCHANGED stack /\ Pure

(* Fields of objects.                                                      *)
Indirect(i) ==
    /\ Is(i, {"INDIRECT"}) /\ Height > 0 /\ HasField(Peek(0), i.n)
    /\ Replace(1, Word(Obj(Peek(0)), i.n)) /\ Pure

IndirectLocal(i) ==
    /\ Is(i, {"INDIRECT_LOCAL"}) /\ i.n < Height /\ HasField(Peek(i.n), i.m)
    /\ Push(Word(Obj(Peek(i.n)), i.m)) /\ Pure

IndirectClosure(i) ==
    /\ Is(i, {"INDIRECT_CLOSURE"}) /\ i.n < Height
    /\ IsClosure(Peek(i.n)) /\ HasField(Peek(i.n), i.m + 1)
    /\ Push(Word(Obj(Peek(i.n)), i.m + 1)) /\ Pure

Tags(i) ==
    \/ Is(i, {"IS_TAGGED"}) /\ Height > 0 /\ Replace(1, Boolean(is_tagged(Peek(0)))) /\ Pure
    \/ Is(i, {"NOT_BOOLEAN"}) /\ Height > 0 /\ Replace(1, Boolean(Peek(0) = tagged(0))) /\ Pure

TagOfLocal(i) ==
    /\ Is(i, {"IS_TAGGED_LOCAL"}) /\ i.n < Height
    /\ Push(Boolean(is_tagged(Peek(i.n)))) /\ Pure

----------------------------------------------------------------------------
(* Arithmetic; x is the top of the stack and y the word under it.          *)
InRange(t) == MIN_TAGGED <= t /\ t <= MAX_TAGGED

FixedResult(op, y, x) ==
    CASE op = "FIXED_ADD" -> y + x [] op = "FIXED_SUB" -> y - x [] op = "FIXED_MULT" -> y * x

Fixed(i) ==
    /\ Is(i, {"FIXED_ADD", "FIXED_SUB", "FIXED_MULT"}) /\ Nums(2)
    /\ LET t == FixedResult(i.op, untag(Peek(1)), untag(Peek(0)))
       IN IF InRange(t) THEN Replace(2, tagged(t)) /\ Pure ELSE Ends("Overflow")

FixedDivide(i) ==
    /\ Is(i, {"FIXED_QUOT", "FIXED_REM"}) /\ Nums(2)
    /\ LET y == untag(Peek(1))
           x == untag(Peek(0))
       IN IF x = 0 THEN Ends("DivByZero")
          ELSE Replace(2, tagged(IF i.op = "FIXED_QUOT" THEN Quotient(y, x) ELSE Remainder(y, x)))
               /\ Pure

Retag(v) == (2 * v + 1) % Modulus
Shift(x) == (x \div 2) % Bits                              \* & 63

Difference(y, x) == (y - x + tagged(0)) % Modulus

WordResult(op, y, x) ==
    CASE op = "WORD_ADD" -> (y + x - tagged(0)) % Modulus
      [] op = "WORD_SUB" -> Difference(y, x)
      [] op = "WORD_MULT" -> Retag((x \div 2) * (y \div 2))
      [] op = "WORD_AND" -> BitAnd(y, x)
      [] op = "WORD_OR" -> BitOr(y, x)
      [] op = "WORD_XOR" -> BitOr(BitXor(y, x), tagged(0))
      [] op = "WORD_SHIFT_LEFT" -> Retag((y \div 2) * 2^Shift(x))
      [] op = "WORD_SHIFT_R_LOG" -> Retag((y \div 2) \div 2^Shift(x))

WordOps == {"WORD_ADD", "WORD_SUB", "WORD_MULT", "WORD_AND", "WORD_OR", "WORD_XOR",
            "WORD_SHIFT_LEFT", "WORD_SHIFT_R_LOG"}

WordOp(i) ==
    /\ Is(i, WordOps) /\ Nums(2)
    /\ Replace(2, WordResult(i.op, Peek(1), Peek(0))) /\ Pure

WordDivide(i) ==
    /\ Is(i, {"WORD_DIV", "WORD_MOD"}) /\ Nums(2)
    /\ LET y == Peek(1) \div 2
           x == Peek(0) \div 2
       IN IF x = 0 THEN Ends("DivByZero")
          ELSE Replace(2, Retag(IF i.op = "WORD_DIV" THEN y \div x ELSE y % x)) /\ Pure

Holds(op, y, x) ==
    CASE op = "LESS_SIGNED" -> signed(y) < signed(x)
      [] op = "LESS_UNSIGNED" -> y < x
      [] op = "LESS_EQ_SIGNED" -> signed(y) <= signed(x)
      [] op = "LESS_EQ_UNSIGNED" -> y <= x
      [] op = "GREATER_SIGNED" -> signed(y) > signed(x)
      [] op = "GREATER_UNSIGNED" -> y > x
      [] op = "GREATER_EQ_SIGNED" -> signed(y) >= signed(x)
      [] op = "GREATER_EQ_UNSIGNED" -> y >= x

Orders == {"LESS_SIGNED", "LESS_UNSIGNED", "LESS_EQ_SIGNED", "LESS_EQ_UNSIGNED",
           "GREATER_SIGNED", "GREATER_UNSIGNED", "GREATER_EQ_SIGNED", "GREATER_EQ_UNSIGNED"}

Compare(i) ==
    \/ Is(i, Orders) /\ Nums(2) /\ Replace(2, Boolean(Holds(i.op, Peek(1), Peek(0)))) /\ Pure
    \/ Is(i, {"EQUAL_WORD"}) /\ Height > 1 /\ Replace(2, Boolean(Peek(1) = Peek(0))) /\ Pure

----------------------------------------------------------------------------
(* Loads and stores by index.  A store leaves tagged(0) for the base.      *)
Load(i) ==
    /\ Height > 1 /\ is_tagged(Peek(0))
    /\ LET k == untag(Peek(0))
           base == Peek(1)
       IN \/ /\ Is(i, {"LOAD_ML_WORD"}) /\ HasField(base, k)
             /\ Replace(2, Word(Obj(base), k))
          \/ /\ Is(i, {"LOAD_ML_BYTE"}) /\ HasBytes(base, k, 1)
             /\ Replace(2, tagged(ByteOf(Obj(base), k)))
          \/ /\ Is(i, {"LOAD_UNTAGGED"}) /\ HasWord(base, k) /\ IsBytes(base)
             /\ Replace(2, tagged(Word(Obj(base), k)))
    /\ Pure

Stores(base, o) ==
    /\ heap' = [heap EXCEPT ![-base] = o]
    /\ edge' = 0 /\ UNCHANGED outcome

Store(i) ==
    /\ Height > 2 /\ is_tagged(Peek(1))
    /\ LET k == untag(Peek(1))
           base == Peek(2)
           w == Peek(0)
       IN \/ /\ Is(i, {"STORE_ML_WORD"}) /\ HasField(base, k)
             /\ Stores(base, WithWord(Obj(base), k, w))
          \/ /\ Is(i, {"STORE_ML_BYTE"}) /\ HasBytes(base, k, 1) /\ is_tagged(w)
             /\ Stores(base, WithByte(Obj(base), k, untag(w) % Byte))
          \/ /\ Is(i, {"STORE_UNTAGGED"}) /\ HasWord(base, k) /\ IsBytes(base) /\ is_tagged(w)
             /\ Stores(base, WithWord(Obj(base), k, untag(w) % Modulus))
    /\ Replace(3, tagged(0))

Cell(i) ==
    /\ Height > 0 /\ IsObject(Peek(0))
    /\ \/ Is(i, {"CELL_LENGTH"}) /\ Replace(1, tagged(Len(Obj(Peek(0)).words)))
       \/ Is(i, {"CELL_FLAGS"}) /\ Replace(1, tagged(Obj(Peek(0)).flags))
    /\ Pure

Lock(i) ==
    /\ Is(i, {"LOCK", "CLEAR_MUTABLE"}) /\ Height > 0 /\ IsObject(Peek(0))
    /\ Stores(Peek(0), [Obj(Peek(0)) EXCEPT !.flags = Locked(@)])
    /\ IF i.op = "LOCK" THEN UNCHANGED stack ELSE Replace(1, tagged(0))

Atomic(i) ==
    /\ Is(i, {"ATOMIC_INCR", "ATOMIC_DECR"}) /\ Height > 0 /\ HasField(Peek(0), 0)
    /\ LET old == Word(Obj(Peek(0)), 0)
           new == (IF i.op = "ATOMIC_INCR" THEN old + 2 ELSE old - 2) % Modulus
       IN /\ is_tagged(old)
          /\ Stores(Peek(0), WithWord(Obj(Peek(0)), 0, new))
          /\ Replace(1, new)

(* Blocks of bytes or words: length, offset, object, offset on top of the  *)
(* object that is peeked.                                                  *)
Length == untag(Peek(0))
Other == Peek(2)
OtherFrom == untag(Peek(1))
Base == Peek(4)
BaseFrom == untag(Peek(3))
BlockOperands == /\ Height > 4 /\ \A k \in {0, 1, 3} : is_tagged(Peek(k)) /\ untag(Peek(k)) >= 0

BlockMove(i) ==
    /\ BlockOperands
    /\ \/ /\ Is(i, {"BLOCK_MOVE_BYTE"})
          /\ HasBytes(Other, OtherFrom, Length) /\ HasBytes(Base, BaseFrom, Length)
          /\ LET copied[n \in 0 .. Length] ==
                     IF n = 0 THEN Obj(Other)
                     ELSE WithByte(copied[n - 1], OtherFrom + n - 1, ByteOf(Obj(Base), BaseFrom + n - 1))
             IN Stores(Other, copied[Length])
       \/ /\ Is(i, {"BLOCK_MOVE_WORD"})
          /\ \A n \in 0 .. Length - 1 : HasField(Other, OtherFrom + n) /\ HasField(Base, BaseFrom + n)
          /\ IsObject(Other) /\ IsObject(Base)
          /\ Stores(Other, [Obj(Other) EXCEPT !.words =
                 [k \in DOMAIN @ |-> IF k \in OtherFrom + 1 .. OtherFrom + Length
                                     THEN Obj(Base).words[BaseFrom + k - OtherFrom] ELSE @[k]]])
    /\ Replace(5, tagged(0))

Ordering(s, t) ==
    LET differ == {k \in DOMAIN s : s[k] # t[k]}
    IN IF differ = {} THEN 0 ELSE IF s[Min(differ)] < t[Min(differ)] THEN -1 ELSE 1

BlockCompare(i) ==
    /\ BlockOperands
    /\ HasBytes(Other, OtherFrom, Length) /\ HasBytes(Base, BaseFrom, Length)
    /\ LET o == Ordering(Bytes(Obj(Base), BaseFrom, Length), Bytes(Obj(Other), OtherFrom, Length))
       IN \/ Is(i, {"BLOCK_EQUAL_BYTE"}) /\ Replace(5, Boolean(o = 0))
          \/ Is(i, {"BLOCK_COMPARE_BYTE"}) /\ Replace(5, tagged(o))
    /\ Pure

----------------------------------------------------------------------------
(* Allocation.                                                             *)
Allocates(flags, words, drop) ==
    /\ heap' = Append(heap, Object(flags, words))
    /\ Replace(drop, -(Len(heap) + 1))
    /\ edge' = 0 /\ UNCHANGED outcome

Pushed(n) == Reverse(SubSeq(stack, 1, n))                 \* the first pushed first
Repeated(w, n) == [k \in 1 .. n |-> w]

Tuple(i) == Is(i, {"TUPLE"}) /\ i.n <= Height /\ Allocates(0, Pushed(i.n), i.n)

Closure(i) ==
    /\ Is(i, {"CLOSURE"}) /\ i.n < Height /\ IsClosure(Peek(i.n))
    /\ Allocates(F_CLOSURE_OBJ, <<Word(Obj(Peek(i.n)), 0)>> \o Pushed(i.n), i.n + 1)

AllocRef(i) == Is(i, {"ALLOC_REF"}) /\ Height > 0 /\ Allocates(F_MUTABLE_BIT, <<Peek(0)>>, 1)

MutClosure(i) ==
    /\ Height > 0
    /\ \/ /\ Is(i, {"ALLOC_MUT_CLOSURE"}) /\ IsClosure(Peek(0))
          /\ Allocates(F_CLOSURE_OBJ + F_MUTABLE_BIT,
                       <<Word(Obj(Peek(0)), 0)>> \o Repeated(tagged(0), i.n), 1)
       \/ /\ Is(i, {"MOVE_TO_MUT_CLOSURE"}) /\ Height > 1
          /\ IsClosure(Peek(1)) /\ HasField(Peek(1), i.n + 1)
          /\ Stores(Peek(1), WithWord(Obj(Peek(1)), i.n + 1, Peek(0)))
          /\ stack' = Under(1)

\* What the compiler asks for: a length that is not negative, and flags.
Sized(length, flags) == untag(length) \in 0 .. 2 /\ untag(flags) \in {0, 1, F_MUTABLE_BIT}

AllocWordMemory(i) ==
    /\ Is(i, {"ALLOC_WORD_MEMORY"}) /\ Height > 2 /\ is_tagged(Peek(1)) /\ is_tagged(Peek(2))
    /\ Sized(Peek(2), Peek(1))
    /\ Allocates(untag(Peek(1)) % Byte, Repeated(Peek(0), untag(Peek(2))), 3)

\* The words are what the space held; it is fresh here.
AllocByteMem(i) ==
    /\ Is(i, {"ALLOC_BYTE_MEM"}) /\ Nums(2) /\ Sized(Peek(1), Peek(0)) /\ untag(Peek(0)) = F_BYTE_OBJ
    /\ Allocates(untag(Peek(0)) % Byte, Repeated(0, untag(Peek(1))), 2)

(* A container is n words of the stack with a reference to the topmost.    *)
IsContainer(w) == w < -ContainerBase
Slot(ref, k) == Height - (-ref - ContainerBase) + 1 + k

Container(i) ==
    \/ /\ Is(i, {"STACK_CONTAINER"})
       /\ stack' = <<-(ContainerBase + Height + i.n)>> \o Repeated(tagged(0), i.n) \o stack
       /\ Pure
    \/ /\ Is(i, {"MOVE_TO_CONTAINER"}) /\ Height > 1 /\ IsContainer(Peek(1))
       /\ stack' = [Under(1) EXCEPT ![Slot(Peek(1), i.n) - 1] = Peek(0)]
       /\ Pure
    \/ /\ Is(i, {"INDIRECT_CONTAINER"}) /\ Height > 0 /\ IsContainer(Peek(0))
       /\ Replace(1, stack[Slot(Peek(0), i.n)])
       /\ Pure

----------------------------------------------------------------------------
(* Jumps, and the ways a function ends.                                    *)
Jumps(drop, taken) ==
    stack' = Under(drop) /\ edge' = taken /\ UNCHANGED <<heap, outcome>>

Taken(b) == IF b THEN 1 ELSE 0

Jump(i) ==
    /\ Height > 0
    /\ \/ Is(i, {"JUMP_FALSE"}) /\ Jumps(1, Taken(Peek(0) = tagged(0)))
       \/ Is(i, {"JUMP_TRUE"}) /\ Jumps(1, Taken(Peek(0) # tagged(0)))

JumpLocal(i) ==
    /\ i.n < Height
    /\ \/ Is(i, {"JUMP_TAGGED_LOCAL"}) /\ Jumps(0, Taken(is_tagged(Peek(i.n))))
       \/ /\ Is(i, {"JUMP_NEQ_LOCAL"})
          /\ Jumps(0, Taken(Peek(i.n) # tagged(i.m)))
       \/ /\ Is(i, {"JUMP_NEQ_LOCAL_IND"}) /\ HasField(Peek(i.n), 0)
          /\ Jumps(0, Taken(Word(Obj(Peek(i.n)), 0) # tagged(i.m)))

\* Entry u of the table, or past its i.n entries.
Case(i) ==
    /\ Is(i, {"CASE16"}) /\ Nums(1)
    /\ LET u == untag(Peek(0)) IN Jumps(1, IF u < 0 \/ u >= i.n THEN i.n + 1 ELSE u + 1)

Leave(i) ==
    /\ Height > 0
    /\ \/ Is(i, {"RETURN"}) /\ outcome' = "returned"
       \/ Is(i, {"RAISE_EX"}) /\ outcome' = "raised"
    /\ stack' = <<Peek(0)>> /\ edge' = 0 /\ UNCHANGED heap

Step(i) ==
    \/ Const(i) \/ Local(i) \/ Reset(i) \/ ResetR(i) \/ SetStackVal(i) \/ StackSize(i)
    \/ Indirect(i) \/ IndirectLocal(i) \/ IndirectClosure(i) \/ Tags(i) \/ TagOfLocal(i)
    \/ Fixed(i) \/ FixedDivide(i) \/ WordOp(i) \/ WordDivide(i) \/ Compare(i)
    \/ Load(i) \/ Store(i) \/ Cell(i) \/ Lock(i) \/ Atomic(i) \/ BlockMove(i) \/ BlockCompare(i)
    \/ Tuple(i) \/ Closure(i) \/ AllocRef(i) \/ MutClosure(i) \/ AllocWordMemory(i)
    \/ AllocByteMem(i) \/ Container(i) \/ Jump(i) \/ JumpLocal(i) \/ Case(i) \/ Leave(i)
=============================================================================
