------------------------------ MODULE MemTrans ------------------------------
(***************************************************************************)
(* The region translator: native code that keeps the interpreter's stack   *)
(* in memory and carries only the stack pointer.  A step is what the code  *)
(* emit_one emits for an instruction does to the stack's array, with the   *)
(* loads, the new stack pointer and the stores as they are emitted.        *)
(***************************************************************************)
EXTENDS Words

CONSTANTS StackLen, ContainerBase

VARIABLES mem,        \* the stack's array, indexed from 0
          sp,
          heap,
          edge,
          outcome     \* "running", "refused" when build_region bails out, or the end

vars == <<mem, sp, heap, edge, outcome>>

load_at(a) == mem[a]
emit_peek(k) == load_at(sp + k)
Top == emit_peek(0)
Stores(a, w) == mem' = [mem EXCEPT ![a] = w] /\ sp' = a     \* the store is at the new sp
emit_push(w) == Stores(sp - 1, w)
Plain == UNCHANGED <<heap, outcome>> /\ edge' = 0
Is(i, ops) == i.op \in ops /\ outcome = "running"
emit_raise(exn) == outcome' = exn /\ edge' = 0 /\ UNCHANGED <<mem, sp, heap>>

emit_tag(n) == (2 * n + 1) % Modulus
emit_untag(w) == signed(w - 1) \div 2
ushr(w) == w \div 2
Select(b) == IF b THEN emit_tag(1) ELSE emit_tag(0)
HeapAt(p, k) == Word(heap[-p], k)

Supported ==
    {"CONST_INT", "LOCAL", "INDIRECT", "INDIRECT_LOCAL", "RESET", "RESET_R", "SET_STACK_VAL",
     "STACK_SIZE16", "IS_TAGGED", "IS_TAGGED_LOCAL", "NOT_BOOLEAN", "JUMP_FALSE", "JUMP_TRUE",
     "JUMP_NEQ_LOCAL", "JUMP_NEQ_LOCAL_IND", "JUMP_TAGGED_LOCAL", "LOAD_ML_WORD", "LOAD_ML_BYTE",
     "LOAD_UNTAGGED", "STORE_ML_WORD", "STORE_UNTAGGED", "CELL_LENGTH", "CELL_FLAGS",
     "FIXED_ADD", "FIXED_SUB", "FIXED_MULT", "FIXED_QUOT", "FIXED_REM", "WORD_ADD", "WORD_SUB",
     "WORD_MULT", "WORD_AND", "WORD_OR", "WORD_XOR", "WORD_SHIFT_LEFT", "WORD_SHIFT_R_LOG",
     "WORD_DIV", "WORD_MOD", "EQUAL_WORD", "LESS_SIGNED", "LESS_UNSIGNED", "LESS_EQ_SIGNED",
     "LESS_EQ_UNSIGNED", "GREATER_SIGNED", "GREATER_UNSIGNED", "GREATER_EQ_SIGNED",
     "GREATER_EQ_UNSIGNED", "STACK_CONTAINER", "TUPLE", "CLOSURE", "ALLOC_REF",
     "ALLOC_WORD_MEMORY", "ALLOC_BYTE_MEM", "RETURN"}

Refuses(i) ==
    /\ outcome = "running" /\ i.op \notin Supported
    /\ outcome' = "refused" /\ UNCHANGED <<mem, sp, heap, edge>>

----------------------------------------------------------------------------
push_tagged(i) == Is(i, {"CONST_INT"}) /\ emit_push(emit_tag(i.n)) /\ Plain
peek_push(i) == Is(i, {"LOCAL"}) /\ emit_push(emit_peek(i.n)) /\ Plain
indirect(i) == Is(i, {"INDIRECT"}) /\ Stores(sp, HeapAt(Top, i.n)) /\ Plain
indirect_local(i) == Is(i, {"INDIRECT_LOCAL"}) /\ emit_push(HeapAt(emit_peek(i.n), i.m)) /\ Plain
reset(i) == Is(i, {"RESET"}) /\ sp' = sp + i.n /\ UNCHANGED mem /\ Plain

\* Mutant of reset_r: the pops are not counted with the push.
reset_r_OneShort(i) == Is(i, {"RESET_R"}) /\ Stores(sp + i.n - 1, Top) /\ Plain

reset_r(i) == Is(i, {"RESET_R"}) /\ Stores(sp + i.n, Top) /\ Plain

SetStackVal(i) ==
    /\ Is(i, {"SET_STACK_VAL"})
    /\ mem' = [mem EXCEPT ![sp + 1 + i.n - 1] = Top]
    /\ sp' = sp + 1 /\ Plain

emit_stack_size_check(i) ==
    /\ Is(i, {"STACK_SIZE16"})
    /\ IF sp < i.n THEN emit_raise("StackOverflow") ELSE UNCHANGED <<mem, sp>> /\ Plain

Tags(i) ==
    \/ Is(i, {"IS_TAGGED"}) /\ Stores(sp, Select(is_tagged(Top))) /\ Plain
    \/ Is(i, {"NOT_BOOLEAN"}) /\ Stores(sp, Select(Top = emit_tag(0))) /\ Plain
    \/ Is(i, {"IS_TAGGED_LOCAL"}) /\ emit_push(Select(is_tagged(emit_peek(i.n)))) /\ Plain

----------------------------------------------------------------------------
(* Arithmetic: x is the top, y the word above sp, the result replaces both.*)
x == Top
y == emit_peek(1)
Result(w) == Stores(sp + 1, w) /\ Plain

(* The product is computed in a machine word; dividing it by one factor    *)
(* must give back the other.                                               *)
Wrapped(n) == signed(n % Modulus)
FitsTag(n) == MIN_TAGGED <= n /\ n <= MAX_TAGGED
NoWrap(ax, ay, product) == ax = 0 \/ Quotient(product, ax) = ay

InRange(op, ax, ay, res) == FitsTag(res) /\ (op = "FIXED_MULT" => NoWrap(ax, ay, res))

fixed_arith(i) ==
    /\ Is(i, {"FIXED_ADD", "FIXED_SUB", "FIXED_MULT"})
    /\ LET ax == emit_untag(x)
           ay == emit_untag(y)
           res == Wrapped(CASE i.op = "FIXED_ADD" -> ax + ay
                            [] i.op = "FIXED_SUB" -> ay - ax
                            [] i.op = "FIXED_MULT" -> ax * ay)
       IN IF InRange(i.op, ax, ay, res) THEN Result(emit_tag(res)) ELSE emit_raise("Overflow")

fixed_divrem(i) ==
    /\ Is(i, {"FIXED_QUOT", "FIXED_REM"})
    /\ LET ax == emit_untag(x)
           ay == emit_untag(y)
       IN IF ax = 0 THEN emit_raise("DivByZero")
          ELSE Result(emit_tag(IF i.op = "FIXED_QUOT" THEN Quotient(ay, ax) ELSE Remainder(ay, ax)))

Masked(w) == ushr(w) % Bits

word_bin(i) ==
    \/ Is(i, {"WORD_ADD"}) /\ Result((y + x - 1) % Modulus)
    \/ Is(i, {"WORD_SUB"}) /\ Result((y - x + 1) % Modulus)
    \/ Is(i, {"WORD_MULT"}) /\ Result((2 * (ushr(x) * ushr(y)) + 1) % Modulus)
    \/ Is(i, {"WORD_AND"}) /\ Result(BitAnd(y, x))
    \/ Is(i, {"WORD_OR"}) /\ Result(BitOr(y, x))
    \/ Is(i, {"WORD_XOR"}) /\ Result(BitOr(BitXor(y, x), 1))
    \/ Is(i, {"WORD_SHIFT_LEFT"}) /\ Result((2 * (ushr(y) * 2^Masked(x)) + 1) % Modulus)
    \/ Is(i, {"WORD_SHIFT_R_LOG"}) /\ Result(2 * (ushr(y) \div 2^Masked(x)) + 1)

word_divmod(i) ==
    /\ Is(i, {"WORD_DIV", "WORD_MOD"})
    /\ IF ushr(x) = 0 THEN emit_raise("DivByZero")
       ELSE Result(2 * (IF i.op = "WORD_DIV" THEN ushr(y) \div ushr(x) ELSE ushr(y) % ushr(x)) + 1)

cmp(i) ==
    \/ Is(i, {"EQUAL_WORD"}) /\ Result(Select(y = x))
    \/ Is(i, {"LESS_SIGNED"}) /\ Result(Select(signed(y) < signed(x)))
    \/ Is(i, {"LESS_UNSIGNED"}) /\ Result(Select(y < x))
    \/ Is(i, {"LESS_EQ_SIGNED"}) /\ Result(Select(signed(y) <= signed(x)))
    \/ Is(i, {"LESS_EQ_UNSIGNED"}) /\ Result(Select(y <= x))
    \/ Is(i, {"GREATER_SIGNED"}) /\ Result(Select(signed(y) > signed(x)))
    \/ Is(i, {"GREATER_UNSIGNED"}) /\ Result(Select(y > x))
    \/ Is(i, {"GREATER_EQ_SIGNED"}) /\ Result(Select(signed(y) >= signed(x)))
    \/ Is(i, {"GREATER_EQ_UNSIGNED"}) /\ Result(Select(y >= x))

----------------------------------------------------------------------------
(* Objects.                                                                *)
load_ml(i) ==
    LET idx == emit_untag(x)
    IN \/ Is(i, {"LOAD_ML_WORD"}) /\ Result(HeapAt(y, idx))
       \/ Is(i, {"LOAD_ML_BYTE"}) /\ Result(emit_tag(ByteOf(heap[-y], idx)))
       \/ Is(i, {"LOAD_UNTAGGED"}) /\ Result(emit_tag(HeapAt(y, idx)))

store_ml(i) ==
    /\ Is(i, {"STORE_ML_WORD", "STORE_UNTAGGED"})
    /\ LET obj == emit_peek(2)
           to_store == IF i.op = "STORE_UNTAGGED" THEN emit_untag(Top) % Modulus ELSE Top
       IN heap' = [heap EXCEPT ![-obj] = WithWord(@, emit_untag(y), to_store)]
    /\ Stores(sp + 2, emit_tag(0))
    /\ edge' = 0 /\ UNCHANGED outcome

cell_intro(i) ==
    \/ Is(i, {"CELL_LENGTH"}) /\ Stores(sp, emit_tag(Len(heap[-Top].words))) /\ Plain
    \/ Is(i, {"CELL_FLAGS"}) /\ Stores(sp, emit_tag(heap[-Top].flags)) /\ Plain

(* polyml_jit_region_alloc; the operands stay on the stack meanwhile.      *)
emit_region_alloc(flags, words, a) ==
    /\ heap' = Append(heap, Object(flags, words))
    /\ Stores(a, -(Len(heap) + 1))
    /\ edge' = 0 /\ UNCHANGED outcome

emit_alloc_tuple(i) ==
    /\ Is(i, {"TUPLE"})
    /\ emit_region_alloc(0, [k \in 1 .. i.n |-> emit_peek(i.n - 1 - (k - 1))], sp + i.n - 1)

emit_alloc_closure(i) ==
    /\ Is(i, {"CLOSURE"})
    /\ emit_region_alloc(F_CLOSURE_OBJ,
           <<HeapAt(emit_peek(i.n), 0)>> \o [j \in 1 .. i.n |-> emit_peek(i.n - j)], sp + i.n)

emit_alloc_ref(i) == Is(i, {"ALLOC_REF"}) /\ emit_region_alloc(F_MUTABLE_BIT, <<Top>>, sp)

emit_alloc_word_memory(i) ==
    /\ Is(i, {"ALLOC_WORD_MEMORY"})
    /\ emit_region_alloc(emit_untag(y), [k \in 1 .. emit_untag(emit_peek(2)) |-> Top], sp + 2)

emit_alloc_byte_mem(i) ==
    /\ Is(i, {"ALLOC_BYTE_MEM"})
    /\ emit_region_alloc(emit_untag(x), [k \in 1 .. emit_untag(y) |-> 0], sp + 1)

Container(i) ==
    /\ Is(i, {"STACK_CONTAINER"})
    /\ LET sp1 == sp - i.n
       IN /\ mem' = [a \in DOMAIN mem |->
                        IF a \in sp1 .. sp - 1 THEN emit_tag(0)
                        ELSE IF a = sp1 - 1 THEN -(ContainerBase + StackLen - sp1) ELSE mem[a]]
          /\ sp' = sp1 - 1
    /\ Plain

----------------------------------------------------------------------------
Branches(drop, take) ==
    sp' = sp + drop /\ edge' = (IF take THEN 1 ELSE 0) /\ UNCHANGED <<mem, heap, outcome>>

cond_jump(i) ==
    \/ Is(i, {"JUMP_FALSE"}) /\ Branches(1, Top = emit_tag(0))
    \/ Is(i, {"JUMP_TRUE"}) /\ Branches(1, Top # emit_tag(0))

neq_local_jump(i) ==
    \/ Is(i, {"JUMP_NEQ_LOCAL"}) /\ Branches(0, emit_peek(i.n) # emit_tag(i.m))
    \/ Is(i, {"JUMP_NEQ_LOCAL_IND"}) /\ Branches(0, HeapAt(emit_peek(i.n), 0) # emit_tag(i.m))

tagged_local_jump(i) == Is(i, {"JUMP_TAGGED_LOCAL"}) /\ Branches(0, is_tagged(emit_peek(i.n)))

\* The activation's frame is above the array here: only the result is kept.
emit_return(i) ==
    /\ Is(i, {"RETURN"})
    /\ Stores(StackLen - 1, Top)
    /\ outcome' = "returned" /\ edge' = 0 /\ UNCHANGED heap

emit_one(i) ==
    \/ push_tagged(i) \/ peek_push(i) \/ indirect(i) \/ indirect_local(i) \/ reset(i)
    \/ reset_r(i) \/ SetStackVal(i) \/ emit_stack_size_check(i) \/ Tags(i) \/ fixed_arith(i)
    \/ fixed_divrem(i) \/ word_bin(i) \/ word_divmod(i) \/ cmp(i) \/ load_ml(i) \/ store_ml(i)
    \/ cell_intro(i) \/ emit_alloc_tuple(i) \/ emit_alloc_closure(i) \/ emit_alloc_ref(i)
    \/ emit_alloc_word_memory(i) \/ emit_alloc_byte_mem(i) \/ Container(i) \/ cond_jump(i)
    \/ neq_local_jump(i) \/ tagged_local_jump(i) \/ emit_return(i) \/ Refuses(i)
=============================================================================
