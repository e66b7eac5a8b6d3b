------------------------------ MODULE Effects ------------------------------
(***************************************************************************)
(* The translator's own tables of what an instruction does to the height   *)
(* of the stack: Takes and Delta of the depth scan (scan_one_opcode), and  *)
(* the pops, pushes and peeks by which infer_arg_count counts arguments.   *)
(***************************************************************************)
EXTENDS Integers, FiniteSetsExt

Pushing == {"CONST_INT", "LOCAL", "INDIRECT_LOCAL", "INDIRECT_CLOSURE", "IS_TAGGED_LOCAL",
            "PUSH_HANDLER", "SET_HANDLER"}
InPlace == {"INDIRECT", "CELL_LENGTH", "CELL_FLAGS", "LOCK", "CLEAR_MUTABLE", "ALLOC_REF",
            "ALLOC_MUT_CLOSURE", "NOT_BOOLEAN", "IS_TAGGED", "INDIRECT_CONTAINER"}
Binary == {"FIXED_ADD", "FIXED_SUB", "FIXED_MULT", "FIXED_QUOT", "FIXED_REM", "WORD_ADD",
           "WORD_SUB", "WORD_MULT", "WORD_DIV", "WORD_MOD", "WORD_AND", "WORD_OR", "WORD_XOR",
           "WORD_SHIFT_LEFT", "WORD_SHIFT_R_LOG", "EQUAL_WORD", "LESS_SIGNED", "LESS_UNSIGNED",
           "LESS_EQ_SIGNED", "LESS_EQ_UNSIGNED", "GREATER_SIGNED", "GREATER_UNSIGNED",
           "GREATER_EQ_SIGNED", "GREATER_EQ_UNSIGNED", "LOAD_ML_WORD", "LOAD_ML_BYTE",
           "LOAD_UNTAGGED", "ALLOC_BYTE_MEM"}
Ternary == {"STORE_ML_WORD", "STORE_ML_BYTE", "STORE_UNTAGGED", "ALLOC_WORD_MEMORY"}
Blocks == {"BLOCK_MOVE_WORD", "BLOCK_MOVE_BYTE", "BLOCK_EQUAL_BYTE", "BLOCK_COMPARE_BYTE"}
LocalReads == {"LOCAL", "INDIRECT_LOCAL", "INDIRECT_CLOSURE", "IS_TAGGED_LOCAL",
               "JUMP_TAGGED_LOCAL", "JUMP_NEQ_LOCAL", "JUMP_NEQ_LOCAL_IND"}
Branching == {"JUMP_FALSE", "JUMP_TRUE", "CASE16"}
Leaving == {"RETURN", "RAISE_EX"}

----------------------------------------------------------------------------
(* scan_one_opcode: an Underflow below Takes, otherwise the depth changes  *)
(* by Delta.                                                               *)
Takes(i) ==
    CASE i.op \in LocalReads -> i.n + 1
      [] i.op \in InPlace \cup Branching \cup Leaving -> 1
      [] i.op \in {"SET_STACK_VAL", "DELETE_HANDLER"} -> 1
      [] i.op \in Binary \cup {"MOVE_TO_CONTAINER", "MOVE_TO_MUT_CLOSURE"} -> 2
      [] i.op \in Ternary -> 3
      [] i.op \in Blocks -> 5
      [] i.op \in {"RESET", "TUPLE"} -> i.n
      [] i.op \in {"RESET_R", "CLOSURE", "CALL_FAST_RTS", "CALL_LOCAL_B"} -> i.n + 1
      [] OTHER -> 0

\* Mutant of CaptureDelta: the code under the captures is not replaced.
CaptureDelta_KeepsCode(n) == 1 - n

CaptureDelta(n) == -n

Delta(i) ==
    CASE i.op \in Pushing -> 1
      [] i.op \in Binary \cup Branching
                 \cup {"MOVE_TO_CONTAINER", "MOVE_TO_MUT_CLOSURE", "SET_STACK_VAL", "DELETE_HANDLER"} -> -1
      [] i.op \in Ternary -> -2
      [] i.op \in Blocks -> -4
      [] i.op = "STACK_CONTAINER" -> i.n + 1
      [] i.op = "CLOSURE" -> CaptureDelta(i.n)
      [] i.op \in {"RESET", "RESET_R", "CALL_FAST_RTS"} -> -i.n
      [] i.op \in {"TUPLE", "CALL_LOCAL_B"} -> 1 - i.n
      [] OTHER -> 0

----------------------------------------------------------------------------
(* infer_arg_count: words below the entry's height count as arguments.     *)
Effect(pop, push, peek) == [pop |-> pop, push |-> push, peek |-> peek]

Inferred(i) ==
    CASE i.op \in LocalReads \ {"JUMP_TAGGED_LOCAL", "JUMP_NEQ_LOCAL", "JUMP_NEQ_LOCAL_IND"}
                -> Effect(0, 1, i.n + 1)
      [] i.op \in {"JUMP_TAGGED_LOCAL", "JUMP_NEQ_LOCAL", "JUMP_NEQ_LOCAL_IND"} -> Effect(0, 0, i.n + 1)
      [] i.op \in Pushing \ LocalReads -> Effect(0, 1, 0)
      [] i.op \in {"LOCK", "CLEAR_MUTABLE", "CELL_FLAGS", "ALLOC_MUT_CLOSURE"} -> Effect(0, 0, 1)
      [] i.op \in InPlace \ {"LOCK", "CLEAR_MUTABLE", "CELL_FLAGS", "ALLOC_MUT_CLOSURE"} -> Effect(1, 1, 0)
      [] i.op \in Binary -> Effect(2, 1, 0)
      [] i.op \in Ternary -> Effect(3, 1, 0)
      [] i.op \in Blocks -> Effect(5, 1, 0)
      [] i.op = "STACK_CONTAINER" -> Effect(0, i.n + 1, 0)
      [] i.op = "MOVE_TO_CONTAINER" -> Effect(1, 0, 1)
      [] i.op = "MOVE_TO_MUT_CLOSURE" -> Effect(1, 0, 2)
      [] i.op \in Branching \cup {"SET_STACK_VAL", "DELETE_HANDLER"} -> Effect(1, 0, 0)
      [] i.op = "RESET" -> Effect(i.n, 0, 0)
      [] i.op \in {"RESET_R", "CLOSURE", "CALL_FAST_RTS"} -> Effect(i.n + 1, 1, 0)
      [] i.op = "TUPLE" -> Effect(i.n, 1, 0)
      [] i.op = "CALL_LOCAL_B" -> Effect(i.n, 1, i.n + 1)
      [] OTHER -> Effect(0, 0, 0)

\* The pair of the depth relative to the entry and the least depth so far.
InferStep(i, depth, min_depth) ==
    LET e == Inferred(i)
        popped == depth - e.pop
    IN [depth |-> popped + e.push,
        min_depth |-> Min({min_depth, popped} \cup (IF depth < e.peek THEN {depth - e.peek} ELSE {}))]
=============================================================================
