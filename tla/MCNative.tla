------------------------------ MODULE MCNative ------------------------------
EXTENDS Native

Op(op, n, m) == [op |-> op, n |-> n, m |-> m]
Plain(ops) == {Op(op, 0, 0) : op \in ops}

MCInstrs ==
    Plain({"NOT_BOOLEAN", "IS_TAGGED", "JUMP_FALSE", "JUMP_TRUE", "CELL_LENGTH", "CELL_FLAGS",
           "LOCK", "CLEAR_MUTABLE", "ATOMIC_INCR", "ATOMIC_DECR", "ALLOC_REF", "RETURN", "RAISE_EX"})
    \cup Plain(Binary \cup Ternary \cup Blocks)
    \cup {Op("CONST_INT", n, 0) : n \in {0, 1}}
    \cup {Op("LOCAL", n, 0) : n \in {0, 1, 3}}
    \cup {Op(op, n, 0) : op \in {"RESET", "RESET_R", "TUPLE"}, n \in {1, 2}}
    \cup {Op(op, n, 0) : op \in {"INDIRECT", "IS_TAGGED_LOCAL", "JUMP_TAGGED_LOCAL"}, n \in {0, 1}}
    \cup {Op("INDIRECT_LOCAL", n, n) : n \in {0, 1}}
    \cup {Op("INDIRECT_CLOSURE", n, 0) : n \in {0, 2}}
    \cup {Op("SET_STACK_VAL", n, 0) : n \in {1, 2}}
    \cup {Op("STACK_SIZE16", n, 0) : n \in {2, 9}}
    \cup {Op(op, n, 1) : op \in {"JUMP_NEQ_LOCAL", "JUMP_NEQ_LOCAL_IND"}, n \in {0, 2}}
    \cup {Op("CASE16", 2, 0), Op("CLOSURE", 1, 0), Op("ALLOC_MUT_CLOSURE", 1, 0),
          Op("MOVE_TO_MUT_CLOSURE", 0, 0), Op("STACK_CONTAINER", 2, 0),
          Op("MOVE_TO_CONTAINER", 0, 0), Op("MOVE_TO_CONTAINER", 1, 0), Op("INDIRECT_CONTAINER", 1, 0)}

\* -1 is a mutable object of words, -2 a closure, -3 a mutable object of bytes.
Tag(n) == (2 * n + 1) % 2^Bits
MCObjects == <<[flags |-> 4, words |-> <<Tag(2), -2>>],
               [flags |-> 3, words |-> <<Tag(0), Tag(1)>>],
               [flags |-> 5, words |-> <<5 * 16 + 3, 9 * 16 + 12>>]>>

Numbers8 == {Tag(n) : n \in {-64, -63, -1, 0, 1, 2, 63}}
MCStacks ==
    {<<a, b, -1>> : a, b \in Numbers8}
    \cup {<<a, Tag(k), p>> : a \in {Tag(0), Tag(3), -2}, k \in {0, 1}, p \in {-1, -2, -3}}
    \cup {<<p, Tag(1), Tag(2)>> : p \in {-1, -2, -3}}
    \cup {<<Tag(n), Tag(j), p, Tag(k), q>> : n \in {0, 1, 2}, j, k \in {0, 1}, p, q \in {-1, -3}}
=============================================================================
