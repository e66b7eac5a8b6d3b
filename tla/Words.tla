------------------------------- MODULE Words -------------------------------
(***************************************************************************)
(* PolyWord and the length word.  A word is a number below 2^Bits, an odd  *)
(* one being a tagged integer; the address of the k-th heap object is -k,  *)
(* so that a pointer is never mistaken for a number.  The code's 64 bits   *)
(* and 8-bit bytes are the constants Bits and ByteBits.                    *)
(***************************************************************************)
EXTENDS Integers, Sequences, FiniteSetsExt, SequencesExt
LOCAL INSTANCE Bitwise

CONSTANTS Bits, ByteBits

ASSUME WordWidths == Bits \in Nat /\ ByteBits \in Nat \ {0} /\ Bits % ByteBits = 0

Modulus == 2^Bits
Byte == 2^ByteBits
WordBytes == Bits \div ByteBits
MAX_TAGGED == 2^(Bits - 2) - 1
MIN_TAGGED == -(2^(Bits - 2))

tagged(n) == (2 * n + 1) % Modulus
is_tagged(w) == w >= 0 /\ w % 2 = 1
is_data_ptr(w) == w < 0
signed(w) == IF w >= Modulus \div 2 THEN w - Modulus ELSE w
untag(w) == signed(w) \div 2              \* an arithmetic shift right
Boolean(b) == tagged(IF b THEN 1 ELSE 0)

(* Truncating division and remainder of the machine; TLA+ rounds down.     *)
LOCAL Abs(n) == IF n < 0 THEN -n ELSE n
Quotient(y, x) == LET q == Abs(y) \div Abs(x) IN IF (y < 0) = (x < 0) THEN q ELSE -q
Remainder(y, x) == y - x * Quotient(y, x)

BitAnd(a, b) == a & b
BitOr(a, b) == a | b
BitXor(a, b) == a ^^ b

(* Flags of a length word; the mutable bit is 0x40 in the code's byte.     *)
F_BYTE_OBJ == 1
F_CLOSURE_OBJ == 3
F_MUTABLE_BIT == 4

IsMutable(flags) == flags % (2 * F_MUTABLE_BIT) >= F_MUTABLE_BIT
Locked(flags) == IF IsMutable(flags) THEN flags - F_MUTABLE_BIT ELSE flags

(* A heap object: its flags and its words.  Byte j of it is a digit of     *)
(* word j \div WordBytes, the least significant first.                     *)
Object(flags, words) == [flags |-> flags, words |-> words]
Word(o, i) == o.words[i + 1]
Digit(j) == Byte^(j % WordBytes)
ByteOf(o, j) == (o.words[j \div WordBytes + 1] \div Digit(j)) % Byte
WithWord(o, i, w) == [o EXCEPT !.words[i + 1] = w]
WithByte(o, j, b) ==
    [o EXCEPT !.words[j \div WordBytes + 1] = @ + (b - ByteOf(o, j)) * Digit(j)]
Bytes(o, from, n) == [k \in 1 .. n |-> ByteOf(o, from + k - 1)]
=============================================================================
