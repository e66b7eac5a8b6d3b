------------------------------ MODULE Numbers ------------------------------
(***************************************************************************)
(* The numbers of SML that do not fit in a word: IntInf values, which are  *)
(* tagged while they fit and otherwise a byte object with a magnitude and  *)
(* a sign flag, and large words, which are always boxed.  Two registers    *)
(* hold the operands of the run-time system's arithmetic; beside each word *)
(* stands the number that the program means by it.  The words have Bits    *)
(* bits, and a digit of a magnitude is a word.                             *)
(***************************************************************************)
EXTENDS Words

CONSTANTS Seeds,    \* tagged values that a program starts from
          Limit,    \* bound: the magnitude of a number
          MaxShift, \* bound: the places of a shift
          MaxSteps  \* bound: operations in a row

ASSUME NumberBounds == Seeds \subseteq MIN_TAGGED .. MAX_TAGGED /\ Limit \in Nat

VARIABLES x, y,     \* a word and what it stands for: [word, exact]
          order,    \* the last verdict of a comparison, with what was compared
          steps

vars == <<x, y, order, steps>>

----------------------------------------------------------------------------
(* num_bigint's and num_integer's operations are the mathematical ones.    *)
Magnitude(n) == IF n < 0 THEN -n ELSE n
SignedWidth == 4 * Limit
Complement(n) == n % SignedWidth
Numeral(m) == IF m >= SignedWidth \div 2 THEN m - SignedWidth ELSE m
Divides(d, n) == n % d = 0
Gcd(a, b) == IF a = 0 /\ b = 0 THEN 0
             ELSE Max({d \in 1 .. Max({Magnitude(a), Magnitude(b)}) : Divides(d, a) /\ Divides(d, b)})
Lcm(a, b) == IF a = 0 \/ b = 0 THEN 0 ELSE (a \div Gcd(a, b)) * b

BigInt(op, a, b) ==
    CASE op = "add" -> a + b
      [] op = "subtract" -> a - b
      [] op = "multiply" -> a * b
      [] op = "divide" -> Quotient(a, b)
      [] op = "remainder" -> Remainder(a, b)
      [] op = "and" -> Numeral(BitAnd(Complement(a), Complement(b)))
      [] op = "or" -> Numeral(BitOr(Complement(a), Complement(b)))
      [] op = "xor" -> Numeral(BitXor(Complement(a), Complement(b)))
      [] op = "gcd" -> Gcd(a, b)
      [] op = "lcm" -> Lcm(a, b)
      [] op = "shift left" -> a * 2^b
      [] op = "shift right" -> a \div 2^b

----------------------------------------------------------------------------
(* The representation.                                                     *)
Tagged(n) == [kind |-> "tagged", bits |-> tagged(n), neg |-> FALSE, digits |-> <<>>]
TaggedBits(b) == [kind |-> "tagged", bits |-> b, neg |-> FALSE, digits |-> <<>>]
Boxed(neg, digits) == [kind |-> "boxed", bits |-> 0, neg |-> neg, digits |-> digits]
Large(b) == [kind |-> "large", bits |-> b % Modulus, neg |-> FALSE, digits |-> <<>>]
IsTagged(w) == w.kind = "tagged"
fits_tagged(n) == MIN_TAGGED <= n /\ n <= MAX_TAGGED

Digits(m) == IF m < Modulus THEN <<m>> ELSE <<m % Modulus, m \div Modulus>>
Sum2(d) == d[1] + (IF Len(d) = 2 THEN Modulus * d[2] ELSE 0)

poly_word_to_bigint(w) ==
    IF IsTagged(w) THEN untag(w.bits)
    ELSE IF w.neg THEN -Sum2(w.digits) ELSE Sum2(w.digits)

\* Mutant of bigint_to_poly_word: what does not fit positively is boxed.
bigint_to_poly_word_Symmetric(n) ==
    IF Magnitude(n) <= MAX_TAGGED THEN Tagged(n) ELSE Boxed(n < 0, Digits(Magnitude(n)))

bigint_to_poly_word(n) ==
    IF fits_tagged(n) THEN Tagged(n) ELSE Boxed(n < 0, Digits(Magnitude(n)))

----------------------------------------------------------------------------
(* The fast paths on two tagged words; None is the way to num_bigint.      *)
None == [kind |-> "none", bits |-> 0, neg |-> FALSE, digits |-> <<>>]
IfItFits(n) == IF fits_tagged(n) THEN Tagged(n) ELSE None

\* Mutant of Overflows: the one quotient that does not fit is not thought of.
Overflows_Never(dvd, dvdr) == FALSE

Overflows(dvd, dvdr) == dvd = MIN_TAGGED /\ dvdr = -1

\* (orig_a / g).checked_mul(orig_b), kept if it is not above isize::MAX.
LcmMagnitude(a, b) == (Magnitude(a) \div Gcd(a, b)) * Magnitude(b)
FastLcm(a, b) ==
    IF a = 0 \/ b = 0 THEN Tagged(0)
    ELSE IF LcmMagnitude(a, b) >= Modulus \div 2 THEN None
    ELSE IfItFits(IF (a < 0) # (b < 0) THEN -LcmMagnitude(a, b) ELSE LcmMagnitude(a, b))

Fast(op, v, w) ==
    LET a == untag(v)
        b == untag(w)
    IN CASE op \in {"add", "subtract", "multiply"} -> IfItFits(BigInt(op, a, b))
         [] op = "divide" -> IF Overflows(a, b) THEN None ELSE Tagged(Quotient(a, b))
         [] op = "remainder" -> IF Overflows(a, b) THEN None ELSE Tagged(Remainder(a, b))
         [] op = "and" -> TaggedBits(BitAnd(v, w))
         [] op = "or" -> TaggedBits(BitOr(v, w))
         [] op = "xor" -> TaggedBits(BitOr(BitXor(v, w), 1))
         [] op = "gcd" -> IfItFits(Gcd(a, b))
         [] op = "lcm" -> FastLcm(a, b)

Slow(op, v, w) == bigint_to_poly_word(BigInt(op, poly_word_to_bigint(v), poly_word_to_bigint(w)))

arb_binop(op, v, w) ==
    IF IsTagged(v) /\ IsTagged(w) /\ Fast(op, v.bits, w.bits) # None
    THEN Fast(op, v.bits, w.bits) ELSE Slow(op, v, w)

----------------------------------------------------------------------------
Reg(word, exact) == [word |-> word, exact |-> exact]
Loaded(n) == Reg(Tagged(n), n)
IsInteger(r) == r.word.kind # "large"
Small(n) == Magnitude(n) <= Limit

Took(left) == steps < MaxSteps /\ steps' = steps + 1 /\ left
Keeps(r) == y' = r /\ UNCHANGED order

Load == \E n \in Seeds : x' = Loaded(n) /\ Took(TRUE) /\ Keeps(x)

(* Poly*Arbitrary and the interpreter's ARB_ADD, ARB_SUBTRACT and          *)
(* ARB_MULTIPLY.                                                           *)
BinOps == {"add", "subtract", "multiply", "and", "or", "xor", "gcd"}
DivOps == {"divide", "remainder", "lcm"}

Arithmetic ==
    \E op \in BinOps :
       /\ Took(IsInteger(x) /\ IsInteger(y))
       /\ Small(BigInt(op, x.exact, y.exact))
       /\ x' = Reg(arb_binop(op, x.word, y.word), BigInt(op, x.exact, y.exact))
       /\ Keeps(x)

(* A zero divisor raises Div, and so does lcm of two tagged zeros.         *)
Division ==
    \E op \in DivOps :
       /\ Took(IsInteger(x) /\ IsInteger(y))
       /\ y.exact # 0 \/ (op = "lcm" /\ x.exact # 0)
       /\ op = "lcm" => Small(Lcm(x.exact, y.exact))
       /\ x' = Reg(arb_binop(op, x.word, y.word), BigInt(op, x.exact, y.exact))
       /\ Keeps(x)

poly_quot_rem_arbitrary_pair ==
    /\ Took(IsInteger(x) /\ IsInteger(y)) /\ y.exact # 0
    /\ x' = Reg(arb_binop("divide", x.word, y.word), Quotient(x.exact, y.exact))
    /\ y' = Reg(arb_binop("remainder", x.word, y.word), Remainder(x.exact, y.exact))
    /\ UNCHANGED order

Shifted(op, r, by) ==
    IF by <= 0 THEN r
    ELSE Reg(Slow(op, r.word, Tagged(by)), BigInt(op, r.exact, by))

Shifts ==
    \E op \in {"shift left", "shift right"} :
       /\ Took(IsInteger(x) /\ IsTagged(y.word)) /\ y.exact \in 0 .. MaxShift
       /\ Small(BigInt(op, x.exact, y.exact))
       /\ x' = Shifted(op, x, untag(y.word.bits))
       /\ Keeps(x)

\* Mutant of Verdict: two boxed numbers are compared by their magnitudes.
Verdict_Unsigned(v, w) ==
    LET a == IF IsTagged(v) THEN untag(v.bits) ELSE Sum2(v.digits)
        b == IF IsTagged(w) THEN untag(w.bits) ELSE Sum2(w.digits)
    IN IF a < b THEN -1 ELSE IF a = b THEN 0 ELSE 1

Verdict(v, w) ==
    LET a == poly_word_to_bigint(v)
        b == poly_word_to_bigint(w)
    IN IF v = w THEN 0 ELSE IF a < b THEN -1 ELSE IF a = b THEN 0 ELSE 1

poly_compare_arbitrary ==
    /\ Took(IsInteger(x) /\ IsInteger(y))
    /\ order' = [left |-> x.exact, right |-> y.exact, verdict |-> Verdict(x.word, y.word)]
    /\ UNCHANGED <<x, y>>

----------------------------------------------------------------------------
(* Large words.                                                            *)
Residue(n) == n % Modulus

LowOrder(w) == IF IsTagged(w) THEN untag(w.bits) ELSE IF w.neg THEN -w.digits[1] ELSE w.digits[1]

ToLarge ==
    /\ Took(IsInteger(x))
    /\ \/ x' = Reg(Large(LowOrder(x.word)), Residue(x.exact))
       \/ IsTagged(x.word) /\ x' = Reg(Large(untag(x.word.bits)), Residue(x.exact))
       \/ /\ IsTagged(x.word)                 \* UNSIGNED_TO_LONG_W: a word's value
          /\ x' = Reg(Large(x.word.bits \div 2), x.exact % (Modulus \div 2))
    /\ Keeps(x)

(* LONG_W_TO_TAGGED drops the top bit: a default word, then an integer.    *)
HalfSigned(n) == LET m == n % (Modulus \div 2)
                 IN IF m > MAX_TAGGED THEN m - Modulus \div 2 ELSE m
ToTagged == /\ Took(~IsInteger(x))
            /\ x' = Reg(Tagged(signed(x.word.bits)), HalfSigned(x.exact))
            /\ Keeps(x)

LargeResult(op, a, b) ==
    CASE op = "add" -> a + b [] op = "subtract" -> a - b [] op = "multiply" -> a * b
      [] op = "div" -> IF b = 0 THEN 0 ELSE a \div b
      [] op = "mod" -> IF b = 0 THEN 0 ELSE a % b
      [] op = "and" -> BitAnd(a, b) [] op = "or" -> BitOr(a, b) [] op = "xor" -> BitXor(a, b)
LargeOps == {"add", "subtract", "multiply", "div", "mod", "and", "or", "xor"}

LargeArithmetic ==
    \E op \in LargeOps :
       /\ Took(~IsInteger(x) /\ ~IsInteger(y))
       /\ x' = Reg(Large(LargeResult(op, x.word.bits, y.word.bits)),
                   Residue(LargeResult(op, x.exact, y.exact)))
       /\ Keeps(x)

(* The amount of a shift is a tagged word, and counts modulo the width.    *)
Places(w) == untag(w.bits) % Bits
LargeShifts ==
    /\ Took(~IsInteger(x) /\ IsTagged(y.word)) /\ y.exact \in 0 .. Bits - 1
    /\ \/ x' = Reg(Large(x.word.bits * 2^Places(y.word)), Residue(x.exact * 2^y.exact))
       \/ x' = Reg(Large(x.word.bits \div 2^Places(y.word)), x.exact \div 2^y.exact)
       \/ x' = Reg(Large(signed(x.word.bits) \div 2^Places(y.word)),
                   Residue(signed(x.exact) \div 2^y.exact))
    /\ Keeps(x)

Init == /\ x \in {Loaded(n) : n \in Seeds} /\ y \in {Loaded(n) : n \in Seeds}
        /\ order = [left |-> 0, right |-> 0, verdict |-> 0] /\ steps = 0

Next == \/ Load \/ Arithmetic \/ Division \/ poly_quot_rem_arbitrary_pair
        \/ Shifts \/ poly_compare_arbitrary
        \/ ToLarge \/ ToTagged \/ LargeArithmetic \/ LargeShifts

Spec == Init /\ [][Next]_vars

----------------------------------------------------------------------------
Value(w) == IF w.kind = "large" THEN w.bits ELSE poly_word_to_bigint(w)

(* Through any sequence of operations, tagged or boxed, fast path or slow, *)
(* a word stands for the number that the program means: the carry into a   *)
(* box at the edges of the tagged range, the sign of a remainder, of an    *)
(* lcm and of a right shift, the low word of a negative number (arb_binop, *)
(* poly_*_arbitrary, poly_get_low_order_as_large_word).  And the number    *)
(* has no other word: it is boxed only when no tagged word holds it, and   *)
(* its magnitude has no leading zero word, as the comparison of words for  *)
(* equality and the fast paths rely on (bigint_to_poly_word).              *)
RepresentsExactly ==
    \A r \in {x, y} :
       /\ Value(r.word) = r.exact
       /\ r.word.kind = "boxed" => ~fits_tagged(r.exact) /\ Last(r.word.digits) # 0

(* The verdict of the last comparison is that of the numbers, whichever of *)
(* the two are boxed and whatever their signs (poly_compare_arbitrary).    *)
ComparesNumbers ==
    order.verdict = IF order.left < order.right THEN -1
                    ELSE IF order.left > order.right THEN 1 ELSE 0
=============================================================================
