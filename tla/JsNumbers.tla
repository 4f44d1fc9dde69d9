----------------------------- MODULE JsNumbers -----------------------------
(***************************************************************************)
(* The numbers constant folding computes with: f64 as exact fractions and  *)
(* i32 as integers of IntBits bits.                                        *)
(*                                                                         *)
(* A number is <<n, d>> in lowest terms with d > 0, or with d = 0 one of   *)
(* the infinities <<1, 0>> and <<-1, 0>>, or NaN <<0, 0>>.  There is one   *)
(* zero, and nothing is rounded.                                           *)
(***************************************************************************)
EXTENDS Integers
LOCAL INSTANCE Bitwise

CONSTANT IntBits     \* the width of i32

Whole(i) == <<i, 1>>
NaN == <<0, 0>>

IsInteger(x) == x[2] = 1

LOCAL Magnitude(i) == IF i < 0 THEN -i ELSE i
LOCAL Sign(i) == IF i < 0 THEN -1 ELSE IF i = 0 THEN 0 ELSE 1

RECURSIVE Gcd(_, _)
Gcd(m, n) == IF n = 0 THEN m ELSE Gcd(n, m % n)

(* n / d for d >= 0.                                                       *)
Fraction(n, d) ==
    IF d = 0 THEN <<Sign(n), 0>>
    ELSE LET g == Gcd(Magnitude(n), d) IN <<n \div g, d \div g>>

Negative(x) == <<-x[1], x[2]>>

Sum(x, y) ==
    IF x[2] = 0 /\ y[2] = 0 THEN IF x = y THEN x ELSE NaN
    ELSE Fraction(x[1] * y[2] + y[1] * x[2], x[2] * y[2])

Product(x, y) == Fraction(x[1] * y[1], x[2] * y[2])

Reciprocal(x) == IF x[1] < 0 THEN <<-x[2], -x[1]>> ELSE <<x[2], x[1]>>

Quotient(x, y) == Product(x, Reciprocal(y))

(* Toward zero.                                                            *)
Truncated(x) == Sign(x[1]) * (Magnitude(x[1]) \div x[2])

(* It has the sign of x.                                                   *)
Remainder(x, y) ==
    CASE x[2] = 0 \/ y = NaN \/ y[1] = 0 -> NaN
      [] y[2] = 0 -> x
      [] OTHER -> Sum(x, Negative(Product(y, Whole(Truncated(Quotient(x, y))))))

-----------------------------------------------------------------------------
MaxInt == 2^(IntBits - 1) - 1
Ints == -MaxInt - 1 .. MaxInt

(* The casts to u32 and i32.                                               *)
Unsigned(i) == i % 2^IntBits
Signed(i) == ((i + MaxInt + 1) % 2^IntBits) - MaxInt - 1

BitsAnd(i, j) == Signed(Unsigned(i) & Unsigned(j))
BitsOr(i, j) == Signed(Unsigned(i) | Unsigned(j))
BitsXor(i, j) == Signed(Unsigned(i) ^^ Unsigned(j))

(* By s places, s < IntBits; the right shift of a negative number keeps it *)
(* negative.                                                               *)
ShiftedLeft(i, s) == Signed(i * 2^s)
ShiftedRight(i, s) == i \div 2^s

=============================================================================
