------------------------------ MODULE BinaryFloat ------------------------------
(***************************************************************************)
(* The binary floating-point numbers the program computes with, at a small *)
(* precision: rounding to the nearest with ties to even, gradual underflow *)
(* and overflow.  A number is an integer count of the smallest subnormal.  *)
(* The code asks of a result that is not finite only that, so one value,   *)
(* Infinity, stands for both infinities and for the results of operations  *)
(* on them.                                                                *)
(***************************************************************************)
EXTENDS Integers, FiniteSetsExt

CONSTANTS
  Half,     \* the smallest normal number: the precision is that of 2 * Half
  One,      \* how many units 1.0 is
  Largest,  \* the greatest finite number
  Powers    \* the powers of two below every intermediate result

ASSUME FloatAssumption ==
  /\ Half \in Powers /\ One \in Powers /\ 1 \in Powers
  /\ \A s \in Powers :
       /\ s \in Nat \ {0}
       /\ s = 1 \/ (2 * (s \div 2) = s /\ s \div 2 \in Powers)
  /\ Largest \in Nat /\ Largest >= One

Infinity == 2 * Largest

Finite(x) == x # Infinity

Magnitude(n) == IF n < 0 THEN -n ELSE n

Signed(n, magnitude) ==
  IF magnitude > Largest THEN Infinity
  ELSE IF n < 0 THEN -magnitude ELSE magnitude

(* The distance of neighbours next to n / d.                                *)
Spacing(n, d) ==
  Max({1} \cup {s \in Powers : s * Half * d <= Magnitude(n)})

(* The number nearest to n / d units, the even one of two.                  *)
Round(n, d) ==
  LET s == Spacing(n, d)
      q == Magnitude(n) \div (s * d)
      twice == 2 * (Magnitude(n) % (s * d))
      up == twice > s * d \/ (twice = s * d /\ q % 2 = 1)
  IN  Signed(n, s * (IF up THEN q + 1 ELSE q))

Add(x, y) == IF Finite(x) /\ Finite(y) THEN Round(x + y, 1) ELSE Infinity

Sub(x, y) == IF Finite(x) /\ Finite(y) THEN Round(x - y, 1) ELSE Infinity

Mul(x, y) == IF Finite(x) /\ Finite(y) THEN Round(x * y, One) ELSE Infinity

Div(x, y) ==
  IF Finite(x) /\ Finite(y) /\ y # 0
    THEN IF y < 0 THEN Round(-x * One, -y) ELSE Round(x * One, y)
    ELSE Infinity

(* The root of x >= 0: the last number not above it, or the next.           *)
SquareRoot(x) ==
  LET square == x * One
      s == Max({1} \cup {p \in Powers : p <= Largest
                                       /\ p * p * Half * Half <= square})
      q == Max({k \in 0 .. 2 * Half - 1 : k * s * k * s <= square})
      twice == (2 * q + 1) * s
      up == 4 * square > twice * twice
            \/ (4 * square = twice * twice /\ q % 2 = 1)
  IN  s * (IF up THEN q + 1 ELSE q)

Sqrt(x) == IF Finite(x) THEN SquareRoot(x) ELSE Infinity

(* A count as a number.                                                     *)
Real(n) == Round(n * One, 1)

(* parse.c refuses the decimal of a subnormal: strtod reports a range error.*)
Readable(x) == x = 0 \/ Magnitude(x) >= Half
=============================================================================
