------------------------------- MODULE Fixed --------------------------------
(***************************************************************************)
(* The fixed-point numbers and vectors of the simulation (fixed.go,        *)
(* vec2.go): integers of Width bits, the lower Shift of them the fraction; *)
(* 32 and 16 in the code.  A result too large for Width bits wraps around. *)
(***************************************************************************)
EXTENDS Integers

CONSTANTS Width, Shift

ASSUME FixedAssumption == Width \in Nat /\ Shift \in Nat /\ Shift < Width

\* 1 << k
Pow2[k \in 0..Width] == IF k = 0 THEN 1 ELSE 2 * Pow2[k - 1]

One == Pow2[Shift]
Eps == 1
Largest == Pow2[Width - 1] - 1

\* The conversion of an integer to Fix32.
Wrap(v) == ((v + Pow2[Width - 1]) % Pow2[Width]) - Pow2[Width - 1]

FromInt(v) == Wrap(v * One)
Add(a, b) == Wrap(a + b)
Sub(a, b) == Wrap(a - b)

\* The product has twice the bits before it is shifted, which rounds down.
Mul(a, b) == Wrap((a * b) \div One)

\* Go's division rounds towards zero.
Quotient(n, d) ==
  IF (n >= 0) = (d > 0) THEN n \div d
  ELSE -((IF n < 0 THEN -n ELSE n) \div (IF d < 0 THEN -d ELSE d))
Div(a, b) == Wrap(Quotient(a * One, b))

Clamp(a, lo, hi) == IF a < lo THEN lo ELSE IF a > hi THEN hi ELSE a

\* Mutant: a root that is exact is not taken.
SqrtBelow(a) ==
  LET result[k \in 0..(Width - 1)] ==
        IF k = 0 THEN 0
        ELSE LET trial == result[k - 1] + Pow2[Width - 1 - k]
             IN  IF trial * trial < a * One THEN trial ELSE result[k - 1]
  IN  IF a <= 0 THEN 0 ELSE result[Width - 1]

\* The largest r with r * r at most a, both scaled: the k-th turn of the loop
\* tries the k-th bit from above.
Sqrt(a) ==
  LET result[k \in 0..(Width - 1)] ==
        IF k = 0 THEN 0
        ELSE LET trial == result[k - 1] + Pow2[Width - 1 - k]
             IN  IF trial * trial <= a * One THEN trial ELSE result[k - 1]
  IN  IF a <= 0 THEN 0 ELSE result[Width - 1]
-----------------------------------------------------------------------------
Place == [x : Int, y : Int]
V(x, y) == [x |-> x, y |-> y]
VAdd(v, w) == V(Add(v.x, w.x), Add(v.y, w.y))
VSub(v, w) == V(Sub(v.x, w.x), Sub(v.y, w.y))
Scale(v, s) == V(Mul(v.x, s), Mul(v.y, s))
LenSq(v) == Add(Mul(v.x, v.x), Mul(v.y, v.y))
DistSq(v, w) == LenSq(VSub(v, w))

\* Mutant: the ratio of step and distance is cut to an integer.
MoveTowardInt(from, to, dist) ==
  LET diff == VSub(to, from)
  IN  IF LenSq(diff) <= Mul(dist, dist) THEN to
      ELSE VAdd(from, Scale(diff, FromInt(Quotient(dist, Sqrt(LenSq(diff))))))

MoveToward(from, to, dist) ==
  LET diff == VSub(to, from)
  IN  IF LenSq(diff) <= Mul(dist, dist) THEN to
      ELSE VAdd(from, Scale(diff, Div(dist, Sqrt(LenSq(diff)))))
=============================================================================
