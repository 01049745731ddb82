--------------------------- MODULE WeiArithmetic ---------------------------
(***************************************************************************)
(* u128 amounts of wei as the off-chain code adds and multiplies them:     *)
(* saturating at the top of the range, and in basis points of a whole.     *)
(***************************************************************************)
EXTENDS Integers

CONSTANT MaxWei  \* u128::MAX

ASSUME MaxWeiAssumption == MaxWei \in Nat

BpsDenom == 10000

SaturatingAdd(a, b) == IF a + b > MaxWei THEN MaxWei ELSE a + b

SaturatingMul(a, b) == IF a * b > MaxWei THEN MaxWei ELSE a * b

(* value * bps / 10_000. *)
MulBps(value, bps) == SaturatingMul(value, bps) \div BpsDenom

Lesser(a, b) == IF a <= b THEN a ELSE b

=============================================================================
