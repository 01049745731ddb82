------------------------------- MODULE Gates -------------------------------
(***************************************************************************)
(* The promotion gate of autoresearch-runtime and the step from a measured *)
(* lift to integer micro-units. A lift is a float in the code; here its    *)
(* delta and confidence bound are integers that count half micro-units, so *)
(* that rounding is a real step, and a NaN or an infinity is a lift that   *)
(* is not `finite`.                                                        *)
(***************************************************************************)
EXTENDS Integers

CONSTANTS
  MaxMicros,  \* i64::MAX
  Uncapped    \* the ceiling of a gate that has none

ASSUME MaxMicrosAssumption == MaxMicros \in Nat
ASSUME UncappedAssumption == Uncapped \notin Int

MinMicros == -MaxMicros - 1

(* A Lift with the cost and the size of the measurement it rests on. *)
Lift == [finite : BOOLEAN, delta : Int, lower : Int, n : Nat, cost : Nat, size : Nat]

Gate == [minLower : Int, minN : Nat, ceiling : Int \cup {Uncapped}]

Clears(gate, lift) ==
  /\ lift.finite
  /\ lift.n >= gate.minN
  /\ lift.lower >= gate.minLower
  /\ gate.ceiling # Uncapped => lift.size # 0 /\ lift.cost <= gate.ceiling * lift.size

-----------------------------------------------------------------------------
(* What i64::saturating_* and `as i64` do at the ends of the range. *)
Clamp(i) ==
  IF i > MaxMicros THEN MaxMicros ELSE IF i < MinMicros THEN MinMicros ELSE i

(* f64::round: to the nearest integer, halves away from zero. *)
RoundHalves(halves) ==
  IF halves >= 0 THEN (halves + 1) \div 2 ELSE -((1 - halves) \div 2)

ToMicros(lift) == IF lift.finite THEN Clamp(RoundHalves(lift.delta)) ELSE 0

SaturatingSub(a, b) == Clamp(a - b)

=============================================================================
