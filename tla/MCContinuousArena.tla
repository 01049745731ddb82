------------------------- MODULE MCContinuousArena -------------------------
EXTENDS ContinuousArena

FirmGate == [minLower |-> 0, minN |-> 2, ceiling |-> 3]

Certified(delta) ==
  [finite |-> TRUE, delta |-> delta, lower |-> 0, n |-> 2, cost |-> 6, size |-> 2]

(* Deltas in half micro-units: 1 and 2 both round to one micro-unit, and the
   outer ones do not fit an i64. *)
CertifiedLifts ==
  {Certified(delta) :
     delta \in {2 * MinMicros - 2, -2, 1, 2, 4, 6, 2 * MaxMicros + 3}}

(* Lifts the gate refuses, each for a reason of its own. *)
RefusedLifts ==
  {[Certified(8) EXCEPT !.finite = FALSE], [Certified(8) EXCEPT !.n = 1],
   [Certified(8) EXCEPT !.lower = -1], [Certified(8) EXCEPT !.cost = 7],
   [Certified(8) EXCEPT !.size = 0]}

AllLifts == CertifiedLifts \cup RefusedLifts

OrdinaryTerms ==
  [streaming : BOOLEAN, epsilon : {-1, 0, 2}, rate : {1, 2},
   pool : {0, 5}, baseline : {-2, 0}]

(* Bounty arenas at the ends of the integer ranges, with pools of u128::MAX. *)
ExtremeTerms ==
  [streaming : {FALSE}, epsilon : {MinMicros, 1, MaxMicros}, rate : {0, 1, 2},
   pool : {MaxWei - 1, MaxWei}, baseline : {MinMicros, 0, MaxMicros}]

AllTerms == OrdinaryTerms \cup ExtremeTerms

=============================================================================
