------------------------------ MODULE Tallies ------------------------------
(***************************************************************************)
(* Sums of amounts, by counting: an amount is that many units, each marked *)
(* with the entry it belongs to, and a sum is the number of units. A sum   *)
(* defined as a cardinality has its laws from those of finite sets, which  *)
(* a fold has only by induction.                                           *)
(***************************************************************************)
EXTENDS Integers, Sequences, FiniteSets

Units(f) == UNION {{x} \X (1..f[x]) : x \in DOMAIN f}

(* The sum of the values of a function into the naturals, or of a sequence. *)
Tally(f) == Cardinality(Units(f))

(* The sum of a sequence, entry after entry. *)
SumOf(seq) ==
  LET sum[n \in 0..Len(seq)] == IF n = 0 THEN 0 ELSE sum[n - 1] + seq[n]
  IN  sum[Len(seq)]

=============================================================================
