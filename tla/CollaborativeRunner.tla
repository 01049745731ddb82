------------------------ MODULE CollaborativeRunner ------------------------
(***************************************************************************)
(* The collaborative runner (autoresearch-protocol's collaborative.rs):    *)
(* contributors' deltas are folded into one shared artifact in an order    *)
(* derived from the deltas, each is credited with what it added to the     *)
(* held-out lift, and a pool is split by that credit if the final artifact *)
(* clears the gate. A score may be infinite or not a number.               *)
(***************************************************************************)
EXTENDS RewardSchedules, Tallies

CONSTANTS
  Contributors,   \* in the order of their ids
  Contributions,  \* [contributor, ref] records; refs in string order
  RefHash(_),     \* fnv1a_64 of a delta_ref
  TheGate,        \* the competition's gate
  Surfaces,       \* bound: the held-out lift of each set of folded deltas
  Measurements,   \* bound: how well the scorer measures each set of them
  Pools,          \* bound: reward_pool_wei
  Infinite,       \* f64::INFINITY
  NotANumber      \* f64::NAN

ASSUME CollaborativeAssumption ==
  /\ Contributors \subseteq Nat
  /\ Contributions \subseteq [contributor : Contributors, ref : Nat]
  /\ IsFiniteSet(Contributions)
  /\ \A c \in Contributions : RefHash(c.ref) \in Nat
  /\ TheGate \in Gate
  /\ \A lift \in Surfaces :
       /\ lift \in [SUBSET Contributions -> Int \cup {Infinite, NotANumber}]
       /\ lift[{}] = 0
  /\ Measurements \subseteq
       [SUBSET Contributions -> [half : Nat \cup {Infinite}, n : Nat, cost : Nat]]
  /\ Pools \subseteq 0..MaxWei
  /\ Infinite \notin Int
  /\ NotANumber \notin Int

VARIABLES
  surface, pool,  \* what is contributed to, and for how much
  measured,       \* the scorer's evidence for each set of folded deltas
  callerOrder,    \* the contributions as the caller lists them
  toFold,         \* those not folded yet, in the canonical order
  shared,         \* the deltas the shared artifact is made of
  lastLift,       \* the lift of the last accepted fold
  marginals,      \* contribution -> the lift it is credited with
  stage, shares, payouts

config == <<surface, pool, measured, callerOrder>>
collaborativeVars ==
  <<config, toFold, shared, lastLift, marginals, stage, shares, payouts>>

-----------------------------------------------------------------------------
(* canonical_fold_key, compared. *)
FoldsBefore(c, d) ==
  LET key(x) == <<RefHash(x.ref), x.ref, x.contributor>>
  IN  \E i \in 1..3 : /\ key(c)[i] < key(d)[i]
                      /\ \A j \in 1..(i - 1) : key(c)[j] = key(d)[j]

(* Mutant of FoldOrders: contributions are folded as the caller lists them. *)
AsListed(listed) == {listed}

(* What sorting makes of the list: as no two keys are equal, one sequence. *)
FoldOrders(listed) ==
  {order \in SetToSeqs(ToSet(listed)) :
     \A i, j \in DOMAIN order : i < j => FoldsBefore(order[i], order[j])}

Init ==
  /\ surface \in Surfaces
  /\ pool \in Pools
  /\ measured \in Measurements
  /\ callerOrder \in SetToSeqs(Contributions)
  /\ toFold \in FoldOrders(callerOrder)
  /\ shared = {}
  /\ lastLift = 0
  /\ marginals = [c \in Contributions |-> 0]
  /\ stage = "folding"
  /\ shares = [c \in Contributions |-> 0]
  /\ payouts = <<>>

-----------------------------------------------------------------------------
Finite(lift) == lift \notin {Infinite, NotANumber}

(* `new - old > 0` in floats: an infinite score improves on a finite one. *)
Improves(new, old) ==
  IF Finite(new) THEN Finite(old) /\ new > old
  ELSE new = Infinite /\ Finite(old)

(* Only called where the new lift improves on the old, finite one. *)
Gained(new, old) == IF Finite(new) THEN new - old ELSE Infinite

FoldedWith(c) == surface[shared \cup {c}]

Accept(c) ==
  /\ Improves(FoldedWith(c), lastLift)
  /\ shared' = shared \cup {c}
  /\ marginals' = [marginals EXCEPT ![c] = Gained(FoldedWith(c), lastLift)]
  /\ lastLift' = FoldedWith(c)

(* Mutant of Reject: the fold of a rejected delta is not rolled back. *)
RejectInPlace(c) ==
  /\ ~Improves(FoldedWith(c), lastLift)
  /\ shared' = shared \cup {c}
  /\ UNCHANGED <<marginals, lastLift>>

Reject(c) ==
  /\ ~Improves(FoldedWith(c), lastLift)
  /\ UNCHANGED <<shared, marginals, lastLift>>

Fold ==
  /\ stage = "folding"
  /\ toFold # <<>>
  /\ toFold' = Tail(toFold)
  /\ Accept(Head(toFold)) \/ Reject(Head(toFold))
  /\ UNCHANGED <<config, stage, shares, payouts>>

(* An engine, the surface or the scorer fails, and the run is abandoned. *)
Fail ==
  /\ stage = "folding"
  /\ stage' = "failed"
  /\ UNCHANGED <<config, toFold, shared, lastLift, marginals, shares, payouts>>

-----------------------------------------------------------------------------
Clamped(marginal) == IF Finite(marginal) /\ marginal > 0 THEN marginal ELSE 0

TotalCredit == Tally([c \in Contributions |-> Clamped(marginals[c])])

ShareOf(c) ==
  IF TotalCredit = 0 THEN 0
  ELSE (Clamped(marginals[c]) * BpsDenom) \div TotalCredit

AttributeShares == [c \in Contributions |-> ShareOf(c)]

SettleShares ==
  SettleSnapshotTopK(pool,
    [i \in DOMAIN callerOrder |-> callerOrder[i].contributor],
    [i \in DOMAIN callerOrder |-> ShareOf(callerOrder[i])])

(* Two half-widths combined as independent errors, rounded up: the bound of a
   gate is a whole number, so the rounding decides nothing. *)
Quadrature(a, b) ==
  CHOOSE h \in 0..(a + b) :
    /\ h * h >= a * a + b * b
    /\ \A k \in 0..(a + b) : k * k >= a * a + b * b => h <= k

(* estimate_lift: as wide as both measurements together, as large as the
   smaller one. The cost and the size are those of the shared artifact's. *)
LiftOf(lift) ==
  LET mine == measured[shared]
      base == measured[{}]
      precise == Infinite \notin {mine.half, base.half}
  IN  [finite |-> Finite(lift) /\ precise,
       delta |-> IF Finite(lift) THEN lift ELSE 0,
       lower |-> IF Finite(lift) /\ precise
                 THEN lift - Quadrature(mine.half, base.half) ELSE 0,
       n |-> Lesser(mine.n, base.n),
       cost |-> mine.cost, size |-> mine.n]

(* Mutant of FinalClears: the gate looks at the lift, not at its bound. *)
PointEstimateClears ==
  Clears(TheGate, [LiftOf(lastLift) EXCEPT !.lower = LiftOf(lastLift).delta])

FinalClears == Clears(TheGate, LiftOf(lastLift))

Settle ==
  /\ stage = "folding"
  /\ toFold = <<>>
  /\ stage' = "settled"
  /\ shares' = AttributeShares
  /\ payouts' = IF FinalClears THEN SettleShares ELSE <<>>
  /\ UNCHANGED <<config, toFold, shared, lastLift, marginals>>

Next == Fold \/ Fail \/ Settle

Spec == Init /\ [][Next]_collaborativeVars

-----------------------------------------------------------------------------
(* What is credited is what the shared artifact is worth: through accepted
   and rolled-back folds the credits add up to the lift of the deltas that
   are in it, unless an infinite score has got in. *)
CreditsAddUpToTheLift ==
  /\ lastLift = surface[shared]
  /\ Finite(lastLift) => TotalCredit = lastLift

(* Nobody is paid unless the artifact that was folded clears the gate: its lift
   is a number that exceeds the bound by at least what the errors of the two
   measurements amount to, both are large enough, and its cost is within the
   ceiling. *)
PaidOnlyForCertifiedLift ==
  payouts # <<>> =>
    LET mine == measured[shared]
        base == measured[{}]
        margin == surface[shared] - TheGate.minLower
    IN  /\ Finite(surface[shared]) /\ mine.half # Infinite /\ base.half # Infinite
        /\ margin >= 0
        /\ margin * margin >= mine.half * mine.half + base.half * base.half
        /\ mine.n >= TheGate.minN /\ base.n >= TheGate.minN
        /\ TheGate.ceiling # Uncapped => mine.cost <= TheGate.ceiling * mine.n

(* A contribution is in the artifact, and credited, if it improves on those of
   the artifact whose keys come before its own. *)
Outcome(lift, folded, credit) ==
  \A c \in Contributions :
    LET before == {d \in folded : FoldsBefore(d, c)}
    IN  /\ c \in folded <=> Improves(lift[before \cup {c}], lift[before])
        /\ credit[c] = IF c \in folded THEN Gained(lift[before \cup {c}], lift[before]) ELSE 0

(* How the caller lists the contributions does not change what they earn: these
   equations do not mention its order, and only one outcome satisfies them. *)
CallerOrderIsIrrelevant == stage = "settled" => Outcome(surface, shared, marginals)

=============================================================================
