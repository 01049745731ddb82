----------------------- MODULE MCCollaborativeRunner -----------------------
EXTENDS CollaborativeRunner

Delta(contributor, ref) == [contributor |-> contributor, ref |-> ref]

(* Two deltas of one contributor, and a delta that two contributors sent. *)
ThreeDeltas == {Delta(1, 2), Delta(1, 3), Delta(2, 3)}

(* The hash reverses the order of the refs. *)
Hash(ref) == IF ref = 3 THEN 1 ELSE 2

CostlyGate == [minLower |-> 2, minN |-> 12, ceiling |-> 2]

(* Of the baseline and of anything folded on it: both sharp, either one wide,
   too small or without an interval, and a cost at the ceiling and above it. *)
SomeMeasurements ==
  LET sharp == [half |-> 1, n |-> 12, cost |-> 24]
      blurred == {[sharp EXCEPT !.half = 2], [sharp EXCEPT !.n = 11],
                  [sharp EXCEPT !.half = Infinite]}
  IN  {[f \in SUBSET ThreeDeltas |-> IF f = {} THEN base ELSE mine] :
         base \in {sharp} \cup blurred,
         mine \in {sharp, [sharp EXCEPT !.cost = 25]} \cup blurred}

Lift0(worth) ==
  [folded \in SUBSET ThreeDeltas |-> MapThenSumSet(LAMBDA c : worth[c], folded)]

(* Deltas that add up, that saturate, and that undo each other. *)
SomeSurfaces ==
  LET worths == [ThreeDeltas -> {-1, 0, 1, 3}]
      orthogonal == {Lift0(w) : w \in worths}
      saturating == {[f \in SUBSET ThreeDeltas |-> Lesser(Lift0(w)[f], 3)] : w \in worths}
      only(value, c, w) ==
        [f \in SUBSET ThreeDeltas |-> IF c \in f THEN value ELSE Lift0(w)[f]]
      broken == {only(value, c, w) :
                   value \in {Infinite, NotANumber}, c \in ThreeDeltas, w \in worths}
  IN  orthogonal \cup saturating \cup broken

=============================================================================
