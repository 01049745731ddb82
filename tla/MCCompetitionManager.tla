------------------------ MODULE MCCompetitionManager ------------------------
(* Small instances of CompetitionManager for TLC. *)
EXTENDS CompetitionManager, TLC

CONSTANTS proposer, researcher, challenger, nobody

Share(a, n) == [to |-> a, amount |-> n]

\* Disputes: a pool of 1, a bond of 1 that can grow to 2, two challenge stakes.
DisputeWallet ==
  proposer :> 1 @@ researcher :> 1 @@ challenger :> 2 @@ nobody :> 0

OneWinner == {<<>>, <<Share(researcher, 1)>>}

\* Continuous payouts: a pool of up to 5, nobody else has money to begin with.
ArenaWallet ==
  proposer :> 5 @@ researcher :> 0 @@ challenger :> 0 @@ nobody :> 0

\* int256: a negative epsilon, and scores on both sides of zero.
EdgeEpsilons == {-1, 2}
SignedBaselines == {-1}
SignedScores == -2 .. 2

ResidualShares ==
  {<<>>, <<Share(researcher, 1)>>, <<Share(researcher, 0), Share(challenger, 2)>>}

=============================================================================
