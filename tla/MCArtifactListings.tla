------------------------- MODULE MCArtifactListings -------------------------
(* A small instance of ArtifactListings for TLC. *)
EXTENDS ArtifactListings, TLC

CONSTANTS proposer, seller, buyer, nobody

MarketWallet ==
  proposer :> 2 @@ seller :> 1 @@ buyer :> 1 @@ nobody :> 0

Share(a, n) == [to |-> a, amount |-> n]

\* Settlement of several winners, any of whom may call back in between.
SeveralWinners ==
  {<<Share(seller, 1)>>,
   <<Share(seller, 1), Share(buyer, 1)>>,
   <<Share(seller, 1), Share(nobody, 0), Share(seller, 1)>>}

(* Nothing distinguishes one competition from another. *)
SameCompetitions == Permutations(CompetitionIds)

=============================================================================
