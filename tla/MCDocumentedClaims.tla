------------------------- MODULE MCDocumentedClaims -------------------------
(* A small instance of DocumentedClaims for TLC. *)
EXTENDS DocumentedClaims, TLC

CONSTANTS proposer, researcher, rival, nobody

ClaimsWallet ==
  proposer :> 1 @@ researcher :> 1 @@ rival :> 2 @@ nobody :> 0

=============================================================================
