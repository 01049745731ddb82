------------------------- MODULE MCDisputeCommittee -------------------------
(* A committee and the operator's ledger of stakes, which the code does not
   connect: the ledger is at work in a behaviour whose dispute stays closed. *)
EXTENDS DisputeCommittee, StakeLedger, TLC

(* Rewards below, at and above the whole stake. *)
SomePolicies == [rewardBps : {0, 3333, 20000}, burnRemainder : BOOLEAN]

(* Ordinary stakes, and two that together do not fit. *)
SomeStakes == {0, 3, 5, MaxWei}

ValidatorSymmetry == Permutations(Validators)

LedgerAtRest == LedgerInit

DisputeAtRest ==
  /\ original /\ truth /\ faulty = {} /\ quorum = 1
  /\ policy = [rewardBps |-> 3333, burnRemainder |-> TRUE]
  /\ researcherStake = 0 /\ challengerStake = 0
  /\ Waiting = Validators /\ stage = "collecting"

CommitteeInit == Init /\ LedgerInit

CommitteeNext ==
  \/ LedgerAtRest /\ Next /\ UNCHANGED ledgerVars
  \/ DisputeAtRest /\ LedgerNext /\ UNCHANGED disputeVars

CommitteeSpec == CommitteeInit /\ [][CommitteeNext]_<<disputeVars, ledgerVars>>

=============================================================================
