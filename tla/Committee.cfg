\* Four validators, the smallest committee whose half may be faulty; and a
\* ledger whose two researchers post, withdraw and are slashed around the floor.
SPECIFICATION CommitteeSpec
CONSTANTS
  Validators = {v1, v2, v3, v4}
  NoVerdict = silent
  Pending = pending
  Quorums = {0, 1, 2, 3, 4, 5}
  Stakes <- SomeStakes
  Policies <- SomePolicies
  MaxWei = 100000
  Stakers = {r1, r2}
  NoEntry = none
  MinStake = 3
  Amounts = {1, 2, 4}
  MaxPosted = 9
SYMMETRY ValidatorSymmetry
\* A dispute is resolved or aborted once.
CHECK_DEADLOCK FALSE
INVARIANTS
  WhoeverIsRightKeepsItsStake
  StakesOnlyMove
  ChainPaysTheChallenger
  LedgerConserves
