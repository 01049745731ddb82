-------------------------- MODULE SlashArithmetic --------------------------
(***************************************************************************)
(* What a decided dispute does with the two stakes (autoresearch-          *)
(* protocol's slash.rs): resolve_dispute, the check `conserves`, and, to   *)
(* compare with, what CompetitionManager.resolveDispute pays.              *)
(***************************************************************************)
EXTENDS WeiArithmetic

Outcomes == {"Upheld", "Overturned", "Inconclusive"}

SlashPolicy == [rewardBps : Nat, burnRemainder : BOOLEAN]

SlashResolution ==
  [researcherSlashed : Nat, challengerSlashed : Nat, challengerReward : Nat,
   researcherRefund : Nat, challengerRefund : Nat, burned : Nat]

(* Mutant of Reward: an over-configured policy is not capped at the stake. *)
UncappedReward(researcherStake, policy) ==
  MulBps(researcherStake, policy.rewardBps)

Reward(researcherStake, policy) ==
  Lesser(researcherStake, MulBps(researcherStake, policy.rewardBps))

Overturn(researcherStake, challengerStake, policy) ==
  [researcherSlashed |-> researcherStake,
   challengerSlashed |-> 0,
   challengerReward |-> Reward(researcherStake, policy),
   researcherRefund |-> 0,
   challengerRefund |-> challengerStake,
   burned |-> researcherStake - Reward(researcherStake, policy)]

(* Mutant of Uphold: the burnt stake is awarded to the researcher as well. *)
UpholdTwice(researcherStake, challengerStake, policy) ==
  [researcherSlashed |-> 0,
   challengerSlashed |-> challengerStake,
   challengerReward |-> 0,
   researcherRefund |-> SaturatingAdd(researcherStake, challengerStake),
   challengerRefund |-> 0,
   burned |-> IF policy.burnRemainder THEN challengerStake ELSE 0]

Uphold(researcherStake, challengerStake, policy) ==
  [researcherSlashed |-> 0,
   challengerSlashed |-> challengerStake,
   challengerReward |-> 0,
   researcherRefund |->
     IF policy.burnRemainder THEN researcherStake
     ELSE SaturatingAdd(researcherStake, challengerStake),
   challengerRefund |-> 0,
   burned |-> IF policy.burnRemainder THEN challengerStake ELSE 0]

RefundBoth(researcherStake, challengerStake) ==
  [researcherSlashed |-> 0,
   challengerSlashed |-> 0,
   challengerReward |-> 0,
   researcherRefund |-> researcherStake,
   challengerRefund |-> challengerStake,
   burned |-> 0]

Resolution(outcome, researcherStake, challengerStake, policy) ==
  CASE outcome = "Overturned" -> Overturn(researcherStake, challengerStake, policy)
    [] outcome = "Upheld" -> Uphold(researcherStake, challengerStake, policy)
    [] outcome = "Inconclusive" -> RefundBoth(researcherStake, challengerStake)

-----------------------------------------------------------------------------
TotalSlashed(res) == SaturatingAdd(res.researcherSlashed, res.challengerSlashed)

PaidOut(res) ==
  res.challengerReward + res.researcherRefund + res.challengerRefund + res.burned

Kept(stake, slashed) == IF slashed > stake THEN 0 ELSE stake - slashed

(* The code's checked additions make it FALSE where a sum passes MaxWei. *)
Conserves(res, researcherStake, challengerStake) ==
  LET researcherKept == Kept(researcherStake, res.researcherSlashed)
      challengerKept == Kept(challengerStake, res.challengerSlashed)
      received == (res.researcherRefund - researcherKept)
                  + (res.challengerReward + res.challengerRefund - challengerKept)
  IN  /\ researcherStake + challengerStake <= MaxWei
      /\ PaidOut(res) = researcherStake + challengerStake
      /\ res.researcherRefund >= researcherKept
      /\ res.challengerRefund >= challengerKept
      /\ TotalSlashed(res) = received + res.burned

-----------------------------------------------------------------------------
(* CompetitionManager.resolveDispute, given what the resolution says of the
   slash and the reward: it is accepted, and what it pays the challenger. *)
AcceptedOnChain(res, bond) ==
  /\ res.researcherSlashed <= bond
  /\ res.challengerReward <= res.researcherSlashed

ChallengerPaidOnChain(outcome, res, challengerStake) ==
  CASE outcome = "Upheld" -> 0
    [] outcome = "Overturned" -> challengerStake + res.challengerReward
    [] outcome = "Inconclusive" -> challengerStake

=============================================================================
