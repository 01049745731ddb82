--------------------------- MODULE ProtocolProofs ---------------------------
(***************************************************************************)
(* The parts of the off-chain protocol that move or account for money: the *)
(* dispute committee, for any committee, quorum, stakes and policy; the    *)
(* ledger that holds the stakes, for any stakers and any amounts short of  *)
(* saturation; the operator's arena and its log, for any terms, scores and *)
(* epochs; and the training leaderboard, for any submissions.              *)
(***************************************************************************)
EXTENDS DisputeCommittee, StakeLedger, ContinuousArena, TrainingMarket, TallyProofs

(* What is resolved is what the verdicts say, and the honest ones say the
   truth: what TypeOK lacks to be enough for the properties. *)
VerdictsDecide ==
  /\ \A v \in Validators \ faulty : verdicts[v] \in {truth, NoVerdict}
  /\ stage = "resolved" =>
       /\ Waiting = {}
       /\ outcome = CommitteeVerdict
       /\ resolution = Resolution(outcome, researcherStake, challengerStake, policy)

DisputeInv == TypeOK /\ VerdictsDecide

-----------------------------------------------------------------------------
(* mul_bps and saturating_add stay in the natural numbers. *)
LEMMA WeiNat ==
  /\ \A a, b \in Nat : SaturatingAdd(a, b) \in Nat
  /\ \A a, b \in Nat : MulBps(a, b) \in Nat
<1>1. ASSUME NEW a \in Nat, NEW b \in Nat PROVE SaturatingAdd(a, b) \in Nat
  BY MaxWeiAssumption DEF SaturatingAdd
<1>2. ASSUME NEW a \in Nat, NEW b \in Nat PROVE MulBps(a, b) \in Nat
  <2>1. a * b \in Nat
    OBVIOUS
  <2>2. SaturatingMul(a, b) \in Nat
    BY <2>1, MaxWeiAssumption DEF SaturatingMul
  <2>. QED  BY <2>2 DEF MulBps, BpsDenom
<1>. QED  BY <1>1, <1>2

(* The reward of a policy is a part of the researcher's stake. *)
LEMMA RewardWithinStake ==
  ASSUME NEW stake \in Nat, NEW p \in SlashPolicy
  PROVE  Reward(stake, p) \in 0..stake
<1>1. p.rewardBps \in Nat
  BY DEF SlashPolicy
<1>2. MulBps(stake, p.rewardBps) \in Nat
  BY <1>1, WeiNat
<1>. QED  BY <1>2 DEF Reward, Lesser

(* The committee's verdict is one of the three outcomes. *)
LEMMA VerdictIsOutcome == CommitteeVerdict \in Outcomes
BY DEF CommitteeVerdict, Outcomes

(* Every resolution is a record of natural numbers. *)
LEMMA ResolutionType ==
  ASSUME NEW o \in Outcomes, NEW rs \in Nat, NEW cs \in Nat, NEW p \in SlashPolicy
  PROVE  Resolution(o, rs, cs, p) \in SlashResolution
<1>1. SaturatingAdd(rs, cs) \in Nat
  BY WeiNat
<1>2. Reward(rs, p) \in Nat /\ rs - Reward(rs, p) \in Nat
  BY RewardWithinStake
<1>3. p.burnRemainder \in BOOLEAN
  BY DEF SlashPolicy
<1>4. CASE o = "Overturned"
  BY <1>2, <1>4 DEF Resolution, Overturn, SlashResolution
<1>5. CASE o = "Upheld"
  BY <1>1, <1>3, <1>5 DEF Resolution, Uphold, SlashResolution
<1>6. CASE o = "Inconclusive"
  BY <1>6 DEF Resolution, RefundBoth, SlashResolution
<1>. QED  BY <1>4, <1>5, <1>6 DEF Outcomes

-----------------------------------------------------------------------------
(* DisputeInv holds initially and is kept by every step. *)
THEOREM DisputeInvariant == Spec => []DisputeInv
<1>1. Init => DisputeInv
  BY DEF Init, DisputeInv, TypeOK, VerdictsDecide
<1>2. DisputeInv /\ [Next]_disputeVars => DisputeInv'
  <2>. SUFFICES ASSUME DisputeInv, [Next]_disputeVars
                PROVE  DisputeInv'
    OBVIOUS
  <2>. USE DEF DisputeInv
  <2>1. ASSUME NEW v \in Validators, Rescore(v)
        PROVE  DisputeInv'
    <3>1. PICK clears \in Reports(v) : verdicts' = [verdicts EXCEPT ![v] = clears]
      BY <2>1 DEF Rescore
    <3>2. clears \in BOOLEAN
      BY <3>1 DEF Reports, TypeOK
    <3>3. v \notin faulty => clears = truth
      BY <3>1 DEF Reports
    <3>4. TypeOK'
      BY <2>1, <3>1, <3>2 DEF Rescore, TypeOK, termsOfDispute
    <3>5. VerdictsDecide'
      BY <2>1, <3>1, <3>3 DEF Rescore, TypeOK, VerdictsDecide, termsOfDispute
    <3>. QED  BY <3>4, <3>5
  <2>2. CASE Abort
    BY <2>2 DEF Abort, TypeOK, VerdictsDecide, termsOfDispute
  <2>3. CASE Resolve
    <3>1. CommitteeVerdict' = CommitteeVerdict /\ Waiting' = Waiting
      BY <2>3 DEF Resolve, CommitteeVerdict, Agreeing, Needed, Waiting, termsOfDispute
    <3>2. researcherStake \in Nat /\ challengerStake \in Nat /\ policy \in SlashPolicy
      BY CommitteeAssumption DEF TypeOK
    <3>3. resolution' \in SlashResolution
      BY <2>3, <3>2, VerdictIsOutcome, ResolutionType DEF Resolve
    <3>4. TypeOK'
      BY <2>3, <3>3, VerdictIsOutcome DEF Resolve, TypeOK, termsOfDispute
    <3>5. VerdictsDecide'
      BY <2>3, <3>1 DEF Resolve, VerdictsDecide, termsOfDispute
    <3>. QED  BY <3>4, <3>5
  <2>4. CASE UNCHANGED disputeVars
    BY <2>4 DEF disputeVars, termsOfDispute, TypeOK, VerdictsDecide, Waiting,
                CommitteeVerdict, Agreeing, Needed
  <2>. QED  BY <2>1, <2>2, <2>3, <2>4 DEF Next
<1>. QED  BY <1>1, <1>2, PTL DEF Spec

(* The types of the committee's state. *)
THEOREM DisputeTypes == Spec => []TypeOK
BY DisputeInvariant, PTL DEF DisputeInv

-----------------------------------------------------------------------------
(* The counts the verdict is made from are numbers. *)
LEMMA CountsAreNumbers ==
  ASSUME TypeOK
  PROVE  /\ Cardinality(Validators) \in Nat
         /\ Cardinality(Agreeing) \in Nat
         /\ Cardinality(faulty) \in Nat
         /\ Needed \in Nat
<1>1. IsFiniteSet(Validators)
  BY CommitteeAssumption
<1>2. faulty \subseteq Validators /\ Agreeing \subseteq Validators
  BY DEF TypeOK, Agreeing
<1>3. IsFiniteSet(faulty) /\ IsFiniteSet(Agreeing)
  BY <1>1, <1>2, FS_Subset
<1>4. Needed \in Nat
  BY CommitteeAssumption DEF Needed, TypeOK
<1>. QED  BY <1>1, <1>3, <1>4, FS_CardinalityType

(* The verdicts that are wrong come from faulty validators, so a faulty
   minority is fewer than any quorum that can decide. *)
LEMMA MinorityIsShort ==
  ASSUME TypeOK, VerdictsDecide, stage = "resolved", FaultyAreMinority,
         2 * Needed > Cardinality(Validators)
  PROVE  /\ truth = original => Cardinality(Validators) - Cardinality(Agreeing) < Needed
         /\ truth # original => Cardinality(Agreeing) < Needed
<1>1. /\ Cardinality(Validators) \in Nat
      /\ Cardinality(Agreeing) \in Nat
      /\ Cardinality(faulty) \in Nat
      /\ Needed \in Nat
  BY CountsAreNumbers
<1>2. IsFiniteSet(Validators)
  BY CommitteeAssumption
<1>3. IsFiniteSet(faulty)
  BY <1>2, FS_Subset DEF TypeOK
<1>4. Cardinality(faulty) < Needed
  BY <1>1 DEF FaultyAreMinority
<1>5. \A v \in Validators \ faulty : verdicts[v] = truth
  BY DEF VerdictsDecide, Waiting, TypeOK
<1>6. ASSUME truth = original
      PROVE  Cardinality(Validators) - Cardinality(Agreeing) < Needed
  <2>1. Validators \ Agreeing \subseteq faulty
    BY <1>5, <1>6 DEF Agreeing
  <2>2. /\ Cardinality(Validators \ Agreeing) \in Nat
        /\ Cardinality(Validators \ Agreeing) <= Cardinality(faulty)
    BY <1>3, <2>1, FS_Subset, FS_CardinalityType
  <2>3. Validators \cap Agreeing = Agreeing
    BY DEF Agreeing
  <2>4. Cardinality(Validators \ Agreeing)
          = Cardinality(Validators) - Cardinality(Validators \cap Agreeing)
    BY <1>2, FS_Difference
  <2>5. Cardinality(Validators \ Agreeing) = Cardinality(Validators) - Cardinality(Agreeing)
    BY <2>3, <2>4
  <2>. QED  BY <1>1, <1>4, <2>2, <2>5
<1>7. ASSUME truth # original
      PROVE  Cardinality(Agreeing) < Needed
  <2>1. Agreeing \subseteq faulty
    BY <1>5, <1>7 DEF Agreeing
  <2>2. Cardinality(Agreeing) <= Cardinality(faulty)
    BY <1>3, <2>1, FS_Subset
  <2>. QED  BY <1>1, <1>4, <2>2
<1>. QED  BY <1>6, <1>7

(* So a faulty minority never brings about the wrong verdict. *)
LEMMA NoWrongVerdict ==
  ASSUME TypeOK, VerdictsDecide, stage = "resolved", FaultyAreMinority
  PROVE  /\ truth = original => CommitteeVerdict # "Overturned"
         /\ truth # original => CommitteeVerdict # "Upheld"
<1>1. /\ Cardinality(Validators) \in Nat
      /\ Cardinality(Agreeing) \in Nat
      /\ Needed \in Nat
  BY CountsAreNumbers
<1>2. CASE 2 * Needed <= Cardinality(Validators)
  BY <1>2 DEF CommitteeVerdict
<1>3. CASE 2 * Needed > Cardinality(Validators)
  <2>1. /\ truth = original => Cardinality(Validators) - Cardinality(Agreeing) < Needed
        /\ truth # original => Cardinality(Agreeing) < Needed
    BY <1>3, MinorityIsShort
  <2>. QED  BY <1>1, <1>3, <2>1 DEF CommitteeVerdict
<1>. QED  BY <1>1, <1>2, <1>3

(* A faulty minority, however large the committee, cannot take the stake of
   the party that is right. *)
THEOREM RightPartyKeepsItsStake == Spec => []WhoeverIsRightKeepsItsStake
<1>1. DisputeInv => WhoeverIsRightKeepsItsStake
  <2>. SUFFICES ASSUME DisputeInv, stage = "resolved", FaultyAreMinority
                PROVE  IF truth = original
                       THEN resolution.researcherRefund >= researcherStake
                       ELSE resolution.challengerRefund >= challengerStake
    BY DEF WhoeverIsRightKeepsItsStake
  <2>0. TypeOK /\ VerdictsDecide
    BY DEF DisputeInv
  <2>1. /\ researcherStake \in 0..MaxWei
        /\ challengerStake \in 0..MaxWei
        /\ policy \in SlashPolicy
    BY <2>0, CommitteeAssumption DEF TypeOK
  <2>2. /\ outcome = CommitteeVerdict
        /\ resolution = Resolution(outcome, researcherStake, challengerStake, policy)
    BY <2>0 DEF VerdictsDecide
  <2>3. outcome \in Outcomes
    BY <2>2, VerdictIsOutcome
  <2>4. /\ truth = original => outcome # "Overturned"
        /\ truth # original => outcome # "Upheld"
    BY <2>0, <2>2, NoWrongVerdict
  <2>5. SaturatingAdd(researcherStake, challengerStake) >= researcherStake
    BY <2>1, MaxWeiAssumption DEF SaturatingAdd
  <2>6. CASE outcome = "Upheld"
    <3>1. resolution = Uphold(researcherStake, challengerStake, policy)
      BY <2>2, <2>6 DEF Resolution
    <3>. QED  BY <2>1, <2>4, <2>5, <2>6, <3>1 DEF Uphold
  <2>7. CASE outcome = "Overturned"
    <3>1. resolution = Overturn(researcherStake, challengerStake, policy)
      BY <2>2, <2>7 DEF Resolution
    <3>. QED  BY <2>1, <2>4, <2>7, <3>1 DEF Overturn
  <2>8. CASE outcome = "Inconclusive"
    <3>1. resolution = RefundBoth(researcherStake, challengerStake)
      BY <2>2, <2>8 DEF Resolution
    <3>. QED  BY <2>1, <3>1 DEF RefundBoth
  <2>. QED  BY <2>3, <2>6, <2>7, <2>8 DEF Outcomes
<1>. QED  BY <1>1, DisputeInvariant, PTL

-----------------------------------------------------------------------------
(* Both stakes come out whole, and neither party gets back what it lost. *)
THEOREM StakesAreConserved == Spec => []StakesOnlyMove
<1>1. DisputeInv => StakesOnlyMove
  <2>. SUFFICES ASSUME DisputeInv, stage = "resolved",
                       researcherStake + challengerStake <= MaxWei
                PROVE  /\ Conserves(resolution, researcherStake, challengerStake)
                       /\ resolution.researcherRefund <=
                            researcherStake - resolution.researcherSlashed
                            + resolution.challengerSlashed
                       /\ resolution.challengerRefund + resolution.challengerReward <=
                            challengerStake - resolution.challengerSlashed
                            + resolution.researcherSlashed
    BY DEF StakesOnlyMove
  <2>1. researcherStake \in Nat /\ challengerStake \in Nat /\ policy \in SlashPolicy
    BY CommitteeAssumption DEF DisputeInv, TypeOK
  <2>2. /\ outcome \in Outcomes
        /\ resolution = Resolution(outcome, researcherStake, challengerStake, policy)
    BY VerdictIsOutcome DEF DisputeInv, VerdictsDecide
  <2>3. CASE outcome = "Overturned"
    <3>. DEFINE reward == Reward(researcherStake, policy)
    <3>1. /\ resolution.researcherSlashed = researcherStake
          /\ resolution.challengerSlashed = 0
          /\ resolution.challengerReward = reward
          /\ resolution.researcherRefund = 0
          /\ resolution.challengerRefund = challengerStake
          /\ resolution.burned = researcherStake - reward
      BY <2>2, <2>3 DEF Resolution, Overturn
    <3>2. reward \in 0..researcherStake
      BY <2>1, RewardWithinStake
    <3>3. TotalSlashed(resolution) = researcherStake
      BY <2>1, <3>1, MaxWeiAssumption DEF TotalSlashed, SaturatingAdd
    <3>4. /\ Kept(researcherStake, resolution.researcherSlashed) = 0
          /\ Kept(challengerStake, resolution.challengerSlashed) = challengerStake
      BY <2>1, <3>1 DEF Kept
    <3>. HIDE DEF reward
    <3>5. Conserves(resolution, researcherStake, challengerStake)
      BY <2>1, <3>1, <3>2, <3>3, <3>4 DEF Conserves, PaidOut
    <3>. QED  BY <2>1, <3>1, <3>2, <3>5
  <2>4. CASE outcome = "Upheld"
    <3>1. SaturatingAdd(researcherStake, challengerStake) = researcherStake + challengerStake
      BY <2>1, MaxWeiAssumption DEF SaturatingAdd
    <3>2. /\ resolution.researcherSlashed = 0
          /\ resolution.challengerSlashed = challengerStake
          /\ resolution.challengerReward = 0
          /\ resolution.challengerRefund = 0
          /\ \/ /\ resolution.researcherRefund = researcherStake
                /\ resolution.burned = challengerStake
             \/ /\ resolution.researcherRefund = researcherStake + challengerStake
                /\ resolution.burned = 0
      BY <2>2, <2>4, <3>1 DEF Resolution, Uphold
    <3>3. TotalSlashed(resolution) = challengerStake
      BY <2>1, <3>2, MaxWeiAssumption DEF TotalSlashed, SaturatingAdd
    <3>4. /\ Kept(researcherStake, resolution.researcherSlashed) = researcherStake
          /\ Kept(challengerStake, resolution.challengerSlashed) = 0
      BY <2>1, <3>2 DEF Kept
    <3>5. Conserves(resolution, researcherStake, challengerStake)
      BY <2>1, <3>2, <3>3, <3>4 DEF Conserves, PaidOut
    <3>. QED  BY <2>1, <3>2, <3>5
  <2>5. CASE outcome = "Inconclusive"
    <3>1. /\ resolution.researcherSlashed = 0
          /\ resolution.challengerSlashed = 0
          /\ resolution.challengerReward = 0
          /\ resolution.researcherRefund = researcherStake
          /\ resolution.challengerRefund = challengerStake
          /\ resolution.burned = 0
      BY <2>2, <2>5 DEF Resolution, RefundBoth
    <3>2. TotalSlashed(resolution) = 0
      BY <3>1, MaxWeiAssumption DEF TotalSlashed, SaturatingAdd
    <3>3. /\ Kept(researcherStake, resolution.researcherSlashed) = researcherStake
          /\ Kept(challengerStake, resolution.challengerSlashed) = challengerStake
      BY <2>1, <3>1 DEF Kept
    <3>4. Conserves(resolution, researcherStake, challengerStake)
      BY <2>1, <3>1, <3>2, <3>3 DEF Conserves, PaidOut
    <3>. QED  BY <2>1, <3>1, <3>4
  <2>. QED  BY <2>2, <2>3, <2>4, <2>5 DEF Outcomes
<1>. QED  BY <1>1, DisputeInvariant, PTL

(* Whatever the committee decides, the contract accepts it and pays the
   challenger the same. *)
THEOREM ChainAgreesOnTheChallenger == Spec => []ChainPaysTheChallenger
<1>1. DisputeInv => ChainPaysTheChallenger
  <2>. SUFFICES ASSUME DisputeInv, stage = "resolved"
                PROVE  /\ AcceptedOnChain(resolution, researcherStake)
                       /\ ChallengerPaidOnChain(outcome, resolution, challengerStake) =
                            resolution.challengerReward + resolution.challengerRefund
    BY DEF ChainPaysTheChallenger
  <2>1. researcherStake \in Nat /\ challengerStake \in Nat /\ policy \in SlashPolicy
    BY CommitteeAssumption DEF DisputeInv, TypeOK
  <2>2. /\ outcome \in Outcomes
        /\ resolution = Resolution(outcome, researcherStake, challengerStake, policy)
    BY VerdictIsOutcome DEF DisputeInv, VerdictsDecide
  <2>3. CASE outcome = "Overturned"
    <3>1. resolution = Overturn(researcherStake, challengerStake, policy)
      BY <2>2, <2>3 DEF Resolution
    <3>2. Reward(researcherStake, policy) \in 0..researcherStake
      BY <2>1, RewardWithinStake
    <3>3. ChallengerPaidOnChain(outcome, resolution, challengerStake)
            = challengerStake + resolution.challengerReward
      BY <2>3 DEF ChallengerPaidOnChain
    <3>. QED  BY <2>1, <3>1, <3>2, <3>3 DEF Overturn, AcceptedOnChain
  <2>4. CASE outcome = "Upheld"
    <3>1. resolution = Uphold(researcherStake, challengerStake, policy)
      BY <2>2, <2>4 DEF Resolution
    <3>2. ChallengerPaidOnChain(outcome, resolution, challengerStake) = 0
      BY <2>4 DEF ChallengerPaidOnChain
    <3>. QED  BY <2>1, <3>1, <3>2 DEF Uphold, AcceptedOnChain
  <2>5. CASE outcome = "Inconclusive"
    <3>1. resolution = RefundBoth(researcherStake, challengerStake)
      BY <2>2, <2>5 DEF Resolution
    <3>2. ChallengerPaidOnChain(outcome, resolution, challengerStake) = challengerStake
      BY <2>5 DEF ChallengerPaidOnChain
    <3>. QED  BY <2>1, <3>1, <3>2 DEF RefundBoth, AcceptedOnChain
  <2>. QED  BY <2>2, <2>3, <2>4, <2>5 DEF Outcomes
<1>. QED  BY <1>1, DisputeInvariant, PTL

-----------------------------------------------------------------------------
(* The ledger. A balance is part of what has been posted, which is why no post
   below the bound saturates. *)
LedgerInv ==
  /\ balances \in [Stakers -> Nat \cup {NoEntry}]
  /\ reported \in [posted : 0..MaxPosted, withdrawn : Nat, slashed : Nat]
  /\ LedgerConserves

Held == [k \in Stakers |-> Balance(k)]

(* The ledger adds up, and no balance is above the total. *)
LEMMA HeldType ==
  ASSUME balances \in [Stakers -> Nat \cup {NoEntry}]
  PROVE  /\ Held \in [Stakers -> Nat]
         /\ TotalStaked \in Nat
         /\ \A k \in Stakers : Balance(k) \in Nat /\ Balance(k) <= TotalStaked
<1>1. \A k \in Stakers : Balance(k) \in Nat
  BY DEF Balance
<1>2. Held \in [Stakers -> Nat] /\ \A k \in Stakers : Held[k] = Balance(k)
  BY <1>1 DEF Held
<1>3. TotalStaked = Tally(Held)
  BY DEF TotalStaked, Held
<1>4. TotalStaked \in Nat
  BY <1>2, <1>3, LedgerAssumption, TallyType
<1>5. \A k \in Stakers : Held[k] <= Tally(Held)
  BY <1>2, LedgerAssumption, TallyAbove
<1>6. QED
  BY <1>1, <1>2, <1>3, <1>4, <1>5

(* What changes one entry changes the total by as much. *)
LEMMA OneBalance ==
  ASSUME NEW k \in Stakers, NEW n \in Nat,
         balances \in [Stakers -> Nat \cup {NoEntry}],
         balances' = [balances EXCEPT ![k] = n]
  PROVE  /\ balances' \in [Stakers -> Nat \cup {NoEntry}]
         /\ TotalStaked' = TotalStaked + n - Balance(k)
         /\ \A j \in Stakers : Balance(j)' >= 0
<1>1. balances' \in [Stakers -> Nat \cup {NoEntry}]
  OBVIOUS
<1>2. /\ Held \in [Stakers -> Nat]
      /\ \A j \in Stakers : Balance(j) \in Nat
  BY HeldType
<1>3. \A j \in Stakers : Balance(j)' = IF j = k THEN n ELSE Balance(j)
  BY LedgerAssumption DEF Balance
<1>4. Held' = [j \in Stakers |-> Balance(j)']
  BY DEF Held
<1>5. /\ Held' \in [Stakers -> Nat]
      /\ Held'[k] = n /\ Held[k] = Balance(k)
      /\ \A j \in Stakers \ {k} : Held'[j] = Held[j]
  BY <1>2, <1>3, <1>4 DEF Held
<1>6. Tally(Held') = Tally(Held) + Held'[k] - Held[k]
  <2>. DEFINE before == Held
              after == Held'
  <2>1. /\ before \in [Stakers -> Nat] /\ after \in [Stakers -> Nat]
        /\ \A j \in Stakers \ {k} : after[j] = before[j]
    BY <1>2, <1>5
  <2>. HIDE DEF before, after
  <2>2. Tally(after) = Tally(before) + after[k] - before[k]
    BY ONLY <2>1, LedgerAssumption, k \in Stakers, TallyChange
  <2>3. QED
    BY <2>2 DEF before, after
<1>7. TotalStaked = Tally(Held) /\ TotalStaked' = Tally(Held')
  BY DEF TotalStaked, Held
<1>8. QED
  BY <1>1, <1>2, <1>3, <1>5, <1>6, <1>7

(* Each call keeps the books. *)
LEMMA LedgerStep == LedgerInv /\ [LedgerNext]_ledgerVars => LedgerInv'
<1>. SUFFICES ASSUME LedgerInv, [LedgerNext]_ledgerVars
              PROVE  LedgerInv'
  OBVIOUS
<1>. USE DEF LedgerInv, LedgerConserves
<1>1. /\ MaxPosted \in Nat /\ MaxWei \in Nat /\ MaxPosted <= MaxWei
      /\ Amounts \subseteq Nat /\ NoEntry \notin Nat
  BY LedgerAssumption, MaxWeiAssumption
<1>2. /\ TotalStaked \in Nat
      /\ \A k \in Stakers : Balance(k) \in Nat /\ Balance(k) <= TotalStaked
  BY HeldType
<1>3. /\ reported.posted \in Nat /\ reported.posted <= MaxPosted
      /\ reported.withdrawn \in Nat /\ reported.slashed \in Nat
  BY <1>1
<1>4. ASSUME NEW k \in Stakers, NEW amount \in Amounts,
             reported.posted + amount <= MaxPosted, PostStake(k, amount)
      PROVE  LedgerInv'
  <2>1. Balance(k) + amount <= MaxWei
    BY <1>1, <1>2, <1>3, <1>4
  <2>2. SaturatingAdd(Balance(k), amount) = Balance(k) + amount
    BY <2>1, <1>1, <1>2 DEF SaturatingAdd
  <2>3. CASE Admits(SaturatingAdd(Balance(k), amount))
    <3>1. /\ balances' = [balances EXCEPT ![k] = Balance(k) + amount]
          /\ reported' = [reported EXCEPT !.posted = @ + amount]
      BY <1>4, <2>2, <2>3 DEF PostStake
    <3>2. Balance(k) + amount \in Nat
      BY <1>1, <1>2
    <3>3. /\ balances' \in [Stakers -> Nat \cup {NoEntry}]
          /\ TotalStaked' = TotalStaked + (Balance(k) + amount) - Balance(k)
          /\ \A j \in Stakers : Balance(j)' >= 0
      BY <3>1, <3>2, OneBalance
    <3>4. QED
      BY <3>1, <3>3, <1>1, <1>2, <1>3, <1>4
  <2>4. CASE ~Admits(SaturatingAdd(Balance(k), amount))
    <3>1. /\ balances' = [balances EXCEPT ![k] = Balance(k)]
          /\ reported' = reported
      BY <1>4, <2>4 DEF PostStake
    <3>2. /\ balances' \in [Stakers -> Nat \cup {NoEntry}]
          /\ TotalStaked' = TotalStaked + Balance(k) - Balance(k)
          /\ \A j \in Stakers : Balance(j)' >= 0
      BY <3>1, <1>2, OneBalance
    <3>3. QED
      BY <3>1, <3>2, <1>2
  <2>5. QED
    BY <2>3, <2>4
<1>5. ASSUME NEW k \in Stakers, NEW amount \in Amounts, Withdraw(k, amount)
      PROVE  LedgerInv'
  <2>1. balances[k] = Balance(k) /\ Balance(k) - amount \in Nat /\ amount \in Nat
    BY <1>1, <1>2, <1>5 DEF Withdraw, Covers, Balance
  <2>2. /\ balances' = [balances EXCEPT ![k] = Balance(k) - amount]
        /\ reported' = [reported EXCEPT !.withdrawn = @ + amount]
    BY <1>5, <2>1 DEF Withdraw
  <2>3. /\ balances' \in [Stakers -> Nat \cup {NoEntry}]
        /\ TotalStaked' = TotalStaked + (Balance(k) - amount) - Balance(k)
        /\ \A j \in Stakers : Balance(j)' >= 0
    BY <2>1, <2>2, OneBalance
  <2>4. QED
    BY <2>1, <2>2, <2>3, <1>2, <1>3
<1>6. ASSUME NEW k \in Stakers, NEW amount \in Amounts, Slash(k, amount)
      PROVE  LedgerInv'
  <2>. DEFINE cut == Lesser(amount, balances[k])
  <2>1. balances[k] = Balance(k) /\ cut \in Nat /\ Balance(k) - cut \in Nat
    BY <1>1, <1>2, <1>6 DEF Slash, Balance, Lesser
  <2>2. /\ balances' = [balances EXCEPT ![k] = Balance(k) - cut]
        /\ reported' = [reported EXCEPT !.slashed = @ + cut]
    BY <1>6, <2>1 DEF Slash, Removed
  <2>. HIDE DEF cut
  <2>3. /\ balances' \in [Stakers -> Nat \cup {NoEntry}]
        /\ TotalStaked' = TotalStaked + (Balance(k) - cut) - Balance(k)
        /\ \A j \in Stakers : Balance(j)' >= 0
    BY <2>1, <2>2, OneBalance
  <2>4. QED
    BY <2>1, <2>2, <2>3, <1>2, <1>3
<1>7. CASE UNCHANGED ledgerVars
  BY <1>7 DEF ledgerVars, Balance, TotalStaked
<1>8. QED
  BY <1>4, <1>5, <1>6, <1>7 DEF LedgerNext

(* StakeLedger: however posts, refused posts, withdrawals and clamped slashes
   alternate, what is held is what was reported in less what was reported out. *)
THEOREM LedgerBalances == LedgerSpec => []LedgerConserves
<1>1. LedgerInit => LedgerInv
  <2>. SUFFICES ASSUME LedgerInit PROVE LedgerInv
    OBVIOUS
  <2>1. balances \in [Stakers -> Nat \cup {NoEntry}]
    BY DEF LedgerInit
  <2>2. \A k \in Stakers : Balance(k) = 0
    BY DEF LedgerInit, Balance
  <2>3. Held \in [Stakers -> Nat] /\ \A k \in Stakers : Held[k] = 0
    BY <2>2 DEF Held
  <2>4. TotalStaked = 0
    BY <2>3, TallyZero DEF TotalStaked, Held
  <2>5. MaxPosted \in Nat
    BY LedgerAssumption, MaxWeiAssumption
  <2>6. QED
    BY <2>1, <2>2, <2>4, <2>5 DEF LedgerInv, LedgerConserves, LedgerInit
<1>2. LedgerInv => LedgerConserves
  BY DEF LedgerInv
<1>3. QED
  BY <1>1, <1>2, LedgerStep, PTL DEF LedgerSpec

-----------------------------------------------------------------------------
(* What Replay computes, beat by beat. *)
IsReplay(run, baseline, scored, epsilon, rate) ==
  /\ Replay(baseline, scored, epsilon, rate) = run[Len(scored)]
  /\ run[0] = [best |-> baseline, payouts |-> <<>>]
  /\ \A i \in 1..Len(scored) : run[i] = AfterBeat(run[i - 1], scored[i], epsilon, rate)

LEMMA ReplaySteps ==
  ASSUME NEW baseline, NEW scored, Len(scored) \in Nat, NEW epsilon, NEW rate
  PROVE  \E run : IsReplay(run, baseline, scored, epsilon, rate)
<1> DEFINE n == Len(scored)
           start == [best |-> baseline, payouts |-> <<>>]
           run == CHOOSE g : g = [i \in 0..n |->
                    IF i = 0 THEN start ELSE AfterBeat(g[i - 1], scored[i], epsilon, rate)]
<1>1. FiniteNatInductiveDefHypothesis(run, start,
        LAMBDA so, i : AfterBeat(so, scored[i], epsilon, rate), 0, n)
  BY DEF FiniteNatInductiveDefHypothesis
<1>2. FiniteNatInductiveDefConclusion(run, start,
        LAMBDA so, i : AfterBeat(so, scored[i], epsilon, rate), 0, n)
  BY <1>1, FiniteNatInductiveDef
<1>3. run = [i \in 0..n |->
               IF i = 0 THEN start ELSE AfterBeat(run[i - 1], scored[i], epsilon, rate)]
  BY <1>2 DEF FiniteNatInductiveDefConclusion
<1>4. Replay(baseline, scored, epsilon, rate) = run[n]
  BY DEF Replay
<1>5. n \in Nat
  OBVIOUS
<1> HIDE DEF run, start, n
<1>6. run[0] = start
  BY <1>3, <1>5
<1>7. ASSUME NEW i \in 1..n
      PROVE  run[i] = AfterBeat(run[i - 1], scored[i], epsilon, rate)
  <2>1. i \in 0..n /\ i # 0
    BY <1>5
  <2>2. QED
    BY <1>3, <2>1
<1>8. QED
  BY <1>4, <1>6, <1>7 DEF start, n, IsReplay

(* The replay of no beat, and of one beat more. *)
LEMMA ReplayNothing ==
  ASSUME NEW baseline, NEW epsilon, NEW rate
  PROVE  Replay(baseline, <<>>, epsilon, rate) = [best |-> baseline, payouts |-> <<>>]
<1>1. Len(<<>>) = 0 /\ Len(<<>>) \in Nat
  OBVIOUS
<1>2. PICK run : IsReplay(run, baseline, <<>>, epsilon, rate)
  BY ONLY <1>1, ReplaySteps
<1>3. QED
  BY <1>1, <1>2 DEF IsReplay

LEMMA ReplayAppend ==
  ASSUME NEW S, NEW s \in Seq(S), NEW beat, NEW baseline, NEW epsilon, NEW rate
  PROVE  Replay(baseline, Append(s, beat), epsilon, rate)
           = AfterBeat(Replay(baseline, s, epsilon, rate), beat, epsilon, rate)
<1> DEFINE t == Append(s, beat)
           n == Len(s)
<1>1. /\ n \in Nat /\ Len(t) = n + 1 /\ t[n + 1] = beat
      /\ \A i \in 1..n : t[i] = s[i]
  OBVIOUS
<1>2. PICK f : IsReplay(f, baseline, s, epsilon, rate)
  BY <1>1, ReplaySteps
<1> HIDE DEF t
<1> HIDE DEF n
<1>3. PICK g : IsReplay(g, baseline, t, epsilon, rate)
  <2>1. Len(t) \in Nat
    BY <1>1
  <2>2. QED
    BY ONLY <2>1, ReplaySteps
<1>4. \A i \in 0..n : f[i] = g[i]
  <2>1. \A i \in 1..n : i \in 1..(n + 1)
    BY <1>1
  <2>2. \A i \in 1..n : f[i - 1] = g[i - 1] => f[i] = g[i]
    BY <1>1, <1>2, <1>3, <2>1 DEF IsReplay, n
  <2>3. n \in Nat /\ f[0] = g[0]
    BY <1>1, <1>2, <1>3 DEF IsReplay
  <2>4. QED
    BY ONLY <2>2, <2>3, SameSteps, SMTT(60)
<1>5. n + 1 \in 1..(n + 1) /\ n + 1 - 1 = n /\ n \in 0..n
  BY <1>1
<1>6. Replay(baseline, t, epsilon, rate)
        = AfterBeat(Replay(baseline, s, epsilon, rate), beat, epsilon, rate)
  BY <1>1, <1>2, <1>3, <1>4, <1>5 DEF IsReplay, n
<1>7. QED
  BY <1>6 DEF t

(* What one payout more adds to the total. *)
LEMMA TotalNothing == TotalWei(<<>>) = 0
<1>1. [i \in DOMAIN <<>> |-> <<>>[i].wei] = <<>>
  OBVIOUS
<1>2. QED
  BY <1>1, SumEmpty DEF TotalWei

LEMMA TotalAppend ==
  ASSUME NEW S, NEW s \in Seq(S), NEW payout
  PROVE  TotalWei(Append(s, payout)) = TotalWei(s) + payout.wei
<1> DEFINE W == {x.wei : x \in S}
           weis == [i \in DOMAIN s |-> s[i].wei]
           more == [i \in DOMAIN Append(s, payout) |-> Append(s, payout)[i].wei]
<1>1. weis \in Seq(W) /\ Len(weis) = Len(s) /\ DOMAIN weis = 1..Len(s)
  OBVIOUS
<1>2. DOMAIN Append(s, payout) = 1..(Len(s) + 1) /\ Len(s) \in Nat
  OBVIOUS
<1>3. more = Append(weis, payout.wei)
  <2>1. DOMAIN Append(weis, payout.wei) = 1..(Len(s) + 1)
    BY <1>1
  <2>2. ASSUME NEW i \in 1..(Len(s) + 1)
        PROVE  more[i] = Append(weis, payout.wei)[i]
    <3>1. CASE i = Len(s) + 1
      BY <1>1, <1>2, <3>1
    <3>2. CASE i \in 1..Len(s)
      BY <1>1, <1>2, <3>2
    <3>3. QED
      BY <1>2, <3>1, <3>2
  <2>3. /\ more = [i \in 1..(Len(s) + 1) |-> more[i]]
        /\ Append(weis, payout.wei) = [i \in 1..(Len(s) + 1) |-> Append(weis, payout.wei)[i]]
    BY <1>1, <1>2, <2>1
  <2>4. QED
    BY ONLY <2>2, <2>3
<1> HIDE DEF weis, more, W
<1>4. SumOf(more) = SumOf(weis) + payout.wei
  BY <1>1, <1>3, SumAppend
<1>5. QED
  BY <1>4 DEF TotalWei, weis, more

-----------------------------------------------------------------------------
(* What the arena is settled by stays within its integer types and its pool. *)
ArenaTypes ==
  /\ terms \in ArenaTerms
  /\ best \in (MinMicros..MaxMicros) \cup {NoBest}
  /\ spent \in 0..terms.pool
  /\ epoch \in Nat

LEMMA MicrosFit ==
  ASSUME NEW lift \in Lift
  PROVE  ToMicros(lift) \in MinMicros..MaxMicros
<1>1. MaxMicros \in Nat /\ MinMicros \in Int /\ MinMicros <= 0
  BY MaxMicrosAssumption DEF MinMicros
<1>2. RoundHalves(lift.delta) \in Int
  BY DEF RoundHalves, Lift
<1>3. QED
  BY <1>1, <1>2 DEF ToMicros, Clamp

(* A bar is an i64, whether or not the arena has a record. *)
LEMMA BarFits ==
  ASSUME ArenaTypes
  PROVE  /\ CurrentBar \in MinMicros..MaxMicros /\ CurrentBar \in Int
         /\ terms.rate \in 0..MaxWei /\ terms.pool \in 0..MaxWei
         /\ RemainingPool \in 0..terms.pool
         /\ EpochCredit \in 0..RemainingPool
<1>1. MaxMicros \in Nat /\ MinMicros \in Int /\ MaxWei \in Nat
  BY MaxMicrosAssumption, MaxWeiAssumption DEF MinMicros
<1>2. /\ terms.rate \in 0..MaxWei /\ terms.pool \in 0..MaxWei
      /\ terms.baseline \in MinMicros..MaxMicros
  BY DEF ArenaTypes, ArenaTerms
<1>3. RemainingPool \in 0..terms.pool
  BY <1>1, <1>2 DEF ArenaTypes, RemainingPool
<1>4. EpochCredit \in 0..RemainingPool
  BY <1>1, <1>2, <1>3 DEF EpochCredit, Lesser
<1>5. QED
  BY <1>1, <1>2, <1>3, <1>4 DEF ArenaTypes, CurrentBar

(* What a record owes fits its type and, since it was booked, the pool. *)
LEMMA OwedFits ==
  ASSUME ArenaTypes, NEW beat, beat.micros \in MinMicros..MaxMicros,
         Qualifies(beat, CurrentBar, terms.epsilon)
  PROVE  Owed(beat) \in 0..MaxWei
<1>1. MaxMicros \in Nat /\ MinMicros \in Int /\ MaxWei \in Nat /\ CurrentBar \in Int
      /\ terms.rate \in Nat
  BY BarFits, MaxMicrosAssumption, MaxWeiAssumption DEF MinMicros
<1> DEFINE margin == SaturatingSub(beat.micros, CurrentBar)
<1>2. margin \in Nat
  BY <1>1 DEF Qualifies, SaturatingSub, Clamp
<1> HIDE DEF margin
<1>3. margin * terms.rate \in Nat
  BY <1>1, <1>2
<1>4. QED
  BY <1>1, <1>3 DEF Owed, BountyOwed, SaturatingMul, margin

LEMMA ArenaTypeStep == ArenaTypes /\ [ArenaNext]_arenaVars => ArenaTypes'
<1> SUFFICES ASSUME ArenaTypes, [ArenaNext]_arenaVars PROVE ArenaTypes'
  OBVIOUS
<1>1. ASSUME NEW researcher \in Researchers, NEW lift \in Lifts, Submit(researcher, lift)
      PROVE  ArenaTypes'
  <2> DEFINE micros == ToMicros(lift)
  <2>1. micros \in MinMicros..MaxMicros
    BY MicrosFit, ArenaAssumption
  <2>2. CASE TryRecordBounty(researcher, micros)
    <3> DEFINE beat == [researcher |-> researcher, micros |-> micros]
    <3>1. Owed(beat) \in 0..MaxWei /\ RemainingPool \in 0..terms.pool /\ terms.pool \in 0..MaxWei
      BY <2>1, <2>2, OwedFits, BarFits DEF TryRecordBounty
    <3>2. /\ Owed(beat) <= terms.pool - spent /\ spent' = spent + Owed(beat)
          /\ best' = micros /\ terms' = terms /\ epoch' = epoch
      BY <2>2 DEF TryRecordBounty, BookRecord, RemainingPool
    <3> HIDE DEF beat
    <3>3. QED
      BY <2>1, <3>1, <3>2, MaxWeiAssumption DEF ArenaTypes
  <2>3. CASE TryStreamingRecord(researcher, micros)
    <3>1. /\ spent' = spent + 0 /\ best' = micros /\ terms' = terms /\ epoch' = epoch
      BY <2>3 DEF TryStreamingRecord, BookRecord
    <3>2. QED
      BY <2>1, <3>1, BarFits DEF ArenaTypes
  <2>4. QED
    BY <1>1, <2>2, <2>3 DEF Submit
<1>2. ASSUME CreditHolder PROVE ArenaTypes'
  <2>1. /\ spent' = spent + EpochCredit /\ epoch' = epoch + 1
        /\ terms' = terms /\ best' = best
    BY <1>2 DEF CreditHolder
  <2>2. EpochCredit \in 0..terms.pool - spent /\ terms.pool \in 0..MaxWei
    BY BarFits DEF RemainingPool
  <2>3. QED
    BY <2>1, <2>2, MaxWeiAssumption DEF ArenaTypes
<1>3. ASSUME AdvanceClock PROVE ArenaTypes'
  BY <1>3 DEF AdvanceClock, ArenaTypes, standingVars
<1>4. ASSUME UNCHANGED arenaVars PROVE ArenaTypes'
  BY <1>4 DEF ArenaTypes, arenaVars, standingVars
<1>5. QED
  BY <1>1, <1>2, <1>3, <1>4 DEF ArenaNext, TickEpoch

LEMMA ArenaInitType == ArenaInit => ArenaTypes
<1> SUFFICES ASSUME ArenaInit PROVE ArenaTypes
  OBVIOUS
<1>1. terms \in ArenaTerms
  BY ArenaAssumption DEF ArenaInit
<1>2. terms.pool \in 0..MaxWei
  BY <1>1 DEF ArenaTerms
<1>3. 0 \in 0..terms.pool
  BY <1>2, MaxWeiAssumption
<1>4. QED
  BY <1>1, <1>3 DEF ArenaInit, ArenaTypes

LEMMA ArenaTypesHold == ArenaSpec => []ArenaTypes
  BY ArenaInitType, ArenaTypeStep, PTL DEF ArenaSpec

-----------------------------------------------------------------------------
AllTerms == [a \in {"arena"} |-> OpenTerms]
AllStandings == [a \in {"arena"} |-> IF PricedExactly THEN Standing ELSE Nobody]

(* A record of a bounty arena that prices margins exactly is paid its margin,
   unsaturated: a saturated price is one that the pool cannot pay. *)
LEMMA BountyIsExact ==
  ASSUME ArenaTypes, PricedExactly, ~terms.streaming,
         NEW beat, beat.micros \in MinMicros..MaxMicros,
         Qualifies(beat, CurrentBar, terms.epsilon), Owed(beat) <= RemainingPool
  PROVE  /\ beat.micros - CurrentBar > 0
         /\ beat.micros - CurrentBar >= terms.epsilon
         /\ Owed(beat) = terms.rate * (beat.micros - CurrentBar)
<1> DEFINE margin == beat.micros - CurrentBar
           marginal == SaturatingSub(beat.micros, CurrentBar)
           bar == CurrentBar
<1>1. /\ MaxMicros \in Nat /\ MinMicros \in Int /\ MinMicros <= 0 /\ MaxWei \in Nat
      /\ bar \in Int /\ terms.rate \in Nat /\ terms.pool \in 0..MaxWei
      /\ RemainingPool \in 0..terms.pool /\ terms.epsilon \in Int /\ margin \in Int
  BY BarFits, MaxMicrosAssumption, MaxWeiAssumption DEF MinMicros, ArenaTypes, ArenaTerms
<1>2. marginal >= terms.epsilon /\ marginal > 0 /\ marginal = Clamp(margin)
  BY DEF Qualifies, SaturatingSub
<1>3. Owed(beat) = SaturatingMul(marginal, terms.rate)
  BY DEF Owed, BountyOwed
<1>4. \/ terms.rate = 0
      \/ terms.pool < MaxWei /\ terms.pool < terms.rate * MaxMicros
  <2>1. terms.rate * MaxMicros \in Int
    BY <1>1
  <2>2. QED
    BY <1>1, <2>1 DEF PricedExactly, Lesser
<1> HIDE DEF margin, marginal, bar
<1>5. CASE margin <= MaxMicros
  <2>1. marginal = margin
    BY <1>1, <1>2, <1>5 DEF Clamp
  <2>2. margin * terms.rate = terms.rate * margin /\ margin * terms.rate \in Int
    BY <1>1
  <2>3. margin * terms.rate <= MaxWei
    <3>1. CASE terms.rate = 0
      BY <1>1, <3>1
    <3>2. CASE terms.pool < MaxWei
      BY <1>1, <1>3, <2>1, <2>2, <3>2 DEF SaturatingMul
    <3>3. QED
      BY <1>4, <3>1, <3>2
  <2>4. QED
    BY <1>1, <1>2, <1>3, <2>1, <2>2, <2>3 DEF SaturatingMul, margin
<1>6. CASE margin > MaxMicros
  <2>1. marginal = MaxMicros
    BY <1>1, <1>2, <1>6 DEF Clamp
  <2>2. MaxMicros * terms.rate = terms.rate * MaxMicros /\ terms.rate * MaxMicros \in Int
    BY <1>1
  <2>3. terms.rate = 0
    BY <1>1, <1>3, <1>4, <2>1, <2>2 DEF SaturatingMul
  <2>4. Owed(beat) = 0 /\ terms.rate * margin = 0
    BY <1>1, <1>3, <2>1, <2>3 DEF SaturatingMul
  <2>5. QED
    BY <1>1, <1>2, <1>6, <2>1, <2>4 DEF margin
<1>7. QED
  BY <1>1, <1>5, <1>6

(* A booked record is a Take, if it is paid its margin or is a stream's. *)
LEMMA BookingTakes ==
  ASSUME ArenaTypes, PricedExactly, NEW researcher, NEW micros \in MinMicros..MaxMicros,
         NEW pay \in Nat, pay <= RemainingPool, BookRecord(researcher, micros, pay),
         micros - CurrentBar > 0,
         pay = IF terms.streaming THEN 0 ELSE terms.rate * (micros - CurrentBar),
         ~terms.streaming => micros - CurrentBar >= terms.epsilon
  PROVE  Hill!Take("arena")
<1>1. /\ terms' = terms /\ OpenTerms' = OpenTerms /\ PricedExactly'
      /\ topHolder' = researcher /\ epoch' = epoch /\ spent' = spent + pay /\ best' = micros
  BY DEF BookRecord, PricedExactly, OpenTerms
<1>2. micros # NoBest
  BY ArenaAssumption, MaxMicrosAssumption DEF MinMicros
<1>3. Standing' = [best |-> micros, holder |-> researcher, spent |-> spent + pay, epoch |-> epoch]
  BY <1>1, <1>2 DEF Standing, CurrentBar
<1>4. AllTerms' = AllTerms /\ AllStandings' = [AllStandings EXCEPT !["arena"] = AllStandings'["arena"]]
  BY <1>1 DEF AllTerms, AllStandings
<1>5. /\ AllTerms["arena"] = OpenTerms /\ AllStandings["arena"] = Standing
      /\ AllStandings'["arena"] = Standing'
  BY <1>1 DEF AllTerms, AllStandings
<1>6. /\ OpenTerms.open /\ OpenTerms.pool - Standing.spent = RemainingPool
      /\ OpenTerms.rate = terms.rate /\ OpenTerms.epsilon = terms.epsilon
      /\ (OpenTerms.streaming <=> terms.streaming)
      /\ Standing.best = CurrentBar /\ Standing.spent = spent /\ Standing.epoch = epoch
  BY DEF OpenTerms, Standing, RemainingPool
<1>7. QED
  BY <1>1, <1>3, <1>4, <1>5, <1>6
     DEF Hill!Take, Hill!Only, Hill!Left, AllTerms, AllStandings

(* An epoch that passes is a Pass. *)
LEMMA EpochPasses ==
  ASSUME ArenaTypes, PricedExactly, UNCHANGED <<terms, best, topHolder>>,
         epoch' = epoch + 1, spent' = spent + EpochCredit
  PROVE  Hill!Pass("arena")
<1>1. OpenTerms' = OpenTerms /\ PricedExactly'
  BY DEF PricedExactly, OpenTerms
<1>2. Standing' = Hill!Credited(Standing, EpochCredit)
  BY DEF Standing, CurrentBar, Hill!Credited
<1>3. AllTerms' = AllTerms /\ AllStandings' = [AllStandings EXCEPT !["arena"] = Standing']
  BY <1>1 DEF AllTerms, AllStandings
<1>4. AllTerms["arena"] = OpenTerms /\ AllStandings["arena"] = Standing
  BY DEF AllTerms, AllStandings
<1>5. /\ OpenTerms.open /\ OpenTerms.pool - Standing.spent = RemainingPool
      /\ OpenTerms.rate = terms.rate /\ (OpenTerms.streaming <=> terms.streaming)
      /\ Standing.holder = topHolder
  BY DEF OpenTerms, Standing, RemainingPool
<1>6. RemainingPool \in Int /\ terms.rate \in Int
  BY BarFits, MaxWeiAssumption
<1>7. EpochCredit = IF ~terms.streaming \/ topHolder = Nobody THEN 0
                    ELSE IF terms.rate < RemainingPool THEN terms.rate ELSE RemainingPool
  BY <1>6 DEF EpochCredit, Lesser
<1>8. QED
  BY <1>2, <1>3, <1>4, <1>5, <1>7 DEF Hill!Pass, Hill!Left, AllTerms, AllStandings

(* Every step of an arena that prices margins exactly is a step of the hill;
   one that does not has none open. *)
LEMMA HillStep == ArenaTypes /\ [ArenaNext]_arenaVars => [Hill!HillNext]_(Hill!hillVars)
<1> SUFFICES ASSUME ArenaTypes, [ArenaNext]_arenaVars
             PROVE  Hill!HillNext \/ (AllTerms' = AllTerms /\ AllStandings' = AllStandings)
  BY DEF Hill!hillVars, AllTerms, AllStandings
<1>1. CASE terms' = terms /\ ~PricedExactly
  BY <1>1 DEF AllTerms, AllStandings, OpenTerms, PricedExactly
<1>2. ASSUME PricedExactly, NEW researcher \in Researchers, NEW lift \in Lifts,
             Submit(researcher, lift)
      PROVE  Hill!HillNext
  <2> DEFINE micros == ToMicros(lift)
             beat == [researcher |-> researcher, micros |-> micros]
  <2>1. micros \in MinMicros..MaxMicros /\ beat.micros = micros
    BY MicrosFit, ArenaAssumption
  <2>2. CASE TryRecordBounty(researcher, micros)
    <3>1. /\ ~terms.streaming /\ Qualifies(beat, CurrentBar, terms.epsilon)
          /\ Owed(beat) <= RemainingPool /\ BookRecord(researcher, micros, Owed(beat))
      BY <2>2 DEF TryRecordBounty
    <3> HIDE DEF beat
    <3>2. Owed(beat) \in Nat
      BY <2>1, <3>1, OwedFits, MaxWeiAssumption
    <3>3. /\ micros - CurrentBar > 0 /\ micros - CurrentBar >= terms.epsilon
          /\ Owed(beat) = terms.rate * (micros - CurrentBar)
      BY <1>2, <2>1, <3>1, BountyIsExact
    <3>4. Hill!Take("arena")
      BY <1>2, <2>1, <3>1, <3>2, <3>3, BookingTakes
    <3>5. QED
      BY <3>4 DEF Hill!HillNext
  <2>3. CASE TryStreamingRecord(researcher, micros)
    <3>1. /\ terms.streaming /\ BookRecord(researcher, micros, 0)
          /\ Clamp(micros - CurrentBar) > 0
      BY <2>3 DEF TryStreamingRecord, Improves, SaturatingSub
    <3>2. MaxMicros \in Nat /\ MinMicros \in Int /\ MinMicros <= 0
          /\ CurrentBar \in Int /\ micros \in Int /\ RemainingPool >= 0
      BY <2>1, BarFits, MaxMicrosAssumption, MaxWeiAssumption DEF MinMicros
    <3>3. micros - CurrentBar > 0
      BY <3>1, <3>2 DEF Clamp
    <3>4. Hill!Take("arena")
      BY <1>2, <2>1, <3>1, <3>2, <3>3, BookingTakes
    <3>5. QED
      BY <3>4 DEF Hill!HillNext
  <2>4. QED
    BY <1>2, <2>2, <2>3 DEF Submit
<1>3. ASSUME PricedExactly, TickEpoch PROVE Hill!HillNext
  <2>1. CASE CreditHolder
    BY <1>3, <2>1, EpochPasses DEF CreditHolder, Hill!HillNext
  <2>2. CASE AdvanceClock
    <3>1. spent' = spent + EpochCredit
      BY <2>2 DEF AdvanceClock, standingVars, ArenaTypes
    <3>2. Hill!Pass("arena")
      BY <1>3, <2>2, <3>1, EpochPasses DEF AdvanceClock, standingVars
    <3>3. QED
      BY <3>2 DEF Hill!HillNext
  <2>3. QED
    BY <1>3, <2>1, <2>2 DEF TickEpoch
<1>4. CASE UNCHANGED arenaVars
  BY <1>4 DEF AllTerms, AllStandings, OpenTerms, Standing, CurrentBar, PricedExactly,
     arenaVars, standingVars
<1>5. terms' = terms
  BY DEF ArenaNext, Submit, TryRecordBounty, TryStreamingRecord, BookRecord, TickEpoch,
     CreditHolder, AdvanceClock, arenaVars
<1>6. QED
  BY <1>1, <1>2, <1>3, <1>4, <1>5 DEF ArenaNext

(* The operator's arena implements KingOfTheHill wherever it prices margins
   exactly: a record is paid its exact margin, once, though the code computes
   it by saturating steps, and an epoch the rate or what is left. *)
THEOREM ImplementsHill == ArenaSpec => ImplementsKingOfTheHill
<1>1. ArenaInit => Hill!HillInit
  BY DEF ArenaInit, Hill!HillInit, Hill!Fresh, OpenTerms, Standing, CurrentBar
<1>2. QED
  BY <1>1, HillStep, ArenaTypesHold, PTL
     DEF ArenaSpec, ImplementsKingOfTheHill, Hill!HillSpec

-----------------------------------------------------------------------------
(* The leaderboard log. What is in it, and how the live arena is in it: the
   holder of the top has its best record, and no record is above it; a bounty
   arena's log is its records, and replays to its bar and its payments; and a
   stream that has not run out has paid its rate for every credit logged. *)
LogEntry ==
  [epoch : Nat, researcher : Researchers, micros : MinMicros..MaxMicros,
   paid : 0..MaxWei, kind : {"Record", "EpochCredit"}]

LogTypes ==
  /\ history \in Seq(LogEntry)
  /\ topHolder \in Researchers \cup {Nobody}

TopIsLogged ==
  /\ topHolder = Nobody => history = <<>>
  /\ topHolder # Nobody =>
       /\ best # NoBest
       /\ \E i \in LogOf("Record") : history[i].researcher = topHolder /\ history[i].micros = best
  /\ \A i \in LogOf("Record") :
       \/ history[i].micros < best
       \/ history[i].micros = best /\ history[i].researcher = topHolder

Paid(log) == [i \in DOMAIN log |-> [researcher |-> log[i].researcher, wei |-> log[i].paid]]

RecordsReplay ==
  ~terms.streaming =>
    /\ LogOf("Record") = DOMAIN history
    /\ Replay(terms.baseline, history, terms.epsilon, terms.rate)
         = [best |-> CurrentBar, payouts |-> Paid(history)]

CreditsAddUp ==
  terms.streaming /\ spent < terms.pool =>
    spent = terms.rate * Cardinality(LogOf("EpochCredit"))

LogInv == ArenaTypes /\ LogTypes /\ TopIsLogged /\ RecordsReplay /\ CreditsAddUp

(* The log after one entry more. *)
LEMMA LogGrows ==
  ASSUME history \in Seq(LogEntry), NEW entry \in LogEntry, history' = Append(history, entry)
  PROVE  /\ history' \in Seq(LogEntry)
         /\ Len(history) \in Nat /\ Len(history') = Len(history) + 1
         /\ DOMAIN history = 1..Len(history) /\ DOMAIN history' = 1..(Len(history) + 1)
         /\ history'[Len(history) + 1] = entry
         /\ \A i \in DOMAIN history : history'[i] = history[i]
         /\ LogOf("Record")' = IF entry.kind = "Record"
                               THEN LogOf("Record") \cup {Len(history) + 1} ELSE LogOf("Record")
         /\ LogOf("EpochCredit")' = IF entry.kind = "EpochCredit"
                                    THEN LogOf("EpochCredit") \cup {Len(history) + 1}
                                    ELSE LogOf("EpochCredit")
<1> DEFINE n == Len(history)
<1>1. /\ history' \in Seq(LogEntry) /\ n \in Nat /\ Len(history') = n + 1
      /\ DOMAIN history = 1..n /\ DOMAIN history' = 1..(n + 1)
      /\ history'[n + 1] = entry /\ \A i \in 1..n : history'[i] = history[i]
  OBVIOUS
<1> HIDE DEF n
<1>2. ASSUME NEW kind
      PROVE  {i \in DOMAIN history' : history'[i].kind = kind}
               = IF entry.kind = kind THEN {i \in DOMAIN history : history[i].kind = kind} \cup {n + 1}
                 ELSE {i \in DOMAIN history : history[i].kind = kind}
  <2>1. \A i \in 1..(n + 1) : i \in 1..n \/ i = n + 1
    BY <1>1
  <2>2. 1..n \subseteq 1..(n + 1) /\ n + 1 \in 1..(n + 1) /\ n + 1 \notin 1..n
    BY <1>1
  <2>3. QED
    BY <1>1, <2>1, <2>2
<1>3. QED
  BY <1>1, <1>2 DEF LogOf, n

(* A credit or a record that is not in a set of finitely many. *)
LEMMA LogFinite ==
  ASSUME history \in Seq(LogEntry)
  PROVE  /\ IsFiniteSet(LogOf("Record")) /\ IsFiniteSet(LogOf("EpochCredit"))
         /\ LogOf("Record") \subseteq DOMAIN history /\ LogOf("EpochCredit") \subseteq DOMAIN history
         /\ Cardinality(LogOf("EpochCredit")) \in Nat
<1>1. DOMAIN history = 1..Len(history) /\ Len(history) \in Nat
  OBVIOUS
<1>2. IsFiniteSet(DOMAIN history)
  BY <1>1, FS_Interval
<1>3. LogOf("Record") \subseteq DOMAIN history /\ LogOf("EpochCredit") \subseteq DOMAIN history
  BY DEF LogOf
<1>4. QED
  BY <1>2, <1>3, FS_Subset, FS_CardinalityType

(* A record that is booked. *)
LEMMA RecordKeepsLog ==
  ASSUME LogInv, NEW researcher \in Researchers, NEW micros \in MinMicros..MaxMicros,
         NEW pay \in 0..MaxWei, BookRecord(researcher, micros, pay),
         Clamp(micros - CurrentBar) > 0,
         ~terms.streaming => /\ Qualifies([researcher |-> researcher, micros |-> micros],
                                          CurrentBar, terms.epsilon)
                             /\ pay = Owed([researcher |-> researcher, micros |-> micros]),
         terms.streaming => pay = 0
  PROVE  LogTypes' /\ TopIsLogged' /\ RecordsReplay' /\ CreditsAddUp'
<1> DEFINE entry == [epoch |-> epoch, researcher |-> researcher, micros |-> micros,
                     paid |-> pay, kind |-> "Record"]
           n == Len(history)
<1>1. /\ best' = micros /\ topHolder' = researcher /\ spent' = spent + pay
      /\ terms' = terms /\ epoch' = epoch /\ history' = Append(history, entry)
  BY DEF BookRecord, Log
<1>2. history \in Seq(LogEntry) /\ ArenaTypes /\ epoch \in Nat
  BY DEF LogInv, LogTypes, ArenaTypes
<1>3. entry \in LogEntry
  BY <1>2 DEF LogEntry
<1>4. /\ entry.kind = "Record" /\ entry.researcher = researcher /\ entry.micros = micros
      /\ entry.paid = pay
  OBVIOUS
<1> HIDE DEF entry
<1>5. /\ history' \in Seq(LogEntry) /\ n \in Nat /\ Len(history') = n + 1
      /\ DOMAIN history = 1..n /\ DOMAIN history' = 1..(n + 1)
      /\ history'[n + 1] = entry /\ \A i \in DOMAIN history : history'[i] = history[i]
      /\ LogOf("Record")' = LogOf("Record") \cup {n + 1}
      /\ LogOf("EpochCredit")' = LogOf("EpochCredit")
  BY <1>1, <1>2, <1>3, <1>4, LogGrows
<1>6. micros > CurrentBar
  <2>1. /\ MaxMicros \in Nat /\ MinMicros \in Int /\ MinMicros <= 0
        /\ CurrentBar \in Int /\ micros \in Int
    BY <1>2, BarFits, MaxMicrosAssumption DEF MinMicros
  <2>2. QED
    BY <2>1 DEF Clamp
<1>7. LogTypes'
  BY <1>1, <1>5 DEF LogTypes
<1>8. LogOf("Record") \subseteq DOMAIN history
  BY DEF LogOf
<1> HIDE DEF n
<1>9. TopIsLogged'
  <2>1. topHolder' # Nobody /\ best' # NoBest
    BY <1>1, ArenaAssumption, MaxMicrosAssumption DEF MinMicros
  <2>2. n + 1 \in LogOf("Record")' /\ history'[n + 1].researcher = topHolder'
        /\ history'[n + 1].micros = best'
    BY <1>1, <1>4, <1>5
  <2>3. ASSUME NEW i \in LogOf("Record")
        PROVE  history'[i].micros < best'
    <3>1. history # <<>> /\ topHolder # Nobody /\ best # NoBest
      BY <1>8 DEF LogInv, TopIsLogged
    <3>2. CurrentBar = best /\ best \in Int /\ micros \in Int
      BY <1>2, <3>1, BarFits, MaxMicrosAssumption DEF CurrentBar, MinMicros
    <3>3. history[i] \in LogEntry
      BY <1>2, <1>8
    <3>4. history[i].micros \in Int
      BY <3>3, MaxMicrosAssumption DEF LogEntry, MinMicros
    <3>5. history[i].micros <= best
      BY <3>2, <3>4 DEF LogInv, TopIsLogged
    <3>6. QED
      BY <1>1, <1>5, <1>6, <1>8, <3>2, <3>4, <3>5
  <2>4. \A i \in LogOf("Record")' :
          \/ history'[i].micros < best'
          \/ history'[i].micros = best' /\ history'[i].researcher = topHolder'
    <3>1. ASSUME NEW i \in LogOf("Record")'
          PROVE  \/ history'[i].micros < best'
                 \/ history'[i].micros = best' /\ history'[i].researcher = topHolder'
      <4>1. i \in LogOf("Record") \/ i = n + 1
        BY <1>5
      <4>2. CASE i \in LogOf("Record")
        BY <2>3, <4>2
      <4>3. CASE i = n + 1
        BY <2>2, <4>3
      <4>4. QED
        BY <4>1, <4>2, <4>3
    <3>2. QED
      BY <3>1
  <2>5. QED
    BY <2>1, <2>2, <2>4 DEF TopIsLogged
<1>10. RecordsReplay'
  <2> SUFFICES ASSUME ~terms.streaming
               PROVE  /\ LogOf("Record")' = DOMAIN history'
                      /\ Replay(terms.baseline, history', terms.epsilon, terms.rate)
                           = [best |-> micros, payouts |-> Paid(history')]
    <3>1. CurrentBar' = micros
      BY <1>1, ArenaAssumption, MaxMicrosAssumption DEF MinMicros, CurrentBar
    <3>2. QED
      BY <1>1, <3>1 DEF RecordsReplay
  <2>1. LogOf("Record")' = DOMAIN history'
    <3>1. LogOf("Record") = 1..n
      BY <1>5 DEF LogInv, RecordsReplay
    <3>2. 1..(n + 1) = 1..n \cup {n + 1}
      BY <1>5
    <3>3. QED
      BY ONLY <1>5, <3>1, <3>2
  <2> DEFINE before == Replay(terms.baseline, history, terms.epsilon, terms.rate)
             after == Replay(terms.baseline, Append(history, entry), terms.epsilon, terms.rate)
             payout == [researcher |-> researcher, wei |-> pay]
  <2>2. before = [best |-> CurrentBar, payouts |-> Paid(history)]
    BY DEF LogInv, RecordsReplay
  <2>3. after = AfterBeat(before, entry, terms.epsilon, terms.rate)
    BY <1>2, ReplayAppend
  <2>4. /\ Qualifies(entry, CurrentBar, terms.epsilon)
        /\ BountyOwed(entry, CurrentBar, terms.rate) = pay
    BY <1>4 DEF Qualifies, Owed, BountyOwed
  <2> HIDE DEF before, after
  <2>5. after = [best |-> micros, payouts |-> Append(Paid(history), payout)]
    <3>1. before.best = CurrentBar /\ before.payouts = Paid(history)
      BY <2>2
    <3>2. QED
      BY <1>4, <2>3, <2>4, <3>1 DEF AfterBeat
  <2>6. Append(Paid(history), payout) = Paid(history')
    <3> DEFINE a == Paid(history)
               b == Append(a, payout)
               c == Paid(history')
    <3>1. a \in Seq([researcher : Researchers, wei : 0..MaxWei]) /\ Len(a) = n
      <4>1. \A i \in 1..n : history[i] \in LogEntry
        BY <1>2, <1>5
      <4>2. \A i \in 1..n : [researcher |-> history[i].researcher, wei |-> history[i].paid]
                              \in [researcher : Researchers, wei : 0..MaxWei]
        BY <4>1 DEF LogEntry
      <4>3. a = [i \in 1..n |-> [researcher |-> history[i].researcher, wei |-> history[i].paid]]
        BY <1>5 DEF Paid
      <4>4. QED
        BY <1>5, <4>2, <4>3
    <3>2. \A i \in 1..n : a[i] = [researcher |-> history[i].researcher, wei |-> history[i].paid]
      BY <1>5 DEF Paid
    <3>3. b = [i \in 1..(n + 1) |-> b[i]] /\ b[n + 1] = payout /\ \A i \in 1..n : b[i] = a[i]
      BY <1>5, <3>1
    <3>4. \A i \in 1..(n + 1) :
            c[i] = [researcher |-> history'[i].researcher, wei |-> history'[i].paid]
      BY <1>5 DEF Paid
    <3>5. c = [i \in 1..(n + 1) |-> c[i]]
      BY <1>5 DEF Paid
    <3> HIDE DEF a, b, c
    <3>6. ASSUME NEW i \in 1..(n + 1) PROVE b[i] = c[i]
      <4>1. CASE i \in 1..n
        BY <1>5, <3>2, <3>3, <3>4, <4>1
      <4>2. CASE i = n + 1
        BY <1>4, <1>5, <3>3, <3>4, <4>2
      <4>3. QED
        BY <1>5, <4>1, <4>2
    <3>7. b = c
      BY ONLY <3>3, <3>5, <3>6
    <3>8. QED
      BY <3>7 DEF a, b, c
  <2>7. QED
    BY <1>1, <2>1, <2>5, <2>6 DEF after
<1>11. CreditsAddUp'
  BY <1>1, <1>2, <1>5 DEF LogInv, CreditsAddUp, ArenaTypes
<1>12. QED
  BY <1>7, <1>9, <1>10, <1>11

(* A credit. *)
LEMMA CreditKeepsLog ==
  ASSUME LogInv, CreditHolder
  PROVE  LogTypes' /\ TopIsLogged' /\ RecordsReplay' /\ CreditsAddUp'
<1> DEFINE entry == [epoch |-> epoch + 1, researcher |-> topHolder, micros |-> CurrentBar,
                     paid |-> EpochCredit, kind |-> "EpochCredit"]
           n == Len(history)
<1>1. /\ EpochCredit # 0 /\ best' = best /\ topHolder' = topHolder /\ terms' = terms
      /\ spent' = spent + EpochCredit /\ history' = Append(history, entry)
  BY DEF CreditHolder, Log
<1>2. history \in Seq(LogEntry) /\ ArenaTypes /\ epoch + 1 \in Nat
  BY DEF LogInv, LogTypes, ArenaTypes
<1>3. /\ terms.streaming /\ topHolder # Nobody /\ topHolder \in Researchers
      /\ EpochCredit = Lesser(terms.rate, RemainingPool)
  BY <1>1 DEF EpochCredit, LogInv, LogTypes
<1>4. entry \in LogEntry
  <2>1. CurrentBar \in MinMicros..MaxMicros /\ EpochCredit \in 0..MaxWei
    BY <1>2, BarFits, MaxWeiAssumption
  <2>2. QED
    BY <1>2, <1>3, <2>1 DEF LogEntry
<1>5. entry.kind = "EpochCredit"
  OBVIOUS
<1> HIDE DEF entry
<1>6. /\ history' \in Seq(LogEntry) /\ n \in Nat /\ Len(history') = n + 1
      /\ DOMAIN history = 1..n /\ history' # <<>>
      /\ \A i \in DOMAIN history : history'[i] = history[i]
      /\ LogOf("Record")' = LogOf("Record")
      /\ LogOf("EpochCredit")' = LogOf("EpochCredit") \cup {n + 1}
  BY <1>1, <1>2, <1>4, <1>5, LogGrows
<1>7. LogTypes'
  BY <1>1, <1>3, <1>6 DEF LogTypes
<1>8. TopIsLogged'
  <2>1. LogOf("Record") \subseteq DOMAIN history
    BY DEF LogOf
  <2>2. \A i \in LogOf("Record") : history'[i] = history[i]
    BY <1>6, <2>1
  <2>3. QED
    BY <1>1, <1>3, <1>6, <2>2 DEF LogInv, TopIsLogged
<1>9. RecordsReplay'
  BY <1>1, <1>3 DEF RecordsReplay
<1>10. CreditsAddUp'
  <2> SUFFICES ASSUME spent' < terms.pool
               PROVE  spent' = terms.rate * Cardinality(LogOf("EpochCredit")')
    BY <1>1 DEF CreditsAddUp
  <2>1. /\ EpochCredit \in 0..RemainingPool /\ terms.rate \in Nat /\ terms.pool \in Nat
        /\ RemainingPool = terms.pool - spent /\ spent \in Nat
    BY <1>2, BarFits, MaxWeiAssumption DEF RemainingPool, ArenaTypes
  <2>2. EpochCredit = terms.rate /\ spent < terms.pool
    BY <1>1, <1>3, <2>1 DEF Lesser
  <2>3. spent = terms.rate * Cardinality(LogOf("EpochCredit"))
    BY <1>3, <2>2 DEF LogInv, CreditsAddUp
  <2>4. /\ IsFiniteSet(LogOf("EpochCredit")) /\ n + 1 \notin LogOf("EpochCredit")
        /\ Cardinality(LogOf("EpochCredit")) \in Nat
    BY <1>2, <1>6, LogFinite
  <2>5. Cardinality(LogOf("EpochCredit")') = Cardinality(LogOf("EpochCredit")) + 1
    BY <1>6, <2>4, FS_AddElement
  <2>6. \A c \in Nat : terms.rate * (c + 1) = terms.rate * c + terms.rate
    BY <2>1
  <2>7. QED
    BY <1>1, <2>2, <2>3, <2>4, <2>5, <2>6
<1>11. QED
  BY <1>7, <1>8, <1>9, <1>10

LEMMA LogStep == LogInv /\ [ArenaNext]_arenaVars => LogInv'
<1> SUFFICES ASSUME LogInv, [ArenaNext]_arenaVars PROVE LogInv'
  OBVIOUS
<1>1. ArenaTypes /\ ArenaTypes'
  BY ArenaTypeStep DEF LogInv
<1>2. ASSUME UNCHANGED <<terms, standingVars>>
      PROVE  LogTypes' /\ TopIsLogged' /\ RecordsReplay' /\ CreditsAddUp'
  <2>1. LogOf("Record")' = LogOf("Record") /\ LogOf("EpochCredit")' = LogOf("EpochCredit")
        /\ CurrentBar' = CurrentBar
    BY <1>2 DEF standingVars, LogOf, CurrentBar
  <2>2. QED
    BY <1>2, <2>1 DEF standingVars, LogInv, LogTypes, TopIsLogged, RecordsReplay, CreditsAddUp
<1>3. ASSUME NEW researcher \in Researchers, NEW lift \in Lifts, Submit(researcher, lift)
      PROVE  LogTypes' /\ TopIsLogged' /\ RecordsReplay' /\ CreditsAddUp'
  <2> DEFINE micros == ToMicros(lift)
             beat == [researcher |-> researcher, micros |-> micros]
  <2>1. micros \in MinMicros..MaxMicros /\ beat.micros = micros
    BY MicrosFit, ArenaAssumption
  <2>2. CASE TryRecordBounty(researcher, micros)
    <3>1. /\ ~terms.streaming /\ Qualifies(beat, CurrentBar, terms.epsilon)
          /\ Owed(beat) <= RemainingPool /\ BookRecord(researcher, micros, Owed(beat))
      BY <2>2 DEF TryRecordBounty
    <3>2. Owed(beat) \in 0..MaxWei
      BY <1>1, <2>1, <3>1, OwedFits
    <3>3. Clamp(micros - CurrentBar) > 0
      BY <2>1, <3>1 DEF Qualifies, SaturatingSub
    <3>4. QED
      BY <2>1, <3>1, <3>2, <3>3, RecordKeepsLog
  <2>3. CASE TryStreamingRecord(researcher, micros)
    <3>1. /\ terms.streaming /\ BookRecord(researcher, micros, 0)
          /\ Clamp(micros - CurrentBar) > 0
      BY <2>3 DEF TryStreamingRecord, Improves, SaturatingSub
    <3>2. 0 \in 0..MaxWei
      BY MaxWeiAssumption
    <3>3. QED
      BY <2>1, <3>1, <3>2, RecordKeepsLog
  <2>4. QED
    BY <1>3, <2>2, <2>3 DEF Submit
<1>4. CASE CreditHolder
  BY <1>1, <1>4, CreditKeepsLog DEF LogInv
<1>5. CASE AdvanceClock
  BY <1>1, <1>2, <1>5 DEF AdvanceClock, LogInv
<1>6. CASE UNCHANGED arenaVars
  BY <1>1, <1>2, <1>6 DEF arenaVars, LogInv
<1>7. QED
  BY <1>1, <1>3, <1>4, <1>5, <1>6 DEF ArenaNext, TickEpoch, LogInv

LEMMA LogInitInv == ArenaInit => LogInv
<1> SUFFICES ASSUME ArenaInit PROVE LogInv
  OBVIOUS
<1>1. /\ ArenaTypes /\ best = NoBest /\ topHolder = Nobody /\ spent = 0 /\ history = <<>>
  BY ArenaInitType DEF ArenaInit
<1>2. DOMAIN history = {}
  BY <1>1
<1>3. LogOf("Record") = {} /\ LogOf("EpochCredit") = {}
  BY <1>2 DEF LogOf
<1>4. LogTypes /\ TopIsLogged
  BY <1>1, <1>3 DEF LogTypes, TopIsLogged
<1>5. RecordsReplay
  <2>1. Paid(<<>>) = <<>>
    BY DEF Paid
  <2>2. Replay(terms.baseline, <<>>, terms.epsilon, terms.rate)
          = [best |-> terms.baseline, payouts |-> <<>>]
    BY ReplayNothing
  <2>3. QED
    BY <1>1, <1>2, <1>3, <2>1, <2>2 DEF RecordsReplay, CurrentBar
<1>6. CreditsAddUp
  <2>1. terms.rate \in Nat
    BY <1>1, BarFits, MaxWeiAssumption
  <2>2. Cardinality(LogOf("EpochCredit")) = 0
    BY <1>3, FS_EmptySet
  <2>3. QED
    BY <1>1, <2>1, <2>2 DEF CreditsAddUp
<1>7. QED
  BY <1>1, <1>4, <1>5, <1>6 DEF LogInv

-----------------------------------------------------------------------------
(* The standings of a log whose top is logged begin with the top. *)
LEMMA BestIsMax ==
  ASSUME LogInv, NEW r \in Ranked
  PROVE  /\ BestOf(r) \in Int /\ BestOf(r) <= best
         /\ (BestOf(r) = best => r = topHolder)
         /\ \A i \in RecordsBy(r) : history[i].micros <= BestOf(r)
<1> DEFINE micros == {history[i].micros : i \in RecordsBy(r)}
<1>1. /\ history \in Seq(LogEntry) /\ LogOf("Record") \subseteq DOMAIN history
      /\ MaxMicros \in Nat /\ MinMicros \in Int
  BY LogFinite, MaxMicrosAssumption DEF LogInv, LogTypes, MinMicros
<1>2. PICK i \in LogOf("Record") : history[i].researcher = r
  BY DEF Ranked
<1>3. \A j \in LogOf("Record") : history[j] \in LogEntry
  BY <1>1
<1>4. \A j \in LogOf("Record") : history[j].micros \in MinMicros..MaxMicros
  BY <1>3 DEF LogEntry
<1>5. RecordsBy(r) \subseteq LogOf("Record") /\ i \in RecordsBy(r)
  BY <1>2 DEF RecordsBy
<1>6. /\ micros \subseteq Int /\ micros # {} /\ MaxMicros \in Int
      /\ \A x \in micros : x <= MaxMicros
  BY <1>1, <1>4, <1>5
<1> HIDE DEF micros
<1>7. Max(micros) \in micros /\ \A x \in micros : x <= Max(micros)
  BY <1>6, MaxExists
<1>8. BestOf(r) = Max(micros)
  BY DEF BestOf, micros
<1>9. PICK j \in RecordsBy(r) : BestOf(r) = history[j].micros
  BY <1>7, <1>8 DEF micros
<1>10. history[j].researcher = r /\ j \in LogOf("Record")
  BY <1>9 DEF RecordsBy
<1>11. best \in Int
  <2>1. topHolder # Nobody
    BY <1>1, <1>2 DEF LogInv, TopIsLogged
  <2>2. QED
    BY <1>1, <2>1 DEF LogInv, TopIsLogged, ArenaTypes
<1>12. BestOf(r) \in Int /\ BestOf(r) <= best /\ (BestOf(r) = best => r = topHolder)
  BY <1>1, <1>4, <1>9, <1>10, <1>11 DEF LogInv, TopIsLogged
<1>13. \A k \in RecordsBy(r) : history[k].micros <= BestOf(r)
  BY <1>7, <1>8 DEF micros
<1>14. QED
  BY <1>12, <1>13

LEMMA StandingsBegin == LogInv => StandingsMatchLive
<1> SUFFICES ASSUME LogInv PROVE StandingsMatchLive
  OBVIOUS
<1> DEFINE row == [r \in Ranked |-> [researcher |-> r, micros |-> BestOf(r)]]
           bests == {[researcher |-> r, micros |-> BestOf(r)] : r \in Ranked}
           order == {ab \in bests \X bests : Above(ab[1], ab[2])}
           top == [researcher |-> topHolder, micros |-> best]
<1>1. /\ history \in Seq(LogEntry) /\ LogOf("Record") \subseteq DOMAIN history
      /\ IsFiniteSet(LogOf("Record"))
  BY LogFinite DEF LogInv, LogTypes
<1>2. IsFiniteSet(Ranked)
  <2> DEFINE by == [i \in LogOf("Record") |-> history[i].researcher]
  <2>1. by \in Surjection(LogOf("Record"), Ranked)
    BY DEF Surjection, Ranked
  <2>2. QED
    BY <1>1, <2>1, FS_Surjection
<1>3. IsFiniteSet(bests)
  <2>1. row \in Surjection(Ranked, bests)
    BY DEF Surjection
  <2> HIDE DEF row, bests
  <2>2. QED
    BY <1>2, <2>1, FS_Surjection
<1>4. Ranked \subseteq Int
  <2>1. \A i \in LogOf("Record") : history[i] \in LogEntry
    BY <1>1
  <2>2. \A i \in LogOf("Record") : history[i].researcher \in Researchers
    BY <2>1 DEF LogEntry
  <2>3. Researchers \subseteq Int
    BY ArenaAssumption
  <2>4. QED
    BY ONLY <2>2, <2>3 DEF Ranked
<1>5. \A b \in bests : /\ b.researcher \in Ranked /\ b.micros = BestOf(b.researcher)
                       /\ b = [researcher |-> b.researcher, micros |-> b.micros]
                       /\ b.micros \in Int /\ b.researcher \in Int
  BY <1>4, BestIsMax
<1>6. \A a, b \in bests : a.researcher = b.researcher => a = b
  BY <1>5
<1>7. PICK s \in SetToSeqs(bests) : \A i, j \in DOMAIN s : i < j => Above(s[i], s[j])
  <2>1. \A a \in bests : <<a, a>> \notin order
    BY <1>5 DEF Above
  <2>2. \A a, b, c \in bests : <<a, b>> \in order /\ <<b, c>> \in order => <<a, c>> \in order
    <3>1. SUFFICES ASSUME NEW a \in bests, NEW b \in bests, NEW c \in bests,
                          Above(a, b), Above(b, c)
                   PROVE  Above(a, c)
      BY DEF order
    <3>2. /\ a.micros \in Int /\ a.researcher \in Int /\ b.micros \in Int
          /\ b.researcher \in Int /\ c.micros \in Int /\ c.researcher \in Int
      BY <1>5
    <3> HIDE DEF bests
    <3>3. QED
      BY <3>1, <3>2 DEF Above
  <2>3. \A a, b \in bests : a = b \/ <<a, b>> \in order \/ <<b, a>> \in order
    <3>1. SUFFICES ASSUME NEW a \in bests, NEW b \in bests, a # b
                   PROVE  Above(a, b) \/ Above(b, a)
      BY DEF order
    <3>2. a.researcher # b.researcher
      BY <1>6, <3>1
    <3>3. a.micros \in Int /\ a.researcher \in Int /\ b.micros \in Int /\ b.researcher \in Int
      BY <1>5
    <3>4. QED
      BY <3>2, <3>3 DEF Above
  <2>4. \A a, b : <<a, b>> \in order => Above(a, b)
    OBVIOUS
  <2> HIDE DEF bests, order
  <2>5. \E s \in SetToSeqs(bests) : \A i, j \in DOMAIN s : i < j => <<s[i], s[j]>> \in order
    BY <1>3, <2>1, <2>2, <2>3, Sorted
  <2>6. QED
    BY <2>4, <2>5
<1>8. /\ Standings \in SetToSeqs(bests)
      /\ \A i, j \in DOMAIN Standings : i < j => Above(Standings[i], Standings[j])
  BY <1>7 DEF Standings
<1>9. /\ Standings \in Seq(bests) /\ DOMAIN Standings = 1..Len(Standings)
      /\ ToSet(Standings) = bests
  <2> HIDE DEF bests
  <2>1. QED
    BY <1>3, <1>8, AllInOrder
<1>10. CASE topHolder = Nobody
  <2>1. Ranked = {}
    BY <1>1, <1>10 DEF LogInv, TopIsLogged, Ranked
  <2>2. bests = {}
    BY <2>1
  <2>3. Standings = <<>>
    BY <1>9, <2>2
  <2>4. QED
    BY <1>10, <2>3 DEF StandingsMatchLive
<1>11. CASE topHolder # Nobody
  <2>1. PICK i \in LogOf("Record") : history[i].researcher = topHolder /\ history[i].micros = best
    BY <1>11 DEF LogInv, TopIsLogged
  <2>2. topHolder \in Ranked /\ i \in RecordsBy(topHolder)
    BY <2>1 DEF Ranked, RecordsBy
  <2>3. BestOf(topHolder) = best /\ best \in Int
    <3>1. best \in Int
      BY <1>11, MaxMicrosAssumption DEF LogInv, TopIsLogged, ArenaTypes, MinMicros
    <3>2. QED
      BY <2>1, <2>2, <3>1, BestIsMax
  <2>4. top \in bests
    BY <2>2, <2>3
  <2> HIDE DEF bests
  <2>5. PICK k \in DOMAIN Standings : Standings[k] = top
    BY <1>9, <2>4 DEF ToSet
  <2>6. 1 \in DOMAIN Standings /\ Standings[1] \in bests /\ k \in Nat /\ k >= 1
    BY <1>9, <2>5
  <2>7. k = 1
    <3>1. SUFFICES ASSUME 1 < k PROVE FALSE
      BY <2>6
    <3>2. Above(Standings[1], top)
      BY <1>8, <2>5, <2>6, <3>1
    <3>3. /\ Standings[1].micros = BestOf(Standings[1].researcher)
          /\ Standings[1].researcher \in Ranked /\ Standings[1].researcher \in Int
      BY <1>5, <2>6
    <3>4. /\ Standings[1].micros \in Int /\ Standings[1].micros <= best
          /\ (Standings[1].micros = best => Standings[1].researcher = topHolder)
      BY <3>3, BestIsMax
    <3>5. QED
      BY <2>3, <3>2, <3>3, <3>4 DEF Above
  <2>8. Head(Standings) = top
    BY <1>9, <2>5, <2>6, <2>7
  <2>9. QED
    BY <1>11, <2>8 DEF StandingsMatchLive
<1>12. QED
  BY <1>10, <1>11

-----------------------------------------------------------------------------
(* What settle_time_at_top computes, holder by holder. *)
IsTimeAtTop(run, holders, rate) ==
  /\ SettleTimeAtTop(holders, rate) = run[Len(holders)]
  /\ run[0] = <<>>
  /\ \A i \in 1..Len(holders) : run[i] = AfterHolder(run[i - 1], holders[i], rate)

LEMMA TimeAtTopSteps ==
  ASSUME NEW holders, Len(holders) \in Nat, NEW rate
  PROVE  \E run : IsTimeAtTop(run, holders, rate)
<1> DEFINE n == Len(holders)
           run == CHOOSE g : g = [i \in 0..n |->
                    IF i = 0 THEN <<>> ELSE AfterHolder(g[i - 1], holders[i], rate)]
<1>1. FiniteNatInductiveDefHypothesis(run, <<>>,
        LAMBDA so, i : AfterHolder(so, holders[i], rate), 0, n)
  BY DEF FiniteNatInductiveDefHypothesis
<1>2. FiniteNatInductiveDefConclusion(run, <<>>,
        LAMBDA so, i : AfterHolder(so, holders[i], rate), 0, n)
  BY <1>1, FiniteNatInductiveDef
<1>3. run = [i \in 0..n |-> IF i = 0 THEN <<>> ELSE AfterHolder(run[i - 1], holders[i], rate)]
  BY <1>2 DEF FiniteNatInductiveDefConclusion
<1>4. SettleTimeAtTop(holders, rate) = run[n]
  BY DEF SettleTimeAtTop
<1>5. n \in Nat
  OBVIOUS
<1> HIDE DEF run, n
<1>6. run[0] = <<>>
  BY <1>3, <1>5
<1>7. ASSUME NEW i \in 1..n PROVE run[i] = AfterHolder(run[i - 1], holders[i], rate)
  <2>1. i \in 0..n /\ i # 0
    BY <1>5
  <2>2. QED
    BY <1>3, <2>1
<1>8. QED
  BY <1>4, <1>6, <1>7 DEF n, IsTimeAtTop

(* The credits of the log, counted per holder and priced by the settler, come
   to the rate for each of them. *)
LEMMA CreditsSettle ==
  ASSUME LogInv
  PROVE  TotalWei(SettleTimeAtTop(EpochsHeld, terms.rate))
           = terms.rate * Cardinality(LogOf("EpochCredit"))
<1> DEFINE credits == LogOf("EpochCredit")
           H == {history[i].researcher : i \in credits}
           holders == SetToSeq(H)
           m == Len(holders)
           rate == terms.rate
           rows == EpochsHeld
<1>1. /\ history \in Seq(LogEntry) /\ IsFiniteSet(credits) /\ credits \subseteq DOMAIN history
  BY LogFinite DEF LogInv, LogTypes
<1>2. rate \in Nat
  BY BarFits, MaxWeiAssumption DEF LogInv
<1>3. IsFiniteSet(H)
  <2> DEFINE by == [i \in credits |-> history[i].researcher]
  <2>1. by \in Surjection(credits, H)
    BY DEF Surjection
  <2> HIDE DEF credits, H
  <2>2. QED
    BY <1>1, <2>1, FS_Surjection
<1>4. rows = [k \in DOMAIN holders |->
                [researcher |-> holders[k], epochs |-> Cardinality(CreditsTo(holders[k]))]]
  BY DEF EpochsHeld
<1>5. \A r : CreditsTo(r) = {i \in credits : history[i].researcher = r}
  BY DEF CreditsTo
<1>6. \A i \in credits : history[i].researcher \in H
  OBVIOUS
<1> HIDE DEF credits, H, rows, rate
<1>7. /\ holders \in SetToSeqs(H) /\ holders \in Injection(1..Cardinality(H), H)
  BY <1>3, Listed
<1> HIDE DEF holders
<1>8. /\ holders \in Seq(H) /\ DOMAIN holders = 1..Len(holders) /\ ToSet(holders) = H
  BY <1>3, <1>7, AllInOrder
<1>9. \A i, j \in DOMAIN holders : holders[i] = holders[j] => i = j
  BY <1>7 DEF Injection, IsInjective
<1>10. m \in Nat /\ DOMAIN holders = 1..m /\ Len(rows) = m /\ DOMAIN rows = 1..m
  <2>1. m \in Nat /\ DOMAIN holders = 1..m
    BY <1>8
  <2>2. rows \in [1..m -> {[researcher |-> holders[k], epochs |-> Cardinality(CreditsTo(holders[k]))] : k \in 1..m}]
    BY <1>4, <2>1
  <2>3. QED
    BY <2>1, <2>2
<1>11. PICK run : IsTimeAtTop(run, rows, rate)
  <2>1. Len(rows) \in Nat
    BY <1>10
  <2> HIDE DEF m
  <2>2. QED
    BY ONLY <2>1, TimeAtTopSteps
<1> HIDE DEF m
<1> DEFINE Covered(k) == {i \in credits : \E j \in 1..k : history[i].researcher = holders[j]}
           Pay == [researcher : H, wei : Nat]
           good == {k \in Nat : k <= m => /\ run[k] \in Seq(Pay)
                                          /\ TotalWei(run[k]) = rate * Cardinality(Covered(k))}
<1>12. \A T \in SUBSET credits : IsFiniteSet(T) /\ Cardinality(T) \in Nat
  BY <1>1, FS_Subset, FS_CardinalityType
<1>13. 0 \in good
  <2>1. run[0] = <<>>
    BY <1>11 DEF IsTimeAtTop
  <2>2. Covered(0) = {}
    OBVIOUS
  <2>3. Cardinality(Covered(0)) = 0
    BY <2>2, FS_EmptySet
  <2>4. <<>> \in Seq(Pay)
    OBVIOUS
  <2> HIDE DEF Covered, Pay
  <2>5. QED
    <3>1. rate * 0 = 0
      BY <1>2
    <3>2. TotalWei(run[0]) = rate * Cardinality(Covered(0))
      BY <2>1, <2>3, <3>1, TotalNothing
    <3>3. QED
      BY <2>1, <2>4, <3>2
<1>14. ASSUME NEW k \in Nat, k \in good PROVE k + 1 \in good
  <2>1. SUFFICES ASSUME k + 1 <= m
                 PROVE  /\ run[k + 1] \in Seq(Pay)
                        /\ TotalWei(run[k + 1]) = rate * Cardinality(Covered(k + 1))
    OBVIOUS
  <2> DEFINE h == holders[k + 1]
             own == CreditsTo(h)
             c == Cardinality(own)
             t == Cardinality(Covered(k))
  <2>2. /\ k + 1 \in 1..m /\ k <= m /\ k \in Nat /\ k + 1 - 1 = k /\ \A j \in 1..k : j \in 1..m /\ j # k + 1
    BY <1>10, <2>1
  <2>3. run[k] \in Seq(Pay) /\ TotalWei(run[k]) = rate * t
    BY <1>14, <2>2
  <2>4. h \in H
    BY <1>8, <1>10, <2>2
  <2>5. Covered(k + 1) = Covered(k) \cup own
    <3>1. \A j : j \in 1..(k + 1) <=> j \in 1..k \/ j = k + 1
      BY <2>2
    <3>2. QED
      BY <1>5, <3>1
  <2>6. Covered(k) \cap own = {}
    BY <1>5, <1>9, <1>10, <2>2
  <2>7. Covered(k) \subseteq credits /\ own \subseteq credits
    BY <1>5
  <2>8. rows[k + 1].researcher = h /\ rows[k + 1].epochs = c
    BY <1>4, <1>10, <2>2
  <2>9. run[k + 1] = AfterHolder(run[k], rows[k + 1], rate)
    BY <1>10, <1>11, <2>2 DEF IsTimeAtTop
  <2> HIDE DEF Covered, own, h
  <2>10. Cardinality(Covered(k + 1)) = t + c /\ t \in Nat /\ c \in Nat
    <3>1. IsFiniteSet(Covered(k)) /\ IsFiniteSet(own) /\ t \in Nat /\ c \in Nat
      BY <1>12, <2>7
    <3>2. Cardinality(Covered(k) \cup own) = t + c - Cardinality(Covered(k) \cap own)
      BY <3>1, FS_Union
    <3>3. Cardinality(Covered(k) \cap own) = 0
      BY <2>6, FS_EmptySet
    <3>4. Cardinality(Covered(k) \cup own) = t + c
      BY ONLY <3>1, <3>2, <3>3
    <3>5. Cardinality(Covered(k + 1)) = Cardinality(Covered(k) \cup own)
      BY ONLY <2>5
    <3>6. QED
      BY ONLY <3>1, <3>4, <3>5
  <2> HIDE DEF c, t
  <2> DEFINE payout == [researcher |-> h, wei |-> c * rate]
  <2>11. run[k + 1] = IF c * rate > 0 THEN Append(run[k], payout) ELSE run[k]
    BY <2>8, <2>9 DEF AfterHolder
  <2>12. c * rate \in Nat /\ c * rate = rate * c /\ rate * (t + c) = rate * t + rate * c
         /\ rate * t \in Nat
    BY <1>2, <2>10
  <2>13. payout \in Pay /\ payout.wei = c * rate
    BY <2>4, <2>12
  <2> HIDE DEF payout, Pay
  <2>14. TotalWei(Append(run[k], payout)) = TotalWei(run[k]) + payout.wei
    BY <2>3, TotalAppend
  <2>15. CASE c * rate > 0
    BY <2>3, <2>10, <2>11, <2>12, <2>13, <2>14, <2>15
  <2>16. CASE ~(c * rate > 0)
    BY <2>3, <2>10, <2>11, <2>12, <2>16
  <2>17. QED
    BY <2>15, <2>16
<1> HIDE DEF good
<1>15. m \in good
  BY <1>10, <1>13, <1>14, Induction
<1>16. Covered(m) = credits
  <2>1. \A i \in credits : \E j \in 1..m : history[i].researcher = holders[j]
    BY <1>6, <1>8, <1>10 DEF ToSet
  <2>2. QED
    BY <2>1
<1>17. TotalWei(run[m]) = rate * Cardinality(credits)
  <2> HIDE DEF Covered
  <2>1. TotalWei(run[m]) = rate * Cardinality(Covered(m))
    BY <1>10, <1>15 DEF good
  <2>2. QED
    BY <1>16, <2>1
<1>18. SettleTimeAtTop(rows, rate) = run[m]
  BY <1>10, <1>11 DEF IsTimeAtTop
<1>19. QED
  BY <1>17, <1>18 DEF rows, rate, credits

(* ContinuousArena's log is enough to know the arena by: for any terms, scores
   and epochs, the standings it gives begin with the live top, its records
   settled afresh pay what was paid, and so do its credits until the pool is
   spent. *)
THEOREM LogReproduces == ArenaSpec => []LogReproducesArena
<1>1. LogInv => LogReproducesArena
  <2> SUFFICES ASSUME LogInv PROVE LogReproducesArena
    OBVIOUS
  <2>1. StandingsMatchLive
    BY StandingsBegin
  <2>2. ReplayReproducesPayouts
    <3>1. SUFFICES ASSUME ~terms.streaming
                   PROVE  /\ LogOf("Record") = DOMAIN history
                          /\ SettleRecordBounty(terms.baseline, history, terms.epsilon, terms.rate)
                               = Paid(history)
      BY DEF ReplayReproducesPayouts, Paid
    <3> DEFINE replay == Replay(terms.baseline, history, terms.epsilon, terms.rate)
    <3>2. LogOf("Record") = DOMAIN history /\ replay = [best |-> CurrentBar, payouts |-> Paid(history)]
      BY <3>1 DEF LogInv, RecordsReplay
    <3> HIDE DEF replay
    <3>3. replay.payouts = Paid(history)
      BY <3>2
    <3>4. QED
      BY <3>2, <3>3 DEF SettleRecordBounty, replay
  <2>3. EpochsReproduceCredits
    BY CreditsSettle DEF LogInv, CreditsAddUp, EpochsReproduceCredits
  <2>4. QED
    BY <2>1, <2>2, <2>3 DEF LogReproducesArena
<1>2. QED
  BY <1>1, LogInitInv, LogStep, PTL DEF ArenaSpec

-----------------------------------------------------------------------------
(* The training leaderboard. Its submissions and its beats, and how the beats
   list, in order, the submissions that certified. *)
Submission == [researcher : Trainers, certified : BOOLEAN, micros : MinMicros..MaxMicros,
               record : BOOLEAN, paid : 0..MaxWei]
Beat == [source : Nat, researcher : Trainers, micros : MinMicros..MaxMicros]
MarketPayment == [researcher : Trainers, wei : 0..MaxWei]

MarketTypes ==
  /\ submitted \in Seq(Submission)
  /\ beats \in Seq(Beat)
  /\ mirrored \in 0..Len(beats)
  /\ currentBest \in 0..MaxMicros
  /\ phase \in {"certifying", "settling", "done"}

BeatsAreCertified ==
  /\ \A k \in 1..Len(beats) :
       LET i == beats[k].source
       IN  /\ i \in 1..Len(submitted)
           /\ submitted[i].certified
           /\ submitted[i].researcher = beats[k].researcher
           /\ submitted[i].micros = beats[k].micros
  /\ \A k, m \in 1..Len(beats) : k < m => beats[k].source < beats[m].source
  /\ \A i \in 1..Len(submitted) :
       submitted[i].certified => \E k \in 1..Len(beats) : beats[k].source = i

(* What the second pass has found out so far: the payouts for the beats it has
   looked at, in the records it has flagged. *)
Flagged(results) == {i \in 1..Len(results) : results[i].record}

FlagsMatch(results, payouts) ==
  \E at \in [1..Len(payouts) -> Flagged(results)] :
    /\ \A k, m \in 1..Len(payouts) : k < m => at[k] < at[m]
    /\ Flagged(results) = {at[k] : k \in 1..Len(payouts)}
    /\ \A k \in 1..Len(payouts) :
         payouts[k] = [researcher |-> results[at[k]].researcher, wei |-> results[at[k]].paid]

Slack == Max({Epsilon, 1})

SecondPass ==
  /\ \E payouts \in Seq(MarketPayment) :
       /\ Replay(Baseline, SubSeq(beats, 1, mirrored), Epsilon, Rate)
            = [best |-> currentBest, payouts |-> payouts]
       /\ FlagsMatch(submitted, payouts)
       /\ Rate * MaxMicros <= MaxWei => TotalWei(payouts) = Rate * currentBest
  /\ \A i \in Flagged(submitted) : \E k \in 1..mirrored : beats[k].source = i
  /\ \A k \in 1..mirrored : beats[k].micros < currentBest + Slack

Passes ==
  /\ phase = "certifying" => mirrored = 0
  /\ phase # "certifying" => owed = SettleRecordBounty(Baseline, beats, Epsilon, Rate)
  /\ phase = "done" => mirrored = Len(beats)

MarketInv == MarketTypes /\ BeatsAreCertified /\ SecondPass /\ Passes

LEMMA SlackIs ==
  /\ Slack \in Nat /\ Slack > 0 /\ Slack >= Epsilon
  /\ \A n \in Int : n < Epsilon \/ n <= 0 => n < Slack
<1>1. Epsilon \in Nat
  BY MarketAssumption
<1>2. \E x \in {Epsilon, 1} : \A y \in {Epsilon, 1} : x >= y
  BY <1>1
<1>3. Slack \in {Epsilon, 1} /\ \A y \in {Epsilon, 1} : Slack >= y
  BY <1>2 DEF Slack, Max
<1>4. QED
  BY <1>1, <1>3

(* A prefix that gets longer by one. *)
LEMMA LongerPrefix ==
  ASSUME NEW S, NEW s \in Seq(S), NEW n \in Nat, n < Len(s)
  PROVE  /\ SubSeq(s, 1, n) \in Seq(S)
         /\ SubSeq(s, 1, n + 1) = Append(SubSeq(s, 1, n), s[n + 1])
<1>1. \A i \in 1..(n + 1) : s[i] \in S
  OBVIOUS
<1>2. \A i \in 1..n : s[i] \in S
  OBVIOUS
<1>3. /\ SubSeq(s, 1, n) \in Seq(S) /\ Len(SubSeq(s, 1, n)) = n
      /\ \A i \in 1..n : SubSeq(s, 1, n)[i] = s[i]
  BY <1>2, SubSeqProperties
<1>4. /\ SubSeq(s, 1, n + 1) \in Seq(S) /\ Len(SubSeq(s, 1, n + 1)) = n + 1
      /\ \A i \in 1..(n + 1) : SubSeq(s, 1, n + 1)[i] = s[i]
  BY <1>1, SubSeqProperties
<1>5. s[n + 1] \in S
  BY <1>1
<1> DEFINE a == SubSeq(s, 1, n)
           b == SubSeq(s, 1, n + 1)
           c == Append(a, s[n + 1])
<1>6. c \in Seq(S) /\ Len(c) = n + 1 /\ \A i \in 1..(n + 1) : c[i] = s[i]
  BY <1>3, <1>5
<1> HIDE DEF a, b, c
<1>7. b = c
  <2>1. b \in Seq(S) /\ Len(b) = n + 1 /\ \A i \in 1..(n + 1) : b[i] = s[i]
    BY <1>4 DEF b
  <2>2. \A i \in 1..Len(b) : b[i] = c[i]
    BY <1>6, <2>1
  <2>3. QED
    BY <1>6, <2>1, <2>2, SeqEqual
<1>8. QED
  BY <1>3, <1>7 DEF a, b, c

LEMMA MarketInitInv == MarketInit => MarketInv
<1> SUFFICES ASSUME MarketInit PROVE MarketInv
  OBVIOUS
<1>1. /\ submitted = <<>> /\ beats = <<>> /\ mirrored = 0 /\ currentBest = 0
      /\ phase = "certifying"
  BY DEF MarketInit, Baseline
<1>2. MarketTypes
  BY <1>1, MaxMicrosAssumption DEF MarketTypes
<1>3. BeatsAreCertified
  BY <1>1 DEF BeatsAreCertified
<1>4. SecondPass
  <2>1. Flagged(submitted) = {}
    BY <1>1 DEF Flagged
  <2>2. FlagsMatch(submitted, <<>>)
    <3>1. Len(<<>>) = 0 /\ 1..0 = {}
      OBVIOUS
    <3>2. [k \in {} |-> k] \in [{} -> {}]
      OBVIOUS
    <3>3. QED
      BY <2>1, <3>1, <3>2 DEF FlagsMatch
  <2>3. SubSeq(beats, 1, mirrored) = <<>>
    BY <1>1, SubSeqEmpty
  <2>4. Replay(Baseline, SubSeq(beats, 1, mirrored), Epsilon, Rate)
          = [best |-> currentBest, payouts |-> <<>>]
    BY <1>1, <2>3, ReplayNothing DEF Baseline
  <2>5. TotalWei(<<>>) = Rate * currentBest
    BY <1>1, TotalNothing, MarketAssumption
  <2>6. <<>> \in Seq(MarketPayment)
    OBVIOUS
  <2>7. \A k \in 1..mirrored : beats[k].micros < currentBest + Slack
    BY <1>1
  <2>8. QED
    BY <2>1, <2>2, <2>4, <2>5, <2>6, <2>7 DEF SecondPass
<1>5. QED
  BY <1>1, <1>2, <1>3, <1>4 DEF MarketInv, Passes

(* A submission more. *)
LEMMA CertifyKeeps ==
  ASSUME MarketInv, NEW researcher \in Trainers, NEW lift \in TrainedLifts,
         CertifySubmission(researcher, lift)
  PROVE  MarketInv'
<1> DEFINE clears == Clears(MarketGate, lift)
           n == Len(submitted)
           result == [researcher |-> researcher, certified |-> clears,
                      micros |-> IF clears THEN ToMicros(lift) ELSE Baseline,
                      record |-> FALSE, paid |-> 0]
           beat == [source |-> n + 1, researcher |-> researcher, micros |-> ToMicros(lift)]
<1>1. /\ phase = "certifying" /\ phase' = phase /\ mirrored' = mirrored
      /\ currentBest' = currentBest /\ owed' = owed
      /\ submitted' = Append(submitted, result)
      /\ beats' = IF clears THEN Append(beats, beat) ELSE beats
  BY DEF CertifySubmission
<1>2. /\ submitted \in Seq(Submission) /\ beats \in Seq(Beat) /\ mirrored = 0
      /\ currentBest \in 0..MaxMicros
  BY <1>1 DEF MarketInv, MarketTypes, Passes
<1>3. ToMicros(lift) \in MinMicros..MaxMicros /\ 0 \in MinMicros..MaxMicros /\ 0 \in 0..MaxWei
  BY MicrosFit, MarketAssumption, MaxMicrosAssumption, MaxWeiAssumption DEF MinMicros
<1>4. clears \in BOOLEAN
  BY DEF Clears
<1>5. result \in Submission /\ ~result.record /\ result.certified = clears
      /\ result.researcher = researcher /\ (clears => result.micros = ToMicros(lift))
  BY <1>3, <1>4 DEF Submission, Baseline
<1>6. n \in Nat /\ beat \in Beat /\ beat.source = n + 1 /\ beat.researcher = researcher
      /\ beat.micros = ToMicros(lift)
  BY <1>2, <1>3 DEF Beat
<1> HIDE DEF clears, result, beat
<1>7. /\ submitted' \in Seq(Submission) /\ Len(submitted') = n + 1 /\ submitted'[n + 1] = result
      /\ \A i \in 1..n : submitted'[i] = submitted[i]
  BY <1>1, <1>2, <1>5
<1>8. /\ beats' \in Seq(Beat) /\ Len(beats) \in Nat
      /\ Len(beats') = IF clears THEN Len(beats) + 1 ELSE Len(beats)
      /\ clears => beats'[Len(beats) + 1] = beat
      /\ \A k \in 1..Len(beats) : beats'[k] = beats[k]
  BY <1>1, <1>2, <1>6
<1>9. MarketTypes'
  BY <1>1, <1>2, <1>7, <1>8 DEF MarketTypes
<1>10. BeatsAreCertified'
  <2>1. \A k \in 1..Len(beats) : /\ beats[k].source \in 1..n
                                 /\ submitted[beats[k].source].certified
                                 /\ submitted[beats[k].source].researcher = beats[k].researcher
                                 /\ submitted[beats[k].source].micros = beats[k].micros
    BY DEF MarketInv, BeatsAreCertified
  <2>2. ASSUME NEW k \in 1..Len(beats')
        PROVE  /\ beats'[k].source \in 1..Len(submitted')
               /\ submitted'[beats'[k].source].certified
               /\ submitted'[beats'[k].source].researcher = beats'[k].researcher
               /\ submitted'[beats'[k].source].micros = beats'[k].micros
    <3>1. CASE k \in 1..Len(beats)
      BY <1>6, <1>7, <1>8, <2>1, <3>1
    <3>2. CASE k \notin 1..Len(beats)
      <4>1. clears /\ beats'[k] = beat
        BY <1>8, <3>2
      <4>2. n + 1 \in 1..Len(submitted') /\ beats'[k].source = n + 1
        BY <1>6, <1>7, <4>1
      <4>3. QED
        BY <1>5, <1>6, <1>7, <4>1, <4>2
    <3>3. QED
      BY <3>1, <3>2
  <2>3. ASSUME NEW k \in 1..Len(beats'), NEW m \in 1..Len(beats'), k < m
        PROVE  beats'[k].source < beats'[m].source
    <3>1. k \in 1..Len(beats)
      BY <1>8, <2>3
    <3>2. CASE m \in 1..Len(beats)
      BY <1>8, <2>3, <3>1, <3>2 DEF MarketInv, BeatsAreCertified
    <3>3. CASE m \notin 1..Len(beats)
      <4>1. beats'[m] = beat /\ beats'[k].source \in 1..n
        BY <1>8, <2>1, <3>1, <3>3
      <4>2. QED
        BY <1>6, <4>1
    <3>4. QED
      BY <3>2, <3>3
  <2>4. ASSUME NEW i \in 1..Len(submitted'), submitted'[i].certified
        PROVE  \E k \in 1..Len(beats') : beats'[k].source = i
    <3>1. CASE i \in 1..n
      <4>1. PICK k \in 1..Len(beats) : beats[k].source = i
        BY <1>7, <2>4, <3>1 DEF MarketInv, BeatsAreCertified
      <4>2. k \in 1..Len(beats') /\ beats'[k].source = i
        BY <1>8, <4>1
      <4>3. QED
        BY <4>2
    <3>2. CASE i \notin 1..n
      <4>1. i = n + 1 /\ clears
        BY <1>5, <1>6, <1>7, <2>4, <3>2
      <4>2. Len(beats) + 1 \in 1..Len(beats') /\ beats'[Len(beats) + 1].source = i
        BY <1>6, <1>8, <4>1
      <4>3. QED
        BY <4>2
    <3>3. QED
      BY <3>1, <3>2
  <2>5. QED
    BY <2>2, <2>3, <2>4 DEF BeatsAreCertified
<1>11. SecondPass'
  <2>1. PICK payouts \in Seq(MarketPayment) :
          /\ Replay(Baseline, SubSeq(beats, 1, mirrored), Epsilon, Rate)
               = [best |-> currentBest, payouts |-> payouts]
          /\ FlagsMatch(submitted, payouts)
          /\ Rate * MaxMicros <= MaxWei => TotalWei(payouts) = Rate * currentBest
    BY DEF MarketInv, SecondPass
  <2>2. SubSeq(beats', 1, mirrored') = SubSeq(beats, 1, mirrored)
    BY <1>1, <1>2, SubSeqEmpty
  <2>3. Flagged(submitted') = Flagged(submitted)
    <3>1. ASSUME NEW i \in 1..(n + 1) PROVE submitted'[i].record <=> i \in Flagged(submitted)
      <4>1. CASE i \in 1..n
        BY <1>7, <4>1 DEF Flagged
      <4>2. CASE i = n + 1
        BY <1>5, <1>6, <1>7, <4>2 DEF Flagged
      <4>3. QED
        BY <1>6, <4>1, <4>2
    <3>2. QED
      BY <1>6, <1>7, <3>1 DEF Flagged
  <2>4. FlagsMatch(submitted', payouts)
    <3>1. PICK at \in [1..Len(payouts) -> Flagged(submitted)] :
            /\ \A k, m \in 1..Len(payouts) : k < m => at[k] < at[m]
            /\ Flagged(submitted) = {at[k] : k \in 1..Len(payouts)}
            /\ \A k \in 1..Len(payouts) :
                 payouts[k] = [researcher |-> submitted[at[k]].researcher,
                               wei |-> submitted[at[k]].paid]
      BY <2>1 DEF FlagsMatch
    <3>2. \A i \in Flagged(submitted) : submitted'[i] = submitted[i]
      BY <1>7 DEF Flagged
    <3>3. \A k \in 1..Len(payouts) : submitted'[at[k]] = submitted[at[k]]
      BY <3>1, <3>2
    <3>4. at \in [1..Len(payouts) -> Flagged(submitted')]
      BY <2>3
    <3>5. Flagged(submitted') = {at[k] : k \in 1..Len(payouts)}
      BY <2>3, <3>1
    <3>6. \A k \in 1..Len(payouts) :
            payouts[k] = [researcher |-> submitted'[at[k]].researcher,
                          wei |-> submitted'[at[k]].paid]
      BY <3>1, <3>3
    <3>7. QED
      BY <3>1, <3>4, <3>5, <3>6 DEF FlagsMatch
  <2>5. \A i \in Flagged(submitted) : \E k \in 1..mirrored : beats[k].source = i
    BY DEF MarketInv, SecondPass
  <2>6. Flagged(submitted') = {}
    BY <1>2, <2>3, <2>5
  <2>7. Replay(Baseline, SubSeq(beats', 1, mirrored'), Epsilon, Rate)
          = [best |-> currentBest', payouts |-> payouts]
    BY <1>1, <2>1, <2>2
  <2>8. Rate * MaxMicros <= MaxWei => TotalWei(payouts) = Rate * currentBest'
    BY <1>1, <2>1
  <2>9. \A k \in 1..mirrored' : beats'[k].micros < currentBest' + Slack
    BY <1>1, <1>2
  <2>10. QED
    BY <2>4, <2>6, <2>7, <2>8, <2>9 DEF SecondPass
<1>12. QED
  BY <1>1, <1>9, <1>10, <1>11 DEF MarketInv, Passes

(* A beat of the second pass. *)
LEMMA MirrorKeeps == MarketInv /\ Mirror => MarketInv'
<1> SUFFICES ASSUME MarketInv, Mirror PROVE MarketInv'
  OBVIOUS
<1> DEFINE beat == beats[mirrored + 1]
           marginal == SaturatingSub(beat.micros, currentBest)
           wei == SaturatingMul(marginal, Rate)
           n == Len(submitted)
           src == beat.source
           prefix == SubSeq(beats, 1, mirrored)
<1>1. /\ phase = "settling" /\ mirrored < Len(beats) /\ mirrored' = mirrored + 1
      /\ beats' = beats /\ owed' = owed /\ phase' = phase
      /\ IF marginal >= Epsilon /\ marginal > 0
         THEN /\ submitted' = [submitted EXCEPT ![src].record = TRUE, ![src].paid = wei]
              /\ currentBest' = beat.micros
         ELSE submitted' = submitted /\ currentBest' = currentBest
  BY DEF Mirror, IsRecord
<1>2. /\ submitted \in Seq(Submission) /\ beats \in Seq(Beat) /\ mirrored \in 0..Len(beats)
      /\ currentBest \in 0..MaxMicros
  BY DEF MarketInv, MarketTypes
<1>3. Len(beats) \in Nat /\ mirrored \in Nat /\ mirrored + 1 \in 1..Len(beats) /\ n \in Nat
  BY <1>1, <1>2
<1>4. beat \in Beat
  BY <1>2, <1>3
<1>5. /\ src \in 1..n /\ submitted[src].certified
      /\ submitted[src].researcher = beat.researcher /\ submitted[src].micros = beat.micros
  BY <1>3 DEF MarketInv, BeatsAreCertified
<1>6. \A k \in 1..mirrored : beats[k].source < src
  BY <1>3 DEF MarketInv, BeatsAreCertified
<1>7. src \notin Flagged(submitted)
  <2>1. ASSUME src \in Flagged(submitted) PROVE FALSE
    <3>1. PICK k \in 1..mirrored : beats[k].source = src
      BY <2>1 DEF MarketInv, SecondPass
    <3>2. src \in Int
      BY <1>5
    <3>3. QED
      BY <1>6, <3>1, <3>2
  <2>2. QED
    BY <2>1
<1>8. PICK payouts \in Seq(MarketPayment) :
        /\ Replay(Baseline, prefix, Epsilon, Rate) = [best |-> currentBest, payouts |-> payouts]
        /\ FlagsMatch(submitted, payouts)
        /\ Rate * MaxMicros <= MaxWei => TotalWei(payouts) = Rate * currentBest
  BY DEF MarketInv, SecondPass
<1>9. prefix \in Seq(Beat) /\ SubSeq(beats, 1, mirrored') = Append(prefix, beat)
  BY <1>1, <1>2, <1>3, LongerPrefix
<1>10. /\ beat.micros \in MinMicros..MaxMicros /\ beat.researcher \in Trainers
       /\ MaxMicros \in Nat /\ MinMicros \in Int /\ MinMicros = -MaxMicros - 1 /\ MaxWei \in Nat
       /\ Epsilon \in Nat /\ Rate \in Nat /\ beat.micros \in Int /\ currentBest \in Int
  BY <1>2, <1>4, MaxMicrosAssumption, MaxWeiAssumption, MarketAssumption, SMTT(30) DEF Beat, MinMicros
<1> DEFINE paid == [researcher |-> beat.researcher, wei |-> wei]
<1>11. Replay(Baseline, SubSeq(beats, 1, mirrored'), Epsilon, Rate)
         = IF marginal >= Epsilon /\ marginal > 0
           THEN [best |-> beat.micros, payouts |-> Append(payouts, paid)]
           ELSE [best |-> currentBest, payouts |-> payouts]
  <2>1. Replay(Baseline, SubSeq(beats, 1, mirrored'), Epsilon, Rate)
          = AfterBeat(Replay(Baseline, prefix, Epsilon, Rate), beat, Epsilon, Rate)
    <3>1. Replay(Baseline, Append(prefix, beat), Epsilon, Rate)
            = AfterBeat(Replay(Baseline, prefix, Epsilon, Rate), beat, Epsilon, Rate)
      <4> HIDE DEF prefix, beat
      <4>1. QED
        BY <1>9, ReplayAppend
    <3>2. QED
      BY <1>9, <3>1
  <2>2. QED
    <3> DEFINE before == Replay(Baseline, prefix, Epsilon, Rate)
               after == Replay(Baseline, SubSeq(beats, 1, mirrored'), Epsilon, Rate)
    <3>1. before.best = currentBest /\ before.payouts = payouts
          /\ before = [best |-> currentBest, payouts |-> payouts]
      BY <1>8
    <3>2. after = AfterBeat(before, beat, Epsilon, Rate)
      BY <2>1
    <3> HIDE DEF before, after, beat
    <3>3. QED
      BY <3>1, <3>2 DEF AfterBeat, Qualifies, BountyOwed, after
<1> HIDE DEF beat, marginal, wei, n, src, prefix, paid
<1>12. CASE marginal >= Epsilon /\ marginal > 0
  <2>1. /\ submitted' = [submitted EXCEPT ![src].record = TRUE, ![src].paid = wei]
        /\ currentBest' = beat.micros
    BY <1>1, <1>12
  <2>2. beat.micros - currentBest > 0 /\ marginal = beat.micros - currentBest /\ marginal \in Nat
    BY <1>2, <1>10, <1>12 DEF marginal, SaturatingSub, Clamp
  <2>3. wei \in 0..MaxWei
    <3>1. marginal * Rate \in Nat
      BY <1>10, <2>2
    <3>2. QED
      BY <1>10, <3>1 DEF wei, SaturatingMul
  <2>4. /\ submitted' \in Seq(Submission) /\ Len(submitted') = n
        /\ \A i \in 1..n : i # src => submitted'[i] = submitted[i]
        /\ submitted'[src] = [submitted[src] EXCEPT !.record = TRUE, !.paid = wei]
    <3>1. submitted[src] \in Submission
      BY <1>2, <1>5 DEF n
    <3>2. [submitted[src] EXCEPT !.record = TRUE, !.paid = wei] \in Submission
      BY <2>3, <3>1 DEF Submission
    <3>3. submitted' = [submitted EXCEPT ![src] = [submitted[src] EXCEPT !.record = TRUE, !.paid = wei]]
      BY <1>2, <1>5, <2>1, <3>1 DEF n, Submission
    <3>4. DOMAIN submitted = 1..n /\ Len(submitted') = n
      BY <1>2, <3>2, <3>3 DEF n
    <3>5. submitted' \in Seq(Submission)
      BY <1>2, <1>5, <3>2, <3>3, ExceptSeq DEF n
    <3>6. QED
      BY <1>5, <3>3, <3>4, <3>5
  <2>5. /\ submitted'[src].record /\ submitted'[src].paid = wei
        /\ submitted'[src].certified = submitted[src].certified
        /\ submitted'[src].researcher = submitted[src].researcher
        /\ submitted'[src].micros = submitted[src].micros
    <3>1. submitted[src] \in Submission
      BY <1>2, <1>5 DEF n
    <3>2. QED
      BY <2>4, <3>1 DEF Submission
  <2>6. MarketTypes'
    BY <1>1, <1>2, <1>3, <1>10, <2>1, <2>2, <2>4, SMTT(30) DEF MarketTypes, MarketInv
  <2>7. BeatsAreCertified'
    <3>1. \A i \in 1..n : /\ submitted'[i].certified = submitted[i].certified
                          /\ submitted'[i].researcher = submitted[i].researcher
                          /\ submitted'[i].micros = submitted[i].micros
      BY <2>4, <2>5
    <3>2. QED
      BY <1>1, <2>4, <3>1, SMTT(30) DEF MarketInv, BeatsAreCertified, n
  <2>8. Flagged(submitted') = Flagged(submitted) \cup {src}
    <3>1. ASSUME NEW i \in 1..n PROVE i \in Flagged(submitted') <=> i \in Flagged(submitted) \cup {src}
      BY <1>5, <2>4, <2>5 DEF Flagged, n
    <3>2. QED
      BY <1>5, <2>4, <3>1 DEF Flagged, n
  <2>9. FlagsMatch(submitted', Append(payouts, paid))
    <3>1. PICK at \in [1..Len(payouts) -> Flagged(submitted)] :
            /\ \A k, m \in 1..Len(payouts) : k < m => at[k] < at[m]
            /\ Flagged(submitted) = {at[k] : k \in 1..Len(payouts)}
            /\ \A k \in 1..Len(payouts) :
                 payouts[k] = [researcher |-> submitted[at[k]].researcher,
                               wei |-> submitted[at[k]].paid]
      BY <1>8 DEF FlagsMatch
    <3> DEFINE p == Len(payouts)
               more == Append(payouts, paid)
               to == [k \in 1..(p + 1) |-> IF k = p + 1 THEN src ELSE at[k]]
    <3>2. /\ p \in Nat /\ Len(more) = p + 1 /\ more[p + 1] = paid
          /\ \A k \in 1..p : more[k] = payouts[k]
      BY <1>8
    <3>3. to[p + 1] = src /\ \A k \in 1..p : to[k] = at[k]
      BY <3>2
    <3>4. \A k \in 1..p : at[k] \in Flagged(submitted) /\ at[k] < src
      <4>1. \A k \in 1..p : at[k] \in Flagged(submitted)
        BY <3>1
      <4>2. \A i \in Flagged(submitted) : i < src
        BY <1>6 DEF MarketInv, SecondPass
      <4>3. QED
        BY <4>1, <4>2
    <3>5. to \in [1..(p + 1) -> Flagged(submitted')]
      BY <2>8, <3>2, <3>4
    <3> HIDE DEF p, more, to
    <3>6. \A k, m \in 1..(p + 1) : k < m => to[k] < to[m]
      <4>1. ASSUME NEW k \in 1..(p + 1), NEW m \in 1..(p + 1), k < m PROVE to[k] < to[m]
        <5>1. k \in 1..p
          BY <3>2, <4>1
        <5>2. CASE m = p + 1
          BY <3>3, <3>4, <5>1, <5>2
        <5>3. CASE m \in 1..p
          BY <3>1, <3>3, <4>1, <5>1, <5>3 DEF p
        <5>4. QED
          BY <3>2, <5>2, <5>3
      <4>2. QED
        BY <4>1
    <3>7. Flagged(submitted') = {to[k] : k \in 1..(p + 1)}
      <4>1. ASSUME NEW i \in Flagged(submitted) PROVE \E k \in 1..(p + 1) : to[k] = i
        <5>1. PICK k \in 1..p : at[k] = i
          BY <3>1 DEF p
        <5>2. QED
          BY <3>2, <3>3, <5>1
      <4>2. p + 1 \in 1..(p + 1)
        BY <3>2
      <4>3. QED
        BY <2>8, <3>3, <3>5, <4>1, <4>2
    <3>8. \A k \in 1..(p + 1) :
            more[k] = [researcher |-> submitted'[to[k]].researcher, wei |-> submitted'[to[k]].paid]
      <4>1. ASSUME NEW k \in 1..p
            PROVE  more[k] = [researcher |-> submitted'[to[k]].researcher,
                              wei |-> submitted'[to[k]].paid]
        <5>1. at[k] \in 1..n /\ at[k] # src
          BY <1>7, <3>4 DEF Flagged, n
        <5>2. QED
          BY <2>4, <3>1, <3>2, <3>3, <5>1 DEF p
      <4>2. more[p + 1] = [researcher |-> submitted'[to[p + 1]].researcher,
                           wei |-> submitted'[to[p + 1]].paid]
        BY <1>5, <2>5, <3>2, <3>3 DEF paid
      <4>3. QED
        <5>1. \A k \in 1..(p + 1) : k \in 1..p \/ k = p + 1
          BY <3>2
        <5>2. QED
          BY <4>1, <4>2, <5>1
    <3>9. FlagsMatch(submitted', more)
      BY <3>2, <3>5, <3>6, <3>7, <3>8, ZenonT(30) DEF FlagsMatch
    <3>10. QED
      BY <3>9 DEF more
  <2>10. ASSUME Rate * MaxMicros <= MaxWei
         PROVE  TotalWei(Append(payouts, paid)) = Rate * currentBest'
    <3>1. TotalWei(Append(payouts, paid)) = TotalWei(payouts) + wei
      BY TotalAppend DEF paid
    <3>2. marginal * Rate = Rate * marginal /\ Rate * marginal <= Rate * MaxMicros
          /\ Rate * marginal \in Nat /\ Rate * MaxMicros \in Nat
      <4>1. marginal <= MaxMicros
        BY <1>2, <1>10, <2>2
      <4>2. QED
        BY ONLY <1>10, <2>2, <4>1
    <3>3. wei = Rate * marginal
      BY <1>10, <2>10, <3>2 DEF wei, SaturatingMul
    <3>4. Rate * currentBest + Rate * (beat.micros - currentBest) = Rate * beat.micros
      BY <1>10
    <3>5. QED
      BY <1>8, <2>1, <2>2, <2>10, <3>1, <3>3, <3>4
  <2>11. \A k \in 1..mirrored' : beats'[k].micros < currentBest' + Slack
    <3>1. ASSUME NEW k \in 1..mirrored PROVE beats[k].micros < beat.micros + Slack
      <4>1. beats[k].micros < currentBest + Slack
        BY DEF MarketInv, SecondPass
      <4>2. beats[k].micros \in Int
        <5>1. k \in 1..Len(beats)
          BY <1>3
        <5>2. QED
          <6>1. beats[k] \in Beat
            BY <1>2, <5>1
          <6>2. QED
            BY <1>10, <6>1 DEF Beat
      <4>3. QED
        BY <1>10, <2>2, <4>1, <4>2, SlackIs
    <3>2. beat.micros < beat.micros + Slack
      BY <1>10, SlackIs
    <3>3. QED
      BY <1>1, <1>3, <2>1, <3>1, <3>2 DEF beat
  <2>12. \A i \in Flagged(submitted') : \E k \in 1..mirrored' : beats'[k].source = i
    <3>1. ASSUME NEW i \in Flagged(submitted) PROVE \E k \in 1..(mirrored + 1) : beats[k].source = i
      BY <1>3 DEF MarketInv, SecondPass
    <3>2. mirrored + 1 \in 1..(mirrored + 1) /\ beats[mirrored + 1].source = src
      BY <1>3 DEF src, beat
    <3>3. QED
      BY <1>1, <2>8, <3>1, <3>2
  <2>13. Append(payouts, paid) \in Seq(MarketPayment)
    <3>1. paid \in MarketPayment
      BY <1>10, <2>3 DEF paid, MarketPayment
    <3>2. QED
      BY <1>8, <3>1
  <2>14. SecondPass'
    <3>1. Replay(Baseline, SubSeq(beats', 1, mirrored'), Epsilon, Rate)
            = [best |-> currentBest', payouts |-> Append(payouts, paid)]
      BY <1>1, <1>11, <1>12, <2>1
    <3>2. QED
      BY <2>9, <2>10, <2>11, <2>12, <2>13, <3>1 DEF SecondPass
  <2>15. QED
    BY <1>1, <2>6, <2>7, <2>14 DEF MarketInv, Passes
<1>13. CASE ~(marginal >= Epsilon /\ marginal > 0)
  <2>1. submitted' = submitted /\ currentBest' = currentBest
    BY <1>1, <1>13
  <2>2. MarketTypes' /\ BeatsAreCertified'
    BY <1>1, <1>2, <1>3, <2>1 DEF MarketInv, MarketTypes, BeatsAreCertified
  <2>3. beat.micros < currentBest + Slack
    <3>1. marginal \in Int /\ marginal < Slack
      BY <1>2, <1>10, <1>13, SlackIs DEF marginal, SaturatingSub, Clamp
    <3>2. QED
      BY <1>2, <1>10, <3>1, SlackIs DEF marginal, SaturatingSub, Clamp
  <2>4. \A k \in 1..mirrored' : beats'[k].micros < currentBest' + Slack
    <3>1. \A k \in 1..mirrored : beats[k].micros < currentBest + Slack
      BY DEF MarketInv, SecondPass
    <3>2. QED
      BY <1>1, <1>3, <2>1, <2>3, <3>1 DEF beat
  <2>5. Flagged(submitted') = Flagged(submitted)
    BY <2>1 DEF Flagged
  <2>6. \A i \in Flagged(submitted') : \E k \in 1..mirrored' : beats'[k].source = i
    BY <1>1, <1>3, <2>5 DEF MarketInv, SecondPass
  <2>7. FlagsMatch(submitted', payouts)
    BY <1>8, <2>1, <2>5 DEF FlagsMatch
  <2>8. SecondPass'
    <3>1. Replay(Baseline, SubSeq(beats', 1, mirrored'), Epsilon, Rate)
            = [best |-> currentBest', payouts |-> payouts]
      BY <1>1, <1>11, <1>13, <2>1
    <3>2. QED
      BY <1>8, <2>1, <2>4, <2>6, <2>7, <3>1 DEF SecondPass
  <2>9. QED
    BY <1>1, <2>2, <2>8 DEF MarketInv, Passes
<1>14. QED
  BY <1>12, <1>13

LEMMA MarketStep == MarketInv /\ [MarketNext]_marketVars => MarketInv'
<1> SUFFICES ASSUME MarketInv, [MarketNext]_marketVars PROVE MarketInv'
  OBVIOUS
<1>1. ASSUME UNCHANGED <<submitted, beats, mirrored, currentBest>>
      PROVE  /\ MarketTypes' <=> (MarketTypes /\ phase' \in {"certifying", "settling", "done"})
             /\ BeatsAreCertified' /\ SecondPass'
  <2>1. Flagged(submitted') = Flagged(submitted)
    BY <1>1 DEF Flagged
  <2>2. \A payouts : FlagsMatch(submitted', payouts) <=> FlagsMatch(submitted, payouts)
    BY <1>1, <2>1 DEF FlagsMatch
  <2>3. QED
    BY <1>1, <2>1, <2>2 DEF MarketInv, MarketTypes, BeatsAreCertified, SecondPass
<1>2. CASE SettleBeats
  BY <1>1, <1>2 DEF SettleBeats, MarketInv, MarketTypes, Passes
<1>3. CASE Finish
  BY <1>1, <1>3 DEF Finish, MarketInv, MarketTypes, Passes
<1>4. CASE UNCHANGED marketVars
  BY <1>1, <1>4 DEF marketVars, MarketInv, MarketTypes, Passes
<1>5. QED
  BY <1>2, <1>3, <1>4, CertifyKeeps, MirrorKeeps DEF MarketNext

(* ContinuousTrainingMarket::run, for any trainers, gate, epsilon, rate and
   submissions: the market's own account of the records and their bounties is
   the settler's, and the frontier is paid for once. *)
THEOREM FrontierBoughtOnce == MarketSpec => []FrontierIsBoughtOnce
<1>1. MarketInv => FrontierIsBoughtOnce
  <2> SUFFICES ASSUME MarketInv, phase = "done"
               PROVE  /\ Mirrored
                      /\ \A i \in DOMAIN submitted : submitted[i].record => submitted[i].certified
                      /\ Rate * MaxMicros <= MaxWei => TotalWei(owed) = Rate * (currentBest - Baseline)
                      /\ \A i \in DOMAIN submitted : submitted[i].certified =>
                           submitted[i].micros < currentBest + Max({Epsilon, 1})
    BY DEF FrontierIsBoughtOnce
  <2>1. /\ beats \in Seq(Beat) /\ submitted \in Seq(Submission) /\ mirrored = Len(beats)
        /\ currentBest \in Int /\ DOMAIN submitted = 1..Len(submitted)
    BY MaxMicrosAssumption DEF MarketInv, MarketTypes, Passes
  <2>2. SubSeq(beats, 1, mirrored) = beats
    BY <2>1, SubSeqFull
  <2>3. PICK payouts \in Seq(MarketPayment) :
          /\ Replay(Baseline, SubSeq(beats, 1, mirrored), Epsilon, Rate)
               = [best |-> currentBest, payouts |-> payouts]
          /\ FlagsMatch(submitted, payouts)
          /\ Rate * MaxMicros <= MaxWei => TotalWei(payouts) = Rate * currentBest
    BY DEF MarketInv, SecondPass
  <2>4. owed = payouts
    <3>1. owed = Replay(Baseline, beats, Epsilon, Rate).payouts
      BY DEF MarketInv, Passes, SettleRecordBounty
    <3>2. Replay(Baseline, beats, Epsilon, Rate) = [best |-> currentBest, payouts |-> payouts]
      BY <2>2, <2>3
    <3>3. [best |-> currentBest, payouts |-> payouts].payouts = payouts
      OBVIOUS
    <3>4. QED
      BY <3>1, <3>2, <3>3
  <2>5. DOMAIN owed = 1..Len(owed)
    BY <2>3, <2>4
  <2>6. Mirrored
    BY <2>1, <2>3, <2>4, <2>5 DEF FlagsMatch, Flagged, Mirrored
  <2>7. ASSUME NEW i \in DOMAIN submitted, submitted[i].record PROVE submitted[i].certified
    BY <2>1, <2>7 DEF Flagged, MarketInv, SecondPass, BeatsAreCertified
  <2>8. currentBest - Baseline = currentBest
    BY <2>1 DEF Baseline
  <2>9. ASSUME NEW i \in DOMAIN submitted, submitted[i].certified
        PROVE  submitted[i].micros < currentBest + Max({Epsilon, 1})
    <3>1. PICK k \in 1..Len(beats) : beats[k].source = i
      BY <2>1, <2>9 DEF MarketInv, BeatsAreCertified
    <3>2. submitted[i].micros = beats[k].micros
      BY <3>1 DEF MarketInv, BeatsAreCertified
    <3>3. QED
      BY <2>1, <3>2 DEF MarketInv, SecondPass, Slack
  <2>10. QED
    BY <2>3, <2>4, <2>6, <2>7, <2>8, <2>9
<1>2. QED
  BY <1>1, MarketInitInv, MarketStep, PTL DEF MarketSpec

=============================================================================
