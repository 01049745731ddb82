-------------------------- MODULE DisputeCommittee --------------------------
(***************************************************************************)
(* A challenged certification (autoresearch-protocol's dispute.rs): the    *)
(* committee re-scores the candidate one validator after another, their    *)
(* verdicts are counted against an m-of-n quorum, and the outcome decides  *)
(* what becomes of the two stakes. Re-scoring is deterministic, so honest  *)
(* validators find the same; a faulty one reports what it likes.           *)
(***************************************************************************)
EXTENDS SlashArithmetic, FiniteSets

CONSTANTS
  Validators,
  NoVerdict,  \* a validator that has not reported
  Pending,    \* the outcome and the resolution before there are any
  Quorums,    \* bound: the m a competition may configure
  Stakes,     \* bound: the stakes of the two parties
  Policies    \* bound: the slash policies

ASSUME CommitteeAssumption ==
  /\ IsFiniteSet(Validators)
  /\ NoVerdict \notin BOOLEAN
  /\ Pending \notin Outcomes \cup SlashResolution
  /\ Quorums \subseteq Nat
  /\ Stakes \subseteq 0..MaxWei
  /\ Policies \subseteq SlashPolicy

VARIABLES
  original,         \* the certified decision: the candidate clears the gate
  truth,            \* what re-scoring it finds
  faulty,           \* the validators that may misreport
  quorum, policy, researcherStake, challengerStake,  \* the dispute's terms
  verdicts,         \* validator -> clears, or NoVerdict
  stage, outcome, resolution

termsOfDispute ==
  <<original, truth, faulty, quorum, policy, researcherStake, challengerStake>>

disputeVars == <<termsOfDispute, verdicts, stage, outcome, resolution>>

TypeOK ==
  /\ original \in BOOLEAN
  /\ truth \in BOOLEAN
  /\ faulty \subseteq Validators
  /\ quorum \in Quorums
  /\ policy \in Policies
  /\ researcherStake \in Stakes
  /\ challengerStake \in Stakes
  /\ verdicts \in [Validators -> BOOLEAN \cup {NoVerdict}]
  /\ stage \in {"collecting", "resolved", "aborted"}
  /\ outcome \in Outcomes \cup {Pending}
  /\ resolution \in SlashResolution \cup {Pending}

Init ==
  /\ original \in BOOLEAN
  /\ truth \in BOOLEAN
  /\ faulty \in SUBSET Validators
  /\ quorum \in Quorums
  /\ policy \in Policies
  /\ researcherStake \in Stakes
  /\ challengerStake \in Stakes
  /\ verdicts = [v \in Validators |-> NoVerdict]
  /\ stage = "collecting"
  /\ outcome = Pending
  /\ resolution = Pending

-----------------------------------------------------------------------------
Waiting == {v \in Validators : verdicts[v] = NoVerdict}

Reports(v) == IF v \in faulty THEN BOOLEAN ELSE {truth}

Rescore(v) ==
  /\ stage = "collecting"
  /\ v \in Waiting
  /\ \E clears \in Reports(v) : verdicts' = [verdicts EXCEPT ![v] = clears]
  /\ UNCHANGED <<termsOfDispute, stage, outcome, resolution>>

(* The surface refuses the candidate, or the scorer fails: no verdict at all. *)
Abort ==
  /\ stage = "collecting"
  /\ Waiting # {}
  /\ stage' = "aborted"
  /\ UNCHANGED <<termsOfDispute, verdicts, outcome, resolution>>

Agreeing == {v \in Validators : verdicts[v] = original}

Needed == IF quorum = 0 THEN 1 ELSE quorum

(* Mutant of CommitteeVerdict: no strict majority, and a tie overturns. *)
EitherQuorum ==
  LET agree == Cardinality(Agreeing)
      disagree == Cardinality(Validators) - agree
  IN  IF disagree >= Needed THEN "Overturned"
      ELSE IF agree >= Needed THEN "Upheld" ELSE "Inconclusive"

CommitteeVerdict ==
  LET n == Cardinality(Validators)
      agree == Cardinality(Agreeing)
      disagree == n - agree
  IN  IF 2 * Needed <= n THEN "Inconclusive"
      ELSE IF agree >= Needed /\ disagree < Needed THEN "Upheld"
      ELSE IF disagree >= Needed /\ agree < Needed THEN "Overturned"
      ELSE "Inconclusive"

Resolve ==
  /\ stage = "collecting"
  /\ Waiting = {}
  /\ stage' = "resolved"
  /\ outcome' = CommitteeVerdict
  /\ resolution' =
       Resolution(CommitteeVerdict, researcherStake, challengerStake, policy)
  /\ UNCHANGED <<termsOfDispute, verdicts>>

Next == (\E v \in Validators : Rescore(v)) \/ Abort \/ Resolve

Spec == Init /\ [][Next]_disputeVars

-----------------------------------------------------------------------------
FaultyAreMinority == 2 * Cardinality(faulty) <= Cardinality(Validators)

(* Unless more than half of the committee is faulty, whoever is right keeps
   its stake, whatever quorum the competition configured. *)
WhoeverIsRightKeepsItsStake ==
  stage = "resolved" /\ FaultyAreMinority =>
    IF truth = original THEN resolution.researcherRefund >= researcherStake
    ELSE resolution.challengerRefund >= challengerStake

(* Wei is moved, never minted: the code's own check accepts what is resolved,
   and a party gets no more than it kept and what was taken from the other. *)
StakesOnlyMove ==
  stage = "resolved" /\ researcherStake + challengerStake <= MaxWei =>
    /\ Conserves(resolution, researcherStake, challengerStake)
    /\ resolution.researcherRefund <=
         researcherStake - resolution.researcherSlashed + resolution.challengerSlashed
    /\ resolution.challengerRefund + resolution.challengerReward <=
         challengerStake - resolution.challengerSlashed + resolution.researcherSlashed

(* The contract accepts the resolution as its slash and reward, and pays the
   challenger what the resolution says. *)
ChainPaysTheChallenger ==
  stage = "resolved" =>
    /\ AcceptedOnChain(resolution, researcherStake)
    /\ ChallengerPaidOnChain(outcome, resolution, challengerStake) =
         resolution.challengerReward + resolution.challengerRefund

=============================================================================
