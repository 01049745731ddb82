-------------------------- MODULE CompetitionStore --------------------------
(***************************************************************************)
(* The operator's working set of live competitions (autoresearch-          *)
(* protocol's store.rs): who joined with what stake, what was committed,   *)
(* revealed and certified, and where each competition stands. Every method *)
(* takes &mut self, so it is one atomic step; one that returns an error    *)
(* changes nothing and is no step.                                         *)
(***************************************************************************)
EXTENDS WeiArithmetic

CONSTANTS
  CompetitionIds, Researchers,
  Commitments,   \* the commitment strings, which are also the candidate ids
  Artifacts,     \* the artifact references that may be forwarded by a reveal
  Certificates,  \* the evidence a Referee may attach
  None,          \* Option::None, and the value of an absent map key
  Floors,        \* bound: the stake floors a policy may set
  Stakes         \* bound: what a join may post

Status == {"Draft", "Open", "Submitting", "Scoring", "Settling", "Closed"}

ASSUME StoreAssumption ==
  /\ None \notin Status \cup Artifacts \cup Certificates \cup Nat
  /\ Floors \subseteq 0..MaxWei
  /\ Stakes \subseteq 0..MaxWei

VARIABLES
  status,       \* id -> Status, or None
  floor,        \* id -> stake_policy.min_stake_wei
  researchers,  \* id -> researcher -> stake_wei, or None
  candidates    \* id -> commitment -> CandidateRecord, or None

storeVars == <<status, floor, researchers, candidates>>

(* The candidate's id and commitment are the key it is stored under. *)
CandidateRecord ==
  [researcher : Researchers, artifactRef : Artifacts \cup {None},
   evidence : Certificates \cup {None}]

TypeOK ==
  /\ status \in [CompetitionIds -> Status \cup {None}]
  /\ floor \in [CompetitionIds -> Nat]
  /\ researchers \in [CompetitionIds -> [Researchers -> (0..MaxWei) \cup {None}]]
  /\ candidates \in [CompetitionIds -> [Commitments -> CandidateRecord \cup {None}]]

Init ==
  /\ status = [id \in CompetitionIds |-> None]
  /\ floor = [id \in CompetitionIds |-> 0]
  /\ researchers = [id \in CompetitionIds |-> [r \in Researchers |-> None]]
  /\ candidates = [id \in CompetitionIds |-> [k \in Commitments |-> None]]

-----------------------------------------------------------------------------
(* create is the case minStake = 0. *)
CreateWithPolicy(id, minStake) ==
  /\ status[id] = None
  /\ status' = [status EXCEPT ![id] = "Draft"]
  /\ floor' = [floor EXCEPT ![id] = minStake]
  /\ UNCHANGED <<researchers, candidates>>

CanTransitionTo ==
  {<<"Draft", "Open">>, <<"Open", "Submitting">>, <<"Submitting", "Scoring">>,
   <<"Scoring", "Settling">>, <<"Settling", "Closed">>}

(* Mutant of Forward: a competition may be reopened while it is scored. *)
MayReopen(from, to) ==
  <<from, to>> \in CanTransitionTo \cup {<<"Scoring", "Submitting">>}

Forward(from, to) == <<from, to>> \in CanTransitionTo

Transition(id, to) ==
  /\ Forward(status[id], to)
  /\ status' = [status EXCEPT ![id] = to]
  /\ UNCHANGED <<floor, researchers, candidates>>

Admits(id, posted) == posted >= floor[id]

Prior(id, r) == IF researchers[id][r] = None THEN 0 ELSE researchers[id][r]

Accumulate(id, r, stake) == SaturatingAdd(Prior(id, r), stake)

Join(id, r, stake) ==
  LET total == Accumulate(id, r, stake)
  IN  /\ status[id] = "Open"
      /\ Admits(id, total)
      /\ researchers' = [researchers EXCEPT ![id][r] = total]
      /\ UNCHANGED <<status, floor, candidates>>

MayCommit(id, r) == researchers[id][r] # None /\ Admits(id, researchers[id][r])

Commit(id, r, commitment) ==
  /\ status[id] = "Submitting"
  /\ MayCommit(id, r)
  /\ candidates[id][commitment] = None
  /\ candidates' = [candidates EXCEPT ![id][commitment] =
       [researcher |-> r, artifactRef |-> None, evidence |-> None]]
  /\ UNCHANGED <<status, floor, researchers>>

(* The hash is checked on chain; here only that the reveal names the candidate. *)
Reveal(id, candidate, expected, artifact) ==
  /\ status[id] = "Submitting"
  /\ candidates[id][candidate] # None
  /\ candidate = expected
  /\ candidates' = [candidates EXCEPT ![id][candidate].artifactRef = artifact]
  /\ UNCHANGED <<status, floor, researchers>>

(* Mutant of Certifiable: evidence may arrive in any phase. *)
CertifiableAlways(id) == status[id] # None

Certifiable(id) == status[id] = "Scoring"

RecordEvidence(id, candidate, certificate) ==
  /\ Certifiable(id)
  /\ candidates[id][candidate] # None
  /\ candidates' = [candidates EXCEPT ![id][candidate].evidence = certificate]
  /\ UNCHANGED <<status, floor, researchers>>

Next ==
  \E id \in CompetitionIds :
    \/ \E minStake \in Floors : CreateWithPolicy(id, minStake)
    \/ \E to \in Status : Transition(id, to)
    \/ \E r \in Researchers :
         \/ \E stake \in Stakes : Join(id, r, stake)
         \/ \E commitment \in Commitments : Commit(id, r, commitment)
    \/ \E candidate \in Commitments :
         \/ \E expected \in Commitments, artifact \in Artifacts :
              Reveal(id, candidate, expected, artifact)
         \/ \E certificate \in Certificates : RecordEvidence(id, candidate, certificate)

Spec == Init /\ [][Next]_storeVars

-----------------------------------------------------------------------------
Submitted(id) == {k \in Commitments : candidates[id][k] # None}

(* What is scored is what was submitted: from the first certificate on, no
   candidate appears, disappears or changes its author or its artifact. *)
ScoredAsSubmitted ==
  [][\A id \in CompetitionIds :
       (\E k \in Submitted(id) : candidates[id][k].evidence # None) =>
         \A k \in Commitments :
           IF candidates[id][k] = None THEN candidates'[id][k] = None
           ELSE /\ candidates'[id][k].researcher = candidates[id][k].researcher
                /\ candidates'[id][k].artifactRef = candidates[id][k].artifactRef
    ]_storeVars

(* What a payout is computed from does not move while it is computed. *)
EvidenceFinalWhenSettling ==
  [][\A id \in CompetitionIds : status[id] \in {"Settling", "Closed"} =>
       candidates'[id] = candidates[id]]_storeVars

=============================================================================
