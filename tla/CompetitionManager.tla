------------------------- MODULE CompetitionManager -------------------------
(***************************************************************************)
(* The settlement spine of contracts/src/CompetitionManager.sol: reward    *)
(* escrow, researcher bonds, challenges, commit-reveal, the continuous     *)
(* (king-of-the-hill) arena and terminal settlement. One action per        *)
(* external function; a call the code reverts is no step. The marketplace  *)
(* half of the contract is module ArtifactListings, which extends this one.*)
(***************************************************************************)
EXTENDS EvmCalls, Tallies

CONSTANTS
  CompetitionIds,  \* the uint64 ids in use
  Preimages,       \* the (artifactRef, salt) pairs in use
  CandidateIds,    \* the bytes32 ids challenges are opened on
  ZeroHash,        \* bytes32(0)
  MsgValues,       \* bound: the values a payable call may carry
  Deadlines, StakeFloors,            \* what a proposer may choose for a
  Epsilons, Rates, Baselines,        \*   competition, one-shot or continuous
  Scores,          \* bound: the certified scores, in micro-points
  Allocations,     \* bound: the (winner, amount) lists a referee may submit
  Payees,          \* bound: the accounts a referee may name in recordBeat
  Submitters,      \* bound: the accounts that commit and reveal
  Slashes,         \* bound: the slash and the reward a ruling may name
  MaxEpoch         \* bound: the last epoch

VARIABLES
  competitions,        \* competitionId -> Competition
  continuousStates,    \* competitionId -> ContinuousState
  commitments,         \* competitionId -> researcher -> bytes32
  revealed,            \* competitionId -> researcher -> bool
  stakes,              \* competitionId -> researcher -> wei
  challenges,          \* competitionId -> candidateId -> Challenge
  openChallengeCount,  \* competitionId -> researcher -> uint
  paid,                \* ghost: competitionId -> wei paid from its pool
  retained             \* ghost: slashed wei that stays in the contract

recordVars == <<commitments, revealed>>
bondVars == <<stakes, challenges, openChallengeCount, retained>>
poolVars == <<competitions, continuousStates, paid>>
managerVars == <<recordVars, bondVars, poolVars>>
vars == <<managerVars, evmVars>>

-----------------------------------------------------------------------------
(* keccak256(abi.encode(artifactRef, salt)): injective and never zero. *)
Keccak(preimage) == <<"keccak", preimage>>

Hashes == {Keccak(p) : p \in Preimages} \cup {ZeroHash}

Competition ==
  [proposer : Addresses, rewardPoolWei : Nat, escrowedWei : Nat,
   deadline : Nat, minStakeWei : Nat, exists : BOOLEAN, settled : BOOLEAN]

Challenge ==
  [challenger : Addresses, researcher : Addresses, stake : Nat,
   exists : BOOLEAN, resolved : BOOLEAN]

ContinuousState ==
  [exists : BOOLEAN, streaming : BOOLEAN, epsilonMicros : Int,
   weiPerMicro : Nat, weiPerEpoch : Nat, baselineMicros : Int,
   bestMicros : Int, topHolder : Addresses, spentWei : Nat, epoch : Nat]

Allocation == Seq([to : Addresses, amount : Nat])

(* The sum of the amounts array of distribute and distributeShares. *)
Total(allocation) == Tally([i \in DOMAIN allocation |-> allocation[i].amount])

ASSUME ManagerAssumption ==
  /\ IsFiniteSet(CompetitionIds) /\ IsFiniteSet(Addresses) /\ IsFiniteSet(CandidateIds)
  /\ \A p \in Preimages : Keccak(p) # ZeroHash
  /\ MsgValues \subseteq Nat
  /\ Deadlines \subseteq Nat
  /\ StakeFloors \subseteq Nat
  /\ Epsilons \subseteq Int
  /\ Rates \subseteq Nat
  /\ Baselines \subseteq Int
  /\ Scores \subseteq Int
  /\ Allocations \subseteq Allocation
  /\ Payees \subseteq Addresses
  /\ Submitters \subseteq Callers
  /\ Slashes \subseteq Nat
  /\ MaxEpoch \in Nat

TypeOK ==
  /\ EvmTypeOK
  /\ competitions \in [CompetitionIds -> Competition]
  /\ continuousStates \in [CompetitionIds -> ContinuousState]
  /\ commitments \in [CompetitionIds -> [Addresses -> Hashes]]
  /\ revealed \in [CompetitionIds -> [Addresses -> BOOLEAN]]
  /\ stakes \in [CompetitionIds -> [Addresses -> Nat]]
  /\ challenges \in [CompetitionIds -> [CandidateIds -> Challenge]]
  /\ openChallengeCount \in [CompetitionIds -> [Addresses -> Nat]]
  /\ paid \in [CompetitionIds -> Nat]
  /\ retained \in Nat

-----------------------------------------------------------------------------
(* The value of a storage slot nobody has written. *)
NoCompetition ==
  [proposer |-> ZeroAddress, rewardPoolWei |-> 0, escrowedWei |-> 0,
   deadline |-> 0, minStakeWei |-> 0, exists |-> FALSE, settled |-> FALSE]

NoChallenge ==
  [challenger |-> ZeroAddress, researcher |-> ZeroAddress, stake |-> 0,
   exists |-> FALSE, resolved |-> FALSE]

NotYetContinuous ==
  [exists |-> FALSE, streaming |-> FALSE, epsilonMicros |-> 0,
   weiPerMicro |-> 0, weiPerEpoch |-> 0, baselineMicros |-> 0,
   bestMicros |-> 0, topHolder |-> ZeroAddress, spentWei |-> 0, epoch |-> 0]

ManagerInit ==
  /\ competitions = [c \in CompetitionIds |-> NoCompetition]
  /\ continuousStates = [c \in CompetitionIds |-> NotYetContinuous]
  /\ commitments = [c \in CompetitionIds |-> [a \in Addresses |-> ZeroHash]]
  /\ revealed = [c \in CompetitionIds |-> [a \in Addresses |-> FALSE]]
  /\ stakes = [c \in CompetitionIds |-> [a \in Addresses |-> 0]]
  /\ challenges = [c \in CompetitionIds |-> [k \in CandidateIds |-> NoChallenge]]
  /\ openChallengeCount = [c \in CompetitionIds |-> [a \in Addresses |-> 0]]
  /\ paid = [c \in CompetitionIds |-> 0]
  /\ retained = 0

Init == EvmInit /\ ManagerInit

Exists(c) == competitions[c].exists

(* The guard `msg.sender != c.proposer` of every referee-gated function. *)
IsProposer(c, caller) == Exists(c) /\ caller = competitions[c].proposer

-----------------------------------------------------------------------------
(* Escrow and creation. *)

LockPool(c, proposer, value, deadline, floor) ==
  /\ ~Exists(c)
  /\ value # 0
  /\ competitions' = [competitions EXCEPT ![c] =
       [proposer |-> proposer, rewardPoolWei |-> value, escrowedWei |-> value,
        deadline |-> deadline, minStakeWei |-> floor,
        exists |-> TRUE, settled |-> FALSE]]
  /\ TakeIn(proposer, value)

(* createCompetition is the case floor = 0 of createCompetitionWithStake. *)
CreateCompetition(c, proposer, value, deadline, floor) ==
  /\ LockPool(c, proposer, value, deadline, floor)
  /\ UNCHANGED <<recordVars, bondVars, continuousStates, paid>>

InitContinuous(c, streaming, epsilon, weiPerMicro, weiPerEpoch, baseline) ==
  /\ ~continuousStates[c].exists
  /\ continuousStates' = [continuousStates EXCEPT ![c] =
       [exists |-> TRUE, streaming |-> streaming, epsilonMicros |-> epsilon,
        weiPerMicro |-> weiPerMicro, weiPerEpoch |-> weiPerEpoch,
        baselineMicros |-> baseline, bestMicros |-> baseline,
        topHolder |-> ZeroAddress, spentWei |-> 0, epoch |-> 0]]

CreateContinuousCompetition(c, proposer, value, deadline, epsilon, rate, baseline) ==
  /\ LockPool(c, proposer, value, deadline, 0)
  /\ InitContinuous(c, FALSE, epsilon, rate, 0, baseline)
  /\ UNCHANGED <<recordVars, bondVars, paid>>

CreateContinuousStreaming(c, proposer, value, deadline, epsilon, rate, baseline) ==
  /\ LockPool(c, proposer, value, deadline, 0)
  /\ InitContinuous(c, TRUE, epsilon, 0, rate, baseline)
  /\ UNCHANGED <<recordVars, bondVars, paid>>

-----------------------------------------------------------------------------
(* Researcher bonds. *)

PostStake(c, researcher, value) ==
  LET newStake == stakes[c][researcher] + value
  IN  /\ Exists(c)
      /\ newStake >= competitions[c].minStakeWei
      /\ stakes' = [stakes EXCEPT ![c][researcher] = newStake]
      /\ TakeIn(researcher, value)
      /\ UNCHANGED <<recordVars, poolVars, challenges, openChallengeCount, retained>>

(* Mutant of CanWithdraw: the lock of the open challenges is not looked at. *)
CanOutrun(c, researcher) ==
  Exists(c) /\ competitions[c].settled /\ stakes[c][researcher] # 0

CanWithdraw(c, researcher) ==
  /\ Exists(c)
  /\ competitions[c].settled
  /\ openChallengeCount[c][researcher] = 0
  /\ stakes[c][researcher] # 0

(* Mutant of WithdrawStake: the bond is paid out and never zeroed. *)
WithdrawAndKeep(c, researcher) ==
  /\ CanWithdraw(c, researcher)
  /\ PayOne(researcher, stakes[c][researcher])
  /\ UNCHANGED <<recordVars, poolVars, bondVars>>

WithdrawStake(c, researcher) ==
  /\ CanWithdraw(c, researcher)
  /\ stakes' = [stakes EXCEPT ![c][researcher] = 0]
  /\ PayOne(researcher, stakes[c][researcher])
  /\ UNCHANGED <<recordVars, poolVars, challenges, openChallengeCount, retained>>

IsStaked(c, researcher) ==
  /\ Exists(c)
  /\ \/ competitions[c].minStakeWei = 0
     \/ stakes[c][researcher] >= competitions[c].minStakeWei

-----------------------------------------------------------------------------
(* Challenges. *)

IsOpen(challenge) == challenge.exists /\ ~challenge.resolved

(* Mutant of CanChallenge: an open challenge may be overwritten. *)
CanChallengeAgain(c, candidate, researcher) == Exists(c) /\ revealed[c][researcher]

CanChallenge(c, candidate, researcher) ==
  /\ Exists(c)
  /\ revealed[c][researcher]
  /\ ~IsOpen(challenges[c][candidate])

OpenChallenge(c, candidate, researcher, challenger, value) ==
  /\ CanChallenge(c, candidate, researcher)
  /\ value # 0
  /\ challenges' = [challenges EXCEPT ![c][candidate] =
       [challenger |-> challenger, researcher |-> researcher, stake |-> value,
        exists |-> TRUE, resolved |-> FALSE]]
  /\ openChallengeCount' = [openChallengeCount EXCEPT ![c][researcher] = @ + 1]
  /\ TakeIn(challenger, value)
  /\ UNCHANGED <<recordVars, poolVars, stakes, retained>>

(* What every outcome does: the challenge is resolved and its lock released. *)
CloseChallenge(c, candidate, caller) ==
  LET challenge == challenges[c][candidate]
  IN  /\ IsProposer(c, caller)
      /\ IsOpen(challenge)
      /\ challenges' = [challenges EXCEPT ![c][candidate].resolved = TRUE]
      /\ openChallengeCount[c][challenge.researcher] >= 1
      /\ openChallengeCount' =
           [openChallengeCount EXCEPT ![c][challenge.researcher] = @ - 1]
      /\ UNCHANGED <<recordVars, poolVars>>

(* resolveDispute, outcome 0: the challenger's stake is kept by the contract. *)
Uphold(c, candidate, caller) ==
  /\ CloseChallenge(c, candidate, caller)
  /\ retained' = retained + challenges[c][candidate].stake
  /\ UNCHANGED <<stakes, evmVars>>

MaySlash(staked, slash, reward) == slash <= staked /\ reward <= slash

(* resolveDispute, outcome 1: the bound researcher is slashed. *)
Overturn(c, candidate, caller, slash, reward) ==
  LET challenge == challenges[c][candidate]
  IN  /\ CloseChallenge(c, candidate, caller)
      /\ MaySlash(stakes[c][challenge.researcher], slash, reward)
      /\ stakes' = [stakes EXCEPT ![c][challenge.researcher] = @ - slash]
      /\ retained' = retained + (slash - reward)
      /\ PayOne(challenge.challenger, challenge.stake + reward)

(* resolveDispute, outcome 2: no quorum, the challenger is refunded. *)
DeclareInconclusive(c, candidate, caller) ==
  LET challenge == challenges[c][candidate]
  IN  /\ CloseChallenge(c, candidate, caller)
      /\ PayOne(challenge.challenger, challenge.stake)
      /\ UNCHANGED <<stakes, retained>>

ResolveDispute(c, candidate, caller) ==
  \/ Uphold(c, candidate, caller)
  \/ \E slash, reward \in Slashes : Overturn(c, candidate, caller, slash, reward)
  \/ DeclareInconclusive(c, candidate, caller)

-----------------------------------------------------------------------------
(* What every payout does to its pool's record, and the continuous arena. *)

(* Mutant of DrawDown: the escrow is not drawn. *)
LeaveEscrowed(pool, amount) == pool

DrawDown(pool, amount) == [pool EXCEPT !.escrowedWei = @ - amount]

(* Mutant of ArenaOpen: the settlement does not close the arena. *)
ArenaNeverCloses(c, caller) == IsProposer(c, caller) /\ continuousStates[c].exists

(* The lifecycle gate of recordBeat and tickEpoch. *)
ArenaOpen(c, caller) ==
  /\ IsProposer(c, caller)
  /\ ~competitions[c].settled
  /\ continuousStates[c].exists

(* Mutant of Marginal: every record is measured from the baseline. *)
MarginalOverBaseline(c, newBest) == newBest - continuousStates[c].baselineMicros

Marginal(c, newBest) == newBest - continuousStates[c].bestMicros

(* Mutant of BeatsRecord: epsilon is not asked for. *)
AnyImprovement(c, caller, newBest) == ArenaOpen(c, caller) /\ Marginal(c, newBest) > 0

(* The new best clears epsilon and is an improvement. *)
BeatsRecord(c, caller, newBest) ==
  /\ ArenaOpen(c, caller)
  /\ Marginal(c, newBest) >= continuousStates[c].epsilonMicros
  /\ Marginal(c, newBest) > 0

(* recordBeat under streaming takes the top spot and pays nothing. *)
SeizeTop(c, caller, researcher, newBest) ==
  /\ BeatsRecord(c, caller, newBest)
  /\ continuousStates[c].streaming
  /\ continuousStates' = [continuousStates EXCEPT
       ![c].bestMicros = newBest, ![c].topHolder = researcher]
  /\ UNCHANGED <<recordVars, bondVars, competitions, paid, evmVars>>

(* recordBeat under RecordBounty pays the marginal, the only value of the
   caller's marginalWei the code accepts. *)
PayBounty(c, caller, researcher, newBest) ==
  LET marginalWei == continuousStates[c].weiPerMicro * Marginal(c, newBest)
  IN  /\ BeatsRecord(c, caller, newBest)
      /\ ~continuousStates[c].streaming
      /\ marginalWei <= competitions[c].escrowedWei
      /\ continuousStates' = [continuousStates EXCEPT
           ![c].bestMicros = newBest, ![c].topHolder = researcher,
           ![c].spentWei = @ + marginalWei]
      /\ competitions' = [competitions EXCEPT ![c] = DrawDown(@, marginalWei)]
      /\ paid' = [paid EXCEPT ![c] = @ + marginalWei]
      /\ PayOne(researcher, marginalWei)
      /\ UNCHANGED <<recordVars, bondVars>>

RecordBeat(c, caller, researcher, newBest) ==
  SeizeTop(c, caller, researcher, newBest) \/ PayBounty(c, caller, researcher, newBest)

Lesser(a, b) == IF a < b THEN a ELSE b

CanTick(c, caller) == ArenaOpen(c, caller) /\ continuousStates[c].epoch < MaxEpoch

(* tickEpoch under RecordBounty only advances the epoch. *)
AdvanceEpoch(c, caller) ==
  /\ CanTick(c, caller)
  /\ ~continuousStates[c].streaming
  /\ continuousStates' = [continuousStates EXCEPT ![c].epoch = @ + 1]
  /\ UNCHANGED <<recordVars, bondVars, competitions, paid, evmVars>>

Credit(c) == Lesser(continuousStates[c].weiPerEpoch, competitions[c].escrowedWei)

(* tickEpoch under streaming credits the top holder what is left, up to the rate. *)
CreditEpoch(c, caller) ==
  LET credited == Credit(c)
  IN  /\ CanTick(c, caller)
      /\ continuousStates[c].streaming
      /\ continuousStates[c].topHolder # ZeroAddress
      /\ continuousStates' = [continuousStates EXCEPT
           ![c].epoch = @ + 1, ![c].spentWei = @ + credited]
      /\ competitions' = [competitions EXCEPT ![c] = DrawDown(@, credited)]
      /\ paid' = [paid EXCEPT ![c] = @ + credited]
      /\ PayOne(continuousStates[c].topHolder, credited)
      /\ UNCHANGED <<recordVars, bondVars>>

TickEpoch(c, caller) == AdvanceEpoch(c, caller) \/ CreditEpoch(c, caller)

-----------------------------------------------------------------------------
(* Terminal settlement: distribute, and distributeShares with the same code. *)

(* Mutant of CanSettle: a pool may be settled again while it has dust. *)
CanSettleAgain(c, caller) == IsProposer(c, caller) /\ now >= competitions[c].deadline

CanSettle(c, caller) ==
  /\ IsProposer(c, caller)
  /\ now >= competitions[c].deadline
  /\ ~competitions[c].settled

SettlePool(c, caller, allocation) ==
  /\ CanSettle(c, caller)
  /\ Total(allocation) <= competitions[c].escrowedWei
  /\ competitions' = [competitions EXCEPT
       ![c] = [DrawDown(@, Total(allocation)) EXCEPT !.settled = TRUE]]
  /\ paid' = [paid EXCEPT ![c] = @ + Total(allocation)]
  /\ PayEach(allocation)
  /\ UNCHANGED <<recordVars, bondVars, continuousStates>>

Distribute(c, caller, winners) == SettlePool(c, caller, winners)

DistributeShares(c, caller, contributors) == SettlePool(c, caller, contributors)

-----------------------------------------------------------------------------
(* Commit-reveal, by the researcher or through the Tangle job hooks, where
   tx.origin stands for the researcher. *)

RecordCommitment(c, researcher, hash) ==
  /\ Exists(c)
  /\ commitments' = [commitments EXCEPT ![c][researcher] = hash]
  /\ UNCHANGED <<revealed, bondVars, poolVars, evmVars>>

RecordReveal(c, researcher, preimage) ==
  /\ commitments[c][researcher] # ZeroHash
  /\ commitments[c][researcher] = Keccak(preimage)
  /\ revealed' = [revealed EXCEPT ![c][researcher] = TRUE]
  /\ UNCHANGED <<commitments, bondVars, poolVars, evmVars>>

CommitCandidate(c, researcher, hash) == RecordCommitment(c, researcher, hash)

OnJobCall(c, origin, hash) == RecordCommitment(c, origin, hash)

RevealCandidate(c, researcher, preimage) ==
  Exists(c) /\ RecordReveal(c, researcher, preimage)

OnJobResult(c, origin, preimage) == RecordReveal(c, origin, preimage)

-----------------------------------------------------------------------------
Create(c, caller) ==
  \E value \in MsgValues, deadline \in Deadlines :
    \/ \E floor \in StakeFloors :
         CreateCompetition(c, caller, value, deadline, floor)
    \/ \E epsilon \in Epsilons, rate \in Rates, baseline \in Baselines :
         \/ CreateContinuousCompetition(c, caller, value, deadline, epsilon, rate, baseline)
         \/ CreateContinuousStreaming(c, caller, value, deadline, epsilon, rate, baseline)

Referee(c, caller) ==
  \/ \E candidate \in CandidateIds : ResolveDispute(c, candidate, caller)
  \/ \E researcher \in Payees, newBest \in Scores :
       RecordBeat(c, caller, researcher, newBest)
  \/ TickEpoch(c, caller)
  \/ \E allocation \in Allocations :
       Distribute(c, caller, allocation) \/ DistributeShares(c, caller, allocation)

Participate(c, caller) ==
  \/ \E value \in MsgValues :
       \/ PostStake(c, caller, value)
       \/ \E candidate \in CandidateIds, researcher \in Addresses :
            OpenChallenge(c, candidate, researcher, caller, value)
  \/ WithdrawStake(c, caller)

Submit(c, caller) ==
  \/ \E hash \in Hashes :
       CommitCandidate(c, caller, hash) \/ OnJobCall(c, caller, hash)
  \/ \E preimage \in Preimages :
       RevealCandidate(c, caller, preimage) \/ OnJobResult(c, caller, preimage)

Next ==
  \/ \E c \in CompetitionIds, caller \in Callers :
       Create(c, caller) \/ Referee(c, caller) \/ Participate(c, caller)
  \/ \E c \in CompetitionIds, caller \in Submitters : Submit(c, caller)
  \/ EvmNext /\ UNCHANGED managerVars

Spec == Init /\ [][Next]_vars

-----------------------------------------------------------------------------
(* Properties. *)

EscrowOwed == Tally([c \in CompetitionIds |-> competitions[c].escrowedWei])

BondsOwed == Tally([b \in CompetitionIds \X Addresses |-> stakes[b[1]][b[2]]])

AtStake(challenge) == IF IsOpen(challenge) THEN challenge.stake ELSE 0

ChallengesOwed ==
  Tally([x \in CompetitionIds \X CandidateIds |-> AtStake(challenges[x[1]][x[2]])])

TransfersOwed == Tally([i \in DOMAIN frames |-> Total(Tail(frames[i]))])

(* Solvency to the wei, at every point where foreign code can run: the
   contract's balance is exactly what it owes to pools, bonds and open
   challenges, plus the transfers its unfinished calls still have to make,
   plus the slashed wei it keeps. The contract commingles every competition
   in one balance, so an overpayment anywhere would be paid by a stranger. *)
EveryWeiAccounted ==
  balance = EscrowOwed + BondsOwed + ChallengesOwed + TransfersOwed + retained

(* What left a pool and what is still escrowed make up what was locked, and
   until settlement the continuous ledger (spentWei) is all that left it. *)
PoolConserved ==
  \A c \in CompetitionIds :
    /\ competitions[c].escrowedWei + paid[c] = competitions[c].rewardPoolWei
    /\ continuousStates[c].spentWei <= paid[c]
    /\ ~competitions[c].settled => paid[c] = continuousStates[c].spentWei

ChallengesNaming(c, researcher) ==
  {k \in CandidateIds : /\ IsOpen(challenges[c][k])
                        /\ challenges[c][k].researcher = researcher}

(* The counter that locks a bond is the number of open challenges that name
   its owner, so no sequence of challenges, rulings and re-challenges can
   free a bond early or lock it for ever. *)
LockCountExact ==
  \A c \in CompetitionIds, a \in Addresses :
    openChallengeCount[c][a] = Cardinality(ChallengesNaming(c, a))

(* However an improvement is split into records, and however payouts re-enter,
   a bounty competition has paid for exactly the distance from the baseline to
   the best, and a streaming one its rate for every epoch, none skipped and
   none paid twice, until the pool ran out. *)
ArenaPaysItsSchedule ==
  \A c \in CompetitionIds :
    LET s == continuousStates[c]
    IN  s.exists =>
          s.spentWei = IF s.streaming
                       THEN Lesser(s.weiPerEpoch * s.epoch, competitions[c].rewardPoolWei)
                       ELSE s.weiPerMicro * (s.bestMicros - s.baselineMicros)

(* Settlement is terminal on every path: the pool, the leaderboard and the
   epoch of a settled competition never change again, whoever re-enters. *)
SettledIsFinal ==
  [][\A c \in CompetitionIds : competitions[c].settled =>
       /\ competitions'[c] = competitions[c]
       /\ continuousStates'[c] = continuousStates[c]
       /\ paid'[c] = paid[c]]_vars

(* The reward pool of each competition behaves as RewardPool promises. *)
Pool == INSTANCE RewardPool WITH
  Pools <- CompetitionIds,
  phase <- [c \in CompetitionIds |->
              IF ~competitions[c].exists THEN "absent"
              ELSE IF competitions[c].settled THEN "closed" ELSE "open"],
  locked <- [c \in CompetitionIds |-> competitions[c].rewardPoolWei],
  paid <- paid

ImplementsRewardPool == Pool!PoolSpec

(* Each continuous competition behaves as KingOfTheHill promises, like the
   operator's arena it is the on-chain counterpart of. *)
Hill == INSTANCE KingOfTheHill WITH
  Arenas <- CompetitionIds,
  Nobody <- ZeroAddress,
  terms <- [c \in CompetitionIds |->
    LET s == continuousStates[c]
    IN  [open |-> s.exists, streaming |-> s.streaming, epsilon |-> s.epsilonMicros,
         rate |-> IF s.streaming THEN s.weiPerEpoch ELSE s.weiPerMicro,
         pool |-> IF s.exists THEN competitions[c].rewardPoolWei ELSE 0,
         baseline |-> s.baselineMicros]],
  standing <- [c \in CompetitionIds |->
    LET s == continuousStates[c]
    IN  [best |-> s.bestMicros, holder |-> s.topHolder,
         spent |-> s.spentWei, epoch |-> s.epoch]]

ImplementsKingOfTheHill == Hill!HillSpec

(* Each researcher's stake behaves as SlashableBond promises: it is never
   withdrawn while a challenge names its owner, and a ruling slashes no bond
   but that of the researcher its challenge was bound to. *)
Bond == INSTANCE SlashableBond WITH
  Contests <- CompetitionIds,
  Owners <- Addresses,
  Disputes <- CandidateIds,
  amount <- stakes,
  against <- [c \in CompetitionIds |-> [a \in Addresses |-> ChallengesNaming(c, a)]],
  final <- [c \in CompetitionIds |-> competitions[c].settled]

ImplementsSlashableBond == Bond!BondSpec

=============================================================================
