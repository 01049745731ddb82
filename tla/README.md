# A verification of autoresearch-competitions

Researchers compete to improve a machine-learning artifact; a Referee certifies
their results; money moves on the certificates. This project models the parts
of the repository that decide who is paid, when, and out of what: the
settlement contract and the protocol crates beside it. The modules are written
from the source, each definition from the lines `PROJECT.json` maps it to. TLC
checks small instances of them, TLAPS proves the theorems for every value of
the constants.

## The system

| part | state it keeps | operations | what makes it correct |
|---|---|---|---|
| **Settlement contract** (`contracts/src/CompetitionManager.sol`) | per competition: escrow, deadline, bonds, commitments, challenges and the counter that locks bonds, the continuous arena; one native balance for all of them | create (one-shot, bounty, streaming), stake and withdraw, commit and reveal, challenge and rule, record and tick, two forms of settlement, Tangle job hooks | every wei is owed to somebody; a pool pays what was locked in it, until it is settled; a bond cannot leave while it is disputed; a record pays its margin once, an epoch its rate once |
| **Contract marketplace** (same file) | listings | list, buy | an exclusive licence is sold once, trades never touch escrow |
| **Contract declarations** (same file) | tier, TEE, scorer kind, report hashes | three setters | gate nothing else |
| **Competition store** (`autoresearch-protocol/store.rs`) | status, researchers with stakes, candidates with artifact and evidence | create, transition, join, commit, reveal, record evidence | who has a candidate is staked; what is scored was submitted; evidence is final when payouts are computed |
| **Stake ledger** (`stake.rs`) | balance per competition and researcher | post, withdraw, slash | conservation |
| **Dispute committee, slash arithmetic** (`dispute.rs`, `slash.rs`) | verdicts of one dispute | re-score, count, resolve | a faulty half cannot take the stake of whoever is right; wei is moved, not minted; contract and Rust agree |
| **Continuous arena** (`continuous.rs`) | best, holder, spent, epoch, log | submit, tick | log and live state agree; replay pays the same; the pool is never overspent |
| **One-shot runner** (`orchestrator.rs`, `lift.rs`) | the run | produce, score, gate, rank, settle | each survivor is paid for its rank, down to the dust |
| **Collaborative runner** (`collaborative.rs`) | shared artifact, marginal credit | fold, roll back, gate, split | credit adds up to the lift and is independent of the caller's order |
| **Reward schedules** (`autoresearch-runtime/reward.rs`) | none | four settlement functions, validation | never above the pool |
| **Private runner, privacy rules, attestation** (`private.rs`, `privacy.rs`, `attestation.rs`) | the run, what each engine was handed and each researcher told | refusals of the set-up, certify, redact, settle | its own loop and ranking pay as the public runner's; no data without an enclave; what is told is what is paid |
| **Off-chain marketplace** (`marketplace.rs`) | listings, sold flags, sale ledger | list, buy, price | forgery is refused, an exclusive listing is sold once |
| **Sandbox hosts and engine** (`autoresearch-sandbox*`) | sandboxes, the candidates made in them, a counter behind a lock | provision, run, resolve, tear down, reap | a caller gets its own candidate; nothing is left running |
| **Training clusters** (`distributed_training.rs`, `hierarchical.rs`, `tee_cluster.rs`, `autoresearch-training-*`) | an operator's jobs | submit, poll, time out, merge | retries join the same job; no replica is left out of a merge; every run ends, unless its training process never does |
| **Generic engine, scorers, optimizer** (`autoresearch-generic-engine`, `autoresearch-verticals`) | the best so far, query budgets | query, propose, keep, certify | probing stays in its budgets; the gate certifies real improvements |
| **Training market, re-score panel** (`training_market.rs`) | submissions, records, accepted claims | certify, settle, mirror, judge | two accounts of the same records agree; accepted claims corroborate one another |
| **Operator library and binary** (`autoresearch-competitions-*`) | the environment, the configuration, the answer to a job | load, register, boot, answer | whatever is loaded can be run; no empty win; the payload parses back |
| **Deployment script** (`contracts/script`) | none | one broadcast | |

How they meet: the proposer of a competition is the only account that may rule,
record, tick and settle on chain; it is the operator who runs the Rust side. The
store follows a competition's phases, the runners produce the ranking that
`distribute` pays, the arena produces the beats that `recordBeat` and
`tickEpoch` repeat on chain, and a committee's resolution becomes the slash and
the reward that `resolveDispute` is given. No code in the repository carries
these values across: the operator does, by hand or by a service that is not in
it. That is why the two sides are modelled apart and compared, through a common
abstraction (`KingOfTheHill`) and a common formula (`ChainPaysTheChallenger`).

What is hard here. On chain: every transfer runs the payee, who may call any
function of any competition before the transfer returns, while all competitions
share one balance; challenges are opened, overwritten and ruled on in any order
around the bonds they lock; a live arena and a terminal settlement draw on one
pool; signed scores and thresholds meet unsigned money. Off chain: the protocol's
stateful objects are driven through `&mut self`, so there is no concurrency inside
one, and the hazards are sequences, partial failures, ties, rounding and the ends
of integer ranges. Compute is different: calls share a host between two locks,
futures are dropped half-way, methods hang, sandboxes are reaped, an operator's
answers are lost and deadlines race with results. `PROJECT.json` lists the hazards
with the lines where they bite.

## The modules

Contract:

- `EvmCalls` is what the contract uses of the chain: balances, payable calls,
  transfers that run the payee, block time. `frames` holds the unfinished calls;
  a call ends in the transfers it owes, one at a time, and while a payee runs any
  action may start (`Transact`, `PayOne`). A call that reverts is no step.
- `CompetitionManager` is the settlement spine, one action per external function,
  with the Tangle hooks (`onJobCall`, `onJobResult`) that share its code. `paid`
  and `retained` are ghosts: what left a pool, and slashed wei the contract keeps.
- `ArtifactListings` adds the marketplace: `ContractSpec` is the contract with
  both halves, in one balance and one call stack.
- `RewardPool`, `SlashableBond` and `KingOfTheHill` are the abstract
  specifications: what is promised of a pool, of a bond and of an arena. The
  contract refines all three; the off-chain arena refines the third.
- `DocumentedClaims` states what a comment of the contract says of challenges.

Off chain:

- `Gates` has the promotion gate and the step from a floating-point lift to
  integer micro-units: a lift counts half micro-units, so rounding is a real step.
- `WeiArithmetic` and `RewardSchedules` are the pure payout functions, as the
  runners and the arena call them; `Tallies` has the sums that both sides, and the
  properties about money, are written with.
- `ContinuousArena`, `CompetitionStore`, `StakeLedger`, `DisputeCommittee` (with
  `SlashArithmetic`), `OneshotRunner` and `CollaborativeRunner` are one module
  per stateful component. A method that fails or is refused changes nothing and
  is no step, except where the failure is an outcome of the run (`aborted`,
  `failed`) or is not without effect (a refused `PostStake`).
- `PrivateRunner` is the second runner: its own loop and gate, and a ranking by its
  own chain of comparisons, behind the refusals of a private set-up by the rules of
  `PrivacyRules`. `contexts` records what the engines were handed, `feedback` what
  the researchers are told. The code has two copies of the ranking and one of the
  settlement, and so has the model; that the copies agree is the refinement
  `ImplementsPublicRunner`. In the tier `Public` the module runs `OneshotRunner`
  itself, so that the two are checked over the same inputs.
- `ArtifactSales` is the off-chain marketplace. What a seller claims is any
  combination of certified and uncertified parts, and it asks any price: what
  `price_by_lift` makes of the lift is a suggestion that `list` does not look at.
- `OperatorService` is one operator's process: the configuration it makes of its
  environment, the registration payload, the boot sequence, the job handlers. A
  float of the environment carries whether it is finite, and no cost ceiling is a
  value of its own, apart from every number.

Operator compute and verticals:

- `SandboxHosting` is `SandboxMethodEngine::produce` over both hosts. `pc` is the
  await or the lock a call stands at; on the in-process host futures are always
  ready and calls are never dropped, but threads interleave between the counter's
  lock and the store's; on sandbox-runtime every await may be the last.
- `TrainingClusters` is a training run: one backend or a hierarchy trained in turn,
  with jobs created or joined at an operator, whose answers may be lost.
- `VerticalScorers` has the value functions of the verticals' scorers and the
  intervals they put around a measurement, in ten-thousandths: Wilson's for
  proportions, a panel's sample variance or, with one judge, that of a quarter, the
  spread of the samples elsewhere. `ResearchSearch` runs researchers against one of
  them: the black-box optimizer and the oracle's budget, the local search of the
  generic engine, and certification on the held-out split with the scorers' noise.
- `TrainingMarket` is `ContinuousTrainingMarket::run`, its settlement and the second
  pass over the same submissions; `RescorePanel` is the m-of-n panel.

Components that interact are composed: `ArtifactListings` with the contract,
`PrivateRunner` with the runner and its rules, `DisputeCommittee` with the slash
arithmetic and the contract's formula. Components that do not are put side by side
in `MCOperator`, `MCOperatorCompute`, `MCVerticals` and `MCDisputeCommittee`, which
let one of them work in a behaviour: no code connects them, and interleaving
independent parts would multiply states and show nothing.

`MC*` modules hold the definitions the configurations give to constants.
`*Proofs` modules hold the theorems. In a module, `Mutant of X` marks a variant
of `X` with a plausible bug; the project's mutation checks substitute it to show
that the property named beside it in `PROJECT.json` notices.

## What is checked

Passing runs:

| run | instance | what it shows |
|---|---|---|
| `dispute` | one staked competition, one researcher, one challenger, two candidates, slash and reward 0..2 against bonds of 1 and 2; re-entry one call deep | `LockCountExact` through every order of challenges, re-challenges and rulings; the bonds refine `SlashableBond`; `EveryWeiAccounted`: the balance is what the contract owes, between any two transfers |
| `arena` | one bounty or streaming arena; pool 4 or 5, rates 0..2, epsilon -1 or 2, scores -2..2, three epochs; settled from the residue; re-entry two calls deep | `ArenaPaysItsSchedule`: bounties telescope, epochs are credited once; `EveryWeiAccounted`; the pool refines `RewardPool` and the arena `KingOfTheHill` |
| `market` | two competitions and one listing in one balance, settled to several winners who re-enter two calls deep; competitions are interchangeable (symmetry) | neither competition is paid out of the other's money (`EveryWeiAccounted`), none settles twice, an exclusive licence is sold once |
| `leaderboard` | bounty and streaming arenas, two researchers, lifts that clear, miss or overflow, terms up to `i64::MAX` (7) and `u128::MAX` (12), four epochs | `LogReproducesArena`: standings, batch settlement and the credits of epochs computed from the log are the live arena's, also under saturation; `KingOfTheHill` |
| `store` | a process started in each of some 820 environments (one group of variables varied at a time; gate overrides negative, zero, positive and not finite) and answering one job; then a store with one competition, two researchers, candidates, artifacts and certificates, floors 0 and 2, stakes that saturate | every configuration loaded is one `main` accepts, no report is an empty win, the payload parses back; what is scored was submitted, evidence is frozen when payouts are computed |
| `committee` | four validators (symmetric), every set of faulty ones, quorums 0..5, stakes up to a pair that overflows, reward shares below, at and above the stake; beside it a ledger of stakes around its floor | no wrong verdict with a faulty half; stakes only move; the contract accepts every resolution and pays the challenger the same; the ledger holds what its calls reported |
| `private` | three researchers in every order, ties, uncertifiable lifts, full, short, over-weighted and rejected schedules; public and every tier, with and without a TEE, three egress policies, all, none or only the first engine sealed | payment by rank; no data handed out while the referee is a stand-in; feedback is the verdict; the private runner's own loop and ranking never part from the public runner's |
| `collaborative` | three overlapping deltas in every caller order, on additive, saturating, regressing, infinite and NaN surfaces; baseline and result measured sharply, with a wide or infinite interval or with eleven samples of twelve, at a cost on and above the ceiling | credit adds up to the lift, is the same in every caller's order, and is paid for a certified lift only |
| `compute` | two calls of `produce` on either host with four backends and three egress policies, or two training runs from six requests (shared job, neighbouring seeds, hierarchies, sealed, unsealed, wrapped and invalid) | each gets its own candidate, nothing is left behind, retries agree, no replica is left out; every run ends unless its training process never does, and all compute is released |
| `verticals` | two researchers on every kind of scorer with engine budgets 0..2 and oracle limits 0, 1, 3 and none; three submissions of seven lifts to the leaderboard; panels of three with every quorum; two listings and three sales of four certificates, at prices that the policy suggests and others | probing within both budgets, what was seen is certified, winners hold up on the held-out split, except by an agent's luck, the frontier is bought once, accepted claims corroborate one another, buyers get what was certified |

Why these bounds are enough. A re-entrancy flaw needs one call inside another's
transfer; depth 2 also nests a call in the nested call. Money is in units so
small that every amount is at a boundary: a pool that divides its rate and one
that does not, a slash of nothing, of the bond and of more than the bond. Two
candidates are the least with which a lock counter can pass 1, two competitions
the least that can pay out of one another. Four validators are the smallest
committee of which exactly half can be faulty and a quorum of half can be met by
both sides. Three ranked researchers, with schedules of up to three ranks, have a
first, a middle and a last rank, and ties among them. Two calls are the least that
can collide in a host or join a job; a collision of three is two collisions. Three
submissions let one that regresses, or is refused, stand between two records.
Panels of three have a majority that is not everybody. Integer widths shrink with
the amounts: `MaxMicros` and `MaxWei` stand for `i64::MAX` and `u128::MAX`,
`LenLimit` for `u16::MAX`, `SeedRange` for 2^64, and the runs that are about
saturation reach them.

### Liveness

`compute` checks two liveness properties, under weak fairness that the code
justifies: `SandboxFairness` says that threads are scheduled, requests to
sandbox-runtime return, and its reaper runs; `TrainingFairness` that runs are
scheduled, an HTTP request is answered or times out, and the poll's deadline
passes. Neither says that a method returns (`hangs`), that a teardown succeeds, that
the operator completes a job, or that a training process ends: both backends that
launch one await its output without a limit. `EveryRunEnds` therefore has two
halves. Every call of `produce` ends (`EveryCallEnds`), by the 600 s limit of a
method; and a training run ends, by the poll's deadline, or awaits its process for
ever (`EveryTrainingEnds`), which is the one way in which it can hang.
`ComputeIsReleased` holds by the lifetime limit: a dropped call never tears its
sandbox down, and a failed teardown is not repeated.

The contract has no liveness property. No function of it can be called by
everybody once a deadline has passed, and the proposer may leave a challenge open
or a pool unsettled for ever: whatever must "eventually" happen is in the
proposer's hands, so a liveness property would be one of an assumption. The other
off-chain components are loops over finite input.

### Where the code and its documentation part

Two runs expect a violation, and `PROJECT.json` quotes the lines:

- `rebound_challenge`: a challenge names any researcher who revealed anything; a
  candidate can be challenged again under another name.
- `self_reported_loss`: the score of a trained artifact is the loss its cluster
  reports, plus a gap that depends on the recipe, so the report does move the
  leaderboard.

Met on the way, not among the runs:

- Contract. A commitment may be made and replaced after the deadline
  (`CompetitionManager.sol:929`, against 935-936) and needs no stake, although the
  comment on `createCompetitionWithStake` says so. On Upheld the contract keeps
  the challenger's stake under every policy (487), while `slash::resolve_dispute`,
  which it says it mirrors (441-442), awards it to the researcher when
  `burn_remainder` is false. `commitAttestation` overwrites the hash of a disputed
  candidate and `setScorerKind` the class of a settled competition; `setPrivacy`
  stores tiers that do not exist.
- Protocol. Batch settlement of time at the top is not told the pool. A streaming
  record needs no epsilon (`continuous.rs:348` says it does). `record_evidence`
  certifies a candidate that was never revealed. `slash::conserves` accepts a
  hand-made resolution that returns slashed wei to its owner (what
  `resolve_dispute` computes never does). A refused `post_stake` says the ledger is
  unchanged and leaves an entry of 0. A collaborative run that misses its gate
  reports non-zero shares, with no payouts. `lift.rs:33` takes a measurement without
  an interval for a proportion, so a rejected proof at -1000 gets no interval.
- Privacy. `private.rs:70` calls the egress check of an attested harness
  fail-closed, but the harness keeps free egress and the check is skipped.
  `WhiteBoxNoEgress` accepts any default-deny policy, whatever is on its list. No
  tier that touches the data can run with the local referee, whose report names no
  enclave. `SubmissionBudget` is documented as per researcher; the oracle's is one
  counter for all. An engine with a query budget of 0 still puts its first query.
- Operator. A fee split with one unparsable share is applied with that share's
  default if the three then sum to 100 (`config.rs:87`, against 65-66). In a
  reported score a figure that does not parse counts as 0. A payload field longer
  than a `u16` announces 65535 bytes and writes them all. Every job handler but
  `report_score` is a stub.
- Compute. A failed teardown withholds a candidate that was produced. A GCP enclave
  is reported as Phala's. A trainer that never ends holds its run for ever: the
  subprocess and the service backend await its output without a limit. The artifact of the subprocess engine has no parameters,
  so the generic surface always refuses it. A training job's id depends on the
  recipe and the seed and not on the task, and the request that creates it carries
  only the inner steps. `ContinuousTrainingMarket` trains on the local simulation
  only and never asks the panel.
- Off-chain marketplace. Exclusivity is of a listing, not of an artifact: the same
  certificate can be listed twice, exclusively, and sold to two buyers. `list` takes
  any positive price and does not hold a seller to `price_by_lift`.

## What is proved

Every safety property that a passing run checks is also a theorem, for every value
of the constants that satisfies the named assumptions; so are the action
properties and all five refinements. `PROJECT.json` lists the theorems, and each
`*Proofs` module is laid out component by component: the invariant, a lemma per
action or group of actions, the theorem. The conventions are the same throughout: a
property that is not inductive is strengthened to an `…Inv` that is, the initial
states satisfy it, every step keeps it, and it implies the property.

| module | about | invariant, and why the property alone is not inductive |
|---|---|---|
| `CompetitionManagerProofs` | the contract's spine | `TypeOK` is inductive as it stands and more than typing: no escrow, bond or counter underflows, whatever the payees do. `PoolInv` adds to `PoolConserved` and `ArenaPaysItsSchedule` that an id nobody has created starts from nothing paid and that until settlement an arena's own ledger is all that left its pool. `LockCountExact` is kept by counting the open challenges of a bond; the counter is a cardinality, hence `CandidateIds` finite. The contract refines `RewardPool`, `SlashableBond` and `KingOfTheHill`; for the last, what is left of a pool is what is escrowed (`LeftIsEscrowed`), which is where `PoolInv` is needed |
| `SolvencyProofs` | `EveryWeiAccounted`, alone and with the marketplace | `SolventInv`. What the call stack still owes (`Owed`) is taken off the balance, and every step is shown to change that and the contract's debts by the same amount. `ContractInv` carries it through the composition: the marketplace never touches what is not its own, an exclusive licence is sold once (`ExclusiveLicences`), a settled competition stays as it is |
| `TallyProofs` | sums | no theorem of its own: the laws of sums over finite sets and sequences that the money proofs rest on |
| `ProtocolProofs` | committee, ledger, arena, training market | `DisputeInv`: a resolution is the one its verdicts decide, and honest verdicts are true; a strict majority cannot be made of a faulty half. `LedgerInv`: nothing posted is lost. `LogInv`: the log of an arena has its top (`TopIsLogged`), replays to what was paid (`RecordsReplay`), and epochs credited are what was spent (`CreditsAddUp`), which gives `LogReproduces` by the same steps that the replay takes. `MarketInv`: the beats are the certified submissions in their order, and the mirrored pass so far pays what a replay of the beats so far pays (`SecondPass`) |
| `VerticalProofs` | panel, off-chain sales, search | a panel's accepted claims meet because two majorities of a finite set do; a sale is a certificate's, at whatever price, and what the policy suggests grows with the lift (`PriceGrows`, which holds sellers to nothing); an engine's answers are its spending, and their sum the oracle's counter (`BudgetInv`); what an optimizer has seen is what its best is worth (`SeenInv`). `WinnersHold` goes through the arithmetic of measurement: each scorer stays on the scale, a measurement is within the noise of the value, no interval is wider than the scale, so the root in the lift's bound exists and the bound is none above the lift, and what is refused measures no more than anything else |
| `OperatorProofs` | store and operator | `StoreInv` adds to the store's types that evidence is recorded while a competition is scored, so that candidates are final from the first certificate on. `ServiceInv` ties the configuration, the answers and the payload to the environment. The payload is read by steps (`ReadForward`), and each chunk that was written is one step of it (`ChunkIsRead`), the presence of each field being a case of its own |
| `ComputeProofs` | private runner, sandboxes, training | `PrivateInv`: nobody gets past the set-up of a tier that needs an enclave. `IsAPublicRunner`: the private loop's steps are shown to be the public one's, and its chain of three-way comparisons to order survivors as the public ranking does, because what has cleared the gate is a number and ids break every tie. `RankInv` gives the payment of every rank down to the dust. `SandboxInv`: ids are apart, a candidate is kept by the call that made it, and each call's program counter says what exists. `TrainingInv`: a job never changes its claim, and neighbouring seeds do not meet, by the arithmetic of the stride |
| `CollaborativeProofs` | the collaborative runner | `FoldInv`: what has been folded is a prefix in canonical order, each contribution kept or rolled back by the surface alone; `OneOutcome` shows that two such computations agree, whence the caller's order is irrelevant. `CreditInv`: the lift so far is the sum of the credits. `PaidWhenCertified`: the half-width that the two measurements combine to exists and covers both in quadrature (`QuadratureCovers`), and a settled run's lift clears the gate by it |

How sums and recursion are handled. TLAPS has no usable induction over data, so
`TallyProofs` provides two substitutes. A sum over a finite set is the number of
its units (`Units`), and what it does when an entry changes is a fact of
cardinalities. Induction over numbers is `Induction`: a set that has 0 and every
successor has all naturals; sums and folds over sequences are recursive functions,
whose steps it walks (`SumSteps`, `SameSteps`). Sorted orders are stated as the one
permutation that is ascending, which `Sorted` shows to exist.

### From which assumptions

- Finite sets of ids, accounts, candidates, stakers, researchers, contributions,
  referees and validators: the code keys them by `u64` or by a 160-bit address, or
  holds them in a collection.
- Amounts are naturals, scores integers, and width limits are constants: `MaxWei`
  and `MaxMicros` any natural, `LenLimit` at least 4. `Uncapped`, the absence of a
  cost ceiling, is no number and no float (`UncappedAssumption`, `ServiceAssumption`).
- `LedgerConserves` is about ledgers short of saturation (`MaxPosted <= MaxWei`);
  `FrontierIsBoughtOnce` has its guard `Rate * MaxMicros <= MaxWei` for the total,
  and none for the agreement of the two passes. The off-chain arena implements
  `KingOfTheHill` where margins are priced exactly.
- `TrainingAssumption`: the strides of one hierarchy do not wrap onto one another
  (`(k * SeedStride) % SeedRange # 0`): true of the code's 7919 and 2^64 for any
  hierarchy shorter than 2^64. `Losses` are numbers in units.
- `TaskAssumption`: an artifact is of the type its scorer reads. `WinnersHold`
  assumes a gate that asks for some lift (`minLower > 0`; the default asks for 0.02).
  Under a gate of 0 a program that is wrong ties with a baseline that is wrong too,
  and clears.
- `ServiceAssumption`: the default gate is one `validate_gate` accepts, variables have the type their parser gives them, and byte
  fields are sequences of bytes.

### Only model-checked

The liveness of `compute` (`EveryRunEnds`, `ComputeIsReleased`): liveness under
fairness is out of TLAPS's reach here. `DocumentedClaims` and the documentation's
claim about self-reported losses are refuted by TLC, not by a proof.

## What is abstracted

- keccak is injective and never zero; EIP-712 and ABI encodings are left out. The
  job hooks carry no value. Wei forced into the contract without a call
  (self-destruct) is left out: it could only make the contract richer.
- A one-shot competition's ranking is an input of `distribute`: the model offers a
  small set of allocations.
- In the one-shot and the private runner a lift is what the estimator made of it: of
  any sign, finite or not. Two modules compute it from measurements as `lift.rs` does,
  standard errors in quadrature and the smaller of the two sample sizes:
  `CollaborativeRunner` from any two measurements, `ResearchSearch` from its scorers',
  in ten-thousandths. Roots are integers, rounded against the candidate. Collaborative
  shares are exact fractions where the code divides floats and then floors to basis
  points.
- Scorers: the hashes and random streams that perturb samples are left out, and
  exponentials are rational functions that fall in the same way. The mean of a
  measurement errs by the least, none or the most of the scorer's noise. For bounded
  noise that is its amplitude; an agent's trials are independent draws, so its pass
  rate may come out as anything on the scale. Where a scorer takes the spread of its
  samples for its interval, the model takes the expected spread of uniform noise.
- Training: what a backend reports is any of a few losses; the configuration it is
  handed is left out. Job ids are taken for free of collisions.
- Environment variables: unset, set and unparsable, or a value. Only the type and
  length bytes of the registration payload have a meaning of their own.
- In the collaborative runner two identical contributions of one contributor are
  left out: contributions are a set.
- A committee's verdicts come from `collect_verdicts`, which asks every validator
  once; signed delivery is a seam that the code leaves open.
- `KingOfTheHill` is refined by the off-chain arena where margins are priced
  exactly; a saturated margin (over `i64::MAX` micro-units, in a pool that could
  pay for it) is paid short, and `LogReproducesArena` covers it instead.

## Not modelled, and why

The contract's declarations (`setPrivacy`, `commitAttestation`, `setScorerKind`)
are setters that gate no other function and that no other code of the repository
reads. The deployment script is one transaction. `nanogpt.rs` runs an external
training script for each seed and parses what it prints; of it only the
`FixedConfigEngine` is modelled, among the engines that submit without searching. `types.rs`, `traits.rs`
and the crates' `lib.rs` are data and trait declarations, except the gate; ABI
encodings, the SDK's producers, consumer and router, sandbox-runtime, the training
operator and the researchers' own methods are external and appear as what they may
answer. `StakePolicy::sized` is a constant of the ledger, `EgressPolicy::allows`
a lookup that the runners never make.

## Plan

Done: every component of the first table that keeps state has its module, its run
and its mutants, and every safety property its theorem.

Next, in this order:

1. The settlement functions of `RewardSchedules` and `WeiArithmetic` as lemmas of
   their own: what they pay is within the pool, for any schedule, also those that no
   runner reaches.
2. The stake ledger and the arena up to and past saturation: what exactly is lost.
3. An abstract specification of the operator's compute (a call returns its own
   candidate or fails) that both hosts implement.
