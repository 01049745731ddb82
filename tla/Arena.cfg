\* One continuous competition, bounty or streaming, settled from what is left.
SPECIFICATION Spec
CONSTANTS
  proposer = proposer
  researcher = researcher
  challenger = challenger
  nobody = nobody
  Addresses = {proposer, researcher, challenger, nobody}
  ZeroAddress = nobody
  InitialWallet <- ArenaWallet
  MaxDepth = 2
  MaxTime = 1
  CompetitionIds = {c1}
  Preimages = {}
  CandidateIds = {}
  ZeroHash = zeroHash
  MsgValues = {4, 5}
  Deadlines = {0, 1}
  StakeFloors = {}
  Epsilons <- EdgeEpsilons
  Rates = {0, 1, 2}
  Baselines <- SignedBaselines
  Scores <- SignedScores
  Allocations <- ResidualShares
  Payees = {researcher, challenger, nobody}
  Submitters = {}
  Slashes = {}
  MaxEpoch = 3
\* A settled competition with nobody staked has nothing left to do.
CHECK_DEADLOCK FALSE
INVARIANTS
  EveryWeiAccounted
  ArenaPaysItsSchedule
PROPERTIES
  ImplementsRewardPool
  ImplementsKingOfTheHill
