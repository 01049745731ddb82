\* One one-shot competition, two candidates that can be challenged at once.
SPECIFICATION Spec
CONSTANTS
  proposer = proposer
  researcher = researcher
  challenger = challenger
  nobody = nobody
  Addresses = {proposer, researcher, challenger, nobody}
  ZeroAddress = nobody
  InitialWallet <- DisputeWallet
  MaxDepth = 1
  MaxTime = 1
  CompetitionIds = {c1}
  Preimages = {p1}
  CandidateIds = {k1, k2}
  ZeroHash = zeroHash
  MsgValues = {0, 1}
  Deadlines = {1}
  StakeFloors = {1}
  Epsilons = {}
  Rates = {}
  Baselines = {}
  Scores = {}
  Allocations <- OneWinner
  Payees = {}
  Submitters = {researcher}
  Slashes = {0, 1, 2}
  MaxEpoch = 0
INVARIANTS
  EveryWeiAccounted
  LockCountExact
PROPERTIES
  ImplementsSlashableBond
