\* Two competitions and an artifact market in one balance; winners and sellers re-enter.
SPECIFICATION ContractSpec
CONSTANTS
  proposer = proposer
  seller = seller
  buyer = buyer
  nobody = nobody
  Addresses = {proposer, seller, buyer, nobody}
  ZeroAddress = nobody
  InitialWallet <- MarketWallet
  MaxDepth = 2
  MaxTime = 0
  CompetitionIds = {c1, c2}
  Preimages = {}
  CandidateIds = {}
  ZeroHash = zeroHash
  MsgValues = {1, 2}
  Deadlines = {0}
  StakeFloors = {2}
  Epsilons = {}
  Rates = {}
  Baselines = {}
  Scores = {}
  Allocations <- SeveralWinners
  Payees = {}
  Submitters = {}
  Slashes = {}
  MaxEpoch = 0
  Prices = {0, 1}
  MaxListings = 1
INVARIANTS
  EveryWeiAccounted
  ExclusiveSoldOnce
PROPERTIES
  SettledIsFinal
SYMMETRY SameCompetitions
\* Settled competitions, the listing sold and nobody staked: nothing is left to do.
CHECK_DEADLOCK FALSE
