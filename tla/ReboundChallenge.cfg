\* Two researchers who reveal, one candidate id, one challenger.
SPECIFICATION Spec
CONSTANTS
  proposer = proposer
  researcher = researcher
  rival = rival
  nobody = nobody
  Addresses = {proposer, researcher, rival, nobody}
  ZeroAddress = nobody
  InitialWallet <- ClaimsWallet
  MaxDepth = 1
  MaxTime = 2
  CompetitionIds = {c1}
  Preimages = {p1}
  CandidateIds = {k1}
  ZeroHash = zeroHash
  MsgValues = {1}
  Deadlines = {1}
  StakeFloors = {1}
  Epsilons = {}
  Rates = {}
  Baselines = {}
  Scores = {}
  Allocations = {}
  Payees = {}
  Submitters = {researcher, rival}
  Slashes = {0}
  MaxEpoch = 0
PROPERTIES
  OneResearcherPerCandidate
