\* Two calls of produce on each host and backend; two training runs.
SPECIFICATION ComputeSpec
CONSTANTS
  Calls = {c1, c2}
  Egresses <- SomeEgresses
  Backends <- SomeBackends
  Hosts = {h}
  ModerateFrom = 4
  LargeFrom = 6
  MaxMicros = 100
  Uncapped = uncapped
  MaxWei = 1000000
  Runs = {r1, r2}
  Requests <- SomeRequests
  Losses = {10, 20}
  SimLoss <- TunedLoss
  Gap <- TunedGap
  ScaleBonus <- NoBonus
  SeedStride = 3
  SeedRange = 8
\* The calls end.
CHECK_DEADLOCK FALSE
INVARIANTS
  EachGetsItsOwnCandidate
  NothingLeftBehind
  RetriesAgree
  NoReplicaLeftOut
PROPERTIES
  EveryRunEnds
  ComputeIsReleased
