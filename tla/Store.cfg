\* An operator started in every environment, and in one of them a competition
\* with two researchers and two candidates.
SPECIFICATION OperatorSpec
CONSTANTS
  CompetitionIds = {c1}
  Researchers = {r1, r2}
  Commitments = {k1, k2}
  Artifacts = {a1, a2}
  Certificates = {e1, e2}
  None = none
  Floors = {0, 2}
  Stakes = {1, 2}
  MaxWei = 3
  MaxMicros = 100
  Uncapped = uncapped
  Unset = unset
  Garbled = garbled
  LenLimit = 4
  DefaultGate <- FirmGate
  DefaultFloor = 2
  DefaultPrice = 1
  Environments <- SomeEnvironments
  Reports <- SomeReports
\* A closed competition and a stopped process have nothing left to do.
CHECK_DEADLOCK FALSE
INVARIANTS
  LoadedConfigIsRunnable
  NoEmptyWin
  PayloadReadsBack
PROPERTIES
  ScoredAsSubmitted
  EvidenceFinalWhenSettling
