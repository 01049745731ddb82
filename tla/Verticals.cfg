\* Two engines on every kind of scorer, three submissions to the leaderboard, a
\* panel of three, and two listings with up to three sales.
SPECIFICATION VerticalsSpec
CONSTANTS
  Tasks <- SomeTasks
  Squads <- SomeSquads
  Errors <- SomeErrors
  TheGate <- DefaultGate
  Trainers = {t1, t2}
  TrainedLifts <- SomeLifts
  MarketGate <- FirmGate
  Epsilon = 2
  Rate = 3
  MaxSubmissions = 3
  Referees = {r1, r2, r3}
  Intervals <- SomeIntervals
  SelfReports <- SomeReports
  NoNumber = noNumber
  NotANumber = notANumber
  Unseen = unseen
  Attestations <- SomeAttestations
  Claims <- SomeClaims
  SaleGate <- FirmGate
  BaseFee = 1
  LiftRate = 2
  AskedPrices = {0, 3}
  Buyers = {b1, b2}
  MaxListings = 2
  MaxSales = 3
  MaxMicros = 1000000
  Uncapped = uncapped
  MaxWei = 4000000
\* The runs end.
CHECK_DEADLOCK FALSE
INVARIANTS
  QueriesWithinBudgets
  SeenIsCertified
  WinnersHoldUp
  FrontierIsBoughtOnce
  PanelsCorroborate
  SoldAsCertified
