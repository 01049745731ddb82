\* Three researchers in every order, with ties, under every kind of schedule,
\* publicly and in every privacy tier.
SPECIFICATION MCPrivateSpec
CONSTANTS
  Researchers = {1, 2, 3}
  TheGate <- FirmGate
  Lifts <- SomeLifts
  Rewards <- SomeRewards
  Setups <- SomeSetups
  Pools = {0, 13}
  MaxMicros = 100
  Uncapped = uncapped
  MaxWei = 1000000
  ModerateFrom = 4
  LargeFrom = 6
  Hosts = {h}
\* A run ends settled or failed.
CHECK_DEADLOCK FALSE
INVARIANTS
  EachIsPaidForItsRank
  NoRawDataWithoutEnclave
  FeedbackIsTheVerdict
PROPERTIES
  ImplementsPublicRunner
