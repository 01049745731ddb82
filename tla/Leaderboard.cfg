\* Every schedule, also at the ends of the integer ranges.
SPECIFICATION ArenaSpec
CONSTANTS
  Researchers = {1, 2}
  Nobody = nobody
  NoBest = none
  TheGate <- FirmGate
  Lifts <- AllLifts
  Terms <- AllTerms
  LastEpoch = 4
  MaxMicros = 7
  Uncapped = uncapped
  MaxWei = 12
\* The last epoch bounds the run.
CHECK_DEADLOCK FALSE
INVARIANTS
  LogReproducesArena
PROPERTIES
  ImplementsKingOfTheHill
