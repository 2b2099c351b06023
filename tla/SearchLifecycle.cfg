SPECIFICATION FairSpec
CONSTANTS
  Workers = {w1, w2}
  Watchdog = wd
  LimitSet <- MCLimits
  InitialVisits = {0}
  MiniBatchSize = 1
  PlayoutCap = 2
INVARIANTS
  NoThreadOutlivesSearch
PROPERTIES
  BestmoveIsFinal
  LimitedSearchEnds
  ImplementsFairService
CHECK_DEADLOCK FALSE
