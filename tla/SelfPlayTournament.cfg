SPECIFICATION FairSpec
CONSTANTS
  Workers = {w1, w2}
  Parallelisms = {{w1}, {w1, w2}}
  TotalGames = {3}
  MaxMoves = 1
  GamesCap = 2
CHECK_DEADLOCK FALSE
INVARIANTS
  AbortedGameDoesNotThink
  FinalReport
  EveryGameCounts
PROPERTY EverybodyReturns
