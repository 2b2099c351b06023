SPECIFICATION FairSpec
CONSTANTS
  g = g
  a = a
  b = b
  a1 = a1
  a2 = a2
  a11 = a11
  Workers = {w1, w2}
  NoWorker = NoWorker
  Nodes <- DeepNodes
  GameBegin = g
  Parent <- DeepParent
  Path <- DeepPath
  Outcomes <- DeepOutcomes
  StickyEndgames = TRUE
  OutOfOrderEval = TRUE
  MiniBatchSize = 2
  MaxCollisionEvents = 2
  MaxCollisionVisits = 2
  PlayoutLimit = 2
CHECK_DEADLOCK FALSE
INVARIANTS
  VirtualLossConserved
  OwnedWhileExtended
  VisitsAddUp
  DecisiveConversionsSound
PROPERTIES
  SearchEnds
