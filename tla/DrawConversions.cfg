SPECIFICATION Spec
CONSTANTS
  g = g
  a = a
  b = b
  a1 = a1
  a2 = a2
  a11 = a11
  Workers = {w1, w2}
  NoWorker = NoWorker
  Nodes <- WideNodes
  GameBegin = g
  Parent <- WideParent
  Path <- WidePath
  Outcomes <- WideOutcomes
  StickyEndgames = TRUE
  OutOfOrderEval = TRUE
  MiniBatchSize = 1
  MaxCollisionEvents = 2
  MaxCollisionVisits = 2
  PlayoutLimit = 4
CHECK_DEADLOCK FALSE
INVARIANTS
  DrawConversionsSound
