SPECIFICATION Spec
CONSTANTS
  Threads = {t1, t2}
  Keys = {0, 1, 3}
  Items = {1, 2, 3, 4, 5}
  Capacities = {0, 2}
  ResizeInUse = FALSE
  MaxBatch = 2
SYMMETRY ThreadSymmetry
INVARIANTS
  LockedIsAlive
  NothingLeaks
  HashAgreesWithQueue
  SamplesAreOfTheirPositions
