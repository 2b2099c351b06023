SPECIFICATION Spec
CONSTANTS
  Threads = {t1, t2}
  Keys = {0, 1, 3}
  Items = {1, 2, 3, 4, 5, 6}
  Capacities = {2, 3}
  ResizeInUse = TRUE
  MaxBatch = 2
SYMMETRY ThreadSymmetry
INVARIANT RehashKeepsEntries
