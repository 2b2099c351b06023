SPECIFICATION Spec
CONSTANTS
  Addresses = {n1, n2, n3, n4}
  Moves = {e4, d4}
  NoNode = NoNode
  Fens = {f1, f2}
  StartFen = f1
  Paths = {p1}
  Loadable = {p1}
  Networks = {w1, w2}
  Broken = {w2}
  e4 = e4
  d4 = d4
  f1 = f1
  f2 = f2
  Positions <- HostPositions
  MaxVisits = 3
  MaxCommands = 4
SYMMETRY Symmetric
VIEW WithoutFreed
CHECK_DEADLOCK FALSE
PROPERTY AbortReturnsNoBestmove
