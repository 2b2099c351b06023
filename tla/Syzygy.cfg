SPECIFICATION Spec
CONSTANTS
  WordBits = 8
  White = {w1, w2, w3}
  Black = {b1, b2}
  Rule50 = 4
  Games <- MCGames
  Threads = {t1, t2}
  Materials <- MCMaterials
  KeysOf <- MCKeysOf
  OtherKeys = {"c"}
  Slots = 5
  Home <- MCHome
  Dtz = {A}
  Bad <- MCBad
  NoEntry = NoEntry
  NoKey = NoKey
  A = A
  B = B
  w1 = w1
  w2 = w2
  w3 = w3
  b1 = b1
  b2 = b2
  Layouts <- MCLayouts
  Contents <- MCContents
  Pattern <- MCPattern
  CodeLengths <- MCCodeLengths
INVARIANTS
  ValuesAreReadBack
  PlayKeepsTheResult
  TablesAreShared
CHECK_DEADLOCK FALSE
