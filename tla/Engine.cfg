SPECIFICATION EngineSpec
CONSTANTS
  Addresses = {n1, n2, n3, n4}
  Moves = {e4, d4}
  NoNode = NoNode
  Fens = {f1, f2}
  StartFen = f1
  Paths = {p1}
  Loadable = {p1}
  Networks = {w1, w2}
  Broken = {w2}
  e4 = e4
  d4 = d4
  f1 = f1
  f2 = f2
  Positions <- HostPositions
  MaxVisits = 3
  MaxCommands = 4
  Options <- AllOptions
  Hidden <- AllHidden
  Contexts = {"p1"}
  Number <- AllNumbers
  Files <- AllFiles
  Invalid = Invalid
  OutOfRange = OutOfRange
  ArgumentLists <- AllArguments
  Lines <- AllLines
  ClockLines <- LinesOn
  EstimatedMoves = {4, 60}
  StartClock = 20
  Increment = 1
  Lag = 1
  CacheItemSize = 2
  NodeSize = 3
  Megabyte = 5
  SizeT = 256
  Sentences <- AllSentences
  OptionTexts <- AllTexts
  MaxLines = 3
  Openings <- MCOpenings
INVARIANTS
  TreeIsWhole
  HeadVisitsAddUp
  VisitsAreOfThePosition
  SearchKeepsItsWorld
  TextsAreRead
  LegalMovesFollowRules
  ResultFollowsRules
  NetworkSeesTheGame
PROPERTIES
  AnswersThePosition
  OptionsAreKept
  LimitsAreKept
  GameFollowsRules
SYMMETRY Symmetric
VIEW PartsWithoutFreed
CHECK_DEADLOCK FALSE
