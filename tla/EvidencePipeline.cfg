SPECIFICATION Spec
CHECK_DEADLOCK FALSE
CONSTANTS
  RankDepth = 4
  MaxSelected = 2
  MaxAuxiliary = 1
  LineTolerance = 1
  MaxWords = 2
  PreferredWords = 1
  TokenLimit = 2
  AdequateWords = 1
  EntryBytes = 4
  Layouts <- MCLayouts
  Modes = {"hybrid", "semantic", "lexical", "ranked"}
  Scores = {0, 1}
  BlockLength = 2
  Depth = 3
  Limit = 2
  Budgets <- MCBudgets
  MaxGenerations = 2
INVARIANTS
  PageIsTiled
  ScanIsTopK
  RankingRespectsDominance
  BundleFillsBudget
  UnchangedIsAccepted
  VerifiedIsAuthentic
