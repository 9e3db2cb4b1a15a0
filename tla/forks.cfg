SPECIFICATION FairSpec
CONSTANTS
  NoBlock = NoBlock
  Block <- ForkBlock
  Num <- MCNum
  Parent <- MCParent
  Genesis <- Genesis1
  LogBegins = {1}
  LosesHead = FALSE
  MaxWire = 1
  Table = {"block_info", "contract_row"}
  Rank <- MCRank
  SimpleTable = {"block_info"}
  Key = {"header", "k1", "k2"}
  Content <- MCContent
  LargeBlock = {"b3"}
  BulkMargin = 1
  CloseEvery = 3
  SkipTo = 0
  StopBefore = 0
  EnableTrim = TRUE
  StartOptions <- PlainStart
INVARIANTS
  Inv
  BlocksLink
  NoDuplicateKey
  NoOrphanRows
  FirstIsLowest
PROPERTIES
  OnlyHeadAtRisk
  ImplementsHistoryDb
  CatchesUp
