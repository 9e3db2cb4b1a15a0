SPECIFICATION Spec
CONSTANTS
  NoBlock = NoBlock
  Block <- LineBlock
  Num <- MCNum
  Parent <- MCParent
  Genesis <- Genesis1
  LogBegins = {1, 2, 4}
  LosesHead = FALSE
  MaxWire = 1
  Table = {"block_info", "contract_row"}
  Rank <- MCRank
  SimpleTable = {"block_info"}
  Key = {"header", "k1", "k2"}
  Content <- MCContent
  LargeBlock = {"a3"}
  BulkMargin = 1
  CloseEvery = 2
  SkipTo = 2
  StopBefore = 5
  EnableTrim = TRUE
  StartOptions <- ResetStart
INVARIANTS
  Recoverable
  FilledToHead
  QueriesExact
PROPERTIES
  IrreversibleStays
  RetryNeverDrops
  StopIsClean
