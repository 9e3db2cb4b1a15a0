SPECIFICATION Spec
CONSTANTS
  NoBlock = NoBlock
  Block <- ForkBlock
  Num <- MCNum
  Parent <- MCParent
  Genesis <- Genesis1
  LogBegins = {1}
  LosesHead = FALSE
  MaxWire = 1
  Table = {"block_info", "contract_row"}
  Rank <- MCRank
  SimpleTable = {"block_info"}
  Key = {"header", "k1", "k2"}
  Content <- MCContent
  LargeBlock = {}
  BulkMargin = 1
  CloseEvery = 2
  SkipTo = 0
  StopBefore = 0
  EnableTrim = FALSE
  StartOptions <- PlainStart
INVARIANTS
  FilledAfterSession
