SPECIFICATION ReadSpec
CONSTANTS
  NoBlock = NoBlock
  Block <- ForkBlock
  Num <- MCNum
  Parent <- MCParent
  Genesis <- Genesis1
  LogBegins = {1}
  LosesHead = FALSE
  MaxWire = 1
  Table = {"block_info", "contract_row"}
  Rank <- MCRank
  SimpleTable = {"block_info"}
  Key = {"k"}
  Content <- MCContent
  LargeBlock = {}
  BulkMargin = 0
  CloseEvery = 3
  SkipTo = 0
  StopBefore = 0
  EnableTrim = FALSE
  StartOptions <- PlainStart
  HeaderTable = "block_info"
  NumRequests = 2
  MaxCalls = 1
  MaxTries = 2
  Snapshot = {2}
PROPERTIES
  NoForeignRows
  SettledExact
  OneSnapshot
