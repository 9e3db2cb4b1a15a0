SPECIFICATION Spec
CONSTANTS
  NoBlock = NoBlock
  Block <- ForkBlock
  Num <- MCNum
  Parent <- MCParent
  Genesis <- Genesis1
  LogBegins = {1}
  LosesHead = FALSE
  MaxWire = 1
  Table = {"block_info", "contract_row"}
  SimpleTable = {"block_info"}
  Key = {"k1", "k2"}
  Content <- MCContent
  LargeBlock = {}
  NearMargin = 1
  CommitEvery = 3
  SkipTo = 0
  StopBefore = 0
  EnableTrim = FALSE
INVARIANTS
  CleanedUp
