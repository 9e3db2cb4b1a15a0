SPECIFICATION FairSpec
CONSTANTS
  NoBlock = NoBlock
  Block <- ForkBlock
  Num <- MCNum
  Parent <- MCParent
  Genesis <- Genesis1
  LogBegins = {1, 3}
  LosesHead = TRUE
  MaxWire = 1
  Table = {"block_info", "contract_row"}
  SimpleTable = {"block_info"}
  Key = {"k1", "k2"}
  Content <- MCContent
  LargeBlock = {"b2"}
  NearMargin = 1
  CommitEvery = 3
  SkipTo = 0
  StopBefore = 4
  EnableTrim = TRUE
INVARIANTS
  LinkedInv
  IndexHasRow
  StatusLast
  CleanedUpUnlessTorn
  BlocksLink
PROPERTIES
  CatchesUp
