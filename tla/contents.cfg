SPECIFICATION ContentsSpec
CONSTANTS
  Status = {"executed", "soft_fail", "hard_fail", "delayed"}
  Name = {"alice", "bob", "token", "spam", "transfer", "post"}
  Unset = Unset
  Rules <- MCRules
  Blocks <- MCBlocks
  ByteValues = 4
  Absent = Absent
  Configs <- MCConfigs
  Written <- MCWritten
  Sent <- MCSent
  Ranges <- MCRanges
  QuerySnapshots = {0, 1, 4}
  MaxRows = 4
  NoValue = NoValue
  AbiTables <- MCAbiTables
  SentRows <- MCSentRows
  MaxKey = 3
  MaxBlock = 2
  QueryMax = 2
  Backends = {"pg", "rocksdb"}
  Snapshots = {1, 2}
  Top = 3
  LastHead = 3
  Cases <- MCCases
INVARIANTS
  OnlyPassingWritten
  PlainTransactionsFiltered
  OrdinalsFollowNesting
  RowsKept
  IndexMatchesRows
  QueriesMeanRows
  ReadsBack
  SchemaStands
  PgEveryKeyOnce
  SnapshotKept
  PagesComplete
  AnswersOnce
PROPERTIES
  Ends
\* A part ends with the block's last trace, row or line, or the client's last page.
CHECK_DEADLOCK FALSE
