INIT RocksInit
NEXT RocksNext
CONSTANTS
  ByteValues = 4
  Absent = Absent
  Configs <- PermissionConfigs
  Written <- MCWritten
  Sent <- PermissionSent
  Ranges <- MCRanges
  QuerySnapshots = {0, 1, 4}
  MaxRows = 3
INVARIANTS
  RowsKept
CHECK_DEADLOCK FALSE
