SPECIFICATION PagingSpec
CONSTANTS
  MaxKey = 3
  MaxBlock = 2
  QueryMax = 2
  Backends = {"rocksdb"}
  Snapshots = {0, 1, 2}
INVARIANTS
  EveryKeyOnce
\* The client stops after the last page.
CHECK_DEADLOCK FALSE
