INIT SqlInit
NEXT SqlNext
CONSTANTS
  NoValue = NoValue
  AbiTables <- DataTables
  SentRows <- DataRows
INVARIANTS
  ReadsBack
CHECK_DEADLOCK FALSE
