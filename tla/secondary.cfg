SPECIFICATION ServersSpec
CONSTANTS
  Top = 3
  LastHead = 3
  Cases <- ChangedCases
INVARIANTS
  AtThisPoint
CHECK_DEADLOCK FALSE
