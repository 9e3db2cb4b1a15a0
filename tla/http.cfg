SPECIFICATION Spec
CONSTANTS
  Session = {"long", "short"}
  NumThreads = 2
  Limit = 2
  MaxRequests <- MCMaxRequests
  Sends <- MCSends
INVARIANTS
  OneReadOneWrite
  ResponsesInOrder
  StatesApart
PROPERTIES
  EverythingAnswered
\* Clients send finitely many requests.
CHECK_DEADLOCK FALSE
