SPECIFICATION Spec
CONSTANTS
  Hubs = {hub1}
  Before = {hub1}
  Replicas = {pod1, pod2}
  Requests = {q1, q2}
  MaxCalls = 4
  List = List
  NoEntry = NoEntry
INVARIANT TypeOK
INVARIANT FlushedBeforeAck
INVARIANT SettledIsTrue
INVARIANT StaleHasACause
SYMMETRY Alike
CHECK_DEADLOCK FALSE
