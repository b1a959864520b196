SPECIFICATION Spec
CONSTANTS
  Hubs = {hub1}
  Before = {hub1}
  Replicas = {pod1}
  Requests = {q1, q2}
  MaxCalls = 2
  List = List
  NoEntry = NoEntry
INVARIANT RemovedDisappearsImmediately
CHECK_DEADLOCK FALSE
