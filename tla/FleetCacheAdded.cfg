SPECIFICATION Spec
CONSTANTS
  Hubs = {hub1}
  Before = {}
  Replicas = {pod1, pod2}
  Requests = {q1}
  MaxCalls = 2
  List = List
  NoEntry = NoEntry
INVARIANT AddedAppearsImmediately
CHECK_DEADLOCK FALSE
