SPECIFICATION FairSpec
CONSTANTS
  Clusters = {s1, s2, hub1}
  Skipped = {hub1}
  Contents <- MCContents
  None = None
  Absent = Absent
  Limit = 1
  MaxChanges = 1
CHECK_DEADLOCK FALSE
INVARIANT TypeOK
INVARIANT SemaphoreWorks
INVARIANT RowsAreTheirs
INVARIANT ListIsComplete
INVARIANT NewestMessageShown
PROPERTY AnswersOnceConnected
