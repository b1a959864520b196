SPECIFICATION FairSpec
CONSTANTS
  Clusters = {h1, h2, h3, h4}
  Secrets = {h4, h5}
  Global = Global
  Limit = 2
  Empty = Empty
  NoAnswer = NoAnswer
INVARIANT TypeOK
INVARIANT SemaphoreWorks
PROPERTY GathersAll
PROPERTY ReturnsUnlessSilent
PROPERTY SilentHubsSpareOthers
CHECK_DEADLOCK FALSE
