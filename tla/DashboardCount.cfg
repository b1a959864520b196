SPECIFICATION Spec
CONSTANTS
  h1 = h1
  h2 = h2
  s1 = s1
  s2 = s2
  s3 = s3
  Hubs <- MCHubs
  Listings <- MCListings
  None = None
  Failed = Failed
  MaxClicks = 4
INVARIANT PolicyCountInItsRow
CHECK_DEADLOCK FALSE
