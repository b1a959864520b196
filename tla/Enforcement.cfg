SPECIFICATION FairSpec
CONSTANTS
  h1 = h1
  c1 = c1
  Users = {u1, u2}
  Hubs = {h1}
  Clusters = {h1, c1}
  Pages <- MCPages
  Stem <- MCStem
  Room <- MCRoom
  None = None
  Global = Global
  Base = 2
  Digits = 2
  MaxClicks = 2
  MaxDrifts = 1
INVARIANT TypeOK
INVARIANT CreatedIsTrue
INVARIANT UpgradesWereAskedFor
INVARIANT RefusedInItsSecondOnly
PROPERTY WillBeEnforced
