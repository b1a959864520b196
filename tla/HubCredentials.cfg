SPECIFICATION FairSpec
CONSTANTS
  Accounts = {acc1, acc2}
  Connectors = {c1, c2}
  Admins = {a1}
  None = None
  Unusable = Unusable
  Absent = Absent
  PublicVersion = FALSE
  MaxCalls = 2
  MaxExpired = 1
  MaxMishaps = 1
INVARIANT TypeOK
INVARIANT LastAdminCallStands
PROPERTY RenewedAtomically
PROPERTY TokenHeals
