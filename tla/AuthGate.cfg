SPECIFICATION FairSpec
CONSTANTS
  Tokens = {tok1}
  Requests = {q1, q2, q3}
  NoToken = NoToken
  NoEntry = NoEntry
  Valid = Valid
  CacheTTL = 3
  HttpTimeout = 2
INVARIANT TypeOK
PROPERTY RevocationTakesEffect
PROPERTY ValidationEnds
