SPECIFICATION Spec
CONSTANTS
  Requests = {r1, r2}
  NoExp = NoExp
  UserTtl = 1
  ServiceTtls = {2}
  Leeway = 1
  MaxTokens = 2
  MaxTime = 3
INVARIANT
  RevokedStaysRejected
