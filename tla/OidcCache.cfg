SPECIFICATION Spec
CONSTANTS
  Logins = {l1, l2}
  Ttl = 1
  Overlap = 0
  MaxFetch = 1
  MaxVersion <- MCMaxVersion
  MaxTime = 3
INVARIANTS
  TypeOK
  RejectedOnlyIfWithdrawn
  WithdrawnKeyFades
PROPERTIES
  CacheNeverGoesBack
  LoginsEnd
