SPECIFICATION Spec
CONSTANTS
  Clients = {spa, web}
  PublicClients = {spa}
  RedirectUris = {home}
  Scopes = {"openid", "offline_access", "email"}
  Subs = {alice}
  Verifiers = {v1}
  Requests = {r1, r2}
  CodeTtl = 1
  TokenTtl = 1
  RefreshTtl = 2
  MaxTime = 2
  MaxCodes = 1
  MaxExchanges = 3
SYMMETRY SameRequests
INVARIANTS
  TypeOK
  OneAccessTokenPerCredential
  OneHolderPerFamily
  AccessWithinAuthorization
  FamilyOnlyNarrows
  ExchangedTokenRemembered
PROPERTY
  ImplementsRefreshFamily
