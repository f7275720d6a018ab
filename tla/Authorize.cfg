SPECIFICATION Spec
CONSTANTS
  spa = spa
  web = web
  home = home
  portal = portal
  Clients = {spa, web}
  NoClient = nobody
  PublicClients = {spa}
  RedirectUris = {home, portal}
  Registered <- MCRegistered
  Scopes = {"openid"}
  Subs = {alice, bob}
  Verifiers = {v1}
  Requests = {r1, r2}
  CodeTtl = 1
  TicketTtl = 1
  MaxTime = 2
  MaxTickets = 1
  MaxDecisions = 2
  MaxCodes = 2
SYMMETRY SameRequestsAndSubs
INVARIANTS
  TypeOK
  CodesForRegisteredClients
  CodeFollowsConsent
  TicketDecidedOnceBeforeExpiry
