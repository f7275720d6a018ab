SPECIFICATION Spec
CONSTANTS
  None = None
  l1 = l1
  l2 = l2
  Logins = {l1, l2}
  MaxParallel = 1
  Drift = 1
  Lifetime = 2
  Parts <- MCParts
  Transforms <- MCTransforms
  Emails = {"ALICE@acme", "alice@acme"}
  AllowedAlgorithms = {"rsa-sha256"}
  Deployments <- MCDeployments
  People <- MCPeople
  MaxTime = 2
CHECK_DEADLOCK FALSE
INVARIANT
  DocumentedSettingsBegin
