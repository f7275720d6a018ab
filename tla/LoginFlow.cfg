SPECIFICATION Spec
CONSTANTS
  forge = forge
  corp = corp
  cloud = cloud
  Browsers = {b1, b2}
  Callbacks = {c1, c2}
  Idps = {forge, corp, cloud}
  Kind <- MCKind
  Tenant <- MCTenant
  PkceIdps = {cloud}
  UserinfoIdps = {forge, cloud}
  Subjects = {alice}
  Roles = {admin, auditor}
  RoleSets <- MCRoleSets
  MaxFlows = 2
  MaxAnswers = 2
  MaxLogins = 2
SYMMETRY SameBrowsersCallbacksAndRoles
INVARIANTS
  TypeOK
  LoginFollowsItsFlow
  OnePrincipalPerUser
  RolesOfThisLogin
  PageActsForItsLogin
