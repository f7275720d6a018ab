SPECIFICATION Spec
CONSTANTS
  m1 = m1
  m2 = m2
  alice = alice
  bob = bob
  Tenants = {acme, globex}
  Names = {alice, bob}
  NoName = NoName
  Members = {m1, m2}
  MemberLists <- MCMemberLists
  UserPatches <- MCUserPatches
  GroupPatches <- MCGroupPatches
  FirstIndexes = {0}
  Counts = {2}
  MaxPageSize = 1
  MaxUsers = 3
  MaxGroups = 1
  MaxCreated = 3
SYMMETRY SameTenants
INVARIANT
  NamesUnique
