SPECIFICATION Spec
CONSTANTS
  Usernames = {alice, bob}
  Requests = {r1, r2, r3, r4}
  MaxAttempts = 3
  LockoutSeconds = 4
INVARIANTS
  TypeOK
  OvershootBounded
PROPERTIES
  LockoutHolds
  LockoutEnds
