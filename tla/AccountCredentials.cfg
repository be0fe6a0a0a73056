SPECIFICATION CredentialsSpec
CONSTANTS
  Attempts = {a1, a2}
  Passwords = {"old", "new"}
  Secrets = {k1, k2}
  NoSecret = NoSecret
  Challenges = {c1}
  Enrollments = {e1, e2}
  Limit = 3
  DelayFrom = 2
  CodeLimit = 2
  RecoveryLimit = 1
  MaxTime = 2
  MaxVersion = 3
  MaxGeneration = 2
SYMMETRY Symmetric
INVARIANTS
  BudgetHolds
  CodesServeOnce
PROPERTY
  GrantsAreProved
CHECK_DEADLOCK FALSE
