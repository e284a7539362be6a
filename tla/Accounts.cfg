SPECIFICATION Spec
SYMMETRY ProcSymmetry
CONSTANTS
  SystemGroupSuperAdmin = 10
  UserIds = {1, 3, 4}
  AdminEmail = 1
  PassthroughEmail = 2
  WebTTL = 4
  CLITTL = 9
  MaxSliding = 7
  Throttle = 1
  MinDelta = 2
  Procs = {p1, p2}
  Passwords = {1, 2}
  Externals <- MCExternals
  NewTokens <- MCNewTokens
  InitialAccounts <- MCInitialAccounts
  MaxTime = 5
  MaxRequests = 3
  MaxSessions = 4
  MaxTokens = 2
  MaxCrashes = 1
INVARIANTS
  RevocationHolds
  AuditTrail
  CredentialsCurrent
  SlidingHolds
  TokenRevocationHolds
  IndexesAgree
  TokenListComplete
CHECK_DEADLOCK FALSE
