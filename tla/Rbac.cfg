SPECIFICATION Spec
CONSTANTS
  SystemGroupSuperAdmin = 10
  UserIds = {1, 2, 3, 4}
  AdminEmail = 1
  PassthroughEmail = 2
  GroupNames = {10, 11, 12}
  Emails = {4}
  NewGroups <- MCNewGroups
  MemberDeltas <- MCMemberDeltas
  PermDeltas <- MCPermDeltas
  GroupDeltas <- MCGroupDeltas
  InitialStates <- MCInitialStates
  Modes = {"basic", "oidc", "none"}
  MaxCommits = 2
  MaxFaults = 1
  MaxInFlight = 2
INVARIANTS
  CacheFollowsDisk
  SystemGroupClosed
  AdminRemains
  ScansAgree
  ListShowsWhatGetShows
PROPERTIES
  NoEscalation
  StaleEditsRefused
CHECK_DEADLOCK FALSE
