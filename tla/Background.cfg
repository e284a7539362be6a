CONSTANTS
  EventKinds <- MCEventKinds
  AtOrBelow <- MCAtOrBelow
  AnyNamespace = AnyNamespace
  DomainAll = DomainAll
  NoPrefix = NoPrefix
  HookProcs = {h1, h2}
  HookRequests <- MCHookRequests
  HookGrants <- MCHookGrants
  InitialHooks <- MCInitialHooks
  defaultBufferSize = 1
  maxConcurrentDeliveries = 1
  deliveryHistorySize = 3
  WatchStreamIDs = {w1, w2}
  WatchedNamespaces = {1}
  ClientNames = {n1}
  NoName = NoName
  Viewers <- MCViewers
  Streams = {s1}
  Lists = {l1}
  MaxClock = 2
  BufferSize = 1
  MaxRecords = 1
  MaxAge = 1
  RecentEventsCapacity = 1
  SubscriberBuffer = 1
  NoPub = NoPub
  Budgets <- MCBudgets

SPECIFICATION Spec
CHECK_DEADLOCK FALSE

INVARIANTS
  DeliveryHistoryTrue
  SnapshotsAccounted
  WatchesTracked
PROPERTIES
  EventuallyHandled
  StreamsCatchUp
