CONSTANTS
  Keys <- MCKeys
  Contents = {c1, c2}
  Absent = Absent
  Descriptions = {a}
  MaxRevision = 3
  MaxLockSeq = 0
  Writers = {p, q}
  WatchRequests <- MCScopedRequests
  BufferSize = 1
  BatchSize = 1
  MaxTxnEvents = 1
SPECIFICATION Spec
SYMMETRY MCSymmetry
CHECK_DEADLOCK FALSE
INVARIANTS
  EventsAreCommitted
  RevisionsInOrder
  LossIsExplained
  WatchInScope
