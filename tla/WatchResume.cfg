CONSTANTS
  Keys <- MCKeys
  Contents = {c1}
  Absent = Absent
  Descriptions = {a}
  MaxRevision = 3
  MaxLockSeq = 0
  Writers = {p, q}
  WatchRequests <- MCWideRequests
  BufferSize = 1
  BatchSize = 1
  MaxTxnEvents = 1
SPECIFICATION Spec
SYMMETRY MCSymmetry
CHECK_DEADLOCK FALSE
INVARIANTS
  ResumedWatchMissesNothing
