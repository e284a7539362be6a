CONSTANTS
  Keys <- MCKeys
  Contents = {c1}
  Absent = Absent
  Descriptions = {a}
  MaxRevision = 2
  MaxLockSeq = 1
  Writers = {p, q}
  WatchRequests <- MCWideRequests
  BufferSize = 1
  BatchSize = 2
  MaxTxnEvents = 2
SPECIFICATION Spec
CHECK_DEADLOCK FALSE
PROPERTIES
  EventuallySent
