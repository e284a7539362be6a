CONSTANTS
  Keys <- MCKeys
  Contents = {c1, c2}
  Absent = Absent
  Descriptions = {a}
  MaxRevision = 3
  MaxLockSeq = 3
SPECIFICATION Spec
SYMMETRY MCSymmetry
INVARIANTS
  BucketsAgree
  Versions
  LockAudit
  PointInTime
  IInv
PROPERTIES
  PastImmutable
  LockedConfigFrozen
  NamespaceLockStopsWrites
  ImplementsVersionedMap
