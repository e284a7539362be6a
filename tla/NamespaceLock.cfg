CONSTANTS
  Keys <- MCKeys
  Contents = {c1}
  Absent = Absent
  Descriptions = {a}
  MaxRevision = 3
  MaxLockSeq = 1
SPECIFICATION Spec
SYMMETRY MCSymmetry
PROPERTIES
  NamespaceLockProtects
