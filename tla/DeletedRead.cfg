CONSTANTS
  Keys <- MCKeys
  Contents = {c1}
  Absent = Absent
  Descriptions = {a}
  MaxRevision = 3
  MaxLockSeq = 0
SPECIFICATION Spec
SYMMETRY MCSymmetry
INVARIANTS
  ReadsAreAsOf
