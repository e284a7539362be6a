CONSTANTS
  Keys <- MCKeys
  Contents <- MCContents
  Absent = Absent
  Descriptions = {d0}
  MaxRevision = 8
  MaxLockSeq = 4
  PathParts <- MCPathParts
  NormalForm <- MCNormalForm
  Malformed <- MCMalformed
  AnyNamespace = AnyNamespace
  PatternPaths <- MCPatternPaths
  Wildcards <- MCWildcards
  Accepts <- MCAccepts
  OtherPaths = {3}
  NoSchema = NoSchema
  NoKV = NoKV
  Missing = Missing
  EmptyDescription = d0
  Denied = Denied
  NamespaceName <- MCNamespaceName
  PathName <- MCPathName
  Procs = {p1, p2}
  Requests <- MCRequests
  MaxRequests = 3
  Grants <- MCGrants
  InitialDBs <- MCInitialDBs
  WireRanges <- MCWireRanges
  ReadRequests <- MCReadRequests
  Directories <- MCDirectories
  NoRequest = NoRequest
  normal = normal
  raw = raw
  malformed = malformed
  strict = strict
  open = open
  d0 = d0

SPECIFICATION Spec
SYMMETRY MCSymmetry
CHECK_DEADLOCK FALSE

INVARIANTS
  StoredAsChecked
  ImportReportTrue
PROPERTIES
  NoLostUpdate
  BundlesPredictAndRestore
  RangesExact
  KVResponses
  ViewsAgree
