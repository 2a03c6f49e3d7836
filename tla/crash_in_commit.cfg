SPECIFICATION Spec
CONSTANTS
  p1 = p1  p2 = p2  p3 = p3  c1 = c1  c2 = c2  c3 = c3
  Procs = {p1, p2}
  Offline = {}
  Content = {c1, c2}
  Torn = Torn
  None = None
  FirstContent = c1
  Later <- Anyway
  Len <- MCLen
  Tag <- NoTag
  NumSources = 1
  FileSources = {}
  Ext <- OneExt
  Bare = "bare"
  Incomplete = FALSE
  Expected <- Undeclared
  VerifyOnRead = FALSE
  Recheck = TRUE
  Limit <- RemoteLimit
SYMMETRY Symmetry
INVARIANTS
  ManifestDescribesBlob
