SPECIFICATION Spec
CONSTANTS
  p1 = p1  p2 = p2  p3 = p3  c1 = c1  c2 = c2  c3 = c3
  Procs = {p1, p2, p3}
  Offline = {p3}
  Content = {c1, c2, c3}
  Torn = Torn
  None = None
  FirstContent = c1
  Later <- Forward
  Len <- MCLen
  Tag <- NoTag
  NumSources = 1
  FileSources = {1}
  Ext <- OneExt
  Bare = "bare"
  Incomplete = TRUE
  Expected <- Undeclared
  VerifyOnRead = FALSE
  Recheck = TRUE
  Limit <- LocalLimit
SYMMETRY Symmetry
INVARIANTS
  SingleFlight
  ManifestDescribesBlob
  HitIsFresh
  EntryIsUsed
