SPECIFICATION FairSpec
CONSTANTS
  p1 = p1  p2 = p2  p3 = p3  c1 = c1  c2 = c2  c3 = c3
  Procs = {p1, p2}
  Offline = {}
  Content = {c1, c2}
  Torn = Torn
  None = None
  FirstContent = c1
  Later <- Anyway
  Len <- MCLen
  Tag <- EachTag
  NumSources = 2
  FileSources = {1}
  Ext <- MirrorExt
  Bare = "bare"
  Incomplete = TRUE
  Expected <- Declared
  VerifyOnRead = TRUE
  Recheck = TRUE
  Limit <- RemoteLimit
INVARIANTS
  ManifestDescribesTip
  FailuresAreTheSources
  ServedBytesAreExpected
PROPERTIES
  EntryKept
  FetchReturns
