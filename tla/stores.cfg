SPECIFICATION FairSpec
CONSTANTS
  p1 = p1
  p2 = p2
  p3 = p3
  Procs = {p1, p2, p3}
  Mixes <- Alike
  None = None
  MaxCrashes = 1
  MaxInodes = 4
INVARIANTS RacesAreHarmless EntryIsConsistent OfflineFinds
PROPERTIES FetchReturns
