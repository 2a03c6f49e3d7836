SPECIFICATION Spec
CONSTANTS
  p1 = p1
  p2 = p2
  p3 = p3
  Procs = {p1, p2}
  Mixes <- Unlike
  None = None
  MaxCrashes = 0
  MaxInodes = 3
INVARIANTS DownloadsOnce
