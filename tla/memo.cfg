SPECIFICATION Spec
CONSTANTS
  Readers = {r1, r2}
  Files = {f1, f2}
  Content = {c1, c2}
  Len <- EqualLengths
  Torn = Torn
  None = None
  Granularity = 2
  Lag = 1
  Margin = 2
  MemoCap = 1
  MaxClock = 4
  MaxCalls = 3
  MaxChanges = 1
SYMMETRY Interchangeable
INVARIANTS MemoIsSound VerdictIsSound
