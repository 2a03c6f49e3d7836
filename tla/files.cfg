SPECIFICATION FairSpec
CONSTANTS
  Workers = {w1, w2, w3}
  Files = {f1, f2, f3}
  Capacity = 2
  None = None
  MaxRequests = 5
  MaxFailures = 1
INVARIANTS DecodesAreShared
PROPERTIES RequestReturns
