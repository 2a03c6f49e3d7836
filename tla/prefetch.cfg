SPECIFICATION FairSpec
CONSTANTS
  NumMembers = 2
  NumEpochs = 3
  Anchor <- TwoCadences
  Size <- EvenSizes
  MayFail <- SomeFail
  Orders <- Mixed
  Depth = 2
  MaxBytes = 5
  FetchAhead = 1
  Workers = {w1, w2}
  None = None
  MaxGeneration = 2
INVARIANTS GenerationsDoNotMix WindowIsAccounted
PROPERTIES QuietAfterCancel DeliversInOrder TakeReturns CloseReturns
