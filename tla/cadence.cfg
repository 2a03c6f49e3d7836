SPECIFICATION Spec
CONSTANTS
  None = None
  WordMax = 1000
  Sources <- AllSources
  Probes <- Instants
  Peeks <- Seams
  Horizon <- Windows
INVARIANTS
  BufferIsOfAnchor
  WarmAndScheduleCover
PROPERTIES
  SeamDecodesOnce
  WarmedRunIsWhole
