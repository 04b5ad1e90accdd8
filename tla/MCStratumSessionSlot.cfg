CONSTANTS
  p1 = p1
  p2 = p2
  Pools = {p1, p2}
  NoPool = NoPool
  HttpOps = {}
  FailoverThreshold = 2
  KickThreshold = 2
  InitialDelay = 5
  DelayCap = 7
SPECIFICATION Spec
INVARIANT
  SlotIsSocket
