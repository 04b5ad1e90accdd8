CONSTANTS
  p1 = p1
  p2 = p2
  Pools = {p1, p2}
  NoPool = NoPool
  HttpOps = {"put", "switch", "delFallback", "delPrimary"}
  FailoverThreshold = 2
  KickThreshold = 2
  InitialDelay = 5
  DelayCap = 7
SPECIFICATION FairSpec
INVARIANTS
  SessionScoped
PROPERTIES
  ReconnectServed
  SessionAgain
  ZombieKicked
  FailoverMoves
