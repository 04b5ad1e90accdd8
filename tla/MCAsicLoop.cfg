CONSTANTS
  c1 = c1
  Callers = {c1}
  None = None
  AckMayTimeOut = TRUE
  DoneMayTimeOut = TRUE
  VcoreWatchdog = TRUE
  PoolMayDrop = TRUE
  PollRegs = 2
SPECIFICATION FairSpec
INVARIANTS
  AckSiteQuiesced
PROPERTIES
  ChipRestarts
  ChipGetsWork
