CONSTANTS
  Diffs = {1, 2}
  DefaultDiff = 2
  Rolls = 1
  ResultCap = 1
  MaxSeq = 3
  JobIdStep = 24
  JobIdMod = 96
  TableSize = 16
  WireCap = 1
SPECIFICATION FairSpec
INVARIANTS
  SharesRecompute
  CleanAbandons
PROPERTIES
  MinerCatchesUp
