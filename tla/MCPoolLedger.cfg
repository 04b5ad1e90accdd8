CONSTANTS
  Pools <- MCPools
  NSlots = 2
  Grain <- MCGrain
  MaxEvents = 4
  MaxBusy = 2
SPECIFICATION FairSpec
INVARIANTS
  SavedAtRest
PROPERTIES
  NoNewTwins
  JustLeftKept
  Converges
