CONSTANTS
  Sha <- PairSha
  MaxJobs = 2
  Nonces = 4
  YieldEvery = 2
  LogEvery = 4
  MaxRestarts = 1
SPECIFICATION FairSpec
INVARIANTS
  HashesTrue
PROPERTIES
  BootCompletes
  TlsServed
