CONSTANTS
  push = push
  pull = pull
  check = check
  Callers = {push, pull, check}
  Updaters = {push, pull}
  None = None
  AckMayTimeOut = FALSE
  DoneMayTimeOut = FALSE
SPECIFICATION FairReturningSpec
INVARIANTS
  PausedMeansParked
  NoStaleToken
PROPERTIES
  ImplementsLock
  RequestGranted
