CONSTANTS
  push = push
  pull = pull
  check = check
  Callers = {push, check}
  Updaters = {push}
  None = None
  AckMayTimeOut = TRUE
  DoneMayTimeOut = TRUE
SPECIFICATION FairHooksSpec
INVARIANTS
  QuietWhileHeld
  RequestOwned
PROPERTIES
  MinerReturns
  PauseReturns
  NoParkCycle
