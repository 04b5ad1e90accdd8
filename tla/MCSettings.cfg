CONSTANTS
  p1 = p1
  p2 = p2
  n1 = n1
  n2 = n2
  Accounts = {p1, p2}
  Blank = Blank
  Names = {n1, n2}
  Derived = n1
  FailLimit = 2
  MaxFaults = 1
  MaxSaves = 2
SPECIFICATION FairSpec
INVARIANTS
  AckedSurvives
  AsicBeforeTasks
PROPERTIES
  LoginKept
  ApAgain
