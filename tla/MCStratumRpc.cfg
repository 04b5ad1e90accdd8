CONSTANTS
  Diffs = {1, 2}
  Ring = 2
  Window = 2
  LateAnswers = FALSE
  MaxId = 7
  MaxSubmits = 2
SPECIFICATION FairSpec
INVARIANTS
  BooksAgree
  FirstShareIsShare
PROPERTIES
  ImageSettles
  PendingResolves
