CONSTANTS
  Experts = {"ann", "bob"}
  Grades = {"a1", "a2", "b1"}
  Author <- MCAuthor
  Amount <- MCAmount
  Periods = {p1, p2}
  NoPeriod = none
  Window = 2
  MinChecks = 1
  ThresholdNum = 7
  ThresholdDen = 10
  Settable = {"active", "paused", "inactive"}
  MaxOpen = 3
  MaxChecks = 3
  MaxOverlappingChecks = 2
SPECIFICATION MCSpec
INVARIANTS
  BooksBalance
  AlonePausedWithheld
  AloneWithheldPaused
PROPERTIES
  StatementsSpec
  WithheldWaits
  AloneLowRatePauses
