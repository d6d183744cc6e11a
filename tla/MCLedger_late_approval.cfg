CONSTANTS
  Experts = {"ann"}
  Grades = {"a1"}
  Author <- MCAuthor
  Amount <- MCAmount
  Periods = {p1}
  NoPeriod = none
  Window = 2
  MinChecks = 1
  ThresholdNum = 7
  ThresholdDen = 10
  Settable = {"active"}
  MaxOpen = 2
  MaxChecks = 1
  MaxOverlappingChecks = 1
SPECIFICATION MCSpec
INVARIANT PausedWithheld
