CONSTANTS
  Tasks = {"trio"}
  Experts = {e1, e2, e3, e4}
  NoExpert = none
  Golden <- MCGolden
  Required <- MCRequired
  Matches <- MCMatches
  MinTier <- MCMinTier
  Scores = {1, 2, 3, 4}
  Tolerance = 2
  MaxReviews = 3
SPECIFICATION Spec
SYMMETRY ExpertSymmetry
INVARIANTS
  FlowInv
  RoundWhenComplete
  DeliveredStands
  AdjudicationUntouched
  ApprovedAccounted
  NothingOutOfSight
  RemindersTrue
PROPERTIES
  DatasetSpec
  ApprovedSticks
  VerdictFinal
