CONSTANTS
  Tasks = {"pair"}
  Experts = {e1, e2}
  NoExpert = none
  Golden <- MCGolden
  Required <- MCRequired
  Matches <- MCMatches
  MinTier <- MCMinTier
  Scores = {1}
  Tolerance = 1
  MaxReviews = 2
SPECIFICATION Spec
INVARIANT RowsOfApprovedTasks
