CONSTANTS
  Tasks = {"solo", "gold"}
  Experts = {e1, e2, e3}
  NoExpert = none
  Golden <- MCGolden
  Required <- MCRequired
  Matches <- MCMatches
  MinTier <- MCMinTier
  Scores = {1, 2}
  Tolerance = 1
  MaxReviews = 2
  MaxVersions = 2
  Key <- MCKey
SPECIFICATION VersionedFairSpec
INVARIANTS
  QueuedWhileIncomplete
  GradeCount
  GoldenReusable
  ReportsAgree
PROPERTIES
  AbandonedReturns
CONSTRAINT Checked
