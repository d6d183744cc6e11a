CONSTANTS
  Tasks = {"duo", "gold", "solo", "duet"}
  Golden <- MCGolden
  Required <- MCRequired
  Matches <- MCMatches
  Names <- MCNames
  Scan <- MCScan
  NoTask = "-"
  NoExpert = "nobody"
  Sessions = {s1, s2}
SPECIFICATION Spec
SYMMETRY MCSymmetry
INVARIANT DeadlocksKnown
CONSTRAINT Checked
