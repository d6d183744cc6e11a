CONSTANTS
  Tasks = {"urgent", "later"}
  Experts = {e1, e2}
  NoOne = none
  NoTask = "-"
  Place <- MCPlace
  Sessions = {s1, s2, s3}
SPECIFICATION Spec
SYMMETRY MCSymmetry
INVARIANTS
  IInv
PROPERTIES
  LeasesSpec
  LiveLeaseKept
  NextServesNew
