CONSTANTS
  Window = 5
  MinSamples = 4
  PromoteAt = 900
  DemoteAt = 600
  MaxOpen = 2
  MaxSignals = 8
  MaxOverlappingSignals = 3
SPECIFICATION MCSpec
INVARIANTS
  AloneHistoryExplains
  AloneNoFlapping
PROPERTIES
  ScoreFresh
