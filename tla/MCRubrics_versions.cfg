CONSTANTS
  Tasks = {"solo", "trio"}
  Required <- MCRequired
  MaxVersions = 4
  MaxPublishing = 2
  MaxOpen = 2
SPECIFICATION Spec
INVARIANTS
  OneVersionPerTask
  Chain
PROPERTIES
  ShownIsGraded
  QueuedKeepUp
