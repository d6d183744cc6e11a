CONSTANTS
  Hosts = {h1, h2}
  Tasks = {}
  Keys = {}
  MaxCrashes = 1
  MaxResets = 0
SPECIFICATION FairSpec
CHECK_DEADLOCK FALSE
PROPERTIES
  DeployEnds
