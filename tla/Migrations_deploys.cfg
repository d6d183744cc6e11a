CONSTANTS
  Hosts = {h1, h2}
  Tasks = {t1}
  Keys = {k1}
  MaxCrashes = 1
  MaxResets = 1
SPECIFICATION Spec
INVARIANTS
  CatalogOfItsVersion
  FailsOnlyOvertaken
  ServingTasksRead
PROPERTIES
  InProgressPinned
