CONSTANTS
  Collectors = {1, 2}
  Tree <- MCTree
  MaxRestarts = 1
  MaxFaults = 1
SPECIFICATION Spec
INVARIANTS TypeOK ActiveOwned AllJobsOnce
PROPERTIES CollectorsExit
