CONSTANTS
  Main = 0
  NWorkers = 2
  Items <- MCItems
  RootSeq <- MCRootSeq
  Children <- MCChildren
SPECIFICATION Spec
INVARIANTS TypeOK ActiveAccounted ProcessComplete RecordedIsItemFailure WorkersJoined
PROPERTIES ProcessTerminates
