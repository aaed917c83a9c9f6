CONSTANTS
  Main = 0
  NWorkers = 2
  Items <- MCItems
  RootSeq <- MCRootSeq
  Children <- MCChildren
SPECIFICATION Spec
INVARIANT RethrowsItemFailure
