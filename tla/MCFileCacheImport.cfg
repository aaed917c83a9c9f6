CONSTANTS
  Links <- MCLinks
  MaxFollow = 4
  Inputs <- MCInputs
  SearchPath <- MCSearchPath
  Dirs <- MCDirs
  Files0 <- MCFiles0
  Creatable <- MCCreatable
  Exprs <- MCExprs
  FetchAtStart = {"u"}
  Queries <- MCQueries
  ImportPaths <- MCImportPathsLink
  MaxOps = 3
SPECIFICATION Spec
INVARIANT
  ImportCorrect
