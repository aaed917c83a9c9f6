CONSTANTS
  Heap <- MCHeap
  SymOrder <- MCSymOrder
  Lambdas <- MCLambdas
  StoreOf <- MCStoreOf
  MaxCallDepth = 3
  IntBits = 4
  MaxAutoHops = 3
  Operands <- MCOperands
  UpdOperands <- MCUpdOperands
  ListOperands <- MCListOperands
  SelOperands <- MCSelOperands
  SelPaths <- MCSelPaths
  Defaults <- MCDefaults
  Funs <- MCFuns
  ArgSeqs <- MCArgSeqs
  AutoArgs0 <- MCAutoArgs
  Pieces <- MCPieces
  NeqOperands <- MCNeqOperands
  DeepOperands <- MCDeepOperands
  AttrsLits <- MCAttrsLits
SPECIFICATION Spec
INVARIANTS
  TypeOK
  EqMatchesSpec
  AttrsMatchesSpec
  SelectAgreesWithHasAttr
  CallMatchesSpec
  DeepForceMatchesSpec
  ConcatStringsMatchesSpec
