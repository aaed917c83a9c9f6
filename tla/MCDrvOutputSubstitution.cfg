CONSTANTS
  Subs <- MCSubs
  Id = Id
  Dep = Dep
  OutPaths = {p1, p2}
  UseSubstitutes = TRUE
  None = None
  Pending = Pending
  Miss = Miss
  Throw = Throw
SPECIFICATION Spec
INVARIANTS
  TypeOK
  NoSubstitutersHonest
PROPERTIES
  Terminates
