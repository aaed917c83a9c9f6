CONSTANTS
  Cells <- MCCells
  Programs <- MCPrograms
  MaxInt = 2
  MaxForces = 2

SPECIFICATION Spec

INVARIANT TypeOK
INVARIANT ValueSound
INVARIANT OnlyDemandedForced

PROPERTY ForceTerminates

\* The host stops after its last top-level force.
CHECK_DEADLOCK FALSE
