SPECIFICATION MCSpec
CONSTANTS
  c1 = c1
  c2 = c2
  e1 = e1
  e2 = e2
  None = None
  Companion = {c1, c2}
  Executor = {e1, e2}
  Limits = {1, 2}
SYMMETRY EitherSymmetry
ACTION_CONSTRAINT OneOrRivals
INVARIANTS
  RunsInItsPlace
  RemovedIsStopped
PROPERTY WithinLimit
