SPECIFICATION Spec
CONSTANTS
  r1 = r1
  e1 = e1
  e2 = e2
  None = None
  Run = {r1}
  Background = {r1}
  Executor = {e1, e2}
  MaxEndpoint = 1
SYMMETRY ExecutorSymmetry
ACTION_CONSTRAINT Awake
INVARIANTS
  AtMostOnePut
PROPERTY KeepsContract
