SPECIFICATION Spec
CONSTANTS
  m1 = m1
  m2 = m2
  b1 = b1
  b2 = b2
  e1 = e1
  None = None
  Run = {m1, m2, b1, b2}
  Background = {b1, b2}
  Executor = {e1}
  MaxEndpoint = 1
SYMMETRY RunSymmetry
ACTION_CONSTRAINT Pair
INVARIANTS
  CancelledIsStopped
  CancelledWasAsked
