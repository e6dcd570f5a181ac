SPECIFICATION Spec
CONSTANTS
  None = None
  Run = {r1, r2}
  Background = {r1, r2}
  Executor = {e1}
  MaxEndpoint = 1
ACTION_CONSTRAINT Unhurried
INVARIANT SuspendedReleasesLane
