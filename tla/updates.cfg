CONSTANTS
  Update = {u1}
  Caller = {e1, e2}
  MaxFaults = 1
SPECIFICATION Spec
INVARIANTS OldFilesKept 
PROPERTIES  UpdateSettles
CHECK_DEADLOCK FALSE
