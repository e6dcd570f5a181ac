CONSTANTS
  Upload = {"u1"}
  Output = {}
  Request = {w1, w2}
  Harvester = {e1}
  MaxMishaps = 1
SPECIFICATION FilesSpec
INVARIANT FileHasBytes
CHECK_DEADLOCK FALSE
