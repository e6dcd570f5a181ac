SPECIFICATION FairSpec
CONSTANTS
  r1 = r1
  e1 = e1
  None = None
  Run = {r1}
  Background = {r1}
  Executor = {e1}
  MaxEndpoint = 2
PROPERTY ClaimedRunSettles
