CONSTANTS
  Companion = {c1}
  Message = {n1, n2}
  Call = {k1}
  MaxTurns = 2
  MaxTasks = 2
  MaxEdits = 1
  MaxLeads = 2
  a = a
  b = b
  Pairs <- ThePairs
  Worker = {e1, e2}
  MaxDelegations = 2
  MaxPasses = 1
  MaxRetired = 1
  Flow = {f1}
  Job = {w1, w2}
  Apps <- TheApps
  Nothing = Nothing
  MaxToken = 2
  MaxChange = 3
  m1 = m1
  m2 = m2
  b1 = b1
  b2 = b2
  None = None
  Run = {m1, m2, b1, b2}
  Background = {b1, b2}
  MaxCalls = 1
SPECIFICATION MCSpec
INVARIANTS MaintenanceWaits ResultContinuesOnce CallActsOnce NoCircularWait RefreshCarriesTheGrant
PROPERTIES ImplementsContract NeverBusy LaneIsVacated ReturnedOnce ClosedTurnIsSilent TurnEnds DelegationFinishes MachineFollowsSelection
CHECK_DEADLOCK FALSE
