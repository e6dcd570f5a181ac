CONSTANTS
  p = p
  q = q
  Operation = {"o1", "o2"}
  Call <- Both
  Ids = {1, 2}
  Kinds = {"preference", "context"}
  Template = {1}
  Batch = 1
  MaxPending = 2
  MaxVersion = 2
  MaxRequests = 2
  MaxFaults = 1
  Mutation <- Both
  Content = {"A", "B"}
  Absent = Absent
  MaxInode = 3
  MaxDeaths = 1
  Tenant <- Both
  MaxImages = 2
  MaxReleases = 2
  MaxTroubles = 3
  Exchange = {"x1", "x2"}
  RequestId = {"i1", "i2"}
  Gateway <- Both
  MaxConcurrent = 2
  BodyBudget = 1
  MaxOutages = 1
  StripeEvent <- MCStripeEvents
  Metered = {"m1"}
  Audit = {"b1"}
  Worker <- Both
  MaxStumbles = 1
SPECIFICATION MCSpec
INVARIANTS OperationActsOnce TrustedIndexIsComplete RemovalSparesReinstallation SuccessIsTrue
INVARIANTS NothingIsReplayed
INVARIANTS ProviderSeesItOnce SlotsAreReturned EntitlementFollowsStripe UsageCountsOnce
SYMMETRY BothSymmetry
CHECK_DEADLOCK FALSE
