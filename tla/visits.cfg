CONSTANTS
  p = p
  q = q
  w1 = w1
  w2 = w2
  Gesture = {"a1"}
  Carrier <- Both
  MaxGeneration = 3
  MaxBoots = 1
  MaxLosses = 1
  Command = {"k1", "k2"}
  Question = {"k2"}
  Server <- Both
  MaxUpsets = 2
  Upload = {"u1", "u2"}
  Output = {"p1"}
  Request = {w1, w2}
  Harvester <- Both
  MaxMishaps = 1
  Reader <- Both
  Published <- Result
  MaxMessages = 2
  MaxText = 2
  MaxVersion = 1
  MaxTroubles = 1
  Page <- Pages
  Total = 2
  PerAccount = 1
  MaxDrops = 1
SPECIFICATION MCSpec
INVARIANTS ConfirmedIsQuiet CommandActsOnce BytesAreKept HarvestIsComplete NoChangeIsMissed
PROPERTIES KeepsTheResponse
CHECK_DEADLOCK FALSE
