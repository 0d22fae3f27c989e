SPECIFICATION Spec
CONSTANTS
  Instance = {s1, s2}
  w1 = w1
  w2 = w2
  Website <- MCWebsite
  Interval <- MCInterval
  NoOne = NoOne
  MaxQuarter = 8
  MaxFaults = 1
SYMMETRY Symmetry
INVARIANTS
  OneScheduler
  EverySlotReleased
PROPERTY JobsInHandStay
