SPECIFICATION Spec
CONSTANTS
  Executor = {e1, e2}
  Staff = {p1}
  IncidentId = {i1, i2}
  NoOne = NoOne
  NoIncident = NoIncident
  MaxSlot = 3
  LegacySlots = 1
  LateSlots = 1
  Lookback = 5
  MaxAttempts = 2
  MaxStalls = 1
  MaxFaults = 1
  MayOverrun = TRUE
  Observations = {"down"}
  StaffTargets = {"resolved"}
SYMMETRY Symmetry
INVARIANTS
  HolderKeepsLock
  OneIncidentPerSlot
  AtMostOneActive
