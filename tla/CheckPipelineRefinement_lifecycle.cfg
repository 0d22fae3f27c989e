SPECIFICATION Spec
CONSTANTS
  Executor = {e1, e2}
  Staff = {p1}
  IncidentId = {i1, i2}
  NoOne = NoOne
  NoIncident = NoIncident
  MaxSlot = 3
  LegacySlots = 0
  LateSlots = 2
  Lookback = 5
  MaxAttempts = 3
  MaxStalls = 1
  MaxFaults = 0
  MayOverrun = TRUE
  Observations = {"normal", "down"}
  StaffTargets = {"resolved"}
SYMMETRY Symmetry
INVARIANT IncidentRestsOnTwoFailures
PROPERTY ImplementsLifecycle
