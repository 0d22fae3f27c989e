SPECIFICATION Spec
CONSTANTS
  Executor = {e1}
  Staff = {}
  IncidentId = {i1, i2}
  NoOne = NoOne
  NoIncident = NoIncident
  MaxSlot = 5
  LegacySlots = 0
  LateSlots = 2
  Lookback = 5
  MaxAttempts = 3
  MaxStalls = 1
  MaxFaults = 0
  MayOverrun = FALSE
  Observations = {"normal", "warning", "down", "unknown"}
  StaffTargets = {}
PROPERTY ImplementsSequentialMonitoring
