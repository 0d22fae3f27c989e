SPECIFICATION FairSpec
CONSTANTS
  Executor = {e1, e2}
  Staff = {}
  IncidentId = {i1}
  NoOne = NoOne
  NoIncident = NoIncident
  MaxSlot = 3
  LegacySlots = 1
  LateSlots = 1
  Lookback = 5
  MaxAttempts = 2
  MaxStalls = 1
  MaxFaults = 1
  MayOverrun = FALSE
  Observations = {"down"}
  StaffTargets = {}
PROPERTIES
  PipelineProgresses
