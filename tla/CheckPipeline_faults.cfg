SPECIFICATION Spec
CONSTANTS
  Executor = {e1, e2}
  Staff = {}
  IncidentId = {i1, i2}
  NoOne = NoOne
  NoIncident = NoIncident
  MaxSlot = 4
  LegacySlots = 1
  LateSlots = 2
  Lookback = 5
  MaxAttempts = 2
  MaxStalls = 1
  MaxFaults = 1
  MayOverrun = FALSE
  Observations = {"normal", "down"}
  StaffTargets = {}
SYMMETRY Symmetry
INVARIANTS
  TypeOK
  OneCheckAtATime
  AnnouncedOnceInOrder
  LostIncidentCostsFault
