SPECIFICATION FairSpec
CONSTANTS
  Note = 2
  Executor = {e1, e2}
  NoOne = NoOne
  Limit = 2
  MaxAttempts = 3
  MaxStalls = 1
  MaxFaults = 1
INVARIANTS
  SentWasAccepted
  DuplicatesCostFaults
  FailedAfterAllAttempts
  CompletedIsSettled
 
