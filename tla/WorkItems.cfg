SPECIFICATION Spec
CONSTANTS
  Ticket = {t1}
  Story = {s1}
  Developer = {d1, d2}
  Handler = {h1, h2}
  NoOne = NoOne
  Unset = Unset
  NoRequest = NoRequest
  Kinds <- MCKinds
  EditStatuses = {"open", "in_progress", "closed"}
  StoryStatuses = {"in_progress", "done"}
SYMMETRY Symmetry
INVARIANTS
  RowsAgree
  AssigneeWasTold
PROPERTIES
  WorkStaysDone
CHECK_DEADLOCK FALSE
