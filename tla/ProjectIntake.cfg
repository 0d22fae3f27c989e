SPECIFICATION Spec
CONSTANTS
  Request = {r1, r2}
  Project = {p1, p2}
  Website = {w1, w2}
  Handler = {h1, h2}
  EditStatuses = {"draft", "active", "archived"}
  NoProject = NoProject
  NoSite = NoSite
  NoRequest = NoRequest
SYMMETRY Symmetry
CONSTRAINT NothingRaced
INVARIANTS
  RequestsMatchProjects
PROPERTIES
  DecisionIsFinal
  ProjectsKeepWebsites
CHECK_DEADLOCK FALSE
