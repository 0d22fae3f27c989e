SPECIFICATION BrowserSpec
CONSTANTS
  Tab = {a, b}
  NoTab = NoTab
  MaxToken = 3
  MaxFaults = 1
  Account = {a, b}
  Flight = {c, d}
  NoFlight = NoFlight
  NoEntry = NoEntry
  MaxTokens = 2
  MaxCalls = 2
  Filter = {a, b}
  Call = {c, d}
  NoRows = NoRows
  MaxPage = 3
  MaxSaves = 2
  Form = {a, b}
  Check = {c, d}
  MaxBuilds = 3
  MaxDeploys = 2
  MaxReloads = 3
  Developer = {a, b}
  Put = {c, d}
  NoTeam = NoTeam
  MaxWrites = 2
  MaxUrl = 2
SYMMETRY Symmetry
CONSTRAINT Bound
INVARIANTS
  
  CallsActAsOne
  
  UpdatesKeepDrafts
  
  ViewerFollowsFrame
CHECK_DEADLOCK FALSE
