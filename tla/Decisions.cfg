SPECIFICATION Spec
CONSTANTS
  ResponseTimes <- MCResponseTimes
  Lookback = 5
  MaxChecks = 6
  UserId = {u}
  NoUser = NoUser
  NoProject = NoProject
  NoSite = NoSite
  Project <- MCProject
  Website <- MCWebsite
  Unset = Unset
  Now = 1
  Never <- MCNever
  BoardTicket <- MCBoardTicket
  LegacyTask <- MCLegacyTask
  TaskMonitoringQuery <- MCQuery
  SiteColumns <- MCSiteColumns
  OldProject <- MCOldProject
  SiteCount = 2
  NoKey <- MCNoKey
INVARIANTS
  RulesMatchHistory
  ReachFollowsWork
  RoleTablesAgree
  BoardShowsItsRows
  
  TeamsKeepSight
  OutsideCallsHold
CHECK_DEADLOCK FALSE
