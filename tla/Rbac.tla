-------------------------------- MODULE Rbac --------------------------------
(***************************************************************************)
(* The role policy that the backend and the pages share: the set of roles  *)
(* that has each capability.                                               *)
(***************************************************************************)

Role == {"superadmin", "bos_it", "developer", "pic_web", "end_user"}

PLATFORM_ADMIN_ROLES == {"superadmin"}
PROJECT_ADMIN_ROLES == {"superadmin", "bos_it"}
PROJECT_REQUEST_CREATOR_ROLES == {"pic_web"}
PROJECT_REQUEST_REVIEWER_ROLES == {"superadmin", "bos_it"}
PROJECT_GLOBAL_VIEWER_ROLES == {"superadmin", "bos_it"}
USER_STORY_MANAGER_ROLES == {"superadmin", "bos_it", "developer"}
ALL_RESOURCE_ACCESS_ROLES == {"superadmin", "bos_it", "developer"}
INCIDENT_MANAGER_ROLES == {"superadmin"}
TICKET_MANAGER_ROLES == {"superadmin", "bos_it", "developer", "pic_web"}
TASK_INTAKE_CREATOR_ROLES == {"superadmin", "bos_it", "pic_web"}
WORKLOAD_VIEWER_ROLES == {"superadmin", "bos_it", "pic_web"}

canManagePlatform(role) == role \in PLATFORM_ADMIN_ROLES
canManageProjects(role) == role \in PROJECT_ADMIN_ROLES
canCreateProjectRequest(role) == role \in PROJECT_REQUEST_CREATOR_ROLES
canReviewProjectRequests(role) == role \in PROJECT_REQUEST_REVIEWER_ROLES
canViewProjectRegistry(role) == role \in PROJECT_GLOBAL_VIEWER_ROLES \cup {"developer", "pic_web"}
roleCanAccessAllMonitoredResources(role) == role \in ALL_RESOURCE_ACCESS_ROLES
canViewIncidents(role) == roleCanAccessAllMonitoredResources(role) \/ role = "pic_web"
canViewUserStories(role) == role \in USER_STORY_MANAGER_ROLES
canManageIncidents(role) == role \in INCIDENT_MANAGER_ROLES
canViewTaskMonitoring(role) == role \in {"superadmin", "bos_it", "pic_web", "developer"}
isEndUserPublicDashboard(role) == role = "end_user"
=============================================================================
