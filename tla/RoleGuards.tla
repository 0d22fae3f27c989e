----------------------------- MODULE RoleGuards -----------------------------
(***************************************************************************)
(* Which roles each endpoint of the API serves - by the roles its          *)
(* controller requires and by the refusals of its service - and which      *)
(* requests each page sends for a user of each role.  The two sides are    *)
(* written in different programs; the properties compare them, and the two *)
(* navigations of the pages with each other.                               *)
(***************************************************************************)
EXTENDS Rbac

\* A controller that requires no role admits every signed-in user.
NoRole == {}
RolesGuard(required, role) == required = NoRole \/ role \in required

\* Each endpoint with the roles its controller requires.
UsersController ==
  [usersList |-> PLATFORM_ADMIN_ROLES, usersCreate |-> PLATFORM_ADMIN_ROLES,
   usersGet |-> PLATFORM_ADMIN_ROLES, usersUpdate |-> PLATFORM_ADMIN_ROLES]
WebsitesController ==
  [websitesList |-> NoRole, websitesGet |-> NoRole, websitesCreate |-> PLATFORM_ADMIN_ROLES,
   websitesUpdate |-> PLATFORM_ADMIN_ROLES, websitesDeactivate |-> PLATFORM_ADMIN_ROLES]
ProjectsController ==
  [projectsList |-> NoRole, projectsGet |-> NoRole, scopeSummary |-> NoRole,
   roster |-> PROJECT_ADMIN_ROLES, projectsCreate |-> PROJECT_ADMIN_ROLES, projectsUpdate |-> PROJECT_ADMIN_ROLES,
   updateAssignments |-> PROJECT_ADMIN_ROLES, updateWebsites |-> PROJECT_ADMIN_ROLES,
   addWebsite |-> PROJECT_ADMIN_ROLES, removeWebsite |-> PROJECT_ADMIN_ROLES]
ProjectRequestsController ==
  [requestsList |-> NoRole, requestsGet |-> NoRole, requestsAttachment |-> NoRole,
   requestsCreate |-> PROJECT_REQUEST_CREATOR_ROLES, requestsUpdate |-> PROJECT_REQUEST_CREATOR_ROLES,
   requestInfo |-> PROJECT_REQUEST_REVIEWER_ROLES, reject |-> PROJECT_REQUEST_REVIEWER_ROLES,
   approve |-> PROJECT_REQUEST_REVIEWER_ROLES]
IncidentsController ==
  [incidentsList |-> NoRole, activeCount |-> NoRole, incidentContext |-> NoRole, incidentsGet |-> NoRole,
   incidentsUpdate |-> INCIDENT_MANAGER_ROLES, incidentsClose |-> INCIDENT_MANAGER_ROLES]
MonitoringController == [resultsOfWebsite |-> NoRole, latestResult |-> NoRole, resultsGet |-> NoRole]
DashboardController == [dashboardMain |-> NoRole, dashboardDetail |-> NoRole]
NotificationsController == [notificationsList |-> NoRole, readAll |-> NoRole, markRead |-> NoRole]
TicketsController ==
  [ticketsList |-> NoRole, ticketsGet |-> NoRole, ticketsAttachment |-> NoRole,
   uploadAttachment |-> TICKET_MANAGER_ROLES, ticketsCreate |-> TICKET_MANAGER_ROLES,
   ticketsUpdate |-> TICKET_MANAGER_ROLES]
TaskIntakeController == [taskIntakeCreate |-> TASK_INTAKE_CREATOR_ROLES]
\* A slip: only managers read and change tasks.
TasksOfManagers ==
  [tasksList |-> {"superadmin", "bos_it", "pic_web"}, tasksUpdateStatus |-> {"superadmin", "bos_it"}]
TasksController ==
  [tasksList |-> {"superadmin", "developer", "bos_it", "pic_web"},
   tasksUpdateStatus |-> {"superadmin", "developer"}]
TaskMonitoringController ==
  [boardOverview |-> NoRole, boardFilters |-> NoRole, boardList |-> NoRole, boardGet |-> NoRole,
   boardUpdateStatus |-> NoRole]
UserStoriesController ==
  [storiesList |-> NoRole, storiesGet |-> NoRole, storiesUpdate |-> NoRole, storiesOfProject |-> NoRole,
   storiesCreate |-> NoRole, createFromTicket |-> NoRole, meWork |-> NoRole, meWorkSummary |-> NoRole]
WorkloadController == [workloadDevelopers |-> WORKLOAD_VIEWER_ROLES]
-----------------------------------------------------------------------------
(* The roles a service refuses whatever the row.  An endpoint that is not  *)
(* listed refuses nobody for the role alone.                               *)

Operational == {"superadmin", "bos_it", "developer", "pic_web"}
IncidentsService == [e \in {"incidentsList", "activeCount", "incidentContext", "incidentsGet"} |-> Operational]
MonitoringService == [e \in {"resultsOfWebsite", "latestResult"} |-> Operational]
DashboardService == [dashboardDetail |-> Operational]
TicketsService ==
  [ticketsList |-> Operational, ticketsGet |-> Operational, ticketsAttachment |-> Operational,
   uploadAttachment |-> Operational, ticketsCreate |-> Operational, ticketsUpdate |-> Operational \ {"pic_web"},
   taskIntakeCreate |-> TASK_INTAKE_CREATOR_ROLES]
TaskMonitoringService ==
  LET viewers == {"superadmin", "bos_it", "pic_web", "developer"} IN
  [boardOverview |-> viewers, boardFilters |-> viewers, boardList |-> viewers, boardGet |-> viewers,
   boardUpdateStatus |-> {"superadmin", "bos_it"}]
StoryViewers == {"superadmin", "bos_it", "developer"}
Managers == {"superadmin", "bos_it"}
UserStoriesService ==
  [e \in {"storiesList", "storiesGet", "storiesOfProject", "storiesCreate", "createFromTicket", "storiesUpdate"}
     |-> StoryViewers]
MyWorkService == [e \in {"meWork", "meWorkSummary"} |-> {"developer"}]
ProjectsService ==
  LET viewers == {"superadmin", "bos_it", "developer", "pic_web"} IN
  [projectsList |-> viewers, projectsGet |-> viewers, scopeSummary |-> viewers,
   roster |-> Managers, projectsCreate |-> Managers, projectsUpdate |-> Managers, updateAssignments |-> Managers,
   updateWebsites |-> Managers, addWebsite |-> Managers, removeWebsite |-> Managers]
ProjectRequestsService ==
  [requestsList |-> Managers \cup {"pic_web"}, requestsGet |-> Managers \cup {"pic_web"},
   requestsAttachment |-> Managers \cup {"pic_web"}, requestsCreate |-> {"pic_web"}, requestsUpdate |-> {"pic_web"},
   requestInfo |-> Managers, reject |-> Managers, approve |-> Managers]

Controllers ==
  { UsersController, WebsitesController, ProjectsController, ProjectRequestsController, IncidentsController,
    MonitoringController, DashboardController, NotificationsController, TicketsController, TaskIntakeController,
    TasksController, TaskMonitoringController, UserStoriesController, WorkloadController }
Services ==
  { IncidentsService, MonitoringService, DashboardService, TicketsService, TaskMonitoringService,
    UserStoriesService, MyWorkService, ProjectsService, ProjectRequestsService }

Serves(e) ==
  { role \in Role : /\ \E c \in Controllers : e \in DOMAIN c /\ RolesGuard(c[e], role)
                   /\ \A s \in Services : e \in DOMAIN s => role \in s[e] }
-----------------------------------------------------------------------------
(* The pages: the roles each shows itself to, and the requests it sends    *)
(* with the roles of the users for whom it sends them.                     *)

Having(can(_)) == { role \in Role : can(role) }
Registry == Having(canViewProjectRegistry)
ProjectAdmins == Having(canManageProjects)
IncidentViewers == Having(canViewIncidents)
Platform == Having(canManagePlatform)
Submitters == Having(canCreateProjectRequest)
Reviewers == Having(canReviewProjectRequests)
BoardViewers == Having(canViewTaskMonitoring)
NotGallery == Role \ Having(isEndUserPublicDashboard)

AdminUsersPage == [usersList |-> Platform, usersCreate |-> Platform, usersUpdate |-> Platform]
ProjectsPage == [projectsList |-> Registry, projectsCreate |-> ProjectAdmins]
\* The project is loaded before the page turns a user away; the Work tab, which every
\* role has, loads the stories that the Stories tab keeps from PIC Web.
ProjectPage ==
  [projectsGet |-> Role, storiesOfProject |-> Registry, ticketsList |-> Registry,
   projectsUpdate |-> ProjectAdmins, addWebsite |-> ProjectAdmins, removeWebsite |-> ProjectAdmins,
   roster |-> ProjectAdmins, updateAssignments |-> ProjectAdmins,
   taskIntakeCreate |-> ProjectAdmins \cup {"pic_web"},
   storiesCreate |-> StoryViewers, createFromTicket |-> StoryViewers, storiesUpdate |-> StoryViewers]
RequestsPage == [requestsList |-> Reviewers \cup Submitters]
NewRequestPage == [uploadAttachment |-> Submitters, requestsCreate |-> Submitters]
RequestPage ==
  [requestsGet |-> Reviewers \cup Submitters, requestsAttachment |-> Reviewers \cup Submitters,
   uploadAttachment |-> Submitters, requestsUpdate |-> Submitters,
   requestInfo |-> Reviewers, reject |-> Reviewers, approve |-> Reviewers]
BoardPage ==
  [boardFilters |-> BoardViewers, boardOverview |-> BoardViewers, boardList |-> BoardViewers,
   boardGet |-> BoardViewers, boardUpdateStatus |-> {"superadmin", "bos_it"}, scopeSummary |-> {"developer"}]
DashboardPage == [dashboardMain |-> Role, tasksList |-> {"developer"}]
WebsitePage == [dashboardDetail |-> NotGallery, tasksList |-> {"developer"}]
IncidentsPage == [websitesList |-> IncidentViewers, incidentsList |-> IncidentViewers]
IncidentPage ==
  [incidentContext |-> IncidentViewers, incidentsUpdate |-> Having(canManageIncidents),
   incidentsClose |-> Having(canManageIncidents)]
MyWorkPage == [meWork |-> {"developer"}, tasksUpdateStatus |-> {"developer"}, storiesUpdate |-> {"developer"}]
UserStoriesPage ==
  [storiesList |-> Having(canViewUserStories), boardFilters |-> {"bos_it", "developer"},
   projectsList |-> {"superadmin"}, storiesUpdate |-> {"superadmin", "bos_it", "developer"}]
NotificationBell == [notificationsList |-> NotGallery, readAll |-> NotGallery, markRead |-> NotGallery]

canNavigateIncidents(role) == role \in {"superadmin", "bos_it", "developer"}
AppShell ==
  [activeCount |-> Having(canNavigateIncidents), meWorkSummary |-> {"developer"}, scopeSummary |-> {"developer"}]

Pages ==
  { AdminUsersPage, ProjectsPage, ProjectPage, RequestsPage, NewRequestPage, RequestPage, BoardPage,
    DashboardPage, WebsitePage, IncidentsPage, IncidentPage, MyWorkPage, UserStoriesPage,
    NotificationBell, AppShell }

\* The two requests that are sent to be refused (README, known divergences).
KnownRefusals == {<<"projectsGet", "end_user">>, <<"storiesOfProject", "pic_web">>}
-----------------------------------------------------------------------------
(* Navigation.  The context says whether the developer's scope is loaded   *)
(* and whether he is the PIC of a project.                                 *)

NavigationContext == [scopeReady : BOOLEAN, isProjectPicDeveloper : BOOLEAN]

When(test, destinations) == IF test THEN destinations ELSE {}

commonDesktopItems(role, c) ==
  {"/dashboard"}
    \cup When(role # "developer" \/ (c.scopeReady /\ c.isProjectPicDeveloper), {"/tasks"})
    \cup When(role = "developer", {"/me/work"})
    \cup When(role \in {"superadmin", "bos_it", "developer", "pic_web"}, {"/projects"})
    \cup When(role \in {"superadmin", "bos_it", "developer"}, {"/user-stories"})
    \cup When(canNavigateIncidents(role), {"/incidents"})
    \cup When(role = "superadmin", {"/admin/users"})

primaryNav(role, c) ==
  {"/dashboard", "/menu"}
    \cup When(role \in {"superadmin", "bos_it", "pic_web"}, {"/tasks"})
    \cup When(role = "developer", {"/me/work"} \cup When(c.scopeReady /\ c.isProjectPicDeveloper, {"/tasks"}))
    \cup When(role \in {"superadmin", "bos_it", "pic_web"} \/ (role = "developer" /\ ~c.isProjectPicDeveloper),
              {"/projects"})
    \cup When(role \in {"superadmin", "bos_it", "developer"}, {"/user-stories"})

\* A slip: the projects of a PIC developer have left the first row and are not here either.
MenuWithoutProjects(role, c) ==
  When(canNavigateIncidents(role), {"/incidents"}) \cup When(role = "superadmin", {"/admin/users"})

menuNav(role, c) ==
  When(role = "developer" /\ c.scopeReady /\ c.isProjectPicDeveloper, {"/projects"})
    \cup When(canNavigateIncidents(role), {"/incidents"})
    \cup When(role = "superadmin", {"/admin/users"})

buildNavigationCatalog(role, c) ==
  IF role = "end_user"
    THEN [ready |-> TRUE, primaryNav |-> {}, menuNav |-> {}, desktopNav |-> {}]
    ELSE [ready |-> role # "developer" \/ c.scopeReady,
          primaryNav |-> primaryNav(role, c), menuNav |-> menuNav(role, c),
          desktopNav |-> commonDesktopItems(role, c)]

\* Whether a page keeps a user who opens it, rather than send him elsewhere.
Keeps(path, role, c) ==
  CASE path = "/dashboard" -> TRUE
    [] path = "/menu" -> ~isEndUserPublicDashboard(role)
    [] path = "/tasks" -> canViewTaskMonitoring(role) /\ (role = "developer" => c.scopeReady /\ c.isProjectPicDeveloper)
    [] path = "/me/work" -> role = "developer"
    [] path = "/projects" -> canViewProjectRegistry(role)
    [] path = "/user-stories" -> canViewUserStories(role)
    [] path = "/incidents" -> canViewIncidents(role)
    [] path = "/admin/users" -> canManagePlatform(role)
-----------------------------------------------------------------------------
(* Properties. *)

\* No page sends a request, for a user of any role, that the controller or the service
\* refuses to that role.
PagesSendOnlyWhatIsServed ==
  \A page \in Pages : \A e \in DOMAIN page : \A role \in page[e] :
    role \in Serves(e) \/ <<e, role>> \in KnownRefusals

\* "Build the navigation in one place so mobile, tablet, and desktop cannot accidentally
\* drift apart" (mobile-navigation.ts:93): once ready, both lead to the same pages, and
\* every page they lead to keeps the user.
NavigationsAgree ==
  \A role \in Role, c \in NavigationContext :
    LET nav == buildNavigationCatalog(role, c) IN
    nav.ready =>
      /\ nav.desktopNav = (nav.primaryNav \cup nav.menuNav) \ {"/menu"}
      /\ \A path \in nav.desktopNav \cup nav.primaryNav \cup nav.menuNav : Keeps(path, role, c)
=============================================================================
