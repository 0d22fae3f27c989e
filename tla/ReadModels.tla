----------------------------- MODULE ReadModels -----------------------------
(***************************************************************************)
(* What the lists, badges, summaries and pages say of the same rows.  Each *)
(* counts or selects with a query of its own; the properties compare the   *)
(* answers.  A website's results are a set of results with different       *)
(* slots and times; times are as in TaskBoard.                             *)
(***************************************************************************)
EXTENDS TaskBoard, MonitoringRules

\* Somebody looks, and a criterion that is not given is no name of anything.
ASSUME ReadersAssumption == UserId # {} /\ Unset \notin UserId \cup {"not_started", "active", "done", "blocked"}

MonitoringResult == [scheduledAt : 0..1, checkedAt : 0..1, status : MonitoringStatus]
ResultSets ==
  {R \in {{a, b} : a, b \in MonitoringResult} \cup {{}} :
     \A a, b \in R : a # b => a.scheduledAt # b.scheduledAt /\ a.checkedAt # b.checkedAt}
NewestBy(R, field) == {r \in R : \A x \in R : x[field] =< r[field]}
-----------------------------------------------------------------------------
(* Latest results: the dashboard, its detail, the results API, a project.  *)

listByWebsite(R) == NewestBy(R, "scheduledAt")      \* the first of the history
dashboardLatest(R) == NewestBy(R, "checkedAt")
detailLatest(R) == NewestBy(R, "checkedAt")
latest(R) == NewestBy(R, "checkedAt")
\* A slip: a project takes the result of its websites' last slot.
ProjectBySlot(R) == NewestBy(R, "scheduledAt")
projectLatest(R) == NewestBy(R, "checkedAt")
StatusIn(R) == {r.status : r \in R}

\* Cards by the viewer and the status asked for.
cardShown(u, R, statusFilter) ==
  IF isEndUserPublicDashboard(u.role)
    THEN StatusIn(dashboardLatest(R)) \cap {"normal", "warning"} # {}
    ELSE /\ statusFilter = "active" => StatusIn(dashboardLatest(R)) \cap {"normal", "warning"} # {}
         /\ statusFilter = "down" => StatusIn(dashboardLatest(R)) = {"down"}

\* sites is a sequence of result sets.
healthFromWebsites(sites) ==
  LET statuses == UNION {StatusIn(projectLatest(sites[i])) : i \in DOMAIN sites} IN
  CASE "down" \in statuses -> "down"
    [] "down" \notin statuses /\ "warning" \in statuses -> "warning"
    [] statuses \cap {"down", "warning"} = {} /\ (statuses = {} \/ "unknown" \in statuses) -> "unknown"
    [] OTHER -> "normal"
healthSummaryFromWebsites(sites) ==
  [s \in MonitoringStatus |->
     Cardinality({i \in DOMAIN sites : StatusIn(projectLatest(sites[i])) = {s}
                                         \/ (s = "unknown" /\ projectLatest(sites[i]) = {})})]
-----------------------------------------------------------------------------
(* Stories and tasks of one developer.  A story is [status, primary,       *)
(* collaborators, dueDate]; stories and tasks are sequences.               *)

USER_STORY_STATUS_GROUP_STATUSES ==
  [not_started |-> {"backlog", "ready"}, active |-> {"in_progress", "review"}, done |-> {"done"}, blocked |-> {"blocked"}]
StoryGroup == DOMAIN USER_STORY_STATUS_GROUP_STATUSES
\* The page's copy, searched in the order of the groups.
pageGroups == [not_started |-> {"backlog", "ready"}, active |-> {"in_progress", "review"}, done |-> {"done"}, blocked |-> {"blocked"}]
\* A slip: a blocked story is shown among the active ones.
GroupWithoutBlocked(status) ==
  IF status = "blocked" THEN "active" ELSE CHOOSE g \in StoryGroup : status \in pageGroups[g]
getUserStoryStatusGroup(status) ==
  IF \E g \in StoryGroup : status \in pageGroups[g]
    THEN CHOOSE g \in StoryGroup : status \in pageGroups[g] ELSE "not_started"

AssignedTo(s, d) == d = s.primary \/ d \in s.collaborators
PastDue(s) == s.dueDate # Never /\ s.dueDate < Now
storyIsOverdue(s) == PastDue(s) /\ s.status # "done"
buildFilters(s, f) ==
  /\ f.status # Unset => s.status = f.status
  /\ f.status_group # Unset => s.status \in USER_STORY_STATUS_GROUP_STATUSES[f.status_group]
  /\ f.developer # Unset => AssignedTo(s, f.developer)
  /\ f.overdue => PastDue(s) /\ s.status # "done"

Count(S, d, statuses) == Cardinality({i \in DOMAIN S : AssignedTo(S[i], d) /\ S[i].status \in statuses})
LateStories(S, d) == Cardinality({i \in DOMAIN S : AssignedTo(S[i], d) /\ storyIsOverdue(S[i])})
LateTasks(T, d) ==
  Cardinality({i \in DOMAIN T : T[i].assignee = d /\ T[i].status # "done" /\ PastDue(T[i])})

\* The summary beside the list of one's own work, and the one asked for alone.
meWork(d, S, T) ==
  LET mine == {i \in DOMAIN S : AssignedTo(S[i], d)} IN
  [pending |-> Cardinality({i \in mine : S[i].status \in {"backlog", "ready"}}),
   in_progress |-> Cardinality({i \in mine : S[i].status \in {"in_progress", "review", "blocked"}}),
   overdue |-> Cardinality({i \in mine : S[i].status # "done" /\ PastDue(S[i])}) + LateTasks(T, d),
   done |-> Cardinality({i \in mine : S[i].status = "done"})]
\* A slip: blocked stories are not counted.
SummaryWithoutBlocked(d, S, T) ==
  [pending |-> Count(S, d, {"backlog", "ready"}), in_progress |-> Count(S, d, {"in_progress", "review"}),
   overdue |-> LateStories(S, d) + LateTasks(T, d), done |-> Count(S, d, {"done"})]
meWorkSummary(d, S, T) ==
  [pending |-> Count(S, d, {"backlog", "ready"}), in_progress |-> Count(S, d, {"in_progress", "review", "blocked"}),
   overdue |-> LateStories(S, d) + LateTasks(T, d), done |-> Count(S, d, {"done"})]
\* A story held twice is one unit of work in the roster, yet twice overdue.
roster(d, S) ==
  [active_workload |-> Cardinality({i \in DOMAIN S : S[i].status # "done" /\ AssignedTo(S[i], d)}),
   overdue_workload |-> Cardinality({i \in DOMAIN S : S[i].primary = d /\ storyIsOverdue(S[i])})
                        + Cardinality({i \in DOMAIN S : d \in S[i].collaborators /\ storyIsOverdue(S[i])})]
\* The workload page: open tickets without a task, unfinished tasks and unfinished stories.
developers(d, K, T, S) ==
  LET orphans == {i \in DOMAIN K : K[i].assignedTo = d /\ ~K[i].task /\ K[i].status \in {"open", "in_progress"}}
      tasks == {i \in DOMAIN T : T[i].assignee = d /\ T[i].status # "done"}
      stories == {i \in DOMAIN S : S[i].status # "done" /\ AssignedTo(S[i], d)} IN
  [pending |-> Cardinality({i \in orphans : K[i].status = "open"})
               + Cardinality({i \in tasks : T[i].status = "pending"})
               + Cardinality({i \in stories : S[i].status \in {"backlog", "ready"}}),
   in_progress |-> Cardinality({i \in orphans : K[i].status = "in_progress"})
               + Cardinality({i \in tasks : T[i].status = "in_progress"})
               + Cardinality({i \in stories : S[i].status \notin {"backlog", "ready"}}),
   overdue |-> Cardinality({i \in orphans : PastDue(K[i])}) + Cardinality({i \in tasks : PastDue(T[i])})
               + Cardinality({i \in stories : PastDue(S[i])}),
   total_active |-> Cardinality(orphans) + Cardinality(tasks) + Cardinality(stories)]
-----------------------------------------------------------------------------
(* The bell: notifications N are a sequence of [userId, channel, read].    *)

notificationsListed(N, u, f) ==
  {i \in DOMAIN N : /\ N[i].userId = u
                    /\ N[i].channel = (IF f.channel = Unset THEN "dashboard" ELSE f.channel)
                    /\ f.unread_only => ~N[i].read}
unread_count(N, u) == Cardinality({i \in DOMAIN N : N[i].userId = u /\ N[i].channel = "dashboard" /\ ~N[i].read})
\* A notification of somebody else is not found.
markRead(N, u, i) == IF N[i].userId = u THEN [N EXCEPT ![i].read = TRUE] ELSE N
\* A slip: everybody's notifications are marked.
MarkEverybodys(N, u) == [i \in DOMAIN N |-> IF N[i].channel = "dashboard" THEN [N[i] EXCEPT !.read = TRUE] ELSE N[i]]
readAll(N, u) ==
  [i \in DOMAIN N |-> IF N[i].userId = u /\ N[i].channel = "dashboard" THEN [N[i] EXCEPT !.read = TRUE] ELSE N[i]]
-----------------------------------------------------------------------------
(* Projects: the filters of the list and the cards it shows.  p is [row,   *)
(* sites, taskLate, stories, tickets]: its own row, how many websites, a   *)
(* website's late task, stories, and the statuses of its tickets.          *)

configurationStatus(p) ==
  IF p.sites = 0 \/ (p.row.picWeb = {} /\ p.row.picDeveloperId = NoUser /\ p.row.developers = {})
    THEN "needs_setup" ELSE "ready"
toListDto(p) ==
  [pic_web |-> p.row.picWeb, pic_developer |-> p.row.picDeveloperId, developers |-> p.row.developers,
   active_tickets_count |-> Cardinality({i \in DOMAIN p.tickets : p.tickets[i] \in {"open", "in_progress"}}),
   overdue_count |-> Cardinality({i \in DOMAIN p.stories : storyIsOverdue(p.stories[i])}),
   configuration_status |-> configurationStatus(p)]
\* A slip: only the tickets nobody took yet are looked for.
WhereOpenTickets(p, filter) ==
  CASE filter = "has_active_tickets" -> \E i \in DOMAIN p.tickets : p.tickets[i] = "open"
    [] OTHER -> TRUE
buildWhere(p, filter) ==
  CASE filter = "missing_pic_web" -> p.row.picWeb = {}
    [] filter = "missing_pic_developer" -> p.row.picDeveloperId = NoUser
    [] filter = "missing_developer_team" -> p.row.developers = {}
    [] filter = "has_active_tickets" -> \E i \in DOMAIN p.tickets : p.tickets[i] \in {"open", "in_progress"}
    [] filter = "has_overdue_work" ->
         (\E i \in DOMAIN p.stories : PastDue(p.stories[i]) /\ p.stories[i].status # "done") \/ p.taskLate
-----------------------------------------------------------------------------
(* Lists and what is counted or opened from them.  An incident is [site,   *)
(* status]; a request [submittedBy].                                       *)

IncidentStatus == {"open", "in_progress", "resolved", "closed"}
\* A slip: the count is that of the whole installation.
CountEverywhere(u, i) == canOperateScopedResources(u) /\ i.status \in {"open", "in_progress"}
incidentCounted(u, i) ==
  /\ canOperateScopedResources(u)
  /\ i.status \in {"open", "in_progress"}
  /\ u.role \in {"pic_web", "developer"} => websiteVisibilityScope(u, i.site)
incidentListed(u, i, f) ==
  /\ canOperateScopedResources(u)
  /\ u.role \in {"pic_web", "developer"} => websiteVisibilityScope(u, i.site)
  /\ IF f.active_only THEN i.status \in {"open", "in_progress"} ELSE f.status # Unset => i.status = f.status

websiteListed(u, w) ==
  CASE u.role \in {"pic_web", "developer"} -> websiteVisibilityScope(u, w)
    [] u.role \in {"superadmin", "bos_it"} -> TRUE
    [] OTHER -> w.ownerId = u.id
requestListed(u, r) ==
  /\ canReviewProjectRequests(u.role) \/ canCreateProjectRequest(u.role)
  /\ canReviewProjectRequests(u.role) \/ r.submittedBy = u.id
requestGet(u, r) ==
  canReviewProjectRequests(u.role) \/ (canCreateProjectRequest(u.role) /\ r.submittedBy = u.id)
-----------------------------------------------------------------------------
(* Properties. *)

\* A website has one status wherever it is shown, and the history starts with the same
\* result unless a slot was checked after a later one.
OneLatestResult ==
  \A R \in ResultSets :
    /\ dashboardLatest(R) = latest(R) /\ detailLatest(R) = latest(R) /\ projectLatest(R) = latest(R)
    /\ (\A a, b \in R : a.scheduledAt < b.scheduledAt => a.checkedAt < b.checkedAt) => listByWebsite(R) = latest(R)

\* A project is as ill as the worst of its websites' cards, its summary counts every
\* website once, and the public gallery shows exactly what the operators' active filter does.
HealthIsWorstCard ==
  \A R1, R2 \in ResultSets :
    LET sites == <<R1, R2>>
        health == healthFromWebsites(sites)
        summary == healthSummaryFromWebsites(sites)
        Shown(role, R, f) == \E u \in AuthUser : u.role = role /\ cardShown(u, R, f) IN
    /\ health = "down" <=> Shown("superadmin", R1, "down") \/ Shown("superadmin", R2, "down")
    /\ health = "down" <=> summary["down"] > 0
    /\ health = "warning" <=> summary["down"] = 0 /\ summary["warning"] > 0
    /\ health = "normal" => summary["normal"] > 0
    /\ summary["normal"] + summary["warning"] + summary["down"] + summary["unknown"] = 2
    /\ Shown("end_user", R1, Unset) <=> Shown("superadmin", R1, "active")

WorkStory ==
  {s \in [status : UserStoryStatus, primary : Person, collaborators : SUBSET UserId, dueDate : {Never, Now - 1}] :
     s.primary \notin s.collaborators}
WorkTask == [status : {"pending", "in_progress", "done"}, assignee : UserId, dueDate : {Never, Now - 1}]
WorkTicket == [status : TicketStatus, assignedTo : Person, task : BOOLEAN, dueDate : {Now - 1}]
UpTo1(S) == {<<>>} \cup {<<x>> : x \in S}

\* My Work, its summary, the roster of a project and the workload page count the same
\* work: a unit is one story, one task or one ticket without a task, and it is pending,
\* in progress, overdue or done in all of them alike.
WorkCountsAgree ==
  \A d \in UserId, S \in UpTo1(WorkStory) \cup {<<a, a>> : a \in WorkStory}, T \in UpTo1(WorkTask) :
    LET own == meWork(d, S, T)
        load == developers(d, <<>>, T, S) IN
    /\ own = meWorkSummary(d, S, T)
    /\ roster(d, S).active_workload = own.pending + own.in_progress
    /\ roster(d, S).overdue_workload = own.overdue - LateTasks(T, d)
    /\ load.overdue = own.overdue
    /\ load.total_active = load.pending + load.in_progress
    /\ load.total_active = own.pending + own.in_progress + developers(d, <<>>, T, <<>>).total_active
    /\ \A k \in WorkTicket :
         developers(d, <<k>>, T, S).total_active
           = load.total_active
             + (IF k.assignedTo = d /\ ~k.task /\ k.status \notin {"resolved", "closed"} THEN 1 ELSE 0)

\* The group under which a story is shown is the group whose filter finds it, no story is
\* in two groups or in none, the summary of My Work counts by those groups, and the label
\* of a late story agrees with the filter for late stories.
StoryGroupsAgree ==
  \A s \in WorkStory, g \in StoryGroup :
    LET ask == [status |-> Unset, status_group |-> g, developer |-> Unset, overdue |-> FALSE] IN
    /\ buildFilters(s, ask) <=> getUserStoryStatusGroup(s.status) = g
    /\ buildFilters(s, [ask EXCEPT !.status_group = Unset, !.overdue = TRUE]) <=> storyIsOverdue(s)
    /\ \A d \in UserId :
         buildFilters(s, [ask EXCEPT !.developer = d]) =>
           (meWork(d, <<s>>, <<>>).pending = 1 <=> g = "not_started") /\ (meWork(d, <<s>>, <<>>).done = 1 <=> g = "done")

\* A filter of the project list finds the projects whose cards show what it asks for; a
\* card that counts late stories is always found as late.
ProjectFiltersMatchCards ==
  \A row \in Project, n \in 0..1, taskLate \in BOOLEAN, S \in UpTo1(WorkStory), K \in UpTo1(TicketStatus) :
    LET p == [row |-> row, sites |-> n, taskLate |-> taskLate, stories |-> S, tickets |-> K]
        shown == toListDto(p) IN
    /\ buildWhere(p, "missing_pic_web") <=> shown.pic_web = {}
    /\ buildWhere(p, "missing_pic_developer") <=> shown.pic_developer = NoUser
    /\ buildWhere(p, "missing_developer_team") <=> shown.developers = {}
    /\ buildWhere(p, "has_active_tickets") <=> shown.active_tickets_count > 0
    /\ shown.overdue_count > 0 => buildWhere(p, "has_overdue_work")
    /\ buildWhere(p, "has_overdue_work") /\ ~taskLate => shown.overdue_count > 0
    /\ shown.configuration_status = "ready" =>
         ~(\A f \in {"missing_pic_web", "missing_pic_developer", "missing_developer_team"} : buildWhere(p, f))

\* The badge of active incidents counts what its page lists, whoever looks; and whatever
\* a list shows opens: incidents, websites, requests and dashboard cards.
ListsAndBadgesAgree ==
  \A u \in AuthUser :
    /\ \A i \in [site : Website, status : IncidentStatus], s \in {Unset, "closed"} :
         /\ incidentCounted(u, i) <=> incidentListed(u, i, [status |-> s, active_only |-> TRUE])
         /\ incidentListed(u, i, [status |-> s, active_only |-> FALSE]) => incidentGet(u, i.site)
    /\ \A w \in Website : websiteListed(u, w) => websiteGet(u, w)
    /\ \A w \in Website : dashboardDetail(u, w) => websiteListed(u, w) /\ resultList(u, w)
    /\ \A r \in [submittedBy : UserId \cup {NoUser}] : requestListed(u, r) <=> requestGet(u, r)
\* The number on the bell is the number of unread rows its list can show, whatever is marked
\* and whoever marks it: reading one row takes away that row alone and only from its owner,
\* reading all empties the own bell, and e-mails and other people's rows never count.
BellAgreesWithList ==
  \A N \in [1..2 -> [userId : Person, channel : {"dashboard", "email"}, read : BOOLEAN]], u, v \in Person :
    LET Shown(M, x) == notificationsListed(M, x, [channel |-> Unset, unread_only |-> TRUE]) IN
    /\ unread_count(N, u) = Cardinality(Shown(N, u))
    /\ \A i \in DOMAIN N : Shown(markRead(N, v, i), u) = IF u = v THEN Shown(N, u) \ {i} ELSE Shown(N, u)
    /\ Shown(readAll(N, v), u) = IF u = v THEN {} ELSE Shown(N, u)
    /\ unread_count(N, v) = Cardinality(Shown(N, v) \ Shown(readAll(N, v), v))
=============================================================================
