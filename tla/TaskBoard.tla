----------------------------- MODULE TaskBoard -----------------------------
(***************************************************************************)
(* The task board.  Tickets without a task of their own and the older tasks*)
(* become rows of one shape; a request narrows the rows twice, first in    *)
(* the database and then in memory, and serves them as pages and as an     *)
(* overview per project.  Times are naturals, Never a missing one; a       *)
(* search is the set of fields in which its words occur.                   *)
(***************************************************************************)
EXTENDS AccessScopes, Integers, FiniteSets, Sequences

CONSTANTS Unset,                        \* a criterion, or an override, that is not given
          Now, Never,
          BoardTicket, LegacyTask,    \* rows of tickets and of tasks
          TaskMonitoringQuery         \* requests

ASSUME BoardAssumption ==
  /\ Now \in Nat /\ Never \in Int \ Nat
  /\ \A k \in LegacyTask : /\ k.status \in {"pending", "in_progress", "done"}
                           /\ k.found \subseteq {"instructionNotes", "websiteName", "projectName"}

TicketStatus == {"open", "in_progress", "resolved", "closed"}
TaskBusinessStatus == {"new", "in_progress", "waiting_pic", "blocked", "done"}
UserStoryStatus == {"backlog", "ready", "in_progress", "review", "done", "blocked"}
Earliest(S) == IF S \subseteq {Never} THEN Never ELSE CHOOSE x \in S \ {Never} : \A y \in S \ {Never} : x =< y
Latest(S) == IF S \subseteq {Never} THEN Never ELSE CHOOSE x \in S \ {Never} : \A y \in S \ {Never} : x >= y
PicOf(p) == IF p = NoProject THEN NoUser ELSE p.picDeveloperId
-----------------------------------------------------------------------------
(* Rows. *)

rollupTaskStatus(override, ticketStatus, hasPicDeveloper, storyStatuses) ==
  CASE override # Unset -> override
    [] override = Unset /\ storyStatuses # {} ->
         CASE "blocked" \in storyStatuses -> "blocked"
           [] "blocked" \notin storyStatuses /\ storyStatuses \cap {"in_progress", "review"} # {} -> "in_progress"
           [] storyStatuses = {"done"} -> "done"
           [] OTHER -> "new"
    [] override = Unset /\ storyStatuses = {} ->
         CASE ticketStatus \in {"resolved", "closed"} -> "done"
           [] ticketStatus = "in_progress" -> "in_progress"
           [] OTHER -> IF hasPicDeveloper THEN "new" ELSE "waiting_pic"

isTaskOverdue(status, dueDate) == status # "done" /\ dueDate # Never /\ dueDate < Now
needsTaskAction(status, overdue) ==
  status # "done" /\ (overdue \/ status \in {"new", "waiting_pic", "blocked"})

\* A slip: the developers of linked stories are left out.
DevelopersOfOwnStory(t) == ({t.assignedTo, PicOf(t.project)} \cup t.userStory) \ {NoUser}

developersFor(t) == ({t.assignedTo, PicOf(t.project)} \cup t.userStory \cup t.storyLinks) \ {NoUser}

StoryTimes(t, field) == {s[field] : s \in t.stories}
TicketRowStatus(t) ==
  rollupTaskStatus(t.override, t.status, PicOf(t.project) # NoUser, {s.status : s \in t.stories})
BoardRow(source, status, due, row) ==
  [source |-> source, status |-> status, is_overdue |-> isTaskOverdue(status, due),
   needs_action |-> needsTaskAction(status, isTaskOverdue(status, due)),
   project |-> row.project, website |-> row.website, priority |-> row.priority,
   pic_developer |-> PicOf(row.project), developers |-> row.developers, found |-> row.found,
   last_update |-> row.last_update, completed_at |-> row.completed_at]

ticketRow(t) ==
  BoardRow("task", TicketRowStatus(t), Earliest({t.slaDeadline} \cup StoryTimes(t, "dueDate")),
    [project |-> t.project, website |-> t.website, priority |-> t.priority,
     developers |-> developersFor(t),
     found |-> t.found \cap {"title", "description", "projectName", "websiteName"},
     last_update |-> t.updatedAt,
     completed_at |->
       IF t.resolvedAt # Never THEN t.resolvedAt
       ELSE IF TicketRowStatus(t) = "done" THEN Latest({t.updatedAt} \cup StoryTimes(t, "completedAt"))
       ELSE Never])

LegacyStatus(k) == IF k.status = "pending" THEN "new" ELSE k.status
legacyTaskRow(k) ==
  BoardRow("legacy_task", LegacyStatus(k), k.slaDeadline,
    [project |-> k.website.project, website |-> k.website, priority |-> "medium",
     developers |-> {k.assignee} \ {NoUser}, found |-> k.found, last_update |-> k.updatedAt,
     completed_at |-> IF k.status = "done" THEN k.updatedAt ELSE Never])
-----------------------------------------------------------------------------
(* The two filters. *)

\* A slip: the developers of linked stories are not looked for in the database.
WhereWithoutLinks(t, q) ==
  /\ q.project # Unset => t.project = q.project
  /\ q.general => t.project = NoProject
  /\ q.website # Unset => t.website = q.website
  /\ q.priority # Unset => t.priority = q.priority
  /\ q.developer # Unset => q.developer \in {t.assignedTo, PicOf(t.project)} \cup t.userStory
  /\ q.search => t.found # {}

\* Asked for the board of no project, the query forgets the project it was given.
ticketQueryWhere(t, q) ==
  /\ q.project # Unset /\ ~q.general => t.project = q.project
  /\ q.general => t.project = NoProject
  /\ q.website # Unset => t.website = q.website
  /\ q.priority # Unset => t.priority = q.priority
  /\ q.developer # Unset => q.developer \in {t.assignedTo, PicOf(t.project)} \cup t.userStory \cup t.storyLinks
  /\ q.search => t.found # {}

legacyTaskQueryWhere(k, q) ==
  /\ q.project # Unset => k.website.project = q.project
  /\ q.general => k.website.project = NoProject
  /\ q.website # Unset => k.website = q.website
  /\ q.priority \in {Unset, "medium"}
  /\ q.developer # Unset => q.developer \in {k.assignee, PicOf(k.website.project)}
  /\ q.status # Unset => /\ q.status \in {"new", "in_progress", "done"}
                       /\ q.status = LegacyStatus(k)
  /\ q.search => k.found \cap {"instructionNotes", "websiteName"} # {}

matches(r, q) ==
  /\ q.project # Unset => r.project = q.project
  /\ q.general => r.project = NoProject
  /\ q.website # Unset => r.website = q.website
  /\ q.developer # Unset => q.developer \in r.developers
  /\ q.status # Unset => r.status = q.status \/ (q.status = "new" /\ r.status = "waiting_pic")
  /\ q.priority # Unset => r.priority = q.priority
  /\ q.overdue # Unset => r.is_overdue = q.overdue
  /\ q.needs_action # Unset => r.needs_action = q.needs_action
  /\ q.search => r.found # {}
-----------------------------------------------------------------------------
(* Pages, their summary, and the overview of a sequence of rows. *)

\* A slip: finished rows are no longer put last.
BeforeByDate(a, b) ==
  IF a.is_overdue # b.is_overdue THEN a.is_overdue
  ELSE IF a.status = "done" /\ b.status # "done" THEN FALSE
  ELSE a.last_update > b.last_update

Before(a, b) ==
  IF a.is_overdue # b.is_overdue THEN a.is_overdue
  ELSE IF (a.status = "done") # (b.status = "done") THEN b.status = "done"
  ELSE a.last_update > b.last_update

CeilDiv(a, b) == (a + b - 1) \div b
\* A slip: the last page is lost when it is not full.
FloorPages(limit, total) == IF total < limit THEN 1 ELSE total \div limit
total_pages(limit, total) == IF total = 0 THEN 1 ELSE CeilDiv(total, limit)
PageOf(page, limit, total) == {i \in 1..total : (page - 1) * limit < i /\ i =< page * limit}

summarize(rows) ==
  LET Of(S) == Cardinality({i \in DOMAIN rows : rows[i].status \in S}) IN
  [total |-> Len(rows), new |-> Of({"new"}), waiting_pic |-> Of({"waiting_pic"}),
   in_progress |-> Of({"in_progress"}), blocked |-> Of({"blocked"}), done |-> Of({"done"}),
   overdue |-> Cardinality({i \in DOMAIN rows : rows[i].is_overdue}),
   needs_action |-> Cardinality({i \in DOMAIN rows : rows[i].needs_action})]

Of(rows, p) == {i \in DOMAIN rows : rows[i].project = p}
\* A slip: a project shows only when something in it wants attention.
AttentiveGroups(rows, includeDone) ==
  {p \in {rows[i].project : i \in DOMAIN rows} : \E i \in Of(rows, p) : rows[i].needs_action}

\* The groups that are shown: by project, those without one together.
OverviewGroups(rows, includeDone) ==
  {p \in {rows[i].project : i \in DOMAIN rows} :
     \E i \in Of(rows, p) : includeDone \/ rows[i].status # "done"}

aggregateTaskMonitoringRows(rows, from, includeDone) ==
  LET shown == OverviewGroups(rows, includeDone)
      In(S) == Cardinality({i \in DOMAIN rows : rows[i].project \in shown /\ rows[i].status \in S}) IN
  [projects |-> Cardinality(shown), active |-> In(TaskBusinessStatus \ {"done"}),
   new |-> In({"new", "waiting_pic"}), in_progress |-> In({"in_progress"}), blocked |-> In({"blocked"}),
   overdue |-> Cardinality({i \in DOMAIN rows : rows[i].project \in shown /\ rows[i].is_overdue}),
   completed_period |-> Cardinality({i \in DOMAIN rows : rows[i].status = "done" /\ rows[i].completed_at >= from
                                                           /\ rows[i].completed_at =< Now}),
   attention_projects |-> Cardinality({p \in shown : \E i \in Of(rows, p) : rows[i].needs_action})]
-----------------------------------------------------------------------------
(* Properties. *)

\* The filter in the database never loses a row that the filter in memory would keep:
\* a request answers what the rows of the board say.  The one gap is an older task found
\* only by the name of its project.
PrefilterDropsNothing ==
  \A q \in TaskMonitoringQuery :
    /\ \A t \in BoardTicket : matches(ticketRow(t), q) => ticketQueryWhere(t, q)
    /\ \A k \in LegacyTask :
         matches(legacyTaskRow(k), q) /\ (q.search => k.found # {"projectName"})
           => legacyTaskQueryWhere(k, q)

\* The developers a row names are exactly the developers who find the row on their own
\* board, and asking for their own work they keep every row that stands for a ticket.
RowNamesItsReaders ==
  \A t \in BoardTicket, u \in AuthUser :
    u.role = "developer" => (boardTicket(u, t) <=> u.id \in ticketRow(t).developers)

\* The order in which rows are listed is one order, whatever rows are compared, so that
\* every page is cut from the same list (an inconsistent comparison gives any order).
RowsHaveOneOrder ==
  LET R == {[is_overdue |-> o, status |-> s, last_update |-> n] :
              o \in BOOLEAN, s \in {"done", "new"}, n \in 0..2} IN
  \A a, b, c \in R :
    /\ ~(Before(a, b) /\ Before(b, a))
    /\ Before(a, b) /\ Before(b, c) => Before(a, c)
    /\ Before(a, b) => Before(a, c) \/ Before(c, b)

\* Every row is on exactly one of the pages the answer announces, and no announced page
\* of a non-empty list is empty.
EveryRowOnOnePage ==
  \A total \in 0..7, limit \in 1..4 :
    /\ \A i \in 1..total : \E n \in 1..total_pages(limit, total) :
         \A m \in 1..(total + 1) : i \in PageOf(m, limit, total) <=> m = n
    /\ total > 0 => \A n \in 1..total_pages(limit, total) : PageOf(n, limit, total) # {}

BoardRows ==
  {[project |-> p, status |-> s, is_overdue |-> o, needs_action |-> needsTaskAction(s, o),
    completed_at |-> IF s = "done" THEN Now ELSE Never] :
     p \in {NoProject, CHOOSE x \in Project : TRUE}, s \in TaskBusinessStatus, o \in BOOLEAN}

\* The overview and the list count the same work: whatever rows a request leaves, hiding
\* the projects that have nothing active hides no active, overdue or waiting row, and no
\* completion of the period.
OverviewAgreesWithList ==
  \A rows \in UNION {[1..n -> {r \in BoardRows : r.status = "done" => ~r.is_overdue}] : n \in 0..3} :
    LET list == summarize(rows)
        overview == aggregateTaskMonitoringRows(rows, Now, FALSE) IN
    /\ overview.active = list.total - list.done
    /\ overview.new = list.new + list.waiting_pic
    /\ overview.in_progress = list.in_progress /\ overview.blocked = list.blocked
    /\ overview.overdue = list.overdue
    /\ overview.completed_period = list.done
    /\ overview.attention_projects > 0 <=> list.needs_action > 0
=============================================================================
