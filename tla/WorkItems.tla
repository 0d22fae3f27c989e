------------------------------ MODULE WorkItems ------------------------------
(***************************************************************************)
(* Tickets, the legacy tasks that mirror them, user stories made from      *)
(* them, and the monitoring worker that resolves the tickets of a          *)
(* recovered incident.  A handler of the API reads rows and checks its     *)
(* guards, and writes in a later transaction what it decided then.  What   *)
(* the transaction does is one step, because the row locks it takes keep   *)
(* the others out, except where it reads a row without a lock and writes   *)
(* it later: the task's mirror and the worker's recovery.                  *)
(***************************************************************************)
EXTENDS Naturals, FiniteSets

CONSTANTS Ticket, Story, Developer, Handler,
          NoOne,        \* no assignee
          Unset,        \* a field the request does not mention
          NoRequest,    \* what an idle handler holds
          Kinds,        \* what API requests create: <<for an incident, for a website, in a project>>
          EditStatuses, \* statuses that requests ask of tickets
          StoryStatuses \* statuses that requests ask of stories

TicketStatus == {"open", "in_progress", "resolved", "closed"}
TaskStatus == {"pending", "in_progress", "done"}
UserStoryStatus == {"backlog", "ready", "in_progress", "review", "done", "blocked"}

ASSUME InputsAssumption ==
  /\ Kinds \subseteq BOOLEAN \X BOOLEAN \X BOOLEAN
  /\ EditStatuses \subseteq TicketStatus /\ StoryStatuses \subseteq UserStoryStatus
ASSUME NamesAssumption ==
  /\ NoOne \notin Developer /\ Unset \notin Developer \cup {NoOne} \cup TicketStatus \cup UserStoryStatus
  /\ Ticket \cap Story = {}

VARIABLES
  ticket,        \* rows of tickets; status "none" before the row exists
  task,          \* the legacy task of each ticket, if it has one
  story,         \* rows of user_stories
  links,         \* ticket_user_story_links
  told,          \* the developers who were told last that a ticket is theirs
  pc, req,       \* the position and the locals of each running handler
  overtaken,     \* history: handlers whose row somebody else wrote since they read it
  raced          \* history: rows that an overtaken handler wrote, or whose worker died

rows == <<ticket, task, story, links>>
vars == <<ticket, task, story, links, told, pc, req, overtaken, raced>>
-----------------------------------------------------------------------------
Exists(t) == ticket[t].status # "none"
HasTask(t) == task[t].status # "none"
IsActive(t) == ticket[t].status \in {"open", "in_progress"}
Given(new, old) == IF new = Unset THEN old ELSE new

Begin(h, at, r) ==
  /\ pc[h] = "idle"
  /\ pc' = [pc EXCEPT ![h] = at]
  /\ req' = [req EXCEPT ![h] = r]
  /\ UNCHANGED <<rows, told, overtaken, raced>>

\* The rows that running handler h has read and is going to write.
ReadBy(h) ==
  CASE pc[h] \in {"update_ticket", "mirror", "update_story", "announce"} -> {req[h].row}
    [] pc[h] = "resolve_tickets" -> req[h].found
    [] OTHER -> {}

\* The end of handler h, which wrote the given rows.
Finish(h, written) ==
  /\ pc' = [pc EXCEPT ![h] = "idle"]
  /\ req' = [req EXCEPT ![h] = NoRequest]
  /\ overtaken' = (overtaken \cup { g \in Handler : ReadBy(g) \cap written # {} }) \ {h}
  /\ raced' = IF h \in overtaken THEN raced \cup written ELSE raced

\* Nobody is inside a transaction that has written the task of t.
TaskUnlocked(t) == \A h \in Handler : ~(pc[h] = "mirror" /\ req[h].row = t)

Init ==
  /\ ticket = [t \in Ticket |-> [status |-> "none", assignee |-> NoOne, resolvedAt |-> FALSE,
                                 incident |-> FALSE, website |-> FALSE, project |-> FALSE]]
  /\ task = [t \in Ticket |-> [status |-> "none", assignee |-> NoOne]]
  /\ story = [s \in Story |-> [status |-> "none", completedAt |-> FALSE]]
  /\ links = {}
  /\ told = [t \in Ticket |-> {}]
  /\ pc = [h \in Handler |-> "idle"]
  /\ req = [h \in Handler |-> NoRequest]
  /\ overtaken = {} /\ raced = {}
-----------------------------------------------------------------------------
(* Creation.  A ticket is created in one transaction, with its task and    *)
(* its notification.                                                       *)

NewTicket(t, a, incident, website, project) ==
  /\ ~Exists(t)
  /\ ticket' = [ticket EXCEPT ![t] = [status |-> "open", assignee |-> a, resolvedAt |-> FALSE,
                                      incident |-> incident, website |-> website, project |-> project]]

\* A ticket of an incident gets the incident's website.  Staff move websites between
\* projects at any time, so the ticket of a website may be in a project or outside;
\* only a ticket outside gets a task.
create(t, a, incident, website, project) ==
  /\ incident => website
  /\ NewTicket(t, a, incident, website, project)
  /\ task' = IF website /\ a # NoOne /\ ~project
               THEN [task EXCEPT ![t] = [status |-> "pending", assignee |-> a]]
               ELSE task
  /\ told' = [told EXCEPT ![t] = @ \cup ({a} \ {NoOne})]
  /\ UNCHANGED <<story, links, pc, req, overtaken, raced>>

\* The worker creates the ticket of a new incident, without a website or task, and
\* tells its assignee after the transaction.
createIncidentFlow(h, t, a) ==
  /\ pc[h] = "idle"
  /\ NewTicket(t, a, TRUE, FALSE, FALSE)
  /\ IF a = NoOne
       THEN UNCHANGED <<pc, req>>
       ELSE pc' = [pc EXCEPT ![h] = "announce"] /\ req' = [req EXCEPT ![h] = [row |-> t, assignee |-> a]]
  /\ UNCHANGED <<task, story, links, told, overtaken, raced>>

AnnounceTicket(h) ==
  /\ pc[h] = "announce"
  /\ told' = [told EXCEPT ![req[h].row] = @ \cup {req[h].assignee}]
  /\ Finish(h, {req[h].row})
  /\ UNCHANGED rows

createInProject(s) ==
  /\ story[s].status = "none"
  /\ story' = [story EXCEPT ![s] = [status |-> "backlog", completedAt |-> FALSE]]
  /\ UNCHANGED <<ticket, task, links, told, pc, req, overtaken, raced>>
-----------------------------------------------------------------------------
(* PATCH /tickets/:id                                                      *)

\* Mutant: lets anybody reopen a resolved ticket.
ReadTicketReopening(h, t, status, assignee, sla) ==
  /\ ticket[t].status \notin {"none", "closed"}
  /\ Begin(h, "update_ticket", [row |-> t, status |-> status, assignee |-> assignee, sla |-> sla,
                                was |-> ticket[t].assignee, hadTime |-> ticket[t].resolvedAt])

ReadTicket(h, t, status, assignee, sla) ==
  /\ ticket[t].status \notin {"none", "closed"}
  /\ status = "open" => ticket[t].status = "open"
  /\ Begin(h, "update_ticket", [row |-> t, status |-> status, assignee |-> assignee, sla |-> sla,
                                was |-> ticket[t].assignee, hadTime |-> ticket[t].resolvedAt])

\* A developer may only start or complete a ticket that is his, or that belongs to
\* a story he is assigned to; superadmin and Bos IT may set everything.
DeveloperEdits(h, t, status) ==
  /\ status \in {"in_progress", "resolved"}
  /\ ticket[t].assignee \in Developer \/ \E s \in Story : <<t, s>> \in links
  /\ ReadTicket(h, t, status, Unset, FALSE)
AdminEdits(h, t, status, assignee, sla) == ReadTicket(h, t, status, assignee, sla)

taskStatusFromTicket(status) ==
  CASE status = "in_progress" -> "in_progress"
    [] status \in {"resolved", "closed"} -> "done"
    [] OTHER -> "pending"

\* Mutant: the assignee of the task is left as it was.
SyncStatusOnly(t, row) ==
  IF HasTask(t) THEN [task EXCEPT ![t].status = taskStatusFromTicket(row.status)] ELSE task

\* The tasks after syncTaskFromTicket of a ticket whose row is now the given one.
syncTaskFromTicket(t, row) ==
  IF HasTask(t)
    THEN [task EXCEPT ![t] = [status |-> taskStatusFromTicket(row.status),
                              assignee |-> IF row.assignee = NoOne THEN @.assignee ELSE row.assignee]]
    ELSE task

\* Mutant: the one the ticket is taken from is not told.
TellOnlyNew(t, was, now) == [told EXCEPT ![t] = @ \cup ({now} \ {NoOne})]

notifyTicketReassignment(t, was, now) == [told EXCEPT ![t] = (@ \ {was}) \cup ({now} \ {NoOne})]

WriteTicket(h) ==
  /\ pc[h] = "update_ticket"
  /\ LET r == req[h]
         t == r.row
         status == Given(r.status, ticket[t].status)
         row == [ticket[t] EXCEPT
                  !.status = status,
                  !.assignee = Given(r.assignee, @),
                  !.resolvedAt = @ \/ (r.status \in {"resolved", "closed"} /\ ~r.hadTime)]
         changed == r.assignee # Unset /\ r.assignee # r.was
     IN /\ TaskUnlocked(t)
        /\ ticket' = [ticket EXCEPT ![t] = row]
        /\ task' = IF r.status # Unset \/ r.assignee # Unset \/ r.sla THEN syncTaskFromTicket(t, row) ELSE task
        /\ told' = IF changed THEN notifyTicketReassignment(t, r.was, row.assignee) ELSE told
        /\ Finish(h, {t})
  /\ UNCHANGED <<story, links>>
-----------------------------------------------------------------------------
(* PATCH /tasks/:id/status.  The transaction writes the task, reads the    *)
(* ticket and then writes it; the task stays locked in between.            *)

ReadTask(h, t, status, actor) ==
  /\ HasTask(t)
  /\ actor \in Developer => task[t].assignee = actor /\ status \in {"in_progress", "done"}
  /\ Begin(h, "update_task", [row |-> t, status |-> status])

StartMirror(h) ==
  /\ pc[h] = "update_task"
  /\ TaskUnlocked(req[h].row)
  /\ pc' = [pc EXCEPT ![h] = "mirror"]
  /\ req' = [req EXCEPT ![h] = [row |-> @.row, status |-> @.status, seen |-> ticket[@.row].status]]
  /\ overtaken' = overtaken \ {h}
  /\ UNCHANGED <<rows, told, raced>>

\* Mutant: forgets when the ticket was resolved.
MirrorWithoutTime(status, seen, row) ==
  IF status = "done" /\ seen \notin {"closed", "resolved"} THEN [row EXCEPT !.status = "resolved"]
  ELSE IF status = "in_progress" /\ seen = "open" THEN [row EXCEPT !.status = "in_progress"] ELSE row

\* The ticket after its task took a status, having had status "seen" when it was read.
syncTicketFromTask(status, seen, row) ==
  IF status = "done" /\ seen \notin {"closed", "resolved"} THEN [row EXCEPT !.status = "resolved", !.resolvedAt = TRUE]
  ELSE IF status = "in_progress" /\ seen = "open" THEN [row EXCEPT !.status = "in_progress"] ELSE row

CommitTask(h) ==
  /\ pc[h] = "mirror"
  /\ LET t == req[h].row
         row == syncTicketFromTask(req[h].status, req[h].seen, ticket[t])
     IN /\ task' = [task EXCEPT ![t].status = req[h].status]
        /\ ticket' = [ticket EXCEPT ![t] = row]
        /\ Finish(h, IF row = ticket[t] THEN {} ELSE {t})
  /\ UNCHANGED <<story, links, told>>
-----------------------------------------------------------------------------
(* PATCH /user-stories/:id and POST /tickets/:id/user-stories              *)

ReadStory(h, s, status) ==
  /\ story[s].status # "none"
  /\ Begin(h, "update_story", [row |-> s, status |-> status, next |-> Given(status, story[s].status)])

\* Mutant: resolves the tickets of a done story whatever their status.
SyncAllTickets(s, next) ==
  [t \in Ticket |->
    IF <<t, s>> \notin links THEN ticket[t]
    ELSE IF next = "done" THEN [ticket[t] EXCEPT !.status = "resolved", !.resolvedAt = TRUE]
    ELSE IF next \in {"in_progress", "review"} /\ ticket[t].status = "open"
      THEN [ticket[t] EXCEPT !.status = "in_progress"] ELSE ticket[t]]

syncTicketsFromStory(s, next) ==
  [t \in Ticket |->
    IF <<t, s>> \notin links THEN ticket[t]
    ELSE IF next = "done" /\ IsActive(t) THEN [ticket[t] EXCEPT !.status = "resolved", !.resolvedAt = TRUE]
    ELSE IF next \in {"in_progress", "review"} /\ ticket[t].status = "open"
      THEN [ticket[t] EXCEPT !.status = "in_progress"] ELSE ticket[t]]

\* Mutant: completedAt is written only when the status is done.
CompletedKept(next, was) == was \/ next = "done"

CompletedAt(next, was) == next = "done"

WriteStory(h) ==
  /\ pc[h] = "update_story"
  /\ LET r == req[h] IN
       /\ story' = [story EXCEPT ![r.row] = [status |-> Given(r.status, @.status),
                                             completedAt |-> CompletedAt(r.next, @.completedAt)]]
       /\ ticket' = syncTicketsFromStory(r.row, r.next)
       /\ Finish(h, {r.row} \cup { t \in Ticket : ticket'[t] # ticket[t] })
  /\ UNCHANGED <<task, links, told>>

\* A ticket becomes a story only in a project, its own or its website's (which may
\* have one by now), whatever the ticket's status.
ReadTicketForStory(h, t) ==
  /\ Exists(t)
  /\ ticket[t].project \/ ticket[t].website
  /\ Begin(h, "story_from_ticket", [row |-> t])

createFromTicket(h, s) ==
  /\ pc[h] = "story_from_ticket"
  /\ story[s].status = "none"
  /\ story' = [story EXCEPT ![s] = [status |-> "backlog", completedAt |-> FALSE]]
  /\ ticket' = [ticket EXCEPT ![req[h].row].project = TRUE, ![req[h].row].status = "in_progress"]
  /\ links' = links \cup {<<req[h].row, s>>}
  /\ Finish(h, {req[h].row})
  /\ UNCHANGED <<task, told>>
-----------------------------------------------------------------------------
(* resolveIncidentFlow of the worker: the active tickets of the incident   *)
(* are read and then written by id.                                        *)

FindActiveTickets(h) ==
  LET found == { t \in Ticket : ticket[t].incident /\ IsActive(t) } IN
    /\ found # {}
    /\ Begin(h, "resolve_tickets", [found |-> found])

Resolved(found) ==
  [t \in Ticket |-> IF t \in found THEN [ticket[t] EXCEPT !.status = "resolved", !.resolvedAt = TRUE] ELSE ticket[t]]

\* Mutant: writes the tasks only.
ResolveTasksOnly(h) ==
  /\ pc[h] = "resolve_tickets"
  /\ \A t \in req[h].found : TaskUnlocked(t)
  /\ task' = [t \in Ticket |-> IF t \in req[h].found /\ HasTask(t) THEN [task[t] EXCEPT !.status = "done"] ELSE task[t]]
  /\ Finish(h, {})
  /\ UNCHANGED <<ticket, story, links, told>>

ResolveFoundTickets(h) ==
  /\ pc[h] = "resolve_tickets"
  /\ \A t \in req[h].found : TaskUnlocked(t)
  /\ ticket' = Resolved(req[h].found)
  /\ task' = [t \in Ticket |-> IF t \in req[h].found /\ HasTask(t) THEN [task[t] EXCEPT !.status = "done"] ELSE task[t]]
  /\ Finish(h, req[h].found)
  /\ UNCHANGED <<story, links, told>>

\* A request that is refused, a deadlock victim, a lost connection, a worker that
\* dies: the transaction is rolled back, and a ticket's assignee is never told.
Abort(h) ==
  /\ pc[h] # "idle"
  /\ pc' = [pc EXCEPT ![h] = "idle"]
  /\ req' = [req EXCEPT ![h] = NoRequest]
  /\ overtaken' = overtaken \ {h}
  /\ raced' = IF pc[h] = "announce" THEN raced \cup {req[h].row} ELSE raced
  /\ UNCHANGED <<rows, told>>
-----------------------------------------------------------------------------
Assignees == Developer \cup {NoOne}

Creates ==
  \/ \E t \in Ticket, a \in Assignees, k \in Kinds : create(t, a, k[1], k[2], k[3])
  \/ \E h \in Handler, t \in Ticket, a \in Assignees : createIncidentFlow(h, t, a)
  \/ \E s \in Story : createInProject(s)

\* A request changes the status, the assignee or the deadline of a ticket.
Reads(h) ==
  \/ \E t \in Ticket, status \in EditStatuses : DeveloperEdits(h, t, status) \/ AdminEdits(h, t, status, Unset, FALSE)
  \/ \E t \in Ticket, a \in Assignees : AdminEdits(h, t, Unset, a, FALSE)
  \/ \E t \in Ticket : AdminEdits(h, t, Unset, Unset, TRUE)
  \/ \E t \in Ticket, status \in TaskStatus, actor \in Assignees : ReadTask(h, t, status, actor)
  \/ \E s \in Story, status \in StoryStatuses \cup {Unset} : ReadStory(h, s, status)
  \/ \E t \in Ticket : ReadTicketForStory(h, t)
  \/ FindActiveTickets(h)

Writes(h) ==
  \/ WriteTicket(h) \/ StartMirror(h) \/ CommitTask(h) \/ WriteStory(h)
  \/ \E s \in Story : createFromTicket(h, s)
  \/ ResolveFoundTickets(h) \/ AnnounceTicket(h) \/ Abort(h)

Next == Creates \/ \E h \in Handler : Reads(h) \/ Writes(h)

Spec == Init /\ [][Next]_vars
-----------------------------------------------------------------------------
TicketRow == [status : TicketStatus \cup {"none"}, assignee : Assignees, resolvedAt : BOOLEAN,
              incident : BOOLEAN, website : BOOLEAN, project : BOOLEAN]

\* What a handler holds at each position.
Request(at) ==
  CASE at = "idle" -> {NoRequest}
    [] at = "update_ticket" -> [row : Ticket, status : TicketStatus \cup {Unset}, assignee : Assignees \cup {Unset},
                                sla : BOOLEAN, was : Assignees, hadTime : BOOLEAN]
    [] at = "update_task" -> [row : Ticket, status : TaskStatus]
    [] at = "mirror" -> [row : Ticket, status : TaskStatus, seen : TicketStatus]
    [] at = "update_story" -> [row : Story, status : UserStoryStatus \cup {Unset}, next : UserStoryStatus]
    [] at = "story_from_ticket" -> [row : Ticket]
    [] at = "resolve_tickets" -> [found : SUBSET Ticket]
    [] at = "announce" -> [row : Ticket, assignee : Developer]

Positions == {"idle", "update_ticket", "update_task", "mirror", "update_story", "story_from_ticket", "resolve_tickets", "announce"}

\* Every row, and what every handler holds, has its type.
TypeOK ==
  /\ ticket \in [Ticket -> TicketRow]
  /\ task \in [Ticket -> [status : TaskStatus \cup {"none"}, assignee : Assignees]]
  /\ story \in [Story -> [status : UserStoryStatus \cup {"none"}, completedAt : BOOLEAN]]
  /\ links \subseteq Ticket \X Story
  /\ told \in [Ticket -> SUBSET Developer]
  /\ pc \in [Handler -> Positions]
  /\ \A h \in Handler : req[h] \in Request(pc[h])
  /\ overtaken \subseteq Handler
  /\ raced \subseteq Ticket \cup Story

\* A ticket that is resolved or closed says when, whoever of the five writers
\* resolved it and in whatever order they came.
ResolvedHasTime == \A t \in Ticket : ticket[t].status \in {"resolved", "closed"} => ticket[t].resolvedAt

\* The task of an assigned ticket is assigned to the same developer.
TaskFollowsAssignee ==
  \A t \in Ticket : HasTask(t) /\ ticket[t].assignee # NoOne => task[t].assignee = ticket[t].assignee

\* A developer whose task is done has a ticket that is done too, unless a story
\* was made of the ticket: stories do not write tasks.
DoneTaskDoneTicket ==
  \A t \in Ticket : task[t].status = "done" =>
    ticket[t].status \in {"resolved", "closed"} \/ \E s \in Story : <<t, s>> \in links

\* A story is completed exactly when its status is done, unless two edits of it
\* overlapped: the later one writes completedAt from the status it read.
CompletedWhenDone ==
  \A s \in Story : s \notin raced => (story[s].completedAt <=> story[s].status = "done")

\* The developer a ticket is assigned to was told so last, and nobody else
\* believes to have it, unless two edits overlapped or the worker has yet to tell him.
AssigneeWasTold ==
  \A t \in Ticket :
    /\ Exists(t) /\ t \notin raced
    /\ \A h \in Handler : ~ (pc[h] = "announce" /\ req[h].row = t)
    => told[t] = {ticket[t].assignee} \ {NoOne}

\* A closed ticket is opened again only by one who read it before it was closed,
\* or by making a story of it.
ClosedStaysClosed ==
  [][ \A t \in Ticket : ticket[t].status = "closed" /\ ticket'[t].status # "closed" =>
        \E h \in Handler : pc'[h] = "idle" /\ (pc[h] = "story_from_ticket" \/ h \in overtaken) ]_vars

\* A ticket that work has started on is never open again, unless by an edit that
\* was decided before.
NothingReopens ==
  [][ \A t \in Ticket : ticket[t].status # "none" /\ ticket[t].status # "open" /\ ticket'[t].status = "open" =>
        \E h \in overtaken : pc'[h] = "idle" ]_vars

\* A ticket, its task and its stories agree on who does the work, whether it is done and
\* since when, after every write of the five writers and not only at rest.
RowsAgree == TypeOK /\ ResolvedHasTime /\ TaskFollowsAssignee /\ DoneTaskDoneTicket /\ CompletedWhenDone

\* Finished work is not begun again, and begun work not unbegun, by a write that knew of it.
WorkStaysDone == ClosedStaysClosed /\ NothingReopens
=============================================================================
