--------------------------- MODULE WorkItemsProofs ---------------------------
(***************************************************************************)
(* What the handlers of tickets, tasks and user stories promise, whatever  *)
(* the order in which their reads and writes fall: finished work stays     *)
(* finished, the three tables agree, and the assignee was told.            *)
(*                                                                         *)
(* A handler reads a row, awaits, and writes it.  The argument is about    *)
(* what it still knows of the row when it writes:                          *)
(*   HeldInvariant     what it will write exists (no row disappears);      *)
(*   OvertakenOrKnows  unless another handler wrote the row in between,    *)
(*                     the row is as it was read.                          *)
(* The invariants of the single tables (TimeInvariant, DoneInvariant,      *)
(* CompletedInvariant) add what their handlers carry from read to write.   *)
(***************************************************************************)
EXTENDS WorkItems, TLAPS

-----------------------------------------------------------------------------
(* What a handler knows *)

\* A ticket is done, and work on it goes on in a story.
Done(t) == ticket[t].status \in {"resolved", "closed"}
HasStory(t) == \E s \in Story : <<t, s>> \in links

\* What a handler at a position is going to write exists.
HoldsRows(at, r) ==
  /\ at \in {"update_ticket", "story_from_ticket", "announce"} => Exists(r.row)
  /\ at \in {"update_task", "mirror"} => HasTask(r.row)
  /\ at = "resolve_tickets" => \A t \in r.found : Exists(t)
  /\ at = "update_story" => story[r.row].status # "none"

\* What it holds that stays true whoever writes its row in between.
StillTrue(at, r) ==
  /\ at = "update_ticket" /\ r.hadTime => ticket[r.row].resolvedAt
  /\ at = "mirror" /\ r.seen \in {"resolved", "closed"} => Done(r.row) \/ HasStory(r.row)
  /\ at = "update_story" /\ r.status # Unset => r.next = r.status

\* What it knows of its row as long as nobody overtakes it.
KnowsRow(at, r) ==
  /\ at = "update_ticket" =>
       /\ ticket[r.row].assignee = r.was
       /\ ticket[r.row].status # "closed"
       /\ r.status = "open" => ticket[r.row].status = "open"
  /\ at = "mirror" => ticket[r.row].status = r.seen
  /\ at = "update_story" /\ r.status = Unset => story[r.row].status = r.next
  /\ at = "announce" => ticket[r.row].assignee = r.assignee /\ told[r.row] = {}
  /\ at = "resolve_tickets" => \A t \in r.found : IsActive(t)

\* All three, of a handler that has just moved.
UpToDate(at, r) == HoldsRows(at, r) /\ StillTrue(at, r) /\ KnowsRow(at, r)

\* What a handler will write exists, and nobody was told of a ticket that does not.
HeldInvariant ==
  /\ req = [h \in Handler |-> req[h]]
  /\ \A t \in Ticket : HasTask(t) => Exists(t)
  /\ \A t \in Ticket : ~ Exists(t) => told[t] = {}
  /\ \A h \in Handler : HoldsRows(pc[h], req[h])

-----------------------------------------------------------------------------
(* Requests and handlers *)

\* What is held at each position, one by one.
LEMMA Requests ==
  /\ Request("idle") = {NoRequest}
  /\ Request("update_ticket") =
       [row : Ticket, status : TicketStatus \cup {Unset}, assignee : Assignees \cup {Unset},
        sla : BOOLEAN, was : Assignees, hadTime : BOOLEAN]
  /\ Request("update_task") = [row : Ticket, status : TaskStatus]
  /\ Request("mirror") = [row : Ticket, status : TaskStatus, seen : TicketStatus]
  /\ Request("update_story") = [row : Story, status : UserStoryStatus \cup {Unset}, next : UserStoryStatus]
  /\ Request("story_from_ticket") = [row : Ticket]
  /\ Request("resolve_tickets") = [found : SUBSET Ticket]
  /\ Request("announce") = [row : Ticket, assignee : Developer]
<1>1. Request("idle") = {NoRequest}
  BY DEF Request
<1>2. Request("update_ticket") =
         [row : Ticket, status : TicketStatus \cup {Unset}, assignee : Assignees \cup {Unset},
          sla : BOOLEAN, was : Assignees, hadTime : BOOLEAN]
  BY DEF Request
<1>3. Request("update_task") = [row : Ticket, status : TaskStatus]
  BY DEF Request
<1>4. Request("mirror") = [row : Ticket, status : TaskStatus, seen : TicketStatus]
  BY DEF Request
<1>5. Request("update_story") = [row : Story, status : UserStoryStatus \cup {Unset}, next : UserStoryStatus]
  BY DEF Request
<1>6. Request("story_from_ticket") = [row : Ticket]
  BY DEF Request
<1>7. Request("resolve_tickets") = [found : SUBSET Ticket]
  BY DEF Request
<1>8. Request("announce") = [row : Ticket, assignee : Developer]
  BY DEF Request
<1>9. QED
  BY <1>1, <1>2, <1>3, <1>4, <1>5, <1>6, <1>7, <1>8, Zenon

\* A handler stays where it is, or moves to a position with a request.
Stays(h) == pc'[h] = pc[h] /\ req'[h] = req[h]
Moves(h, at, r) == pc' = [pc EXCEPT ![h] = at] /\ req' = [req EXCEPT ![h] = r]

\* A step that moves handler h leaves the others alone.
LEMMA MoverMoves ==
  ASSUME TypeOK, HeldInvariant, NEW h \in Handler, NEW at \in Positions, NEW r, Moves(h, at, r)
  PROVE  /\ pc'[h] = at /\ req'[h] = r
         /\ \A g \in Handler \ {h} : Stays(g)
         /\ req' = [g \in Handler |-> req'[g]]
         /\ pc' \in [Handler -> Positions]
BY DEF TypeOK, HeldInvariant, Moves, Stays

\* A request begins with what it read: typed, existing, and up to date.
Reading(at, r) ==
  /\ at \in Positions \ {"idle", "mirror", "announce"} /\ r \in Request(at)
  /\ UpToDate(at, r)

\* The handlers of PATCH /tickets/:id begin with what they read.
LEMMA ReadTicketBegins ==
  ASSUME TypeOK, NEW h \in Handler, NEW t \in Ticket, NEW status \in TicketStatus \cup {Unset},
         NEW assignee \in Assignees \cup {Unset}, NEW sla \in BOOLEAN,
         ReadTicket(h, t, status, assignee, sla)
  PROVE  \E at, r : Reading(at, r) /\ Begin(h, at, r)
<1>1. PICK r : r = [row |-> t, status |-> status, assignee |-> assignee, sla |-> sla,
                    was |-> ticket[t].assignee, hadTime |-> ticket[t].resolvedAt]
  OBVIOUS
<1>2. ticket[t] \in TicketRow /\ ticket[t].status \notin {"none", "closed"}
  BY DEF TypeOK, ReadTicket
<1>3. r \in Request("update_ticket")
  BY <1>1, <1>2, Requests DEF TicketRow
<1>4. Reading("update_ticket", r)
  BY <1>1, <1>2, <1>3 DEF Reading, UpToDate, HoldsRows, StillTrue, KnowsRow, Positions, Exists, ReadTicket
<1>5. Begin(h, "update_ticket", r)
  BY <1>1 DEF ReadTicket
<1>6. QED
  BY <1>4, <1>5

\* And so does every other handler.
LEMMA ReadsBegin ==
  ASSUME TypeOK, HeldInvariant, NEW h \in Handler, Reads(h)
  PROVE  \E at, r : Reading(at, r) /\ Begin(h, at, r)
<1>1. EditStatuses \subseteq TicketStatus /\ StoryStatuses \subseteq UserStoryStatus
      /\ Unset \notin UserStoryStatus
  BY InputsAssumption, NamesAssumption
<1>2. ASSUME NEW t \in Ticket, NEW status \in EditStatuses, DeveloperEdits(h, t, status)
      PROVE  \E at, r : Reading(at, r) /\ Begin(h, at, r)
  BY <1>1, <1>2, ReadTicketBegins DEF DeveloperEdits
<1>3. ASSUME NEW t \in Ticket, NEW status \in EditStatuses \cup {Unset}, NEW a \in Assignees \cup {Unset},
             NEW sla \in BOOLEAN, AdminEdits(h, t, status, a, sla)
      PROVE  \E at, r : Reading(at, r) /\ Begin(h, at, r)
  BY <1>1, <1>3, ReadTicketBegins DEF AdminEdits
<1>4. ASSUME NEW t \in Ticket, NEW status \in TaskStatus, NEW actor \in Assignees, ReadTask(h, t, status, actor)
      PROVE  \E at, r : Reading(at, r) /\ Begin(h, at, r)
  <2>1. Reading("update_task", [row |-> t, status |-> status])
    BY <1>4, Requests DEF Reading, UpToDate, HoldsRows, StillTrue, KnowsRow, Positions, ReadTask
  <2>2. QED
    BY <1>4, <2>1 DEF ReadTask
<1>5. ASSUME NEW s \in Story, NEW status \in StoryStatuses \cup {Unset}, ReadStory(h, s, status)
      PROVE  \E at, r : Reading(at, r) /\ Begin(h, at, r)
  <2>1. PICK r : r = [row |-> s, status |-> status, next |-> Given(status, story[s].status)]
    OBVIOUS
  <2>2. story[s].status \in UserStoryStatus
    BY <1>5 DEF TypeOK, ReadStory
  <2>3. r \in Request("update_story")
    BY <1>1, <2>1, <2>2, Requests DEF Given
  <2>4. Reading("update_story", r)
    BY <1>1, <1>5, <2>1, <2>3 DEF Reading, UpToDate, HoldsRows, StillTrue, KnowsRow, Positions, ReadStory, Given
  <2>5. QED
    BY <1>5, <2>1, <2>4 DEF ReadStory
<1>6. ASSUME NEW t \in Ticket, ReadTicketForStory(h, t)
      PROVE  \E at, r : Reading(at, r) /\ Begin(h, at, r)
  <2>1. Reading("story_from_ticket", [row |-> t])
    BY <1>6, Requests DEF Reading, UpToDate, HoldsRows, StillTrue, KnowsRow, Positions, ReadTicketForStory
  <2>2. QED
    BY <1>6, <2>1 DEF ReadTicketForStory
<1>7. ASSUME FindActiveTickets(h)
      PROVE  \E at, r : Reading(at, r) /\ Begin(h, at, r)
  <2>1. PICK found : found = { t \in Ticket : ticket[t].incident /\ IsActive(t) }
    OBVIOUS
  <2>2. Reading("resolve_tickets", [found |-> found])
    BY <2>1, Requests DEF Reading, UpToDate, HoldsRows, StillTrue, KnowsRow, Positions, Exists, IsActive
  <2>3. QED
    BY <1>7, <2>1, <2>2 DEF FindActiveTickets
<1>8. QED
  BY <1>2, <1>3, <1>4, <1>5, <1>6, <1>7 DEF Reads

-----------------------------------------------------------------------------
(* Types and existence *)

\* The rows have their types.
RowsTyped ==
  /\ ticket \in [Ticket -> TicketRow]
  /\ task \in [Ticket -> [status : TaskStatus \cup {"none"}, assignee : Assignees]]
  /\ story \in [Story -> [status : UserStoryStatus \cup {"none"}, completedAt : BOOLEAN]]
  /\ links \subseteq Ticket \X Story
  /\ told \in [Ticket -> SUBSET Developer]
  /\ \A t \in Ticket : HasTask(t) => Exists(t)
  /\ \A t \in Ticket : ~ Exists(t) => told[t] = {}

\* No row disappears.
RowsStay ==
  /\ \A t \in Ticket : Exists(t) => Exists(t)'
  /\ \A t \in Ticket : HasTask(t) => HasTask(t)'
  /\ \A s \in Story : story[s].status # "none" => story'[s].status # "none"

\* What a step may do to the rows.
GoodRows == RowsTyped' /\ RowsStay

\* A new ticket is open, typed, and alone of its name.
LEMMA NewTicketGood ==
  ASSUME TypeOK, HeldInvariant, NEW t \in Ticket, NEW a \in Assignees, NEW incident \in BOOLEAN,
         NEW website \in BOOLEAN, NEW project \in BOOLEAN, NewTicket(t, a, incident, website, project)
  PROVE  /\ ticket' \in [Ticket -> TicketRow] /\ ~ HasTask(t)
         /\ ticket'[t].status = "open" /\ \A u \in Ticket \ {t} : ticket'[u] = ticket[u]
<1>1. ticket' = [ticket EXCEPT ![t] = [status |-> "open", assignee |-> a, resolvedAt |-> FALSE,
                                       incident |-> incident, website |-> website, project |-> project]]
  BY DEF NewTicket
<1>2. [status |-> "open", assignee |-> a, resolvedAt |-> FALSE,
       incident |-> incident, website |-> website, project |-> project] \in TicketRow
  BY DEF TicketRow, TicketStatus
<1>3. ~ HasTask(t)
  BY DEF NewTicket, HeldInvariant
<1>4. QED
  BY <1>1, <1>2, <1>3 DEF TypeOK

\* POST /tickets, and the flow of an incident, add typed rows.
LEMMA CreateGood ==
  ASSUME TypeOK, HeldInvariant, Creates
  PROVE  GoodRows
<1>1. ASSUME NEW t \in Ticket, NEW a \in Assignees, NEW incident \in BOOLEAN, NEW website \in BOOLEAN,
             NEW project \in BOOLEAN, create(t, a, incident, website, project)
      PROVE  GoodRows
  <2>1. /\ ticket' \in [Ticket -> TicketRow] /\ ~ HasTask(t)
        /\ ticket'[t].status = "open" /\ \A u \in Ticket \ {t} : ticket'[u] = ticket[u]
    BY <1>1, NewTicketGood DEF create
  <2>2. task' = task \/ task' = [task EXCEPT ![t] = [status |-> "pending", assignee |-> a]]
    BY <1>1 DEF create
  <2>3. /\ task' \in [Ticket -> [status : TaskStatus \cup {"none"}, assignee : Assignees]]
        /\ \A u \in Ticket \ {t} : task'[u] = task[u]
    BY <2>2 DEF TypeOK, TaskStatus
  <2>4. /\ told' \in [Ticket -> SUBSET Developer] /\ \A u \in Ticket \ {t} : told'[u] = told[u]
        /\ story' = story /\ links' = links
    BY <1>1 DEF TypeOK, create, Assignees
  <2>5. QED
    BY <2>1, <2>3, <2>4 DEF GoodRows, RowsTyped, RowsStay, TypeOK, HeldInvariant, Exists, HasTask
<1>2. ASSUME NEW h \in Handler, NEW t \in Ticket, NEW a \in Assignees, createIncidentFlow(h, t, a)
      PROVE  GoodRows
  <2>1. /\ ticket' \in [Ticket -> TicketRow]
        /\ ticket'[t].status = "open" /\ \A u \in Ticket \ {t} : ticket'[u] = ticket[u]
    BY <1>2, NewTicketGood DEF createIncidentFlow
  <2>2. QED
    BY <1>2, <2>1 DEF createIncidentFlow, GoodRows, RowsTyped, RowsStay, TypeOK, HeldInvariant, Exists, HasTask
<1>3. ASSUME NEW s \in Story, createInProject(s)
      PROVE  GoodRows
  <2>1. /\ story' \in [Story -> [status : UserStoryStatus \cup {"none"}, completedAt : BOOLEAN]]
        /\ \A z \in Story : story[z].status # "none" => story'[z] = story[z]
    BY <1>3 DEF TypeOK, createInProject, UserStoryStatus
  <2>2. QED
    BY <1>3, <2>1 DEF createInProject, GoodRows, RowsTyped, RowsStay, TypeOK, HeldInvariant, Exists, HasTask
<1>4. \A k \in Kinds : k[1] \in BOOLEAN /\ k[2] \in BOOLEAN /\ k[3] \in BOOLEAN
  BY InputsAssumption
<1>5. QED
  BY <1>1, <1>2, <1>3, <1>4 DEF Creates

\* The row of a ticket after a PATCH.
Patched(r, old) ==
  [old EXCEPT !.status = Given(r.status, old.status),
              !.assignee = Given(r.assignee, old.assignee),
              !.resolvedAt = old.resolvedAt \/ (r.status \in {"resolved", "closed"} /\ ~ r.hadTime)]

\* What PATCH /tickets/:id writes, from the request it holds.
LEMMA WriteTicketRows ==
  ASSUME TypeOK, HeldInvariant, NEW h \in Handler, WriteTicket(h)
  PROVE  \E r \in Request("update_ticket") :
           /\ r = req[h] /\ r.row \in Ticket /\ Exists(r.row) /\ pc[h] = "update_ticket"
           /\ ticket[r.row] \in TicketRow
           /\ ticket' \in [Ticket -> TicketRow]
           /\ ticket'[r.row].status = Given(r.status, ticket[r.row].status)
           /\ ticket'[r.row].assignee = Given(r.assignee, ticket[r.row].assignee)
           /\ ticket'[r.row].resolvedAt =
                (ticket[r.row].resolvedAt \/ (r.status \in {"resolved", "closed"} /\ ~ r.hadTime))
           /\ ticket'[r.row].status # "none"
           /\ \A u \in Ticket \ {r.row} : ticket'[u] = ticket[u]
           /\ TaskUnlocked(r.row)
           /\ task' = IF r.status # Unset \/ r.assignee # Unset \/ r.sla
                        THEN syncTaskFromTicket(r.row, ticket'[r.row]) ELSE task
           /\ told' = IF r.assignee # Unset /\ r.assignee # r.was
                        THEN notifyTicketReassignment(r.row, r.was, ticket'[r.row].assignee) ELSE told
           /\ Finish(h, {r.row})
           /\ story' = story /\ links' = links
<1>1. PICK r \in Request("update_ticket") : r = req[h]
  BY DEF TypeOK, WriteTicket
<1>2. r.row \in Ticket /\ r.status \in TicketStatus \cup {Unset} /\ r.assignee \in Assignees \cup {Unset}
  BY <1>1 DEF Request
<1>3. PICK old \in TicketRow : old = ticket[r.row] /\ old.status # "none"
  BY <1>1, <1>2 DEF TypeOK, HeldInvariant, HoldsRows, WriteTicket, Exists
<1>4. PICK new : new = Patched(r, old)
  OBVIOUS
<1>5. /\ new \in TicketRow
      /\ new.status = Given(r.status, old.status) /\ new.assignee = Given(r.assignee, old.assignee)
      /\ new.resolvedAt = (old.resolvedAt \/ (r.status \in {"resolved", "closed"} /\ ~ r.hadTime))
      /\ new.status # "none"
  BY <1>2, <1>3, <1>4, NamesAssumption DEF Patched, TicketRow, Given, TicketStatus, Assignees
<1>6. /\ ticket' = [ticket EXCEPT ![r.row] = new] /\ TaskUnlocked(r.row)
      /\ task' = IF r.status # Unset \/ r.assignee # Unset \/ r.sla
                   THEN syncTaskFromTicket(r.row, new) ELSE task
      /\ told' = IF r.assignee # Unset /\ r.assignee # r.was
                   THEN notifyTicketReassignment(r.row, r.was, new.assignee) ELSE told
      /\ Finish(h, {r.row}) /\ story' = story /\ links' = links /\ pc[h] = "update_ticket"
  BY <1>1, <1>3, <1>4 DEF WriteTicket, Patched
<1>7. ticket' \in [Ticket -> TicketRow] /\ ticket'[r.row] = new /\ \A u \in Ticket \ {r.row} : ticket'[u] = ticket[u]
  BY <1>2, <1>5, <1>6 DEF TypeOK
<1>8. QED
  BY <1>1, <1>2, <1>3, <1>5, <1>6, <1>7 DEF Exists

\* ... has its type, and loses no row.
LEMMA WriteTicketGood ==
  ASSUME TypeOK, HeldInvariant, NEW h \in Handler, WriteTicket(h)
  PROVE  GoodRows
<1>1. PICK t \in Ticket, r \in Request("update_ticket") :
        /\ t = r.row /\ Exists(t) /\ ticket' \in [Ticket -> TicketRow] /\ ticket'[t].status # "none"
        /\ \A u \in Ticket \ {t} : ticket'[u] = ticket[u]
        /\ task' = task \/ task' = syncTaskFromTicket(t, ticket'[t])
        /\ told' = told \/ told' = notifyTicketReassignment(t, r.was, ticket'[t].assignee)
        /\ story' = story /\ links' = links
  BY WriteTicketRows, ZenonT(60)
<1>2. ticket'[t].assignee \in Assignees /\ task[t].assignee \in Assignees /\ taskStatusFromTicket(ticket'[t].status) \in TaskStatus
  BY <1>1 DEF TypeOK, TicketRow, taskStatusFromTicket, TaskStatus
<1>3. PICK row : row = [status |-> taskStatusFromTicket(ticket'[t].status),
                        assignee |-> IF ticket'[t].assignee = NoOne THEN task[t].assignee ELSE ticket'[t].assignee]
  OBVIOUS
<1>4. row \in [status : TaskStatus \cup {"none"}, assignee : Assignees] /\ row.status # "none"
  BY <1>2, <1>3 DEF TaskStatus
<1>5. task' = task \/ (HasTask(t) /\ task' = [task EXCEPT ![t] = row])
  BY <1>1, <1>3 DEF syncTaskFromTicket
<1>6. /\ task' \in [Ticket -> [status : TaskStatus \cup {"none"}, assignee : Assignees]]
      /\ \A u \in Ticket : HasTask(u)' <=> HasTask(u)
  BY <1>4, <1>5 DEF TypeOK, HasTask
<1>7. told' \in [Ticket -> SUBSET Developer] /\ \A u \in Ticket \ {t} : told'[u] = told[u]
  BY <1>1, <1>2 DEF TypeOK, notifyTicketReassignment, Assignees
<1>8. \A u \in Ticket : Exists(u) => Exists(u)'
  BY <1>1 DEF Exists
<1>9. QED
  BY <1>1, <1>6, <1>7, <1>8 DEF GoodRows, RowsTyped, RowsStay, TypeOK, HeldInvariant

\* What PATCH /tasks/:id/status writes of the task and mirrors to its ticket.
LEMMA CommitTaskRows ==
  ASSUME TypeOK, HeldInvariant, NEW h \in Handler, CommitTask(h)
  PROVE  \E t \in Ticket, r \in Request("mirror"), new \in TicketRow :
           /\ r = req[h] /\ t = r.row /\ HasTask(t) /\ Exists(t) /\ pc[h] = "mirror"
           /\ r.status \in TaskStatus /\ r.seen \in TicketStatus
           /\ new = syncTicketFromTask(r.status, r.seen, ticket[t])
           /\ ticket' = [ticket EXCEPT ![t] = new]
           /\ new.status # "none" /\ new.assignee = ticket[t].assignee
           /\ task' = [task EXCEPT ![t].status = r.status]
           /\ Finish(h, IF new = ticket[t] THEN {} ELSE {t})
           /\ told' = told /\ story' = story /\ links' = links
<1>1. PICK r \in Request("mirror") : r = req[h]
  BY DEF TypeOK, CommitTask
<1>2. r.row \in Ticket /\ r.status \in TaskStatus /\ r.seen \in TicketStatus
  BY <1>1 DEF Request
<1>3. HasTask(r.row) /\ Exists(r.row) /\ ticket[r.row] \in TicketRow
  BY <1>1, <1>2 DEF TypeOK, HeldInvariant, HoldsRows, CommitTask
<1>4. PICK old, new : old \in TicketRow /\ old = ticket[r.row] /\ new = syncTicketFromTask(r.status, r.seen, old)
  BY <1>3
<1>5. new \in TicketRow /\ new.status # "none" /\ new.assignee = old.assignee
  BY <1>3, <1>4 DEF syncTicketFromTask, TicketRow, TicketStatus, Exists
<1>6. QED
  BY <1>1, <1>2, <1>3, <1>4, <1>5 DEF CommitTask

\* ... has its type, and loses no row.
LEMMA CommitTaskGood ==
  ASSUME TypeOK, HeldInvariant, NEW h \in Handler, CommitTask(h)
  PROVE  GoodRows
<1>1. PICK t \in Ticket, r \in Request("mirror"), new \in TicketRow :
        /\ HasTask(t) /\ Exists(t) /\ ticket' = [ticket EXCEPT ![t] = new] /\ new.status # "none"
        /\ task' = [task EXCEPT ![t].status = r.status] /\ r.status \in TaskStatus
        /\ told' = told /\ story' = story /\ links' = links
  BY CommitTaskRows, ZenonT(30)
<1>2. [task[t] EXCEPT !.status = r.status] \in [status : TaskStatus \cup {"none"}, assignee : Assignees]
  BY <1>1 DEF TypeOK
<1>3. /\ task' \in [Ticket -> [status : TaskStatus \cup {"none"}, assignee : Assignees]]
      /\ \A u \in Ticket : HasTask(u)' <=> HasTask(u)
  BY <1>1, <1>2 DEF TypeOK, HasTask, TaskStatus
<1>4. ticket' \in [Ticket -> TicketRow] /\ \A u \in Ticket : Exists(u) => Exists(u)'
  BY <1>1 DEF TypeOK, Exists
<1>5. QED
  BY <1>1, <1>3, <1>4 DEF GoodRows, RowsTyped, RowsStay, TypeOK, HeldInvariant

\* What PATCH /user-stories/:id writes of the story and of the tickets linked to it.
LEMMA WriteStoryRows ==
  ASSUME TypeOK, HeldInvariant, NEW h \in Handler, WriteStory(h)
  PROVE  \E s \in Story, r \in Request("update_story") :
           /\ r = req[h] /\ s = r.row /\ pc[h] = "update_story"
           /\ r.status \in UserStoryStatus \cup {Unset} /\ r.next \in UserStoryStatus
           /\ story' = [story EXCEPT ![s] = [status |-> Given(r.status, story[s].status), completedAt |-> r.next = "done"]]
           /\ Given(r.status, story[s].status) \in UserStoryStatus
           /\ ticket' = syncTicketsFromStory(s, r.next)
           /\ \A t \in Ticket : ticket'[t] = ticket[t] \/ (<<t, s>> \in links /\ IsActive(t))
           /\ \A t \in Ticket : /\ ticket'[t] \in TicketRow
                                /\ ticket'[t].assignee = ticket[t].assignee
                                /\ ticket'[t].status = ticket[t].status \/ ticket'[t].status \in {"in_progress", "resolved"}
                                /\ ticket[t].status = "closed" => ticket'[t].status = "closed"
                                /\ ticket[t].status = "resolved" => ticket'[t].status = "resolved"
                                /\ ticket[t].resolvedAt => ticket'[t].resolvedAt
                                /\ ticket'[t].status = "resolved" /\ ticket[t].status # "resolved" => ticket'[t].resolvedAt
           /\ Finish(h, {s} \cup { t \in Ticket : ticket'[t] # ticket[t] })
           /\ task' = task /\ links' = links /\ told' = told
<1>1. PICK r \in Request("update_story") : r = req[h]
  BY DEF TypeOK, WriteStory
<1>2. r.row \in Story /\ r.status \in UserStoryStatus \cup {Unset} /\ r.next \in UserStoryStatus
  BY <1>1 DEF Request
<1>3. Given(r.status, story[r.row].status) \in UserStoryStatus
  BY <1>1, <1>2, NamesAssumption DEF TypeOK, HeldInvariant, HoldsRows, WriteStory, Given
<1>4. /\ pc[h] = "update_story" /\ ticket' = syncTicketsFromStory(r.row, r.next)
      /\ story' = [story EXCEPT ![r.row] = [status |-> Given(r.status, story[r.row].status), completedAt |-> r.next = "done"]]
      /\ Finish(h, {r.row} \cup { t \in Ticket : ticket'[t] # ticket[t] })
      /\ task' = task /\ links' = links /\ told' = told
  BY <1>1 DEF WriteStory, CompletedAt
<1>5. ASSUME NEW t \in Ticket
      PROVE  /\ ticket'[t] = ticket[t] \/ (<<t, r.row>> \in links /\ IsActive(t))
             /\ ticket'[t] \in TicketRow
             /\ ticket'[t].assignee = ticket[t].assignee
             /\ ticket'[t].status = ticket[t].status \/ ticket'[t].status \in {"in_progress", "resolved"}
             /\ ticket[t].status = "closed" => ticket'[t].status = "closed"
             /\ ticket[t].status = "resolved" => ticket'[t].status = "resolved"
             /\ ticket[t].resolvedAt => ticket'[t].resolvedAt
             /\ ticket'[t].status = "resolved" /\ ticket[t].status # "resolved" => ticket'[t].resolvedAt
  <2>1. PICK old \in TicketRow : old = ticket[t]
    BY DEF TypeOK
  <2>2. \/ ticket'[t] = old
        \/ <<t, r.row>> \in links /\ old.status \in {"open", "in_progress"}
           /\ ticket'[t] = [old EXCEPT !.status = "resolved", !.resolvedAt = TRUE]
        \/ <<t, r.row>> \in links /\ old.status = "open" /\ ticket'[t] = [old EXCEPT !.status = "in_progress"]
    BY <1>4, <2>1 DEF syncTicketsFromStory, IsActive
  <2>3. QED
    BY <2>1, <2>2 DEF TicketRow, TicketStatus, IsActive
<1>6. QED
  BY <1>1, <1>2, <1>3, <1>4, <1>5

\* ... has its type, and loses no row.
LEMMA WriteStoryGood ==
  ASSUME TypeOK, HeldInvariant, NEW h \in Handler, WriteStory(h)
  PROVE  GoodRows
<1>1. PICK s \in Story, r \in Request("update_story") :
        /\ story' = [story EXCEPT ![s] = [status |-> Given(r.status, story[s].status), completedAt |-> r.next = "done"]]
        /\ Given(r.status, story[s].status) \in UserStoryStatus
        /\ \A t \in Ticket : /\ ticket'[t] \in TicketRow
                             /\ ticket'[t].status = ticket[t].status \/ ticket'[t].status \in {"in_progress", "resolved"}
        /\ task' = task /\ links' = links /\ told' = told
  BY WriteStoryRows, ZenonT(60)
<1>2. ticket' = [t \in Ticket |-> ticket'[t]]
  BY DEF WriteStory, syncTicketsFromStory
<1>3. /\ story' \in [Story -> [status : UserStoryStatus \cup {"none"}, completedAt : BOOLEAN]]
      /\ \A z \in Story : story[z].status # "none" => story'[z].status # "none"
  BY <1>1 DEF TypeOK, UserStoryStatus
<1>4. ticket' \in [Ticket -> TicketRow] /\ \A u \in Ticket : Exists(u) => Exists(u)'
  BY <1>1, <1>2 DEF Exists
<1>5. QED
  BY <1>1, <1>3, <1>4 DEF GoodRows, RowsTyped, RowsStay, TypeOK, HeldInvariant, HasTask

\* What POST /tickets/:ticketId/create-story writes.
LEMMA CreateFromTicketRows ==
  ASSUME TypeOK, HeldInvariant, NEW h \in Handler, NEW s \in Story, createFromTicket(h, s)
  PROVE  \E t \in Ticket :
           /\ t = req[h].row /\ pc[h] = "story_from_ticket" /\ Exists(t)
           /\ \A u \in Ticket \ {t} : ticket'[u] = ticket[u]
           /\ ticket' \in [Ticket -> TicketRow]
           /\ ticket'[t].status = "in_progress" /\ ticket'[t].assignee = ticket[t].assignee
           /\ ticket'[t].resolvedAt = ticket[t].resolvedAt
           /\ links' = links \cup {<<t, s>>}
           /\ story' = [story EXCEPT ![s] = [status |-> "backlog", completedAt |-> FALSE]]
           /\ Finish(h, {t}) /\ task' = task /\ told' = told
<1>1. PICK t \in Ticket : t = req[h].row
  <2>1. PICK r \in Request("story_from_ticket") : r = req[h]
    BY DEF TypeOK, createFromTicket
  <2>2. QED
    BY <2>1 DEF Request
<1>2. Exists(t)
  BY <1>1 DEF HeldInvariant, HoldsRows, createFromTicket
<1>3. ticket' = [ticket EXCEPT ![t].project = TRUE, ![t].status = "in_progress"]
  BY <1>1 DEF createFromTicket
<1>4. PICK old \in TicketRow : old = ticket[t]
  BY DEF TypeOK
<1>5. PICK new : new = [old EXCEPT !.project = TRUE, !.status = "in_progress"]
  OBVIOUS
<1>6. new \in TicketRow /\ new.status = "in_progress" /\ new.assignee = old.assignee /\ new.resolvedAt = old.resolvedAt
  BY <1>5 DEF TicketRow, TicketStatus
<1>7. ticket' = [ticket EXCEPT ![t] = new]
  BY <1>3, <1>4, <1>5 DEF TypeOK
<1>8. ticket' \in [Ticket -> TicketRow] /\ ticket'[t] = new /\ \A u \in Ticket \ {t} : ticket'[u] = ticket[u]
  BY <1>6, <1>7 DEF TypeOK
<1>9. QED
  BY <1>1, <1>2, <1>4, <1>6, <1>8 DEF createFromTicket

\* ... has its type, and loses no row.
LEMMA CreateFromTicketGood ==
  ASSUME TypeOK, HeldInvariant, NEW h \in Handler, NEW s \in Story, createFromTicket(h, s)
  PROVE  GoodRows
<1>1. PICK t \in Ticket :
           /\ t = req[h].row /\ pc[h] = "story_from_ticket" /\ Exists(t)
           /\ \A u \in Ticket \ {t} : ticket'[u] = ticket[u]
           /\ ticket' \in [Ticket -> TicketRow]
           /\ ticket'[t].status = "in_progress" /\ ticket'[t].assignee = ticket[t].assignee
           /\ ticket'[t].resolvedAt = ticket[t].resolvedAt
           /\ links' = links \cup {<<t, s>>}
           /\ story' = [story EXCEPT ![s] = [status |-> "backlog", completedAt |-> FALSE]]
           /\ Finish(h, {t}) /\ task' = task /\ told' = told
  BY CreateFromTicketRows, ZenonT(60)
<1>2. \A u \in Ticket : Exists(u) => Exists(u)'
  BY <1>1 DEF Exists
<1>3. /\ story' \in [Story -> [status : UserStoryStatus \cup {"none"}, completedAt : BOOLEAN]]
      /\ \A z \in Story : story[z].status # "none" => story'[z].status # "none"
  BY <1>1 DEF TypeOK, UserStoryStatus
<1>4. QED
  BY <1>1, <1>2, <1>3 DEF GoodRows, RowsTyped, RowsStay, TypeOK, HeldInvariant, HasTask

\* What the resolution of an incident writes of the tickets it found.
LEMMA ResolveRows ==
  ASSUME TypeOK, HeldInvariant, NEW h \in Handler, ResolveFoundTickets(h)
  PROVE  \E found \in SUBSET Ticket :
           /\ found = req[h].found /\ pc[h] = "resolve_tickets" /\ \A t \in found : Exists(t) /\ TaskUnlocked(t)
           /\ ticket' \in [Ticket -> TicketRow]
           /\ \A t \in found : /\ ticket'[t].status = "resolved" /\ ticket'[t].resolvedAt
                               /\ ticket'[t].assignee = ticket[t].assignee
           /\ \A t \in Ticket \ found : ticket'[t] = ticket[t] /\ task'[t] = task[t]
           /\ task' \in [Ticket -> [status : TaskStatus \cup {"none"}, assignee : Assignees]]
           /\ \A t \in found : /\ HasTask(t)' <=> HasTask(t)
                               /\ task'[t].assignee = task[t].assignee
           /\ Finish(h, found) /\ told' = told /\ story' = story /\ links' = links
<1>1. PICK found \in SUBSET Ticket : found = req[h].found
  <2>1. PICK r \in Request("resolve_tickets") : r = req[h]
    BY DEF TypeOK, ResolveFoundTickets
  <2>2. QED
    BY <2>1 DEF Request
<1>2. \A t \in found : Exists(t) /\ TaskUnlocked(t)
  BY <1>1 DEF HeldInvariant, HoldsRows, ResolveFoundTickets
<1>3. /\ ticket' = [t \in Ticket |-> IF t \in found THEN [ticket[t] EXCEPT !.status = "resolved", !.resolvedAt = TRUE]
                                     ELSE ticket[t]]
      /\ task' = [t \in Ticket |-> IF t \in found /\ HasTask(t) THEN [task[t] EXCEPT !.status = "done"] ELSE task[t]]
  BY <1>1 DEF ResolveFoundTickets, Resolved
<1>4. ASSUME NEW t \in Ticket
      PROVE  /\ ticket'[t] \in TicketRow
             /\ t \in found => /\ ticket'[t].status = "resolved" /\ ticket'[t].resolvedAt
                               /\ ticket'[t].assignee = ticket[t].assignee
             /\ t \notin found => ticket'[t] = ticket[t]
  <2>1. PICK old \in TicketRow : old = ticket[t]
    BY DEF TypeOK
  <2>2. ticket'[t] = IF t \in found THEN [old EXCEPT !.status = "resolved", !.resolvedAt = TRUE] ELSE old
    BY <1>3, <2>1
  <2>3. QED
    BY <2>1, <2>2 DEF TicketRow, TicketStatus
<1>5. ASSUME NEW t \in Ticket
      PROVE  /\ task'[t] \in [status : TaskStatus \cup {"none"}, assignee : Assignees]
             /\ HasTask(t)' <=> HasTask(t)
             /\ task'[t].assignee = task[t].assignee
             /\ t \notin found => task'[t] = task[t]
  <2>1. PICK old \in [status : TaskStatus \cup {"none"}, assignee : Assignees] : old = task[t]
    BY DEF TypeOK
  <2>2. task'[t] = IF t \in found /\ old.status # "none" THEN [old EXCEPT !.status = "done"] ELSE old
    BY <1>3, <2>1 DEF HasTask
  <2>3. QED
    BY <2>1, <2>2 DEF TaskStatus, HasTask
<1>6. ticket' = [t \in Ticket |-> ticket'[t]] /\ task' = [t \in Ticket |-> task'[t]]
  BY <1>3
<1>7. /\ pc[h] = "resolve_tickets" /\ Finish(h, found)
      /\ told' = told /\ story' = story /\ links' = links
  BY <1>1 DEF ResolveFoundTickets
<1>8. QED
  BY <1>1, <1>2, <1>4, <1>5, <1>6, <1>7

\* ... has its type, and loses no row.
LEMMA ResolveGood ==
  ASSUME TypeOK, HeldInvariant, NEW h \in Handler, ResolveFoundTickets(h)
  PROVE  GoodRows
<1>1. PICK found \in SUBSET Ticket :
        /\ ticket' \in [Ticket -> TicketRow]
        /\ \A t \in found : ticket'[t].status = "resolved"
        /\ \A t \in Ticket \ found : ticket'[t] = ticket[t] /\ task'[t] = task[t]
        /\ task' \in [Ticket -> [status : TaskStatus \cup {"none"}, assignee : Assignees]]
        /\ \A t \in found : HasTask(t)' <=> HasTask(t)
        /\ told' = told /\ story' = story /\ links' = links
  BY ResolveRows, ZenonT(30)
<1>2. \A t \in Ticket : Exists(t) => Exists(t)'
  BY <1>1 DEF Exists
<1>3. \A t \in Ticket : HasTask(t)' <=> HasTask(t)
  BY <1>1 DEF HasTask
<1>4. QED
  BY <1>1, <1>2, <1>3 DEF GoodRows, RowsTyped, RowsStay, TypeOK, HeldInvariant

\* What the announcement of a new ticket writes.
LEMMA AnnounceRows ==
  ASSUME TypeOK, HeldInvariant, NEW h \in Handler, AnnounceTicket(h)
  PROVE  \E t \in Ticket, d \in Developer :
           /\ t = req[h].row /\ d = req[h].assignee /\ pc[h] = "announce" /\ Exists(t)
           /\ told' \in [Ticket -> SUBSET Developer]
           /\ told'[t] = told[t] \cup {d} /\ \A u \in Ticket \ {t} : told'[u] = told[u]
           /\ Finish(h, {t}) /\ ticket' = ticket /\ task' = task /\ story' = story /\ links' = links
<1>1. PICK t \in Ticket, d \in Developer : t = req[h].row /\ d = req[h].assignee
  <2>1. PICK r \in Request("announce") : r = req[h]
    BY DEF TypeOK, AnnounceTicket
  <2>2. QED
    BY <2>1 DEF Request
<1>2. Exists(t)
  BY <1>1 DEF HeldInvariant, HoldsRows, AnnounceTicket
<1>3. told' = [told EXCEPT ![t] = @ \cup {d}]
  BY <1>1 DEF AnnounceTicket
<1>4. /\ told' \in [Ticket -> SUBSET Developer]
      /\ told'[t] = told[t] \cup {d} /\ \A u \in Ticket \ {t} : told'[u] = told[u]
  BY <1>3 DEF TypeOK
<1>5. /\ pc[h] = "announce" /\ Finish(h, {t})
      /\ ticket' = ticket /\ task' = task /\ story' = story /\ links' = links
  BY <1>1 DEF AnnounceTicket, rows
<1>6. QED
  BY <1>1, <1>2, <1>4, <1>5

\* Whatever a step writes has its type, and no row disappears.
LEMMA AllGood ==
  ASSUME TypeOK, HeldInvariant, [Next]_vars
  PROVE  GoodRows
<1>1. ASSUME UNCHANGED rows, told' = told
      PROVE  GoodRows
  BY <1>1 DEF GoodRows, RowsTyped, RowsStay, TypeOK, HeldInvariant, HasTask, Exists, rows
<1>2. ASSUME NEW h \in Handler, Reads(h)
      PROVE  GoodRows
  BY <1>1, <1>2, ReadsBegin DEF Begin
<1>3. ASSUME NEW h \in Handler, StartMirror(h) \/ Abort(h)
      PROVE  GoodRows
  BY <1>1, <1>3 DEF StartMirror, Abort
<1>4. ASSUME NEW h \in Handler, AnnounceTicket(h)
      PROVE  GoodRows
  <2>1. /\ told' \in [Ticket -> SUBSET Developer] /\ \A t \in Ticket : ~ Exists(t) => told'[t] = told[t]
        /\ ticket' = ticket /\ task' = task /\ story' = story /\ links' = links
    BY <1>4, AnnounceRows, ZenonT(60)
  <2>2. QED
    BY <2>1 DEF GoodRows, RowsTyped, RowsStay, TypeOK, HeldInvariant, HasTask, Exists
<1>5. UNCHANGED vars => GoodRows
  BY <1>1 DEF vars, rows
<1>6. QED
  BY <1>2, <1>3, <1>4, <1>5, CreateGood, WriteTicketGood, CommitTaskGood, WriteStoryGood,
     CreateFromTicketGood, ResolveGood DEF Next, Writes

\* A step moves at most one handler, which then holds what it should.
LEMMA Movement ==
  ASSUME TypeOK, HeldInvariant, [Next]_vars
  PROVE  \/ pc' = pc /\ req' = req
         \/ \E h \in Handler, at \in Positions : \E r \in Request(at) : Moves(h, at, r) /\ UpToDate(at, r)'
<1> DEFINE Goal == \E h \in Handler, at \in Positions : \E r \in Request(at) : Moves(h, at, r) /\ UpToDate(at, r)'
<1>1. ASSUME NEW h \in Handler, pc' = [pc EXCEPT ![h] = "idle"], req' = [req EXCEPT ![h] = NoRequest]
      PROVE  Goal
  <2>1. NoRequest \in Request("idle") /\ "idle" \in Positions
    BY DEF Request, Positions
  <2>2. UpToDate("idle", NoRequest)'
    BY DEF UpToDate, HoldsRows, StillTrue, KnowsRow
  <2>3. QED
    BY <1>1, <2>1, <2>2 DEF Moves
<1>2. ASSUME NEW h \in Handler, Reads(h)
      PROVE  Goal
  <2>1. PICK at, r : Reading(at, r) /\ Begin(h, at, r)
    BY <1>2, ReadsBegin
  <2>2. UpToDate(at, r)'
    BY <2>1 DEF Reading, Begin, UpToDate, HoldsRows, StillTrue, KnowsRow, Exists, HasTask, Done, HasStory, IsActive, rows
  <2>3. QED
    BY <2>1, <2>2 DEF Reading, Begin, Moves
<1>3. ASSUME NEW h \in Handler, StartMirror(h)
      PROVE  Goal
  <2>1. PICK q \in Request("update_task") : q = req[h]
    BY <1>3 DEF TypeOK, StartMirror
  <2>2. q.row \in Ticket /\ q.status \in TaskStatus
    BY DEF Request
  <2>3. HasTask(q.row) /\ Exists(q.row) /\ ticket[q.row].status \in TicketStatus
    BY <1>3, <2>1, <2>2 DEF TypeOK, HeldInvariant, HoldsRows, StartMirror, TicketRow, Exists
  <2>4. PICK r : r = [row |-> q.row, status |-> q.status, seen |-> ticket[q.row].status]
    OBVIOUS
  <2>5. r \in Request("mirror") /\ "mirror" \in Positions
    BY <2>2, <2>3, <2>4 DEF Request, Positions
  <2>6. UpToDate("mirror", r)'
    BY <1>3, <2>3, <2>4 DEF StartMirror, UpToDate, HoldsRows, StillTrue, KnowsRow, HasTask, Done, rows
  <2>7. Moves(h, "mirror", r)
    BY <1>3, <2>1, <2>4 DEF StartMirror, Moves, HeldInvariant
  <2>8. QED
    BY <2>5, <2>6, <2>7
<1>4. ASSUME NEW h \in Handler, NEW t \in Ticket, NEW a \in Assignees, createIncidentFlow(h, t, a)
      PROVE  (pc' = pc /\ req' = req) \/ Goal
  <2>1. CASE a = NoOne
    BY <1>4, <2>1 DEF createIncidentFlow
  <2>2. CASE a # NoOne
    <3>1. [row |-> t, assignee |-> a] \in Request("announce") /\ "announce" \in Positions
      BY <2>2 DEF Request, Positions, Assignees
    <3>2. ticket'[t].status = "open" /\ ticket'[t].assignee = a
      BY <1>4 DEF TypeOK, createIncidentFlow, NewTicket
    <3>3. told'[t] = {}
      BY <1>4 DEF HeldInvariant, createIncidentFlow, NewTicket
    <3>4. UpToDate("announce", [row |-> t, assignee |-> a])'
      BY <3>2, <3>3 DEF UpToDate, HoldsRows, StillTrue, KnowsRow, Exists
    <3>5. QED
      BY <1>4, <2>2, <3>1, <3>4 DEF createIncidentFlow, Moves
  <2>3. QED
    BY <2>1, <2>2
<1>5. Creates => (pc' = pc /\ req' = req) \/ Goal
  BY <1>4 DEF Creates, create, createInProject
<1>6. ASSUME NEW h \in Handler, Writes(h)
      PROVE  Goal
  <2>1. StartMirror(h) \/ (pc' = [pc EXCEPT ![h] = "idle"] /\ req' = [req EXCEPT ![h] = NoRequest])
    BY <1>6 DEF Writes, WriteTicket, CommitTask, WriteStory, createFromTicket, ResolveFoundTickets, AnnounceTicket,
         Abort, Finish
  <2>2. QED
    BY <1>1, <1>3, <2>1
<1>7. QED
  BY <1>2, <1>5, <1>6 DEF Next, vars

\* Who writes a row overtakes the handlers that have read it.
Overtakes(h) ==
  \/ StartMirror(h) \/ Abort(h)
  \/ \E written \in SUBSET (Ticket \cup Story) :
       /\ Finish(h, written) /\ pc[h] # "idle"
       /\ \A t \in Ticket \ written : ticket'[t] = ticket[t] /\ told'[t] = told[t]
       /\ \A s \in Story \ written : story[s].status # "none" => story'[s] = story[s]

\* Every write says which rows it wrote, and leaves the others as they were.
LEMMA WritesOvertake ==
  ASSUME TypeOK, HeldInvariant, NEW h \in Handler, Writes(h)
  PROVE  Overtakes(h)
<1>1. CASE WriteTicket(h)
  <2>1. PICK r \in Request("update_ticket") :
          /\ r.row \in Ticket /\ pc[h] = "update_ticket" /\ Finish(h, {r.row})
          /\ \A u \in Ticket \ {r.row} : ticket'[u] = ticket[u]
          /\ told' = told \/ told' = notifyTicketReassignment(r.row, r.was, ticket'[r.row].assignee)
          /\ story' = story
    BY <1>1, WriteTicketRows, ZenonT(60)
  <2>2. \A u \in Ticket \ {r.row} : told'[u] = told[u]
    BY <2>1 DEF TypeOK, notifyTicketReassignment
  <2>3. QED
    BY <2>1, <2>2 DEF Overtakes
<1>2. CASE CommitTask(h)
  <2>1. PICK t \in Ticket, new \in TicketRow :
          /\ pc[h] = "mirror" /\ ticket' = [ticket EXCEPT ![t] = new] /\ told' = told /\ story' = story
          /\ Finish(h, IF new = ticket[t] THEN {} ELSE {t})
    BY <1>2, CommitTaskRows, ZenonT(60)
  <2>2. PICK written \in SUBSET Ticket : written = IF new = ticket[t] THEN {} ELSE {t}
    OBVIOUS
  <2>3. \A u \in Ticket \ written : ticket'[u] = ticket[u]
    BY <2>1, <2>2 DEF TypeOK
  <2>4. QED
    BY <2>1, <2>2, <2>3 DEF Overtakes
<1>3. CASE WriteStory(h)
  <2>1. PICK s \in Story, r \in Request("update_story") :
          /\ pc[h] = "update_story" /\ told' = told
          /\ story' = [story EXCEPT ![s] = [status |-> Given(r.status, story[s].status), completedAt |-> r.next = "done"]]
          /\ Finish(h, {s} \cup { t \in Ticket : ticket'[t] # ticket[t] })
    BY <1>3, WriteStoryRows, ZenonT(60)
  <2>2. \A z \in Story \ {s} : story'[z] = story[z]
    BY <2>1 DEF TypeOK
  <2>3. QED
    BY <2>1, <2>2 DEF Overtakes
<1>4. ASSUME NEW s \in Story, createFromTicket(h, s)
      PROVE  Overtakes(h)
  <2>1. PICK t \in Ticket :
           /\ t = req[h].row /\ pc[h] = "story_from_ticket" /\ Exists(t)
           /\ \A u \in Ticket \ {t} : ticket'[u] = ticket[u]
           /\ ticket' \in [Ticket -> TicketRow]
           /\ ticket'[t].status = "in_progress" /\ ticket'[t].assignee = ticket[t].assignee
           /\ ticket'[t].resolvedAt = ticket[t].resolvedAt
           /\ links' = links \cup {<<t, s>>}
           /\ story' = [story EXCEPT ![s] = [status |-> "backlog", completedAt |-> FALSE]]
           /\ Finish(h, {t}) /\ task' = task /\ told' = told
    BY <1>4, CreateFromTicketRows, ZenonT(60)
  <2>2. \A z \in Story : story[z].status # "none" => story'[z] = story[z]
    BY <1>4, <2>1 DEF TypeOK, createFromTicket
  <2>3. QED
    BY <2>1, <2>2 DEF Overtakes
<1>5. CASE ResolveFoundTickets(h)
  <2>1. PICK found \in SUBSET Ticket :
          /\ pc[h] = "resolve_tickets" /\ Finish(h, found) /\ told' = told /\ story' = story
          /\ \A t \in Ticket \ found : ticket'[t] = ticket[t] /\ task'[t] = task[t]
    BY <1>5, ResolveRows, ZenonT(60)
  <2>2. QED
    BY <2>1 DEF Overtakes
<1>6. CASE AnnounceTicket(h)
  <2>1. PICK t \in Ticket :
          /\ pc[h] = "announce" /\ Finish(h, {t}) /\ ticket' = ticket /\ story' = story
          /\ \A u \in Ticket \ {t} : told'[u] = told[u]
    BY <1>6, AnnounceRows, ZenonT(60)
  <2>2. QED
    BY <2>1 DEF Overtakes
<1>7. CASE StartMirror(h) \/ Abort(h)
  BY <1>7 DEF Overtakes
<1>8. QED
  BY <1>1, <1>2, <1>3, <1>4, <1>5, <1>6, <1>7 DEF Writes

\* The history variables name handlers and rows.
LEMMA HistoryTyped ==
  ASSUME TypeOK, HeldInvariant, [Next]_vars
  PROVE  overtaken' \subseteq Handler /\ raced' \subseteq Ticket \cup Story
<1> DEFINE Goal == overtaken' \subseteq Handler /\ raced' \subseteq Ticket \cup Story
<1>1. overtaken \subseteq Handler /\ raced \subseteq Ticket \cup Story
  BY DEF TypeOK
<1>2. ASSUME NEW h \in Handler, NEW written \in SUBSET (Ticket \cup Story), Finish(h, written)
      PROVE  Goal
  BY <1>1, <1>2 DEF Finish
<1>3. ASSUME NEW h \in Handler, StartMirror(h) \/ Reads(h)
      PROVE  Goal
  BY <1>1, <1>3, ReadsBegin DEF StartMirror, Begin
<1>4. Creates => Goal
  BY <1>1 DEF Creates, create, createIncidentFlow, createInProject
<1>5. ASSUME NEW h \in Handler, Abort(h)
      PROVE  Goal
  <2>1. PICK at, r : at = pc[h] /\ r = req[h] /\ r \in Request(at)
    BY DEF TypeOK
  <2>2. at = "announce" => r.row \in Ticket
    BY <2>1 DEF Request
  <2>3. QED
    BY <1>1, <1>5, <2>1, <2>2 DEF Abort
<1>6. ASSUME NEW h \in Handler, Writes(h)
      PROVE  Goal
  BY <1>2, <1>3, <1>5, <1>6, WritesOvertake DEF Overtakes
<1>7. UNCHANGED vars => Goal
  BY <1>1 DEF vars
<1>8. QED
  BY <1>2, <1>3, <1>4, <1>5, <1>6, <1>7 DEF Next

\* Rows and requests keep their types, and what a handler will write exists.
LEMMA HeldKept == Spec => [](TypeOK /\ HeldInvariant)
<1>1. Init => TypeOK /\ HeldInvariant
  BY DEF Init, TypeOK, HeldInvariant, HoldsRows, HasTask, TicketRow, Assignees, Positions, Request
<1>2. TypeOK /\ HeldInvariant /\ [Next]_vars => TypeOK' /\ HeldInvariant'
  <2> SUFFICES ASSUME TypeOK, HeldInvariant, [Next]_vars PROVE TypeOK' /\ HeldInvariant'
    OBVIOUS
  <2>1. GoodRows
    BY AllGood
  <2>2. ASSUME NEW g \in Handler, Stays(g)
        PROVE  req'[g] \in Request(pc'[g]) /\ HoldsRows(pc[g], req[g])'
    <3>1. req[g] \in Request(pc[g]) /\ HoldsRows(pc[g], req[g])
      BY DEF TypeOK, HeldInvariant
    <3>2. PICK at, r : at = pc[g] /\ r = req[g]
      OBVIOUS
    <3>3. /\ at \in {"update_ticket", "story_from_ticket", "announce", "update_task", "mirror"} => r.row \in Ticket
          /\ at = "update_story" => r.row \in Story
          /\ at = "resolve_tickets" => r.found \subseteq Ticket
      BY <3>1, <3>2 DEF Request
    <3>4. HoldsRows(at, r)'
      BY <2>1, <3>1, <3>2, <3>3 DEF GoodRows, RowsStay, HoldsRows
    <3>5. QED
      BY <2>2, <3>1, <3>2, <3>4 DEF Stays, HoldsRows
  <2>3. /\ pc' \in [Handler -> Positions]
        /\ req' = [h \in Handler |-> req'[h]]
        /\ \A g \in Handler : req'[g] \in Request(pc'[g]) /\ HoldsRows(pc[g], req[g])'
    <3>1. CASE pc' = pc /\ req' = req
      BY <2>2, <3>1 DEF TypeOK, HeldInvariant, Stays
    <3>2. CASE \E h \in Handler, at \in Positions : \E r \in Request(at) : Moves(h, at, r) /\ UpToDate(at, r)'
      <4>1. PICK h \in Handler, at \in Positions : \E r \in Request(at) : Moves(h, at, r) /\ UpToDate(at, r)'
        BY <3>2
      <4>2. PICK r \in Request(at) : Moves(h, at, r) /\ UpToDate(at, r)'
        BY <4>1
      <4>3. /\ pc'[h] = at /\ req'[h] = r /\ \A g \in Handler \ {h} : Stays(g)
            /\ req' = [g \in Handler |-> req'[g]] /\ pc' \in [Handler -> Positions]
        BY <4>2, MoverMoves
      <4>4. QED
        BY <2>2, <4>2, <4>3 DEF UpToDate, HoldsRows
    <3>3. QED
      BY <3>1, <3>2, Movement
  <2>4. overtaken' \subseteq Handler /\ raced' \subseteq Ticket \cup Story
    BY HistoryTyped
  <2>5. QED
    BY <2>1, <2>3, <2>4 DEF TypeOK, HeldInvariant, GoodRows, RowsTyped
<1>3. QED
  BY <1>1, <1>2, PTL DEF Spec

-----------------------------------------------------------------------------
(* What a handler knows of its row *)

\* Unless its row was written since, a handler knows it.
OvertakenOrKnows == \A h \in Handler : h \in overtaken \/ KnowsRow(pc[h], req[h])

\* The row of a handler that nobody overtakes is as it was.
LEMMA RowUntouched ==
  ASSUME TypeOK, HeldInvariant, [Next]_vars, NEW g \in Handler, Stays(g), g \notin overtaken'
  PROVE  /\ g \notin overtaken
         /\ \A t \in Ticket : t \in ReadBy(g) => ticket'[t] = ticket[t] /\ told'[t] = told[t]
         /\ \A s \in Story : s \in ReadBy(g) => story'[s] = story[s]
<1> DEFINE Goal == /\ g \notin overtaken
                   /\ \A t \in Ticket : t \in ReadBy(g) => ticket'[t] = ticket[t] /\ told'[t] = told[t]
                   /\ \A s \in Story : s \in ReadBy(g) => story'[s] = story[s]
<1>1. /\ \A t \in Ticket : t \in ReadBy(g) => Exists(t)
      /\ \A s \in Story : s \in ReadBy(g) => story[s].status # "none"
  <2>1. PICK at, r : at = pc[g] /\ r = req[g] /\ r \in Request(at) /\ HoldsRows(at, r)
    BY DEF TypeOK, HeldInvariant
  <2>2. /\ at \in {"update_ticket", "mirror", "announce"} => r.row \in Ticket
        /\ at = "update_story" => r.row \in Story
        /\ at = "resolve_tickets" => r.found \subseteq Ticket
    BY <2>1 DEF Request
  <2>3. Ticket \cap Story = {}
    BY NamesAssumption
  <2>4. at \in {"update_ticket", "mirror", "announce"} => Exists(r.row)
    BY <2>1, <2>2 DEF HoldsRows, HeldInvariant
  <2>5. QED
    BY <2>1, <2>2, <2>3, <2>4 DEF ReadBy, HoldsRows
<1>2. ASSUME UNCHANGED <<rows, told>>, overtaken' = overtaken
      PROVE  Goal
  BY <1>2 DEF rows
<1>3. ASSUME NEW h \in Handler, Reads(h)
      PROVE  Goal
  BY <1>2, <1>3, ReadsBegin DEF Begin
<1>4. ASSUME NEW h \in Handler, StartMirror(h) \/ Abort(h)
      PROVE  Goal
  <2>1. g # h
    BY <1>4 DEF TypeOK, StartMirror, Abort, Stays
  <2>2. overtaken' = overtaken \ {h} /\ UNCHANGED <<rows, told>>
    BY <1>4 DEF StartMirror, Abort
  <2>3. QED
    BY <2>1, <2>2 DEF rows
<1>5. ASSUME NEW h \in Handler, NEW written \in SUBSET (Ticket \cup Story), Finish(h, written), pc[h] # "idle",
             \A t \in Ticket \ written : ticket'[t] = ticket[t] /\ told'[t] = told[t],
             \A s \in Story \ written : story[s].status # "none" => story'[s] = story[s]
      PROVE  Goal
  <2>1. g # h
    BY <1>5 DEF TypeOK, Finish, Stays
  <2>2. g \notin overtaken /\ ReadBy(g) \cap written = {}
    BY <1>5, <2>1 DEF Finish
  <2>3. QED
    BY <1>1, <1>5, <2>2
<1>6. ASSUME NEW h \in Handler, Writes(h)
      PROVE  Goal
  BY <1>4, <1>5, <1>6, WritesOvertake DEF Overtakes
<1>7. ASSUME NEW t \in Ticket, NEW a \in Assignees, NEW k \in Kinds, create(t, a, k[1], k[2], k[3])
      PROVE  Goal
  <2>1. /\ overtaken' = overtaken /\ story' = story /\ ~ Exists(t)
        /\ \A u \in Ticket \ {t} : ticket'[u] = ticket[u] /\ told'[u] = told[u]
    BY <1>7 DEF TypeOK, create, NewTicket
  <2>2. QED
    BY <1>1, <2>1
<1>8. ASSUME NEW h \in Handler, NEW t \in Ticket, NEW a \in Assignees, createIncidentFlow(h, t, a)
      PROVE  Goal
  <2>1. /\ overtaken' = overtaken /\ story' = story /\ told' = told /\ ~ Exists(t)
        /\ \A u \in Ticket \ {t} : ticket'[u] = ticket[u]
    BY <1>8 DEF TypeOK, createIncidentFlow, NewTicket
  <2>2. QED
    BY <1>1, <2>1
<1>9. ASSUME NEW s \in Story, createInProject(s)
      PROVE  Goal
  <2>1. /\ overtaken' = overtaken /\ ticket' = ticket /\ told' = told /\ story[s].status = "none"
        /\ \A z \in Story \ {s} : story'[z] = story[z]
    BY <1>9 DEF TypeOK, createInProject
  <2>2. QED
    BY <1>1, <2>1
<1>10. UNCHANGED vars => Goal
  BY <1>2 DEF vars, rows
<1>11. QED
  BY <1>3, <1>6, <1>7, <1>8, <1>9, <1>10 DEF Next, Creates

\* Each handler stays, or moves to a position of which it is up to date.
LEMMA StaysOrMoves ==
  ASSUME TypeOK, HeldInvariant, [Next]_vars, NEW g \in Handler
  PROVE  Stays(g) \/ UpToDate(pc[g], req[g])'
<1>1. CASE pc' = pc /\ req' = req
  BY <1>1 DEF Stays
<1>2. ASSUME NEW h \in Handler, NEW at \in Positions, NEW r \in Request(at), Moves(h, at, r), UpToDate(at, r)'
      PROVE  Stays(g) \/ UpToDate(pc[g], req[g])'
  <2>1. /\ pc'[h] = at /\ req'[h] = r
        /\ \A f \in Handler \ {h} : Stays(f)
    BY <1>2, MoverMoves
  <2>2. CASE g = h
    BY <1>2, <2>1, <2>2 DEF UpToDate, HoldsRows, StillTrue, KnowsRow
  <2>3. QED
    BY <2>1, <2>2
<1>3. QED
  BY <1>1, <1>2, Movement

\* ... and keeps knowing it, whatever the others do.
LEMMA KnowsKept ==
  ASSUME TypeOK, HeldInvariant, OvertakenOrKnows, [Next]_vars
  PROVE  OvertakenOrKnows'
<1>1. ASSUME NEW g \in Handler, Stays(g), g \notin overtaken'
      PROVE  KnowsRow(pc[g], req[g])'
  <2>1. PICK at, r : at = pc[g] /\ r = req[g] /\ r \in Request(at)
    BY DEF TypeOK
  <2>2. KnowsRow(at, r)
    BY <1>1, <2>1, RowUntouched DEF OvertakenOrKnows
  <2>3. /\ at \in {"update_ticket", "mirror", "announce"} => r.row \in Ticket /\ r.row \in ReadBy(g)
        /\ at = "update_story" => r.row \in Story /\ r.row \in ReadBy(g)
        /\ at = "resolve_tickets" => r.found \subseteq Ticket /\ r.found \subseteq ReadBy(g)
    BY <2>1 DEF Request, ReadBy
  <2>4. KnowsRow(at, r)'
    BY <1>1, <2>2, <2>3, RowUntouched DEF KnowsRow, IsActive
  <2>5. pc'[g] = at /\ req'[g] = r
    BY <1>1, <2>1 DEF Stays
  <2>6. QED
    BY <2>4, <2>5 DEF KnowsRow
<1>2. QED
  BY <1>1, StaysOrMoves DEF OvertakenOrKnows, UpToDate

\* Whatever was not written since it was read is as it was read.
LEMMA Knows == Spec => []OvertakenOrKnows
<1>1. Init => OvertakenOrKnows
  BY DEF Init, OvertakenOrKnows, KnowsRow
<1>2. QED
  BY <1>1, KnowsKept, HeldKept, PTL DEF Spec

-----------------------------------------------------------------------------
(* Finished work stays finished *)

\* What a write of a handler does to the status of a ticket.
WritesStatus(h, t) ==
  \/ ticket'[t].status = ticket[t].status
  \/ pc[h] = "story_from_ticket" /\ ticket'[t].status = "in_progress" /\ ticket[t].status # "none"
  \/ h \in overtaken /\ ticket'[t].status # "none"
  \/ ticket[t].status \in {"open", "in_progress", "resolved"} /\ ticket'[t].status \in TicketStatus \ {"open"}

\* A write that was not overtaken leaves closed tickets closed and begun ones begun;
\* only a story begins a closed ticket again.
LEMMA StatusWrites ==
  ASSUME TypeOK, HeldInvariant, OvertakenOrKnows, NEW h \in Handler, Writes(h), NEW t \in Ticket
  PROVE  WritesStatus(h, t)
<1>1. h \in overtaken \/ KnowsRow(pc[h], req[h])
  BY DEF OvertakenOrKnows
<1>2. CASE WriteTicket(h)
  <2>1. PICK r \in Request("update_ticket") :
          /\ r = req[h] /\ r.row \in Ticket /\ Exists(r.row) /\ pc[h] = "update_ticket"
          /\ ticket'[r.row].status = Given(r.status, ticket[r.row].status)
          /\ ticket'[r.row].status # "none"
          /\ \A u \in Ticket \ {r.row} : ticket'[u] = ticket[u]
    BY <1>2, WriteTicketRows, ZenonT(60)
  <2>2. r.status \in TicketStatus \cup {Unset}
    BY DEF Request
  <2>3. CASE t = r.row /\ h \notin overtaken
    <3>1. ticket[t].status # "closed" /\ (r.status = "open" => ticket[t].status = "open") /\ ticket[t].status # "none"
      BY <1>1, <2>1, <2>3 DEF KnowsRow, Exists
    <3>2. ticket[t].status \in TicketStatus
      BY <3>1 DEF TypeOK, TicketRow
    <3>3. QED
      BY <2>1, <2>2, <2>3, <3>1, <3>2 DEF WritesStatus, Given, TicketStatus
  <2>4. QED
    BY <2>1, <2>3 DEF WritesStatus
<1>3. CASE CommitTask(h)
  <2>1. PICK k \in Ticket, r \in Request("mirror"), new \in TicketRow :
           /\ r = req[h] /\ k = r.row /\ HasTask(k) /\ Exists(k) /\ pc[h] = "mirror"
           /\ r.status \in TaskStatus /\ r.seen \in TicketStatus
           /\ new = syncTicketFromTask(r.status, r.seen, ticket[k])
           /\ ticket' = [ticket EXCEPT ![k] = new]
           /\ new.status # "none" /\ new.assignee = ticket[k].assignee
           /\ task' = [task EXCEPT ![k].status = r.status]
           /\ Finish(h, IF new = ticket[k] THEN {} ELSE {k})
           /\ told' = told /\ story' = story /\ links' = links
    BY <1>3, CommitTaskRows, ZenonT(60)
  <2>2. CASE t # k
    BY <2>1, <2>2 DEF TypeOK, WritesStatus
  <2>3. CASE t = k
    <3>1. PICK old \in TicketRow : old = ticket[t]
      BY DEF TypeOK
    <3>2. ticket'[t] = new
      BY <2>1, <2>3 DEF TypeOK
    <3>3. h \in overtaken \/ old.status = r.seen
      BY <1>1, <2>1, <2>3, <3>1 DEF KnowsRow
    <3>4. \/ new.status = old.status
          \/ new.status = "resolved" /\ r.seen \notin {"closed", "resolved"}
          \/ new.status = "in_progress" /\ r.seen = "open"
      BY <2>1, <2>3, <3>1 DEF syncTicketFromTask, TicketRow
    <3>5. QED
      BY <2>1, <3>1, <3>2, <3>3, <3>4 DEF WritesStatus, TicketStatus
  <2>4. QED
    BY <2>2, <2>3
<1>4. CASE WriteStory(h)
  <2>1. PICK s \in Story :
           \A u \in Ticket : /\ ticket'[u] = ticket[u] \/ (<<u, s>> \in links /\ IsActive(u))
                             /\ ticket'[u].status = ticket[u].status \/ ticket'[u].status \in {"in_progress", "resolved"}
    BY <1>4, WriteStoryRows, ZenonT(60)
  <2>2. QED
    BY <2>1 DEF WritesStatus, IsActive, TicketStatus
<1>5. ASSUME NEW s \in Story, createFromTicket(h, s)
      PROVE  WritesStatus(h, t)
  <2>1. PICK k \in Ticket :
           /\ k = req[h].row /\ pc[h] = "story_from_ticket" /\ Exists(k)
           /\ \A u \in Ticket \ {k} : ticket'[u] = ticket[u]
           /\ ticket' \in [Ticket -> TicketRow]
           /\ ticket'[k].status = "in_progress" /\ ticket'[k].assignee = ticket[k].assignee
           /\ ticket'[k].resolvedAt = ticket[k].resolvedAt
           /\ links' = links \cup {<<k, s>>}
           /\ story' = [story EXCEPT ![s] = [status |-> "backlog", completedAt |-> FALSE]]
           /\ Finish(h, {k}) /\ task' = task /\ told' = told
    BY <1>5, CreateFromTicketRows, ZenonT(60)
  <2>2. QED
    BY <2>1 DEF WritesStatus, Exists
<1>6. CASE ResolveFoundTickets(h)
  <2>1. PICK found \in SUBSET Ticket :
           /\ found = req[h].found /\ pc[h] = "resolve_tickets"
           /\ \A u \in found : ticket'[u].status = "resolved"
           /\ \A u \in Ticket \ found : ticket'[u] = ticket[u]
    BY <1>6, ResolveRows, SMTT(60)
  <2>2. CASE t \in found /\ h \notin overtaken
    BY <1>1, <2>1, <2>2 DEF KnowsRow, IsActive, WritesStatus, TicketStatus
  <2>3. QED
    BY <2>1, <2>2 DEF WritesStatus
<1>7. CASE StartMirror(h) \/ AnnounceTicket(h) \/ Abort(h)
  BY <1>7 DEF StartMirror, AnnounceTicket, Abort, WritesStatus, rows
<1>8. QED
  BY <1>2, <1>3, <1>4, <1>5, <1>6, <1>7 DEF Writes

\* For every set of tickets, stories, developers and handlers: no write that knew of
\* it opens a closed ticket again, and none makes begun work unbegun.
THEOREM FinishedStays == Spec => WorkStaysDone
<1> DEFINE Closed == \A t \in Ticket : ticket[t].status = "closed" /\ ticket'[t].status # "closed" =>
                       \E h \in Handler : pc'[h] = "idle" /\ (pc[h] = "story_from_ticket" \/ h \in overtaken)
           Begun == \A t \in Ticket : ticket[t].status # "none" /\ ticket[t].status # "open" /\ ticket'[t].status = "open" =>
                      \E h \in overtaken : pc'[h] = "idle"
<1>1. TypeOK /\ HeldInvariant /\ OvertakenOrKnows /\ [Next]_vars => Closed /\ Begun
  <2> SUFFICES ASSUME TypeOK, HeldInvariant, OvertakenOrKnows, [Next]_vars PROVE Closed /\ Begun
    OBVIOUS
  <2>1. ASSUME \A t \in Ticket : Exists(t) => ticket'[t].status = ticket[t].status
        PROVE  Closed /\ Begun
    BY <2>1 DEF Exists
  <2>2. ASSUME NEW h \in Handler, Writes(h)
        PROVE  Closed /\ Begun
    <3>1. CASE StartMirror(h)
      BY <2>1, <3>1 DEF StartMirror, rows
    <3>2. CASE ~ StartMirror(h)
      <4>1. pc'[h] = "idle"
        BY <2>2, <3>2 DEF TypeOK, Writes, WriteTicket, CommitTask, WriteStory, createFromTicket, ResolveFoundTickets,
             AnnounceTicket, Abort, Finish
      <4>2. \A t \in Ticket : WritesStatus(h, t)
        BY <2>2, StatusWrites
      <4>3. overtaken \subseteq Handler
        BY DEF TypeOK
      <4>4. Closed
        BY <4>1, <4>2 DEF WritesStatus
      <4>5. Begun
        BY <4>1, <4>2, <4>3 DEF WritesStatus
      <4>6. QED
        BY <4>4, <4>5
    <3>3. QED
      BY <3>1, <3>2
  <2>3. ASSUME NEW h \in Handler, Reads(h)
        PROVE  Closed /\ Begun
    BY <2>1, <2>3, ReadsBegin DEF Begin, rows
  <2>4. CASE Creates
    <3>1. ASSUME NEW t \in Ticket, NEW a \in Assignees, NEW incident, NEW website, NEW project,
                 NewTicket(t, a, incident, website, project)
          PROVE  Closed /\ Begun
      BY <2>1, <3>1 DEF TypeOK, NewTicket
    <3>2. QED
      BY <2>1, <2>4, <3>1 DEF Creates, create, createIncidentFlow, createInProject
  <2>5. CASE UNCHANGED vars
    BY <2>1, <2>5 DEF vars
  <2>6. QED
    BY <2>2, <2>3, <2>4, <2>5 DEF Next
<1>2. QED
  BY <1>1, HeldKept, Knows, PTL DEF Spec, WorkStaysDone, ClosedStaysClosed, NothingReopens

-----------------------------------------------------------------------------
(* Resolved tickets say when *)

\* A ticket with a resolution has its time; a handler that has seen the time is right.
TimeInvariant ==
  /\ ResolvedHasTime
  /\ \A h \in Handler : pc[h] = "update_ticket" /\ req[h].hadTime => ticket[req[h].row].resolvedAt

\* A write of a handler never forgets when a ticket was resolved, and says so
\* when it resolves one.
LEMMA WritesKeepTime ==
  ASSUME TypeOK, HeldInvariant, TimeInvariant, NEW h \in Handler, Writes(h), NEW t \in Ticket
  PROVE  /\ ticket[t].resolvedAt => ticket'[t].resolvedAt
         /\ Done(t)' => ticket'[t].resolvedAt
<1> DEFINE Goal == /\ ticket[t].resolvedAt => ticket'[t].resolvedAt
                   /\ Done(t)' => ticket'[t].resolvedAt
<1>1. ASSUME ticket'[t] = ticket[t]
      PROVE  Goal
  BY <1>1 DEF TimeInvariant, ResolvedHasTime, Done
<1>2. CASE WriteTicket(h)
  <2>1. PICK r \in Request("update_ticket") :
          /\ r = req[h] /\ r.row \in Ticket /\ pc[h] = "update_ticket"
          /\ ticket'[r.row].status = Given(r.status, ticket[r.row].status)
          /\ ticket'[r.row].resolvedAt =
               (ticket[r.row].resolvedAt \/ (r.status \in {"resolved", "closed"} /\ ~ r.hadTime))
          /\ \A u \in Ticket \ {r.row} : ticket'[u] = ticket[u]
    BY <1>2, WriteTicketRows, ZenonT(60)
  <2>2. CASE t = r.row
    <3>1. r.hadTime => ticket[t].resolvedAt
      BY <2>1, <2>2 DEF TimeInvariant
    <3>2. CASE r.status \in {"resolved", "closed"}
      BY <2>1, <2>2, <3>1, <3>2
    <3>3. CASE r.status \notin {"resolved", "closed"}
      <4>1. Done(t)' => Done(t)
        BY <2>1, <2>2, <3>3 DEF Done, Given
      <4>2. Done(t) => ticket[t].resolvedAt
        BY DEF TimeInvariant, ResolvedHasTime, Done
      <4>3. QED
        BY <2>1, <2>2, <4>1, <4>2
    <3>4. QED
      BY <3>2, <3>3
  <2>3. QED
    BY <1>1, <2>1, <2>2
<1>3. CASE CommitTask(h)
  <2>1. PICK k \in Ticket, r \in Request("mirror"), new \in TicketRow :
           /\ r = req[h] /\ k = r.row /\ HasTask(k) /\ Exists(k) /\ pc[h] = "mirror"
           /\ r.status \in TaskStatus /\ r.seen \in TicketStatus
           /\ new = syncTicketFromTask(r.status, r.seen, ticket[k])
           /\ ticket' = [ticket EXCEPT ![k] = new]
           /\ new.status # "none" /\ new.assignee = ticket[k].assignee
           /\ task' = [task EXCEPT ![k].status = r.status]
           /\ Finish(h, IF new = ticket[k] THEN {} ELSE {k})
           /\ told' = told /\ story' = story /\ links' = links
    BY <1>3, CommitTaskRows, ZenonT(60)
  <2>2. CASE t # k
    BY <1>1, <2>1, <2>2 DEF TypeOK
  <2>3. CASE t = k
    <3>1. PICK old \in TicketRow : old = ticket[t]
      BY DEF TypeOK
    <3>2. ticket'[t] = new
      BY <2>1, <2>3 DEF TypeOK
    <3>3. \/ new = old
          \/ new = [old EXCEPT !.status = "resolved", !.resolvedAt = TRUE]
          \/ new = [old EXCEPT !.status = "in_progress"]
      BY <2>1, <2>3, <3>1 DEF syncTicketFromTask
    <3>4. new # old => new.resolvedAt \/ (new.status = "in_progress" /\ new.resolvedAt = old.resolvedAt)
      BY <3>1, <3>3 DEF TicketRow
    <3>5. CASE new.resolvedAt
      BY <3>2, <3>5
    <3>6. CASE new = old
      BY <1>1, <3>1, <3>2, <3>6
    <3>7. CASE new.status = "in_progress" /\ new.resolvedAt = old.resolvedAt
      BY <3>1, <3>2, <3>7 DEF Done
    <3>8. QED
      BY <3>4, <3>5, <3>6, <3>7
  <2>4. QED
    BY <2>2, <2>3
<1>4. CASE WriteStory(h)
  <2>1. PICK s \in Story :
           \A u \in Ticket :
              /\ ticket'[u].status = ticket[u].status \/ ticket'[u].status \in {"in_progress", "resolved"}
              /\ ticket[u].resolvedAt => ticket'[u].resolvedAt
              /\ ticket'[u].status = "resolved" /\ ticket[u].status # "resolved" => ticket'[u].resolvedAt
    BY <1>4, WriteStoryRows, ZenonT(60)
  <2>2. Done(t) => ticket[t].resolvedAt
    BY DEF TimeInvariant, ResolvedHasTime, Done
  <2>3. QED
    BY <2>1, <2>2 DEF Done
<1>5. ASSUME NEW s \in Story, createFromTicket(h, s)
      PROVE  Goal
  <2>1. PICK k \in Ticket :
           /\ k = req[h].row /\ pc[h] = "story_from_ticket" /\ Exists(k)
           /\ \A u \in Ticket \ {k} : ticket'[u] = ticket[u]
           /\ ticket' \in [Ticket -> TicketRow]
           /\ ticket'[k].status = "in_progress" /\ ticket'[k].assignee = ticket[k].assignee
           /\ ticket'[k].resolvedAt = ticket[k].resolvedAt
           /\ links' = links \cup {<<k, s>>}
           /\ story' = [story EXCEPT ![s] = [status |-> "backlog", completedAt |-> FALSE]]
           /\ Finish(h, {k}) /\ task' = task /\ told' = told
    BY <1>5, CreateFromTicketRows, ZenonT(60)
  <2>2. QED
    BY <1>1, <2>1 DEF Done
<1>6. CASE ResolveFoundTickets(h)
  <2>1. PICK found \in SUBSET Ticket :
           /\ \A u \in found : ticket'[u].status = "resolved" /\ ticket'[u].resolvedAt
           /\ \A u \in Ticket \ found : ticket'[u] = ticket[u]
    BY <1>6, ResolveRows, ZenonT(60)
  <2>2. QED
    BY <1>1, <2>1
<1>7. CASE StartMirror(h) \/ AnnounceTicket(h) \/ Abort(h)
  BY <1>1, <1>7 DEF StartMirror, AnnounceTicket, Abort, rows
<1>8. QED
  BY <1>2, <1>3, <1>4, <1>5, <1>6, <1>7 DEF Writes

\* A resolved or closed ticket always says when it was resolved.
LEMMA TimeKept == Spec => []TimeInvariant
<1>1. Init => TimeInvariant
  BY DEF Init, TimeInvariant, ResolvedHasTime
<1>2. TypeOK /\ HeldInvariant /\ TimeInvariant /\ [Next]_vars => TimeInvariant'
  <2> SUFFICES ASSUME TypeOK, HeldInvariant, TimeInvariant, [Next]_vars PROVE TimeInvariant'
    OBVIOUS
  <2>1. ASSUME NEW t \in Ticket
        PROVE  /\ Exists(t) /\ ticket[t].resolvedAt => ticket'[t].resolvedAt
               /\ Done(t)' => ticket'[t].resolvedAt
    <3>1. Done(t) => ticket[t].resolvedAt
      BY DEF TimeInvariant, ResolvedHasTime, Done
    <3>2. CASE ticket'[t] = ticket[t]
      BY <3>1, <3>2 DEF Done
    <3>3. ASSUME NEW u \in Ticket, NEW a \in Assignees, NEW incident, NEW website, NEW project,
                 NewTicket(u, a, incident, website, project), u = t
          PROVE  ~ Exists(t) /\ ~ Done(t)'
      BY <3>3 DEF TypeOK, NewTicket, Done
    <3>4. ASSUME NEW u \in Ticket, NEW a \in Assignees, NEW incident, NEW website, NEW project,
                 NewTicket(u, a, incident, website, project), u # t
          PROVE  ticket'[t] = ticket[t]
      BY <3>4 DEF TypeOK, NewTicket
    <3>5. CASE Creates
      BY <3>2, <3>3, <3>4, <3>5 DEF Creates, create, createIncidentFlow, createInProject
    <3>6. ASSUME NEW h \in Handler, Reads(h)
          PROVE  ticket'[t] = ticket[t]
      BY <3>6, ReadsBegin DEF Begin, rows
    <3>7. ASSUME NEW h \in Handler, Writes(h)
          PROVE  /\ ticket[t].resolvedAt => ticket'[t].resolvedAt
                 /\ Done(t)' => ticket'[t].resolvedAt
      BY <3>7, WritesKeepTime
    <3>8. UNCHANGED vars => ticket'[t] = ticket[t]
      BY DEF vars
    <3>9. QED
      BY <3>2, <3>5, <3>6, <3>7, <3>8 DEF Next
  <2>2. ASSUME NEW g \in Handler, pc'[g] = "update_ticket", req'[g].hadTime
        PROVE  ticket'[req'[g].row].resolvedAt
    <3>1. CASE Stays(g)
      <4>1. PICK r \in Request("update_ticket") : r = req[g] /\ req'[g] = r /\ pc[g] = "update_ticket"
        BY <2>2, <3>1 DEF TypeOK, Stays
      <4>2. r.row \in Ticket
        BY DEF Request
      <4>3. Exists(r.row) /\ ticket[r.row].resolvedAt
        BY <2>2, <4>1 DEF HeldInvariant, HoldsRows, TimeInvariant
      <4>4. QED
        BY <2>1, <4>1, <4>2, <4>3
    <3>2. QED
      BY <2>2, <3>1, StaysOrMoves DEF UpToDate, StillTrue
  <2>3. QED
    BY <2>1, <2>2 DEF TimeInvariant, ResolvedHasTime, Done
<1>3. QED
  BY <1>1, <1>2, HeldKept, PTL DEF Spec

-----------------------------------------------------------------------------
(* A task follows its ticket *)

\* A task always has the assignee of its ticket, if the ticket has one.
LEMMA TaskFollows == Spec => []TaskFollowsAssignee
<1>1. Init => TaskFollowsAssignee
  BY DEF Init, TaskFollowsAssignee, HasTask
<1>2. TypeOK /\ HeldInvariant /\ TaskFollowsAssignee /\ [Next]_vars => TaskFollowsAssignee'
  <2> SUFFICES ASSUME TypeOK, HeldInvariant, TaskFollowsAssignee, [Next]_vars, NEW t \in Ticket,
                      HasTask(t)', ticket'[t].assignee # NoOne
               PROVE  task'[t].assignee = ticket'[t].assignee
    BY DEF TaskFollowsAssignee
  <2>1. ASSUME task'[t].assignee = task[t].assignee, ticket'[t].assignee = ticket[t].assignee, HasTask(t)
        PROVE  task'[t].assignee = ticket'[t].assignee
    BY <2>1 DEF TaskFollowsAssignee
  <2>2. ASSUME task'[t] = task[t], ticket'[t] = ticket[t]
        PROVE  task'[t].assignee = ticket'[t].assignee
    BY <2>1, <2>2 DEF HasTask
  <2>3. ASSUME NEW u \in Ticket, NEW a \in Assignees, NEW k \in Kinds, create(u, a, k[1], k[2], k[3])
        PROVE  task'[t].assignee = ticket'[t].assignee
    <3>1. /\ ~ Exists(u) /\ \A v \in Ticket \ {u} : ticket'[v] = ticket[v] /\ task'[v] = task[v]
          /\ ticket'[u].assignee = a
          /\ task' = task \/ task'[u].assignee = a
      BY <2>3 DEF TypeOK, create, NewTicket
    <3>2. u = t /\ task' = task => FALSE
      BY <3>1 DEF HeldInvariant, HasTask
    <3>3. QED
      BY <2>2, <3>1, <3>2
  <2>4. ASSUME NEW u \in Ticket, NEW a \in Assignees, NEW h \in Handler, createIncidentFlow(h, u, a)
        PROVE  task'[t].assignee = ticket'[t].assignee
    <3>1. /\ ~ Exists(u) /\ \A v \in Ticket \ {u} : ticket'[v] = ticket[v]
          /\ task' = task
      BY <2>4 DEF TypeOK, createIncidentFlow, NewTicket
    <3>2. u # t
      BY <3>1 DEF HeldInvariant, HasTask
    <3>3. QED
      BY <2>2, <3>1, <3>2
  <2>5. ASSUME NEW h \in Handler, WriteTicket(h)
        PROVE  task'[t].assignee = ticket'[t].assignee
    <3>1. PICK r \in Request("update_ticket") :
            /\ r.row \in Ticket
            /\ ticket'[r.row].assignee = Given(r.assignee, ticket[r.row].assignee)
            /\ \A u \in Ticket \ {r.row} : ticket'[u] = ticket[u]
            /\ task' = IF r.status # Unset \/ r.assignee # Unset \/ r.sla
                         THEN syncTaskFromTicket(r.row, ticket'[r.row]) ELSE task
      BY <2>5, WriteTicketRows, ZenonT(60)
    <3>2. CASE t # r.row
      <4>1. task'[t] = task[t]
        BY <3>1, <3>2 DEF TypeOK, syncTaskFromTicket
      <4>2. QED
        BY <2>2, <3>1, <3>2, <4>1
    <3>3. CASE t = r.row /\ task' = task /\ r.assignee = Unset
      BY <2>1, <3>1, <3>3 DEF Given, HasTask
    <3>4. CASE t = r.row /\ task' = syncTaskFromTicket(t, ticket'[t])
      BY <3>4 DEF TypeOK, syncTaskFromTicket, HasTask
    <3>5. QED
      BY <3>1, <3>2, <3>3, <3>4
  <2>6. ASSUME NEW h \in Handler, CommitTask(h)
        PROVE  task'[t].assignee = ticket'[t].assignee
    <3>1. PICK k \in Ticket, r \in Request("mirror"), new \in TicketRow :
           /\ r = req[h] /\ k = r.row /\ HasTask(k) /\ Exists(k) /\ pc[h] = "mirror"
           /\ r.status \in TaskStatus /\ r.seen \in TicketStatus
           /\ new = syncTicketFromTask(r.status, r.seen, ticket[k])
           /\ ticket' = [ticket EXCEPT ![k] = new]
           /\ new.status # "none" /\ new.assignee = ticket[k].assignee
           /\ task' = [task EXCEPT ![k].status = r.status]
           /\ Finish(h, IF new = ticket[k] THEN {} ELSE {k})
           /\ told' = told /\ story' = story /\ links' = links
      BY <2>6, CommitTaskRows, ZenonT(60)
    <3>2. task'[t].assignee = task[t].assignee
      BY <3>1 DEF TypeOK
    <3>3. ticket'[t].assignee = ticket[t].assignee /\ HasTask(t)
      BY <3>1 DEF TypeOK, HasTask
    <3>4. QED
      BY <2>1, <3>2, <3>3
  <2>7. ASSUME NEW h \in Handler, WriteStory(h)
        PROVE  task'[t].assignee = ticket'[t].assignee
    <3>1. ticket'[t].assignee = ticket[t].assignee /\ task' = task
      BY <2>7, WriteStoryRows, ZenonT(60)
    <3>2. QED
      BY <2>1, <3>1 DEF HasTask
  <2>8. ASSUME NEW h \in Handler, NEW s \in Story, createFromTicket(h, s)
        PROVE  task'[t].assignee = ticket'[t].assignee
    <3>1. ticket'[t].assignee = ticket[t].assignee /\ task' = task
      BY <2>8, CreateFromTicketRows, ZenonT(60)
    <3>2. QED
      BY <2>1, <3>1 DEF HasTask
  <2>9. ASSUME NEW h \in Handler, ResolveFoundTickets(h)
        PROVE  task'[t].assignee = ticket'[t].assignee
    <3>1. PICK found \in SUBSET Ticket :
            /\ \A u \in found : ticket'[u].assignee = ticket[u].assignee
            /\ \A u \in Ticket \ found : ticket'[u] = ticket[u] /\ task'[u] = task[u]
            /\ \A u \in found : /\ HasTask(u)' <=> HasTask(u)
                                /\ task'[u].assignee = task[u].assignee
      BY <2>9, ResolveRows, ZenonT(60)
    <3>2. QED
      BY <2>1, <2>2, <3>1
  <2>10. ASSUME UNCHANGED rows
         PROVE  task'[t].assignee = ticket'[t].assignee
    BY <2>2, <2>10 DEF rows
  <2>11. ASSUME NEW h \in Handler, Reads(h)
         PROVE  UNCHANGED rows
    BY <2>11, ReadsBegin DEF Begin
  <2>12. ASSUME NEW h \in Handler, StartMirror(h) \/ AnnounceTicket(h) \/ Abort(h)
         PROVE  UNCHANGED rows
    BY <2>12 DEF StartMirror, AnnounceTicket, Abort
  <2>13. ASSUME NEW s \in Story, createInProject(s)
         PROVE  task'[t].assignee = ticket'[t].assignee
    BY <2>2, <2>13 DEF createInProject
  <2>14. UNCHANGED vars => UNCHANGED rows
    BY DEF vars, rows
  <2>15. QED
    BY <2>3, <2>4, <2>5, <2>6, <2>7, <2>8, <2>9, <2>10, <2>11, <2>12, <2>13, <2>14 DEF Next, Creates, Writes
<1>3. QED
  BY <1>1, <1>2, HeldKept, PTL DEF Spec

\* A handler is between a task and its ticket; a ticket is done or has a story.
Mirrors(h, t) == pc[h] = "mirror" /\ req[h].row = t
Over(t) == Done(t) \/ HasStory(t)

\* The one handler between a task and its ticket is right about a ticket it saw done.
DoneInvariant ==
  /\ DoneTaskDoneTicket
  /\ \A g, h \in Handler, t \in Ticket : Mirrors(g, t) /\ Mirrors(h, t) => g = h
  /\ \A h \in Handler, t \in Ticket : Mirrors(h, t) /\ req[h].seen \in {"resolved", "closed"} => Over(t)

\* What is over stays so, unless the ticket or its task is patched.
LEMMA WritesKeepOver ==
  ASSUME TypeOK, HeldInvariant, DoneInvariant, NEW h \in Handler, Writes(h), NEW t \in Ticket
  PROVE  /\ Over(t) /\ (\E g \in Handler : g # h /\ Mirrors(g, t)) => Over(t)'
         /\ task'[t].status = "done" => Over(t)'
<1> DEFINE Other == \E g \in Handler : g # h /\ Mirrors(g, t)
           Goal == /\ Over(t) /\ Other => Over(t)'
                   /\ task'[t].status = "done" => Over(t)'
<1>1. task[t].status = "done" => Over(t)
  BY DEF DoneInvariant, DoneTaskDoneTicket, Over, Done, HasStory
<1>2. ASSUME task'[t] = task[t], Over(t) => Over(t)'
      PROVE  Goal
  BY <1>1, <1>2
<1>3. CASE WriteTicket(h)
  <2>1. PICK r \in Request("update_ticket") :
          /\ r.row \in Ticket /\ pc[h] = "update_ticket"
          /\ ticket' \in [Ticket -> TicketRow] /\ ticket'[r.row].status # "none"
          /\ ticket'[r.row].status = Given(r.status, ticket[r.row].status)
          /\ \A u \in Ticket \ {r.row} : ticket'[u] = ticket[u]
          /\ TaskUnlocked(r.row)
          /\ task' = IF r.status # Unset \/ r.assignee # Unset \/ r.sla
                       THEN syncTaskFromTicket(r.row, ticket'[r.row]) ELSE task
          /\ links' = links
    BY <1>3, WriteTicketRows, ZenonT(60)
  <2>2. CASE t # r.row
    <3>1. task'[t] = task[t]
      BY <2>1, <2>2 DEF TypeOK, syncTaskFromTicket
    <3>2. Over(t) => Over(t)'
      BY <2>1, <2>2 DEF Over, Done, HasStory
    <3>3. QED
      BY <1>2, <3>1, <3>2
  <2>3. CASE t = r.row
    <3>1. ~ Other
      BY <2>1, <2>3 DEF TaskUnlocked, Mirrors
    <3>2. CASE task' = task /\ r.status = Unset
      BY <1>2, <2>1, <2>3, <3>2 DEF Over, Done, HasStory, Given
    <3>3. CASE task' = syncTaskFromTicket(t, ticket'[t])
      <4>1. CASE HasTask(t)
        <5>1. task'[t].status = taskStatusFromTicket(ticket'[t].status)
          BY <3>3, <4>1 DEF TypeOK, syncTaskFromTicket
        <5>2. task'[t].status = "done" => Done(t)'
          BY <5>1 DEF taskStatusFromTicket, Done
        <5>3. QED
          BY <3>1, <5>2 DEF Over
      <4>2. CASE ~ HasTask(t)
        BY <3>1, <3>3, <4>2 DEF syncTaskFromTicket, HasTask
      <4>3. QED
        BY <4>1, <4>2
    <3>4. QED
      BY <2>1, <2>3, <3>2, <3>3
  <2>4. QED
    BY <2>2, <2>3
<1>4. CASE CommitTask(h)
  <2>1. PICK k \in Ticket, r \in Request("mirror"), new \in TicketRow :
           /\ r = req[h] /\ k = r.row /\ HasTask(k) /\ Exists(k) /\ pc[h] = "mirror"
           /\ r.status \in TaskStatus /\ r.seen \in TicketStatus
           /\ new = syncTicketFromTask(r.status, r.seen, ticket[k])
           /\ ticket' = [ticket EXCEPT ![k] = new]
           /\ new.status # "none" /\ new.assignee = ticket[k].assignee
           /\ task' = [task EXCEPT ![k].status = r.status]
           /\ Finish(h, IF new = ticket[k] THEN {} ELSE {k})
           /\ told' = told /\ story' = story /\ links' = links
    BY <1>4, CommitTaskRows, ZenonT(60)
  <2>2. CASE t # k
    <3>1. task'[t] = task[t] /\ ticket'[t] = ticket[t]
      BY <2>1, <2>2 DEF TypeOK
    <3>2. QED
      BY <1>2, <2>1, <3>1 DEF Over, Done, HasStory
  <2>3. CASE t = k
    <3>1. Mirrors(h, t)
      BY <2>1, <2>3 DEF Mirrors
    <3>2. ~ Other
      BY <3>1 DEF DoneInvariant
    <3>3. task'[t].status = r.status /\ ticket'[t] = new
      BY <2>1, <2>3 DEF TypeOK
    <3>4. CASE r.status = "done" /\ r.seen \notin {"closed", "resolved"}
      <4>1. new.status = "resolved"
        BY <2>1, <2>3, <3>4 DEF syncTicketFromTask, TypeOK, TicketRow
      <4>2. QED
        BY <3>2, <3>3, <4>1 DEF Over, Done
    <3>5. CASE r.status = "done" /\ r.seen \in {"closed", "resolved"}
      <4>1. new = ticket[t]
        BY <2>1, <2>3, <3>5 DEF syncTicketFromTask
      <4>2. Over(t)
        BY <2>1, <3>1, <3>5 DEF DoneInvariant
      <4>3. QED
        BY <2>1, <3>3, <4>1, <4>2 DEF Over, Done, HasStory
    <3>6. CASE r.status # "done"
      BY <3>2, <3>3, <3>6
    <3>7. QED
      BY <3>4, <3>5, <3>6
  <2>4. QED
    BY <2>2, <2>3
<1>5. CASE WriteStory(h)
  <2>1. /\ ticket[t].status = "closed" => ticket'[t].status = "closed"
        /\ ticket[t].status = "resolved" => ticket'[t].status = "resolved"
        /\ task' = task /\ links' = links
    BY <1>5, WriteStoryRows, ZenonT(60)
  <2>2. QED
    BY <1>2, <2>1 DEF Over, Done, HasStory
<1>6. ASSUME NEW s \in Story, createFromTicket(h, s)
      PROVE  Goal
  <2>1. PICK k \in Ticket :
           /\ k = req[h].row /\ pc[h] = "story_from_ticket" /\ Exists(k)
           /\ \A u \in Ticket \ {k} : ticket'[u] = ticket[u]
           /\ ticket' \in [Ticket -> TicketRow]
           /\ ticket'[k].status = "in_progress" /\ ticket'[k].assignee = ticket[k].assignee
           /\ ticket'[k].resolvedAt = ticket[k].resolvedAt
           /\ links' = links \cup {<<k, s>>}
           /\ story' = [story EXCEPT ![s] = [status |-> "backlog", completedAt |-> FALSE]]
           /\ Finish(h, {k}) /\ task' = task /\ told' = told
    BY <1>6, CreateFromTicketRows, ZenonT(60)
  <2>2. Over(t) => Over(t)'
    BY <2>1 DEF Over, Done, HasStory
  <2>3. QED
    BY <1>2, <2>1, <2>2
<1>7. CASE ResolveFoundTickets(h)
  <2>1. PICK found \in SUBSET Ticket :
           /\ \A u \in found : ticket'[u].status = "resolved"
           /\ \A u \in Ticket \ found : ticket'[u] = ticket[u] /\ task'[u] = task[u]
           /\ links' = links
    BY <1>7, ResolveRows, ZenonT(60)
  <2>2. CASE t \in found
    BY <2>1, <2>2 DEF Over, Done
  <2>3. CASE t \notin found
    BY <1>2, <2>1, <2>3 DEF Over, Done, HasStory
  <2>4. QED
    BY <2>2, <2>3
<1>8. CASE StartMirror(h) \/ AnnounceTicket(h) \/ Abort(h)
  BY <1>2, <1>8 DEF StartMirror, AnnounceTicket, Abort, rows, Over, Done, HasStory
<1>9. QED
  BY <1>3, <1>4, <1>5, <1>6, <1>7, <1>8 DEF Writes

\* A done task always belongs to a ticket that is done or has a story.
LEMMA DoneKept == Spec => []DoneInvariant
<1>1. Init => DoneInvariant
  BY DEF Init, DoneInvariant, DoneTaskDoneTicket, Mirrors
<1>2. TypeOK /\ HeldInvariant /\ DoneInvariant /\ [Next]_vars => DoneInvariant'
  <2> SUFFICES ASSUME TypeOK, HeldInvariant, DoneInvariant, [Next]_vars PROVE DoneInvariant'
    OBVIOUS
  <2>1. ASSUME NEW t \in Ticket
        PROVE  task[t].status = "done" => Over(t)
    BY DEF DoneInvariant, DoneTaskDoneTicket, Over, Done, HasStory
  <2>2. ASSUME NEW t \in Ticket, NEW a \in Assignees, NEW incident, NEW website, NEW project,
               NewTicket(t, a, incident, website, project), links' = links,
               \A u \in Ticket : task'[u] = task[u] \/ task'[u].status = "pending"
        PROVE  \A u \in Ticket : /\ task'[u].status = "done" => Over(u)'
                                 /\ HasTask(u) /\ Over(u) => Over(u)'
    <3>1. /\ ~ Exists(t) /\ \A u \in Ticket \ {t} : ticket'[u] = ticket[u]
      BY <2>2 DEF TypeOK, NewTicket
    <3>2. ~ HasTask(t)
      BY <3>1 DEF HeldInvariant
    <3>3. \A u \in Ticket \ {t} : Over(u) => Over(u)'
      BY <2>2, <3>1 DEF Over, Done, HasStory
    <3>4. task'[t].status # "done"
      BY <2>2, <3>2 DEF HasTask
    <3>5. QED
      BY <2>1, <2>2, <3>2, <3>3, <3>4
  <2>3. CASE Creates
    <3>1. \A u \in Ticket : /\ task'[u].status = "done" => Over(u)'
                            /\ HasTask(u) /\ Over(u) => Over(u)'
      <4>1. ASSUME NEW t \in Ticket, NEW a \in Assignees, NEW k \in Kinds, create(t, a, k[1], k[2], k[3])
            PROVE  \A u \in Ticket : /\ task'[u].status = "done" => Over(u)'
                                     /\ HasTask(u) /\ Over(u) => Over(u)'
        <5>1. \A u \in Ticket : task'[u] = task[u] \/ task'[u].status = "pending"
          BY <4>1 DEF TypeOK, create
        <5>2. QED
          BY <2>2, <4>1, <5>1 DEF create
      <4>2. ASSUME NEW t \in Ticket, NEW a \in Assignees, NEW h \in Handler, createIncidentFlow(h, t, a)
            PROVE  \A u \in Ticket : /\ task'[u].status = "done" => Over(u)'
                                     /\ HasTask(u) /\ Over(u) => Over(u)'
        BY <2>2, <4>2 DEF createIncidentFlow
      <4>3. ASSUME NEW s \in Story, createInProject(s)
            PROVE  \A u \in Ticket : /\ task'[u].status = "done" => Over(u)'
                                     /\ HasTask(u) /\ Over(u) => Over(u)'
        BY <2>1, <4>3 DEF createInProject, Over, Done, HasStory
      <4>4. QED
        BY <2>3, <4>1, <4>2, <4>3 DEF Creates
    <3>2. \A h \in Handler : pc'[h] = "mirror" => Stays(h)
      BY <2>3 DEF TypeOK, HeldInvariant, Creates, create, createIncidentFlow, createInProject, Stays
    <3>3. ASSUME NEW h \in Handler, NEW t \in Ticket, Mirrors(h, t)'
          PROVE  Mirrors(h, t) /\ HasTask(t) /\ req'[h] = req[h]
      BY <3>2, <3>3 DEF Mirrors, Stays, HeldInvariant, HoldsRows
    <3>4. QED
      BY <3>1, <3>3 DEF DoneInvariant, DoneTaskDoneTicket, Over, Done, HasStory
  <2>4. ASSUME NEW h \in Handler, Reads(h)
        PROVE  DoneInvariant'
    <3>1. PICK at, r : at \in Positions \ {"mirror"} /\ Begin(h, at, r)
      BY <2>4, ReadsBegin DEF Reading
    <3>2. ASSUME NEW g \in Handler, NEW t \in Ticket, Mirrors(g, t)'
          PROVE  Mirrors(g, t) /\ req'[g] = req[g]
      BY <3>1, <3>2 DEF TypeOK, HeldInvariant, Begin, Mirrors
    <3>3. \A t \in Ticket : Over(t) => Over(t)'
      BY <3>1 DEF Begin, rows, Over, Done, HasStory
    <3>4. task' = task
      BY <3>1 DEF Begin, rows
    <3>5. QED
      BY <2>1, <3>2, <3>3, <3>4 DEF DoneInvariant, DoneTaskDoneTicket, Over, Done, HasStory
  <2>5. ASSUME NEW h \in Handler, StartMirror(h)
        PROVE  DoneInvariant'
    <3>1. PICK q \in Request("update_task") : q = req[h]
      BY <2>5 DEF TypeOK, StartMirror
    <3>2. q.row \in Ticket
      BY DEF Request
    <3>3. /\ pc' = [pc EXCEPT ![h] = "mirror"] /\ TaskUnlocked(q.row)
          /\ req'[h] = [row |-> q.row, status |-> q.status, seen |-> ticket[q.row].status]
          /\ \A g \in Handler \ {h} : req'[g] = req[g]
          /\ ticket' = ticket /\ task' = task /\ links' = links
      BY <2>5, <3>1 DEF HeldInvariant, StartMirror, rows
    <3>4. ASSUME NEW g \in Handler, NEW t \in Ticket, Mirrors(g, t)', g # h
          PROVE  Mirrors(g, t) /\ req'[g] = req[g] /\ t # q.row
      BY <3>3, <3>4 DEF TypeOK, Mirrors, TaskUnlocked
    <3>5. \A t \in Ticket : Mirrors(h, t)' => t = q.row
      BY <3>3 DEF Mirrors
    <3>6. \A t \in Ticket : Over(t) <=> Over(t)'
      BY <3>3 DEF Over, Done, HasStory
    <3>7. req'[h].seen \in {"resolved", "closed"} => Over(q.row)'
      BY <3>3, <3>6 DEF Over, Done
    <3>8. \A g, f \in Handler, t \in Ticket : Mirrors(g, t)' /\ Mirrors(f, t)' => g = f
      BY <3>4, <3>5 DEF DoneInvariant
    <3>9. \A g \in Handler, t \in Ticket : Mirrors(g, t)' /\ req'[g].seen \in {"resolved", "closed"} => Over(t)'
      BY <3>4, <3>5, <3>6, <3>7 DEF DoneInvariant
    <3>10. DoneTaskDoneTicket'
      BY <2>1, <3>3, <3>6 DEF DoneTaskDoneTicket, Over, Done, HasStory
    <3>11. QED
      BY <3>8, <3>9, <3>10 DEF DoneInvariant
  <2>6. ASSUME NEW h \in Handler, Writes(h), ~ StartMirror(h)
        PROVE  DoneInvariant'
    <3>1. Moves(h, "idle", NoRequest)
      BY <2>6 DEF Writes, WriteTicket, CommitTask, WriteStory, createFromTicket, ResolveFoundTickets,
           AnnounceTicket, Abort, Finish, Moves
    <3>2. ASSUME NEW g \in Handler, NEW t \in Ticket, Mirrors(g, t)'
          PROVE  g # h /\ Mirrors(g, t) /\ req'[g] = req[g]
      BY <3>1, <3>2 DEF TypeOK, HeldInvariant, Moves, Mirrors
    <3>3. ASSUME NEW t \in Ticket
          PROVE  /\ Over(t) /\ (\E g \in Handler : g # h /\ Mirrors(g, t)) => Over(t)'
                 /\ task'[t].status = "done" => Over(t)'
      BY <2>6, WritesKeepOver
    <3>4. QED
      BY <3>2, <3>3 DEF DoneInvariant, DoneTaskDoneTicket, Over, Done, HasStory
  <2>7. CASE UNCHANGED vars
    BY <2>7 DEF vars, DoneInvariant, DoneTaskDoneTicket, Mirrors, Over, Done, HasStory
  <2>8. QED
    BY <2>3, <2>4, <2>5, <2>6, <2>7 DEF Next
<1>3. QED
  BY <1>1, <1>2, HeldKept, PTL DEF Spec

-----------------------------------------------------------------------------
(* Completion and announcements *)

\* A race that happened is not forgotten, and who wrote after being overtaken
\* has raced.
LEMMA RacesStay ==
  ASSUME TypeOK, HeldInvariant, [Next]_vars
  PROVE  raced \subseteq raced'
<1>1. ASSUME NEW h \in Handler, Reads(h)
      PROVE  raced' = raced
  BY <1>1, ReadsBegin DEF Begin
<1>2. ASSUME NEW h \in Handler, Writes(h)
      PROVE  raced \subseteq raced'
  BY <1>2, WritesOvertake DEF Overtakes, StartMirror, Abort, Finish
<1>3. Creates => raced' = raced
  BY DEF Creates, create, createIncidentFlow, createInProject
<1>4. QED
  BY <1>1, <1>2, <1>3 DEF Next, vars

\* A story is completed when done; a handler that was given a status will write it.
CompletedInvariant ==
  /\ CompletedWhenDone
  /\ \A h \in Handler : pc[h] = "update_story" /\ req[h].status # Unset => req[h].next = req[h].status

\* A row that records its completion as the code does shows it by its status.
LEMMA CompletionRecorded ==
  ASSUME NEW row, NEW status, row = [status |-> status, completedAt |-> status = "done"]
  PROVE  row.completedAt <=> row.status = "done"
OBVIOUS

\* A story is always completed exactly when done, unless two edits of it raced.
LEMMA CompletionKept == Spec => []CompletedInvariant
<1>1. Init => CompletedInvariant
  BY DEF Init, CompletedInvariant, CompletedWhenDone
<1>2. TypeOK /\ HeldInvariant /\ OvertakenOrKnows /\ CompletedInvariant /\ [Next]_vars => CompletedInvariant'
  <2> SUFFICES ASSUME TypeOK, HeldInvariant, OvertakenOrKnows, CompletedInvariant, [Next]_vars
               PROVE  CompletedInvariant'
    OBVIOUS
  <2>1. ASSUME NEW h \in Handler, pc'[h] = "update_story", req'[h].status # Unset
        PROVE  req'[h].next = req'[h].status
    BY <2>1, StaysOrMoves DEF Stays, UpToDate, StillTrue, CompletedInvariant
  <2>2. ASSUME NEW s \in Story, s \notin raced'
        PROVE  story'[s].completedAt <=> story'[s].status = "done"
    <3>1. s \notin raced
      BY <2>2, RacesStay
    <3>2. ASSUME story'[s] = story[s]
          PROVE  story'[s].completedAt <=> story'[s].status = "done"
      BY <3>1, <3>2 DEF CompletedInvariant, CompletedWhenDone
    <3>3. ASSUME NEW z \in Story, story' = [story EXCEPT ![z] = [status |-> "backlog", completedAt |-> FALSE]]
          PROVE  story'[s].completedAt <=> story'[s].status = "done"
      BY <3>2, <3>3 DEF TypeOK
    <3>4. ASSUME NEW h \in Handler, WriteStory(h)
          PROVE  story'[s].completedAt <=> story'[s].status = "done"
      <4>1. PICK z \in Story, r \in Request("update_story") :
              /\ r = req[h] /\ z = r.row /\ pc[h] = "update_story"
              /\ r.status \in UserStoryStatus \cup {Unset} /\ r.next \in UserStoryStatus
              /\ story' = [story EXCEPT ![z] = [status |-> Given(r.status, story[z].status), completedAt |-> r.next = "done"]]
              /\ Finish(h, {z} \cup { t \in Ticket : ticket'[t] # ticket[t] })
        BY <3>4, WriteStoryRows, ZenonT(60)
      <4>2. CASE s # z
        BY <3>2, <4>1, <4>2 DEF TypeOK
      <4>3. CASE s = z
        <5>1. h \notin overtaken
          BY <2>2, <4>1, <4>3 DEF Finish
        <5>2. r.status = Unset => story[z].status = r.next
          BY <4>1, <5>1 DEF OvertakenOrKnows, KnowsRow
        <5>3. r.status # Unset => r.next = r.status
          BY <4>1 DEF CompletedInvariant
        <5>4. Given(r.status, story[z].status) = r.next
          BY <5>2, <5>3 DEF Given
        <5>5. story'[s] = [status |-> r.next, completedAt |-> r.next = "done"]
          BY <4>1, <4>3, <5>4 DEF TypeOK
        <5>6. QED
          BY <5>5, CompletionRecorded, Zenon
      <4>4. QED
        BY <4>2, <4>3
    <3>5. ASSUME NEW h \in Handler, Writes(h), ~ WriteStory(h)
          PROVE  story' = story \/ \E z \in Story : createFromTicket(h, z)
      BY <3>5 DEF Writes, WriteTicket, StartMirror, CommitTask, ResolveFoundTickets, AnnounceTicket, Abort, rows
    <3>6. ASSUME NEW h \in Handler, Reads(h)
          PROVE  story' = story
      BY <3>6, ReadsBegin DEF Begin, rows
    <3>7. Creates => story' = story \/ \E z \in Story : createInProject(z)
      BY DEF Creates, create, createIncidentFlow
    <3>8. UNCHANGED vars => story' = story
      BY DEF vars
    <3>9. QED
      BY <3>2, <3>3, <3>4, <3>5, <3>6, <3>7, <3>8 DEF Next, createInProject, createFromTicket
  <2>3. QED
    BY <2>1, <2>2 DEF CompletedInvariant, CompletedWhenDone
<1>3. QED
  BY <1>1, <1>2, HeldKept, Knows, PTL DEF Spec

\* After every write of the five writers, in whatever order they come, a ticket,
\* its task and its stories agree: a resolved ticket says when, a task has its
\* ticket's assignee, a done task a ticket that is done or has a story, and a
\* story is completed when done unless two edits of it raced.
THEOREM TicketsAgree == Spec => []RowsAgree
<1>1. TypeOK /\ TimeInvariant /\ TaskFollowsAssignee /\ DoneInvariant /\ CompletedInvariant => RowsAgree
  BY DEF RowsAgree, TimeInvariant, DoneInvariant, CompletedInvariant
<1>2. QED
  BY <1>1, HeldKept, TimeKept, TaskFollows, DoneKept, CompletionKept, PTL

-----------------------------------------------------------------------------
(* The assignee was told *)

\* A handler is about to tell the assignee of a new ticket, or none is.
Announcing(h, t) == pc[h] = "announce" /\ req[h].row = t
Silent(t) == \A h \in Handler : ~ Announcing(h, t)

\* The announcement of a ticket is pending until its handler ends.
LEMMA SilenceEnds ==
  ASSUME TypeOK, HeldInvariant, [Next]_vars, NEW t \in Ticket, Silent(t)', ~ Silent(t), t \notin raced'
  PROVE  \E h \in Handler : AnnounceTicket(h) /\ Announcing(h, t)
<1>1. PICK h \in Handler : Announcing(h, t)
  BY DEF Silent
<1>2. ~ Stays(h)
  BY <1>1 DEF Silent, Announcing, Stays
<1>3. ASSUME NEW f \in Handler, Reads(f)
      PROVE  FALSE
  <2>1. f # h
    BY <1>1, <1>3, ReadsBegin DEF Begin, Announcing
  <2>2. QED
    BY <1>2, <1>3, <2>1, ReadsBegin DEF TypeOK, HeldInvariant, Begin, Stays
<1>4. ASSUME NEW f \in Handler, Writes(f), f # h
      PROVE  FALSE
  <2>1. \E at, r : Moves(f, at, r)
    BY <1>4 DEF Writes, WriteTicket, CommitTask, WriteStory, createFromTicket, ResolveFoundTickets,
         AnnounceTicket, Abort, Finish, Moves, StartMirror
  <2>2. QED
    BY <1>2, <1>4, <2>1 DEF TypeOK, HeldInvariant, Moves, Stays
<1>5. ~ Creates
  BY <1>1, <1>2 DEF TypeOK, HeldInvariant, Creates, create, createIncidentFlow, createInProject, Stays, Announcing
<1>6. Writes(h) => AnnounceTicket(h)
  BY <1>1 DEF Writes, WriteTicket, StartMirror, CommitTask, WriteStory, createFromTicket, ResolveFoundTickets,
       Abort, Announcing
<1>7. QED
  BY <1>1, <1>2, <1>3, <1>4, <1>5, <1>6 DEF Next, vars, Stays

\* Unless two edits of a ticket raced, or the worker has yet to announce it, its
\* assignee was told last, and nobody else believes to have it.
THEOREM AssigneeTold == Spec => []AssigneeWasTold
<1>1. Init => AssigneeWasTold
  BY DEF Init, AssigneeWasTold, Exists
<1>2. TypeOK /\ HeldInvariant /\ OvertakenOrKnows /\ AssigneeWasTold /\ [Next]_vars => AssigneeWasTold'
  <2> SUFFICES ASSUME TypeOK, HeldInvariant, OvertakenOrKnows, AssigneeWasTold, [Next]_vars,
                      NEW t \in Ticket, Exists(t)', t \notin raced', Silent(t)'
               PROVE  told'[t] = {ticket'[t].assignee} \ {NoOne}
    BY DEF AssigneeWasTold, Silent, Announcing
  <2>1. t \notin raced
    BY RacesStay
  <2>2. ASSUME Exists(t), Silent(t)
        PROVE  told[t] = {ticket[t].assignee} \ {NoOne}
    BY <2>1, <2>2 DEF AssigneeWasTold, Silent, Announcing
  <2>3. CASE ~ Silent(t)
    <3>1. PICK h \in Handler : AnnounceTicket(h) /\ Announcing(h, t)
      BY <2>3, SilenceEnds
    <3>2. PICK k \in Ticket, d \in Developer :
           /\ k = req[h].row /\ d = req[h].assignee /\ pc[h] = "announce" /\ Exists(k)
           /\ told' \in [Ticket -> SUBSET Developer]
           /\ told'[k] = told[k] \cup {d} /\ \A u \in Ticket \ {k} : told'[u] = told[u]
           /\ Finish(h, {k}) /\ ticket' = ticket /\ task' = task /\ story' = story /\ links' = links
      BY <3>1, AnnounceRows, ZenonT(60)
    <3>3. k = t
      BY <3>1, <3>2 DEF Announcing
    <3>4. h \notin overtaken
      BY <3>2, <3>3 DEF Finish
    <3>5. ticket[t].assignee = d /\ told[t] = {}
      BY <3>2, <3>3, <3>4 DEF OvertakenOrKnows, KnowsRow
    <3>6. d # NoOne
      BY NamesAssumption
    <3>7. QED
      BY <3>2, <3>3, <3>5, <3>6
  <2>4. ASSUME Silent(t), Exists(t), told'[t] = told[t], ticket'[t].assignee = ticket[t].assignee
        PROVE  told'[t] = {ticket'[t].assignee} \ {NoOne}
    BY <2>2, <2>4
  <2>5. ASSUME ticket'[t] = ticket[t], told'[t] = told[t], Silent(t)
        PROVE  told'[t] = {ticket'[t].assignee} \ {NoOne}
    BY <2>4, <2>5 DEF Exists
  <2>6. ASSUME NEW u \in Ticket, NEW a \in Assignees, NEW k \in Kinds, create(u, a, k[1], k[2], k[3]), Silent(t)
        PROVE  told'[t] = {ticket'[t].assignee} \ {NoOne}
    <3>1. /\ ~ Exists(u) /\ \A v \in Ticket \ {u} : ticket'[v] = ticket[v] /\ told'[v] = told[v]
          /\ ticket'[u].assignee = a /\ told'[u] = told[u] \cup ({a} \ {NoOne})
      BY <2>6 DEF TypeOK, create, NewTicket
    <3>2. told[u] = {}
      BY <3>1 DEF HeldInvariant
    <3>3. QED
      BY <2>5, <2>6, <3>1, <3>2
  <2>7. ASSUME NEW u \in Ticket, NEW a \in Assignees, NEW h \in Handler, createIncidentFlow(h, u, a), Silent(t)
        PROVE  told'[t] = {ticket'[t].assignee} \ {NoOne}
    <3>1. /\ ~ Exists(u) /\ \A v \in Ticket \ {u} : ticket'[v] = ticket[v]
          /\ told' = told /\ ticket'[u].assignee = a
      BY <2>7 DEF TypeOK, createIncidentFlow, NewTicket
    <3>2. told[u] = {}
      BY <3>1 DEF HeldInvariant
    <3>3. CASE a = NoOne
      BY <2>5, <2>7, <3>1, <3>2, <3>3
    <3>4. CASE a # NoOne
      <4>1. Moves(h, "announce", [row |-> u, assignee |-> a])
        BY <2>7, <3>4 DEF createIncidentFlow, Moves
      <4>4. pc'[h] = "announce" /\ req'[h] = [row |-> u, assignee |-> a]
        BY <4>1, MoverMoves DEF Positions
      <4>2. u # t
        BY <4>4 DEF Silent, Announcing
      <4>3. QED
        BY <2>5, <2>7, <3>1, <4>2
    <3>5. QED
      BY <3>3, <3>4
  <2>8. ASSUME NEW h \in Handler, WriteTicket(h), Silent(t)
        PROVE  told'[t] = {ticket'[t].assignee} \ {NoOne}
    <3>1. PICK r \in Request("update_ticket") :
            /\ r = req[h] /\ r.row \in Ticket /\ Exists(r.row) /\ pc[h] = "update_ticket"
            /\ ticket'[r.row].assignee = Given(r.assignee, ticket[r.row].assignee)
            /\ \A u \in Ticket \ {r.row} : ticket'[u] = ticket[u]
            /\ told' = IF r.assignee # Unset /\ r.assignee # r.was
                         THEN notifyTicketReassignment(r.row, r.was, ticket'[r.row].assignee) ELSE told
            /\ Finish(h, {r.row})
      BY <2>8, WriteTicketRows, ZenonT(60)
    <3>2. CASE t # r.row
      <4>1. told'[t] = told[t]
        BY <3>1, <3>2 DEF TypeOK, notifyTicketReassignment
      <4>2. QED
        BY <2>5, <2>8, <3>1, <3>2, <4>1
    <3>3. CASE t = r.row
      <4>1. h \notin overtaken
        BY <3>1, <3>3 DEF Finish
      <4>2. ticket[t].assignee = r.was
        BY <3>1, <3>3, <4>1 DEF OvertakenOrKnows, KnowsRow
      <4>3. told[t] = {r.was} \ {NoOne}
        BY <2>2, <2>8, <3>1, <3>3, <4>2
      <4>4. CASE r.assignee # Unset /\ r.assignee # r.was
        <5>1. ticket'[t].assignee = r.assignee
          BY <3>1, <3>3, <4>4 DEF Given
        <5>2. told'[t] = (told[t] \ {r.was}) \cup ({r.assignee} \ {NoOne})
          BY <3>1, <3>3, <4>4, <5>1 DEF TypeOK, notifyTicketReassignment
        <5>3. QED
          BY <4>3, <5>1, <5>2
      <4>5. CASE ~ (r.assignee # Unset /\ r.assignee # r.was)
        <5>1. ticket'[t].assignee = r.was /\ told' = told
          BY <3>1, <3>3, <4>2, <4>5 DEF Given
        <5>2. QED
          BY <4>3, <5>1
      <4>6. QED
        BY <4>4, <4>5
    <3>4. QED
      BY <3>2, <3>3
  <2>9. ASSUME NEW h \in Handler, CommitTask(h), Silent(t)
        PROVE  told'[t] = {ticket'[t].assignee} \ {NoOne}
    <3>1. PICK k \in Ticket, r \in Request("mirror"), new \in TicketRow :
           /\ r = req[h] /\ k = r.row /\ HasTask(k) /\ Exists(k) /\ pc[h] = "mirror"
           /\ r.status \in TaskStatus /\ r.seen \in TicketStatus
           /\ new = syncTicketFromTask(r.status, r.seen, ticket[k])
           /\ ticket' = [ticket EXCEPT ![k] = new]
           /\ new.status # "none" /\ new.assignee = ticket[k].assignee
           /\ task' = [task EXCEPT ![k].status = r.status]
           /\ Finish(h, IF new = ticket[k] THEN {} ELSE {k})
           /\ told' = told /\ story' = story /\ links' = links
      BY <2>9, CommitTaskRows, ZenonT(60)
    <3>2. ticket'[t].assignee = ticket[t].assignee /\ told' = told /\ Exists(t)
      BY <3>1 DEF TypeOK, Exists
    <3>3. QED
      BY <2>4, <2>9, <3>2
  <2>10. ASSUME NEW h \in Handler, WriteStory(h), Silent(t)
         PROVE  told'[t] = {ticket'[t].assignee} \ {NoOne}
    <3>1. PICK s \in Story :
            /\ ticket'[t] = ticket[t] \/ (<<t, s>> \in links /\ IsActive(t))
            /\ ticket'[t].assignee = ticket[t].assignee /\ told' = told
      BY <2>10, WriteStoryRows, ZenonT(60)
    <3>2. Exists(t)
      BY <3>1 DEF Exists, IsActive
    <3>3. QED
      BY <2>4, <2>10, <3>1, <3>2
  <2>11. ASSUME NEW h \in Handler, NEW s \in Story, createFromTicket(h, s), Silent(t)
         PROVE  told'[t] = {ticket'[t].assignee} \ {NoOne}
    <3>1. PICK k \in Ticket :
           /\ k = req[h].row /\ pc[h] = "story_from_ticket" /\ Exists(k)
           /\ \A u \in Ticket \ {k} : ticket'[u] = ticket[u]
           /\ ticket' \in [Ticket -> TicketRow]
           /\ ticket'[k].status = "in_progress" /\ ticket'[k].assignee = ticket[k].assignee
           /\ ticket'[k].resolvedAt = ticket[k].resolvedAt
           /\ links' = links \cup {<<k, s>>}
           /\ story' = [story EXCEPT ![s] = [status |-> "backlog", completedAt |-> FALSE]]
           /\ Finish(h, {k}) /\ task' = task /\ told' = told
      BY <2>11, CreateFromTicketRows, ZenonT(60)
    <3>2. QED
      BY <2>4, <2>5, <2>11, <3>1
  <2>12. ASSUME NEW h \in Handler, ResolveFoundTickets(h), Silent(t)
         PROVE  told'[t] = {ticket'[t].assignee} \ {NoOne}
    <3>1. PICK found \in SUBSET Ticket :
            /\ \A u \in found : Exists(u) /\ TaskUnlocked(u)
            /\ \A u \in found : ticket'[u].assignee = ticket[u].assignee
            /\ \A u \in Ticket \ found : ticket'[u] = ticket[u]
            /\ told' = told
      BY <2>12, ResolveRows, ZenonT(30)
    <3>2. QED
      BY <2>4, <2>5, <2>12, <3>1
  <2>13. ASSUME NEW h \in Handler, AnnounceTicket(h), Silent(t)
         PROVE  told'[t] = {ticket'[t].assignee} \ {NoOne}
    <3>1. PICK k \in Ticket :
            /\ k = req[h].row /\ pc[h] = "announce" /\ ticket' = ticket
            /\ \A u \in Ticket \ {k} : told'[u] = told[u]
      BY <2>13, AnnounceRows, ZenonT(60)
    <3>2. k # t
      BY <2>13, <3>1 DEF Silent, Announcing
    <3>3. QED
      BY <2>5, <2>13, <3>1, <3>2
  <2>14. ASSUME NEW h \in Handler, StartMirror(h) \/ Abort(h) \/ Reads(h), Silent(t)
         PROVE  told'[t] = {ticket'[t].assignee} \ {NoOne}
    BY <2>5, <2>14, ReadsBegin DEF StartMirror, Abort, Begin, rows
  <2>15. ASSUME (\E s \in Story : createInProject(s)) \/ UNCHANGED vars, Silent(t)
         PROVE  told'[t] = {ticket'[t].assignee} \ {NoOne}
    BY <2>5, <2>15 DEF createInProject, vars
  <2>16. QED
    BY <2>3, <2>6, <2>7, <2>8, <2>9, <2>10, <2>11, <2>12, <2>13, <2>14, <2>15 DEF Next, Creates, Writes
<1>3. QED
  BY <1>1, <1>2, HeldKept, Knows, PTL DEF Spec
=============================================================================
