---------------------------- MODULE ProjectTeams ----------------------------
(***************************************************************************)
(* The people of a project, from two writers: the assignment page, which   *)
(* replaces the whole team, and the backfill script, which gives each      *)
(* website a project and makes a team of the website's own columns.  A     *)
(* database holds the user table, the websites in the order of their names,*)
(* the projects by key and one ticket.  The project created for website i  *)
(* has the key i.                                                          *)
(***************************************************************************)
EXTENDS AccessScopes, Integers, FiniteSets

CONSTANTS SiteColumns, OldProject, \* rows of websites without their project, of projects that exist
          SiteCount, NoKey        \* number of websites; the key of no project

Site == 1 .. SiteCount
OldKey == 0

ASSUME TeamsAssumption ==
  /\ SiteCount \in Nat \ {0} /\ NoKey \in Int \ Nat
  /\ SiteColumns \subseteq [ownerId : Person, itPicId : Person, backupItPicId : Person, isActive : BOOLEAN,
                            nameTaken : BOOLEAN]
  /\ OldProject \subseteq [picDeveloperId : Person, picWeb : SUBSET UserId, developers : SUBSET UserId,
                           status : {"draft", "active", "archived"}]

UserTable == [UserId -> [role : Role, isActive : BOOLEAN]]
Database ==
  [users : UserTable, row : [Site -> SiteColumns], link : [Site -> {NoKey, OldKey}],
   projects : [{OldKey} -> OldProject], ticketSite : Site, ticketProject : {NoKey, OldKey}]

\* Active users of the role, the only ones that either writer takes.
Holds(users, id, role) == users[id].isActive /\ users[id].role = role
-----------------------------------------------------------------------------
(* PUT /projects/:id/assignments *)

Assignments == [picWeb : SUBSET UserId, developers : SUBSET UserId, picDeveloperId : Person]

\* A slip: the team's roles are not looked at.
AcceptActive(users, d) == \A id \in d.picWeb \cup d.developers \cup ({d.picDeveloperId} \ {NoUser}) : users[id].isActive

acceptAssignments(users, d) ==
  /\ \A id \in d.picWeb : Holds(users, id, "pic_web")
  /\ \A id \in d.developers : Holds(users, id, "developer")
  /\ d.picDeveloperId # NoUser => Holds(users, d.picDeveloperId, "developer")
updateAssignments(p, d) ==
  [p EXCEPT !.picDeveloperId = d.picDeveloperId, !.picWeb = d.picWeb, !.developers = d.developers]
-----------------------------------------------------------------------------
(* scripts/project-backfill.ts *)

StatusFor(row) == IF row.isActive THEN "active" ELSE "archived"

HasIssue(db, i) ==
  \/ db.row[i].ownerId # NoUser /\ ~Holds(db.users, db.row[i].ownerId, "pic_web")
  \/ \E id \in {db.row[i].itPicId, db.row[i].backupItPicId} \ {NoUser} : ~Holds(db.users, id, "developer")

\* What makes the script refuse to apply.
preflight(db) ==
  /\ \A i \in Site : ~HasIssue(db, i)
  /\ \A i \in Site :
       IF db.link[i] = NoKey THEN ~db.row[i].nameTaken
       ELSE db.projects[db.link[i]].status = StatusFor(db.row[i])
  /\ db.ticketProject # NoKey /\ db.link[db.ticketSite] # NoKey => db.ticketProject = db.link[db.ticketSite]

KeyOf(db, i) == IF db.link[i] = NoKey THEN i ELSE db.link[i]

\* A slip: only the backup developer stands in the team.
TeamWithoutOwner(row) ==
  [picDeveloperId |-> row.itPicId, picWeb |-> {}, developers |-> {row.backupItPicId} \ {NoUser, row.itPicId}]

TeamOf(row) ==
  [picDeveloperId |-> row.itPicId, picWeb |-> {row.ownerId} \ {NoUser},
   developers |-> {row.backupItPicId} \ {NoUser, row.itPicId}]

\* A slip: a new project is active whatever its website is.
WriteActive(db, key) ==
  LET sites == {i \in Site : KeyOf(db, i) = key}
      row == db.row[CHOOSE i \in sites : \A j \in sites : j =< i]
      team == TeamOf(row) IN
  IF sites = {} THEN db.projects[key]
  ELSE [picDeveloperId |-> team.picDeveloperId, picWeb |-> team.picWeb, developers |-> team.developers,
        status |-> IF key \in DOMAIN db.projects THEN db.projects[key].status ELSE "active"]

\* The websites are worked off in order, so the last one of a project gives it its team.
WriteProjectOf(db, key) ==
  LET sites == {i \in Site : KeyOf(db, i) = key}
      row == db.row[CHOOSE i \in sites : \A j \in sites : j =< i]
      team == TeamOf(row) IN
  IF sites = {} THEN db.projects[key]
  ELSE [picDeveloperId |-> team.picDeveloperId, picWeb |-> team.picWeb, developers |-> team.developers,
        status |-> IF key \in DOMAIN db.projects THEN db.projects[key].status ELSE StatusFor(row)]

\* A slip: only tickets of newly linked websites are linked.
LinkNewTickets(db) ==
  IF db.ticketProject = NoKey /\ db.link[db.ticketSite] = NoKey THEN db.ticketSite ELSE db.ticketProject
LinkTickets(db) == IF db.ticketProject = NoKey THEN KeyOf(db, db.ticketSite) ELSE db.ticketProject

backfill(db) ==
  [db EXCEPT !.link = [i \in Site |-> KeyOf(db, i)],
             !.projects = [key \in DOMAIN db.projects \cup {KeyOf(db, i) : i \in Site} |-> WriteProjectOf(db, key)],
             !.ticketProject = LinkTickets(db)]
-----------------------------------------------------------------------------
(* The rows as the scopes join them. *)

JoinedProject(p) ==
  [picDeveloperId |-> p.picDeveloperId, picWeb |-> p.picWeb, developers |-> p.developers,
   archived |-> p.status = "archived"]
ProjectAt(db, key) == IF key = NoKey THEN NoProject ELSE JoinedProject(db.projects[key])
JoinedSite(db, i) ==
  [project |-> ProjectAt(db, db.link[i]), ownerId |-> db.row[i].ownerId, itPicId |-> db.row[i].itPicId,
   backupItPicId |-> db.row[i].backupItPicId, isActive |-> db.row[i].isActive]
JoinedTicket(db, creator, assignee) ==
  [project |-> ProjectAt(db, db.ticketProject), website |-> JoinedSite(db, db.ticketSite), createdBy |-> creator,
   assignedTo |-> assignee, userStory |-> {}, storyLinks |-> {}]
UserOf(users, id) == [id |-> id, role |-> users[id].role]

\* What the script may be run on: it does not refuse, and no ticket was left in an old
\* project when its website was taken out of it.
Ready == {db \in Database : preflight(db) /\ db.ticketProject \in {NoKey, db.link[db.ticketSite]}}
-----------------------------------------------------------------------------
(* Properties. *)

\* Whoever is named in an accepted assignment reaches the project, and of the PIC Webs
\* and developers nobody else does, whoever was in the team before.
TeamIsWhoReaches ==
  \A users \in UserTable, p \in OldProject, d \in Assignments :
    acceptAssignments(users, d) =>
      \A id \in UserId :
        users[id].role \in {"pic_web", "developer"} =>
          (projectVisibilityWhere(UserOf(users, id), JoinedProject(updateAssignments(p, d)))
             <=> id \in d.picWeb \cup d.developers \cup {d.picDeveloperId})

\* The backfill takes a website that was in no project from nobody and shows it to nobody
\* new, on its page and on the dashboard; its tickets stay with its people.
BackfillKeepsSight ==
  \A db \in Ready :
    \A id \in UserId, i \in {j \in Site : db.link[j] = NoKey} :
      LET u == UserOf(db.users, id) IN
      /\ websiteVisibilityScope(u, JoinedSite(db, i)) <=> websiteVisibilityScope(u, JoinedSite(backfill(db), i))
      /\ dashboardCard(u, JoinedSite(db, i)) <=> dashboardCard(u, JoinedSite(backfill(db), i))
      /\ i = db.ticketSite /\ websiteVisibilityScope(u, JoinedSite(db, i)) =>
           \A a \in Person :
             ticketGet(u, JoinedTicket(db, id, a)) => ticketGet(u, JoinedTicket(backfill(db), id, a))

\* A second run of the backfill is accepted and changes nothing, also where several
\* websites share a project.  (A ticket left behind in an old project would make the
\* second run refuse what the first one wrote.)
BackfillIsRepeatable ==
  \A db \in Ready :
    preflight(backfill(db)) /\ backfill(backfill(db)) = backfill(db)

\* After the backfill every ticket of a website is in the website's project: the case
\* that createFromTicket and the board decide by either of the two no longer arises.
BackfillJoinsTickets ==
  \A db \in Ready : backfill(db).ticketProject = backfill(db).link[db.ticketSite]
=============================================================================
