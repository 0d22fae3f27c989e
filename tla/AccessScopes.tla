---------------------------- MODULE AccessScopes ----------------------------
(***************************************************************************)
(* Which rows a user of the API reaches.  The services ask the database    *)
(* through scopes built from the user's role and id; the same question is  *)
(* answered in several files, by scopes written separately.  A row is      *)
(* given with the rows it refers to, as the scopes join them.  The         *)
(* properties compare the answers over all rows and users.                 *)
(***************************************************************************)
EXTENDS Rbac

CONSTANTS UserId, NoUser,
          Project, NoProject,   \* rows of projects with their members
          Website, NoSite       \* rows of websites with their projects

AuthUser == [id : UserId, role : Role]
Person == UserId \cup {NoUser}

ProjectRow == [picDeveloperId : Person, picWeb : SUBSET UserId, developers : SUBSET UserId, archived : BOOLEAN]
WebsiteRow ==
  [project : Project \cup {NoProject}, ownerId : Person, itPicId : Person, backupItPicId : Person, isActive : BOOLEAN]

ASSUME RowsAssumption ==
  /\ NoUser \notin UserId /\ NoProject \notin ProjectRow /\ NoSite \notin Website
  /\ Project \subseteq ProjectRow /\ Website \subseteq WebsiteRow

\* Stories with the people they are assigned to; tickets with the developers assigned
\* to their own story and to the stories linked to them.
Story == [project : Project, website : Website \cup {NoSite}, primary : Person, collaborators : SUBSET UserId]
Ticket == [project : Project \cup {NoProject}, website : Website \cup {NoSite}, createdBy : UserId,
           assignedTo : Person, userStory : SUBSET UserId, storyLinks : SUBSET UserId]
-----------------------------------------------------------------------------
(* common/resource-access.ts *)

canAccessAllMonitoredResources(u) == roleCanAccessAllMonitoredResources(u.role)
canOperateScopedResources(u) == canAccessAllMonitoredResources(u) \/ u.role = "pic_web"
canManageProjectConfiguration(u) == u.role \in {"superadmin", "bos_it"}

IsPicDeveloper(u, p) == p # NoProject /\ p.picDeveloperId = u.id
IsPicWebMember(u, p) == p # NoProject /\ u.id \in p.picWeb
IsDeveloperMember(u, p) == p # NoProject /\ u.id \in p.developers

projectVisibilityWhere(u, p) ==
  \/ u.role \in {"superadmin", "bos_it"}
  \/ u.role = "pic_web" /\ IsPicWebMember(u, p)
  \/ u.role = "developer" /\ (IsPicDeveloper(u, p) \/ IsDeveloperMember(u, p))

\* A slip: the team's developers are left out.
SiteScopeOfPicOnly(u, w) ==
  \/ u.role \in {"superadmin", "bos_it"}
  \/ u.role = "pic_web" /\ (IsPicWebMember(u, w.project) \/ (w.project = NoProject /\ w.ownerId = u.id))
  \/ u.role = "developer" /\ (IsPicDeveloper(u, w.project) \/ (w.project = NoProject /\ u.id = w.itPicId))

websiteVisibilityScope(u, w) ==
  \/ u.role \in {"superadmin", "bos_it"}
  \/ /\ u.role = "pic_web"
     /\ IsPicWebMember(u, w.project) \/ (w.project = NoProject /\ w.ownerId = u.id)
  \/ /\ u.role = "developer"
     /\ \/ IsPicDeveloper(u, w.project) \/ IsDeveloperMember(u, w.project)
        \/ w.project = NoProject /\ u.id \in {w.itPicId, w.backupItPicId}
  \/ u.role = "end_user" /\ w.isActive

nonArchivedProjectWebsiteScope(w) == w.project # NoProject => ~w.project.archived
-----------------------------------------------------------------------------
(* What the services serve. *)

websiteGet(u, w) == IF u.role = "end_user" THEN w.ownerId = u.id ELSE websiteVisibilityScope(u, w)
resultGet(u, w) == websiteVisibilityScope(u, w)
resultList(u, w) == canOperateScopedResources(u) /\ websiteVisibilityScope(u, w)
dashboardCard(u, w) == w.isActive /\ nonArchivedProjectWebsiteScope(w) /\ websiteVisibilityScope(u, w)
dashboardDetail(u, w) == canOperateScopedResources(u) /\ dashboardCard(u, w)

\* Incidents of website w: only these two roles are scoped.
incidentGet(u, w) ==
  /\ canOperateScopedResources(u)
  /\ u.role \in {"pic_web", "developer"} => websiteVisibilityScope(u, w)
incidentContextWebsite(u, w) == incidentGet(u, w) /\ websiteVisibilityScope(u, w)

\* A slip: the creator's own tickets are left out.
ReadScopeNoCreator(u, t) ==
  CASE u.role = "pic_web" ->
         IsPicWebMember(u, t.project) \/ (t.project = NoProject /\ t.website # NoSite /\ t.website.ownerId = u.id)
    [] u.role = "developer" ->
         u.id \in {t.assignedTo} \cup t.userStory \cup t.storyLinks \/ IsPicDeveloper(u, t.project)
    [] OTHER -> TRUE

ticketReadScope(u, t) ==
  CASE u.role = "pic_web" ->
         \/ IsPicWebMember(u, t.project)
         \/ t.project = NoProject /\ t.website # NoSite /\ t.website.ownerId = u.id
         \/ t.project = NoProject /\ t.createdBy = u.id
    [] u.role = "developer" ->
         u.id \in {t.assignedTo} \cup t.userStory \cup t.storyLinks \/ IsPicDeveloper(u, t.project)
    [] OTHER -> TRUE
ticketGet(u, t) == canOperateScopedResources(u) /\ ticketReadScope(u, t)

boardTicket(u, t) ==
  \/ u.role \in {"superadmin", "bos_it"}
  \/ /\ u.role = "pic_web"
     /\ \/ IsPicWebMember(u, t.project)
        \/ /\ t.project = NoProject
           /\ t.createdBy = u.id \/ (t.website # NoSite /\ t.website.ownerId = u.id)
  \/ /\ u.role = "developer"
     /\ IsPicDeveloper(u, t.project) \/ u.id \in {t.assignedTo} \cup t.userStory \cup t.storyLinks

\* A slip: the owner of the website sees tickets that have since joined a project.
ContextOfOwner(u, t) ==
  CASE u.role = "pic_web" -> IsPicWebMember(u, t.project) \/ (t.website # NoSite /\ t.website.ownerId = u.id)
    [] OTHER -> ticketReadScope(u, t)

\* The tickets shown with an incident.
contextTicket(u, t) ==
  CASE u.role = "pic_web" ->
         \/ IsPicWebMember(u, t.project)
         \/ t.project = NoProject /\ t.website # NoSite /\ t.website.ownerId = u.id
    [] u.role = "developer" ->
         u.id \in {t.assignedTo} \cup t.userStory \cup t.storyLinks \/ IsPicDeveloper(u, t.project)
    [] OTHER -> TRUE

\* Legacy tasks, each of a website, in the board and in GET /tasks.
boardTask(u, w, assignee) ==
  \/ u.role \in {"superadmin", "bos_it"}
  \/ u.role = "pic_web" /\ (IsPicWebMember(u, w.project) \/ (w.project = NoProject /\ w.ownerId = u.id))
  \/ u.role = "developer" /\ (assignee = u.id \/ IsPicDeveloper(u, w.project))
taskList(u, w, assignee) ==
  \/ u.role \in {"superadmin", "bos_it"}
  \/ u.role = "developer" /\ assignee = u.id
  \/ u.role = "pic_web" /\ w.ownerId = u.id
-----------------------------------------------------------------------------
(* Stories. *)

assertCanViewStories(u) == u.role \in {"superadmin", "bos_it", "developer"}
isAssigned(u, s) == u.id = s.primary \/ u.id \in s.collaborators
requireProjectView(u, p) == assertCanViewStories(u) /\ projectVisibilityWhere(u, p)
canManageProject(u, p) ==
  canManageProjectConfiguration(u) \/ (u.role = "developer" /\ p.picDeveloperId = u.id)
requireProjectManager(u, p) == requireProjectView(u, p) /\ canManageProject(u, p)

projectStoryScope(u, s) ==
  canManageProjectConfiguration(u) \/ s.project.picDeveloperId = u.id \/ isAssigned(u, s)
listForProject(u, s) == requireProjectView(u, s.project) /\ projectStoryScope(u, s)

\* A slip: collaborators are left out.
StoryScopeOfPrimary(u, s) ==
  canManageProjectConfiguration(u) \/ IsPicDeveloper(u, s.project) \/ u.id = s.primary

globalStoryScope(u, s) ==
  canManageProjectConfiguration(u) \/ IsPicDeveloper(u, s.project) \/ isAssigned(u, s)
storyGet(u, s) == assertCanViewStories(u) /\ globalStoryScope(u, s)

\* A manager of the story's project gives it any field; a developer assigned to it gives a status.
storyUpdate(u, s) == canManageProject(u, s.project) \/ (u.role = "developer" /\ isAssigned(u, s))

assertWebsiteBelongsToProject(w, p) == w = NoSite \/ w.project = p
\* A slip: only the collaborators are checked.
ValidateCollaborators(s) == s.collaborators \subseteq s.project.developers

validateAssignees(s) == ({s.primary} \ {NoUser}) \cup s.collaborators \subseteq s.project.developers
createInProject(s) ==
  /\ assertWebsiteBelongsToProject(s.website, s.project)
  /\ s.primary \notin s.collaborators
  /\ validateAssignees(s)

createFromTicketScope(u, t) ==
  \/ canManageProjectConfiguration(u)
  \/ IsPicDeveloper(u, t.project) \/ (t.website # NoSite /\ IsPicDeveloper(u, t.website.project))
StoryProject(t) == IF t.project # NoProject \/ t.website = NoSite THEN t.project ELSE t.website.project
createFromTicket(u, t) ==
  /\ assertCanViewStories(u) /\ createFromTicketScope(u, t)
  /\ StoryProject(t) # NoProject
  /\ requireProjectManager(u, StoryProject(t))
\* A slip: a ticket found by its website stays outside the project.
TicketWithLinkOnly(t, s) ==
  [t EXCEPT !.storyLinks = @ \cup ({s.primary} \ {NoUser}) \cup s.collaborators]

TicketWithStory(t, s) ==
  [t EXCEPT !.project = s.project, !.storyLinks = @ \cup ({s.primary} \ {NoUser}) \cup s.collaborators]
-----------------------------------------------------------------------------
(* Creation of tickets: a request names a website, an incident (by its     *)
(* website here), a project and an assignee, or leaves them out.           *)

CreateTicketDto == [website : Website \cup {NoSite}, incident : Website \cup {NoSite},
                    project : Project \cup {NoProject}, assignedTo : Person,
                    category : {"website", "help_desk", "new_website"}]

SiteOf(d) == IF d.website # NoSite THEN d.website ELSE d.incident
ProjectOf(d) ==
  IF d.project = NoProject /\ SiteOf(d) # NoSite THEN SiteOf(d).project ELSE d.project

assertWebsiteAccess(u, w) ==
  IF w.project # NoProject THEN projectVisibilityWhere(u, w.project)
  ELSE u.role = "pic_web" => w.ownerId = u.id

\* A slip: any developer of the team may create tickets.
CreateByTeam(u, d) ==
  /\ canOperateScopedResources(u)
  /\ d.incident = NoSite /\ d.website = NoSite => d.category = "help_desk"
  /\ SiteOf(d) # NoSite => assertWebsiteAccess(u, SiteOf(d))
  /\ ProjectOf(d) # NoProject => projectVisibilityWhere(u, ProjectOf(d))

ticketCreate(u, d) ==
  /\ canOperateScopedResources(u)
  /\ d.category # "new_website"
  /\ d.incident = NoSite /\ d.website = NoSite => d.category = "help_desk"
  /\ d.incident # NoSite /\ d.website # NoSite => d.incident = d.website
  /\ SiteOf(d) # NoSite => assertWebsiteAccess(u, SiteOf(d))
  /\ ProjectOf(d) # NoProject =>
       /\ projectVisibilityWhere(u, ProjectOf(d))
       /\ u.role = "developer" => IsPicDeveloper(u, ProjectOf(d))
       /\ SiteOf(d) # NoSite /\ SiteOf(d).project # NoProject => SiteOf(d).project = ProjectOf(d)

DefaultAssignee(w) ==
  IF w = NoSite THEN NoUser ELSE IF w.project # NoProject THEN w.project.picDeveloperId ELSE w.itPicId

CreatedTicket(u, d) ==
  [project |-> ProjectOf(d), website |-> SiteOf(d), createdBy |-> u.id,
   assignedTo |-> IF d.assignedTo # NoUser THEN d.assignedTo ELSE DefaultAssignee(SiteOf(d)),
   userStory |-> {}, storyLinks |-> {}]
CreatesLegacyTask(t) == t.website # NoSite /\ t.assignedTo # NoUser /\ t.project = NoProject

\* A slip: a website outside every project is accepted.
IntakeAnyWebsite(u, d) ==
  /\ u.role \in {"superadmin", "bos_it", "pic_web"}
  /\ d.incident = NoSite /\ d.assignedTo = NoUser
  /\ d.category = "website" => d.website # NoSite
  /\ ticketCreate(u, d)

createTaskIntake(u, d) ==
  /\ u.role \in {"superadmin", "bos_it", "pic_web"}
  /\ d.incident = NoSite /\ d.assignedTo = NoUser
  /\ d.category = "website" => d.website # NoSite
  /\ d.website # NoSite =>
       /\ assertWebsiteAccess(u, d.website) /\ d.website.project # NoProject
       /\ d.project # NoProject => d.project = d.website.project
  /\ ticketCreate(u, d)
-----------------------------------------------------------------------------
(* Properties. *)

\* Reaching a project and reaching its websites is the same thing, for cards, results
\* and incidents alike: the project page never lists a website whose detail is refused.
SiteReachedWithItsProject ==
  \A u \in AuthUser, w \in Website :
    u.role # "end_user" /\ w.project # NoProject =>
      /\ websiteGet(u, w) <=> projectVisibilityWhere(u, w.project)
      /\ resultList(u, w) <=> projectVisibilityWhere(u, w.project)
      /\ incidentGet(u, w) <=> projectVisibilityWhere(u, w.project)

\* A page never shows half of what it promises: the incident page always has the website
\* of its incident and tickets that open when they are followed, and a dashboard card
\* comes with a result its viewer may read (comment at monitoring.service.ts:71).
PagesAreWhole ==
  /\ \A u \in AuthUser, w \in Website : dashboardCard(u, w) => resultGet(u, w)
  /\ \A u \in AuthUser, w \in Website : incidentGet(u, w) => incidentContextWebsite(u, w)
  /\ \A u \in AuthUser, t \in Ticket :
       canOperateScopedResources(u) /\ contextTicket(u, t) => ticketGet(u, t)

\* The board and the ticket endpoints serve the same tickets; a legacy task that a
\* developer lists as his own is on his board.
BoardServesTheSameTickets ==
  /\ \A u \in AuthUser, t \in Ticket : boardTicket(u, t) <=> ticketGet(u, t)
  /\ \A u \in AuthUser, w \in Website, a \in Person :
       u.role = "developer" /\ taskList(u, w, a) => boardTask(u, w, a)

\* Who creates a ticket can open it: a PIC Web or a manager always, a developer in a
\* project (outside one he only sees tickets assigned to him).
CreatorSeesTicket ==
  \A u \in AuthUser, d \in CreateTicketDto :
    /\ ticketCreate(u, d)
    /\ u.role = "developer" => ProjectOf(d) # NoProject
    => ticketGet(u, CreatedTicket(u, d))

\* Task intake never makes a legacy task (comment at tickets.service.ts:157).
IntakeMakesNoLegacyTask ==
  \A u \in AuthUser, d \in CreateTicketDto :
    createTaskIntake(u, d) => ~CreatesLegacyTask(CreatedTicket(u, d))

\* A developer to whom an accepted story is assigned reaches the story, both by
\* itself and in its project, its project and its website.
AssigneeReachesStory ==
  \A u \in AuthUser, s \in Story :
    createInProject(s) /\ u.role = "developer" /\ isAssigned(u, s) =>
      /\ storyGet(u, s) /\ listForProject(u, s) /\ storyUpdate(u, s)
      /\ projectVisibilityWhere(u, s.project)
      /\ s.website # NoSite => websiteGet(u, s.website)

\* Who may update a story sees it, and what the project page lists the story
\* endpoint serves.
StoryListsAgree ==
  \A u \in AuthUser, s \in Story :
    /\ storyUpdate(u, s) => storyGet(u, s)
    /\ listForProject(u, s) => storyGet(u, s)

\* After a story was made from a ticket, its maker reaches both, and so do the
\* developers it was assigned to.
StoryKeepsTicketInReach ==
  \A u \in AuthUser, t \in Ticket :
    createFromTicket(u, t) =>
      \A s \in Story :
        s.project = StoryProject(t) /\ createInProject(s) =>
          /\ storyGet(u, s) /\ ticketGet(u, TicketWithStory(t, s))
          /\ \A v \in AuthUser :
               v.role = "developer" /\ isAssigned(v, s) => ticketGet(v, TicketWithStory(t, s))
=============================================================================
