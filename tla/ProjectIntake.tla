---------------------------- MODULE ProjectIntake ----------------------------
(***************************************************************************)
(* Project requests, the draft projects their approval creates, and the    *)
(* websites of projects.  Only the approval is one (serializable)          *)
(* transaction.  All other handlers read, check, and write later by id,    *)
(* each write being one step.                                              *)
(***************************************************************************)
EXTENDS Naturals, FiniteSets

CONSTANTS Request, Project, Website, Handler,
          EditStatuses, \* statuses that requests ask of projects
          NoProject,   \* an unassigned website, a request without project
          NoSite,      \* a website that has not been created
          NoRequest    \* what an idle handler holds

ProjectRequestStatus == {"pending", "needs_info", "approved", "rejected"}
ProjectStatus == {"draft", "active", "archived"}

ASSUME EditsAssumption == EditStatuses \subseteq ProjectStatus
ASSUME NamesAssumption ==
  /\ NoProject \notin Project /\ NoSite \notin Project \cup {NoProject}
  /\ Request \cap Project = {} /\ Request \cap Website = {} /\ Project \cap Website = {}

VARIABLES
  request,   \* rows of project_requests; status "none" before the row exists
  project,   \* status of each project; "none" before the row exists
  site,      \* the project of each website
  made,      \* history: the projects approved for each request
  pc, req,   \* the position and the locals of each running handler
  overtaken, \* history: handlers that read a row somebody wrote since
  raced      \* history: rows that such a handler wrote outside a transaction

rows == <<request, project, site, made>>
vars == <<request, project, site, made, pc, req, overtaken, raced>>
-----------------------------------------------------------------------------
Sites(p) == { w \in Website : site[w] = p }
Created(p) == project[p] # "none"

Begin(h, at, r) ==
  /\ pc[h] = "idle"
  /\ pc' = [pc EXCEPT ![h] = at]
  /\ req' = [req EXCEPT ![h] = r]
  /\ UNCHANGED <<rows, overtaken, raced>>

\* The end of handler h.  A website that moves counts as a write of the projects
\* it leaves and enters.
Finish(h, written) ==
  /\ pc' = [pc EXCEPT ![h] = "idle"]
  /\ req' = [req EXCEPT ![h] = NoRequest]
  /\ overtaken' = (overtaken \cup { g \in Handler : pc[g] # "idle" /\ req[g].read \cap written # {} }) \ {h}
  /\ raced' = IF h \in overtaken /\ pc[h] # "approve" THEN raced \cup written ELSE raced

Init ==
  /\ request = [r \in Request |-> [status |-> "none", project |-> NoProject]]
  /\ project = [p \in Project |-> "none"]
  /\ site \in [Website -> {NoSite, NoProject}]
  /\ made = [r \in Request |-> {}]
  /\ pc = [h \in Handler |-> "idle"]
  /\ req = [h \in Handler |-> NoRequest]
  /\ overtaken = {} /\ raced = {}
-----------------------------------------------------------------------------
(* Project requests                                                        *)

createRequest(r) ==
  /\ request[r].status = "none"
  /\ request' = [request EXCEPT ![r].status = "pending"]
  /\ UNCHANGED <<project, site, made, pc, req, overtaken, raced>>

\* Mutant: a rejected request can be reviewed again.
ReviewableUnlessApproved(status) == status \in {"pending", "needs_info", "rejected"}
assertReviewable(status) == status \in {"pending", "needs_info"}

\* What each handler demands of the request it reads, and writes to it later.
ReadRequest(h, r) ==
  \/ request[r].status = "needs_info" /\ Begin(h, "update", [read |-> {r}, row |-> r, status |-> "pending"])
  \/ assertReviewable(request[r].status) /\ Begin(h, "requestInfo", [read |-> {r}, row |-> r, status |-> "needs_info"])
  \/ assertReviewable(request[r].status) /\ Begin(h, "reject", [read |-> {r}, row |-> r, status |-> "rejected"])

WriteRequest(h) ==
  /\ pc[h] \in {"update", "requestInfo", "reject"}
  /\ request' = [request EXCEPT ![req[h].row].status = req[h].status]
  /\ Finish(h, {req[h].row})
  /\ UNCHANGED <<project, site, made>>

\* A retry after an approval reads the approved request and returns it.
ReadForApproval(h, r) ==
  request[r].status = "pending" /\ Begin(h, "approve", [read |-> {r}, row |-> r])

\* Mutant: the transaction is only read committed.
ApproveReadCommitted(h, p) ==
  /\ pc[h] = "approve"
  /\ ~Created(p)
  /\ project' = [project EXCEPT ![p] = "draft"]
  /\ request' = [request EXCEPT ![req[h].row] = [status |-> "approved", project |-> p]]
  /\ made' = [made EXCEPT ![req[h].row] = @ \cup {p}]
  /\ Finish(h, {req[h].row})
  /\ UNCHANGED site

\* Mutant: the approved request is not linked to its project.
ApproveUnlinked(h, p) ==
  /\ pc[h] = "approve"
  /\ h \notin overtaken
  /\ ~Created(p)
  /\ project' = [project EXCEPT ![p] = "draft"]
  /\ request' = [request EXCEPT ![req[h].row].status = "approved"]
  /\ made' = [made EXCEPT ![req[h].row] = @ \cup {p}]
  /\ Finish(h, {req[h].row})
  /\ UNCHANGED site

\* A serializable transaction cannot write a row that was written since its
\* snapshot: it is aborted.
CommitApproval(h, p) ==
  /\ pc[h] = "approve"
  /\ h \notin overtaken
  /\ ~Created(p)
  /\ project' = [project EXCEPT ![p] = "draft"]
  /\ request' = [request EXCEPT ![req[h].row] = [status |-> "approved", project |-> p]]
  /\ made' = [made EXCEPT ![req[h].row] = @ \cup {p}]
  /\ Finish(h, {req[h].row})
  /\ UNCHANGED site
-----------------------------------------------------------------------------
(* Projects and their websites                                             *)

\* POST /projects creates drafts (or archived projects), never active ones.
createProject(p) ==
  /\ ~Created(p)
  /\ \E status \in ProjectStatus \ {"active"} : project' = [project EXCEPT ![p] = status]
  /\ UNCHANGED <<request, site, made, pc, req, overtaken, raced>>

\* PATCH /projects/:id; a request that names no status writes none.
ReadProject(h, p, status) ==
  /\ Created(p)
  /\ status = "active" => Sites(p) # {}
  /\ Begin(h, "update_project", [read |-> {p}, row |-> p, status |-> status])

WriteProject(h) ==
  /\ pc[h] = "update_project"
  /\ project' = [project EXCEPT ![req[h].row] = req[h].status]
  /\ Finish(h, {req[h].row})
  /\ UNCHANGED <<request, site, made>>

\* Mutant: takes websites of other projects.
ReadAnyWebsites(h, p, ids) ==
  /\ Created(p)
  /\ project[p] = "active" => ids # {}
  /\ \A w \in ids : site[w] # NoSite
  /\ Begin(h, "updateWebsites", [read |-> {p} \cup ids, row |-> p, ids |-> ids])

\* PUT /projects/:id/websites
ReadWebsites(h, p, ids) ==
  /\ Created(p)
  /\ project[p] = "active" => ids # {}
  /\ \A w \in ids : site[w] \in {NoProject, p}
  /\ Begin(h, "updateWebsites", [read |-> {p} \cup ids, row |-> p, ids |-> ids])

\* The projects that websites move between.
Moved == { p \in Project : \E w \in Website : (site[w] = p) # (site'[w] = p) }

WriteWebsites(h) ==
  /\ pc[h] = "updateWebsites"
  /\ site' = [w \in Website |-> IF w \in req[h].ids THEN req[h].row
                                ELSE IF site[w] = req[h].row THEN NoProject ELSE site[w]]
  /\ Finish(h, { w \in Website : site'[w] # site[w] } \cup Moved)
  /\ UNCHANGED <<request, project, made>>

\* POST /projects/:id/websites with a website that exists ...
ReadWebsite(h, p, w) ==
  /\ Created(p)
  /\ site[w] \in {NoProject, p}
  /\ Begin(h, "addWebsite", [read |-> {p, w}, row |-> w, to |-> p])

\* Mutant: counts the website that is being removed as one that stays.
ReadRemovalOfLast(h, p, w) ==
  /\ Created(p) /\ site[w] = p
  /\ project[p] = "active" => Cardinality(Sites(p)) > 0
  /\ Begin(h, "removeWebsite", [read |-> {p, w}, row |-> w, to |-> NoProject])

\* DELETE /projects/:id/websites/:websiteId
ReadRemoval(h, p, w) ==
  /\ Created(p) /\ site[w] = p
  /\ project[p] = "active" => Cardinality(Sites(p)) > 1
  /\ Begin(h, "removeWebsite", [read |-> {p, w}, row |-> w, to |-> NoProject])

WriteWebsite(h) ==
  /\ pc[h] \in {"addWebsite", "removeWebsite"}
  /\ site' = [site EXCEPT ![req[h].row] = req[h].to]
  /\ Finish(h, {req[h].row} \cup Moved)
  /\ UNCHANGED <<request, project, made>>

\* ... or with a new one; POST /websites creates one in a project or outside.
createWebsite(w, p) ==
  /\ site[w] = NoSite
  /\ p # NoProject => Created(p)
  /\ site' = [site EXCEPT ![w] = p]
  /\ overtaken' = overtaken \cup { h \in Handler : pc[h] # "idle" /\ req[h].read \cap {w, p} # {} }
  /\ UNCHANGED <<request, project, made, pc, req, raced>>

\* A request that is refused or aborted, or whose connection is lost.
Abort(h) ==
  /\ pc[h] # "idle"
  /\ pc' = [pc EXCEPT ![h] = "idle"]
  /\ req' = [req EXCEPT ![h] = NoRequest]
  /\ overtaken' = overtaken \ {h}
  /\ UNCHANGED <<rows, raced>>
-----------------------------------------------------------------------------
Reads(h) ==
  \/ \E r \in Request : ReadRequest(h, r) \/ ReadForApproval(h, r)
  \/ \E p \in Project, status \in EditStatuses : ReadProject(h, p, status)
  \/ \E p \in Project, ids \in SUBSET Website : ReadWebsites(h, p, ids)
  \/ \E p \in Project, w \in Website : ReadWebsite(h, p, w) \/ ReadRemoval(h, p, w)

Writes(h) ==
  \/ WriteRequest(h)
  \/ \E p \in Project : CommitApproval(h, p)
  \/ WriteProject(h) \/ WriteWebsites(h) \/ WriteWebsite(h)
  \/ Abort(h)

Creates ==
  \/ \E r \in Request : createRequest(r)
  \/ \E p \in Project : createProject(p)
  \/ \E w \in Website, p \in Project \cup {NoProject} : createWebsite(w, p)

Next == Creates \/ \E h \in Handler : Reads(h) \/ Writes(h)

Spec == Init /\ [][Next]_vars
-----------------------------------------------------------------------------
\* What a handler holds at each position.
Held(at) ==
  CASE at = "idle" -> {NoRequest}
    [] at = "approve" -> [read : SUBSET Request, row : Request]
    [] at \in {"update", "requestInfo", "reject"} -> [read : SUBSET Request, row : Request, status : ProjectRequestStatus]
    [] at = "update_project" -> [read : SUBSET Project, row : Project, status : ProjectStatus]
    [] at = "updateWebsites" -> [read : SUBSET (Project \cup Website), row : Project, ids : SUBSET Website]
    [] at = "addWebsite" -> [read : SUBSET (Project \cup Website), row : Website, to : Project]
    [] at = "removeWebsite" -> [read : SUBSET (Project \cup Website), row : Website, to : {NoProject}]

Positions ==
  {"idle", "approve", "update", "requestInfo", "reject", "update_project", "updateWebsites", "addWebsite", "removeWebsite"}

\* Every row, and what every handler holds, has its type.
TypeOK ==
  /\ request \in [Request -> [status : ProjectRequestStatus \cup {"none"}, project : Project \cup {NoProject}]]
  /\ project \in [Project -> ProjectStatus \cup {"none"}]
  /\ site \in [Website -> Project \cup {NoProject, NoSite}]
  /\ made \in [Request -> SUBSET Project]
  /\ pc \in [Handler -> Positions]
  /\ \A h \in Handler : req[h] \in Held(pc[h])
  /\ overtaken \subseteq Handler
  /\ raced \subseteq Request \cup Project \cup Website

\* However often reviewers approve a request, and whatever its submitter and other
\* reviewers do meanwhile, one project is made for it -- unless a handler that
\* reads outside a transaction overwrites the approval with what it decided before.
OneProjectPerRequest == \A r \in Request : r \notin raced => Cardinality(made[r]) <= 1

\* A request is approved exactly when a project was made for it, and shows that project.
ApprovedShowsProject ==
  \A r \in Request : r \notin raced =>
    /\ (request[r].status = "approved") <=> (made[r] # {})
    /\ made[r] # {} => request[r].project \in made[r]

\* An active project has a website, unless two edits of it overlapped: each of two
\* removals may see the other's website, an activation the one being removed.
ActiveHasWebsite == \A p \in Project : project[p] = "active" /\ p \notin raced => Sites(p) # {}

\* A decision is final: only one who read the request before it, outside a transaction,
\* may change it.
DecisionIsFinal ==
  [][ \A r \in Request : request[r].status \in {"approved", "rejected"} /\ request'[r] # request[r] =>
        \E h \in overtaken : pc[h] # "approve" /\ pc'[h] = "idle" ]_vars

\* A website of one project is never moved to another, except by one who saw it
\* unassigned.
WebsiteNotTaken ==
  [][ \A w \in Website : site[w] \in Project /\ site'[w] \in Project /\ site'[w] # site[w] =>
        \E h \in overtaken : pc'[h] = "idle" ]_vars

\* Requests and projects match: one project for an approved request and none for any other.
RequestsMatchProjects == TypeOK /\ OneProjectPerRequest /\ ApprovedShowsProject

\* Projects keep their websites: an active one is never left with none, none loses one to another.
ProjectsKeepWebsites == []ActiveHasWebsite /\ WebsiteNotTaken
=============================================================================
