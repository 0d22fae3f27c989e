------------------------ MODULE ProjectIntakeProofs ------------------------
(* For any sets of requests, projects, websites and handlers: rows keep     *)
(* their types, requests and projects match, decisions are final, and       *)
(* projects keep their websites.                                            *)
EXTENDS ProjectIntake, FiniteSetTheorems, TLAPS

\* The halves of TypeOK, and that req is a function: TypeOK speaks of its values only.
RowsTyped ==
  /\ request \in [Request -> [status : ProjectRequestStatus \cup {"none"}, project : Project \cup {NoProject}]]
  /\ project \in [Project -> ProjectStatus \cup {"none"}]
  /\ site \in [Website -> Project \cup {NoProject, NoSite}]
  /\ made \in [Request -> SUBSET Project]
HandlersTyped ==
  /\ pc \in [Handler -> Positions]
  /\ req = [h \in Handler |-> req[h]]
  /\ \A h \in Handler : req[h] \in Held(pc[h])
  /\ overtaken \subseteq Handler
  /\ raced \subseteq Request \cup Project \cup Website
TypeInvariant == RowsTyped /\ HandlersTyped

\* What follows rests on these: a decision reads the row it writes and is not an approval,
decisions == {"update", "requestInfo", "reject"}
ReadsItsRow ==
  \A h \in Handler : pc[h] \in decisions \cup {"approve"} =>
    /\ req[h].row \in req[h].read
    /\ pc[h] \in decisions => req[h].status # "approved"

\* a handler that nobody has overtaken still finds what it read,
FreshFinds ==
  \A h \in Handler \ overtaken :
    /\ pc[h] = "approve" => request[req[h].row].status = "pending"
    /\ pc[h] \in decisions => request[req[h].row].status \in {"pending", "needs_info"}

\* and a request that no overtaken handler wrote has no project, or the one it shows.
Matched(r) ==
  \/ made[r] = {} /\ request[r].status # "approved"
  \/ \E p \in Project : made[r] = {p} /\ request[r] = [status |-> "approved", project |-> p]
RowsMatch == \A r \in Request : r \notin raced => Matched(r)

RequestInvariant == TypeInvariant /\ ReadsItsRow /\ FreshFinds /\ RowsMatch

\* Websites: what a handler of a project that nobody has overtaken still finds.
FindsSites(h) ==
  /\ pc[h] = "update_project" =>
       req[h].row \in req[h].read /\ (req[h].status = "active" => Sites(req[h].row) # {})
  /\ pc[h] = "updateWebsites" =>
       /\ {req[h].row} \cup req[h].ids \subseteq req[h].read
       /\ project[req[h].row] = "active" => req[h].ids # {}
       /\ \A w \in req[h].ids : site[w] \in {NoProject, req[h].row}
  /\ pc[h] = "addWebsite" =>
       {req[h].row, req[h].to} \subseteq req[h].read /\ site[req[h].row] \in {NoProject, req[h].to}
  /\ pc[h] = "removeWebsite" =>
       /\ {req[h].row, site[req[h].row]} \subseteq req[h].read /\ site[req[h].row] \in Project
       /\ project[site[req[h].row]] = "active" => \E w \in Website \ {req[h].row} : site[w] = site[req[h].row]
FreshFindsSites == \A h \in Handler \ overtaken : FindsSites(h)

WebsiteInvariant == TypeInvariant /\ FreshFindsSites /\ ActiveHasWebsite
-----------------------------------------------------------------------------
\* What a matched request shows of its projects, without the record.
LEMMA Matching ==
  ASSUME NEW r \in Request, Matched(r)
  PROVE  \/ made[r] = {} /\ request[r].status # "approved"
         \/ \E p \in Project : made[r] = {p} /\ request[r].status = "approved" /\ request[r].project = p
<1>1. ASSUME NEW p \in Project, request[r] = [status |-> "approved", project |-> p]
      PROVE  request[r].status = "approved" /\ request[r].project = p
  BY <1>1
<1> QED BY <1>1, Zenon DEF Matched

LEMMA HeldAt ==
  /\ Held("idle") = {NoRequest}
  /\ Held("approve") = [read : SUBSET Request, row : Request]
  /\ \A at \in decisions : Held(at) = [read : SUBSET Request, row : Request, status : ProjectRequestStatus]
  /\ Held("update_project") = [read : SUBSET Project, row : Project, status : ProjectStatus]
  /\ Held("updateWebsites") = [read : SUBSET (Project \cup Website), row : Project, ids : SUBSET Website]
  /\ Held("addWebsite") = [read : SUBSET (Project \cup Website), row : Website, to : Project]
  /\ Held("removeWebsite") = [read : SUBSET (Project \cup Website), row : Website, to : {NoProject}]
BY DEF Held, decisions

\* What a handler holds, said of the handler.
LEMMA Holding ==
  ASSUME TypeInvariant, NEW h \in Handler
  PROVE  /\ pc[h] = "approve" => req[h] \in [read : SUBSET Request, row : Request]
         /\ pc[h] \in decisions => req[h] \in [read : SUBSET Request, row : Request, status : ProjectRequestStatus]
         /\ pc[h] = "update_project" => req[h] \in [read : SUBSET Project, row : Project, status : ProjectStatus]
         /\ pc[h] = "updateWebsites" => req[h] \in [read : SUBSET (Project \cup Website), row : Project, ids : SUBSET Website]
         /\ pc[h] \in {"addWebsite", "removeWebsite"} => req[h].row \in Website /\ req[h].to \in Project \cup {NoProject}
<1>0. req[h] \in Held(pc[h]) BY DEF TypeInvariant, HandlersTyped
<1>1. CASE pc[h] = "addWebsite" BY <1>0, <1>1 DEF Held, decisions
<1>2. CASE pc[h] = "removeWebsite" BY <1>0, <1>2 DEF Held, decisions
<1>3. CASE pc[h] \notin {"addWebsite", "removeWebsite"} BY <1>0, <1>3 DEF Held, decisions
<1> QED BY <1>1, <1>2, <1>3

\* A read begins at a position with what the position holds, and changes no row.
LEMMA BeginTyped ==
  ASSUME TypeInvariant, NEW h \in Handler, NEW at \in Positions, NEW r \in Held(at), Begin(h, at, r)
  PROVE  TypeInvariant'
<1>1. RowsTyped' BY DEF TypeInvariant, RowsTyped, Begin, rows
<1>2. HandlersTyped'
  <2>1. pc' \in [Handler -> Positions] BY DEF TypeInvariant, HandlersTyped, Begin
  <2>2. req' = [g \in Handler |-> req'[g]] BY DEF TypeInvariant, HandlersTyped, Begin
  <2>3. ASSUME NEW g \in Handler PROVE req'[g] \in Held(pc'[g])
    <3>1. CASE g = h BY <3>1 DEF TypeInvariant, HandlersTyped, Begin
    <3>2. CASE g # h
      <4>1. pc'[g] = pc[g] /\ req'[g] = req[g] BY <3>2 DEF TypeInvariant, HandlersTyped, Begin
      <4> QED BY <4>1 DEF TypeInvariant, HandlersTyped
    <3> QED BY <3>1, <3>2
  <2> QED BY <2>1, <2>2, <2>3 DEF TypeInvariant, HandlersTyped, Begin
<1> QED BY <1>1, <1>2 DEF TypeInvariant

\* A handler that ends, in whatever way, leaves the handlers typed.
LEMMA IdleTyped ==
  ASSUME TypeInvariant, NEW h \in Handler,
         pc' = [pc EXCEPT ![h] = "idle"], req' = [req EXCEPT ![h] = NoRequest],
         overtaken' \subseteq Handler, raced' \subseteq Request \cup Project \cup Website
  PROVE  HandlersTyped'
<1>1. pc' \in [Handler -> Positions] BY DEF TypeInvariant, HandlersTyped, Positions
<1>2. req' = [g \in Handler |-> req'[g]] BY DEF TypeInvariant, HandlersTyped
<1>3. ASSUME NEW g \in Handler PROVE req'[g] \in Held(pc'[g])
  <2>1. CASE g = h BY <2>1, HeldAt DEF TypeInvariant, HandlersTyped
  <2>2. CASE g # h
    <3>1. pc'[g] = pc[g] /\ req'[g] = req[g] BY <2>2 DEF TypeInvariant, HandlersTyped
    <3> QED BY <3>1 DEF TypeInvariant, HandlersTyped
  <2> QED BY <2>1, <2>2
<1> QED BY <1>1, <1>2, <1>3 DEF HandlersTyped

LEMMA FinishTyped ==
  ASSUME TypeInvariant, NEW h \in Handler, NEW written \in SUBSET (Request \cup Project \cup Website),
         Finish(h, written)
  PROVE  HandlersTyped'
<1>1. overtaken' \subseteq Handler BY DEF TypeInvariant, HandlersTyped, Finish
<1>2. raced' \subseteq Request \cup Project \cup Website BY DEF TypeInvariant, HandlersTyped, Finish
<1> QED BY <1>1, <1>2, IdleTyped DEF Finish
-----------------------------------------------------------------------------
(* Types. *)

\* What every read holds has the type of its position.
LEMMA ReadsTyped ==
  ASSUME TypeInvariant, NEW h \in Handler, Reads(h)
  PROVE  TypeInvariant'
<1>1. ASSUME NEW r \in Request, ReadRequest(h, r) PROVE TypeInvariant'
  <2>1. ASSUME NEW at \in decisions, NEW status \in ProjectRequestStatus, Begin(h, at, [read |-> {r}, row |-> r, status |-> status])
        PROVE TypeInvariant'
    <3>1. at \in Positions BY DEF decisions, Positions
    <3>2. [read |-> {r}, row |-> r, status |-> status] \in Held(at) BY HeldAt
    <3> QED BY <2>1, <3>1, <3>2, BeginTyped
  <2> QED BY <1>1, <2>1 DEF ReadRequest, decisions, ProjectRequestStatus
<1>2. ASSUME NEW r \in Request, ReadForApproval(h, r) PROVE TypeInvariant'
  <2>1. [read |-> {r}, row |-> r] \in Held("approve") BY HeldAt
  <2> QED BY <1>2, <2>1, BeginTyped DEF ReadForApproval, Positions
<1>3. ASSUME NEW p \in Project, NEW status \in EditStatuses, ReadProject(h, p, status) PROVE TypeInvariant'
  <2>1. [read |-> {p}, row |-> p, status |-> status] \in Held("update_project") BY HeldAt, EditsAssumption
  <2> QED BY <1>3, <2>1, BeginTyped DEF ReadProject, Positions
<1>4. ASSUME NEW p \in Project, NEW ids \in SUBSET Website, ReadWebsites(h, p, ids) PROVE TypeInvariant'
  <2>1. [read |-> {p} \cup ids, row |-> p, ids |-> ids] \in Held("updateWebsites") BY HeldAt
  <2> QED BY <1>4, <2>1, BeginTyped DEF ReadWebsites, Positions
<1>5. ASSUME NEW p \in Project, NEW w \in Website, ReadWebsite(h, p, w) PROVE TypeInvariant'
  <2>1. [read |-> {p, w}, row |-> w, to |-> p] \in Held("addWebsite") BY HeldAt
  <2> QED BY <1>5, <2>1, BeginTyped DEF ReadWebsite, Positions
<1>6. ASSUME NEW p \in Project, NEW w \in Website, ReadRemoval(h, p, w) PROVE TypeInvariant'
  <2>1. [read |-> {p, w}, row |-> w, to |-> NoProject] \in Held("removeWebsite") BY HeldAt
  <2> QED BY <1>6, <2>1, BeginTyped DEF ReadRemoval, Positions
<1> QED BY <1>1, <1>2, <1>3, <1>4, <1>5, <1>6 DEF Reads

LEMMA WritesTyped ==
  ASSUME TypeInvariant, NEW h \in Handler, Writes(h)
  PROVE  TypeInvariant'
<1>1. CASE WriteRequest(h)
  <2>1. req[h] \in [read : SUBSET Request, row : Request, status : ProjectRequestStatus]
    BY <1>1, Holding DEF WriteRequest, decisions
  <2>2. RowsTyped' BY <1>1, <2>1 DEF TypeInvariant, RowsTyped, WriteRequest
  <2>3. HandlersTyped' BY <1>1, <2>1, FinishTyped DEF WriteRequest
  <2> QED BY <2>2, <2>3 DEF TypeInvariant
<1>2. ASSUME NEW p \in Project, CommitApproval(h, p) PROVE TypeInvariant'
  <2>1. req[h].row \in Request BY <1>2, Holding DEF CommitApproval
  <2>2. RowsTyped' BY <1>2, <2>1 DEF TypeInvariant, RowsTyped, CommitApproval, ProjectStatus, ProjectRequestStatus
  <2>3. HandlersTyped' BY <1>2, <2>1, FinishTyped DEF CommitApproval
  <2> QED BY <2>2, <2>3 DEF TypeInvariant
<1>3. CASE WriteProject(h)
  <2>1. req[h] \in [read : SUBSET Project, row : Project, status : ProjectStatus]
    BY <1>3, Holding DEF WriteProject
  <2>2. RowsTyped' BY <1>3, <2>1 DEF TypeInvariant, RowsTyped, WriteProject
  <2>3. HandlersTyped' BY <1>3, <2>1, FinishTyped DEF WriteProject
  <2> QED BY <2>2, <2>3 DEF TypeInvariant
<1>4. CASE WriteWebsites(h)
  <2>1. req[h] \in [read : SUBSET (Project \cup Website), row : Project, ids : SUBSET Website]
    BY <1>4, Holding DEF WriteWebsites
  <2>2. RowsTyped' BY <1>4, <2>1 DEF TypeInvariant, RowsTyped, WriteWebsites
  <2>3. { w \in Website : site'[w] # site[w] } \cup Moved \subseteq Project \cup Website BY DEF Moved
  <2>4. HandlersTyped' BY <1>4, <2>3, FinishTyped DEF WriteWebsites
  <2> QED BY <2>2, <2>4 DEF TypeInvariant
<1>5. CASE WriteWebsite(h)
  <2>1. req[h].row \in Website /\ req[h].to \in Project \cup {NoProject}
    BY <1>5, Holding DEF WriteWebsite
  <2>2. RowsTyped' BY <1>5, <2>1 DEF TypeInvariant, RowsTyped, WriteWebsite
  <2>3. {req[h].row} \cup Moved \subseteq Project \cup Website BY <2>1 DEF Moved
  <2>4. HandlersTyped' BY <1>5, <2>3, FinishTyped DEF WriteWebsite
  <2> QED BY <2>2, <2>4 DEF TypeInvariant
<1>6. CASE Abort(h)
  <2>1. RowsTyped' BY <1>6 DEF TypeInvariant, RowsTyped, Abort, rows
  <2>2. overtaken' \subseteq Handler /\ raced' = raced BY <1>6 DEF TypeInvariant, Abort, HandlersTyped
  <2>3. raced' \subseteq Request \cup Project \cup Website BY <2>2 DEF TypeInvariant, HandlersTyped
  <2>4. HandlersTyped' BY <1>6, <2>2, <2>3, IdleTyped DEF Abort
  <2> QED BY <2>1, <2>4 DEF TypeInvariant
<1> QED BY <1>1, <1>2, <1>3, <1>4, <1>5, <1>6 DEF Writes

LEMMA CreatesTyped ==
  ASSUME TypeInvariant, Creates
  PROVE  TypeInvariant'
<1> USE DEF TypeInvariant
<1>1. ASSUME NEW r \in Request, createRequest(r) PROVE TypeInvariant'
  BY <1>1 DEF RowsTyped, HandlersTyped, createRequest, ProjectRequestStatus
<1>2. ASSUME NEW p \in Project, createProject(p) PROVE TypeInvariant'
  BY <1>2 DEF RowsTyped, HandlersTyped, createProject
<1>3. ASSUME NEW w \in Website, NEW p \in Project \cup {NoProject}, createWebsite(w, p) PROVE TypeInvariant'
  BY <1>3 DEF RowsTyped, HandlersTyped, createWebsite
<1> QED BY <1>1, <1>2, <1>3 DEF Creates
-----------------------------------------------------------------------------
(* Requests match projects. *)

\* A read begins with what it has just found.
LEMMA BeginKeeps ==
  ASSUME RequestInvariant, NEW h \in Handler, NEW at \in Positions, NEW held, Begin(h, at, held),
         at \in decisions \cup {"approve"} => held.row \in held.read,
         at = "approve" => request[held.row].status = "pending",
         at \in decisions => held.status # "approved" /\ request[held.row].status \in {"pending", "needs_info"}
  PROVE  ReadsItsRow' /\ FreshFinds' /\ RowsMatch'
<1>1. UNCHANGED <<request, made, overtaken, raced>> BY DEF Begin, rows
<1>2. ASSUME NEW g \in Handler
      PROVE IF g = h THEN pc'[g] = at /\ req'[g] = held ELSE pc'[g] = pc[g] /\ req'[g] = req[g]
  BY DEF Begin, RequestInvariant, TypeInvariant, HandlersTyped
<1>3. ReadsItsRow' BY <1>2 DEF RequestInvariant, ReadsItsRow
<1>4. FreshFinds' BY <1>1, <1>2 DEF RequestInvariant, FreshFinds
<1>5. RowsMatch' BY <1>1 DEF RequestInvariant, RowsMatch, Matched
<1> QED BY <1>3, <1>4, <1>5

LEMMA ReadsKeep ==
  ASSUME RequestInvariant, NEW h \in Handler, Reads(h)
  PROVE  ReadsItsRow' /\ FreshFinds' /\ RowsMatch'
<1> DEFINE Kept == ReadsItsRow' /\ FreshFinds' /\ RowsMatch'
<1>1. ASSUME NEW r \in Request, ReadRequest(h, r) PROVE Kept
  <2>1. request[r].status \in {"pending", "needs_info"} BY <1>1 DEF ReadRequest, assertReviewable
  <2>2. ASSUME NEW at \in decisions, NEW status \in {"pending", "needs_info", "rejected"},
               Begin(h, at, [read |-> {r}, row |-> r, status |-> status])
        PROVE Kept
    <3>1. at \in Positions /\ at # "approve" BY DEF decisions, Positions
    <3> HIDE DEF Kept
    <3>2. /\ [read |-> {r}, row |-> r, status |-> status].row = r
          /\ [read |-> {r}, row |-> r, status |-> status].read = {r}
          /\ [read |-> {r}, row |-> r, status |-> status].status = status
      OBVIOUS
    <3> QED BY <2>1, <2>2, <3>1, <3>2, BeginKeeps DEF Kept
  <2> QED BY <1>1, <2>2 DEF ReadRequest, decisions
<1>2. ASSUME NEW r \in Request, ReadForApproval(h, r) PROVE Kept
  <2>1. "approve" \in Positions /\ "approve" \notin decisions BY DEF decisions, Positions
  <2> QED BY <1>2, <2>1, BeginKeeps DEF ReadForApproval
<1>3. ASSUME NEW at \in {"update_project", "updateWebsites", "addWebsite", "removeWebsite"}, NEW held, Begin(h, at, held)
      PROVE Kept
  <2>1. at \in Positions /\ at \notin decisions \cup {"approve"} BY DEF decisions, Positions
  <2> QED BY <1>3, <2>1, BeginKeeps
<1> QED BY <1>1, <1>2, <1>3 DEF Reads, ReadProject, ReadWebsites, ReadWebsite, ReadRemoval

\* A handler that ends leaves the others with what they hold; whoever read a row that was
\* written is overtaken.
LEMMA FinishKeeps ==
  ASSUME RequestInvariant, NEW h \in Handler, NEW written, Finish(h, written)
  PROVE  /\ ReadsItsRow'
         /\ \A g \in Handler \ overtaken' : pc'[g] # "idle" =>
              /\ pc'[g] = pc[g] /\ req'[g] = req[g] /\ g \notin overtaken
              /\ req[g].read \cap written = {}
<1>1. \A g \in Handler : IF g = h THEN pc'[g] = "idle" ELSE pc'[g] = pc[g] /\ req'[g] = req[g]
  BY DEF Finish, RequestInvariant, TypeInvariant, HandlersTyped
<1>2. ReadsItsRow' BY <1>1 DEF RequestInvariant, ReadsItsRow, decisions
<1>3. \A g \in Handler \ overtaken' : pc'[g] # "idle" => g \notin overtaken /\ req[g].read \cap written = {}
  BY <1>1 DEF Finish
<1> QED BY <1>1, <1>2, <1>3

\* A decision that was not overtaken finds a request without project and approves nothing;
\* an approval finds a pending one, which has no project.
LEMMA DecisionsKeep ==
  ASSUME RequestInvariant, NEW h \in Handler,
         WriteRequest(h) \/ \E p \in Project : CommitApproval(h, p)
  PROVE  ReadsItsRow' /\ FreshFinds' /\ RowsMatch'
<1>1. PICK row \in Request : row = req[h].row /\ Finish(h, {row})
  BY Holding DEF RequestInvariant, WriteRequest, CommitApproval, decisions
<1>2. \A r \in Request \ {row} : request'[r] = request[r] /\ made'[r] = made[r]
  BY <1>1 DEF WriteRequest, CommitApproval, RequestInvariant, TypeInvariant, RowsTyped
<1>3. ReadsItsRow' BY <1>1, FinishKeeps
<1>4. FreshFinds'
  <2> SUFFICES ASSUME NEW g \in Handler \ overtaken', pc'[g] \in decisions \cup {"approve"}
               PROVE  /\ pc'[g] = "approve" => request'[req'[g].row].status = "pending"
                      /\ pc'[g] \in decisions => request'[req'[g].row].status \in {"pending", "needs_info"}
    BY DEF FreshFinds
  <2>0. pc'[g] # "idle" BY DEF decisions
  <2>1. /\ pc'[g] = pc[g] /\ req'[g] = req[g] /\ g \notin overtaken
        /\ req[g].read \cap {row} = {}
    BY <1>1, <2>0, FinishKeeps
  <2>2. req[g].row \in Request /\ req[g].row # row
    BY <2>1, Holding DEF RequestInvariant, ReadsItsRow
  <2> QED BY <1>2, <2>1, <2>2 DEF RequestInvariant, FreshFinds
<1>5. raced \subseteq raced' BY <1>1 DEF Finish
<1>6. ASSUME row \notin raced' PROVE Matched(row)'
  <2>0. Matched(row) BY <1>1, <1>5, <1>6 DEF RequestInvariant, RowsMatch
  <2>1. CASE WriteRequest(h)
    <3>1. h \notin overtaken /\ pc[h] \in decisions
      BY <1>1, <1>6, <2>1 DEF Finish, WriteRequest, decisions
    <3>2. request[row].status \in {"pending", "needs_info"} /\ req[h].status # "approved"
      BY <1>1, <3>1 DEF RequestInvariant, FreshFinds, ReadsItsRow
    <3>3. made[row] = {} BY <2>0, <3>2, Matching
    <3>4. made' = made /\ request'[row].status = req[h].status
      BY <1>1, <2>1 DEF WriteRequest, RequestInvariant, TypeInvariant, RowsTyped
    <3> QED BY <3>2, <3>3, <3>4 DEF Matched
  <2>2. ASSUME NEW p \in Project, CommitApproval(h, p) PROVE Matched(row)'
    <3>1. request[row].status = "pending" BY <1>1, <2>2 DEF CommitApproval, RequestInvariant, FreshFinds
    <3>2. made[row] = {} BY <2>0, <3>1, Matching
    <3>3. made'[row] = {p}
      BY <1>1, <2>2, <3>2 DEF CommitApproval, RequestInvariant, TypeInvariant, RowsTyped
    <3>4. request'[row] = [status |-> "approved", project |-> p]
      BY <1>1, <2>2 DEF CommitApproval, RequestInvariant, TypeInvariant, RowsTyped
    <3> QED BY <3>3, <3>4 DEF Matched
  <2> QED BY <2>1, <2>2
<1>7. ASSUME NEW r \in Request \ {row}, r \notin raced' PROVE Matched(r)'
  <2>1. Matched(r) BY <1>5, <1>7 DEF RequestInvariant, RowsMatch
  <2>2. request'[r] = request[r] /\ made'[r] = made[r] BY <1>2
  <2> QED BY <2>1, <2>2 DEF Matched
<1>8. RowsMatch' BY <1>6, <1>7 DEF RowsMatch
<1> QED BY <1>3, <1>4, <1>8

\* Writes of projects and websites, and a handler that is refused, touch no request.
LEMMA OthersKeep ==
  ASSUME RequestInvariant, NEW h \in Handler,
         WriteProject(h) \/ WriteWebsites(h) \/ WriteWebsite(h) \/ Abort(h)
  PROVE  ReadsItsRow' /\ FreshFinds' /\ RowsMatch'
<1>1. request' = request /\ made' = made BY DEF WriteProject, WriteWebsites, WriteWebsite, Abort, rows
<1>2. raced \subseteq raced' BY DEF WriteProject, WriteWebsites, WriteWebsite, Abort, Finish
<1>3. \A g \in Handler : pc'[g] # "idle" => pc'[g] = pc[g] /\ req'[g] = req[g] /\ (g \in overtaken => g \in overtaken')
  BY DEF WriteProject, WriteWebsites, WriteWebsite, Abort, Finish, RequestInvariant, TypeInvariant, HandlersTyped
<1>4. ReadsItsRow' BY <1>3 DEF RequestInvariant, ReadsItsRow, decisions
<1>5. FreshFinds' BY <1>1, <1>3 DEF RequestInvariant, FreshFinds, decisions
<1>6. RowsMatch' BY <1>1, <1>2 DEF RequestInvariant, RowsMatch, Matched
<1> QED BY <1>4, <1>5, <1>6

\* A row that is created was read by nobody.
LEMMA CreatesKeep ==
  ASSUME RequestInvariant, Creates
  PROVE  ReadsItsRow' /\ FreshFinds' /\ RowsMatch'
<1>1. UNCHANGED <<made, pc, req, raced>> /\ overtaken \subseteq overtaken'
  BY DEF Creates, createRequest, createProject, createWebsite
<1>2. ReadsItsRow' BY <1>1 DEF RequestInvariant, ReadsItsRow
<1>3. CASE request' = request
  BY <1>1, <1>2, <1>3 DEF RequestInvariant, FreshFinds, RowsMatch, Matched
<1>4. ASSUME NEW r \in Request, createRequest(r) PROVE FreshFinds' /\ RowsMatch'
  <2>1. /\ request[r].status = "none" /\ request'[r].status = "pending"
        /\ \A x \in Request \ {r} : request'[x] = request[x]
    BY <1>4 DEF createRequest, RequestInvariant, TypeInvariant, RowsTyped
  <2>2. FreshFinds'
    <3> SUFFICES ASSUME NEW g \in Handler \ overtaken, pc[g] \in decisions \cup {"approve"}
                 PROVE  request'[req[g].row] = request[req[g].row]
      BY <1>1 DEF RequestInvariant, FreshFinds, decisions
    <3>1. req[g].row \in Request BY Holding DEF RequestInvariant
    <3>2. req[g].row # r BY <2>1 DEF RequestInvariant, FreshFinds
    <3>3. \A x \in Request : x # r => request'[x] = request[x] BY <2>1
    <3> QED BY <3>1, <3>2, <3>3
  <2>3. RowsMatch'
    <3>1. r \notin raced => made[r] = {} BY <2>1, Matching DEF RequestInvariant, RowsMatch
    <3> QED BY <1>1, <2>1, <3>1 DEF RequestInvariant, RowsMatch, Matched
  <2> QED BY <2>2, <2>3
<1> QED BY <1>2, <1>3, <1>4 DEF Creates, createProject, createWebsite
-----------------------------------------------------------------------------
\* The invariant holds: initially nothing was read or made, and no step breaks it.
LEMMA Inductive == Spec => []RequestInvariant
<1>1. Init => RequestInvariant
  <2> SUFFICES ASSUME Init PROVE RequestInvariant OBVIOUS
  <2>1. RowsTyped BY DEF Init, RowsTyped
  <2>2. HandlersTyped
    <3>1. pc \in [Handler -> Positions] BY DEF Init, Positions
    <3>2. \A h \in Handler : req[h] \in Held(pc[h]) BY DEF Init, Held
    <3> QED BY <3>1, <3>2 DEF Init, HandlersTyped
  <2>3. ReadsItsRow /\ FreshFinds BY DEF Init, ReadsItsRow, FreshFinds, decisions
  <2>4. RowsMatch BY DEF Init, RowsMatch, Matched
  <2> QED BY <2>1, <2>2, <2>3, <2>4 DEF RequestInvariant, TypeInvariant
<1>2. RequestInvariant /\ [Next]_vars => RequestInvariant'
  <2> SUFFICES ASSUME RequestInvariant, [Next]_vars PROVE RequestInvariant' OBVIOUS
  <2>0. TypeInvariant BY DEF RequestInvariant
  <2>1. CASE Creates BY <2>0, <2>1, CreatesTyped, CreatesKeep DEF RequestInvariant
  <2>2. ASSUME NEW h \in Handler, Reads(h) PROVE RequestInvariant'
    BY <2>0, <2>2, ReadsTyped, ReadsKeep DEF RequestInvariant
  <2>3. ASSUME NEW h \in Handler, Writes(h) PROVE RequestInvariant'
    <3>1. TypeInvariant' BY <2>0, <2>3, WritesTyped
    <3>2. ReadsItsRow' /\ FreshFinds' /\ RowsMatch' BY <2>3, DecisionsKeep, OthersKeep DEF Writes
    <3> QED BY <3>1, <3>2 DEF RequestInvariant
  <2>4. CASE UNCHANGED vars
    BY <2>4 DEF vars, RequestInvariant, TypeInvariant, RowsTyped, HandlersTyped, ReadsItsRow, FreshFinds, RowsMatch, Matched
  <2> QED BY <2>1, <2>2, <2>3, <2>4 DEF Next
<1> QED BY <1>1, <1>2, PTL DEF Spec

\* Every approved request has one project and shows it, every other has none, for any
\* number of reviewers, unless a handler that reads outside a transaction was overtaken.
THEOREM RequestsAndProjectsMatch == Spec => []RequestsMatchProjects
<1>1. RequestInvariant => RequestsMatchProjects
  <2> SUFFICES ASSUME RequestInvariant PROVE RequestsMatchProjects OBVIOUS
  <2>1. TypeOK BY DEF RequestInvariant, TypeInvariant, RowsTyped, HandlersTyped, TypeOK
  <2>2. OneProjectPerRequest
    <3> SUFFICES ASSUME NEW r \in Request, r \notin raced PROVE Cardinality(made[r]) <= 1
      BY DEF OneProjectPerRequest
    <3>1. CASE made[r] = {}
      <4>1. Cardinality(made[r]) = 0 BY <3>1, FS_EmptySet
      <4> QED BY <4>1
    <3>2. ASSUME NEW p \in Project, made[r] = {p} PROVE Cardinality(made[r]) <= 1
      <4>1. Cardinality({p}) = 1 BY FS_Singleton
      <4> QED BY <3>2, <4>1
    <3> QED BY <3>1, <3>2, Matching DEF RequestInvariant, RowsMatch
  <2>3. ApprovedShowsProject
    BY Matching DEF RequestInvariant, RowsMatch, ApprovedShowsProject
  <2> QED BY <2>1, <2>2, <2>3 DEF RequestsMatchProjects
<1> QED BY <1>1, Inductive, PTL

\* A decided request is changed only by one who read it before it was decided, outside a
\* transaction: whoever was not overtaken finds it undecided.
THEOREM DecisionsStand == Spec => DecisionIsFinal
<1> DEFINE Stands == \A r \in Request : request[r].status \in {"approved", "rejected"} /\ request'[r] # request[r] =>
                       \E h \in overtaken : pc[h] # "approve" /\ pc'[h] = "idle"
<1>1. RequestInvariant /\ [Next]_vars => Stands
  <2> SUFFICES ASSUME RequestInvariant, [Next]_vars,
                      NEW r \in Request, request[r].status \in {"approved", "rejected"}, request'[r] # request[r]
               PROVE  \E h \in overtaken : pc[h] # "approve" /\ pc'[h] = "idle"
    OBVIOUS
  <2>1. ~Creates
    BY DEF Creates, createRequest, createProject, createWebsite, RequestInvariant, TypeInvariant, RowsTyped
  <2>2. ASSUME NEW h \in Handler PROVE ~Reads(h)
    BY DEF Reads, ReadRequest, ReadForApproval, ReadProject, ReadWebsites, ReadWebsite, ReadRemoval, Begin, rows
  <2>3. PICK h \in Handler : WriteRequest(h) \/ \E p \in Project : CommitApproval(h, p)
    BY <2>1, <2>2 DEF Next, Writes, WriteProject, WriteWebsites, WriteWebsite, Abort, rows, vars
  <2>4. r = req[h].row
    BY <2>3 DEF WriteRequest, CommitApproval, RequestInvariant, TypeInvariant, RowsTyped
  <2>5. pc'[h] = "idle"
    BY <2>3 DEF WriteRequest, CommitApproval, Finish, RequestInvariant, TypeInvariant, HandlersTyped
  <2>6. CASE WriteRequest(h)
    <3>1. pc[h] \in decisions BY <2>6 DEF WriteRequest, decisions
    <3>2. h \in overtaken BY <2>4, <3>1 DEF RequestInvariant, FreshFinds
    <3> QED BY <2>5, <3>1, <3>2 DEF decisions
  <2>7. CASE \E p \in Project : CommitApproval(h, p)
    BY <2>4, <2>7 DEF CommitApproval, RequestInvariant, FreshFinds
  <2> QED BY <2>3, <2>6, <2>7
<1> QED BY <1>1, Inductive, PTL DEF Spec, DecisionIsFinal
-----------------------------------------------------------------------------
(* Projects keep their websites. *)

\* A step leaves rows alone: no project among them is activated, gains or loses a website,
\* and no website among them moves.
LeavesAlone(some) ==
  /\ \A p \in some \cap Project :
       /\ project'[p] = "active" => project[p] = "active"
       /\ \A w \in Website : (site'[w] = p) <=> (site[w] = p)
  /\ \A w \in some \cap Website : site'[w] = site[w]

\* A handler that holds what it held, and whose rows a step leaves alone, finds what it found.
LEMMA StillFinds ==
  ASSUME TypeInvariant, NEW h \in Handler, FindsSites(h),
         pc'[h] = pc[h], req'[h] = req[h], LeavesAlone(req[h].read)
  PROVE  FindsSites(h)'
<1>1. ASSUME pc[h] = "update_project"
      PROVE  req[h].row \in req[h].read /\ (req[h].status = "active" => Sites(req[h].row)' # {})
  <2>1. PICK p \in Project : p = req[h].row /\ p \in req[h].read BY <1>1, Holding DEF FindsSites
  <2>2. \A w \in Website : (site'[w] = p) <=> (site[w] = p) BY <2>1 DEF LeavesAlone
  <2> QED BY <1>1, <2>1, <2>2 DEF FindsSites, Sites
<1>2. ASSUME pc[h] = "updateWebsites"
      PROVE  /\ {req[h].row} \cup req[h].ids \subseteq req[h].read
             /\ project'[req[h].row] = "active" => req[h].ids # {}
             /\ \A w \in req[h].ids : site'[w] \in {NoProject, req[h].row}
  <2>1. req[h].row \in Project /\ req[h].ids \subseteq Website BY <1>2, Holding
  <2>2. req[h].row \in req[h].read /\ req[h].ids \subseteq req[h].read BY <1>2 DEF FindsSites
  <2>3. \A w \in req[h].ids : site'[w] = site[w] BY <2>1, <2>2 DEF LeavesAlone
  <2>4. project'[req[h].row] = "active" => project[req[h].row] = "active" BY <2>1, <2>2 DEF LeavesAlone
  <2> QED BY <1>2, <2>2, <2>3, <2>4 DEF FindsSites
<1>3. ASSUME pc[h] = "addWebsite"
      PROVE  {req[h].row, req[h].to} \subseteq req[h].read /\ site'[req[h].row] \in {NoProject, req[h].to}
  <2>1. req[h].row \in Website /\ req[h].row \in req[h].read BY <1>3, Holding DEF FindsSites
  <2>2. site'[req[h].row] = site[req[h].row] BY <2>1 DEF LeavesAlone
  <2> QED BY <1>3, <2>2 DEF FindsSites
<1>4. ASSUME pc[h] = "removeWebsite"
      PROVE  /\ {req[h].row, site'[req[h].row]} \subseteq req[h].read /\ site'[req[h].row] \in Project
             /\ project'[site'[req[h].row]] = "active" =>
                  \E w \in Website \ {req[h].row} : site'[w] = site'[req[h].row]
  <2>1. req[h].row \in Website /\ req[h].row \in req[h].read BY <1>4, Holding DEF FindsSites
  <2>2. PICK p \in Project : p = site[req[h].row] /\ p \in req[h].read BY <1>4 DEF FindsSites
  <2>3. site'[req[h].row] = p BY <2>1, <2>2 DEF LeavesAlone
  <2>4. /\ project'[p] = "active" => project[p] = "active"
        /\ \A w \in Website : (site'[w] = p) <=> (site[w] = p)
    BY <2>2 DEF LeavesAlone
  <2>5. project[p] = "active" => \E w \in Website \ {req[h].row} : site[w] = p BY <1>4, <2>2 DEF FindsSites
  <2> QED BY <2>1, <2>2, <2>3, <2>4, <2>5
<1> QED BY <1>1, <1>2, <1>3, <1>4 DEF FindsSites

\* An active project that is left alone keeps a website.
LEMMA StillHas ==
  ASSUME NEW p \in Project, LeavesAlone({p}), project[p] = "active" => Sites(p) # {}
  PROVE  project'[p] = "active" => Sites(p)' # {}
BY DEF LeavesAlone, Sites

\* A read begins with what it has just found, and touches no row.
LEMMA BeginFinds ==
  ASSUME WebsiteInvariant, NEW h \in Handler, NEW at, NEW held, Begin(h, at, held), FindsSites(h)'
  PROVE  FreshFindsSites' /\ ActiveHasWebsite'
<1>1. UNCHANGED <<project, site, overtaken, raced>> BY DEF Begin, rows
<1>2. ASSUME NEW g \in Handler \ overtaken, g # h PROVE FindsSites(g)'
  <2>1. pc'[g] = pc[g] /\ req'[g] = req[g] BY <1>2 DEF Begin, WebsiteInvariant, TypeInvariant, HandlersTyped
  <2>2. LeavesAlone(req[g].read) BY <1>1 DEF LeavesAlone
  <2>3. FindsSites(g) BY <1>2 DEF WebsiteInvariant, FreshFindsSites
  <2> QED BY <2>1, <2>2, <2>3, StillFinds DEF WebsiteInvariant
<1>3. FreshFindsSites' BY <1>1, <1>2 DEF FreshFindsSites
<1>4. ActiveHasWebsite' BY <1>1 DEF WebsiteInvariant, ActiveHasWebsite, Sites
<1> QED BY <1>3, <1>4

LEMMA ReadsFind ==
  ASSUME WebsiteInvariant, NEW h \in Handler, Reads(h)
  PROVE  FreshFindsSites' /\ ActiveHasWebsite'
<1> DEFINE Kept == FreshFindsSites' /\ ActiveHasWebsite'
<1>0. ASSUME NEW at, NEW held, Begin(h, at, held)
      PROVE  pc'[h] = at /\ req'[h] = held /\ project' = project /\ site' = site
  BY <1>0 DEF Begin, rows, WebsiteInvariant, TypeInvariant, HandlersTyped
<1>1. ASSUME NEW at \in decisions \cup {"approve"}, NEW held, Begin(h, at, held) PROVE Kept
  <2>1. FindsSites(h)' BY <1>0, <1>1 DEF FindsSites, decisions
  <2> QED BY <1>1, <2>1, BeginFinds
<1>2. ASSUME NEW p \in Project, NEW status \in EditStatuses, ReadProject(h, p, status) PROVE Kept
  <2>1. FindsSites(h)' BY <1>0, <1>2 DEF ReadProject, FindsSites, Sites
  <2> QED BY <1>2, <2>1, BeginFinds DEF ReadProject
<1>3. ASSUME NEW p \in Project, NEW ids \in SUBSET Website, ReadWebsites(h, p, ids) PROVE Kept
  <2>1. FindsSites(h)' BY <1>0, <1>3 DEF ReadWebsites, FindsSites
  <2> QED BY <1>3, <2>1, BeginFinds DEF ReadWebsites
<1>4. ASSUME NEW p \in Project, NEW w \in Website, ReadWebsite(h, p, w) PROVE Kept
  <2>1. FindsSites(h)' BY <1>0, <1>4 DEF ReadWebsite, FindsSites
  <2> QED BY <1>4, <2>1, BeginFinds DEF ReadWebsite
<1>5. ASSUME NEW p \in Project, NEW w \in Website, ReadRemoval(h, p, w) PROVE Kept
  <2>1. site[w] = p /\ (project[p] = "active" => \E v \in Website \ {w} : site[v] = p)
    <3>1. ASSUME \A v \in Website \ {w} : site[v] # p PROVE ~(Cardinality(Sites(p)) > 1)
      <4>1. Sites(p) = {w} BY <1>5, <3>1 DEF ReadRemoval, Sites
      <4>2. Cardinality({w}) = 1 BY FS_Singleton
      <4> QED BY <4>1, <4>2
    <3> QED BY <1>5, <3>1 DEF ReadRemoval
  <2>2. FindsSites(h)' BY <1>0, <1>5, <2>1 DEF ReadRemoval, FindsSites
  <2> QED BY <1>5, <2>2, BeginFinds DEF ReadRemoval
<1> QED BY <1>1, <1>2, <1>3, <1>4, <1>5 DEF Reads, ReadRequest, ReadForApproval, decisions

\* A step that leaves alone whatever is not among the rows it writes: those who read one
\* are overtaken, so that it is for the written projects to show that they keep a website.
LEMMA WrittenKeep ==
  ASSUME WebsiteInvariant, NEW h \in Handler, NEW written, Finish(h, written),
         \A some : some \cap written = {} => LeavesAlone(some),
         \A p \in Project : p \in written /\ p \notin raced' /\ project'[p] = "active" => Sites(p)' # {}
  PROVE  FreshFindsSites' /\ ActiveHasWebsite'
<1>1. \A g \in Handler : IF g = h THEN pc'[g] = "idle" ELSE pc'[g] = pc[g] /\ req'[g] = req[g]
  BY DEF Finish, WebsiteInvariant, TypeInvariant, HandlersTyped
<1>2. ASSUME NEW g \in Handler, g \notin overtaken' PROVE FindsSites(g)'
  <2>1. CASE pc'[g] = "idle" BY <2>1 DEF FindsSites
  <2>2. CASE pc'[g] # "idle"
    <3>1. pc'[g] = pc[g] /\ req'[g] = req[g] /\ g # h BY <1>1, <2>2
    <3>2. g \notin overtaken /\ req[g].read \cap written = {} BY <1>2, <2>2, <3>1 DEF Finish
    <3>3. LeavesAlone(req[g].read) BY <3>2
    <3>4. FindsSites(g) BY <3>2 DEF WebsiteInvariant, FreshFindsSites
    <3> QED BY <3>1, <3>3, <3>4, StillFinds DEF WebsiteInvariant
  <2> QED BY <2>1, <2>2
<1>3. ASSUME NEW p \in Project, p \notin raced', p \notin written PROVE project'[p] = "active" => Sites(p)' # {}
  <2>1. p \notin raced BY <1>3 DEF Finish
  <2>2. LeavesAlone({p})
    <3>1. {p} \cap written = {} BY <1>3
    <3> QED BY <3>1
  <2>3. project[p] = "active" => Sites(p) # {} BY <2>1 DEF WebsiteInvariant, ActiveHasWebsite
  <2> QED BY <2>2, <2>3, StillHas
<1> QED BY <1>2, <1>3 DEF FreshFindsSites, ActiveHasWebsite

\* Requests, and the drafts that approvals create, leave every website alone.
LEMMA RequestsLeaveSites ==
  ASSUME WebsiteInvariant, NEW h \in Handler,
         WriteRequest(h) \/ \E p \in Project : CommitApproval(h, p)
  PROVE  FreshFindsSites' /\ ActiveHasWebsite'
<1>1. site' = site /\ \A p \in Project : project'[p] = "active" => project[p] = "active"
  BY DEF WriteRequest, CommitApproval, WebsiteInvariant, TypeInvariant, RowsTyped
<1>2. \A some : LeavesAlone(some) BY <1>1 DEF LeavesAlone
<1>3. PICK row \in Request : Finish(h, {row})
  BY Holding DEF WebsiteInvariant, WriteRequest, CommitApproval, decisions
<1>4. \A p \in Project : p \notin {row} BY NamesAssumption
<1> QED BY <1>2, <1>3, <1>4, WrittenKeep

\* An activation that was not overtaken finds the website it read.
LEMMA ActivationKeeps ==
  ASSUME WebsiteInvariant, NEW h \in Handler, WriteProject(h)
  PROVE  FreshFindsSites' /\ ActiveHasWebsite'
<1>1. PICK row \in Project : row = req[h].row BY Holding DEF WebsiteInvariant, WriteProject
<1>2. /\ site' = site /\ project'[row] = req[h].status /\ Finish(h, {row})
      /\ \A p \in Project \ {row} : project'[p] = project[p]
  BY <1>1 DEF WriteProject, WebsiteInvariant, TypeInvariant, RowsTyped
<1>3. ASSUME NEW some, some \cap {row} = {} PROVE LeavesAlone(some) BY <1>2, <1>3 DEF LeavesAlone
<1>4. ASSUME row \notin raced', project'[row] = "active" PROVE Sites(row)' # {}
  <2>1. h \notin overtaken BY <1>2, <1>4 DEF Finish, WriteProject
  <2>2. Sites(row) # {} BY <1>1, <1>2, <1>4, <2>1 DEF WebsiteInvariant, FreshFindsSites, FindsSites, WriteProject
  <2> QED BY <1>2, <2>2 DEF Sites
<1> QED BY <1>2, <1>3, <1>4, WrittenKeep

\* What a write of websites leaves alone: those that stay, and the projects they do not
\* move between.
LEMMA MovesLeaveAlone ==
  ASSUME NEW some, project' = project, some \cap Moved = {}, \A w \in some \cap Website : site'[w] = site[w]
  PROVE  LeavesAlone(some)
BY DEF LeavesAlone, Moved

\* A list of websites that was not overtaken takes none from another project, and is not
\* empty for an active one.
LEMMA ListKeeps ==
  ASSUME WebsiteInvariant, NEW h \in Handler, WriteWebsites(h)
  PROVE  FreshFindsSites' /\ ActiveHasWebsite'
<1> DEFINE written == { w \in Website : site'[w] # site[w] } \cup Moved
<1>1. PICK row \in Project, ids \in SUBSET Website : row = req[h].row /\ ids = req[h].ids
  BY Holding DEF WebsiteInvariant, WriteWebsites
<1>2. /\ project' = project /\ Finish(h, written)
      /\ \A w \in Website : site'[w] = IF w \in ids THEN row ELSE IF site[w] = row THEN NoProject ELSE site[w]
  BY <1>1 DEF WriteWebsites
<1>3. ASSUME NEW some, some \cap written = {} PROVE LeavesAlone(some)
  BY <1>2, <1>3, MovesLeaveAlone
<1>4. ASSUME NEW p \in Project, p \in written, p \notin raced', project'[p] = "active" PROVE Sites(p)' # {}
  <2>1. h \notin overtaken /\ pc[h] = "updateWebsites" BY <1>2, <1>4 DEF Finish, WriteWebsites
  <2>2. /\ project[row] = "active" => ids # {}
        /\ \A w \in ids : site[w] \in {NoProject, row}
    BY <1>1, <2>1 DEF WebsiteInvariant, FreshFindsSites, FindsSites
  <2>3. p \in Moved BY <1>4, NamesAssumption
  <2>4. p = row BY <1>2, <2>2, <2>3, NamesAssumption DEF Moved
  <2>5. PICK w \in ids : TRUE BY <1>2, <1>4, <2>2, <2>4
  <2>6. w \in Website /\ site'[w] = p BY <1>2, <2>4, <2>5
  <2> QED BY <2>6 DEF Sites
<1> QED BY <1>2, <1>3, <1>4, WrittenKeep

\* An addition that was not overtaken takes the website from no other project; a removal
\* leaves an active project the other website it counted.
LEMMA MoveKeeps ==
  ASSUME WebsiteInvariant, NEW h \in Handler, WriteWebsite(h)
  PROVE  FreshFindsSites' /\ ActiveHasWebsite'
<1>1. PICK row \in Website, to \in Project \cup {NoProject} : row = req[h].row /\ to = req[h].to
  BY Holding DEF WebsiteInvariant, WriteWebsite
<1>2. /\ project' = project /\ Finish(h, {row} \cup Moved) /\ site'[row] = to
      /\ \A w \in Website \ {row} : site'[w] = site[w]
  BY <1>1 DEF WriteWebsite, WebsiteInvariant, TypeInvariant, RowsTyped
<1>3. ASSUME NEW some, some \cap ({row} \cup Moved) = {} PROVE LeavesAlone(some)
  <2>1. \A w \in some \cap Website : site'[w] = site[w] BY <1>2, <1>3
  <2> QED BY <1>2, <1>3, <2>1, MovesLeaveAlone
<1>4. ASSUME NEW p \in Project, p \in {row} \cup Moved, p \notin raced', project'[p] = "active" PROVE Sites(p)' # {}
  <2>1. h \notin overtaken BY <1>2, <1>4 DEF Finish, WriteWebsite
  <2>2. p \in Moved BY <1>4, NamesAssumption
  <2>3. site[row] = p \/ to = p BY <1>2, <2>2 DEF Moved
  <2>4. CASE to = p BY <1>2, <2>4 DEF Sites
  <2>5. CASE to # p /\ pc[h] = "addWebsite"
    <3>1. site[row] \in {NoProject, to} BY <1>1, <2>1, <2>5 DEF WebsiteInvariant, FreshFindsSites, FindsSites
    <3> QED BY <2>3, <2>5, <3>1, NamesAssumption
  <2>6. CASE to # p /\ pc[h] = "removeWebsite"
    <3>1. PICK v \in Website \ {row} : site[v] = p
      BY <1>1, <1>2, <1>4, <2>1, <2>3, <2>6 DEF WebsiteInvariant, FreshFindsSites, FindsSites
    <3>2. site'[v] = p BY <1>2, <3>1
    <3> QED BY <3>2 DEF Sites
  <2> QED BY <2>4, <2>5, <2>6 DEF WriteWebsite
<1> QED BY <1>2, <1>3, <1>4, WrittenKeep

\* A handler that is refused changes nothing; what is created is no active project, and a
\* website of no project before.
LEMMA RefusalKeeps ==
  ASSUME WebsiteInvariant, NEW h \in Handler, Abort(h)
  PROVE  FreshFindsSites' /\ ActiveHasWebsite'
<1>1. UNCHANGED <<project, site, raced>> BY DEF Abort, rows
<1>2. ASSUME NEW g \in Handler, g \notin overtaken' PROVE FindsSites(g)'
  <2>1. CASE g = h
    <3>1. pc'[g] = "idle" BY <2>1 DEF Abort, WebsiteInvariant, TypeInvariant, HandlersTyped
    <3> QED BY <3>1 DEF FindsSites
  <2>2. CASE g # h
    <3>1. pc'[g] = pc[g] /\ req'[g] = req[g] /\ g \notin overtaken
      BY <1>2, <2>2 DEF Abort, WebsiteInvariant, TypeInvariant, HandlersTyped
    <3>2. LeavesAlone(req[g].read) BY <1>1 DEF LeavesAlone
    <3>3. FindsSites(g) BY <3>1 DEF WebsiteInvariant, FreshFindsSites
    <3> QED BY <3>1, <3>2, <3>3, StillFinds DEF WebsiteInvariant
  <2> QED BY <2>1, <2>2
<1>3. ActiveHasWebsite' BY <1>1 DEF WebsiteInvariant, ActiveHasWebsite, Sites
<1> QED BY <1>2, <1>3 DEF FreshFindsSites

LEMMA CreationsKeep ==
  ASSUME WebsiteInvariant, Creates
  PROVE  FreshFindsSites' /\ ActiveHasWebsite'
<1>1. UNCHANGED <<pc, req, raced>> BY DEF Creates, createRequest, createProject, createWebsite
<1>2. ASSUME NEW g \in Handler, g \notin overtaken, LeavesAlone(req[g].read) PROVE FindsSites(g)'
  <2>1. FindsSites(g) BY <1>2 DEF WebsiteInvariant, FreshFindsSites
  <2> QED BY <1>1, <1>2, <2>1, StillFinds DEF WebsiteInvariant
<1>3. CASE \/ \E r \in Request : createRequest(r)
           \/ \E p \in Project : createProject(p)
  <2>1. /\ site' = site /\ overtaken' = overtaken
        /\ \A p \in Project : project'[p] = "active" => project[p] = "active"
    BY <1>3 DEF createRequest, createProject, WebsiteInvariant, TypeInvariant, RowsTyped
  <2>2. \A some : LeavesAlone(some) BY <2>1 DEF LeavesAlone
  <2>3. FreshFindsSites' BY <1>2, <2>1, <2>2 DEF FreshFindsSites
  <2>4. ActiveHasWebsite' BY <1>1, <2>1 DEF WebsiteInvariant, ActiveHasWebsite, Sites
  <2> QED BY <2>3, <2>4
<1>4. ASSUME NEW w \in Website, NEW p \in Project \cup {NoProject}, createWebsite(w, p)
      PROVE  FreshFindsSites' /\ ActiveHasWebsite'
  <2>1. /\ project' = project /\ site[w] = NoSite /\ site'[w] = p
        /\ \A v \in Website \ {w} : site'[v] = site[v]
    BY <1>4 DEF createWebsite, WebsiteInvariant, TypeInvariant, RowsTyped
  <2>2. ASSUME NEW g \in Handler, g \notin overtaken' PROVE FindsSites(g)'
    <3>1. CASE pc[g] = "idle" BY <1>1, <3>1 DEF FindsSites
    <3>2. CASE pc[g] # "idle"
      <4>1. g \notin overtaken /\ req[g].read \cap {w, p} = {} BY <1>4, <2>2, <3>2 DEF createWebsite
      <4>2. LeavesAlone(req[g].read) BY <2>1, <4>1, NamesAssumption DEF LeavesAlone
      <4> QED BY <1>2, <4>1, <4>2
    <3> QED BY <3>1, <3>2
  <2>3. \A q \in Project : Sites(q) \subseteq Sites(q)' BY <2>1, NamesAssumption DEF Sites
  <2>4. ActiveHasWebsite' BY <1>1, <2>1, <2>3 DEF WebsiteInvariant, ActiveHasWebsite
  <2> QED BY <2>2, <2>4 DEF FreshFindsSites
<1> QED BY <1>3, <1>4 DEF Creates

LEMMA WebsitesInductive == Spec => []WebsiteInvariant
<1>1. RequestInvariant /\ Init => WebsiteInvariant
  BY DEF RequestInvariant, WebsiteInvariant, Init, FreshFindsSites, FindsSites, ActiveHasWebsite
<1>2. WebsiteInvariant /\ RequestInvariant' /\ [Next]_vars => WebsiteInvariant'
  <2> SUFFICES ASSUME WebsiteInvariant, RequestInvariant', [Next]_vars
               PROVE  FreshFindsSites' /\ ActiveHasWebsite'
    BY DEF WebsiteInvariant, RequestInvariant
  <2>1. CASE Creates BY <2>1, CreationsKeep
  <2>2. ASSUME NEW h \in Handler, Reads(h) PROVE FreshFindsSites' /\ ActiveHasWebsite'
    BY <2>2, ReadsFind
  <2>3. ASSUME NEW h \in Handler, Writes(h) PROVE FreshFindsSites' /\ ActiveHasWebsite'
    BY <2>3, RequestsLeaveSites, ActivationKeeps, ListKeeps, MoveKeeps, RefusalKeeps DEF Writes
  <2>4. CASE UNCHANGED vars
    BY <2>4 DEF vars, WebsiteInvariant, FreshFindsSites, FindsSites, ActiveHasWebsite, Sites
  <2> QED BY <2>1, <2>2, <2>3, <2>4 DEF Next
<1> QED BY <1>1, <1>2, Inductive, PTL DEF Spec

\* An active project is never left without a website, and no project loses one to another,
\* whoever edits projects and websites meanwhile, unless a handler that was overtaken writes.
THEOREM WebsitesStay == Spec => ProjectsKeepWebsites
<1> DEFINE NotTaken == \A w \in Website : site[w] \in Project /\ site'[w] \in Project /\ site'[w] # site[w] =>
                         \E h \in overtaken : pc'[h] = "idle"
<1>1. WebsiteInvariant => ActiveHasWebsite BY DEF WebsiteInvariant
<1>2. WebsiteInvariant /\ [Next]_vars => NotTaken
  <2> SUFFICES ASSUME WebsiteInvariant, [Next]_vars, NEW w \in Website,
                      site[w] \in Project, site'[w] \in Project, site'[w] # site[w]
               PROVE  \E h \in overtaken : pc'[h] = "idle"
    OBVIOUS
  <2>1. ~Creates
    BY NamesAssumption DEF Creates, createRequest, createProject, createWebsite, WebsiteInvariant, TypeInvariant, RowsTyped
  <2>2. ASSUME NEW h \in Handler PROVE ~Reads(h)
    BY DEF Reads, ReadRequest, ReadForApproval, ReadProject, ReadWebsites, ReadWebsite, ReadRemoval, Begin, rows
  <2>3. PICK h \in Handler : WriteWebsites(h) \/ WriteWebsite(h)
    BY <2>1, <2>2 DEF Next, Writes, WriteRequest, CommitApproval, WriteProject, Abort, rows, vars
  <2>4. pc'[h] = "idle"
    BY <2>3 DEF WriteWebsites, WriteWebsite, Finish, WebsiteInvariant, TypeInvariant, HandlersTyped
  <2>5. CASE WriteWebsites(h)
    <3>1. w \in req[h].ids /\ site'[w] = req[h].row
      BY <2>5, NamesAssumption DEF WriteWebsites
    <3>2. h \in overtaken
      BY <2>5, <3>1, NamesAssumption DEF WriteWebsites, WebsiteInvariant, FreshFindsSites, FindsSites
    <3> QED BY <2>4, <3>2
  <2>6. CASE WriteWebsite(h)
    <3>1. w = req[h].row /\ site'[w] = req[h].to
      BY <2>6 DEF WriteWebsite, WebsiteInvariant, TypeInvariant, RowsTyped
    <3>2. CASE pc[h] = "addWebsite"
      BY <2>4, <3>1, <3>2, NamesAssumption DEF WebsiteInvariant, FreshFindsSites, FindsSites
    <3>3. CASE pc[h] = "removeWebsite"
      <4>1. req[h] \in [read : SUBSET (Project \cup Website), row : Website, to : {NoProject}]
        BY <3>3, HeldAt DEF WebsiteInvariant, TypeInvariant, HandlersTyped
      <4>2. req[h].to = NoProject BY <4>1
      <4> QED BY <3>1, <4>2, NamesAssumption
    <3> QED BY <2>6, <3>2, <3>3 DEF WriteWebsite
  <2> QED BY <2>3, <2>5, <2>6
<1> QED BY <1>1, <1>2, WebsitesInductive, PTL DEF Spec, ProjectsKeepWebsites, WebsiteNotTaken
=============================================================================
