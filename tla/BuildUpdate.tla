---------------------------- MODULE BuildUpdate ----------------------------
(***************************************************************************)
(* A tab that finds out that a newer build has been deployed.  It reloads  *)
(* by itself unless a form has unsaved changes, or shows a banner; forms   *)
(* tell through useUnsavedChanges.  Builds are numbered; a reload may      *)
(* bring the old build again (a deployment half-way, a proxy).             *)
(***************************************************************************)
EXTENDS Naturals, FiniteSets

CONSTANTS Form, Check, MaxBuilds, MaxDeploys, MaxReloads

BuildsAssumption == MaxBuilds \in Nat \ {0} /\ MaxDeploys \in Nat /\ MaxReloads \in Nat

VARIABLES
  edited,           \* forms with changes that are not saved
  dirtyKeys,        \* what the provider was told of them
  checks,           \* version checks on their way
  running, deployed,\* the build of this page, the build the server names
  attempted, banner,\* the build in sessionStorage that was reloaded for, the build offered; 0: none
  leaving,          \* location.reload() was called, the page is still there
  deploys, reloads, \* history: changes of the deployed build, automatic reloads
  lost,             \* history: forms dropped by an automatic reload
  undone            \* history: `attempted` was written again while the page was leaving

vars == <<edited, dirtyKeys, checks, running, deployed, attempted, banner, leaving, deploys, reloads, lost, undone>>

Build == 1 .. MaxBuilds
NoCheck == [step |-> "none"]
VersionCheck == [step : {"out", "back"}, hasUnsavedChanges : BOOLEAN, since : SUBSET Form, answer : 0 .. MaxBuilds]

TypeOK ==
  /\ edited \subseteq Form /\ dirtyKeys = edited
  /\ checks \in [Check -> VersionCheck \cup {NoCheck}]
  /\ running \in Build /\ deployed \in Build /\ attempted \in 0 .. MaxBuilds /\ banner \in 0 .. MaxBuilds
  /\ leaving \in BOOLEAN /\ deploys \in 0 .. MaxDeploys /\ reloads \in 0 .. MaxReloads
  /\ lost \subseteq Form /\ undone \in BOOLEAN

Init ==
  /\ edited = {} /\ dirtyKeys = {} /\ checks = [c \in Check |-> NoCheck]
  /\ running = 1 /\ deployed = 1 /\ attempted = 0 /\ banner = 0 /\ leaving = FALSE
  /\ deploys = 0 /\ reloads = 0 /\ lost = {} /\ undone = FALSE
-----------------------------------------------------------------------------
(* Forms. *)

ClearAll(f) == {} \* mutant: one flag for all forms
WithoutKey(f) == dirtyKeys \ {f}

Edit(f) ==
  /\ f \notin edited /\ edited' = edited \cup {f} /\ dirtyKeys' = dirtyKeys \cup {f}
  /\ UNCHANGED <<checks, running, deployed, attempted, banner, leaving, deploys, reloads, lost, undone>>

\* Saved, given up, or its page left: then the changes are gone without a question.
Finish(f) ==
  /\ f \in edited /\ edited' = edited \ {f} /\ dirtyKeys' = WithoutKey(f)
  /\ checks' = [c \in Check |-> IF checks[c] = NoCheck THEN NoCheck
                               ELSE [checks[c] EXCEPT !.since = @ \ {f}]]
  /\ UNCHANGED <<running, deployed, attempted, banner, leaving, deploys, reloads, lost, undone>>
-----------------------------------------------------------------------------
(* Version checks. *)

\* Every minute, when the tab is shown, and when hasUnsavedChanges changes.  What
\* was dirty then is decided upon when the answer is there.
CheckVersion(c) ==
  /\ checks[c] = NoCheck
  /\ checks' = [checks EXCEPT ![c] = [step |-> "out", hasUnsavedChanges |-> dirtyKeys # {},
                                     since |-> edited, answer |-> 0]]
  /\ UNCHANGED <<edited, dirtyKeys, running, deployed, attempted, banner, leaving, deploys, reloads, lost, undone>>

AppVersion(c) ==
  /\ checks[c].step = "out" /\ checks' = [checks EXCEPT ![c].step = "back", ![c].answer = deployed]
  /\ UNCHANGED <<edited, dirtyKeys, running, deployed, attempted, banner, leaving, deploys, reloads, lost, undone>>

CheckFails(c) ==
  /\ checks[c] # NoCheck /\ checks' = [checks EXCEPT ![c] = NoCheck]
  /\ UNCHANGED <<edited, dirtyKeys, running, deployed, attempted, banner, leaving, deploys, reloads, lost, undone>>

NoGuard(c) == \* mutant: nothing stops a second reload for the same build
  IF checks[c].answer = running THEN "none"
  ELSE IF checks[c].hasUnsavedChanges THEN "banner" ELSE "reload"
getBuildUpdateAction(c) ==
  IF checks[c].answer = running THEN "none"
  ELSE IF checks[c].hasUnsavedChanges \/ attempted = checks[c].answer THEN "banner"
  ELSE "reload"

\* The page that is leaving handles what comes late: an older answer, the banner's button.
Undo == undone' = (undone \/ (leaving /\ attempted' # attempted))

UpToDate(c) ==
  /\ checks[c].step = "back" /\ getBuildUpdateAction(c) = "none"
  /\ checks' = [checks EXCEPT ![c] = NoCheck] /\ attempted' = 0 /\ banner' = 0
  /\ Undo
  /\ UNCHANGED <<edited, dirtyKeys, running, deployed, leaving, deploys, reloads, lost>>

Offer(c) ==
  /\ checks[c].step = "back" /\ getBuildUpdateAction(c) = "banner"
  /\ checks' = [checks EXCEPT ![c] = NoCheck] /\ banner' = checks[c].answer
  /\ UNCHANGED <<edited, dirtyKeys, running, deployed, attempted, leaving, deploys, reloads, lost, undone>>

\* writeReloadAttempt, location.reload().
Reload(c) ==
  /\ checks[c].step = "back" /\ getBuildUpdateAction(c) = "reload" /\ reloads < MaxReloads
  /\ checks' = [checks EXCEPT ![c] = NoCheck] /\ attempted' = checks[c].answer
  /\ leaving' = TRUE /\ reloads' = reloads + 1 /\ lost' = lost \cup checks[c].since
  /\ Undo
  /\ UNCHANGED <<edited, dirtyKeys, running, deployed, banner, deploys>>

\* The banner's button; with unsaved changes the user is asked.
ReloadToLatest ==
  /\ banner # 0 /\ attempted' = banner /\ leaving' = TRUE /\ Undo
  /\ UNCHANGED <<edited, dirtyKeys, checks, running, deployed, banner, deploys, reloads, lost>>

Unload ==
  /\ leaving /\ leaving' = FALSE
  /\ running' \in {running, deployed}
  /\ edited' = {} /\ dirtyKeys' = {} /\ checks' = [c \in Check |-> NoCheck] /\ banner' = 0
  /\ UNCHANGED <<deployed, attempted, deploys, reloads, lost, undone>>

Deploy(b) ==
  /\ b # deployed /\ deploys < MaxDeploys /\ deployed' = b /\ deploys' = deploys + 1
  /\ UNCHANGED <<edited, dirtyKeys, checks, running, attempted, banner, leaving, reloads, lost, undone>>

Next ==
  \/ \E f \in Form : Edit(f) \/ Finish(f)
  \/ \E c \in Check :
       CheckVersion(c) \/ AppVersion(c) \/ CheckFails(c) \/ UpToDate(c) \/ Offer(c) \/ Reload(c)
  \/ ReloadToLatest \/ Unload
  \/ \E b \in Build : Deploy(b)

Spec == Init /\ [][Next]_vars
-----------------------------------------------------------------------------
(* Properties. *)

\* A form that had unsaved changes when a check began, and still has them, does not
\* lose them to the reload that follows.  (Changes begun while the check was out are lost.)
DraftsSurviveUpdates == lost = {}

\* No reload loop: a tab reloads by itself at most once for each build that is deployed,
\* even if it gets the old build again, unless an older answer or the banner's button
\* names another build while the page is leaving.
OneReloadPerDeploy == ~undone => reloads <= deploys

=============================================================================
