----------------------------- MODULE MCBrowser -----------------------------
(* The parts of the browser that share no state.  A behaviour follows one   *)
(* of them: `part` says which, and the variables are that part's.           *)
EXTENDS Naturals, Sequences, TLC

CONSTANTS Tab, NoTab, MaxToken, MaxFaults,
          Account, Flight, NoFlight, NoEntry, MaxTokens, MaxCalls,
          Filter, Call, NoRows, MaxPage, MaxSaves,
          Form, Check, MaxBuilds, MaxDeploys, MaxReloads,
          Developer, Put, NoTeam, MaxWrites, MaxUrl

VARIABLES part,
          v1, v2, v3, v4, v5, v6, v7, v8, v9, v10, v11, v12, v13, v14, v15, v16, v17, v18, v19,
          v20, v21

Tabs == INSTANCE TabRefresh WITH
  live <- v1, expired <- v2, issued <- v3, ghost <- v4, cookie <- v5, shared <- v6, own <- v7,
  hasLocks <- v8, holder <- v9, lease <- v10, at <- v11, initial <- v12, why <- v13, mail <- v14,
  act <- v15, sent <- v16, faults <- v17, broken <- v18, signedOut <- v19, crossed <- v20,
  over <- v21
Reads == INSTANCE ApiReads WITH
  token <- v1, given <- v2, owner <- v3, memory <- v4, persisted <- v5, pending <- v6,
  flight <- v7, call <- v8, data <- v9, known <- v10, raced <- v11, swapped <- v12, outdated <- v13
Pages == INSTANCE PageLoads WITH
  load <- v1, filter <- v2, page <- v3, resetting <- v4, calls <- v5, rows <- v6, hasMore <- v7,
  busy <- v8, error <- v9, memo <- v10, edits <- v11, save <- v12, saved <- v13, overlapped <- v14,
  gap <- v15
Build == INSTANCE BuildUpdate WITH
  edited <- v1, dirtyKeys <- v2, checks <- v3, running <- v4, deployed <- v5, attempted <- v6,
  banner <- v7, leaving <- v8, deploys <- v9, reloads <- v10, lost <- v11, undone <- v12
Editor == INSTANCE AssignmentDraft WITH
  team <- v1, activeStories <- v2, project <- v3, open <- v4, draft <- v5, confirmRemoval <- v6,
  saving <- v7, puts <- v8, settings <- v9, writes <- v10, expected <- v11, reopened <- v12,
  mixed <- v13, unasked <- v14
Viewer == INSTANCE LiveViewer WITH
  url <- v1, phase <- v2, timer <- v3, frame <- v4, old <- v5, early <- v6

ASSUME BrowserAssumption ==
  /\ Tabs!TabsAssumption /\ Reads!ReadsAssumption /\ Pages!LoadsAssumption
  /\ Build!BuildsAssumption /\ Editor!TeamsAssumption

browserVars ==
  <<part, v1, v2, v3, v4, v5, v6, v7, v8, v9, v10, v11, v12, v13, v14, v15, v16, v17, v18, v19, v20, v21>>

BrowserInit ==
  \/ part = "tabs" /\ Tabs!Init
  \/ part = "reads" /\ Reads!Init /\ v14 = 0 /\ v15 = 0 /\ v16 = 0 /\ v17 = 0 /\ v18 = 0 /\ v19 = 0 /\ v20 = 0 /\ v21 = 0
  \/ part = "pages" /\ Pages!Init /\ v16 = 0 /\ v17 = 0 /\ v18 = 0 /\ v19 = 0 /\ v20 = 0 /\ v21 = 0
  \/ part = "build" /\ Build!Init /\ v13 = 0 /\ v14 = 0 /\ v15 = 0 /\ v16 = 0 /\ v17 = 0 /\ v18 = 0 /\ v19 = 0 /\ v20 = 0 /\ v21 = 0
  \/ part = "editor" /\ Editor!Init /\ v15 = 0 /\ v16 = 0 /\ v17 = 0 /\ v18 = 0 /\ v19 = 0 /\ v20 = 0 /\ v21 = 0
  \/ part = "viewer" /\ Viewer!Init /\ v7 = 0 /\ v8 = 0 /\ v9 = 0 /\ v10 = 0 /\ v11 = 0 /\ v12 = 0 /\ v13 = 0 /\ v14 = 0 /\ v15 = 0 /\ v16 = 0 /\ v17 = 0 /\ v18 = 0 /\ v19 = 0 /\ v20 = 0 /\ v21 = 0

BrowserNext ==
  /\ UNCHANGED part
  /\ \/ part = "tabs" /\ Tabs!Next
     \/ part = "reads" /\ Reads!Next /\ UNCHANGED <<v14, v15, v16, v17, v18, v19, v20, v21>>
     \/ part = "pages" /\ Pages!Next /\ UNCHANGED <<v16, v17, v18, v19, v20, v21>>
     \/ part = "build" /\ Build!Next /\ UNCHANGED <<v13, v14, v15, v16, v17, v18, v19, v20, v21>>
     \/ part = "editor" /\ Editor!Next /\ UNCHANGED <<v15, v16, v17, v18, v19, v20, v21>>
     \/ part = "viewer" /\ Viewer!Next /\ UNCHANGED <<v7, v8, v9, v10, v11, v12, v13, v14, v15, v16, v17, v18, v19, v20, v21>>

BrowserSpec == BrowserInit /\ [][BrowserNext]_browserVars

\* The parts have their names in common (Tab, Account, Filter, Form, Developer; Flight,
\* Call, Check, Put), so that few permutations are enough.
Symmetry == Permutations(Tab) \cup Permutations(Call)

\* A refresh is followed until a session is broken or a tab is told that it is over, with
\* one activity per tab; reads until the account changes under the tab; a page until it
\* shows more than one page of rows too many.
Bound ==
  /\ part = "tabs" => Tabs!Followed
  /\ part = "reads" => ~v12 \* swapped
  /\ part = "pages" => Len(v6) <= MaxPage + 1 \* rows
-----------------------------------------------------------------------------
\* Tabs share one session: it is lost for a reason, its cookie is the one the server knows,
\* a logout holds, and no tab keeps the others from refreshing.
TabsShareSession ==
  part = "tabs" => Tabs!TypeOK /\ Tabs!SignOutHasCause /\ Tabs!CookieIsCurrent /\ Tabs!LogoutSticks /\ Tabs!NoLockLeftBehind

\* Cached, shared and repeated calls do what single calls would: no stale or foreign answer,
\* no request twice, no edit twice.
CallsActAsOne ==
  part = "reads" => Reads!TypeOK /\ Reads!ReadsSeeOwnEdits /\ Reads!CacheIsOwn /\ Reads!OneFlightPerToken /\ Reads!EditsApplyOnce

\* A page at rest shows what was chosen, with the user's own edits and its pages in order,
\* and is at rest in the end.
PagesShowTheChoice ==
  part = "pages" => Pages!TypeOK /\ Pages!ShowsTheChoice /\ Pages!OwnEditsStay /\ Pages!PagesInOrder /\ Pages!SpinnerEnds

\* An update of the application costs no draft and reloads once.
UpdatesKeepDrafts ==
  part = "build" => Build!TypeOK /\ Build!DraftsSurviveUpdates /\ Build!OneReloadPerDeploy

\* What was saved last is the team, on the server and on the page, and nobody with work
\* left it unasked.
TeamEditsHold ==
  part = "editor" => Editor!TypeOK /\ Editor!LastSaveWins /\ Editor!RemovalsAreAsked /\ Editor!SavedIsKnown

\* The viewer speaks of the frame that is there, and never waits without a timer.
ViewerFollowsFrame ==
  part = "viewer" => Viewer!TypeOK /\ Viewer!LoadingHasTimer /\ Viewer!PhaseIsOfFrame
=============================================================================
