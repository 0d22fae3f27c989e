--------------------------- MODULE BrowserProofs ---------------------------
(***************************************************************************)
(* What a browser may count on, for any number of tabs, accounts, calls,   *)
(* forms, developers and tokens.  The parts of MCBrowser share no state:   *)
(* each has a section with the names of its variables, its inductive       *)
(* invariant, what each kind of step does and keeps, and its theorem.      *)
(***************************************************************************)
EXTENDS MCBrowser, FiniteSetTheorems, TLAPS

-----------------------------------------------------------------------------
(* The live viewer *)

url == v1
phase == v2
timer == v3
frame == v4
old == v5
early == v6

\* There is a document exactly if there is a URL that can be shown.
FrameHasUrl == frame = "none" <=> url = 0

ViewerInvariant == Viewer!TypeOK /\ FrameHasUrl /\ Viewer!LoadingHasTimer /\ Viewer!PhaseIsOfFrame

\* Every event of the frame, the timer and the user keeps it.
LEMMA ViewerKept ==
  ASSUME ViewerInvariant, [Viewer!Next]_(Viewer!vars)
  PROVE  ViewerInvariant'
<1> USE DEF url, phase, timer, frame, old, early
<1> USE DEF ViewerInvariant, Viewer!TypeOK, FrameHasUrl, Viewer!LoadingHasTimer, Viewer!PhaseIsOfFrame, Viewer!canRetryLiveViewer
<1>1. ASSUME NEW u \in 0 .. MaxUrl, Viewer!EditUrl(u)
      PROVE  ViewerInvariant'
  BY <1>1 DEF Viewer!EditUrl, Viewer!StartViewing, Viewer!initialLiveViewerPhase, Viewer!AskedFrame
<1>2. CASE Viewer!TimerFires
  BY <1>2 DEF Viewer!TimerFires, Viewer!markLiveViewerSlow
<1>3. CASE Viewer!FrameLoads
  BY <1>3 DEF Viewer!FrameLoads, Viewer!markLiveViewerReady
<1>4. CASE Viewer!FrameFails
  BY <1>4 DEF Viewer!FrameFails, Viewer!markLiveViewerUnverified
<1>5. CASE Viewer!OldFrameLoads
  BY <1>5 DEF Viewer!OldFrameLoads, Viewer!markLiveViewerReady
<1>6. CASE Viewer!Retry
  BY <1>6 DEF Viewer!Retry
<1>7. CASE UNCHANGED Viewer!vars
  BY <1>7 DEF Viewer!vars
<1>8. QED
  BY <1>1, <1>2, <1>3, <1>4, <1>5, <1>6, <1>7 DEF Viewer!Next

\* The viewer speaks of the frame that is there, whatever is retried, edited or loads late.
THEOREM ViewerFollows == BrowserSpec => []ViewerFollowsFrame
<1> DEFINE Kept == part = "viewer" => ViewerInvariant
<1>1. BrowserInit => Kept
  <2>1. Viewer!Init => ViewerInvariant
    BY DEF Viewer!Init, ViewerInvariant, Viewer!TypeOK, FrameHasUrl, Viewer!LoadingHasTimer, Viewer!PhaseIsOfFrame,
       Viewer!canRetryLiveViewer, Viewer!initialLiveViewerPhase, Viewer!AskedFrame, url, phase, timer, frame, old, early
  <2>2. QED
    BY <2>1 DEF BrowserInit
<1>2. Kept /\ [BrowserNext]_browserVars => Kept'
  <2>1. ASSUME [BrowserNext]_browserVars, part' = "viewer"
        PROVE  part = "viewer" /\ [Viewer!Next]_(Viewer!vars)
    BY <2>1 DEF BrowserNext, browserVars, Viewer!vars
  <2>2. QED
    BY <2>1, ViewerKept
<1>3. Kept => ViewerFollowsFrame
  BY DEF ViewerInvariant, ViewerFollowsFrame
<1>4. QED
  BY <1>1, <1>2, <1>3, PTL DEF BrowserSpec
-----------------------------------------------------------------------------
(* Updates of the application *)

edited == v1
dirtyKeys == v2
checks == v3
running == v4
deployed == v5
attempted == v6
banner == v7
leaving == v8
deploys == v9
reloads == v10
lost == v11
undone == v12

\* A check that began without unsaved changes has none to lose.
CleanChecksLoseNothing ==
  \A c \in Check : checks[c].step # "none" /\ ~ checks[c].hasUnsavedChanges => checks[c].since = {}

\* The builds that an answer names or will name, and those among them that the page may
\* still reload for: the one attempted only after an answer that takes the attempt back.
Answers == {checks[c].answer : c \in {d \in Check : checks[d].step = "back"}} \cup {deployed}
MayReload(b) == b # running /\ (b # attempted \/ running \in Answers)

\* A page that leaves for build b owes one more reload if that is not the deployed one.
Owed(b) == IF deployed \in {b, running} THEN 0 ELSE 1

\* Every reload that may come has a deployment of its own.
ReloadsCovered ==
  ~ undone =>
    /\ reloads <= deploys
    /\ leaving => reloads + Owed(attempted) <= deploys
    /\ ~ leaving =>
         /\ \A b \in Answers : MayReload(b) => reloads + 1 + Owed(b) <= deploys
         /\ banner # 0 => reloads + Owed(banner) <= deploys

BuildInvariant == Build!TypeOK /\ CleanChecksLoseNothing /\ ReloadsCovered /\ lost = {}

\* As long as the page's builds are the same, fewer answers owe no more.
LEMMA FewerAnswers ==
  ASSUME ReloadsCovered, Answers' \subseteq Answers,
         UNCHANGED <<running, deployed, attempted, leaving, deploys, reloads, undone>>,
         banner' \in {0, banner}
  PROVE  ReloadsCovered'
<1> USE DEF running, deployed, attempted, banner, leaving, deploys, reloads, undone
<1>1. \A b \in Answers' : MayReload(b)' => b \in Answers /\ MayReload(b) /\ Owed(b)' = Owed(b)
  BY DEF MayReload, Owed
<1>2. QED
  BY <1>1 DEF ReloadsCovered, Owed

\* The slots for checks other than c are as they were.
LEMMA AnswersAfter ==
  ASSUME Build!TypeOK, NEW c \in Check, NEW r, checks' = [checks EXCEPT ![c] = r], deployed' = deployed,
         r.step = "back" => r.answer = deployed
  PROVE  Answers' \subseteq Answers
BY DEF Answers, Build!TypeOK, checks, deployed

\* A check that is on its way has all its fields.
LEMMA CheckTyped ==
  ASSUME Build!TypeOK, NEW c \in Check
  PROVE  /\ checks[c] = Build!NoCheck => checks[c].step = "none"
         /\ checks[c].step # "none" => checks[c] \in Build!VersionCheck
BY DEF Build!TypeOK, Build!NoCheck, checks

\* Whatever happens, a check without unsaved changes loses none.
LEMMA DraftsKept ==
  ASSUME BuildInvariant, [Build!Next]_(Build!vars)
  PROVE  Build!TypeOK' /\ CleanChecksLoseNothing' /\ lost' = {}
<1> USE DEF edited, dirtyKeys, checks, running, deployed, attempted, banner, leaving, deploys, reloads, lost, undone
<1> USE DEF Build!Undo
<1> DEFINE goal == Build!TypeOK' /\ CleanChecksLoseNothing' /\ lost' = {}
<1>1. Build!TypeOK /\ CleanChecksLoseNothing /\ lost = {} /\ MaxBuilds \in Nat /\ MaxDeploys \in Nat /\ MaxReloads \in Nat
  BY BrowserAssumption DEF BuildInvariant, Build!BuildsAssumption
\* One slot takes a new record, or none.
<1>2. ASSUME NEW c \in Check, NEW r \in Build!VersionCheck \cup {Build!NoCheck},
             r.step # "none" /\ ~ r.hasUnsavedChanges => r.since = {},
             checks' = [checks EXCEPT ![c] = r]
      PROVE  checks' \in [Check -> Build!VersionCheck \cup {Build!NoCheck}] /\ CleanChecksLoseNothing'
  BY <1>1, <1>2 DEF Build!TypeOK, CleanChecksLoseNothing
<1>3. ASSUME NEW c \in Check, checks' = [checks EXCEPT ![c] = Build!NoCheck]
      PROVE  checks' \in [Check -> Build!VersionCheck \cup {Build!NoCheck}] /\ CleanChecksLoseNothing'
  <2>1. Build!NoCheck.step = "none"
    BY DEF Build!NoCheck
  <2>2. QED
    BY <1>2, <1>3, <2>1
<1>4. ASSUME NEW f \in Form, Build!Edit(f)
      PROVE  goal
  BY <1>1, <1>4 DEF Build!Edit, Build!TypeOK, CleanChecksLoseNothing
<1>5. ASSUME NEW f \in Form, Build!Finish(f)
      PROVE  goal
  <2>1. \A c \in Check : /\ checks'[c] \in Build!VersionCheck \cup {Build!NoCheck}
                         /\ checks'[c].step # "none" /\ ~ checks'[c].hasUnsavedChanges => checks'[c].since = {}
    <3> TAKE c \in Check
    <3>1. CASE checks[c] = Build!NoCheck
      BY <1>5, <3>1 DEF Build!Finish, Build!NoCheck
    <3>2. CASE checks[c] # Build!NoCheck
      <4>1. checks[c] \in Build!VersionCheck
        BY <1>1, <3>2 DEF Build!TypeOK
      <4>2. checks'[c] = [checks[c] EXCEPT !.since = @ \ {f}]
        BY <1>5, <3>2 DEF Build!Finish
      <4>3. ~ checks[c].hasUnsavedChanges => checks[c].since = {}
        BY <1>1, <4>1 DEF CleanChecksLoseNothing, Build!VersionCheck
      <4>4. QED
        BY <4>1, <4>2, <4>3 DEF Build!VersionCheck
    <3>3. QED
      BY <3>1, <3>2
  <2>2. checks' \in [Check -> Build!VersionCheck \cup {Build!NoCheck}] /\ CleanChecksLoseNothing'
    BY <1>5, <2>1 DEF Build!Finish, CleanChecksLoseNothing
  <2>3. QED
    BY <1>1, <1>5, <2>2 DEF Build!Finish, Build!WithoutKey, Build!TypeOK
<1>6. ASSUME NEW c \in Check, Build!CheckVersion(c)
      PROVE  goal
  <2> DEFINE r == [step |-> "out", hasUnsavedChanges |-> dirtyKeys # {}, since |-> edited, answer |-> 0]
  <2>1. r \in Build!VersionCheck
    <3>1. edited \in SUBSET Form /\ 0 \in 0 .. MaxBuilds /\ (dirtyKeys # {}) \in BOOLEAN
      BY <1>1 DEF Build!TypeOK
    <3>2. QED
      BY <3>1 DEF Build!VersionCheck
  <2>5. ~ r.hasUnsavedChanges => r.since = {}
    BY <1>1 DEF Build!TypeOK
  <2>2. checks' = [checks EXCEPT ![c] = r]
    BY <1>6 DEF Build!CheckVersion
  <2> HIDE DEF r
  <2>3. checks' \in [Check -> Build!VersionCheck \cup {Build!NoCheck}] /\ CleanChecksLoseNothing'
    BY <1>2, <2>1, <2>2, <2>5
  <2>4. QED
    BY <1>1, <1>6, <2>3 DEF Build!CheckVersion, Build!TypeOK
<1>7. ASSUME NEW c \in Check, Build!AppVersion(c)
      PROVE  goal
  <2> DEFINE r == [checks[c] EXCEPT !.step = "back", !.answer = deployed]
  <2>1. checks[c] \in Build!VersionCheck /\ checks[c].step # "none"
    BY <1>1, <1>7, CheckTyped DEF Build!AppVersion
  <2>6. deployed \in 0 .. MaxBuilds
    BY <1>1 DEF Build!TypeOK, Build!Build
  <2>2. r \in Build!VersionCheck /\ (r.hasUnsavedChanges <=> checks[c].hasUnsavedChanges) /\ r.since = checks[c].since
    BY <2>1, <2>6 DEF Build!VersionCheck
  <2>3. checks' = [checks EXCEPT ![c] = r]
    BY <1>7 DEF Build!AppVersion
  <2> HIDE DEF r
  <2>4. checks' \in [Check -> Build!VersionCheck \cup {Build!NoCheck}] /\ CleanChecksLoseNothing'
    BY <1>1, <1>2, <2>1, <2>2, <2>3 DEF CleanChecksLoseNothing
  <2>5. QED
    BY <1>1, <1>7, <2>4 DEF Build!AppVersion, Build!TypeOK
<1>8. ASSUME NEW c \in Check, Build!CheckFails(c) \/ Build!UpToDate(c) \/ Build!Offer(c)
      PROVE  goal
  <2>1. checks' = [checks EXCEPT ![c] = Build!NoCheck]
    BY <1>8 DEF Build!CheckFails, Build!UpToDate, Build!Offer
  <2>2. Build!UpToDate(c) \/ Build!Offer(c) => checks[c].answer \in 0 .. MaxBuilds
    BY <1>1, CheckTyped DEF Build!UpToDate, Build!Offer, Build!VersionCheck
  <2>3. leaving' \in BOOLEAN /\ undone' \in BOOLEAN
    BY <1>1, <1>8 DEF Build!CheckFails, Build!UpToDate, Build!Offer, Build!TypeOK
  <2>4. checks' \in [Check -> Build!VersionCheck \cup {Build!NoCheck}] /\ CleanChecksLoseNothing'
    BY <1>3, <2>1
  <2>5. QED
    BY <1>1, <1>8, <2>2, <2>3, <2>4 DEF Build!CheckFails, Build!UpToDate, Build!Offer, Build!TypeOK
<1>9. ASSUME NEW c \in Check, Build!Reload(c)
      PROVE  goal
  <2>1. ~ checks[c].hasUnsavedChanges /\ checks[c].step = "back" /\ checks' = [checks EXCEPT ![c] = Build!NoCheck]
    BY <1>9 DEF Build!Reload, Build!getBuildUpdateAction
  <2>2. checks[c].since = {} /\ checks[c].answer \in 0 .. MaxBuilds
    BY <1>1, <2>1, CheckTyped DEF CleanChecksLoseNothing, Build!VersionCheck
  <2>3. leaving' \in BOOLEAN
    BY <1>9, Zenon DEF Build!Reload
  <2>4. undone' \in BOOLEAN
    BY <1>1, <1>9 DEF Build!Reload, Build!TypeOK
  <2>5. checks' \in [Check -> Build!VersionCheck \cup {Build!NoCheck}] /\ CleanChecksLoseNothing'
    BY <1>3, <2>1
  <2>6. QED
    BY <1>1, <1>9, <2>2, <2>3, <2>4, <2>5 DEF Build!Reload, Build!TypeOK
<1>10. CASE Build!ReloadToLatest
  BY <1>1, <1>10 DEF Build!ReloadToLatest, Build!TypeOK, CleanChecksLoseNothing
<1>11. CASE Build!Unload
  <2>1. \A c \in Check : checks'[c] = Build!NoCheck /\ checks'[c].step = "none"
    BY <1>11 DEF Build!Unload, Build!NoCheck
  <2>2. leaving' \in BOOLEAN
    BY <1>11, Zenon DEF Build!Unload
  <2>3. checks' \in [Check -> Build!VersionCheck \cup {Build!NoCheck}] /\ CleanChecksLoseNothing'
    BY <1>11, <2>1 DEF Build!Unload, CleanChecksLoseNothing
  <2>4. QED
    BY <1>1, <1>11, <2>2, <2>3 DEF Build!Unload, Build!TypeOK
<1>12. ASSUME NEW b \in Build!Build, Build!Deploy(b)
       PROVE  goal
  BY <1>1, <1>12 DEF Build!Deploy, Build!TypeOK, CleanChecksLoseNothing
<1>13. CASE UNCHANGED Build!vars
  BY <1>1, <1>13 DEF Build!vars, Build!TypeOK, CleanChecksLoseNothing
<1>14. QED
  BY <1>4, <1>5, <1>6, <1>7, <1>8, <1>9, <1>10, <1>11, <1>12, <1>13 DEF Build!Next

\* Whatever happens, the reloads have their deployments.
LEMMA CoverKept ==
  ASSUME BuildInvariant, [Build!Next]_(Build!vars)
  PROVE  ReloadsCovered'
<1> USE DEF edited, dirtyKeys, checks, running, deployed, attempted, banner, leaving, deploys, reloads, lost, undone
<1> DEFINE builds == <<running, deployed, attempted, leaving, deploys, reloads, undone>>
<1>1. /\ Build!TypeOK /\ ReloadsCovered
      /\ running \in Nat /\ deployed \in Nat /\ attempted \in Nat /\ banner \in Nat
      /\ deploys \in Nat /\ reloads \in Nat /\ leaving \in BOOLEAN /\ undone \in BOOLEAN
      /\ \A b \in Answers : b \in Nat
  <2>1. /\ Build!TypeOK /\ ReloadsCovered
        /\ running \in Nat /\ deployed \in Nat /\ attempted \in Nat /\ banner \in Nat
        /\ deploys \in Nat /\ reloads \in Nat /\ leaving \in BOOLEAN /\ undone \in BOOLEAN
    BY DEF BuildInvariant, Build!TypeOK, Build!Build
  <2>2. ASSUME NEW c \in Check, checks[c].step = "back"
        PROVE  checks[c].answer \in Nat
    BY <2>1, <2>2, CheckTyped DEF Build!VersionCheck
  <2>3. QED
    BY <2>1, <2>2 DEF Answers
<1>2. ASSUME NEW f \in Form, Build!Edit(f) \/ Build!Finish(f)
      PROVE  ReloadsCovered'
  <2>1. ASSUME NEW c \in Check, checks'[c].step = "back"
        PROVE  checks[c].step = "back" /\ checks'[c].answer = checks[c].answer
    <3>1. CASE checks' = checks
      BY <2>1, <3>1
    <3>2. CASE checks[c] = Build!NoCheck /\ Build!Finish(f)
      BY <2>1, <3>2 DEF Build!Finish, Build!NoCheck
    <3>3. CASE checks[c] # Build!NoCheck /\ Build!Finish(f)
      <4>1. checks[c] \in Build!VersionCheck
        BY <1>1, <3>3 DEF Build!TypeOK
      <4>2. checks'[c] = [checks[c] EXCEPT !.since = @ \ {f}]
        BY <3>3 DEF Build!Finish
      <4>3. QED
        BY <2>1, <4>1, <4>2 DEF Build!VersionCheck
    <3>4. QED
      BY <1>2, <3>1, <3>2, <3>3 DEF Build!Edit
  <2>3. Answers' \subseteq Answers
    BY <1>2, <2>1 DEF Build!Edit, Build!Finish, Answers
  <2>2. QED
    BY <1>1, <1>2, <2>3, FewerAnswers DEF Build!Edit, Build!Finish
<1>3. ASSUME NEW c \in Check, Build!CheckVersion(c) \/ Build!AppVersion(c) \/ Build!CheckFails(c)
      PROVE  ReloadsCovered'
  <2>1. Answers' \subseteq Answers
    <3>1. ASSUME Build!AppVersion(c)
          PROVE  Answers' \subseteq Answers
      <4>1. checks[c] \in Build!VersionCheck
        BY <1>1, <3>1, CheckTyped DEF Build!AppVersion
      <4>2. [checks[c] EXCEPT !.step = "back", !.answer = deployed].answer = deployed
        BY <4>1 DEF Build!VersionCheck
      <4>3. QED
        BY <1>1, <3>1, <4>2, AnswersAfter DEF Build!AppVersion
    <3>2. QED
      BY <1>1, <1>3, <3>1, AnswersAfter DEF Build!CheckVersion, Build!CheckFails, Build!NoCheck
  <2>2. QED
    BY <1>1, <1>3, <2>1, FewerAnswers DEF Build!CheckVersion, Build!AppVersion, Build!CheckFails
<1>4. ASSUME NEW c \in Check, Build!UpToDate(c) \/ Build!Offer(c) \/ Build!Reload(c)
      PROVE  /\ checks[c].answer \in Answers /\ Answers' \subseteq Answers /\ checks[c].answer \in Nat
             /\ running' = running /\ deployed' = deployed /\ deploys' = deploys
             /\ Owed(deployed) = 0
             /\ \A b : Owed(b)' = Owed(b) /\ Owed(b) \in {0, 1}
  <2>1. /\ checks[c].step = "back" /\ checks' = [checks EXCEPT ![c] = Build!NoCheck]
        /\ UNCHANGED <<running, deployed, deploys>>
    BY <1>4 DEF Build!UpToDate, Build!Offer, Build!Reload
  <2>2. checks[c].answer \in Answers
    BY <2>1 DEF Answers
  <2>3. Answers' \subseteq Answers
    BY <1>1, <2>1 DEF Answers, Build!NoCheck, Build!TypeOK
  <2>4. QED
    BY <1>1, <2>1, <2>2, <2>3 DEF Owed
\* The answer that takes the attempt back names the running build, so that any other
\* answer was already one that may be reloaded for.
<1>5. ASSUME NEW c \in Check, Build!UpToDate(c)
      PROVE  ReloadsCovered'
  <2>1. running \in Answers /\ attempted' = 0 /\ banner' = 0 /\ UNCHANGED <<leaving, reloads>>
    BY <1>4, <1>5 DEF Build!UpToDate, Build!getBuildUpdateAction
  <2>2. CASE ~ leaving
    <3>1. \A b \in Answers' : MayReload(b)' => b \in Answers /\ MayReload(b)
      BY <1>4, <1>5, <2>1 DEF MayReload
    <3>2. undone' = undone
      BY <1>5, <2>2, <1>1 DEF Build!UpToDate, Build!Undo
    <3>3. QED
      BY <1>1, <1>4, <1>5, <2>1, <2>2, <3>1, <3>2 DEF ReloadsCovered
  <2>3. CASE leaving /\ attempted = 0
    BY <1>1, <1>4, <1>5, <2>1, <2>3 DEF ReloadsCovered, Build!UpToDate, Build!Undo
  <2>4. CASE leaving /\ attempted # 0
    BY <1>5, <2>1, <2>4 DEF ReloadsCovered, Build!UpToDate, Build!Undo
  <2>5. QED
    BY <1>1, <2>2, <2>3, <2>4
<1>6. ASSUME NEW c \in Check, Build!Offer(c)
      PROVE  ReloadsCovered'
  <2>1. /\ banner' = checks[c].answer /\ checks[c].answer # running
        /\ UNCHANGED <<attempted, leaving, reloads, undone>>
    BY <1>6 DEF Build!Offer, Build!getBuildUpdateAction
  <2>2. \A b \in Answers' : MayReload(b)' => b \in Answers /\ MayReload(b)
    BY <1>4, <1>6, <2>1 DEF MayReload
  <2>3. ASSUME ~ undone, ~ leaving
        PROVE  reloads + Owed(banner') <= deploys
    <3>1. CASE banner' # attempted
      BY <1>1, <1>4, <1>6, <2>1, <2>3, <3>1 DEF ReloadsCovered, MayReload
    <3>2. CASE banner' = attempted /\ deployed \notin {banner', running}
      <4>1. MayReload(deployed) /\ deployed \in Answers
        BY <3>2 DEF MayReload, Answers
      <4>2. QED
        BY <1>1, <1>4, <1>6, <2>1, <2>3, <3>2, <4>1 DEF ReloadsCovered
    <3>3. CASE deployed \in {banner', running}
      BY <1>1, <2>3, <3>3 DEF ReloadsCovered, Owed
    <3>4. QED
      BY <3>1, <3>2, <3>3
  <2>4. QED
    BY <1>1, <1>4, <1>6, <2>1, <2>2, <2>3 DEF ReloadsCovered
<1>7. ASSUME NEW c \in Check, Build!Reload(c)
      PROVE  ReloadsCovered'
  <2>1. /\ MayReload(checks[c].answer) /\ attempted' = checks[c].answer /\ attempted' # attempted
        /\ leaving' = TRUE /\ reloads' = reloads + 1 /\ banner' = banner
        /\ undone' = (undone \/ (leaving /\ attempted' # attempted))
    BY <1>7 DEF Build!Reload, Build!getBuildUpdateAction, MayReload, Build!Undo
  <2>2. CASE undone \/ leaving
    BY <2>1, <2>2 DEF ReloadsCovered
  <2>3. CASE ~ undone /\ ~ leaving
    BY <1>1, <1>4, <1>7, <2>1, <2>3 DEF ReloadsCovered
  <2>4. QED
    BY <2>2, <2>3
<1>8. CASE Build!ReloadToLatest
  <2>1. /\ banner # 0 /\ attempted' = banner /\ leaving' = TRUE /\ UNCHANGED <<running, deployed, deploys, reloads>>
        /\ undone' = (undone \/ (leaving /\ attempted' # attempted))
    BY <1>8 DEF Build!ReloadToLatest, Build!Undo
  <2>2. QED
    BY <1>1, <2>1 DEF ReloadsCovered, Owed
<1>9. CASE Build!Unload
  <2>1. /\ leaving /\ leaving' = FALSE /\ running' \in {running, deployed} /\ banner' = 0
        /\ UNCHANGED <<deployed, attempted, deploys, reloads, undone>>
    BY <1>9 DEF Build!Unload
  <2>2. Answers' = {deployed}
    BY <1>9 DEF Build!Unload, Answers, Build!NoCheck
  <2>3. QED
    BY <1>1, <2>1, <2>2 DEF ReloadsCovered, MayReload, Owed
\* The new build's reload is paid by its deployment, and an older answer could be
\* reloaded for before, or only now that nothing more is owed.
<1>10. ASSUME NEW b \in Build!Build, Build!Deploy(b)
       PROVE  ReloadsCovered'
  <2>1. /\ deployed' = b /\ deploys' = deploys + 1
        /\ UNCHANGED <<checks, running, attempted, banner, leaving, reloads, undone>>
    BY <1>10 DEF Build!Deploy
  <2>2. Answers' \subseteq Answers \cup {b}
    BY <2>1 DEF Answers
  <2>3. ASSUME NEW a \in Answers', MayReload(a)', ~ undone, ~ leaving
        PROVE  (reloads + 1 + Owed(a) <= deploys)'
    <3>1. CASE b \in {a, running}
      BY <1>1, <2>1, <2>3, <3>1 DEF ReloadsCovered, Owed
    <3>2. CASE b \notin {a, running}
      <4>1. a \in Answers /\ MayReload(a)
        BY <2>1, <2>2, <2>3, <3>2 DEF MayReload
      <4>2. QED
        BY <1>1, <2>1, <2>3, <4>1 DEF ReloadsCovered, Owed
    <3>3. QED
      BY <3>1, <3>2
  <2>4. QED
    BY <1>1, <2>1, <2>3 DEF ReloadsCovered, Owed
<1>11. CASE UNCHANGED Build!vars
  <2>1. Answers' = Answers
    BY <1>11 DEF Build!vars, Answers
  <2>2. QED
    BY <1>1, <1>11, <2>1, FewerAnswers DEF Build!vars
<1>12. QED
  BY <1>2, <1>3, <1>5, <1>6, <1>7, <1>8, <1>9, <1>10, <1>11 DEF Build!Next

\* An update of the application costs no draft and reloads once, for any number of
\* builds, checks on their way and forms.
THEOREM DraftsSurvive == BrowserSpec => []UpdatesKeepDrafts
<1> DEFINE Kept == part = "build" => BuildInvariant
<1>1. BrowserInit => Kept
  <2>1. Build!Init => BuildInvariant
    <3> USE DEF edited, dirtyKeys, checks, running, deployed, attempted, banner, leaving, deploys, reloads, lost, undone
    <3> SUFFICES ASSUME Build!Init PROVE BuildInvariant
      OBVIOUS
    <3>1. \A c \in Check : checks[c] = Build!NoCheck /\ checks[c].step = "none"
      BY DEF Build!Init, Build!NoCheck
    <3>2. Build!TypeOK
      <4>1. MaxBuilds \in Nat \ {0} /\ MaxDeploys \in Nat /\ MaxReloads \in Nat
        BY BrowserAssumption DEF Build!BuildsAssumption
      <4>2. checks \in [Check -> Build!VersionCheck \cup {Build!NoCheck}]
        BY <3>1 DEF Build!Init
      <4>3. leaving \in BOOLEAN /\ undone \in BOOLEAN
        BY Zenon DEF Build!Init
      <4>4. QED
        BY <4>1, <4>2, <4>3 DEF Build!Init, Build!TypeOK, Build!Build
    <3>3. Answers = {1}
      BY <3>1 DEF Build!Init, Answers
    <3>4. QED
      BY <3>1, <3>2, <3>3 DEF Build!Init, BuildInvariant, CleanChecksLoseNothing, ReloadsCovered, MayReload, Owed
  <2>2. QED
    BY <2>1 DEF BrowserInit
<1>2. Kept /\ [BrowserNext]_browserVars => Kept'
  <2>1. ASSUME [BrowserNext]_browserVars, part' = "build"
        PROVE  part = "build" /\ [Build!Next]_(Build!vars)
    BY <2>1 DEF BrowserNext, browserVars, Build!vars
  <2>2. ASSUME BuildInvariant, [Build!Next]_(Build!vars)
        PROVE  BuildInvariant'
    BY <2>2, DraftsKept, CoverKept DEF BuildInvariant
  <2>3. QED
    BY <2>1, <2>2
<1>3. Kept => UpdatesKeepDrafts
  BY DEF BuildInvariant, UpdatesKeepDrafts, ReloadsCovered, Build!DraftsSurviveUpdates, Build!OneReloadPerDeploy,
     lost, undone, reloads, deploys
<1>4. QED
  BY <1>1, <1>2, <1>3, PTL DEF BrowserSpec
-----------------------------------------------------------------------------
(* The editor of a team *)

team == v1
activeStories == v2
project == v3
open == v4
draft == v5
confirmRemoval == v6
saving == v7
puts == v8
settings == v9
writes == v10
expected == v11
reopened == v12
mixed == v13
unasked == v14

\* One save at a time.
OneSave == \A p, q \in Put : Editor!Under(p) /\ Editor!Under(q) => p = q

\* The question is asked before the save, and the workspace waits for the save that it began.
WorkspaceWaits ==
  /\ confirmRemoval => open /\ ~ saving
  /\ ~ reopened /\ open => \A p \in Put : Editor!Under(p) => saving /\ puts[p].here

\* Unless the workspace was opened beside a save and answers met, the save on its way is
\* the latest one, and what it wrote is still there.
SaveLands ==
  ~ reopened \/ ~ mixed =>
    /\ OneSave
    /\ expected # NoTeam =>
         /\ Editor!Quiet => team = expected
         /\ \A p \in Put : Editor!Under(p) => puts[p].sent = expected /\ (puts[p].step # "out" => team = expected)

\* What the page is going to show is what it saved.
PageLearns ==
  ~ mixed /\ expected # NoTeam =>
    /\ Editor!Quiet => project = expected /\ (settings.step = "back" => settings.got = expected)
    /\ \A p \in Put : Editor!Under(p) => settings.step = "none" /\ (puts[p].step = "back" => puts[p].got = expected)

\* Whom a save removes from the team that the page knew, it has asked for.
RemovalsAsked ==
  /\ unasked = {}
  /\ activeStories => \A p \in Put : Editor!Under(p) => puts[p].seen \ puts[p].sent \subseteq puts[p].asked

EditorInvariant == Editor!TypeOK /\ WorkspaceWaits /\ SaveLands /\ PageLearns /\ RemovalsAsked

\* A save on its way is a record, and its steps change nothing else of it.
LEMMA SaveRecords ==
  ASSUME Editor!TypeOK, NEW p \in Put, Editor!Under(p)
  PROVE  /\ puts[p] \in Editor!PutRecord
         /\ LET w == [puts[p] EXCEPT !.step = "written"]
            IN  /\ w \in Editor!PutRecord /\ w # Editor!NoPut /\ w.step = "written"
                /\ w.sent = puts[p].sent /\ w.seen = puts[p].seen /\ w.asked = puts[p].asked
                /\ w.here = puts[p].here
         /\ LET b == [puts[p] EXCEPT !.step = "back", !.got = team]
            IN  /\ b \in Editor!PutRecord /\ b # Editor!NoPut /\ b.step = "back" /\ b.got = team
                /\ b.sent = puts[p].sent /\ b.seen = puts[p].seen /\ b.asked = puts[p].asked
                /\ b.here = puts[p].here
         /\ LET l == [puts[p] EXCEPT !.here = FALSE]
            IN  /\ l \in Editor!PutRecord /\ l # Editor!NoPut /\ l.step = puts[p].step /\ l.got = puts[p].got
                /\ l.sent = puts[p].sent /\ l.seen = puts[p].seen /\ l.asked = puts[p].asked
<1>1. puts[p] \in Editor!PutRecord /\ team \in Editor!Team
  BY DEF Editor!TypeOK, Editor!Under, puts, team
<1>2. QED
  BY <1>1 DEF Editor!PutRecord, Editor!NoPut

\* The server's steps move one save on.
LEMMA SaveServed ==
  ASSUME Editor!TypeOK, NEW p \in Put, Editor!WritePut(p) \/ Editor!ReadBack(p)
  PROVE  /\ Editor!Under(p) /\ puts' \in [Put -> Editor!PutRecord \cup {Editor!NoPut}]
         /\ Editor!WritePut(p) => puts[p].step = "out" /\ puts'[p].step = "written"
         /\ Editor!ReadBack(p) => puts[p].step = "written" /\ puts'[p].step = "back" /\ puts'[p].got = team
         /\ \A q \in Put : q # p => puts'[q] = puts[q]
         /\ \A q \in Put : /\ Editor!Under(q)' <=> Editor!Under(q)
                           /\ Editor!Under(q) => /\ puts'[q].sent = puts[q].sent /\ puts'[q].seen = puts[q].seen
                                                 /\ puts'[q].asked = puts[q].asked
                                                 /\ puts'[q].here <=> puts[q].here
<1> USE DEF puts, team
<1>1. Editor!Under(p) /\ puts \in [Put -> Editor!PutRecord \cup {Editor!NoPut}]
  BY DEF Editor!WritePut, Editor!ReadBack, Editor!TypeOK
<1>2. CASE Editor!WritePut(p)
  <2> DEFINE w == [puts[p] EXCEPT !.step = "written"]
  <2>1. puts' = [puts EXCEPT ![p] = w] /\ puts[p].step = "out"
    BY <1>2 DEF Editor!WritePut
  <2>2. /\ w \in Editor!PutRecord /\ w # Editor!NoPut /\ w.step = "written"
        /\ w.sent = puts[p].sent /\ w.seen = puts[p].seen /\ w.asked = puts[p].asked /\ w.here = puts[p].here
    BY <1>1, SaveRecords
  <2> HIDE DEF w
  <2>3. ~ Editor!ReadBack(p)
    BY <2>1 DEF Editor!ReadBack
  <2>4. QED
    BY <1>1, <2>1, <2>2, <2>3 DEF Editor!Under
<1>3. CASE Editor!ReadBack(p)
  <2> DEFINE w == [puts[p] EXCEPT !.step = "back", !.got = team]
  <2>1. puts' = [puts EXCEPT ![p] = w] /\ puts[p].step = "written"
    BY <1>3 DEF Editor!ReadBack
  <2>2. /\ w \in Editor!PutRecord /\ w # Editor!NoPut /\ w.step = "back" /\ w.got = team
        /\ w.sent = puts[p].sent /\ w.seen = puts[p].seen /\ w.asked = puts[p].asked /\ w.here = puts[p].here
    BY <1>1, SaveRecords
  <2> HIDE DEF w
  <2>3. ~ Editor!WritePut(p)
    BY <2>1 DEF Editor!WritePut
  <2>4. QED
    BY <1>1, <2>1, <2>2, <2>3 DEF Editor!Under
<1>4. QED
  BY <1>2, <1>3

\* A save that is answered or fails is over.
LEMMA SaveOver ==
  ASSUME Editor!TypeOK, NEW p \in Put, Editor!AnswerPut(p) \/ Editor!FailPut(p)
  PROVE  /\ Editor!Under(p) /\ puts' \in [Put -> Editor!PutRecord \cup {Editor!NoPut}]
         /\ \A q \in Put : /\ Editor!Under(q)' <=> Editor!Under(q) /\ q # p
                           /\ q # p => puts'[q] = puts[q]
<1>1. Editor!Under(p) /\ puts \in [Put -> Editor!PutRecord \cup {Editor!NoPut}] /\ puts' = [puts EXCEPT ![p] = Editor!NoPut]
  BY DEF Editor!AnswerPut, Editor!FailPut, Editor!TypeOK, puts
<1>2. QED
  BY <1>1 DEF Editor!Under, puts

\* A save begins with the draft and the page's team of now.
LEMMA SaveBegins ==
  ASSUME Editor!TypeOK, NEW asked \in Editor!Team, Editor!performSave(asked)
  PROVE  \E p \in Put :
           /\ ~ Editor!Under(p) /\ puts' \in [Put -> Editor!PutRecord \cup {Editor!NoPut}]
           /\ \A q \in Put : /\ Editor!Under(q)' <=> Editor!Under(q) \/ q = p
                             /\ q # p => puts'[q] = puts[q]
           /\ puts'[p].step = "out" /\ puts'[p].sent = draft /\ puts'[p].seen = project
           /\ puts'[p].asked = asked /\ puts'[p].here
<1> USE DEF puts, draft, project
<1>1. PICK p \in Put :
        /\ ~ Editor!Under(p)
        /\ puts' = [puts EXCEPT ![p] = [step |-> "out", sent |-> draft, seen |-> project, asked |-> asked,
                                        got |-> {}, here |-> TRUE]]
  BY DEF Editor!performSave
<1> DEFINE r == [step |-> "out", sent |-> draft, seen |-> project, asked |-> asked, got |-> {}, here |-> TRUE]
<1>2. r \in Editor!PutRecord /\ r # Editor!NoPut
  <2>1. draft \in Editor!Team /\ project \in Editor!Team /\ {} \in Editor!Team /\ TRUE \in BOOLEAN
    BY DEF Editor!TypeOK, Editor!Team
  <2>2. QED
    BY <2>1 DEF Editor!PutRecord, Editor!NoPut
<1>3. r.step = "out" /\ r.sent = draft /\ r.seen = project /\ r.asked = asked /\ r.here
  OBVIOUS
<1>4. puts' = [puts EXCEPT ![p] = r]
  BY <1>1
<1>5. puts \in [Put -> Editor!PutRecord \cup {Editor!NoPut}]
  BY DEF Editor!TypeOK
<1> HIDE DEF r
<1>6. puts'[p] = r /\ puts' \in [Put -> Editor!PutRecord \cup {Editor!NoPut}] /\ \A q \in Put : q # p => puts'[q] = puts[q]
  BY <1>2, <1>4, <1>5
<1>7. \A q \in Put : Editor!Under(q)' <=> Editor!Under(q) \/ q = p
  BY <1>2, <1>6 DEF Editor!Under
<1>8. QED
  BY <1>1, <1>3, <1>6, <1>7

\* The saves on their way forget the workspace that is left.
LEMMA WorkspaceLeft ==
  ASSUME Editor!TypeOK, Editor!Leave
  PROVE  /\ puts' \in [Put -> Editor!PutRecord \cup {Editor!NoPut}]
         /\ \A q \in Put : /\ Editor!Under(q)' <=> Editor!Under(q)
                           /\ Editor!Under(q) => /\ puts'[q].step = puts[q].step /\ puts'[q].got = puts[q].got
                                                 /\ puts'[q].sent = puts[q].sent /\ puts'[q].seen = puts[q].seen
                                                 /\ puts'[q].asked = puts[q].asked
<1>1. ASSUME NEW q \in Put
      PROVE  /\ puts'[q] \in Editor!PutRecord \cup {Editor!NoPut}
             /\ Editor!Under(q)' <=> Editor!Under(q)
             /\ Editor!Under(q) => /\ puts'[q].step = puts[q].step /\ puts'[q].got = puts[q].got
                                   /\ puts'[q].sent = puts[q].sent /\ puts'[q].seen = puts[q].seen
                                   /\ puts'[q].asked = puts[q].asked
  <2>1. CASE Editor!Under(q)
    <3> DEFINE l == [puts[q] EXCEPT !.here = FALSE]
    <3>1. puts'[q] = l
      BY <2>1 DEF Editor!Leave, puts
    <3>2. /\ l \in Editor!PutRecord /\ l # Editor!NoPut /\ l.step = puts[q].step /\ l.got = puts[q].got
          /\ l.sent = puts[q].sent /\ l.seen = puts[q].seen /\ l.asked = puts[q].asked
      BY <2>1, SaveRecords
    <3> HIDE DEF l
    <3>3. QED
      BY <2>1, <3>1, <3>2 DEF Editor!Under, puts
  <2>2. CASE ~ Editor!Under(q)
    BY <2>2 DEF Editor!Leave, Editor!Under, puts
  <2>3. QED
    BY <2>1, <2>2
<1>2. QED
  BY <1>1 DEF Editor!Leave, puts

\* Every step of the editor keeps the types.
LEMMA EditorTyped ==
  ASSUME Editor!TypeOK, Editor!Next
  PROVE  Editor!TypeOK'
<1> USE DEF team, activeStories, project, open, draft, confirmRemoval, saving, puts, settings, writes,
            expected, reopened, mixed, unasked
<1>0. TRUE \in BOOLEAN /\ FALSE \in BOOLEAN /\ {} \in Editor!Team
  BY DEF Editor!Team
<1>1. CASE Editor!Open
  <2>1. open' \in BOOLEAN /\ saving' \in BOOLEAN /\ reopened' \in BOOLEAN
    <3>1. open' = TRUE /\ saving' = FALSE /\ reopened' = (reopened \/ ~ Editor!Quiet)
      BY <1>1 DEF Editor!Open
    <3>2. QED
      BY <3>1, Zenon
  <2>2. open'
    BY <1>1 DEF Editor!Open
  <2>3. QED
    BY <1>1, <2>1, <2>2 DEF Editor!TypeOK, Editor!Open
<1>2. CASE Editor!Leave
  <2>1. open' \in BOOLEAN /\ saving' \in BOOLEAN
    BY <1>2, <1>0 DEF Editor!Leave
  <2>2. puts' \in [Put -> Editor!PutRecord \cup {Editor!NoPut}]
    BY <1>2, WorkspaceLeft
  <2>3. QED
    BY <1>0, <1>2, <2>1, <2>2 DEF Editor!TypeOK, Editor!Leave, Editor!Usable
<1>3. CASE Editor!ResetDraft \/ \E t \in Editor!Team : Editor!EditDraft(t)
  BY <1>3 DEF Editor!TypeOK, Editor!ResetDraft, Editor!EditDraft
<1>4. CASE Editor!RequestSave \/ Editor!Confirm
  <2>1. confirmRemoval' \in BOOLEAN /\ (confirmRemoval' => open)
    <3>1. CASE Editor!RequestSave
      <4>1. open /\ (confirmRemoval' = TRUE \/ confirmRemoval' = confirmRemoval) /\ confirmRemoval \in BOOLEAN
        BY <3>1 DEF Editor!RequestSave, Editor!Usable, Editor!TypeOK
      <4>2. QED
        BY <4>1, <1>0, Zenon
    <3>2. CASE Editor!Confirm
      BY <3>2, <1>0 DEF Editor!Confirm
    <3>3. QED
      BY <1>4, <3>1, <3>2
  <2>2. CASE UNCHANGED <<saving, puts, writes, expected, reopened, mixed>>
    BY <1>4, <2>1, <2>2 DEF Editor!TypeOK, Editor!RequestSave, Editor!Confirm
  <2>3. CASE ~ UNCHANGED <<saving, puts, writes, expected, reopened, mixed>>
    <3>1. PICK asked \in Editor!Team : Editor!performSave(asked)
      BY <1>0, <1>4, <2>3
      DEF Editor!RequestSave, Editor!Confirm, Editor!TypeOK, Editor!removedDevelopers, Editor!Team
    <3>2. puts' \in [Put -> Editor!PutRecord \cup {Editor!NoPut}]
      BY <3>1, SaveBegins
    <3>3. saving' \in BOOLEAN /\ reopened' \in BOOLEAN /\ mixed' \in BOOLEAN
      <4>1. saving' = TRUE /\ reopened' = (reopened /\ ~ Editor!Quiet) /\ mixed' = (settings.step # "none" \/ ~ Editor!Quiet)
        BY <3>1 DEF Editor!performSave
      <4>2. QED
        BY <4>1, Zenon
    <3>4. expected' \in Editor!Team /\ writes' \in 0 .. MaxWrites
      BY <3>1, BrowserAssumption DEF Editor!performSave, Editor!TypeOK, Editor!TeamsAssumption
    <3>5. QED
      BY <1>4, <2>1, <3>2, <3>3, <3>4 DEF Editor!TypeOK, Editor!RequestSave, Editor!Confirm
  <2>4. QED
    BY <2>2, <2>3
<1>5. ASSUME NEW p \in Put, Editor!WritePut(p) \/ Editor!ReadBack(p)
      PROVE  Editor!TypeOK'
  <2>1. puts' \in [Put -> Editor!PutRecord \cup {Editor!NoPut}]
    BY <1>5, SaveServed
  <2>2. puts[p] \in Editor!PutRecord
    BY <1>5, SaveRecords DEF Editor!WritePut, Editor!ReadBack
  <2>3. team' \in Editor!Team /\ unasked' \subseteq Developer
    BY <1>5, <2>2 DEF Editor!TypeOK, Editor!WritePut, Editor!ReadBack, Editor!PutRecord, Editor!Team
  <2>4. QED
    BY <1>5, <2>1, <2>3 DEF Editor!TypeOK, Editor!WritePut, Editor!ReadBack
<1>6. ASSUME NEW p \in Put, Editor!AnswerPut(p) \/ Editor!FailPut(p)
      PROVE  Editor!TypeOK'
  <2>1. puts' \in [Put -> Editor!PutRecord \cup {Editor!NoPut}]
    BY <1>6, SaveOver
  <2>2. puts[p] \in Editor!PutRecord
    BY <1>6, SaveRecords DEF Editor!AnswerPut, Editor!FailPut
  <2>3. team' \in Editor!Team /\ project' \in Editor!Team
    BY <1>6, <2>2 DEF Editor!TypeOK, Editor!AnswerPut, Editor!FailPut, Editor!PutRecord, Editor!NewProject
  <2>4. saving' \in BOOLEAN /\ confirmRemoval' \in BOOLEAN /\ (confirmRemoval' => confirmRemoval)
    <3>1. /\ saving' = (saving /\ ~ puts[p].here)
          /\ confirmRemoval' = (confirmRemoval /\ ~ puts[p].here) \/ confirmRemoval' = confirmRemoval
          /\ confirmRemoval \in BOOLEAN
      BY <1>6 DEF Editor!AnswerPut, Editor!FailPut, Editor!TypeOK
    <3>2. saving' \in BOOLEAN /\ confirmRemoval' \in BOOLEAN
      BY <3>1, Zenon
    <3>3. QED
      BY <3>1, <3>2
  <2>5. QED
    BY <1>6, <2>1, <2>3, <2>4 DEF Editor!TypeOK, Editor!AnswerPut, Editor!FailPut
<1>7. CASE Editor!SaveSettings \/ Editor!ServeSettings \/ Editor!AnswerSettings
  <2>1. mixed' \in BOOLEAN
    <3>1. mixed \in BOOLEAN /\ (mixed' = (mixed \/ ~ Editor!Quiet) \/ mixed' = mixed)
      BY <1>7 DEF Editor!SaveSettings, Editor!ServeSettings, Editor!AnswerSettings, Editor!TypeOK
    <3>2. QED
      BY <3>1, Zenon
  <2>2. QED
    BY <1>7, <2>1 DEF Editor!TypeOK, Editor!SaveSettings, Editor!ServeSettings, Editor!AnswerSettings
<1>8. ASSUME NEW t \in Editor!Team, Editor!OtherAdmin(t)
      PROVE  Editor!TypeOK'
  BY <1>8, BrowserAssumption DEF Editor!TypeOK, Editor!OtherAdmin, Editor!TeamsAssumption
<1>9. QED
  BY <1>1, <1>2, <1>3, <1>4, <1>5, <1>6, <1>7, <1>8 DEF Editor!Next

\* A save begins in an open workspace that has none on its way, after the question that it needs.
LEMMA SaveStarts ==
  ASSUME Editor!TypeOK, WorkspaceWaits, Editor!RequestSave \/ Editor!Confirm
  PROVE  /\ open /\ ~ saving /\ UNCHANGED <<team, activeStories, project, open, draft, settings, unasked>>
         /\ \/ UNCHANGED <<saving, puts, writes, expected, reopened, mixed>>
            \/ /\ ~ confirmRemoval'
               /\ \E asked \in Editor!Team :
                    Editor!performSave(asked) /\ (activeStories => project \ draft \subseteq asked)
<1> USE DEF team, activeStories, project, open, draft, confirmRemoval, saving, puts, settings, writes,
            expected, reopened, mixed, unasked
<1>1. CASE Editor!RequestSave
  <2>1. {} \in Editor!Team
    BY DEF Editor!Team
  <2>2. QED
    BY <1>1, <2>1 DEF Editor!RequestSave, Editor!Usable, Editor!MaySave, Editor!MustAsk, Editor!removedDevelopers
<1>2. CASE Editor!Confirm
  <2>1. open /\ ~ saving
    BY <1>2 DEF WorkspaceWaits, Editor!Confirm
  <2>2. Editor!removedDevelopers \in Editor!Team
    BY DEF Editor!TypeOK, Editor!removedDevelopers, Editor!Team
  <2>3. QED
    BY <1>2, <2>1, <2>2 DEF Editor!Confirm, Editor!removedDevelopers
<1>3. QED
  BY <1>1, <1>2

\* The workspace waits for the save that it began, whatever happens.
LEMMA WorkspaceKept ==
  ASSUME Editor!TypeOK, WorkspaceWaits, SaveLands, Editor!Next
  PROVE  WorkspaceWaits'
<1> USE DEF open, confirmRemoval, saving, reopened, puts
<1>1. CASE Editor!Open
  <2>1. ~ confirmRemoval /\ ~ confirmRemoval' /\ puts' = puts
    BY <1>1 DEF Editor!Open, Editor!TypeOK
  <2>2. ~ reopened' => Editor!Quiet
    BY <1>1 DEF Editor!Open
  <2>3. QED
    BY <2>1, <2>2 DEF WorkspaceWaits, Editor!Quiet, Editor!Under
<1>2. CASE Editor!Leave
  BY <1>2 DEF WorkspaceWaits, Editor!Leave, Editor!Usable
<1>3. CASE Editor!ResetDraft \/ \E t \in Editor!Team : Editor!EditDraft(t)
  BY <1>3 DEF WorkspaceWaits, Editor!ResetDraft, Editor!EditDraft, Editor!Under
<1>4. CASE Editor!RequestSave \/ Editor!Confirm
  <2>1. CASE UNCHANGED <<saving, puts, writes, expected, reopened, mixed>>
    BY <1>4, <2>1, SaveStarts DEF WorkspaceWaits, Editor!Under
  <2>2. CASE ~ UNCHANGED <<saving, puts, writes, expected, reopened, mixed>>
    <3>1. PICK asked \in Editor!Team : Editor!performSave(asked)
      BY <1>4, <2>2, SaveStarts
    <3>2. ~ confirmRemoval' /\ open /\ ~ saving
      BY <1>4, <2>2, SaveStarts
    <3>3. saving' = TRUE /\ reopened' = (reopened /\ ~ Editor!Quiet)
      BY <3>1 DEF Editor!performSave
    <3>4. ~ reopened' => Editor!Quiet
      BY <3>2, <3>3 DEF WorkspaceWaits, Editor!Quiet
    <3>5. QED
      BY <3>1, <3>2, <3>3, <3>4, SaveBegins DEF WorkspaceWaits, Editor!Quiet
  <2>3. QED
    BY <2>1, <2>2
<1>5. ASSUME NEW p \in Put, Editor!WritePut(p) \/ Editor!ReadBack(p)
      PROVE  WorkspaceWaits'
  <2>1. UNCHANGED <<open, confirmRemoval, saving, reopened>>
    BY <1>5 DEF Editor!WritePut, Editor!ReadBack
  <2>2. QED
    BY <1>5, <2>1, SaveServed DEF WorkspaceWaits
<1>6. ASSUME NEW p \in Put, Editor!AnswerPut(p) \/ Editor!FailPut(p)
      PROVE  WorkspaceWaits'
  <2>1. UNCHANGED <<open, reopened>> /\ (confirmRemoval' => confirmRemoval) /\ (saving' => saving)
    <3>1. UNCHANGED <<open, reopened>>
      BY <1>6 DEF Editor!AnswerPut, Editor!FailPut
    <3>2. /\ saving' = (saving /\ ~ puts[p].here)
          /\ confirmRemoval' = (confirmRemoval /\ ~ puts[p].here) \/ confirmRemoval' = confirmRemoval
      BY <1>6 DEF Editor!AnswerPut, Editor!FailPut
    <3>3. confirmRemoval' => confirmRemoval
      BY <3>2
    <3>4. saving' => saving
      BY <3>2
    <3>5. QED
      BY <3>1, <3>3, <3>4
  <2>2. ~ reopened => \A q \in Put : ~ Editor!Under(q)'
    BY <1>6, SaveOver DEF SaveLands, OneSave
  <2>3. QED
    BY <2>1, <2>2 DEF WorkspaceWaits
<1>7. CASE Editor!SaveSettings \/ Editor!ServeSettings \/ Editor!AnswerSettings
  BY <1>7 DEF WorkspaceWaits, Editor!SaveSettings, Editor!ServeSettings, Editor!AnswerSettings, Editor!Under
<1>8. ASSUME NEW t \in Editor!Team, Editor!OtherAdmin(t)
      PROVE  WorkspaceWaits'
  BY <1>8 DEF WorkspaceWaits, Editor!OtherAdmin, Editor!Under
<1>9. QED
  BY <1>1, <1>2, <1>3, <1>4, <1>5, <1>6, <1>7, <1>8 DEF Editor!Next

\* The save on its way stays the latest one, and what it wrote stays there.
LEMMA SaveKept ==
  ASSUME Editor!TypeOK, WorkspaceWaits, SaveLands, Editor!Next
  PROVE  SaveLands'
<1> USE DEF team, open, saving, puts, expected, reopened, mixed
<1>1. CASE Editor!Open
  <2>1. (reopened => reopened') /\ UNCHANGED <<team, expected, mixed, puts>>
    BY <1>1 DEF Editor!Open
  <2>2. QED
    BY <2>1 DEF SaveLands, OneSave, Editor!Quiet, Editor!Under
<1>2. CASE Editor!Leave
  <2>1. UNCHANGED <<team, expected, mixed, reopened>>
    BY <1>2 DEF Editor!Leave
  <2>2. QED
    BY <1>2, <2>1, WorkspaceLeft DEF SaveLands, OneSave, Editor!Quiet
<1>3. CASE Editor!ResetDraft \/ \E t \in Editor!Team : Editor!EditDraft(t)
  BY <1>3 DEF SaveLands, OneSave, Editor!Quiet, Editor!Under, Editor!ResetDraft, Editor!EditDraft
<1>4. CASE Editor!RequestSave \/ Editor!Confirm
  <2>1. CASE UNCHANGED <<saving, puts, writes, expected, reopened, mixed>>
    BY <1>4, <2>1, SaveStarts DEF SaveLands, OneSave, Editor!Quiet, Editor!Under
  <2>2. CASE ~ UNCHANGED <<saving, puts, writes, expected, reopened, mixed>>
    <3>1. PICK asked \in Editor!Team : Editor!performSave(asked)
      BY <1>4, <2>2, SaveStarts
    <3>2. open /\ ~ saving
      BY <1>4, <2>2, SaveStarts
    <3>3. /\ reopened' = (reopened /\ ~ Editor!Quiet) /\ mixed' = (settings.step # "none" \/ ~ Editor!Quiet)
          /\ expected' = draft
      BY <3>1 DEF Editor!performSave, settings, draft
    <3>4. ~ reopened' \/ ~ mixed' => Editor!Quiet
      BY <3>2, <3>3 DEF WorkspaceWaits, Editor!Quiet
    <3>5. QED
      BY <3>1, <3>3, <3>4, SaveBegins DEF SaveLands, OneSave, Editor!Quiet
  <2>3. QED
    BY <2>1, <2>2
<1>5. ASSUME NEW p \in Put, Editor!WritePut(p) \/ Editor!ReadBack(p)
      PROVE  SaveLands'
  <2>1. UNCHANGED <<expected, mixed, reopened>>
    BY <1>5 DEF Editor!WritePut, Editor!ReadBack
  <2>2. Editor!WritePut(p) => team' = puts[p].sent
    BY DEF Editor!WritePut
  <2>3. Editor!ReadBack(p) => team' = team
    BY DEF Editor!ReadBack
  <2>4. QED
    BY <1>5, <2>1, <2>2, <2>3, SaveServed DEF SaveLands, OneSave, Editor!Quiet
<1>6. ASSUME NEW p \in Put, Editor!AnswerPut(p) \/ Editor!FailPut(p)
      PROVE  SaveLands'
  <2>1. UNCHANGED <<mixed, reopened>>
    BY <1>6 DEF Editor!AnswerPut, Editor!FailPut
  <2>2. \A q, r \in Put : Editor!Under(q)' /\ Editor!Under(r)' => Editor!Under(q) /\ Editor!Under(r)
    BY <1>6, SaveOver
  <2>3. CASE Editor!FailPut(p)
    <3>1. expected' = NoTeam
      BY <2>3 DEF Editor!FailPut
    <3>2. QED
      BY <2>1, <2>2, <3>1 DEF SaveLands, OneSave
  <2>4. CASE Editor!AnswerPut(p)
    <3>1. UNCHANGED <<team, expected>> /\ puts[p].step = "back"
      BY <2>4 DEF Editor!AnswerPut
    <3>2. QED
      BY <1>6, <2>1, <2>2, <3>1, SaveOver DEF SaveLands, OneSave, Editor!Quiet
  <2>5. QED
    BY <1>6, <2>3, <2>4
<1>7. CASE Editor!SaveSettings \/ Editor!ServeSettings \/ Editor!AnswerSettings
  <2>1. UNCHANGED <<team, expected, reopened, puts>> /\ (mixed => mixed')
    <3>1. UNCHANGED <<team, expected, reopened, puts>>
      BY <1>7 DEF Editor!SaveSettings, Editor!ServeSettings, Editor!AnswerSettings
    <3>2. mixed' = (mixed \/ ~ Editor!Quiet) \/ mixed' = mixed
      BY <1>7 DEF Editor!SaveSettings, Editor!ServeSettings, Editor!AnswerSettings
    <3>3. mixed => mixed'
      BY <3>2, Zenon
    <3>4. QED
      BY <3>1, <3>3
  <2>2. QED
    BY <2>1 DEF SaveLands, OneSave, Editor!Quiet, Editor!Under
<1>8. ASSUME NEW t \in Editor!Team, Editor!OtherAdmin(t)
      PROVE  SaveLands'
  BY <1>8 DEF SaveLands, OneSave, Editor!Under, Editor!OtherAdmin
<1>9. QED
  BY <1>1, <1>2, <1>3, <1>4, <1>5, <1>6, <1>7, <1>8 DEF Editor!Next

\* What the page shows or is going to show stays what it saved.
LEMMA PageKept ==
  ASSUME Editor!TypeOK, WorkspaceWaits, SaveLands, PageLearns, Editor!Next
  PROVE  PageLearns'
<1> USE DEF team, project, puts, settings, expected, mixed
<1>1. CASE Editor!Open
  BY <1>1 DEF PageLearns, Editor!Open, Editor!Quiet, Editor!Under
<1>2. CASE Editor!Leave
  <2>1. UNCHANGED <<project, expected, mixed, settings>>
    BY <1>2 DEF Editor!Leave
  <2>2. QED
    BY <1>2, <2>1, WorkspaceLeft DEF PageLearns, Editor!Quiet
<1>3. CASE Editor!ResetDraft \/ \E t \in Editor!Team : Editor!EditDraft(t)
  BY <1>3 DEF PageLearns, Editor!Quiet, Editor!Under, Editor!ResetDraft, Editor!EditDraft
<1>4. CASE Editor!RequestSave \/ Editor!Confirm
  <2>1. CASE UNCHANGED <<saving, puts, writes, expected, reopened, mixed>>
    BY <1>4, <2>1, SaveStarts DEF PageLearns, Editor!Quiet, Editor!Under
  <2>2. CASE ~ UNCHANGED <<saving, puts, writes, expected, reopened, mixed>>
    <3>1. PICK asked \in Editor!Team : Editor!performSave(asked)
      BY <1>4, <2>2, SaveStarts
    <3>2. UNCHANGED settings
      BY <1>4, <2>2, SaveStarts
    <3>3. mixed' = (settings.step # "none" \/ ~ Editor!Quiet)
      BY <3>1 DEF Editor!performSave
    <3>4. QED
      BY <3>1, <3>2, <3>3, SaveBegins DEF PageLearns, Editor!Quiet
  <2>3. QED
    BY <2>1, <2>2
<1>5. ASSUME NEW p \in Put, Editor!WritePut(p) \/ Editor!ReadBack(p)
      PROVE  PageLearns'
  <2>1. UNCHANGED <<project, settings, expected, mixed>>
    BY <1>5 DEF Editor!WritePut, Editor!ReadBack
  <2>2. ~ mixed /\ expected # NoTeam /\ Editor!ReadBack(p) => team = expected
    BY SaveServed DEF SaveLands
  <2>3. QED
    BY <1>5, <2>1, <2>2, SaveServed DEF PageLearns, Editor!Quiet
<1>6. ASSUME NEW p \in Put, Editor!AnswerPut(p) \/ Editor!FailPut(p)
      PROVE  PageLearns'
  <2>1. UNCHANGED <<mixed, settings>>
    BY <1>6 DEF Editor!AnswerPut, Editor!FailPut
  <2>2. CASE Editor!FailPut(p)
    <3>1. expected' = NoTeam
      BY <2>2 DEF Editor!FailPut
    <3>2. QED
      BY <3>1 DEF PageLearns
  <2>3. CASE Editor!AnswerPut(p)
    <3>1. UNCHANGED expected /\ puts[p].step = "back" /\ project' = puts[p].got
      BY <2>3 DEF Editor!AnswerPut, Editor!NewProject
    <3>2. QED
      BY <1>6, <2>1, <3>1, SaveOver DEF PageLearns, SaveLands, OneSave, Editor!Quiet
  <2>4. QED
    BY <1>6, <2>2, <2>3
<1>7. CASE Editor!SaveSettings
  <2>1. /\ UNCHANGED <<project, expected, puts>> /\ mixed' = (mixed \/ ~ Editor!Quiet)
        /\ settings' = [settings EXCEPT !.step = "out"]
    BY <1>7 DEF Editor!SaveSettings
  <2>2. settings'.step = "out"
    BY <2>1 DEF Editor!TypeOK
  <2>3. QED
    BY <2>1, <2>2 DEF PageLearns, Editor!Quiet, Editor!Under
<1>8. CASE Editor!ServeSettings
  <2>1. /\ UNCHANGED <<project, expected, puts, mixed>> /\ settings.step = "out"
        /\ settings'.got = team
    BY <1>8 DEF Editor!ServeSettings
  <2>2. QED
    BY <2>1 DEF PageLearns, SaveLands, Editor!Quiet, Editor!Under
<1>9. CASE Editor!AnswerSettings
  <2>1. /\ UNCHANGED <<expected, puts, mixed>> /\ settings.step = "back" /\ project' = settings.got
        /\ settings' = [settings EXCEPT !.step = "none"]
    BY <1>9 DEF Editor!AnswerSettings
  <2>2. settings'.step = "none"
    BY <2>1 DEF Editor!TypeOK
  <2>3. QED
    BY <2>1, <2>2 DEF PageLearns, Editor!Quiet, Editor!Under
<1>10. ASSUME NEW t \in Editor!Team, Editor!OtherAdmin(t)
       PROVE  PageLearns'
  BY <1>10 DEF PageLearns, Editor!OtherAdmin
<1>11. QED
  BY <1>1, <1>2, <1>3, <1>4, <1>5, <1>6, <1>7, <1>8, <1>9, <1>10 DEF Editor!Next

\* Nobody is removed without having been asked about.
LEMMA RemovalsKept ==
  ASSUME Editor!TypeOK, WorkspaceWaits, RemovalsAsked, Editor!Next
  PROVE  RemovalsAsked'
<1> USE DEF team, activeStories, project, draft, puts, unasked
<1>1. CASE Editor!Open \/ Editor!ResetDraft \/ \E t \in Editor!Team : Editor!EditDraft(t)
  BY <1>1 DEF RemovalsAsked, Editor!Under, Editor!Open, Editor!ResetDraft, Editor!EditDraft
<1>2. CASE Editor!Leave
  <2>1. UNCHANGED <<activeStories, unasked>>
    BY <1>2 DEF Editor!Leave
  <2>2. QED
    BY <1>2, <2>1, WorkspaceLeft DEF RemovalsAsked
<1>3. CASE Editor!RequestSave \/ Editor!Confirm
  <2>1. CASE UNCHANGED <<saving, puts, writes, expected, reopened, mixed>>
    BY <1>3, <2>1, SaveStarts DEF RemovalsAsked, Editor!Under
  <2>2. CASE ~ UNCHANGED <<saving, puts, writes, expected, reopened, mixed>>
    <3>1. PICK asked \in Editor!Team : Editor!performSave(asked) /\ (activeStories => project \ draft \subseteq asked)
      BY <1>3, <2>2, SaveStarts
    <3>2. UNCHANGED <<activeStories, unasked>>
      BY <1>3, <2>2, SaveStarts
    <3>3. QED
      BY <3>1, <3>2, SaveBegins DEF RemovalsAsked
  <2>3. QED
    BY <2>1, <2>2
<1>4. ASSUME NEW p \in Put, Editor!WritePut(p) \/ Editor!ReadBack(p)
      PROVE  RemovalsAsked'
  <2>1. UNCHANGED activeStories /\ Editor!Under(p)
    BY <1>4 DEF Editor!WritePut, Editor!ReadBack
  <2>2. unasked' = {}
    BY <1>4, <2>1 DEF RemovalsAsked, Editor!WritePut, Editor!ReadBack
  <2>3. QED
    BY <1>4, <2>1, <2>2, SaveServed DEF RemovalsAsked
<1>5. ASSUME NEW p \in Put, Editor!AnswerPut(p) \/ Editor!FailPut(p)
      PROVE  RemovalsAsked'
  <2>1. UNCHANGED <<activeStories, unasked>>
    BY <1>5 DEF Editor!AnswerPut, Editor!FailPut
  <2>2. QED
    BY <1>5, <2>1, SaveOver DEF RemovalsAsked
<1>6. CASE \/ Editor!SaveSettings \/ Editor!ServeSettings \/ Editor!AnswerSettings
           \/ \E t \in Editor!Team : Editor!OtherAdmin(t)
  BY <1>6 DEF RemovalsAsked, Editor!Under, Editor!SaveSettings, Editor!ServeSettings, Editor!AnswerSettings, Editor!OtherAdmin
<1>7. QED
  BY <1>1, <1>2, <1>3, <1>4, <1>5, <1>6 DEF Editor!Next

\* What was saved last is the team, on the server and on the page, and nobody with work left it
\* unasked: MCBrowser's TeamEditsHold, of AssignmentWorkspace's saves.
THEOREM TeamEdits == BrowserSpec => []TeamEditsHold
<1> DEFINE Kept == part = "editor" => EditorInvariant
<1> USE DEF team, activeStories, project, open, draft, confirmRemoval, saving, puts, settings, writes,
            expected, reopened, mixed, unasked
<1>1. BrowserInit => Kept
  <2> SUFFICES ASSUME Editor!Init PROVE EditorInvariant
    BY DEF BrowserInit
  <2>1. Editor!TypeOK
    <3>1. 0 \in 0 .. MaxWrites
      BY BrowserAssumption DEF Editor!TeamsAssumption
    <3>2. FALSE \in BOOLEAN /\ {} \in Editor!Team
      BY DEF Editor!Team
    <3>3. QED
      BY <3>1, <3>2 DEF Editor!Init, Editor!TypeOK
  <2>2. \A p \in Put : ~ Editor!Under(p)
    BY DEF Editor!Init, Editor!Under
  <2>3. QED
    BY <2>1, <2>2
    DEF Editor!Init, EditorInvariant, WorkspaceWaits, SaveLands, PageLearns, RemovalsAsked, OneSave
<1>2. Kept /\ [BrowserNext]_browserVars => Kept'
  <2> SUFFICES ASSUME part = "editor", EditorInvariant, [BrowserNext]_browserVars PROVE EditorInvariant'
    BY DEF BrowserNext, browserVars
  <2>1. CASE Editor!Next
    BY <2>1, EditorTyped, WorkspaceKept, SaveKept, PageKept, RemovalsKept DEF EditorInvariant
  <2>2. CASE UNCHANGED browserVars
    BY <2>2
    DEF browserVars, EditorInvariant, Editor!TypeOK, WorkspaceWaits, SaveLands, PageLearns, RemovalsAsked,
        OneSave, Editor!Quiet, Editor!Under
  <2>3. QED
    BY <2>1, <2>2 DEF BrowserNext
<1>3. Kept => TeamEditsHold
  <2> SUFFICES ASSUME EditorInvariant
               PROVE  Editor!TypeOK /\ Editor!LastSaveWins /\ Editor!RemovalsAreAsked /\ Editor!SavedIsKnown
    BY DEF TeamEditsHold
  <2>1. QED
    BY DEF EditorInvariant, SaveLands, PageLearns, RemovalsAsked,
           Editor!LastSaveWins, Editor!RemovalsAreAsked, Editor!SavedIsKnown
<1>4. QED
  BY <1>1, <1>2, <1>3, PTL DEF BrowserSpec
-----------------------------------------------------------------------------
(* Reads through the cache *)

token == v1
given == v2
owner == v3
memory == v4
persisted == v5
pending == v6
flight == v7
call == v8
data == v9
known == v10
raced == v11
swapped == v12
outdated == v13

\* The answers that the caches hold, and the GETs whose answer they would still take.
IsKept(e) == e # NoEntry /\ (e = persisted \/ \E t \in Reads!Token : e = memory[t])
Current(f) == flight[f] # Reads!Idle /\ flight[f].current
Returned(f) == flight[f].step = "back"
Editing(i, step) == call[i].kind = "edit" /\ call[i].step = step

\* The edits that an answer must show: those confirmed, and those about to be.
Shows(version) == known <= version /\ \A i \in Reads!Calls : Editing(i, "back") => call[i].version <= version

\* Unless a GET was served beside an edit, nothing is kept while an edit is on its way, and
\* what is kept otherwise shows the edits.
KeptAnswersShow ==
  ~ raced =>
    /\ \A e \in Reads!Entry : IsKept(e) => Shows(e.version)
    /\ \A f \in Flight : Current(f) /\ Returned(f) => Shows(flight[f].version)
    /\ (\E i \in Reads!Calls : Editing(i, "out")) =>
         /\ \A e \in Reads!Entry : ~ IsKept(e)
         /\ \A f \in Flight : ~ (Current(f) /\ Returned(f))

\* A GET on its way will be answered with what its page counts on, also by its fallback.
GetsShow ==
  /\ \A i \in Reads!Calls : call[i].version <= data
  /\ \A f \in Flight : flight[f] # Reads!Idle =>
       /\ flight[f].asked <= data
       /\ Returned(f) => flight[f].asked <= flight[f].version
       /\ flight[f].fallback # NoEntry => flight[f].asked <= flight[f].fallback.version
  /\ ~ outdated

\* As long as no refresh brought another account's token: what is kept under a token is its
\* account's, and so is what a current GET brings; tokens not given have nothing.
KeptAnswersAreOwn ==
  /\ \A t \in Reads!Token : t > given => memory[t] = NoEntry
  /\ ~ swapped =>
       /\ \A t \in Reads!Token : memory[t] # NoEntry => memory[t].of = owner[t]
       /\ token # 0 /\ persisted # NoEntry => persisted.of = owner[token]
       /\ \A f \in Flight : Current(f) =>
            /\ token # 0 /\ owner[flight[f].token] = owner[token]
            /\ Returned(f) => flight[f].of = owner[token]

\* A current GET is the one that its token's pages wait for.
CurrentIsPending ==
  /\ \A f \in Flight : flight[f] # Reads!Idle => flight[f].token <= given
  /\ \A f \in Flight : Current(f) => pending[flight[f].token] = f

\* Only edits that were served or given up have been applied.
Settled == {i \in Reads!Calls : call[i].kind = "edit" /\ call[i].step \in {"back", "done"}}
EditsCounted == data <= Cardinality(Settled)

ReadsInvariant == Reads!TypeOK /\ KeptAnswersShow /\ GetsShow /\ KeptAnswersAreOwn /\ CurrentIsPending /\ EditsCounted

\* The tab's token is none or one of those that it was given.
LEMMA TokensGiven ==
  ASSUME Reads!TypeOK
  PROVE  given \in Nat /\ token \in Nat /\ token <= given /\ (token # 0 => token \in Reads!Token)
BY BrowserAssumption DEF Reads!TypeOK, Reads!Token, Reads!ReadsAssumption, token, given

\* Clearing forgets every answer, and no GET on its way will be kept.
LEMMA Cleared ==
  ASSUME Reads!TypeOK, Reads!clearApiCache
  PROVE  /\ flight' \in [Flight -> Reads!FlightRecord \cup {Reads!Idle}]
         /\ memory' \in [Reads!Token -> Reads!Entry \cup {NoEntry}]
         /\ pending' \in [Reads!Token -> Flight \cup {NoFlight}]
         /\ \A f \in Flight :
              /\ ~ Current(f)' /\ (flight'[f] = Reads!Idle <=> flight[f] = Reads!Idle)
              /\ Returned(f)' <=> Returned(f)
              /\ flight[f] # Reads!Idle =>
                   /\ flight'[f].token = flight[f].token /\ flight'[f].asked = flight[f].asked
                   /\ flight'[f].version = flight[f].version /\ flight'[f].fallback = flight[f].fallback
         /\ \A t \in Reads!Token : memory'[t] = NoEntry /\ pending'[t] = NoFlight
         /\ persisted' = NoEntry /\ ~ raced' /\ raced' \in BOOLEAN
<1> USE DEF memory, persisted, pending, flight, raced
<1>1. ASSUME NEW f \in Flight
      PROVE  /\ flight'[f] \in Reads!FlightRecord \cup {Reads!Idle}
             /\ ~ Current(f)' /\ (flight'[f] = Reads!Idle <=> flight[f] = Reads!Idle)
             /\ Returned(f)' <=> Returned(f)
             /\ flight[f] # Reads!Idle =>
                  /\ flight'[f].token = flight[f].token /\ flight'[f].asked = flight[f].asked
                  /\ flight'[f].version = flight[f].version /\ flight'[f].fallback = flight[f].fallback
  <2>1. CASE flight[f] = Reads!Idle
    BY <2>1 DEF Reads!clearApiCache, Current, Returned
  <2>2. CASE flight[f] # Reads!Idle
    <3> DEFINE r == [flight[f] EXCEPT !.current = FALSE]
    <3>1. flight'[f] = r /\ flight[f] \in Reads!FlightRecord
      BY <2>2 DEF Reads!clearApiCache, Reads!TypeOK
    <3>2. /\ r \in Reads!FlightRecord /\ r # Reads!Idle /\ r.step = flight[f].step
          /\ r.token = flight[f].token /\ r.asked = flight[f].asked
          /\ r.version = flight[f].version /\ r.fallback = flight[f].fallback
      BY <3>1 DEF Reads!FlightRecord, Reads!Idle
    <3>3. ~ r.current
      BY <3>1 DEF Reads!FlightRecord
    <3> HIDE DEF r
    <3>4. QED
      BY <2>2, <3>1, <3>2, <3>3 DEF Current, Returned
  <2>3. QED
    BY <2>1, <2>2
<1>2. /\ flight' = [f \in Flight |-> flight'[f]] /\ memory' = [t \in Reads!Token |-> NoEntry]
      /\ pending' = [t \in Reads!Token |-> NoFlight] /\ persisted' = NoEntry /\ raced' = FALSE
  BY DEF Reads!clearApiCache
<1>3. raced' \in BOOLEAN
  BY <1>2
<1>4. QED
  BY <1>1, <1>2, <1>3

\* A GET begins as a current one, and counts on the edits confirmed.
LEMMA GetBegins ==
  ASSUME Reads!TypeOK, NEW f \in Flight, Reads!GetFromServer(f)
  PROVE  /\ flight' \in [Flight -> Reads!FlightRecord \cup {Reads!Idle}]
         /\ flight[f] = Reads!Idle /\ \A g \in Flight : g # f => flight'[g] = flight[g]
         /\ flight'[f] # Reads!Idle /\ Current(f)' /\ ~ Returned(f)'
         /\ flight'[f].token = token /\ flight'[f].asked = Reads!Confirmed
         /\ flight'[f].fallback = IF memory[token] # NoEntry THEN memory[token] ELSE persisted
<1> USE DEF token, given, owner, memory, persisted, flight, data, known
<1> DEFINE b == IF memory[token] # NoEntry THEN memory[token] ELSE persisted
           r == [step |-> "out", attempt |-> 1, token |-> token, current |-> TRUE, asked |-> Reads!Confirmed,
                 fallback |-> b, version |-> 0, of |-> owner[token]]
<1>1. /\ flight \in [Flight -> Reads!FlightRecord \cup {Reads!Idle}]
      /\ flight[f] = Reads!Idle /\ flight' = [flight EXCEPT ![f] = r]
  BY DEF Reads!GetFromServer, Reads!TypeOK
<1>2. token \in Reads!Token
  BY TokensGiven DEF Reads!GetFromServer
<1>3. /\ b \in Reads!Entry \cup {NoEntry} /\ owner[token] \in Account /\ TRUE \in BOOLEAN
      /\ Reads!Confirmed \in 0 .. MaxCalls /\ 0 \in 0 .. MaxCalls
  BY <1>2, BrowserAssumption DEF Reads!TypeOK, Reads!Confirmed, Reads!ReadsAssumption
<1>4. r.current /\ r.step = "out" /\ r.token = token /\ r.asked = Reads!Confirmed /\ r.fallback = b
  OBVIOUS
<1> HIDE DEF b
<1>5. r \in Reads!FlightRecord /\ r # Reads!Idle
  BY <1>2, <1>3 DEF Reads!FlightRecord, Reads!Idle
<1> HIDE DEF r
<1>6. flight'[f] = r /\ flight' \in [Flight -> Reads!FlightRecord \cup {Reads!Idle}] /\ \A g \in Flight : g # f => flight'[g] = flight[g]
  BY <1>1, <1>5
<1>7. QED
  BY <1>1, <1>4, <1>5, <1>6 DEF Current, Returned, b

\* The server answers a GET with the data of now.
LEMMA GetServed ==
  ASSUME Reads!TypeOK, NEW f \in Flight, Reads!ServeGet(f)
  PROVE  /\ flight' \in [Flight -> Reads!FlightRecord \cup {Reads!Idle}]
         /\ flight[f] # Reads!Idle /\ \A g \in Flight : g # f => flight'[g] = flight[g]
         /\ flight'[f] # Reads!Idle /\ Returned(f)' /\ (Current(f)' <=> Current(f))
         /\ flight'[f].token = flight[f].token /\ flight'[f].asked = flight[f].asked
         /\ flight'[f].fallback = flight[f].fallback /\ flight'[f].version = data
         /\ flight'[f].of \in {owner[flight[f].token], owner[token]}
<1> USE DEF token, given, owner, flight, data
<1>1. flight \in [Flight -> Reads!FlightRecord \cup {Reads!Idle}] /\ flight[f] \in Reads!FlightRecord /\ flight[f] # Reads!Idle
  BY DEF Reads!ServeGet, Reads!TypeOK, Reads!Idle
<1>2. PICK t \in {flight[f].token, token} \ {0} :
        flight' = [flight EXCEPT ![f].step = "back", ![f].version = data, ![f].of = owner[t]]
  BY DEF Reads!ServeGet
<1>3. owner[t] \in Account /\ data \in 0 .. MaxCalls
  <2>1. t \in Reads!Token
    BY <1>1, TokensGiven DEF Reads!FlightRecord
  <2>2. QED
    BY <2>1 DEF Reads!TypeOK
<1> DEFINE r == [flight[f] EXCEPT !.step = "back", !.version = data, !.of = owner[t]]
<1>4. flight' = [flight EXCEPT ![f] = r]
  BY <1>2
<1>5. /\ r \in Reads!FlightRecord /\ r # Reads!Idle /\ r.step = "back" /\ r.token = flight[f].token
      /\ r.asked = flight[f].asked /\ r.fallback = flight[f].fallback /\ r.version = data /\ r.of = owner[t]
  BY <1>1, <1>3 DEF Reads!FlightRecord, Reads!Idle
<1>6. r.current <=> flight[f].current
  BY <1>1 DEF Reads!FlightRecord
<1> HIDE DEF r
<1>7. flight'[f] = r /\ flight' \in [Flight -> Reads!FlightRecord \cup {Reads!Idle}] /\ \A g \in Flight : g # f => flight'[g] = flight[g]
  BY <1>1, <1>4, <1>5
<1>8. QED
  BY <1>1, <1>2, <1>5, <1>6, <1>7 DEF Current, Returned

\* A GET that is answered is over.
LEMMA GetAnswered ==
  ASSUME Reads!TypeOK, NEW f \in Flight, flight[f].step # "none", flight' = [flight EXCEPT ![f] = Reads!Idle]
  PROVE  /\ flight' \in [Flight -> Reads!FlightRecord \cup {Reads!Idle}]
         /\ flight[f] \in Reads!FlightRecord /\ flight[f] # Reads!Idle
         /\ flight'[f] = Reads!Idle /\ \A g \in Flight : g # f => flight'[g] = flight[g]
<1>1. flight \in [Flight -> Reads!FlightRecord \cup {Reads!Idle}]
  BY DEF Reads!TypeOK, flight
<1>2. QED
  BY <1>1 DEF Reads!Idle

\* A GET that fails is over, or is asked for again.
LEMMA GetFailed ==
  ASSUME Reads!TypeOK, NEW f \in Flight, Reads!FailGet(f)
  PROVE  /\ flight' \in [Flight -> Reads!FlightRecord \cup {Reads!Idle}]
         /\ flight[f] \in Reads!FlightRecord /\ flight[f] # Reads!Idle
         /\ \A g \in Flight : g # f => flight'[g] = flight[g]
         /\ \/ flight'[f] = Reads!Idle /\ ~ Reads!shouldRetryGet(f)
            \/ /\ flight'[f] # Reads!Idle /\ Reads!shouldRetryGet(f) /\ ~ Returned(f)' /\ (Current(f)' <=> Current(f))
               /\ flight'[f].token = flight[f].token /\ flight'[f].asked = flight[f].asked
               /\ flight'[f].fallback = flight[f].fallback
<1> USE DEF flight
<1>1. flight[f].step # "none" /\ flight \in [Flight -> Reads!FlightRecord \cup {Reads!Idle}]
  BY DEF Reads!FailGet, Reads!TypeOK
<1>2. flight[f] \in Reads!FlightRecord /\ flight[f] # Reads!Idle
  BY <1>1 DEF Reads!Idle
<1>3. CASE ~ Reads!shouldRetryGet(f)
  <2>1. flight' = [flight EXCEPT ![f] = Reads!Idle]
    BY <1>3 DEF Reads!FailGet
  <2>2. QED
    BY <1>1, <1>3, <2>1, GetAnswered
<1>4. CASE Reads!shouldRetryGet(f)
  <2> DEFINE r == [flight[f] EXCEPT !.attempt = @ + 1, !.step = "out"]
  <2>1. flight' = [flight EXCEPT ![f] = r]
    BY <1>4 DEF Reads!FailGet
  <2>2. flight[f].attempt + 1 \in {1, 2}
    BY <1>4 DEF Reads!shouldRetryGet
  <2>3. /\ r \in Reads!FlightRecord /\ r # Reads!Idle /\ r.step = "out" /\ r.token = flight[f].token
        /\ r.asked = flight[f].asked /\ r.fallback = flight[f].fallback
    BY <1>2, <2>2 DEF Reads!FlightRecord, Reads!Idle
  <2>4. r.current <=> flight[f].current
    BY <1>2 DEF Reads!FlightRecord
  <2> HIDE DEF r
  <2>5. flight'[f] = r /\ flight' \in [Flight -> Reads!FlightRecord \cup {Reads!Idle}] /\ \A g \in Flight : g # f => flight'[g] = flight[g]
    BY <1>1, <2>1, <2>3
  <2>6. QED
    BY <1>2, <1>4, <2>3, <2>4, <2>5 DEF Current, Returned
<1>5. QED
  BY <1>3, <1>4

\* A request that is over keeps what it was.
LEMMA CallOver ==
  ASSUME Reads!TypeOK, NEW i \in Reads!Calls, call' = [call EXCEPT ![i].step = "done"]
  PROVE  /\ call' \in [Reads!Calls -> Reads!CallRecord] /\ call'[i].step = "done"
         /\ \A j \in Reads!Calls : /\ j # i => call'[j] = call[j]
                                   /\ call'[j].kind = call[j].kind /\ call'[j].version = call[j].version
<1> USE DEF call
<1> DEFINE r == [call[i] EXCEPT !.step = "done"]
<1>1. call \in [Reads!Calls -> Reads!CallRecord] /\ call' = [call EXCEPT ![i] = r]
  BY DEF Reads!TypeOK
<1>2. r \in Reads!CallRecord /\ r.step = "done" /\ r.kind = call[i].kind /\ r.version = call[i].version
  BY <1>1 DEF Reads!CallRecord
<1> HIDE DEF r
<1>3. QED
  BY <1>1, <1>2

\* The server takes an edit, and answers with the data of then.
LEMMA CallServed ==
  ASSUME Reads!TypeOK, EditsCounted, NEW i \in Reads!Calls, Reads!ServeCall(i)
  PROVE  /\ call' \in [Reads!Calls -> Reads!CallRecord] /\ call'[i].step = "back" /\ call'[i].version = data'
         /\ call'[i].kind = call[i].kind /\ \A j \in Reads!Calls : j # i => call'[j] = call[j]
         /\ data' \in 0 .. MaxCalls /\ data <= data' /\ data' = IF call[i].kind = "edit" THEN data + 1 ELSE data
         /\ data' <= Cardinality(Settled')
<1> USE DEF call, data
<1>1. call \in [Reads!Calls -> Reads!CallRecord] /\ data \in 0 .. MaxCalls /\ MaxCalls \in Nat
  BY BrowserAssumption DEF Reads!TypeOK, Reads!ReadsAssumption
<1>2. data' = IF call[i].kind = "edit" THEN data + 1 ELSE data
  BY DEF Reads!ServeCall
<1>3. /\ call[i].step = "out" /\ call'[i].step = "back" /\ call'[i].version = data'
      /\ call'[i].kind = call[i].kind /\ \A j \in Reads!Calls : j # i => call'[j] = call[j]
  BY <1>1 DEF Reads!ServeCall, Reads!CallRecord
<1>4. Settled' = IF call[i].kind = "edit" THEN Settled \cup {i} ELSE Settled
  BY <1>1, <1>3 DEF Settled
<1>5. /\ IsFiniteSet(Reads!Calls) /\ Cardinality(Reads!Calls) = MaxCalls
      /\ Settled \subseteq Reads!Calls /\ Settled' \subseteq Reads!Calls /\ i \notin Settled
  BY <1>1, <1>3, FS_Interval DEF Reads!Calls, Settled
<1>6. IsFiniteSet(Settled) /\ Cardinality(Settled) \in Nat /\ Cardinality(Settled') <= MaxCalls
  BY <1>5, FS_Subset, FS_CardinalityType
<1>7. call[i].kind = "edit" => Cardinality(Settled') = Cardinality(Settled) + 1
  BY <1>4, <1>5, <1>6, FS_AddElement
<1>8. data' <= Cardinality(Settled') /\ data' \in Nat
  BY <1>1, <1>2, <1>4, <1>6, <1>7 DEF EditsCounted
<1>9. Cardinality(Settled') \in Nat
  BY <1>4, <1>6, <1>7
<1>10. data' \in 0 .. MaxCalls /\ data <= data'
  BY <1>1, <1>2, <1>6, <1>8, <1>9
<1>11. call' \in [Reads!Calls -> Reads!CallRecord]
  <2> DEFINE r == [call[i] EXCEPT !.step = "back", !.version = data']
  <2>1. call' = [call EXCEPT ![i] = r]
    BY DEF Reads!ServeCall
  <2>2. r \in Reads!CallRecord
    BY <1>1, <1>10 DEF Reads!CallRecord
  <2> HIDE DEF r
  <2>3. QED
    BY <1>1, <2>1, <2>2
<1>12. QED
  BY <1>2, <1>3, <1>8, <1>10, <1>11

\* A request begins with no answer yet.
LEMMA CallBegins ==
  ASSUME Reads!TypeOK, NEW i \in Reads!Calls, NEW kind \in {"edit", "login", "logout"}, Reads!Begin(i, kind)
  PROVE  /\ call' \in [Reads!Calls -> Reads!CallRecord] /\ call[i].step = "none"
         /\ call'[i].step = "out" /\ call'[i].version = 0 /\ \A j \in Reads!Calls : j # i => call'[j] = call[j]
<1> USE DEF call
<1> DEFINE r == [kind |-> kind, step |-> "out", version |-> 0]
<1>1. call \in [Reads!Calls -> Reads!CallRecord] /\ call' = [call EXCEPT ![i] = r] /\ call[i].step = "none"
  BY DEF Reads!TypeOK, Reads!Begin
<1>2. r \in Reads!CallRecord
  BY BrowserAssumption DEF Reads!CallRecord, Reads!ReadsAssumption
<1>3. r.step = "out" /\ r.version = 0
  OBVIOUS
<1> HIDE DEF r
<1>4. QED
  BY <1>1, <1>2, <1>3

\* A token that the tab is given is the next one.
LEMMA TokenGiven ==
  ASSUME Reads!TypeOK, given < MaxTokens, given' = given + 1, token' = given',
         NEW a \in Account, owner' = [owner EXCEPT ![given'] = a]
  PROVE  /\ given' \in Reads!Token /\ token' \in 0 .. given' /\ owner' \in [Reads!Token -> Account]
         /\ token' # 0 /\ owner'[token'] = a /\ \A t \in Reads!Token : t <= given => owner'[t] = owner[t]
<1>1. given \in Nat /\ given' \in Reads!Token
  BY TokensGiven, BrowserAssumption DEF Reads!Token, Reads!ReadsAssumption
<1>2. owner \in [Reads!Token -> Account]
  BY DEF Reads!TypeOK, owner
<1>3. QED
  BY <1>1, <1>2 DEF Reads!Token

\* Ageing an answer changes neither what it shows nor whose it is.
LEMMA Aged ==
  ASSUME NEW e \in Reads!Entry \cup {NoEntry}
  PROVE  /\ Reads!Age(e) \in Reads!Entry \cup {NoEntry}
         /\ Reads!Age(e) # NoEntry => e # NoEntry /\ Reads!Age(e).version = e.version /\ Reads!Age(e).of = e.of
<1>1. CASE Reads!Fresh(e)
  <2>1. e \in Reads!Entry /\ FALSE \in BOOLEAN
    BY <1>1 DEF Reads!Fresh
  <2>2. QED
    BY <1>1, <2>1 DEF Reads!Age, Reads!Fresh, Reads!Entry
<1>2. CASE ~ Reads!Fresh(e)
  BY <1>2 DEF Reads!Age
<1>3. QED
  BY <1>1, <1>2

\* What the answer of a GET leaves in the caches.
LEMMA AnswerKept ==
  ASSUME Reads!TypeOK, NEW f \in Flight, Reads!AnswerGet(f)
  PROVE  /\ Returned(f) /\ flight[f] \in Reads!FlightRecord /\ flight' = [flight EXCEPT ![f] = Reads!Idle]
         /\ pending' = [pending EXCEPT ![flight[f].token] = IF @ = f THEN NoFlight ELSE @]
         /\ \/ UNCHANGED <<memory, persisted>>
            \/ /\ Current(f) /\ persisted' \in Reads!Entry /\ persisted'.version = flight[f].version
               /\ persisted'.of = flight[f].of
               /\ memory' = [memory EXCEPT ![flight[f].token] = persisted']
<1> USE DEF memory, persisted, pending, flight
<1>1. Returned(f) /\ flight[f] \in Reads!FlightRecord /\ flight[f] # Reads!Idle
  BY DEF Reads!AnswerGet, Reads!TypeOK, Reads!Idle, Returned
<1>2. /\ flight' = [flight EXCEPT ![f] = Reads!Idle]
      /\ pending' = [pending EXCEPT ![flight[f].token] = IF @ = f THEN NoFlight ELSE @]
  BY DEF Reads!AnswerGet, Reads!Forget
<1>3. CASE ~ Reads!MayKeep(f)
  BY <1>1, <1>2, <1>3 DEF Reads!AnswerGet
<1>4. CASE Reads!MayKeep(f)
  <2> DEFINE e == [version |-> flight[f].version, of |-> flight[f].of, fresh |-> TRUE]
  <2>1. persisted' = e /\ memory' = [memory EXCEPT ![flight[f].token] = e]
    BY <1>4 DEF Reads!AnswerGet
  <2>2. TRUE \in BOOLEAN
    OBVIOUS
  <2>3. e \in Reads!Entry /\ e.version = flight[f].version /\ e.of = flight[f].of
    BY <1>1, <2>2 DEF Reads!Entry, Reads!FlightRecord
  <2> HIDE DEF e
  <2>4. QED
    BY <1>1, <1>2, <1>4, <2>1, <2>3 DEF Current, Reads!MayKeep
<1>5. QED
  BY <1>3, <1>4

\* Every step keeps the types.
LEMMA ReadsTyped ==
  ASSUME Reads!TypeOK, EditsCounted, GetsShow, Reads!Next
  PROVE  Reads!TypeOK'
<1> USE DEF token, given, owner, memory, persisted, pending, flight, call, data, known
<1> USE TokensGiven
<1>1. CASE Reads!Expire
  <2>1. memory' \in [Reads!Token -> Reads!Entry \cup {NoEntry}] /\ persisted' \in Reads!Entry \cup {NoEntry}
    BY <1>1, Aged DEF Reads!Expire, Reads!TypeOK
  <2>2. QED
    BY <1>1, <2>1 DEF Reads!Expire, Reads!TypeOK
<1>2. CASE Reads!GetFromMemory \/ Reads!GetFromSession
  BY <1>2 DEF Reads!TypeOK, Reads!GetFromMemory, Reads!GetFromSession
<1>3. ASSUME NEW f \in Flight, Reads!GetFromServer(f)
      PROVE  Reads!TypeOK'
  <2>1. flight' \in [Flight -> Reads!FlightRecord \cup {Reads!Idle}]
    BY <1>3, GetBegins
  <2>2. QED
    BY <1>3, <2>1 DEF Reads!TypeOK, Reads!GetFromServer
<1>4. ASSUME NEW f \in Flight, Reads!ServeGet(f)
      PROVE  Reads!TypeOK'
  <2>1. flight' \in [Flight -> Reads!FlightRecord \cup {Reads!Idle}]
    BY <1>4, GetServed
  <2>2. QED
    BY <1>4, <2>1 DEF Reads!TypeOK, Reads!ServeGet
<1>5. ASSUME NEW f \in Flight, Reads!AnswerGet(f)
      PROVE  Reads!TypeOK'
  <2>1. flight' \in [Flight -> Reads!FlightRecord \cup {Reads!Idle}]
    BY <1>5, AnswerKept, GetAnswered DEF Returned
  <2>2. pending' \in [Reads!Token -> Flight \cup {NoFlight}]
    BY <1>5, AnswerKept DEF Reads!TypeOK
  <2>3. memory' \in [Reads!Token -> Reads!Entry \cup {NoEntry}] /\ persisted' \in Reads!Entry \cup {NoEntry}
    BY <1>5, AnswerKept DEF Reads!TypeOK
  <2>4. QED
    BY <1>5, <2>1, <2>2, <2>3 DEF Reads!TypeOK, Reads!AnswerGet
<1>6. ASSUME NEW f \in Flight, Reads!FailGet(f)
      PROVE  Reads!TypeOK'
  <2>1. flight' \in [Flight -> Reads!FlightRecord \cup {Reads!Idle}]
    BY <1>6, GetFailed
  <2>2. pending' \in [Reads!Token -> Flight \cup {NoFlight}]
    BY <1>6 DEF Reads!TypeOK, Reads!FailGet, Reads!Forget
  <2>3. QED
    BY <1>6, <2>1, <2>2 DEF Reads!TypeOK, Reads!FailGet
<1>7. ASSUME NEW i \in Reads!Calls, NEW kind \in {"edit", "login", "logout"}, Reads!Begin(i, kind)
      PROVE  Reads!TypeOK'
  <2>1. Reads!clearApiCache /\ UNCHANGED <<token, given, owner, data, known>>
    BY <1>7 DEF Reads!Begin
  <2>2. call' \in [Reads!Calls -> Reads!CallRecord]
    BY <1>7, CallBegins
  <2>3. QED
    BY <2>1, <2>2, Cleared DEF Reads!TypeOK
<1>8. ASSUME NEW i \in Reads!Calls, Reads!ServeCall(i)
      PROVE  Reads!TypeOK'
  <2>1. known \in Nat /\ known <= data /\ data \in Nat /\ MaxCalls \in Nat
    BY BrowserAssumption DEF Reads!TypeOK, Reads!ReadsAssumption
  <2>2. known' = known
    BY <1>8 DEF Reads!ServeCall
  <2>3. known' \in 0 .. data'
    BY <1>8, <2>1, <2>2, CallServed
  <2>4. QED
    BY <1>8, <2>3, CallServed DEF Reads!TypeOK, Reads!ServeCall
<1>9. ASSUME NEW i \in Reads!Calls, Reads!AnswerEdit(i), call[i].version <= data
      PROVE  Reads!TypeOK'
  <2>1. call' \in [Reads!Calls -> Reads!CallRecord]
    BY <1>9, CallOver DEF Reads!AnswerEdit
  <2>2. call[i].version \in 0 .. MaxCalls /\ MaxCalls \in Nat
    BY BrowserAssumption DEF Reads!TypeOK, Reads!CallRecord, Reads!ReadsAssumption
  <2>3. known' \in 0 .. data
    BY <1>9, <2>2 DEF Reads!TypeOK, Reads!AnswerEdit
  <2>4. QED
    BY <1>9, <2>1, <2>3 DEF Reads!TypeOK, Reads!AnswerEdit
<1>10. ASSUME NEW i \in Reads!Calls, Reads!AnswerLogin(i)
       PROVE  Reads!TypeOK'
  <2>1. Reads!clearApiCache /\ UNCHANGED <<data, known>>
    BY <1>10 DEF Reads!AnswerLogin
  <2>2. call' \in [Reads!Calls -> Reads!CallRecord]
    BY <1>10, CallOver DEF Reads!AnswerLogin
  <2>3. given' \in Reads!Token /\ token' \in 0 .. given' /\ owner' \in [Reads!Token -> Account]
    BY <1>10, TokenGiven DEF Reads!AnswerLogin
  <2>4. QED
    BY <2>1, <2>2, <2>3, Cleared DEF Reads!TypeOK
<1>11. ASSUME NEW i \in Reads!Calls, Reads!EndLogout(i)
       PROVE  Reads!TypeOK'
  <2>1. Reads!clearApiCache /\ UNCHANGED <<given, owner, data, known>> /\ token' = 0
    BY <1>11 DEF Reads!EndLogout
  <2>2. call' \in [Reads!Calls -> Reads!CallRecord]
    BY <1>11, CallOver DEF Reads!EndLogout
  <2>3. QED
    BY <2>1, <2>2, Cleared DEF Reads!TypeOK
<1>12. ASSUME NEW i \in Reads!Calls, Reads!FailCall(i)
       PROVE  Reads!TypeOK'
  <2>1. call' \in [Reads!Calls -> Reads!CallRecord]
    BY <1>12, CallOver DEF Reads!FailCall
  <2>2. QED
    BY <1>12, <2>1 DEF Reads!TypeOK, Reads!FailCall
<1>13. CASE Reads!Refresh
  <2>1. given' \in Reads!Token /\ token' \in 0 .. given' /\ owner' \in [Reads!Token -> Account]
    BY <1>13, TokenGiven DEF Reads!Refresh
  <2>2. UNCHANGED <<call, data, known>>
    BY <1>13 DEF Reads!Refresh
  <2>3. Reads!clearApiCache \/ UNCHANGED <<memory, persisted, pending, flight>>
    BY <1>13 DEF Reads!Refresh
  <2>4. QED
    BY <2>1, <2>2, <2>3, Cleared DEF Reads!TypeOK
<1>14. CASE Reads!EndSession
  <2>1. Reads!clearApiCache /\ UNCHANGED <<given, owner, call, data, known>> /\ token' = 0
    BY <1>14 DEF Reads!EndSession
  <2>2. QED
    BY <2>1, Cleared DEF Reads!TypeOK
<1>15. QED
  BY <1>1, <1>2, <1>3, <1>4, <1>5, <1>6, <1>7, <1>8, <1>9, <1>10, <1>11, <1>12, <1>13, <1>14 DEF Reads!Next, GetsShow

\* Nothing is kept after a clear, whatever requests are on their way.
LEMMA ClearedShow ==
  ASSUME Reads!TypeOK, Reads!clearApiCache
  PROVE  KeptAnswersShow' /\ \A f \in Flight : ~ Current(f)'
<1>1. /\ \A t \in Reads!Token : memory'[t] = NoEntry
      /\ persisted' = NoEntry /\ \A f \in Flight : ~ Current(f)'
  BY Cleared
<1>2. QED
  BY <1>1 DEF KeptAnswersShow, IsKept

\* What is kept goes on showing the edits.
LEMMA ShowKept ==
  ASSUME Reads!TypeOK, KeptAnswersShow, GetsShow, Reads!Next
  PROVE  KeptAnswersShow'
<1> USE DEF token, given, owner, memory, persisted, pending, flight, call, data, known, raced
<1>0. /\ memory \in [Reads!Token -> Reads!Entry \cup {NoEntry}] /\ persisted \in Reads!Entry \cup {NoEntry}
      /\ flight \in [Flight -> Reads!FlightRecord \cup {Reads!Idle}]
      /\ data \in Nat /\ known \in Nat /\ known <= data /\ \A i \in Reads!Calls : call[i].version \in Nat
  BY BrowserAssumption DEF Reads!TypeOK, Reads!ReadsAssumption, Reads!CallRecord
<1>1. CASE Reads!Expire
  <2>1. \A e \in Reads!Entry : IsKept(e)' => \E g \in Reads!Entry : IsKept(g) /\ g.version = e.version
    <3> SUFFICES ASSUME NEW e \in Reads!Entry, IsKept(e)'
                 PROVE  \E g \in Reads!Entry : IsKept(g) /\ g.version = e.version
      OBVIOUS
    <3>1. CASE e = persisted'
      <4>1. e = Reads!Age(persisted) /\ e # NoEntry
        BY <1>1, <3>1 DEF Reads!Expire, IsKept
      <4>2. QED
        BY <1>0, <4>1, Aged DEF IsKept
    <3>2. ASSUME NEW t \in Reads!Token, e = memory'[t]
          PROVE  \E g \in Reads!Entry : IsKept(g) /\ g.version = e.version
      <4>1. e = Reads!Age(memory[t]) /\ e # NoEntry /\ memory[t] \in Reads!Entry \cup {NoEntry}
        BY <1>0, <1>1, <3>2 DEF Reads!Expire, IsKept
      <4>2. QED
        BY <4>1, Aged DEF IsKept
    <3>3. QED
      BY <3>1, <3>2 DEF IsKept
  <2>2. UNCHANGED <<flight, call, known, raced>>
    BY <1>1 DEF Reads!Expire
  <2>3. QED
    BY <2>1, <2>2 DEF KeptAnswersShow, Shows, Editing, Current, Returned
<1>2. CASE Reads!GetFromMemory \/ Reads!GetFromSession
  <2>1. \A e \in Reads!Entry : IsKept(e)' => IsKept(e)
    BY <1>0, <1>2 DEF Reads!GetFromMemory, Reads!GetFromSession, IsKept
  <2>2. UNCHANGED <<flight, call, known, raced>>
    BY <1>2 DEF Reads!GetFromMemory, Reads!GetFromSession
  <2>3. QED
    BY <2>1, <2>2 DEF KeptAnswersShow, Shows, Editing, Current, Returned
<1>3. ASSUME NEW f \in Flight, Reads!GetFromServer(f)
      PROVE  KeptAnswersShow'
  <2>1. \A e \in Reads!Entry : IsKept(e)' => IsKept(e)
    BY <1>0, <1>3 DEF Reads!GetFromServer, IsKept
  <2>2. UNCHANGED <<call, known, raced>>
    BY <1>3 DEF Reads!GetFromServer
  <2>3. \A g \in Flight : Returned(g)' => g # f /\ Returned(g) /\ flight'[g] = flight[g]
    BY <1>3, GetBegins DEF Returned
  <2>4. QED
    BY <2>1, <2>2, <2>3 DEF KeptAnswersShow, Shows, Editing, Current
<1>4. ASSUME NEW f \in Flight, Reads!ServeGet(f)
      PROVE  KeptAnswersShow'
  <2>1. UNCHANGED <<memory, persisted, call, data, known>>
    BY <1>4 DEF Reads!ServeGet
  <2>2. \A e \in Reads!Entry : IsKept(e)' <=> IsKept(e)
    BY <2>1 DEF IsKept
  <2>3. ~ raced' => ~ raced /\ ~ (flight[f].current /\ \E i \in Reads!Calls : Editing(i, "out"))
    BY <1>4 DEF Reads!ServeGet, Editing
  <2>4. Shows(data)
    BY <1>0 DEF Shows, GetsShow
  <2>5. \A version : Shows(version)' <=> Shows(version)
    BY <2>1 DEF Shows, Editing
  <2>6. \A g \in Flight : Current(g)' /\ Returned(g)' => Current(g) /\ (IF g = f THEN flight'[g].version = data ELSE Returned(g) /\ flight'[g] = flight[g])
    BY <1>4, GetServed DEF Current, Returned
  <2>7. \A i \in Reads!Calls : Editing(i, "out")' <=> Editing(i, "out")
    BY <2>1 DEF Editing
  <2>8. QED
    BY <2>2, <2>3, <2>4, <2>5, <2>6, <2>7 DEF KeptAnswersShow, Current
<1>5. ASSUME NEW f \in Flight, Reads!AnswerGet(f)
      PROVE  KeptAnswersShow'
  <2>1. UNCHANGED <<call, known, raced>>
    BY <1>5 DEF Reads!AnswerGet
  <2>2. Returned(f) /\ \A g \in Flight : Current(g)' => g # f /\ Current(g) /\ flight'[g] = flight[g]
    BY <1>5, AnswerKept, GetAnswered DEF Current, Returned
  <2>3. \A e \in Reads!Entry : IsKept(e)' => IsKept(e) \/ (Current(f) /\ e.version = flight[f].version)
    BY <1>0, <1>5, AnswerKept DEF IsKept
  <2>4. QED
    BY <2>1, <2>2, <2>3 DEF KeptAnswersShow, Shows, Editing, Returned
<1>6. ASSUME NEW f \in Flight, Reads!FailGet(f)
      PROVE  KeptAnswersShow'
  <2>1. UNCHANGED <<memory, persisted, call, known, raced>>
    BY <1>6 DEF Reads!FailGet
  <2>2. \A g \in Flight : Current(g)' /\ Returned(g)' => Current(g) /\ Returned(g) /\ flight'[g] = flight[g]
    BY <1>6, GetFailed DEF Current, Returned
  <2>3. QED
    BY <2>1, <2>2 DEF KeptAnswersShow, Shows, Editing, IsKept
<1>7. CASE Reads!clearApiCache
  BY <1>7, ClearedShow
<1>8. ASSUME NEW i \in Reads!Calls, Reads!ServeCall(i)
      PROVE  KeptAnswersShow'
  <2>1. UNCHANGED <<memory, persisted, flight, known, raced>> /\ call[i].step = "out"
    BY <1>8 DEF Reads!ServeCall
  <2>2. /\ call \in [Reads!Calls -> Reads!CallRecord]
        /\ \A j \in Reads!Calls : j # i => call'[j] = call[j]
        /\ call'[i].step = "back" /\ call'[i].kind = call[i].kind
    BY <1>8 DEF Reads!ServeCall, Reads!TypeOK, Reads!CallRecord
  <2>3. CASE call[i].kind = "edit"
    <3>1. ~ raced => (\A e \in Reads!Entry : ~ IsKept(e)) /\ \A f \in Flight : ~ (Current(f) /\ Returned(f))
      BY <2>1, <2>3 DEF KeptAnswersShow, Editing
    <3>2. QED
      BY <2>1, <3>1 DEF KeptAnswersShow, IsKept, Current, Returned
  <2>4. CASE call[i].kind # "edit"
    <3>1. \A j \in Reads!Calls : /\ Editing(j, "out")' <=> Editing(j, "out")
                                 /\ Editing(j, "back")' => Editing(j, "back") /\ call'[j] = call[j]
      BY <2>2, <2>4 DEF Editing
    <3>2. QED
      BY <2>1, <3>1 DEF KeptAnswersShow, IsKept, Current, Returned, Shows
  <2>5. QED
    BY <2>3, <2>4
<1>9. ASSUME NEW i \in Reads!Calls, Reads!AnswerEdit(i)
      PROVE  KeptAnswersShow'
  <2>1. UNCHANGED <<memory, persisted, flight, raced>> /\ Editing(i, "back")
    BY <1>9 DEF Reads!AnswerEdit, Editing
  <2>2. \A j \in Reads!Calls, step \in {"out", "back"} :
          Editing(j, step)' => Editing(j, step) /\ call'[j].version = call[j].version
    BY <1>9, CallOver DEF Reads!AnswerEdit, Editing
  <2>3. known' \in {known, call[i].version}
    BY <1>9 DEF Reads!AnswerEdit
  <2>4. \A version : Shows(version) => Shows(version)'
    BY <2>1, <2>2, <2>3 DEF Shows
  <2>5. QED
    BY <2>1, <2>2, <2>4 DEF KeptAnswersShow, IsKept, Current, Returned
<1>10. ASSUME NEW i \in Reads!Calls, Reads!FailCall(i)
       PROVE  KeptAnswersShow'
  <2>1. UNCHANGED <<memory, persisted, flight, known, raced>>
    BY <1>10 DEF Reads!FailCall
  <2>2. \A j \in Reads!Calls, step \in {"out", "back"} :
          Editing(j, step)' => Editing(j, step) /\ call'[j].version = call[j].version
    BY <1>10, CallOver DEF Reads!FailCall, Editing
  <2>3. \A version : Shows(version) => Shows(version)'
    BY <2>1, <2>2 DEF Shows
  <2>4. QED
    BY <2>1, <2>2, <2>3 DEF KeptAnswersShow, IsKept, Current, Returned
<1>11. CASE Reads!Refresh /\ ~ Reads!clearApiCache
  <2>1. UNCHANGED <<memory, persisted, flight, call, known, raced>>
    BY <1>11 DEF Reads!Refresh
  <2>2. QED
    BY <2>1 DEF KeptAnswersShow, IsKept, Current, Returned, Shows, Editing
<1>12. QED
  BY <1>1, <1>2, <1>3, <1>4, <1>5, <1>6, <1>7, <1>8, <1>9, <1>10, <1>11
  DEF Reads!Next, Reads!Begin, Reads!AnswerLogin, Reads!EndLogout, Reads!EndSession

\* No page is given an answer older than what it counts on.
LEMMA GetsKept ==
  ASSUME Reads!TypeOK, KeptAnswersShow, GetsShow, EditsCounted, Reads!Next
  PROVE  GetsShow'
<1> USE DEF token, given, owner, memory, persisted, pending, flight, call, data, known, raced, outdated
<1>0. /\ memory \in [Reads!Token -> Reads!Entry \cup {NoEntry}] /\ persisted \in Reads!Entry \cup {NoEntry}
      /\ flight \in [Flight -> Reads!FlightRecord \cup {Reads!Idle}]
      /\ data \in Nat /\ known \in Nat /\ known <= data /\ \A i \in Reads!Calls : call[i].version \in Nat
      /\ \A e \in Reads!Entry : e.version \in Nat
  BY BrowserAssumption DEF Reads!TypeOK, Reads!ReadsAssumption, Reads!CallRecord, Reads!Entry
<1>1. \A e \in Reads!Entry : IsKept(e) => Reads!Confirmed <= e.version
  BY <1>0 DEF KeptAnswersShow, Shows, Reads!Confirmed
<1>2. CASE Reads!Expire
  BY <1>2 DEF Reads!Expire, GetsShow, Returned
<1>3. CASE Reads!GetFromMemory \/ Reads!GetFromSession
  <2>1. \E e \in Reads!Entry : IsKept(e) /\ outdated' = (outdated \/ e.version < Reads!Confirmed)
    <3>1. token \in Reads!Token
      BY <1>3, TokensGiven DEF Reads!GetFromMemory, Reads!GetFromSession
    <3>2. QED
      BY <1>0, <1>3, <3>1 DEF Reads!GetFromMemory, Reads!GetFromSession, Reads!Answer, Reads!Fresh, IsKept
  <2>2. Reads!Confirmed \in Nat
    BY <1>0 DEF Reads!Confirmed
  <2>3. ~ outdated'
    <3>1. PICK e \in Reads!Entry : IsKept(e) /\ outdated' = (outdated \/ e.version < Reads!Confirmed)
      BY <2>1
    <3>2. ~ (e.version < Reads!Confirmed)
      BY <1>0, <1>1, <2>2, <3>1
    <3>3. ~ outdated
      BY DEF GetsShow
    <3>4. QED
      BY <3>1, <3>2, <3>3, Zenon
  <2>4. UNCHANGED <<flight, call, data>>
    BY <1>3 DEF Reads!GetFromMemory, Reads!GetFromSession
  <2>5. QED
    BY <2>3, <2>4 DEF GetsShow, Returned
<1>4. ASSUME NEW f \in Flight, Reads!GetFromServer(f)
      PROVE  GetsShow'
  <2>1. UNCHANGED <<call, data, outdated>> /\ token \in Reads!Token
    BY <1>4, TokensGiven DEF Reads!GetFromServer
  <2>2. Reads!Confirmed <= data
    BY <1>0 DEF Reads!Confirmed
  <2>3. flight'[f].fallback # NoEntry => flight'[f].fallback \in Reads!Entry /\ IsKept(flight'[f].fallback)
    BY <1>0, <1>4, <2>1, GetBegins DEF IsKept
  <2>4. QED
    BY <1>1, <1>4, <2>1, <2>2, <2>3, GetBegins DEF GetsShow, Returned
<1>5. ASSUME NEW f \in Flight, Reads!ServeGet(f)
      PROVE  GetsShow'
  <2>1. UNCHANGED <<call, data, outdated>>
    BY <1>5 DEF Reads!ServeGet
  <2>2. QED
    BY <1>5, <2>1, GetServed DEF GetsShow, Returned
<1>6. ASSUME NEW f \in Flight, Reads!AnswerGet(f)
      PROVE  GetsShow'
  <2>1. UNCHANGED <<call, data>> /\ outdated' = (outdated \/ flight[f].version < flight[f].asked)
    BY <1>6 DEF Reads!AnswerGet, Reads!Answer
  <2>2. /\ flight'[f] = Reads!Idle /\ \A g \in Flight : g # f => flight'[g] = flight[g]
        /\ Returned(f) /\ flight[f] \in Reads!FlightRecord /\ flight[f] # Reads!Idle
    BY <1>6, AnswerKept, GetAnswered DEF Returned
  <2>3. ~ outdated'
    <3>1. ~ (flight[f].version < flight[f].asked)
      BY <2>2, BrowserAssumption DEF GetsShow, Reads!FlightRecord, Reads!ReadsAssumption
    <3>2. ~ outdated
      BY DEF GetsShow
    <3>3. QED
      BY <2>1, <3>1, <3>2, Zenon
  <2>4. QED
    BY <2>1, <2>2, <2>3 DEF GetsShow, Returned
<1>7. ASSUME NEW f \in Flight, Reads!FailGet(f)
      PROVE  GetsShow'
  <2>1. UNCHANGED <<call, data>>
    BY <1>7 DEF Reads!FailGet
  <2>2. flight[f] \in Reads!FlightRecord /\ flight[f] # Reads!Idle
    BY <1>7, GetFailed
  <2>3. \/ outdated' = outdated
        \/ flight[f].fallback # NoEntry /\ outdated' = (outdated \/ flight[f].fallback.version < flight[f].asked)
    BY <1>7 DEF Reads!FailGet, Reads!Answer
  <2>4. ~ outdated'
    <3>1. flight[f].asked \in Nat /\ (flight[f].fallback # NoEntry => flight[f].fallback \in Reads!Entry)
      BY <2>2, BrowserAssumption DEF Reads!FlightRecord, Reads!ReadsAssumption
    <3>2. flight[f].fallback # NoEntry => ~ (flight[f].fallback.version < flight[f].asked)
      BY <1>0, <2>2, <3>1 DEF GetsShow
    <3>3. ~ outdated
      BY DEF GetsShow
    <3>4. QED
      BY <2>3, <3>2, <3>3, Zenon
  <2>5. QED
    BY <1>7, <2>1, <2>2, <2>4, GetFailed DEF GetsShow, Returned
<1>8. ASSUME NEW i \in Reads!Calls, NEW kind \in {"edit", "login", "logout"}, Reads!Begin(i, kind)
      PROVE  GetsShow'
  <2>1. Reads!clearApiCache /\ UNCHANGED <<data, outdated>>
    BY <1>8 DEF Reads!Begin
  <2>2. \A j \in Reads!Calls : call'[j].version <= data
    BY <1>0, <1>8, CallBegins DEF GetsShow
  <2>3. QED
    BY <2>1, <2>2, Cleared DEF GetsShow
<1>9. ASSUME NEW i \in Reads!Calls, Reads!ServeCall(i)
      PROVE  GetsShow'
  <2>1. UNCHANGED <<flight, outdated>>
    BY <1>9 DEF Reads!ServeCall
  <2>2. \A j \in Reads!Calls : call'[j].version <= data'
    BY <1>0, <1>9, CallServed, BrowserAssumption DEF GetsShow, Reads!ReadsAssumption
  <2>3. \A g \in Flight : flight[g] # Reads!Idle => flight[g].asked \in Nat
    BY <1>0, BrowserAssumption DEF Reads!FlightRecord, Reads!ReadsAssumption
  <2>4. data' \in Nat /\ data <= data'
    BY <1>9, CallServed, BrowserAssumption DEF Reads!ReadsAssumption
  <2>5. QED
    BY <1>0, <2>1, <2>2, <2>3, <2>4 DEF GetsShow, Returned
<1>10. ASSUME NEW i \in Reads!Calls, Reads!AnswerEdit(i) \/ Reads!FailCall(i)
       PROVE  GetsShow'
  <2>1. UNCHANGED <<flight, data, outdated>>
    BY <1>10 DEF Reads!AnswerEdit, Reads!FailCall
  <2>2. QED
    BY <1>10, <2>1, CallOver DEF GetsShow, Returned, Reads!AnswerEdit, Reads!FailCall
<1>11. ASSUME NEW i \in Reads!Calls, Reads!AnswerLogin(i) \/ Reads!EndLogout(i)
       PROVE  GetsShow'
  <2>1. Reads!clearApiCache /\ UNCHANGED <<data, outdated>>
    BY <1>11 DEF Reads!AnswerLogin, Reads!EndLogout
  <2>2. \A j \in Reads!Calls : call'[j].version = call[j].version
    BY <1>11, CallOver DEF Reads!AnswerLogin, Reads!EndLogout
  <2>3. QED
    BY <2>1, <2>2, Cleared DEF GetsShow
<1>12. CASE Reads!Refresh \/ Reads!EndSession
  <2>1. UNCHANGED <<call, data, outdated>> /\ (Reads!clearApiCache \/ UNCHANGED flight)
    BY <1>12 DEF Reads!Refresh, Reads!EndSession
  <2>2. QED
    BY <2>1, Cleared DEF GetsShow, Returned
<1>13. QED
  BY <1>2, <1>3, <1>4, <1>5, <1>6, <1>7, <1>8, <1>9, <1>10, <1>11, <1>12 DEF Reads!Next

\* A cleared cache holds nobody's answers.
LEMMA ClearedOwn ==
  ASSUME Reads!TypeOK, CurrentIsPending, Reads!clearApiCache, given' \in Nat, given <= given'
  PROVE  KeptAnswersAreOwn' /\ CurrentIsPending'
<1> USE DEF memory, persisted, pending, flight
<1>1. /\ \A t \in Reads!Token : memory'[t] = NoEntry
      /\ persisted' = NoEntry /\ \A f \in Flight : ~ Current(f)'
      /\ \A f \in Flight : /\ flight'[f] = Reads!Idle <=> flight[f] = Reads!Idle
                           /\ flight[f] # Reads!Idle => flight'[f].token = flight[f].token
  BY Cleared
<1>2. KeptAnswersAreOwn'
  BY <1>1 DEF KeptAnswersAreOwn
<1>3. \A f \in Flight : flight[f] # Reads!Idle => flight[f].token \in Nat
  BY DEF Reads!TypeOK, Reads!FlightRecord, Reads!Token
<1>4. CurrentIsPending'
  BY <1>1, <1>3, TokensGiven DEF CurrentIsPending
<1>5. QED
  BY <1>2, <1>4

\* What is kept stays the account's of its token.
LEMMA OwnKept ==
  ASSUME Reads!TypeOK, KeptAnswersAreOwn, CurrentIsPending, Reads!Next
  PROVE  KeptAnswersAreOwn'
<1> USE DEF token, given, owner, memory, persisted, flight, swapped
<1>0. /\ memory \in [Reads!Token -> Reads!Entry \cup {NoEntry}] /\ persisted \in Reads!Entry \cup {NoEntry}
      /\ flight \in [Flight -> Reads!FlightRecord \cup {Reads!Idle}] /\ owner \in [Reads!Token -> Account]
  BY DEF Reads!TypeOK
<1>1. CASE Reads!Expire
  <2>1. UNCHANGED <<token, given, owner, flight, swapped>>
    BY <1>1 DEF Reads!Expire
  <2>2. \A t \in Reads!Token : memory'[t] # NoEntry => memory[t] # NoEntry /\ memory'[t].of = memory[t].of
    BY <1>0, <1>1, Aged DEF Reads!Expire
  <2>3. persisted' # NoEntry => persisted # NoEntry /\ persisted'.of = persisted.of
    BY <1>0, <1>1, Aged DEF Reads!Expire
  <2>4. QED
    BY <2>1, <2>2, <2>3 DEF KeptAnswersAreOwn, Current, Returned
<1>2. CASE Reads!GetFromMemory \/ Reads!GetFromSession
  <2>1. UNCHANGED <<token, given, owner, persisted, flight, swapped>> /\ token \in Reads!Token
    BY <1>2, TokensGiven DEF Reads!GetFromMemory, Reads!GetFromSession
  <2>2. memory' = memory \/ memory' = [memory EXCEPT ![token] = persisted]
    BY <1>2 DEF Reads!GetFromMemory, Reads!GetFromSession
  <2>3. \A t \in Reads!Token : /\ t # token => memory'[t] = memory[t]
                               /\ memory'[t] = memory[t] \/ memory'[t] = persisted
    BY <1>0, <2>2
  <2>4. ~ token > given
    BY TokensGiven
  <2>5. \A t \in Reads!Token : t > given => memory'[t] = NoEntry
    BY <2>3, <2>4 DEF KeptAnswersAreOwn
  <2>6. memory'[token] = memory[token] \/ memory'[token] = persisted
    BY <2>1, <2>3
  <2>7. ~ swapped => \A t \in Reads!Token : memory'[t] # NoEntry => memory'[t].of = owner[t]
    <3> SUFFICES ASSUME ~ swapped, NEW t \in Reads!Token, memory'[t] # NoEntry PROVE memory'[t].of = owner[t]
      OBVIOUS
    <3>1. CASE t = token /\ memory'[t] = persisted
      <4>1. token # 0
        BY <2>1, BrowserAssumption DEF Reads!Token, Reads!ReadsAssumption
      <4>2. QED
        BY <3>1, <4>1 DEF KeptAnswersAreOwn
    <3>2. CASE memory'[t] = memory[t]
      BY <3>2 DEF KeptAnswersAreOwn
    <3>3. QED
      BY <2>3, <2>6, <3>1, <3>2
  <2>8. QED
    BY <2>1, <2>5, <2>7 DEF KeptAnswersAreOwn, Current, Returned
<1>3. ASSUME NEW f \in Flight, Reads!GetFromServer(f)
      PROVE  KeptAnswersAreOwn'
  <2>1. /\ UNCHANGED <<token, given, owner, swapped>> /\ token # 0 /\ persisted' = NoEntry
        /\ memory' = [memory EXCEPT ![token] = NoEntry]
    BY <1>3 DEF Reads!GetFromServer
  <2>2. \A g \in Flight : Current(g)' => \/ Current(g) /\ flight'[g] = flight[g]
                                         \/ flight'[g].token = token /\ ~ Returned(g)'
    BY <1>3, GetBegins DEF Current
  <2>3. QED
    BY <1>0, <2>1, <2>2 DEF KeptAnswersAreOwn, Returned
<1>4. ASSUME NEW f \in Flight, Reads!ServeGet(f)
      PROVE  KeptAnswersAreOwn'
  <2>1. UNCHANGED <<token, given, owner, memory, persisted, swapped>>
    BY <1>4 DEF Reads!ServeGet
  <2>2. \A g \in Flight : Current(g)' =>
          /\ Current(g) /\ flight'[g].token = flight[g].token
          /\ flight'[g] = flight[g] \/ flight'[g].of \in {owner[flight[g].token], owner[token]}
    BY <1>4, GetServed DEF Current
  <2>3. QED
    BY <2>1, <2>2 DEF KeptAnswersAreOwn, Returned
<1>5. ASSUME NEW f \in Flight, Reads!AnswerGet(f)
      PROVE  KeptAnswersAreOwn'
  <2>1. UNCHANGED <<token, given, owner, swapped>>
    BY <1>5 DEF Reads!AnswerGet
  <2>2. /\ Returned(f) /\ flight[f] \in Reads!FlightRecord /\ flight[f].token <= given
        /\ \A g \in Flight : Current(g)' => g # f /\ Current(g) /\ flight'[g] = flight[g]
    BY <1>5, AnswerKept, GetAnswered DEF Current, Returned, CurrentIsPending
  <2>3. CASE UNCHANGED <<memory, persisted>>
    BY <2>1, <2>2, <2>3 DEF KeptAnswersAreOwn, Returned
  <2>4. CASE /\ Current(f) /\ persisted' \in Reads!Entry /\ persisted'.of = flight[f].of
             /\ memory' = [memory EXCEPT ![flight[f].token] = persisted']
    <3>1. ~ swapped => persisted'.of = owner[token] /\ owner[flight[f].token] = owner[token]
      BY <2>2, <2>4 DEF KeptAnswersAreOwn
    <3>2. flight[f].token \in Reads!Token
      BY <2>2 DEF Reads!FlightRecord
    <3>3. \A t \in Reads!Token : t > given => t # flight[f].token
      BY <2>2, <3>2, TokensGiven DEF Reads!Token
    <3>4. QED
      BY <1>0, <2>1, <2>2, <2>4, <3>1, <3>2, <3>3 DEF KeptAnswersAreOwn, Returned
  <2>5. QED
    BY <1>5, <2>3, <2>4, AnswerKept
<1>6. ASSUME NEW f \in Flight, Reads!FailGet(f)
      PROVE  KeptAnswersAreOwn'
  <2>1. UNCHANGED <<token, given, owner, memory, persisted, swapped>>
    BY <1>6 DEF Reads!FailGet
  <2>2. \A g \in Flight : Current(g)' => Current(g) /\ flight'[g].token = flight[g].token /\ (Returned(g)' => flight'[g] = flight[g])
    BY <1>6, GetFailed DEF Current, Returned
  <2>3. QED
    BY <2>1, <2>2 DEF KeptAnswersAreOwn, Returned
<1>7. CASE Reads!clearApiCache /\ (UNCHANGED given \/ given' = given + 1)
  BY <1>7, ClearedOwn, TokensGiven
<1>8. ASSUME NEW i \in Reads!Calls, Reads!ServeCall(i) \/ Reads!AnswerEdit(i) \/ Reads!FailCall(i)
      PROVE  KeptAnswersAreOwn'
  <2>1. UNCHANGED <<token, given, owner, memory, persisted, flight, swapped>>
    BY <1>8 DEF Reads!ServeCall, Reads!AnswerEdit, Reads!FailCall
  <2>2. QED
    BY <2>1 DEF KeptAnswersAreOwn, Current, Returned
<1>9. CASE Reads!Refresh /\ ~ Reads!clearApiCache
  <2>1. /\ UNCHANGED <<memory, persisted, flight>> /\ token # 0 /\ given < MaxTokens
        /\ given' = given + 1 /\ token' = given'
    BY <1>9 DEF Reads!Refresh
  <2>2. PICK a \in Account : owner' = [owner EXCEPT ![given'] = a] /\ swapped' = (swapped \/ a # owner[token])
    BY <1>9 DEF Reads!Refresh
  <2>3. owner'[token'] = a /\ token' # 0 /\ given \in Nat /\ \A t \in Reads!Token : t <= given => owner'[t] = owner[t]
    BY <2>1, <2>2, TokenGiven, TokensGiven
  <2>4. ~ swapped' => ~ swapped /\ a = owner[token]
    BY <2>2
  <2>5. \A t \in Reads!Token : t \in Nat /\ (~ t <= given => t > given)
    BY <2>3 DEF Reads!Token
  <2>6. \A f \in Flight : flight[f] # Reads!Idle => flight[f].token \in Reads!Token /\ flight[f].token <= given
    BY <1>0 DEF CurrentIsPending, Reads!FlightRecord
  <2>7. \A t \in Reads!Token : t > given' => memory'[t] = NoEntry
    BY <2>1, <2>3, <2>5 DEF KeptAnswersAreOwn
  <2>8. ASSUME ~ swapped'
        PROVE  /\ \A t \in Reads!Token : memory[t] # NoEntry => memory[t].of = owner'[t]
               /\ persisted # NoEntry => persisted.of = owner'[token']
               /\ \A f \in Flight : Current(f) =>
                    /\ owner'[flight[f].token] = owner'[token']
                    /\ Returned(f) => flight[f].of = owner'[token']
    BY <2>1, <2>3, <2>4, <2>5, <2>6, <2>8 DEF KeptAnswersAreOwn, Current
  <2>9. QED
    BY <2>1, <2>3, <2>7, <2>8 DEF KeptAnswersAreOwn, Current, Returned
<1>10. QED
  BY <1>1, <1>2, <1>3, <1>4, <1>5, <1>6, <1>7, <1>8, <1>9
  DEF Reads!Next, Reads!Begin, Reads!AnswerLogin, Reads!EndLogout, Reads!EndSession, Reads!Refresh

\* A current GET stays the one that its token's pages wait for.
LEMMA PendingKept ==
  ASSUME Reads!TypeOK, CurrentIsPending, Reads!Next
  PROVE  CurrentIsPending'
<1> USE DEF token, given, pending, flight
<1>0. /\ flight \in [Flight -> Reads!FlightRecord \cup {Reads!Idle}]
      /\ pending \in [Reads!Token -> Flight \cup {NoFlight}] /\ NoFlight \notin Flight
  BY BrowserAssumption DEF Reads!TypeOK, Reads!ReadsAssumption
<1>1. \A f \in Flight : flight[f] # Reads!Idle => flight[f].token \in Reads!Token
  BY <1>0 DEF Reads!FlightRecord
<1>2. CASE Reads!Expire \/ Reads!GetFromMemory \/ Reads!GetFromSession
  BY <1>2 DEF Reads!Expire, Reads!GetFromMemory, Reads!GetFromSession, CurrentIsPending, Current
<1>3. ASSUME NEW f \in Flight, Reads!GetFromServer(f)
      PROVE  CurrentIsPending'
  <2>1. /\ UNCHANGED given /\ token \in Reads!Token /\ pending[token] = NoFlight /\ token <= given
        /\ pending' = [pending EXCEPT ![token] = f]
    BY <1>3, TokensGiven DEF Reads!GetFromServer
  <2>2. QED
    BY <1>0, <1>1, <1>3, <2>1, GetBegins DEF CurrentIsPending, Current
<1>4. ASSUME NEW f \in Flight, Reads!ServeGet(f)
      PROVE  CurrentIsPending'
  <2>1. UNCHANGED <<given, pending>>
    BY <1>4 DEF Reads!ServeGet
  <2>2. QED
    BY <1>4, <2>1, GetServed DEF CurrentIsPending, Current
<1>5. ASSUME NEW f \in Flight, UNCHANGED given, flight'[f] = Reads!Idle, flight[f].token \in Reads!Token,
             \A g \in Flight : g # f => flight'[g] = flight[g],
             pending' = [pending EXCEPT ![flight[f].token] = IF @ = f THEN NoFlight ELSE @]
      PROVE  CurrentIsPending'
  BY <1>0, <1>1, <1>5 DEF CurrentIsPending, Current
<1>6. ASSUME NEW f \in Flight, Reads!AnswerGet(f)
      PROVE  CurrentIsPending'
  <2>1. UNCHANGED given
    BY <1>6 DEF Reads!AnswerGet
  <2>2. QED
    BY <1>1, <1>5, <1>6, <2>1, AnswerKept, GetAnswered DEF Returned
<1>7. ASSUME NEW f \in Flight, Reads!FailGet(f)
      PROVE  CurrentIsPending'
  <2>1. UNCHANGED given
    BY <1>7 DEF Reads!FailGet
  <2>2. CASE Reads!shouldRetryGet(f)
    <3>1. UNCHANGED pending
      BY <1>7, <2>2 DEF Reads!FailGet
    <3>2. QED
      BY <1>7, <2>1, <2>2, <3>1, GetFailed DEF CurrentIsPending, Current
  <2>3. CASE ~ Reads!shouldRetryGet(f)
    <3>1. pending' = [pending EXCEPT ![flight[f].token] = IF @ = f THEN NoFlight ELSE @]
      BY <1>7, <2>3 DEF Reads!FailGet, Reads!Forget
    <3>2. QED
      BY <1>1, <1>5, <1>7, <2>1, <2>3, <3>1, GetFailed
  <2>4. QED
    BY <2>2, <2>3
<1>8. CASE Reads!clearApiCache /\ (UNCHANGED given \/ given' = given + 1)
  BY <1>8, ClearedOwn, TokensGiven
<1>9. ASSUME NEW i \in Reads!Calls, Reads!ServeCall(i) \/ Reads!AnswerEdit(i) \/ Reads!FailCall(i)
      PROVE  CurrentIsPending'
  BY <1>9 DEF Reads!ServeCall, Reads!AnswerEdit, Reads!FailCall, CurrentIsPending, Current
<1>10. CASE Reads!Refresh /\ ~ Reads!clearApiCache
  <2>1. UNCHANGED <<pending, flight>> /\ given' = given + 1
    BY <1>10 DEF Reads!Refresh
  <2>2. \A f \in Flight : flight[f] # Reads!Idle => flight[f].token <= given'
    BY <1>1, <2>1, TokensGiven DEF CurrentIsPending, Reads!Token
  <2>3. QED
    BY <2>1, <2>2 DEF CurrentIsPending, Current
<1>11. QED
  BY <1>2, <1>3, <1>4, <1>6, <1>7, <1>8, <1>9, <1>10
  DEF Reads!Next, Reads!Begin, Reads!AnswerLogin, Reads!EndLogout, Reads!EndSession, Reads!Refresh

\* No edit is applied twice, however answers are lost.
LEMMA CountKept ==
  ASSUME Reads!TypeOK, EditsCounted, Reads!Next
  PROVE  EditsCounted'
<1> USE DEF data, call
<1>1. ASSUME NEW i \in Reads!Calls, Reads!ServeCall(i)
      PROVE  EditsCounted'
  BY <1>1, CallServed DEF EditsCounted
<1>2. ASSUME Settled \subseteq Settled', UNCHANGED data
      PROVE  EditsCounted'
  <2>1. IsFiniteSet(Reads!Calls)
    BY FS_Interval, BrowserAssumption DEF Reads!Calls, Reads!ReadsAssumption
  <2>2. IsFiniteSet(Settled')
    BY <2>1, FS_Subset DEF Settled
  <2>3. Cardinality(Settled) <= Cardinality(Settled') /\ IsFiniteSet(Settled)
    BY <1>2, <2>2, FS_Subset
  <2>4. Cardinality(Settled) \in Nat /\ Cardinality(Settled') \in Nat /\ data \in Nat
    BY <2>2, <2>3, FS_CardinalityType, BrowserAssumption DEF Reads!TypeOK, Reads!ReadsAssumption
  <2>5. QED
    BY <1>2, <2>3, <2>4 DEF EditsCounted
<1>3. ASSUME NEW i \in Reads!Calls, NEW kind \in {"edit", "login", "logout"}, Reads!Begin(i, kind)
      PROVE  EditsCounted'
  <2>1. UNCHANGED data
    BY <1>3 DEF Reads!Begin
  <2>2. QED
    BY <1>2, <1>3, <2>1, CallBegins DEF Settled
<1>4. ASSUME NEW i \in Reads!Calls,
             Reads!AnswerEdit(i) \/ Reads!AnswerLogin(i) \/ Reads!EndLogout(i) \/ Reads!FailCall(i)
      PROVE  EditsCounted'
  <2>1. UNCHANGED data /\ call' = [call EXCEPT ![i].step = "done"]
    BY <1>4 DEF Reads!AnswerEdit, Reads!AnswerLogin, Reads!EndLogout, Reads!FailCall
  <2>2. QED
    BY <1>2, <2>1, CallOver DEF Settled
<1>5. CASE UNCHANGED <<call, data>>
  BY <1>5 DEF EditsCounted, Settled
<1>6. QED
  BY <1>1, <1>3, <1>4, <1>5
  DEF Reads!Next, Reads!Expire, Reads!GetFromMemory, Reads!GetFromSession, Reads!GetFromServer, Reads!ServeGet,
      Reads!AnswerGet, Reads!FailGet, Reads!Refresh, Reads!EndSession

\* The part's module counts as this one does.
LEMMA SameCount ==
  ASSUME NEW S
  PROVE  Reads!Cardinality(S) = Cardinality(S)
BY DEF Reads!Cardinality, Cardinality

\* Cached, shared and repeated calls do what single calls would: MCBrowser's CallsActAsOne, of
\* apiFetch's caches, shared requests and retries.
THEOREM CallsAsOne == BrowserSpec => []CallsActAsOne
<1> DEFINE Kept == part = "reads" => ReadsInvariant
<1> USE DEF token, given, owner, memory, persisted, pending, flight, call, data, known, raced, swapped, outdated
<1>1. BrowserInit => Kept
  <2> SUFFICES ASSUME Reads!Init PROVE ReadsInvariant
    BY DEF BrowserInit
  <2>1. MaxTokens \in Nat \ {0} /\ MaxCalls \in Nat \ {0}
    BY BrowserAssumption DEF Reads!ReadsAssumption
  <2>2. Reads!TypeOK
    <3>1. [kind |-> "none", step |-> "none", version |-> 0] \in Reads!CallRecord
      BY <2>1 DEF Reads!CallRecord
    <3>2. QED
      BY <2>1, <3>1 DEF Reads!Init, Reads!TypeOK, Reads!Token
  <2>3. /\ \A f \in Flight : flight[f] = Reads!Idle
        /\ \A t \in Reads!Token : memory[t] = NoEntry
        /\ persisted = NoEntry /\ ~ outdated
        /\ \A i \in Reads!Calls : call[i].version = 0 /\ call[i].kind = "none"
    BY DEF Reads!Init
  <2>4. KeptAnswersShow /\ GetsShow /\ KeptAnswersAreOwn /\ CurrentIsPending
    BY <2>2, <2>3
    DEF KeptAnswersShow, GetsShow, KeptAnswersAreOwn, CurrentIsPending, IsKept, Current, Editing, Reads!Init
  <2>5. Settled = {}
    BY <2>3 DEF Settled
  <2>6. EditsCounted
    BY <2>5, FS_EmptySet DEF EditsCounted, Reads!Init
  <2>7. QED
    BY <2>2, <2>4, <2>6 DEF ReadsInvariant
<1>2. Kept /\ [BrowserNext]_browserVars => Kept'
  <2> SUFFICES ASSUME part = "reads", ReadsInvariant, [BrowserNext]_browserVars PROVE ReadsInvariant'
    BY DEF BrowserNext, browserVars
  <2>1. CASE Reads!Next
    BY <2>1, ReadsTyped, ShowKept, GetsKept, OwnKept, PendingKept, CountKept DEF ReadsInvariant
  <2>2. CASE UNCHANGED browserVars
    BY <2>2
    DEF browserVars, ReadsInvariant, Reads!TypeOK, KeptAnswersShow, GetsShow, KeptAnswersAreOwn, CurrentIsPending,
        EditsCounted, IsKept, Current, Returned, Editing, Shows, Settled
  <2>3. QED
    BY <2>1, <2>2 DEF BrowserNext
<1>3. Kept => CallsActAsOne
  <2> SUFFICES ASSUME ReadsInvariant
               PROVE  Reads!TypeOK /\ Reads!ReadsSeeOwnEdits /\ Reads!CacheIsOwn /\ Reads!OneFlightPerToken /\ Reads!EditsApplyOnce
    BY DEF CallsActAsOne
  <2>1. Reads!TypeOK /\ Reads!ReadsSeeOwnEdits
    BY DEF ReadsInvariant, GetsShow, Reads!ReadsSeeOwnEdits
  <2>2. Reads!CacheIsOwn
    BY DEF ReadsInvariant, KeptAnswersAreOwn, Reads!CacheIsOwn
  <2>3. Reads!OneFlightPerToken
    BY DEF ReadsInvariant, CurrentIsPending, Current, Reads!OneFlightPerToken, Reads!Idle
  <2>4. Reads!EditsApplyOnce
    <3> DEFINE E == {i \in Reads!Calls : call[i].kind = "edit"}
    <3>1. IsFiniteSet(Reads!Calls)
      BY FS_Interval, BrowserAssumption DEF Reads!Calls, Reads!ReadsAssumption
    <3>2. IsFiniteSet(E) /\ Settled \subseteq E
      BY <3>1, FS_Subset DEF Settled
    <3>3. IsFiniteSet(Settled) /\ Cardinality(Settled) <= Cardinality(E)
      BY <3>2, FS_Subset
    <3>4. Cardinality(Settled) \in Nat /\ Cardinality(E) \in Nat /\ data \in Nat
      BY <3>2, <3>3, FS_CardinalityType, BrowserAssumption DEF ReadsInvariant, Reads!TypeOK, Reads!ReadsAssumption
    <3>5. data <= Cardinality(Settled)
      BY DEF ReadsInvariant, EditsCounted
    <3>6. data <= Cardinality(E)
      BY <3>3, <3>4, <3>5
    <3>7. QED
      BY <3>6, SameCount DEF Reads!EditsApplyOnce
  <2>5. QED
    BY <2>1, <2>2, <2>3, <2>4
<1>4. QED
  BY <1>1, <1>2, <1>3, PTL DEF BrowserSpec
-----------------------------------------------------------------------------
(* Loads of the pages *)

load == v1
filter == v2
page == v3
resetting == v4
calls == v5
rows == v6
hasMore == v7
busy == v8
error == v9
memo == v10
edits == v11
save == v12
saved == v13
overlapped == v14
gap == v15

OnItsWay(c) == calls[c] # Pages!Idle

\* Requests: only the effects with a pause wait, and only those with a guard are cancelled;
\* a shared load has one request at a time.
CallsFit ==
  /\ \A c \in Call : OnItsWay(c) =>
       /\ Pages!Waiting(c) => load.timer # "none" /\ ~ calls[c].cancelled
       /\ ~ load.guarded => ~ calls[c].cancelled
  /\ load.shared => \A c, d \in Call : OnItsWay(c) /\ OnItsWay(d) => c = d

\* Only the drawer has several pages, and only after its first.
PagesFit ==
  /\ load.appends => ~ overlapped
  /\ ~ load.appends => page = 1 /\ ~ resetting /\ ~ gap /\ \A c \in Call : OnItsWay(c) => calls[c].page = 1
  /\ rows = <<>> => page = 1 /\ ~ resetting /\ save.step = "none"

\* One edit at a time, on pages that have edits.
SavesFit ==
  /\ load.save = "none" => saved = 0 /\ save.step = "none"
  /\ save.step = "out" => edits < MaxSaves
  /\ save.step = "back" => saved <= save.edits /\ save.edits <= edits

\* The answer that a page waits for is the one to what is chosen, and it is the only one.
WaitsForTheChoice ==
  ~ overlapped =>
    /\ \A c, d \in Call : Pages!Live(c) /\ Pages!Live(d) => c = d
    /\ \A c \in Call : Pages!Live(c) =>
         /\ calls[c].filter = filter /\ calls[c].page = page
         /\ calls[c].step = "back" => calls[c].edits >= saved
         /\ busy # {} \/ Pages!Waiting(c)

\* The first n pages of the drawer, or the one page of any other, of what is chosen.
RowsOfTheChoice(n) ==
  /\ \A i \in DOMAIN rows : rows[i].filter = filter /\ rows[i].edits >= saved
  /\ load.appends => Len(rows) = n /\ \A i \in DOMAIN rows : rows[i].page = i

\* What is shown is right, unless an answer will replace it; the drawer's next page is added to it.
ShownIsRight ==
  ~ overlapped /\ ~ gap /\ ~ resetting /\ ~ error /\ rows # <<>> =>
    /\ (\A c \in Call : ~ Pages!Live(c)) => RowsOfTheChoice(page)
    /\ (\E c \in Call : Pages!Live(c)) /\ page # 1 => RowsOfTheChoice(page - 1)

\* A spinner waits for a request, also the first.
SpinnerWaits == busy # {} => (\E c \in Call : Pages!Live(c)) \/ (rows = <<>> /\ ~ error)

PagesInvariant ==
  Pages!TypeOK /\ CallsFit /\ PagesFit /\ SavesFit /\ WaitsForTheChoice /\ ShownIsRight /\ SpinnerWaits

LoadRecord ==
  [choices : BOOLEAN, guarded : BOOLEAN, timer : {"none", "busy", "quiet"}, appends : BOOLEAN,
   shared : BOOLEAN, again : BOOLEAN, save : {"none", "answer", "reload"}]

\* What every load of the pages has in common.
Sound(l) ==
  /\ l \in LoadRecord
  /\ l.appends \/ l.shared => l.guarded /\ ~ l.again /\ l.timer = "none" /\ l.save = "none"
  /\ ~ (l.appends /\ l.shared)
  /\ l.timer # "none" => l.guarded

\* The loads that the code has are sound: the drawer and the shared requests have a guard, and
\* so have the requests after a pause.
LEMMA LoadsSound ==
  ASSUME NEW l \in Pages!Loads
  PROVE  Sound(l)
<1>1. TRUE \in BOOLEAN /\ FALSE \in BOOLEAN
  OBVIOUS
<1>2. /\ Pages!Plain \in LoadRecord /\ ~ Pages!Plain.guarded /\ ~ Pages!Plain.appends /\ ~ Pages!Plain.shared /\ ~ Pages!Plain.again
      /\ Pages!Plain.timer = "none" /\ Pages!Plain.save = "none"
  BY <1>1 DEF Pages!Plain, LoadRecord
<1>3. /\ Pages!Guarded \in LoadRecord /\ Pages!Guarded.guarded /\ ~ Pages!Guarded.appends /\ ~ Pages!Guarded.shared /\ ~ Pages!Guarded.again
      /\ Pages!Guarded.timer = "none" /\ Pages!Guarded.save = "none"
  BY <1>1, <1>2 DEF Pages!Guarded, LoadRecord
<1>4. /\ Pages!Once \in LoadRecord /\ Pages!Once.guarded /\ ~ Pages!Once.appends /\ ~ Pages!Once.shared /\ ~ Pages!Once.again
      /\ Pages!Once.timer = "none" /\ Pages!Once.save = "none"
  BY <1>1, <1>3 DEF Pages!Once, LoadRecord
<1>5. \A x \in LoadRecord : /\ ~ x.guarded /\ ~ x.appends /\ ~ x.shared /\ x.timer = "none"
                            => /\ Sound(x) /\ \A m \in {"answer", "reload"} : Sound([x EXCEPT !.save = m])
  BY <1>1 DEF Sound, LoadRecord
<1>6. Sound(Pages!OpenTask) /\ Sound(Pages!StoryList)
  BY <1>2, <1>5 DEF Pages!OpenTask, Pages!StoryList
<1>7. Sound(Pages!IncidentDetail) /\ Sound(Pages!MyWork) /\ Sound(Pages!Users)
  BY <1>1, <1>2 DEF Pages!IncidentDetail, Pages!MyWork, Pages!Users, Sound, LoadRecord
<1>8. Sound(Pages!ProjectDetail) /\ Sound(Pages!ProjectStories)
  BY <1>1, <1>2 DEF Pages!ProjectDetail, Pages!ProjectStories, Sound, LoadRecord
<1>9. Sound(Pages!ProjectTickets) /\ Sound(Pages!Notifications)
  BY <1>1, <1>2 DEF Pages!ProjectTickets, Pages!Notifications, Sound, LoadRecord
<1>10. Sound(Pages!Guarded) /\ Sound(Pages!Once)
  BY <1>3, <1>4 DEF Sound
<1>11. Sound(Pages!TasksOverview) /\ Sound(Pages!TaskDrawer)
  BY <1>1, <1>3 DEF Pages!TasksOverview, Pages!TaskDrawer, Sound, LoadRecord
<1>12. Sound(Pages!TaskScopeProbe) /\ Sound(Pages!Badges) /\ Sound(Pages!MenuBadges)
  BY <1>1, <1>3 DEF Pages!TaskScopeProbe, Pages!Badges, Pages!MenuBadges, Sound, LoadRecord
<1>13. Sound(Pages!ProjectList) /\ Sound(Pages!RequestList)
  BY <1>1, <1>3 DEF Pages!ProjectList, Pages!RequestList, Sound, LoadRecord
<1>14. Sound(Pages!RequestDetail)
  BY <1>1, <1>4 DEF Pages!RequestDetail, Sound, LoadRecord
<1>15. QED
  BY <1>6, <1>7, <1>8, <1>9, <1>10, <1>11, <1>12, <1>13, <1>14
  DEF Pages!Loads, Pages!IncidentWebsites, Pages!IncidentList, Pages!DashboardCards, Pages!DashboardTasks,
      Pages!WebsiteDetail, Pages!WebsiteTasks, Pages!AssignmentRoster

\* A request on its way is a record.
LEMMA Requests ==
  ASSUME Pages!TypeOK, NEW c \in Call
  PROVE  /\ OnItsWay(c) => calls[c] \in Pages!CallRecord
         /\ ~ OnItsWay(c) => ~ Pages!Live(c) /\ ~ Pages!Waiting(c) /\ calls[c].step = "none"
         /\ Pages!Live(c) <=> OnItsWay(c) /\ ~ calls[c].cancelled
         /\ Sound(load) /\ page \in Nat /\ saved \in Nat /\ edits \in Nat /\ MaxSaves \in Nat /\ 1 \in Pages!Pages
<1>1. /\ OnItsWay(c) => calls[c] \in Pages!CallRecord
      /\ ~ OnItsWay(c) => calls[c] = Pages!Idle
  BY DEF Pages!TypeOK, OnItsWay, calls
<1>2. Sound(load)
  BY LoadsSound DEF Pages!TypeOK, load
<1>3. page \in Nat /\ saved \in Nat /\ edits \in Nat /\ MaxSaves \in Nat /\ 1 \in Pages!Pages
  BY BrowserAssumption DEF Pages!TypeOK, Pages!Pages, Pages!LoadsAssumption, page, saved, edits
<1>4. QED
  BY <1>1, <1>2, <1>3 DEF OnItsWay, Pages!Live, Pages!Waiting, Pages!Idle, calls

\* An effect's cleanup leaves no live request.
LEMMA CleanedUp ==
  ASSUME Pages!TypeOK, CallsFit, NEW d \in Call
  PROVE  LET k == Pages!Cleanup(d)
         IN  /\ k \in Pages!CallRecord \cup {Pages!Idle}
             /\ ~ load.guarded => k = calls[d]
             /\ load.guarded /\ k # Pages!Idle => k.cancelled /\ k.step # "timer"
             /\ k # Pages!Idle => OnItsWay(d) /\ k.page = calls[d].page
<1> USE DEF load, calls
<1>1. CASE ~ load.guarded \/ ~ OnItsWay(d)
  BY <1>1, Requests DEF Pages!Cleanup, OnItsWay, Pages!TypeOK
<1>2. CASE load.guarded /\ OnItsWay(d) /\ Pages!Waiting(d)
  BY <1>2 DEF Pages!Cleanup, OnItsWay
<1>3. CASE load.guarded /\ OnItsWay(d) /\ ~ Pages!Waiting(d)
  <2> DEFINE k == [calls[d] EXCEPT !.cancelled = TRUE]
  <2>1. Pages!Cleanup(d) = k
    BY <1>3 DEF Pages!Cleanup, OnItsWay
  <2>2. calls[d] \in Pages!CallRecord /\ calls[d].step # "timer" /\ TRUE \in BOOLEAN
    BY <1>3, Requests DEF Pages!Waiting
  <2>3. k \in Pages!CallRecord /\ k # Pages!Idle /\ k.step # "timer" /\ k.page = calls[d].page
    BY <2>2 DEF Pages!CallRecord, Pages!Idle
  <2>4. k.cancelled
    BY <2>2 DEF Pages!CallRecord
  <2> HIDE DEF k
  <2>5. QED
    BY <1>3, <2>1, <2>3, <2>4
<1>4. QED
  BY <1>1, <1>2, <1>3

\* Request c has begun, for page p of f.
Begun(c, f, p) ==
  /\ ~ OnItsWay(c) /\ calls' \in [Call -> Pages!CallRecord \cup {Pages!Idle}] /\ CallsFit'
  /\ Pages!Live(c)' /\ OnItsWay(c)' /\ calls'[c].filter = f /\ calls'[c].page = p /\ calls'[c].step # "back"
  /\ busy' # {} \/ Pages!Waiting(c)'
  /\ busy' \in {busy, busy \cup {"first"}, busy \cup {"more"}}
  /\ error' \in {error, FALSE} /\ UNCHANGED <<rows, hasMore, memo>>
  /\ overlapped' = (~ load.guarded /\ (f # filter' \/ \E d \in Call : Pages!Live(d)))
  /\ \A d \in Call \ {c} :
       /\ load.guarded => ~ Pages!Live(d)'
       /\ ~ load.guarded => calls'[d] = calls[d]
       /\ OnItsWay(d)' => OnItsWay(d) /\ calls'[d].page = calls[d].page

\* A request that begins is the only live one if the load has a guard, or if none was on its way.
LEMMA AskBegins ==
  ASSUME Pages!TypeOK, CallsFit, NEW f \in Filter, NEW p \in Pages!Pages, UNCHANGED load, Pages!Ask(f, p),
         load.shared => \A c \in Call : ~ OnItsWay(c)
  PROVE  \E c \in Call : Begun(c, f, p)
<1> USE DEF load, filter, calls, rows, hasMore, busy, error, memo, overlapped
<1> DEFINE r == [step |-> IF load.timer = "none" THEN "out" ELSE "timer", filter |-> f, page |-> p, edits |-> 0,
                 cancelled |-> FALSE]
<1>1. PICK c \in Call : ~ OnItsWay(c) /\ calls' = [d \in Call |-> IF d # c THEN Pages!Cleanup(d) ELSE r]
  BY DEF Pages!Ask, OnItsWay
<1>2. FALSE \in BOOLEAN /\ 0 \in 0 .. MaxSaves
  BY Requests
<1>3. r \in Pages!CallRecord /\ r # Pages!Idle /\ r.filter = f /\ r.page = p /\ r.step # "back"
  BY <1>2 DEF Pages!CallRecord, Pages!Idle
<1>4. ~ r.cancelled /\ (r.step = "timer" <=> load.timer # "none")
  OBVIOUS
<1> HIDE DEF r
<1>5. calls'[c] = r /\ \A d \in Call \ {c} : calls'[d] = Pages!Cleanup(d)
  BY <1>1
<1>6. \A d \in Call : calls'[d] \in Pages!CallRecord \cup {Pages!Idle}
  BY <1>3, <1>5, CleanedUp
<1>7. calls' \in [Call -> Pages!CallRecord \cup {Pages!Idle}]
  BY <1>1, <1>6
<1>8. Pages!Live(c)' /\ OnItsWay(c)' /\ (Pages!Waiting(c)' <=> load.timer # "none")
  BY <1>3, <1>4, <1>5 DEF Pages!Live, Pages!Waiting, OnItsWay
<1>9. ASSUME NEW d \in Call \ {c}
      PROVE  /\ load.guarded => ~ Pages!Live(d)'
             /\ ~ load.guarded => calls'[d] = calls[d]
             /\ OnItsWay(d)' => OnItsWay(d) /\ calls'[d].page = calls[d].page
             /\ load.guarded /\ OnItsWay(d)' => ~ Pages!Waiting(d)'
  BY <1>5, CleanedUp DEF Pages!Live, Pages!Waiting, OnItsWay
<1>10. CallsFit'
  <2>1. ASSUME NEW d \in Call, OnItsWay(d)'
        PROVE  /\ Pages!Waiting(d)' => load.timer # "none" /\ ~ calls'[d].cancelled
               /\ ~ load.guarded => ~ calls'[d].cancelled
    <3>1. CASE d = c
      BY <1>4, <1>5, <1>8, <3>1
    <3>2. CASE d # c /\ ~ load.guarded
      BY <1>9, <2>1, <3>2 DEF CallsFit, Pages!Waiting
    <3>3. CASE d # c /\ load.guarded
      BY <1>9, <2>1, <3>3
    <3>4. QED
      BY <3>1, <3>2, <3>3
  <2>2. load.shared => \A d \in Call : OnItsWay(d)' => d = c
    BY <1>9
  <2>3. QED
    BY <2>1, <2>2 DEF CallsFit
<1>11. /\ load.timer = "quiet" => UNCHANGED <<busy, error>>
       /\ load.timer # "quiet" => busy' = busy \cup {IF p = 1 THEN "first" ELSE "more"} /\ error' = FALSE
       /\ UNCHANGED <<rows, hasMore, memo>>
  BY DEF Pages!Ask
<1>12. busy' # {} \/ Pages!Waiting(c)'
  BY <1>8, <1>11
<1>13. busy' \in {busy, busy \cup {"first"}, busy \cup {"more"}} /\ error' \in {error, FALSE}
  BY <1>11
<1>14. overlapped' = (~ load.guarded /\ (f # filter' \/ \E d \in Call : Pages!Live(d)))
  BY DEF Pages!Ask
<1>15. QED
  BY <1>1, <1>3, <1>5, <1>7, <1>8, <1>9, <1>10, <1>11, <1>12, <1>13, <1>14 DEF Begun

\* Who joins a shared request takes back that it was cancelled.
LEMMA Joined ==
  ASSUME Pages!TypeOK, CallsFit, UNCHANGED load,
         calls' = [c \in Call |-> IF calls[c] = Pages!Idle THEN Pages!Idle ELSE [calls[c] EXCEPT !.cancelled = FALSE]]
  PROVE  /\ calls' \in [Call -> Pages!CallRecord \cup {Pages!Idle}] /\ CallsFit'
         /\ \A c \in Call : /\ OnItsWay(c)' <=> OnItsWay(c)
                            /\ Pages!Live(c)' <=> OnItsWay(c)
                            /\ OnItsWay(c) => calls'[c].filter = calls[c].filter /\ calls'[c].page = calls[c].page
                                              /\ calls'[c].edits = calls[c].edits
<1> USE DEF load, calls
<1>1. ASSUME NEW c \in Call
      PROVE  /\ calls'[c] \in Pages!CallRecord \cup {Pages!Idle}
             /\ OnItsWay(c)' <=> OnItsWay(c)
             /\ Pages!Live(c)' <=> OnItsWay(c)
             /\ OnItsWay(c) => /\ calls'[c].filter = calls[c].filter /\ calls'[c].page = calls[c].page
                               /\ calls'[c].edits = calls[c].edits /\ ~ calls'[c].cancelled
                               /\ Pages!Waiting(c)' => Pages!Waiting(c)
  <2>1. CASE OnItsWay(c)
    <3> DEFINE r == [calls[c] EXCEPT !.cancelled = FALSE]
    <3>1. calls'[c] = r /\ calls[c] \in Pages!CallRecord /\ FALSE \in BOOLEAN
      BY <2>1, Requests DEF OnItsWay
    <3>2. /\ r \in Pages!CallRecord /\ r # Pages!Idle /\ r.filter = calls[c].filter /\ r.page = calls[c].page
          /\ r.edits = calls[c].edits /\ r.step = calls[c].step
      BY <3>1 DEF Pages!CallRecord, Pages!Idle
    <3>3. ~ r.cancelled
      BY <3>1 DEF Pages!CallRecord
    <3> HIDE DEF r
    <3>4. QED
      BY <2>1, <3>1, <3>2, <3>3 DEF OnItsWay, Pages!Live, Pages!Waiting
  <2>2. CASE ~ OnItsWay(c)
    BY <2>2 DEF OnItsWay, Pages!Live
  <2>3. QED
    BY <2>1, <2>2
<1>2. CallsFit'
  BY <1>1 DEF CallsFit
<1>3. calls' \in [Call -> Pages!CallRecord \cup {Pages!Idle}]
  BY <1>1
<1>4. QED
  BY <1>1, <1>2, <1>3

\* A load has begun, or was not needed.
LoadBegun ==
  /\ calls' \in [Call -> Pages!CallRecord \cup {Pages!Idle}] /\ CallsFit'
  /\ busy' \subseteq {"first", "more"} /\ error' \in BOOLEAN /\ overlapped' \in BOOLEAN /\ UNCHANGED <<hasMore, memo>>
  /\ rows' \in Seq(Pages!Chunk) /\ (load.appends \/ Len(rows') <= 1) /\ (rows' = <<>> => rows = <<>>)
  /\ load.appends => ~ overlapped'
  /\ ~ load.appends => \A c \in Call : OnItsWay(c)' => calls'[c].page = 1
  /\ WaitsForTheChoice' /\ SpinnerWaits'
  /\ \/ UNCHANGED rows /\ \E c \in Call : Pages!Live(c)'
     \/ load.shared /\ (\A c \in Call : ~ Pages!Live(c)') /\ RowsOfTheChoice(page)'

\* However a load begins: the page waits for the answer to its choice, or shows the one that is kept.
LEMMA LoadBegins ==
  ASSUME Pages!TypeOK, CallsFit, NEW f \in Filter, NEW p \in Pages!Pages, Pages!Load(f, p), UNCHANGED load,
         page' = p, load.guarded => f = filter', load.shared => saved' = 0,
         ~ load.appends => p = 1 /\ \A c \in Call : OnItsWay(c) => calls[c].page = 1
  PROVE  LoadBegun
<1> USE DEF load, filter, page, calls, rows, hasMore, busy, error, memo, saved, overlapped
<1>0. /\ Sound(load) /\ rows \in Seq(Pages!Chunk) /\ (load.appends \/ Len(rows) <= 1)
      /\ busy \subseteq {"first", "more"} /\ error \in BOOLEAN /\ FALSE \in BOOLEAN /\ load.guarded \in BOOLEAN
  BY LoadsSound DEF Pages!TypeOK, Sound, LoadRecord
<1>1. ASSUME Pages!Ask(f, p), load.shared => \A c \in Call : ~ OnItsWay(c)
      PROVE  /\ calls' \in [Call -> Pages!CallRecord \cup {Pages!Idle}] /\ CallsFit'
             /\ busy' \subseteq {"first", "more"} /\ error' \in BOOLEAN /\ overlapped' \in BOOLEAN /\ UNCHANGED <<hasMore, memo, rows>>
             /\ load.appends => ~ overlapped'
             /\ ~ load.appends => \A c \in Call : OnItsWay(c)' => calls'[c].page = 1
             /\ WaitsForTheChoice' /\ SpinnerWaits' /\ \E c \in Call : Pages!Live(c)'
  <2>0. PICK c \in Call : Begun(c, f, p)
    BY <1>1, AskBegins
  <2>1. /\ ~ OnItsWay(c) /\ calls' \in [Call -> Pages!CallRecord \cup {Pages!Idle}] /\ CallsFit'
        /\ Pages!Live(c)' /\ OnItsWay(c)' /\ calls'[c].filter = f /\ calls'[c].page = p /\ calls'[c].step # "back"
        /\ busy' # {} \/ Pages!Waiting(c)'
        /\ busy' \in {busy, busy \cup {"first"}, busy \cup {"more"}}
        /\ error' \in {error, FALSE} /\ UNCHANGED <<rows, hasMore, memo>>
        /\ overlapped' = (~ load.guarded /\ (f # filter' \/ \E d \in Call : Pages!Live(d)))
        /\ \A d \in Call \ {c} :
             /\ load.guarded => ~ Pages!Live(d)'
             /\ ~ load.guarded => calls'[d] = calls[d]
             /\ OnItsWay(d)' => OnItsWay(d) /\ calls'[d].page = calls[d].page
    BY <2>0 DEF Begun
  <2>2. overlapped' \in BOOLEAN
    BY <2>1, Zenon
  <2>3. load.appends => ~ overlapped'
    BY <1>0, <2>1 DEF Sound
  <2>4. WaitsForTheChoice'
    <3> SUFFICES ASSUME ~ overlapped' PROVE f = filter' /\ \A d \in Call : Pages!Live(d)' => d = c
      BY <2>1 DEF WaitsForTheChoice
    <3>1. load.guarded \/ (f = filter' /\ \A d \in Call : ~ Pages!Live(d))
      BY <2>1
    <3>2. ASSUME NEW d \in Call, Pages!Live(d)'
          PROVE  d = c
      BY <2>1, <3>1, <3>2 DEF Pages!Live
    <3>3. QED
      BY <3>1, <3>2
  <2>5. SpinnerWaits'
    BY <2>1 DEF SpinnerWaits
  <2>6. error' \in BOOLEAN /\ busy' \subseteq {"first", "more"}
    BY <1>0, <2>1
  <2>7. ~ load.appends => \A d \in Call : OnItsWay(d)' => calls'[d].page = 1
    BY <2>1
  <2>8. QED
    BY <2>1, <2>2, <2>3, <2>4, <2>5, <2>6, <2>7
<1>2. CASE ~ load.shared
  <2>1. Pages!Ask(f, p)
    BY <1>2 DEF Pages!Load
  <2>2. QED
    BY <1>0, <1>1, <1>2, <2>1 DEF LoadBegun
<1>3. CASE load.shared /\ Pages!Kept(f)
  <2>1. /\ rows' = <<memo>> /\ calls' = [c \in Call |-> Pages!Cleanup(c)] /\ overlapped' = FALSE
        /\ busy' = {} /\ error' = FALSE /\ UNCHANGED <<hasMore, memo>>
    BY <1>3 DEF Pages!Load, Pages!AskShared
  <2>2. load.guarded /\ ~ load.appends
    BY <1>0, <1>3 DEF Sound
  <2>3. memo \in Pages!Chunk /\ memo.filter = filter' /\ memo.edits \in Nat /\ saved' = 0
    BY <1>3, <2>2, Requests DEF Pages!Kept, Pages!TypeOK, Pages!Chunk
  <2>4. \A c \in Call : calls'[c] = Pages!Cleanup(c)
    BY <2>1
  <2>5. \A c \in Call : calls'[c] \in Pages!CallRecord \cup {Pages!Idle}
    BY <2>4, CleanedUp
  <2>6. \A c \in Call : /\ ~ Pages!Live(c)' /\ (OnItsWay(c)' => ~ Pages!Waiting(c)')
                        /\ OnItsWay(c)' => OnItsWay(c) /\ calls'[c].page = calls[c].page
    BY <2>2, <2>4, CleanedUp DEF Pages!Live, Pages!Waiting, OnItsWay
  <2>7. CallsFit'
    BY <1>3, <2>2, <2>6 DEF CallsFit
  <2>8. WaitsForTheChoice' /\ SpinnerWaits'
    BY <2>1, <2>6 DEF WaitsForTheChoice, SpinnerWaits
  <2>9. rows' \in Seq(Pages!Chunk) /\ Len(rows') = 1 /\ rows' # <<>> /\ DOMAIN rows' = {1} /\ rows'[1] = memo
    BY <2>1, <2>3
  <2>10. RowsOfTheChoice(page)'
    <3>1. rows'[1].filter = filter' /\ rows'[1].edits >= saved'
      BY <2>3, <2>9
    <3>2. QED
      BY <2>2, <2>9, <3>1 DEF RowsOfTheChoice
  <2>11. error' \in BOOLEAN /\ overlapped' \in BOOLEAN
    BY <1>0, <2>1
  <2>12. QED
    BY <1>0, <1>3, <2>1, <2>2, <2>5, <2>6, <2>7, <2>8, <2>9, <2>10, <2>11 DEF LoadBegun
<1>4. CASE load.shared /\ ~ Pages!Kept(f) /\ \E c \in Call : OnItsWay(c)
  <2>1. /\ calls' = [c \in Call |-> IF calls[c] = Pages!Idle THEN Pages!Idle ELSE [calls[c] EXCEPT !.cancelled = FALSE]]
        /\ overlapped' = \E c \in Call : OnItsWay(c) /\ calls[c].filter # f
        /\ busy' = {"first"} /\ error' = FALSE /\ UNCHANGED <<rows, hasMore, memo>>
    BY <1>4 DEF Pages!Load, Pages!AskShared, OnItsWay
  <2>2. load.guarded /\ ~ load.appends
    BY <1>0, <1>4 DEF Sound
  <2>3. /\ calls' \in [Call -> Pages!CallRecord \cup {Pages!Idle}] /\ CallsFit'
        /\ \A c \in Call : /\ OnItsWay(c)' <=> OnItsWay(c)
                           /\ Pages!Live(c)' <=> OnItsWay(c)
                           /\ OnItsWay(c) => calls'[c].filter = calls[c].filter /\ calls'[c].page = calls[c].page
                                             /\ calls'[c].edits = calls[c].edits
    BY <2>1, Joined
  <2>4. \A c \in Call : OnItsWay(c) => calls[c].edits \in Nat
    BY Requests DEF Pages!CallRecord
  <2>5. WaitsForTheChoice'
    BY <1>4, <2>1, <2>2, <2>3, <2>4 DEF WaitsForTheChoice, CallsFit
  <2>6. overlapped' \in BOOLEAN
    BY <2>1, Zenon
  <2>7. SpinnerWaits' /\ \E c \in Call : Pages!Live(c)'
    BY <1>4, <2>3 DEF SpinnerWaits
  <2>8. ~ load.appends => \A c \in Call : OnItsWay(c)' => calls'[c].page = 1
    BY <2>3
  <2>9. QED
    BY <1>0, <2>1, <2>2, <2>3, <2>5, <2>6, <2>7, <2>8 DEF LoadBegun
<1>5. CASE load.shared /\ ~ Pages!Kept(f) /\ \A c \in Call : ~ OnItsWay(c)
  <2>1. Pages!Ask(f, 1) /\ p = 1
    BY <1>0, <1>5 DEF Pages!Load, Pages!AskShared, OnItsWay, Sound
  <2>2. QED
    BY <1>0, <1>1, <1>5, <2>1 DEF LoadBegun
<1>6. QED
  BY <1>2, <1>3, <1>4, <1>5

\* After a load has begun all is as before, if the page and the rows of the drawer fit.
LEMMA AfterLoad ==
  ASSUME PagesInvariant, LoadBegun, UNCHANGED load, filter' \in Filter, page' \in Pages!Pages,
         resetting' \in BOOLEAN, gap' \in BOOLEAN,
         save' \in [step : {"none", "out", "back"}, filter : Filter, edits : 0 .. MaxSaves],
         edits' \in 0 .. MaxSaves, saved' \in 0 .. edits', SavesFit',
         ~ load.appends => page' = 1 /\ ~ resetting' /\ ~ gap',
         rows = <<>> => page' = 1 /\ ~ resetting' /\ save'.step = "none",
         ~ resetting' /\ ~ gap' /\ page' # 1 /\ rows # <<>> /\ UNCHANGED rows => RowsOfTheChoice(page - 1)'
  PROVE  PagesInvariant'
<1> USE DEF load, filter, page, resetting, calls, rows, hasMore, busy, error, memo, edits, save, saved, overlapped, gap
<1>1. Sound(load)
  BY LoadsSound DEF PagesInvariant, Pages!TypeOK
<1>2. Pages!TypeOK'
  BY DEF PagesInvariant, Pages!TypeOK, LoadBegun
<1>3. PagesFit'
  BY DEF PagesFit, LoadBegun
<1>4. ShownIsRight'
  <2>1. CASE UNCHANGED rows /\ \E c \in Call : Pages!Live(c)'
    BY <2>1 DEF ShownIsRight
  <2>2. CASE load.shared /\ (\A c \in Call : ~ Pages!Live(c)') /\ RowsOfTheChoice(page)'
    BY <2>2 DEF ShownIsRight
  <2>3. QED
    BY <2>1, <2>2 DEF LoadBegun
<1>5. QED
  BY <1>2, <1>3, <1>4 DEF PagesInvariant, LoadBegun

\* The first load, a new choice, the drawer's return to its first page and its next page.
LEMMA ChoiceKept ==
  ASSUME PagesInvariant,
         Pages!Start \/ (\E f \in Filter : Pages!Choose(f)) \/ Pages!ResetPage \/ Pages!LoadMore
  PROVE  PagesInvariant'
<1> USE DEF load, filter, page, resetting, calls, rows, hasMore, busy, error, memo, edits, save, saved, overlapped, gap
<1>1. /\ Pages!TypeOK /\ CallsFit /\ PagesFit /\ SavesFit /\ Sound(load) /\ 1 \in Pages!Pages /\ TRUE \in BOOLEAN /\ FALSE \in BOOLEAN
      /\ filter \in Filter /\ page \in Pages!Pages /\ page \in Nat /\ resetting \in BOOLEAN /\ gap \in BOOLEAN
      /\ save \in [step : {"none", "out", "back"}, filter : Filter, edits : 0 .. MaxSaves]
      /\ edits \in 0 .. MaxSaves /\ saved \in 0 .. edits
  BY LoadsSound, BrowserAssumption DEF PagesInvariant, Pages!TypeOK, Pages!Pages, Pages!LoadsAssumption
<1>2. load.shared => saved = 0
  BY <1>1 DEF SavesFit, Sound
<1>3. UNCHANGED <<load, edits, save, saved>>
  BY DEF Pages!Start, Pages!Choose, Pages!ResetPage, Pages!LoadMore
<1>4. SavesFit'
  BY <1>1, <1>3 DEF SavesFit
<1>5. CASE Pages!Start
  <2>1. Pages!Load(filter, page) /\ UNCHANGED <<filter, page, resetting, gap>>
    BY <1>5 DEF Pages!Start
  <2>2. LoadBegun
    BY <1>1, <1>2, <1>3, <2>1, LoadBegins DEF PagesFit
  <2>3. load.again \/ rows = <<>>
    BY <1>5 DEF Pages!Start
  <2>4. CASE page = 1
    BY <1>1, <1>3, <1>4, <2>1, <2>2, <2>4, AfterLoad DEF PagesFit
  <2>5. CASE page # 1
    BY <1>1, <2>3, <2>5 DEF PagesFit, Sound
  <2>6. QED
    BY <2>4, <2>5
<1>6. ASSUME NEW f \in Filter, Pages!Choose(f)
      PROVE  PagesInvariant'
  <2>1. filter' = f /\ Pages!Load(f, page) /\ resetting' = (page # 1) /\ UNCHANGED <<page, gap>>
    BY <1>6 DEF Pages!Choose
  <2>2. LoadBegun
    BY <1>1, <1>2, <1>3, <2>1, LoadBegins DEF PagesFit
  <2>3. resetting' \in BOOLEAN
    BY <2>1, Zenon
  <2>4. QED
    BY <1>1, <1>3, <1>4, <2>1, <2>2, <2>3, AfterLoad DEF PagesFit
<1>7. CASE Pages!ResetPage
  <2>1. resetting /\ ~ resetting' /\ resetting' \in BOOLEAN /\ page' = 1 /\ filter' = filter /\ Pages!Load(filter, 1)
        /\ ~ gap' /\ gap' \in BOOLEAN
    BY <1>1, <1>7 DEF Pages!ResetPage
  <2>2. LoadBegun
    BY <1>1, <1>2, <1>3, <2>1, LoadBegins DEF PagesFit
  <2>3. QED
    BY <1>1, <1>3, <1>4, <2>1, <2>2, AfterLoad DEF PagesFit
<1>8. CASE Pages!LoadMore
  <2>1. /\ load.appends /\ busy = {} /\ ~ resetting /\ rows # <<>> /\ page < MaxPage
        /\ page' = page + 1 /\ filter' = filter /\ Pages!Load(filter, page') /\ gap' = (gap \/ error) /\ resetting' = resetting
    BY <1>8 DEF Pages!LoadMore
  <2>2. page' \in Pages!Pages /\ page' - 1 = page
    BY <1>1, <2>1, BrowserAssumption DEF Pages!Pages, Pages!LoadsAssumption
  <2>3. gap' \in BOOLEAN
    BY <2>1, Zenon
  <2>4. LoadBegun
    BY <1>1, <1>2, <1>3, <2>1, <2>2, LoadBegins
  <2>5. \A c \in Call : ~ Pages!Live(c)
    BY <1>1, <2>1, Requests DEF PagesInvariant, WaitsForTheChoice, PagesFit, CallsFit, Sound
  <2>6. ~ gap' => RowsOfTheChoice(page)
    BY <1>1, <2>1, <2>5 DEF PagesInvariant, ShownIsRight, PagesFit
  <2>7. ~ gap' /\ UNCHANGED rows => RowsOfTheChoice(page - 1)'
    BY <1>3, <2>1, <2>2, <2>6 DEF RowsOfTheChoice
  <2>8. QED
    BY <1>1, <1>3, <1>4, <2>1, <2>2, <2>3, <2>4, <2>7, AfterLoad
<1>9. QED
  BY <1>5, <1>6, <1>7, <1>8

\* A request that only moves on is as live as it was.
LEMMA Moved ==
  ASSUME Pages!TypeOK, CallsFit, NEW c \in Call, NEW r \in Pages!CallRecord, OnItsWay(c), UNCHANGED load,
         calls' = [calls EXCEPT ![c] = r], r.cancelled <=> calls[c].cancelled, r.step # "timer", r.page = calls[c].page
  PROVE  /\ calls' \in [Call -> Pages!CallRecord \cup {Pages!Idle}] /\ CallsFit'
         /\ calls'[c] = r /\ \A d \in Call : d # c => calls'[d] = calls[d]
         /\ \A d \in Call : /\ OnItsWay(d)' <=> OnItsWay(d)
                            /\ Pages!Live(d)' <=> Pages!Live(d)
                            /\ OnItsWay(d) => calls'[d].page = calls[d].page
<1> USE DEF load, calls
<1>1. calls \in [Call -> Pages!CallRecord \cup {Pages!Idle}] /\ r # Pages!Idle
  BY DEF Pages!TypeOK, Pages!CallRecord, Pages!Idle
<1>2. /\ calls' \in [Call -> Pages!CallRecord \cup {Pages!Idle}]
      /\ calls'[c] = r /\ \A d \in Call : d # c => calls'[d] = calls[d]
  BY <1>1
<1>3. \A d \in Call : /\ OnItsWay(d)' <=> OnItsWay(d)
                      /\ Pages!Live(d)' <=> Pages!Live(d)
                      /\ Pages!Waiting(d)' => Pages!Waiting(d) /\ d # c
                      /\ OnItsWay(d) => calls'[d].page = calls[d].page /\ (calls'[d].cancelled <=> calls[d].cancelled)
  BY <1>1, <1>2 DEF OnItsWay, Pages!Live, Pages!Waiting
<1>4. CallsFit'
  BY <1>3 DEF CallsFit
<1>5. QED
  BY <1>2, <1>3, <1>4

\* A request that is answered or fails is over.
LEMMA Over ==
  ASSUME Pages!TypeOK, CallsFit, NEW c \in Call, UNCHANGED load, calls' = [calls EXCEPT ![c] = Pages!Idle]
  PROVE  /\ calls' \in [Call -> Pages!CallRecord \cup {Pages!Idle}] /\ CallsFit'
         /\ \A d \in Call : /\ OnItsWay(d)' <=> OnItsWay(d) /\ d # c
                            /\ Pages!Live(d)' <=> Pages!Live(d) /\ d # c
                            /\ d # c => calls'[d] = calls[d]
<1> USE DEF load, calls
<1>1. /\ calls' \in [Call -> Pages!CallRecord \cup {Pages!Idle}]
      /\ calls'[c] = Pages!Idle /\ \A d \in Call : d # c => calls'[d] = calls[d]
  BY DEF Pages!TypeOK
<1>2. \A d \in Call : /\ OnItsWay(d)' <=> OnItsWay(d) /\ d # c
                      /\ Pages!Live(d)' <=> Pages!Live(d) /\ d # c
                      /\ d # c => (Pages!Waiting(d)' <=> Pages!Waiting(d))
  BY <1>1 DEF OnItsWay, Pages!Live, Pages!Waiting
<1>3. CallsFit'
  BY <1>1, <1>2 DEF CallsFit
<1>4. QED
  BY <1>1, <1>2, <1>3

\* The end of a pause and the server's answer change nothing that is shown.
LEMMA MovedKept ==
  ASSUME PagesInvariant, NEW c \in Call, Pages!TimerFires(c) \/ Pages!Serve(c)
  PROVE  PagesInvariant'
<1> USE DEF load, filter, page, resetting, calls, rows, hasMore, busy, error, memo, edits, save, saved, overlapped, gap
<1>1. /\ Pages!TypeOK /\ CallsFit /\ Sound(load) /\ OnItsWay(c) /\ calls[c] \in Pages!CallRecord
      /\ edits \in 0 .. MaxSaves /\ saved <= edits
  BY Requests DEF PagesInvariant, Pages!TimerFires, Pages!Serve, Pages!Waiting, Pages!TypeOK
<1>2. UNCHANGED <<load, filter, page, resetting, rows, hasMore, memo, edits, save, saved, overlapped, gap>>
  BY DEF Pages!TimerFires, Pages!Serve
<1>3. CASE Pages!TimerFires(c)
  <2> DEFINE r == [calls[c] EXCEPT !.step = "out"]
  <2>1. calls' = [calls EXCEPT ![c] = r] /\ busy' = busy \cup {"first"} /\ error' = FALSE /\ Pages!Waiting(c)
    BY <1>3 DEF Pages!TimerFires
  <2>2. /\ r \in Pages!CallRecord /\ r.step = "out" /\ r.page = calls[c].page /\ r.filter = calls[c].filter
    BY <1>1 DEF Pages!CallRecord
  <2>3. r.cancelled <=> calls[c].cancelled
    BY <1>1 DEF Pages!CallRecord
  <2> HIDE DEF r
  <2>4. /\ calls' \in [Call -> Pages!CallRecord \cup {Pages!Idle}] /\ CallsFit'
        /\ calls'[c] = r /\ \A d \in Call : d # c => calls'[d] = calls[d]
        /\ \A d \in Call : /\ OnItsWay(d)' <=> OnItsWay(d)
                           /\ Pages!Live(d)' <=> Pages!Live(d)
                           /\ OnItsWay(d) => calls'[d].page = calls[d].page
    BY <1>1, <1>2, <2>1, <2>2, <2>3, Moved
  <2>5. Pages!Live(c) /\ ~ load.appends
    BY <1>1, <2>1 DEF CallsFit, Pages!Live, OnItsWay, Sound
  <2>6. Pages!TypeOK'
    <3>1. error' \in BOOLEAN
      BY <2>1
    <3>2. QED
      BY <1>1, <1>2, <2>1, <2>4, <3>1 DEF Pages!TypeOK
  <2>7. PagesFit' /\ SavesFit'
    BY <1>2, <2>4 DEF PagesInvariant, PagesFit, SavesFit
  <2>8. WaitsForTheChoice'
    BY <1>2, <2>1, <2>2, <2>4 DEF PagesInvariant, WaitsForTheChoice
  <2>9. ShownIsRight' /\ SpinnerWaits'
    BY <1>2, <2>4, <2>5 DEF PagesInvariant, PagesFit, ShownIsRight, SpinnerWaits
  <2>10. QED
    BY <2>4, <2>6, <2>7, <2>8, <2>9 DEF PagesInvariant
<1>4. CASE Pages!Serve(c)
  <2> DEFINE r == [calls[c] EXCEPT !.step = "back", !.edits = edits]
  <2>1. calls' = [calls EXCEPT ![c] = r] /\ UNCHANGED <<busy, error>> /\ ~ Pages!Waiting(c)
    BY <1>4 DEF Pages!Serve, Pages!Waiting
  <2>2. /\ r \in Pages!CallRecord /\ r.step = "back" /\ r.page = calls[c].page /\ r.filter = calls[c].filter
        /\ r.edits = edits
    BY <1>1 DEF Pages!CallRecord
  <2>3. r.cancelled <=> calls[c].cancelled
    BY <1>1 DEF Pages!CallRecord
  <2> HIDE DEF r
  <2>4. /\ calls' \in [Call -> Pages!CallRecord \cup {Pages!Idle}] /\ CallsFit'
        /\ calls'[c] = r /\ \A d \in Call : d # c => calls'[d] = calls[d]
        /\ \A d \in Call : /\ OnItsWay(d)' <=> OnItsWay(d)
                           /\ Pages!Live(d)' <=> Pages!Live(d)
                           /\ OnItsWay(d) => calls'[d].page = calls[d].page
    BY <1>1, <1>2, <2>1, <2>2, <2>3, Moved
  <2>5. Pages!TypeOK'
    BY <1>1, <1>2, <2>1, <2>4 DEF Pages!TypeOK
  <2>6. PagesFit' /\ SavesFit'
    BY <1>2, <2>4 DEF PagesInvariant, PagesFit, SavesFit
  <2>7. edits >= saved
    BY <1>1, Requests
  <2>8. WaitsForTheChoice'
    BY <1>2, <2>1, <2>2, <2>4, <2>7 DEF PagesInvariant, WaitsForTheChoice, Pages!Waiting
  <2>9. ShownIsRight' /\ SpinnerWaits'
    BY <1>2, <2>1, <2>4 DEF PagesInvariant, ShownIsRight, SpinnerWaits, RowsOfTheChoice
  <2>10. QED
    BY <2>4, <2>5, <2>6, <2>8, <2>9 DEF PagesInvariant
<1>5. QED
  BY <1>3, <1>4

\* What an answer leaves: the rows of the page that was waited for, and no spinner; nothing if it was cancelled.
LEMMA RowsAnswerKept ==
  ASSUME PagesInvariant, NEW c \in Call, Pages!Answer(c)
  PROVE  PagesInvariant'
<1> USE DEF load, filter, page, resetting, calls, rows, hasMore, busy, error, memo, edits, save, saved, overlapped, gap
<1> DEFINE chunk == [filter |-> calls[c].filter, page |-> calls[c].page, edits |-> calls[c].edits]
<1>1. /\ Pages!TypeOK /\ CallsFit /\ PagesFit /\ SavesFit /\ Sound(load) /\ calls[c].step = "back" /\ OnItsWay(c)
      /\ calls[c] \in Pages!CallRecord /\ page \in Nat /\ page \in Pages!Pages /\ rows \in Seq(Pages!Chunk)
      /\ load.appends \/ Len(rows) <= 1
  BY Requests DEF PagesInvariant, Pages!Answer, Pages!TypeOK
<1>2. /\ calls' = [calls EXCEPT ![c] = Pages!Idle] /\ memo' = IF load.shared THEN chunk ELSE memo
      /\ UNCHANGED <<load, filter, page, resetting, error, edits, save, saved, overlapped, gap>>
  BY DEF Pages!Answer
<1>3. chunk \in Pages!Chunk /\ chunk.filter = calls[c].filter /\ chunk.page = calls[c].page /\ chunk.edits = calls[c].edits
  BY <1>1 DEF Pages!Chunk, Pages!CallRecord
<1>4. calls[c].cancelled => UNCHANGED <<rows, hasMore, busy>>
  BY DEF Pages!Answer, Pages!Ignored
<1>5. ~ calls[c].cancelled =>
        /\ rows' = IF calls[c].page = 1 THEN <<chunk>> ELSE Append(rows, chunk)
        /\ hasMore' = (load.appends /\ calls[c].page < MaxPage) /\ busy' = {}
  BY DEF Pages!Answer, Pages!Ignored, Pages!Combined
<1> HIDE DEF chunk
<1>6. /\ calls' \in [Call -> Pages!CallRecord \cup {Pages!Idle}] /\ CallsFit'
      /\ \A d \in Call : /\ OnItsWay(d)' <=> OnItsWay(d) /\ d # c
                         /\ Pages!Live(d)' <=> Pages!Live(d) /\ d # c
                         /\ d # c => calls'[d] = calls[d]
  BY <1>1, <1>2, Over
<1>7. Pages!Live(c) <=> ~ calls[c].cancelled
  BY <1>1, Requests
<1>8. memo' \in Pages!Chunk \cup {NoRows}
  BY <1>1, <1>2, <1>3 DEF Pages!TypeOK
<1>9. SavesFit'
  BY <1>1, <1>2 DEF SavesFit
<1>10. CASE calls[c].cancelled
  <2>1. UNCHANGED <<rows, hasMore, busy>> /\ \A d \in Call : Pages!Live(d)' <=> Pages!Live(d)
    BY <1>4, <1>6, <1>7, <1>10
  <2>2. Pages!TypeOK'
    BY <1>1, <1>2, <1>6, <1>8, <2>1 DEF Pages!TypeOK
  <2>3. PagesFit'
    BY <1>1, <1>2, <1>6, <2>1 DEF PagesFit
  <2>4. WaitsForTheChoice'
    BY <1>2, <1>6, <2>1 DEF PagesInvariant, WaitsForTheChoice, Pages!Waiting
  <2>5. ShownIsRight' /\ SpinnerWaits'
    BY <1>2, <2>1 DEF PagesInvariant, ShownIsRight, SpinnerWaits, RowsOfTheChoice
  <2>6. QED
    BY <1>6, <1>9, <2>2, <2>3, <2>4, <2>5 DEF PagesInvariant
<1>11. CASE ~ calls[c].cancelled
  <2>1. /\ Pages!Live(c) /\ busy' = {}
        /\ rows' = IF calls[c].page = 1 THEN <<chunk>> ELSE Append(rows, chunk)
    BY <1>5, <1>7, <1>11
  <2>2. ~ load.appends => calls[c].page = 1
    BY <1>1 DEF PagesFit
  <2>3. rows' \in Seq(Pages!Chunk) /\ rows' # <<>> /\ (load.appends \/ Len(rows') <= 1)
    BY <1>1, <1>3, <2>1, <2>2
  <2>4. hasMore' \in BOOLEAN
    BY <1>5, <1>11, Zenon
  <2>5. Pages!TypeOK'
    BY <1>1, <1>2, <1>6, <1>8, <2>1, <2>3, <2>4 DEF Pages!TypeOK
  <2>6. PagesFit'
    BY <1>1, <1>2, <1>6, <2>3 DEF PagesFit
  <2>7. ~ overlapped => /\ \A d \in Call : ~ Pages!Live(d)'
                        /\ calls[c].filter = filter /\ calls[c].page = page /\ calls[c].edits >= saved
    BY <1>1, <1>6, <2>1 DEF PagesInvariant, WaitsForTheChoice
  <2>8. WaitsForTheChoice' /\ SpinnerWaits'
    BY <1>2, <2>1, <2>7 DEF WaitsForTheChoice, SpinnerWaits
  <2>9. ASSUME ~ overlapped, ~ gap, ~ resetting, ~ error
        PROVE  RowsOfTheChoice(page)'
    <3>1. CASE page = 1
      <4>1. rows' = <<chunk>>
        BY <2>1, <2>7, <2>9, <3>1
      <4>2. DOMAIN rows' = {1} /\ Len(rows') = 1 /\ rows'[1] = chunk
        BY <4>1
      <4>3. QED
        BY <1>2, <1>3, <2>7, <2>9, <3>1, <4>2 DEF RowsOfTheChoice
    <3>2. CASE page # 1
      <4>1. rows' = Append(rows, chunk) /\ rows # <<>> /\ load.appends
        BY <1>1, <2>1, <2>7, <2>9, <3>2 DEF PagesFit
      <4>2. RowsOfTheChoice(page - 1)
        BY <2>1, <2>9, <3>2, <4>1 DEF PagesInvariant, ShownIsRight
      <4>3. Len(rows) = page - 1 /\ \A i \in DOMAIN rows : rows[i].filter = filter /\ rows[i].edits >= saved /\ rows[i].page = i
        BY <4>1, <4>2 DEF RowsOfTheChoice
      <4>4. /\ DOMAIN rows = 1 .. page - 1 /\ DOMAIN rows' = 1 .. page /\ Len(rows') = page
            /\ rows'[page] = chunk /\ \A i \in 1 .. page - 1 : rows'[i] = rows[i]
        BY <1>1, <1>3, <4>1, <4>3
      <4>5. \A i \in 1 .. page : i = page \/ i \in 1 .. page - 1
        BY <1>1
      <4>6. \A i \in DOMAIN rows' : rows'[i].filter = filter /\ rows'[i].edits >= saved /\ rows'[i].page = i
        BY <1>3, <2>7, <2>9, <4>3, <4>4, <4>5
      <4>7. QED
        BY <1>2, <4>4, <4>6 DEF RowsOfTheChoice
    <3>3. QED
      BY <3>1, <3>2
  <2>10. ShownIsRight'
    BY <1>2, <2>7, <2>9 DEF ShownIsRight
  <2>11. QED
    BY <1>6, <1>9, <2>5, <2>6, <2>8, <2>10 DEF PagesInvariant
<1>12. QED
  BY <1>10, <1>11

\* A failure stops the spinner and is shown; a cancelled request fails in silence.
LEMMA FailKept ==
  ASSUME PagesInvariant, NEW c \in Call, Pages!Fail(c)
  PROVE  PagesInvariant'
<1> USE DEF load, filter, page, resetting, calls, rows, hasMore, busy, error, memo, edits, save, saved, overlapped, gap
<1>1. /\ Pages!TypeOK /\ CallsFit /\ PagesFit /\ SavesFit /\ OnItsWay(c) /\ ~ Pages!Waiting(c)
  BY Requests DEF PagesInvariant, Pages!Fail, Pages!Waiting
<1>2. /\ calls' = [calls EXCEPT ![c] = Pages!Idle]
      /\ UNCHANGED <<load, filter, page, resetting, rows, hasMore, memo, edits, save, saved, overlapped, gap>>
  BY DEF Pages!Fail
<1>3. /\ error' = (error \/ ~ calls[c].cancelled) /\ busy' = IF calls[c].cancelled THEN busy ELSE {}
  BY DEF Pages!Fail, Pages!Ignored, Pages!Finally
<1>4. /\ calls' \in [Call -> Pages!CallRecord \cup {Pages!Idle}] /\ CallsFit'
      /\ \A d \in Call : /\ OnItsWay(d)' <=> OnItsWay(d) /\ d # c
                         /\ Pages!Live(d)' <=> Pages!Live(d) /\ d # c
                         /\ d # c => calls'[d] = calls[d]
  BY <1>1, <1>2, Over
<1>5. Pages!Live(c) <=> ~ calls[c].cancelled
  BY <1>1, Requests
<1>6. error' \in BOOLEAN
  BY <1>3, Zenon
<1>7. Pages!TypeOK'
  BY <1>1, <1>2, <1>3, <1>4, <1>6 DEF Pages!TypeOK
<1>8. PagesFit' /\ SavesFit'
  BY <1>1, <1>2, <1>4 DEF PagesFit, SavesFit
<1>9. CASE calls[c].cancelled
  <2>1. busy' = busy /\ (error' <=> error) /\ \A d \in Call : Pages!Live(d)' <=> Pages!Live(d)
    BY <1>3, <1>4, <1>5, <1>9
  <2>2. WaitsForTheChoice'
    BY <1>2, <1>4, <2>1 DEF PagesInvariant, WaitsForTheChoice, Pages!Waiting
  <2>3. ShownIsRight' /\ SpinnerWaits'
    BY <1>2, <2>1 DEF PagesInvariant, ShownIsRight, SpinnerWaits, RowsOfTheChoice
  <2>4. QED
    BY <1>4, <1>7, <1>8, <2>2, <2>3 DEF PagesInvariant
<1>10. CASE ~ calls[c].cancelled
  <2>1. Pages!Live(c) /\ busy' = {} /\ error'
    BY <1>3, <1>5, <1>10
  <2>2. ~ overlapped => \A d \in Call : ~ Pages!Live(d)'
    BY <1>4, <2>1 DEF PagesInvariant, WaitsForTheChoice
  <2>3. WaitsForTheChoice' /\ ShownIsRight' /\ SpinnerWaits'
    BY <1>2, <2>1, <2>2 DEF WaitsForTheChoice, ShownIsRight, SpinnerWaits
  <2>4. QED
    BY <1>4, <1>7, <1>8, <2>3 DEF PagesInvariant
<1>11. QED
  BY <1>9, <1>10

\* The cache of the shared requests expires; an edit leaves the page, reaches the server, fails.
LEMMA EditKept ==
  ASSUME PagesInvariant, Pages!MemoExpires \/ Pages!Save \/ Pages!ServeSave \/ Pages!FailSave
  PROVE  PagesInvariant'
<1> USE DEF load, filter, page, resetting, calls, rows, hasMore, busy, error, memo, edits, save, saved, overlapped, gap
<1> DEFINE Saves == [step : {"none", "out", "back"}, filter : Filter, edits : 0 .. MaxSaves]
<1>1. /\ Pages!TypeOK /\ CallsFit /\ PagesFit /\ SavesFit /\ save \in Saves /\ filter \in Filter
      /\ edits \in 0 .. MaxSaves /\ saved \in 0 .. edits /\ MaxSaves \in Nat
  BY BrowserAssumption DEF PagesInvariant, Pages!TypeOK, Pages!LoadsAssumption
<1>2. UNCHANGED <<load, filter, page, resetting, calls, rows, hasMore, busy, error, saved, overlapped, gap>>
  BY DEF Pages!MemoExpires, Pages!Save, Pages!ServeSave, Pages!FailSave
<1>3. /\ memo' \in Pages!Chunk \cup {NoRows} /\ save' \in Saves /\ edits' \in 0 .. MaxSaves /\ saved' \in 0 .. edits'
      /\ SavesFit' /\ edits' >= edits /\ (rows = <<>> => save'.step = "none")
  <2>1. CASE Pages!MemoExpires
    BY <1>1, <2>1 DEF Pages!MemoExpires, SavesFit, PagesFit
  <2>2. CASE Pages!Save
    <3>1. /\ save' = [save EXCEPT !.step = "out", !.filter = filter] /\ UNCHANGED <<edits, memo, saved, load>>
          /\ load.save # "none" /\ edits < MaxSaves /\ rows # <<>>
      BY <2>2 DEF Pages!Save
    <3>2. save' \in Saves /\ save'.step = "out"
      BY <1>1, <3>1
    <3>3. QED
      BY <1>1, <3>1, <3>2 DEF SavesFit, Pages!TypeOK
  <2>3. CASE Pages!ServeSave
    <3>1. /\ save' = [save EXCEPT !.step = "back", !.edits = edits'] /\ edits' = edits + 1 /\ UNCHANGED <<memo, saved, load>>
          /\ save.step = "out"
      BY <2>3 DEF Pages!ServeSave
    <3>2. edits < MaxSaves /\ load.save # "none" /\ rows # <<>>
      BY <1>1, <3>1 DEF SavesFit, PagesFit
    <3>3. edits' \in 0 .. MaxSaves /\ saved' \in 0 .. edits' /\ edits' >= edits /\ saved' <= edits'
      BY <1>1, <3>1, <3>2
    <3>4. save' \in Saves /\ save'.step = "back" /\ save'.edits = edits'
      BY <1>1, <3>1, <3>3
    <3>5. QED
      BY <1>1, <3>1, <3>2, <3>3, <3>4 DEF SavesFit, Pages!TypeOK
  <2>4. CASE Pages!FailSave
    <3>1. /\ save' = [save EXCEPT !.step = "none"] /\ UNCHANGED <<edits, memo, saved, load>>
      BY <2>4 DEF Pages!FailSave
    <3>2. save' \in Saves /\ save'.step = "none"
      BY <1>1, <3>1
    <3>3. QED
      BY <1>1, <3>1, <3>2 DEF SavesFit, Pages!TypeOK
  <2>5. QED
    BY <2>1, <2>2, <2>3, <2>4
<1>4. Pages!TypeOK'
  BY <1>1, <1>2, <1>3 DEF Pages!TypeOK
<1>5. CallsFit' /\ PagesFit'
  BY <1>1, <1>2, <1>3 DEF CallsFit, PagesFit, OnItsWay, Pages!Waiting
<1>6. WaitsForTheChoice' /\ ShownIsRight' /\ SpinnerWaits'
  BY <1>2
  DEF PagesInvariant, WaitsForTheChoice, ShownIsRight, SpinnerWaits, RowsOfTheChoice, Pages!Live, Pages!Waiting
<1>7. QED
  BY <1>3, <1>4, <1>5, <1>6 DEF PagesInvariant

\* The answer to an edit is shown, or loads the page again.
LEMMA AnswerSaveKept ==
  ASSUME PagesInvariant, Pages!AnswerSave
  PROVE  PagesInvariant'
<1> USE DEF load, filter, page, resetting, calls, rows, hasMore, busy, error, memo, edits, save, saved, overlapped, gap
<1> DEFINE Saves == [step : {"none", "out", "back"}, filter : Filter, edits : 0 .. MaxSaves]
<1>1. /\ Pages!TypeOK /\ CallsFit /\ PagesFit /\ SavesFit /\ Sound(load) /\ save \in Saves /\ filter \in Filter /\ page \in Pages!Pages
      /\ edits \in 0 .. MaxSaves /\ saved \in 0 .. edits /\ MaxSaves \in Nat /\ 1 \in Pages!Pages /\ resetting \in BOOLEAN /\ gap \in BOOLEAN
  BY LoadsSound, BrowserAssumption DEF PagesInvariant, Pages!TypeOK, Pages!LoadsAssumption, Pages!Pages
<1>2. /\ save.step = "back" /\ save' = [save EXCEPT !.step = "none"] /\ saved' = save.edits
      /\ UNCHANGED <<load, filter, page, resetting, edits, gap>>
  BY DEF Pages!AnswerSave
<1>3. load.save # "none" /\ ~ load.appends /\ ~ load.shared /\ page = 1 /\ rows # <<>> /\ ~ resetting /\ ~ gap
  BY <1>1, <1>2 DEF SavesFit, PagesFit, Sound
<1>4. save' \in Saves /\ save'.step = "none" /\ saved' \in 0 .. edits'
  BY <1>1, <1>2 DEF SavesFit
<1>5. SavesFit'
  BY <1>2, <1>3, <1>4 DEF SavesFit
<1>6. CASE load.save = "answer"
  <2> DEFINE shown == [filter |-> save.filter, page |-> 1, edits |-> save.edits]
  <2>1. /\ rows' = <<shown>> /\ overlapped' = (overlapped \/ save.filter # filter \/ \E c \in Call : Pages!Live(c))
        /\ UNCHANGED <<calls, hasMore, busy, error, memo>>
    BY <1>6 DEF Pages!AnswerSave, Pages!ShowSaved
  <2>2. shown \in Pages!Chunk /\ shown.filter = save.filter /\ shown.edits = save.edits
    BY <1>1 DEF Pages!Chunk
  <2> HIDE DEF shown
  <2>3. rows' \in Seq(Pages!Chunk) /\ Len(rows') = 1 /\ rows' # <<>> /\ DOMAIN rows' = {1} /\ rows'[1] = shown
    BY <2>1, <2>2
  <2>4. overlapped' \in BOOLEAN
    BY <2>1, Zenon
  <2>5. Pages!TypeOK'
    BY <1>1, <1>2, <1>4, <2>1, <2>3, <2>4 DEF Pages!TypeOK
  <2>6. CallsFit' /\ PagesFit'
    BY <1>1, <1>2, <1>3, <2>1, <2>3 DEF CallsFit, PagesFit, OnItsWay, Pages!Waiting
  <2>7. \A c \in Call : Pages!Live(c)' <=> Pages!Live(c)
    BY <2>1 DEF Pages!Live
  <2>8. WaitsForTheChoice'
    BY <2>1, <2>7 DEF WaitsForTheChoice
  <2>9. SpinnerWaits'
    BY <1>3, <2>1, <2>7 DEF PagesInvariant, SpinnerWaits
  <2>10. ~ overlapped' => RowsOfTheChoice(page)'
    <3> SUFFICES ASSUME ~ overlapped' PROVE RowsOfTheChoice(page)'
      OBVIOUS
    <3>1. save.filter = filter /\ save.edits \in Nat
      <4>1. save.filter = filter
        BY <2>1, Zenon
      <4>2. save.edits \in Nat
        BY <1>1
      <4>3. QED
        BY <4>1, <4>2
    <3>2. rows'[1].filter = filter' /\ rows'[1].edits >= saved'
      BY <1>2, <2>2, <2>3, <3>1
    <3>3. QED
      BY <1>2, <1>3, <2>3, <3>2 DEF RowsOfTheChoice
  <2>11. ShownIsRight'
    BY <1>2, <1>3, <2>10 DEF ShownIsRight
  <2>12. QED
    BY <1>5, <2>5, <2>6, <2>8, <2>9, <2>11 DEF PagesInvariant
<1>7. CASE load.save # "answer"
  <2> DEFINE f == IF load.guarded THEN filter ELSE save.filter
  <2>1. Pages!Load(f, 1)
    BY <1>7 DEF Pages!AnswerSave, Pages!Reload
  <2>2. f \in Filter /\ (load.guarded => f = filter')
    BY <1>1, <1>2
  <2> HIDE DEF f
  <2>3. LoadBegun
    BY <1>1, <1>2, <1>3, <2>1, <2>2, LoadBegins DEF PagesFit
  <2>4. QED
    BY <1>1, <1>2, <1>3, <1>4, <1>5, <2>3, AfterLoad
<1>8. QED
  BY <1>6, <1>7

\* A page at rest shows what was chosen, with the user's own edits and its pages in order, and
\* it comes to rest: in whatever order the answers of any number of requests come, and whichever
\* of the pages' loads it is.
THEOREM PagesShow == BrowserSpec => []PagesShowTheChoice
<1> USE DEF load, filter, page, resetting, calls, rows, hasMore, busy, error, memo, edits, save, saved, overlapped, gap
<1> DEFINE Kept == part = "pages" => PagesInvariant
<1>1. BrowserInit => Kept
  <2> SUFFICES ASSUME part = "pages", Pages!Init PROVE PagesInvariant
    BY DEF BrowserInit
  <2>1. /\ 0 \in 0 .. MaxSaves /\ 1 \in Pages!Pages /\ FALSE \in BOOLEAN
    BY BrowserAssumption DEF Pages!LoadsAssumption, Pages!Pages
  <2>2. Pages!TypeOK
    <3>1. save \in [step : {"none", "out", "back"}, filter : Filter, edits : 0 .. MaxSaves]
      BY <2>1 DEF Pages!Init
    <3>2. calls \in [Call -> Pages!CallRecord \cup {Pages!Idle}]
      BY DEF Pages!Init
    <3>3. rows \in Seq(Pages!Chunk) /\ Len(rows) <= 1
      BY DEF Pages!Init
    <3>4. resetting \in BOOLEAN /\ hasMore \in BOOLEAN /\ error \in BOOLEAN /\ overlapped \in BOOLEAN /\ gap \in BOOLEAN
      BY <2>1 DEF Pages!Init
    <3>5. QED
      BY <2>1, <3>1, <3>2, <3>3, <3>4 DEF Pages!Init, Pages!TypeOK
  <2>3. \A c \in Call : ~ OnItsWay(c) /\ ~ Pages!Live(c)
    BY DEF Pages!Init, OnItsWay, Pages!Live
  <2>4. CallsFit /\ PagesFit /\ SavesFit
    BY <2>3 DEF CallsFit, PagesFit, SavesFit, Pages!Init
  <2>5. WaitsForTheChoice /\ ShownIsRight /\ SpinnerWaits
    BY <2>3 DEF WaitsForTheChoice, ShownIsRight, SpinnerWaits, Pages!Init
  <2>6. QED
    BY <2>2, <2>4, <2>5 DEF PagesInvariant
<1>2. Kept /\ [BrowserNext]_browserVars => Kept'
  <2> SUFFICES ASSUME part = "pages", PagesInvariant, [BrowserNext]_browserVars PROVE PagesInvariant'
    BY DEF BrowserNext, browserVars
  <2>1. CASE Pages!Next
    BY <2>1, ChoiceKept, MovedKept, RowsAnswerKept, FailKept, EditKept, AnswerSaveKept DEF Pages!Next
  <2>2. CASE UNCHANGED browserVars
    BY <2>2
    DEF browserVars, PagesInvariant, Pages!TypeOK, CallsFit, PagesFit, SavesFit, WaitsForTheChoice, ShownIsRight, SpinnerWaits,
        RowsOfTheChoice, OnItsWay, Pages!Live, Pages!Waiting
  <2>3. QED
    BY <2>1, <2>2 DEF BrowserNext
<1>3. Kept => PagesShowTheChoice
  <2> SUFFICES ASSUME PagesInvariant
               PROVE  Pages!TypeOK /\ Pages!ShowsTheChoice /\ Pages!OwnEditsStay /\ Pages!PagesInOrder /\ Pages!SpinnerEnds
    BY DEF PagesShowTheChoice
  <2>1. /\ Pages!TypeOK /\ PagesFit /\ SavesFit /\ Sound(load) /\ rows \in Seq(Pages!Chunk)
    BY LoadsSound DEF PagesInvariant, Pages!TypeOK
  <2>2. Pages!Complete /\ ~ overlapped /\ ~ gap => RowsOfTheChoice(page)
    BY DEF PagesInvariant, Pages!Complete, WaitsForTheChoice, ShownIsRight
  <2>3. Pages!ShowsTheChoice
    BY <2>2 DEF Pages!ShowsTheChoice, RowsOfTheChoice
  <2>4. Pages!OwnEditsStay
    <3> SUFFICES ASSUME Pages!Complete, ~ overlapped, saved > 0 PROVE rows[1].edits >= saved
      BY DEF Pages!OwnEditsStay
    <3>1. saved # 0
      OBVIOUS
    <3>2. ~ gap /\ rows # <<>>
      BY <2>1, <3>1 DEF SavesFit, PagesFit, Sound, Pages!Complete
    <3>3. 1 \in DOMAIN rows
      BY <2>1, <3>2
    <3>4. QED
      BY <2>2, <3>2, <3>3 DEF RowsOfTheChoice
  <2>5. Pages!PagesInOrder
    BY <2>1, <2>2 DEF Pages!PagesInOrder, PagesFit, RowsOfTheChoice
  <2>6. Pages!SpinnerEnds
    BY DEF PagesInvariant, SpinnerWaits, Pages!SpinnerEnds
  <2>7. QED
    BY <2>1, <2>3, <2>4, <2>5, <2>6
<1>4. QED
  BY <1>1, <1>2, <1>3, PTL DEF BrowserSpec
-----------------------------------------------------------------------------
(* The tabs of one browser *)

live == v1
expired == v2
issued == v3
ghost == v4
cookie == v5
shared == v6
own == v7
hasLocks == v8
holder == v9
lease == v10
at == v11
initial == v12
why == v13
mail == v14
act == v15
sent == v16
faults == v17
broken == v18
signedOut == v19
crossed == v20
over == v21

RefreshOf(t) == <<t, "refresh">>
ActOf(t) == <<t, "act">>

\* A request on its way belongs to what its tab does.
RequestsFit ==
  \A t \in Tab :
    /\ sent[RefreshOf(t)].kind = IF at[t] = "refresh" THEN "refresh" ELSE "none"
    /\ sent[ActOf(t)].kind = "refresh" <=> act[t] = "bootstrap"
    /\ sent[ActOf(t)].kind = "login" <=> act[t] = "login"
    /\ sent[ActOf(t)].kind = "logout" => act[t] = "logout"
    /\ why[t] = "logout" => act[t] = "logout" /\ sent[ActOf(t)].kind = "none"

\* Who has no answer yet has none, and a login is never refused.
RequestsFormed ==
  \A k \in Tabs!Slot :
    /\ sent[k].step = "none" => sent[k] = Tabs!NotSent
    /\ sent[k].step # "none" => sent[k].kind # "none"
    /\ sent[k].step = "out" \/ sent[k].kind = "logout" => sent[k].answer = 0
    /\ sent[k].kind = "login" /\ sent[k].step = "back" => sent[k].answer # 0

\* A tab that refreshes nothing has no locals, and only a waiting one has mail.
LocalsFit ==
  \A t \in Tab :
    /\ at[t] = "idle" => initial[t] = 0 /\ why[t] = "page"
    /\ mail[t] # {} => at[t] = "waiting"
    /\ why[t] = "identity" => initial[t] # 0

\* A token that is on its way is accepted, and nobody has it yet.
Unseen(n) ==
  /\ n \in live /\ n \notin expired /\ n \notin ghost /\ n # cookie
  /\ \A j \in Tabs!Slot : sent[j].cookie # n
AnswersAreNew ==
  /\ live \subseteq 1 .. issued /\ expired \subseteq 1 .. issued /\ ghost \subseteq 1 .. issued
  /\ cookie <= issued /\ \A k \in Tabs!Slot : sent[k].cookie <= issued
  /\ \A k \in Tabs!Slot : sent[k].answer # 0 => Unseen(sent[k].answer)
  /\ \A j, k \in Tabs!Slot : sent[j].answer = sent[k].answer => j = k \/ sent[k].answer = 0

\* There are tokens for all who asked for one.
Asked == { k \in Tabs!Slot : sent[k].kind \in {"refresh", "login"} /\ sent[k].step = "out" }
TokensSuffice == issued + Cardinality(Asked) <= MaxToken

\* Request k has replaced or ended the cookie it was sent with.
Replaces(k) ==
  sent[k].step = "back" /\ (sent[k].kind = "logout" \/ (sent[k].kind = "refresh" /\ sent[k].answer # 0))
CookieFollowed ==
  ~ broken => cookie = 0 \/ cookie \in live \/ \E k \in Tabs!Slot : Replaces(k) /\ sent[k].cookie = cookie

\* After a logout that met no other request, all requests are refused until a login.
NothingAccepted == over => cookie \notin live /\ \A k \in Tabs!Slot : sent[k].cookie \notin live /\ sent[k].answer = 0

\* The lock excludes; the lease does unless two tabs read that it was free.
LocksHeld ==
  /\ holder # NoTab => at[holder] = "refresh"
  /\ lease # NoTab => at[lease] = "refresh" \/ faults > 0
  /\ hasLocks => \A t \in Tab : at[t] # "lease" /\ (at[t] = "refresh" => holder = t)
  /\ ~ hasLocks /\ ~ crossed =>
       \A t \in Tab : at[t] = "refresh" => lease = t /\ \A u \in Tab : at[u] # "lease"
RefreshesAlone == ~ crossed => \A j, k \in Tabs!Slot : sent[j].kind = "refresh" /\ sent[k].kind = "refresh" => j = k

\* No tab has anything of a session.
Blank == shared = 0 /\ \A t \in Tab : own[t] = 0 /\ initial[t] = 0 /\ "success" \notin mail[t]
\* Nothing that a tab has is refused.
NothingExpired == shared \notin expired /\ \A t \in Tab : initial[t] = 0 /\ own[t] \notin expired /\ "success" \notin mail[t]

\* A refresh that had a cookie is not refused, one that had none is.
SlotUndisturbed(k) ==
  /\ sent[k].kind = "logout" => sent[k].step = "out"
  /\ sent[k].kind = "refresh" =>
       /\ sent[k].cookie = 0 => NothingExpired /\ sent[k].answer = 0
       /\ sent[k].cookie # 0 => IF sent[k].step = "out" THEN sent[k].cookie \in live ELSE sent[k].answer # 0

\* Without a cause no refresh is refused that had a cookie, and a tab that is told to use
\* another tab's token has one.
Undisturbed ==
  /\ signedOut = {}
  /\ cookie = 0 => Blank
  /\ \A k \in Tabs!Slot : SlotUndisturbed(k)
  /\ \A t \in Tab :
       /\ "unauthorized" \in mail[t] => initial[t] = 0
       /\ "success" \in mail[t] => shared # 0
       /\ at[t] = "retry" /\ why[t] = "identity" => ~ Tabs!Refused(own[t])
CauseNeeded == ~ broken /\ ~ crossed => Undisturbed

TabsInvariant ==
  /\ Tabs!TypeOK /\ RequestsFit /\ LocalsFit /\ RequestsFormed /\ AnswersAreNew /\ TokensSuffice /\ CookieFollowed /\ NothingAccepted
  /\ LocksHeld /\ RefreshesAlone /\ CauseNeeded

\* Each tab has two slots, and each slot is a tab's.
LEMMA TwoSlots ==
  /\ \A t \in Tab : RefreshOf(t) \in Tabs!Slot /\ ActOf(t) \in Tabs!Slot
  /\ \A t, u \in Tab : /\ RefreshOf(t) # ActOf(u)
                       /\ RefreshOf(t) = RefreshOf(u) => t = u
                       /\ ActOf(t) = ActOf(u) => t = u
  /\ \A k \in Tabs!Slot : \E t \in Tab : k = RefreshOf(t) \/ k = ActOf(t)
BY DEF Tabs!Slot, RefreshOf, ActOf

\* What is known of any request.
LEMMA Requested ==
  ASSUME TabsInvariant, NEW k \in Tabs!Slot
  PROVE  /\ sent[k] \in Tabs!Request /\ sent[k].cookie \in Nat /\ sent[k].answer \in Nat
         /\ sent[k].answer \in Tabs!Stored /\ sent[k].cookie \in Tabs!Stored
         /\ sent[k].step \in {"none", "out", "back"}
         /\ sent[k].kind \in {"none", "refresh", "login", "logout"}
         /\ sent[k].kind # "none" <=> sent[k].step # "none"
         /\ sent[k].step = "none" => sent[k] = Tabs!NotSent
         /\ issued \in Nat /\ cookie \in Nat /\ MaxToken \in Nat
<1>1. sent[k] \in Tabs!Request /\ issued \in Tabs!Stored /\ cookie \in Tabs!Stored /\ MaxToken \in Nat
  BY BrowserAssumption DEF TabsInvariant, Tabs!TypeOK, Tabs!TabsAssumption, sent, issued, cookie
<1>2. /\ sent[k].step = "none" => sent[k] = Tabs!NotSent
      /\ sent[k].step # "none" => sent[k].kind # "none"
  BY DEF TabsInvariant, RequestsFormed
<1>3. QED
  BY <1>1, <1>2 DEF Tabs!Request, Tabs!Stored, Tabs!NotSent

\* The tokens asked for can be counted.
LEMMA AskedCount ==
  /\ IsFiniteSet(Tabs!Slot) /\ IsFiniteSet(Asked) /\ Cardinality(Asked) \in Nat
  /\ Tabs!Room <=> issued + Cardinality(Asked) < MaxToken
<1>1. IsFiniteSet(Tab)
  BY BrowserAssumption DEF Tabs!TabsAssumption, Tabs!IsFiniteSet, IsFiniteSet
<1>2. IsFiniteSet({"refresh", "act"})
  <2>1. IsFiniteSet({"act"})
    BY FS_Singleton
  <2>2. IsFiniteSet({"act"} \cup {"refresh"})
    BY <2>1, FS_AddElement
  <2>3. {"act"} \cup {"refresh"} = {"refresh", "act"}
    OBVIOUS
  <2>4. QED
    BY <2>2, <2>3
<1>3. IsFiniteSet(Tabs!Slot)
  BY <1>1, <1>2, FS_Product DEF Tabs!Slot
<1>4. IsFiniteSet(Asked) /\ Cardinality(Asked) \in Nat
  BY <1>3, FS_Subset, FS_CardinalityType DEF Asked
<1>5. Tabs!Cardinality(Asked) = Cardinality(Asked)
  BY DEF Tabs!Cardinality, Cardinality
<1>6. Tabs!Room <=> issued + Tabs!Cardinality(Asked) < MaxToken
  BY DEF Tabs!Room, Asked, issued, sent
<1>7. QED
  BY <1>3, <1>4, <1>5, <1>6

\* What tab t tells the others: who hears it is waiting.
Heard(t, message) ==
  /\ mail' \in [Tab -> SUBSET {"success", "unauthorized", "network", "token"}]
  /\ mail'[t] = mail[t]
  /\ \A u \in Tab : /\ mail[u] \subseteq mail'[u] /\ mail'[u] \subseteq mail[u] \cup message \cup {"token"}
                    /\ mail'[u] # mail[u] => u # t /\ at[u] = "waiting"

\* Who is told hears the message, and of a token that it did not have.
LEMMA Telling ==
  ASSUME Tabs!TypeOK, NEW t \in Tab, NEW n, NEW message \in SUBSET {"success", "unauthorized", "network"},
         Tabs!Tell(t, n, message)
  PROVE  Heard(t, message)
<1> USE DEF mail, at
<1>1. \A u \in Tab : mail[u] \subseteq {"success", "unauthorized", "network", "token"}
  BY DEF Tabs!TypeOK
<1>2. mail' = [u \in Tab |-> IF u # t /\ at[u] = "waiting"
                               THEN mail[u] \cup message \cup (IF n # shared /\ n \notin {0, initial[u]} THEN {"token"} ELSE {})
                               ELSE mail[u]]
  BY DEF Tabs!Tell, shared, initial
<1>3. ASSUME NEW u \in Tab
      PROVE  /\ mail'[u] \subseteq {"success", "unauthorized", "network", "token"}
             /\ mail[u] \subseteq mail'[u] /\ mail'[u] \subseteq mail[u] \cup message \cup {"token"}
             /\ mail'[u] # mail[u] => u # t /\ at[u] = "waiting"
  <2>1. mail'[u] = IF u # t /\ at[u] = "waiting"
                     THEN mail[u] \cup message \cup (IF n # shared /\ n \notin {0, initial[u]} THEN {"token"} ELSE {})
                     ELSE mail[u]
    BY <1>2
  <2>2. QED
    BY <1>1, <2>1
<1>4. mail' \in [Tab -> SUBSET {"success", "unauthorized", "network", "token"}]
  BY <1>2, <1>3
<1>5. mail'[t] = mail[t]
  BY <1>2
<1>6. QED
  BY <1>3, <1>4, <1>5 DEF Heard
-----------------------------------------------------------------------------
(* The network                                                             *)

NetworkFits == RequestsFormed /\ AnswersAreNew /\ TokensSuffice /\ CookieFollowed /\ NothingAccepted

\* Request k leaves; nothing else happens on the network.
Leaves(k, kind) ==
  /\ sent[k].kind = "none" /\ sent' \in [Tabs!Slot -> Tabs!Request]
  /\ sent'[k].kind = kind /\ sent'[k].cookie = cookie /\ sent'[k].step = "out" /\ sent'[k].answer = 0
  /\ \A j \in Tabs!Slot : j # k => sent'[j] = sent[j]

\* The requests in slots are over.
Gone(slots) ==
  /\ sent' \in [Tabs!Slot -> Tabs!Request]
  /\ \A k \in Tabs!Slot : sent'[k] = IF k \in slots THEN Tabs!NotSent ELSE sent[k]

\* A request that is sent has left.
LEMMA Sending ==
  ASSUME TabsInvariant, NEW k \in Tabs!Slot, NEW kind \in {"refresh", "login", "logout"}, sent[k].kind = "none", Tabs!Send(k, kind)
  PROVE  Leaves(k, kind)
<1> DEFINE r == [kind |-> kind, cookie |-> cookie, step |-> "out", answer |-> 0]
<1>1. sent' = [sent EXCEPT ![k] = r]
  BY DEF Tabs!Send, sent, cookie
<1>2. sent \in [Tabs!Slot -> Tabs!Request] /\ cookie \in Tabs!Stored /\ 0 \in Tabs!Stored
  BY BrowserAssumption DEF TabsInvariant, Tabs!TypeOK, sent, cookie, Tabs!Stored, Tabs!TabsAssumption
<1>3. r \in Tabs!Request /\ r.kind = kind /\ r.cookie = cookie /\ r.step = "out" /\ r.answer = 0
  BY <1>2 DEF Tabs!Request
<1> HIDE DEF r
<1>4. QED
  BY <1>1, <1>2, <1>3 DEF Leaves

\* The answer is taken off the network.
LEMMA Receiving ==
  ASSUME TabsInvariant, NEW k \in Tabs!Slot, Tabs!Receive(k)
  PROVE  Gone({k})
<1>1. sent' = [sent EXCEPT ![k] = Tabs!NotSent]
  BY DEF Tabs!Receive, sent
<1>2. sent \in [Tabs!Slot -> Tabs!Request] /\ 0 \in Tabs!Stored
  BY BrowserAssumption DEF TabsInvariant, Tabs!TypeOK, sent, Tabs!Stored, Tabs!TabsAssumption
<1>3. Tabs!NotSent \in Tabs!Request
  BY <1>2 DEF Tabs!Request, Tabs!NotSent
<1>4. QED
  BY <1>1, <1>2, <1>3 DEF Gone

\* A request that leaves with the cookie of now has a token to come back with.
LEMMA LeavesFit ==
  ASSUME TabsInvariant, NEW k \in Tabs!Slot, NEW kind \in {"refresh", "login", "logout"}, Leaves(k, kind),
         kind # "logout" => Tabs!Room, UNCHANGED <<live, expired, issued, ghost, cookie, broken, over>>
  PROVE  NetworkFits'
<1>1. \A j \in Tabs!Slot : sent[j].cookie \in Nat /\ sent[j].answer \in Nat /\ (sent[j].kind # "none" <=> sent[j].step # "none")
  BY Requested
<1>2. AnswersAreNew'
  <2>1. \A j \in Tabs!Slot : sent'[j].answer # 0 => j # k /\ sent'[j] = sent[j]
    BY DEF Leaves
  <2>2. \A j \in Tabs!Slot : sent'[j].cookie \in {sent[j].cookie, cookie}
    BY DEF Leaves
  <2>3. \A n : Unseen(n) => Unseen(n)'
    BY <2>2 DEF Unseen
  <2>4. QED
    BY <2>1, <2>2, <2>3 DEF TabsInvariant, AnswersAreNew
<1>3. TokensSuffice'
  <2>1. IsFiniteSet(Asked) /\ Cardinality(Asked) \in Nat /\ (Tabs!Room <=> issued + Cardinality(Asked) < MaxToken)
    BY AskedCount
  <2>2. issued \in Nat /\ MaxToken \in Nat
    BY Requested
  <2>3. CASE kind = "logout"
    <3>1. Asked' = Asked
      BY <1>1, <2>3 DEF Asked, Leaves
    <3>2. QED
      BY <3>1 DEF TabsInvariant, TokensSuffice
  <2>4. CASE kind # "logout"
    <3>1. Asked' = Asked \cup {k} /\ k \notin Asked
      BY <1>1, <2>4 DEF Asked, Leaves
    <3>2. Cardinality(Asked') = Cardinality(Asked) + 1
      BY <2>1, <3>1, FS_AddElement
    <3>3. QED
      BY <2>1, <2>2, <2>4, <3>2 DEF TokensSuffice
  <2>5. QED
    BY <2>3, <2>4
<1>4. CookieFollowed'
  <2>1. \A j \in Tabs!Slot : Replaces(j) => j # k /\ Replaces(j)' /\ sent'[j].cookie = sent[j].cookie
    BY <1>1 DEF Replaces, Leaves
  <2>2. QED
    BY <2>1 DEF TabsInvariant, CookieFollowed
<1>5. NothingAccepted'
  BY DEF TabsInvariant, NothingAccepted, Leaves
<1>6. RequestsFormed'
  BY DEF TabsInvariant, RequestsFormed, Leaves
<1>7. QED
  BY <1>2, <1>3, <1>4, <1>5, <1>6 DEF NetworkFits

\* Requests that are answered or given up: the browser has the new cookie, or nothing was
\* replaced, or a session is broken.
LEMMA GoneFit ==
  ASSUME TabsInvariant, NEW slots \in SUBSET Tabs!Slot, Gone(slots), UNCHANGED <<live, expired, issued, over>>, broken => broken',
         \A n \in ghost' : n \in ghost \/ (n # 0 /\ \E k \in slots : n = sent[k].cookie),
         \/ cookie' = 0
         \/ \E k \in slots : sent[k].answer # 0 /\ cookie' = sent[k].answer
         \/ cookie' = cookie /\ (broken' \/ \A k \in slots : Replaces(k) => sent[k].cookie # cookie)
  PROVE  NetworkFits' /\ cookie' \in Tabs!Stored /\ ghost' \subseteq Tabs!Token
<1>1. \A j \in Tabs!Slot : sent[j].cookie \in Nat /\ sent[j].answer \in Nat
  BY Requested
<1>2. issued \in Nat /\ cookie \in Nat /\ MaxToken \in Nat /\ issued <= MaxToken /\ AnswersAreNew
  BY BrowserAssumption DEF TabsInvariant, Tabs!TypeOK, Tabs!TabsAssumption, Tabs!Stored, issued, cookie
<1>3. Tabs!NotSent.answer = 0 /\ Tabs!NotSent.cookie = 0 /\ Tabs!NotSent.kind = "none"
  BY DEF Tabs!NotSent
<1>4. \A k \in Tabs!Slot : sent'[k] = IF k \in slots THEN Tabs!NotSent ELSE sent[k]
  BY DEF Gone
<1>5. cookie' <= issued /\ cookie' \in Nat
  BY <1>1, <1>2 DEF AnswersAreNew, Unseen
<1>6. ghost' \subseteq 1 .. issued
  <2> SUFFICES ASSUME NEW n \in ghost' PROVE n \in 1 .. issued
    OBVIOUS
  <2>1. CASE n \in ghost
    BY <1>2, <2>1 DEF AnswersAreNew
  <2>2. CASE n # 0 /\ \E k \in slots : n = sent[k].cookie
    <3>1. PICK k \in slots : n = sent[k].cookie
      BY <2>2
    <3>2. n \in Nat /\ n <= issued
      BY <1>1, <1>2, <3>1 DEF AnswersAreNew
    <3>3. QED
      BY <1>2, <2>2, <3>2
  <2>3. QED
    BY <2>1, <2>2
<1>7. AnswersAreNew'
  <2>1. ASSUME NEW j \in Tabs!Slot, sent'[j].answer # 0
        PROVE  j \notin slots /\ sent'[j] = sent[j] /\ Unseen(sent[j].answer)'
    <3>1. j \notin slots /\ sent'[j] = sent[j] /\ sent[j].answer # 0 /\ Unseen(sent[j].answer)
      BY <1>2, <1>3, <1>4, <2>1 DEF AnswersAreNew
    <3>2. sent[j].answer # cookie'
      BY <1>2, <3>1 DEF AnswersAreNew, Unseen
    <3>3. sent[j].answer \notin ghost'
      BY <3>1 DEF Unseen
    <3>4. \A k \in Tabs!Slot : sent'[k].cookie # sent[j].answer
      BY <1>3, <1>4, <3>1 DEF Unseen
    <3>5. QED
      BY <3>1, <3>2, <3>3, <3>4 DEF Unseen
  <2>2. \A j, k \in Tabs!Slot : sent'[j].answer = sent'[k].answer => j = k \/ sent'[k].answer = 0
    BY <1>2, <2>1 DEF AnswersAreNew
  <2>3. \A j \in Tabs!Slot : sent'[j].cookie <= issued
    BY <1>2, <1>3, <1>4 DEF AnswersAreNew
  <2>4. QED
    BY <1>2, <1>5, <1>6, <2>1, <2>2, <2>3 DEF AnswersAreNew
<1>8. TokensSuffice'
  <2>1. Asked' \subseteq Asked
    BY <1>3, <1>4 DEF Asked
  <2>2. Cardinality(Asked') <= Cardinality(Asked) /\ Cardinality(Asked') \in Nat /\ Cardinality(Asked) \in Nat
    BY <2>1, AskedCount, FS_Subset, FS_CardinalityType
  <2>3. QED
    BY <1>2, <2>2 DEF TabsInvariant, TokensSuffice
<1>9. CookieFollowed'
  <2> SUFFICES ASSUME ~ broken', cookie' # 0, cookie' \notin live
               PROVE  \E k \in Tabs!Slot : Replaces(k)' /\ sent'[k].cookie = cookie'
    BY DEF CookieFollowed
  <2>1. \A k \in Tabs!Slot : sent[k].answer # 0 => sent[k].answer \in live
    BY <1>2 DEF AnswersAreNew, Unseen
  <2>2. cookie' = cookie /\ \A k \in slots : Replaces(k) => sent[k].cookie # cookie
    BY <2>1
  <2>3. PICK k \in Tabs!Slot : Replaces(k) /\ sent[k].cookie = cookie
    BY <2>2 DEF TabsInvariant, CookieFollowed
  <2>4. k \notin slots /\ sent'[k] = sent[k]
    BY <1>4, <2>2, <2>3
  <2>5. QED
    BY <2>2, <2>3, <2>4 DEF Replaces
<1>10. NothingAccepted'
  BY <1>2, <1>3, <1>4 DEF TabsInvariant, NothingAccepted, AnswersAreNew
<1>11. RequestsFormed'
  BY <1>4 DEF TabsInvariant, RequestsFormed, Tabs!NotSent
<1>12. QED
  BY <1>2, <1>5, <1>6, <1>7, <1>8, <1>9, <1>10, <1>11 DEF NetworkFits, Tabs!Stored, Tabs!Token

\* The server has dealt with request k.
Served(k) ==
  /\ sent[k].step = "out" /\ sent' \in [Tabs!Slot -> Tabs!Request] /\ issued' \in Tabs!Stored /\ live' \subseteq Tabs!Token
  /\ sent'[k].kind = sent[k].kind /\ sent'[k].cookie = sent[k].cookie /\ sent'[k].step = "back"
  /\ \A j \in Tabs!Slot : j # k => sent'[j] = sent[j]
  /\ (crossed' <=> crossed \/ sent[k].kind = "logout")
  /\ \/ /\ sent[k].kind = "login" /\ issued' = issued + 1 /\ sent'[k].answer = issued' /\ live' = live \cup {issued'} /\ ~ over'
     \/ /\ sent[k].kind = "refresh" /\ sent[k].cookie \in live /\ issued' = issued + 1 /\ sent'[k].answer = issued'
        /\ live' = (live \ {sent[k].cookie}) \cup {issued'} /\ (over' <=> over)
     \/ /\ sent[k].kind = "refresh" /\ sent[k].cookie \notin live /\ sent'[k].answer = 0 /\ UNCHANGED <<issued, live>> /\ (over' <=> over)
     \/ /\ sent[k].kind = "logout" /\ sent'[k].answer = 0 /\ issued' = issued /\ live' = live \ {sent[k].cookie}
        /\ over' => sent[k].cookie = cookie /\ \A j \in Tabs!Slot \ {k} : sent[j].kind = "none"

\* What the server does with a request: a login and the refresh of an accepted token issue
\* one, and there is room for it.
LEMMA Serving ==
  ASSUME TabsInvariant, NEW k \in Tabs!Slot, Tabs!Serve(k)
  PROVE  Served(k) /\ over' \in BOOLEAN /\ crossed' \in BOOLEAN
<1>1. /\ sent \in [Tabs!Slot -> Tabs!Request] /\ issued \in Tabs!Stored /\ issued \in Nat /\ MaxToken \in Nat /\ live \subseteq Tabs!Token
      /\ sent[k] \in Tabs!Request /\ over \in BOOLEAN /\ crossed \in BOOLEAN
  BY Requested DEF TabsInvariant, Tabs!TypeOK, sent, issued, live, over, crossed
<1>2. sent[k].step = "out" /\ sent[k].answer = 0 /\ sent[k].kind \in {"refresh", "login", "logout"}
  BY Requested DEF Tabs!Serve, sent, TabsInvariant, RequestsFormed
<1>3. /\ sent[k].kind = "login" => Tabs!Issue(k, {}) /\ over' = FALSE
      /\ sent[k].kind = "refresh" =>
           (IF sent[k].cookie \in live THEN Tabs!Issue(k, {sent[k].cookie}) ELSE Tabs!Refuse(k)) /\ over' = over
      /\ sent[k].kind = "logout" => /\ live' = live \ {sent[k].cookie} /\ sent' = [sent EXCEPT ![k].step = "back"] /\ issued' = issued
                                    /\ over' = (ghost = {} /\ sent[k].cookie = cookie /\ \A j \in Tabs!Slot \ {k} : ~ Tabs!Busy(j))
  BY <1>2 DEF Tabs!Serve, Tabs!Revoked, live, sent, issued, over, ghost, cookie
<1>4. (crossed' <=> crossed \/ sent[k].kind = "logout") /\ crossed' \in BOOLEAN
  <2>1. crossed' = (crossed \/ sent[k].kind = "logout")
    BY DEF Tabs!Serve, crossed, sent
  <2>2. QED
    BY <2>1, Zenon
<1>5. sent[k].kind # "logout" => issued + 1 \in Tabs!Stored /\ issued + 1 \in Tabs!Token
  <2> SUFFICES ASSUME sent[k].kind # "logout" PROVE issued + 1 <= MaxToken
    BY <1>1 DEF Tabs!Stored, Tabs!Token
  <2>1. k \in Asked
    BY <1>2 DEF Asked
  <2>2. Cardinality({k}) = 1 /\ IsFiniteSet(Asked) /\ Cardinality(Asked) \in Nat
    BY AskedCount, FS_Singleton
  <2>3. Cardinality({k}) <= Cardinality(Asked)
    BY <2>1, <2>2, FS_Subset
  <2>4. QED
    BY <1>1, <2>2, <2>3 DEF TabsInvariant, TokensSuffice
<1>6. ASSUME NEW n \in Tabs!Stored
      PROVE  LET r == [sent[k] EXCEPT !.step = "back", !.answer = n]
             IN  r \in Tabs!Request /\ r.kind = sent[k].kind /\ r.cookie = sent[k].cookie /\ r.step = "back" /\ r.answer = n
  BY <1>1 DEF Tabs!Request
<1>7. LET r == [sent[k] EXCEPT !.step = "back"]
      IN  r \in Tabs!Request /\ r.kind = sent[k].kind /\ r.cookie = sent[k].cookie /\ r.step = "back" /\ r.answer = 0
  BY <1>1, <1>2 DEF Tabs!Request
<1>8. ASSUME NEW ended, Tabs!Issue(k, ended), sent[k].kind # "logout"
      PROVE  /\ sent' \in [Tabs!Slot -> Tabs!Request] /\ issued' \in Tabs!Stored /\ live' \subseteq Tabs!Token
             /\ sent'[k].kind = sent[k].kind /\ sent'[k].cookie = sent[k].cookie /\ sent'[k].step = "back" /\ sent'[k].answer = issued'
             /\ \A j \in Tabs!Slot : j # k => sent'[j] = sent[j]
             /\ issued' = issued + 1 /\ live' = (live \ ended) \cup {issued'}
  <2> DEFINE r == [sent[k] EXCEPT !.step = "back", !.answer = issued']
  <2>1. issued' = issued + 1 /\ live' = (live \ ended) \cup {issued'} /\ sent' = [sent EXCEPT ![k] = r]
    BY <1>8 DEF Tabs!Issue, issued, live, sent
  <2>2. r \in Tabs!Request /\ r.kind = sent[k].kind /\ r.cookie = sent[k].cookie /\ r.step = "back" /\ r.answer = issued'
    BY <1>5, <1>6, <1>8, <2>1
  <2> HIDE DEF r
  <2>3. QED
    BY <1>1, <1>5, <1>8, <2>1, <2>2
<1>9. ASSUME sent' = [sent EXCEPT ![k].step = "back"]
      PROVE  /\ sent' \in [Tabs!Slot -> Tabs!Request]
             /\ sent'[k].kind = sent[k].kind /\ sent'[k].cookie = sent[k].cookie /\ sent'[k].step = "back" /\ sent'[k].answer = 0
             /\ \A j \in Tabs!Slot : j # k => sent'[j] = sent[j]
  <2> DEFINE r == [sent[k] EXCEPT !.step = "back"]
  <2>1. r \in Tabs!Request /\ r.kind = sent[k].kind /\ r.cookie = sent[k].cookie /\ r.step = "back" /\ r.answer = 0
    BY <1>7
  <2>2. sent' = [sent EXCEPT ![k] = r]
    BY <1>9
  <2> HIDE DEF r
  <2>3. QED
    BY <1>1, <2>1, <2>2
<1>10. CASE sent[k].kind = "login"
  <2>1. Tabs!Issue(k, {}) /\ ~ over' /\ over' \in BOOLEAN
    BY <1>3, <1>10, Zenon
  <2>2. live' = live \cup {issued'}
    BY <1>8, <1>10, <2>1
  <2>3. QED
    BY <1>2, <1>4, <1>8, <1>10, <2>1, <2>2 DEF Served
<1>11. CASE sent[k].kind = "refresh" /\ sent[k].cookie \in live
  <2>1. Tabs!Issue(k, {sent[k].cookie}) /\ over' = over
    BY <1>3, <1>11
  <2>2. QED
    BY <1>1, <1>2, <1>4, <1>8, <1>11, <2>1 DEF Served
<1>12. CASE sent[k].kind = "refresh" /\ sent[k].cookie \notin live
  <2>1. Tabs!Refuse(k) /\ over' = over
    BY <1>3, <1>12
  <2>2. sent' = [sent EXCEPT ![k].step = "back"] /\ UNCHANGED <<issued, live>>
    BY <2>1 DEF Tabs!Refuse, sent, issued, live
  <2>3. QED
    BY <1>1, <1>2, <1>4, <1>9, <1>12, <2>1, <2>2 DEF Served
<1>13. CASE sent[k].kind = "logout"
  <2>1. /\ live' = live \ {sent[k].cookie} /\ sent' = [sent EXCEPT ![k].step = "back"] /\ issued' = issued
        /\ over' = (ghost = {} /\ sent[k].cookie = cookie /\ \A j \in Tabs!Slot \ {k} : ~ Tabs!Busy(j))
    BY <1>3, <1>13
  <2>2. over' \in BOOLEAN /\ (over' => sent[k].cookie = cookie /\ \A j \in Tabs!Slot \ {k} : ~ Tabs!Busy(j))
    BY <2>1, Zenon
  <2>3. over' => \A j \in Tabs!Slot \ {k} : sent[j].kind = "none"
    BY <2>2 DEF Tabs!Busy, sent
  <2>4. live' \subseteq Tabs!Token
    BY <1>1, <2>1
  <2>5. QED
    BY <1>1, <1>2, <1>4, <1>9, <1>13, <2>1, <2>2, <2>3, <2>4 DEF Served
<1>14. QED
  BY <1>2, <1>10, <1>11, <1>12, <1>13

\* A request that the server has dealt with: the token it replaced is followed, the new one is unseen.
LEMMA ServedFit ==
  ASSUME TabsInvariant, NEW k \in Tabs!Slot, Served(k), UNCHANGED <<expired, ghost, cookie, broken>>
  PROVE  NetworkFits'
<1>1. \A j \in Tabs!Slot : sent[j].cookie \in Nat /\ sent[j].answer \in Nat /\ (sent[j].step = "none" => sent[j] = Tabs!NotSent)
  BY Requested
<1>2. issued \in Nat /\ cookie \in Nat /\ MaxToken \in Nat /\ AnswersAreNew /\ 0 \notin live
  BY BrowserAssumption DEF TabsInvariant, Tabs!TypeOK, Tabs!TabsAssumption, Tabs!Stored, Tabs!Token, issued, cookie, live
<1>3. /\ sent[k].step = "out" /\ sent'[k].kind = sent[k].kind /\ sent'[k].cookie = sent[k].cookie /\ sent'[k].step = "back"
      /\ sent[k].answer = 0 /\ \A j \in Tabs!Slot : j # k => sent'[j] = sent[j]
  BY DEF Served, TabsInvariant, RequestsFormed
<1>4. \A j \in Tabs!Slot : sent'[j].cookie = sent[j].cookie
  BY <1>3
<1>5. \A j \in Tabs!Slot : Replaces(j) => j # k /\ Replaces(j)'
  BY <1>3 DEF Replaces
<1>6. Asked' = Asked \ {k} /\ k \in Asked => TokensSuffice' \/ issued' # issued + 1
  <2> SUFFICES ASSUME Asked' = Asked \ {k}, k \in Asked, issued' = issued + 1 PROVE TokensSuffice'
    OBVIOUS
  <2>1. IsFiniteSet(Asked) /\ Cardinality(Asked) \in Nat
    BY AskedCount
  <2>2. Cardinality(Asked') = Cardinality(Asked) - 1
    BY <2>1, FS_RemoveElement
  <2>3. QED
    BY <1>2, <2>1, <2>2 DEF TabsInvariant, TokensSuffice
<1>7. issued' = issued /\ Asked' \subseteq Asked => TokensSuffice'
  <2> SUFFICES ASSUME issued' = issued, Asked' \subseteq Asked PROVE TokensSuffice'
    OBVIOUS
  <2>1. Cardinality(Asked') <= Cardinality(Asked) /\ Cardinality(Asked') \in Nat /\ Cardinality(Asked) \in Nat
    BY AskedCount, FS_Subset, FS_CardinalityType
  <2>2. QED
    BY <1>2, <2>1 DEF TabsInvariant, TokensSuffice
<1>8. Asked' = Asked \ {k}
  BY <1>3 DEF Asked
<1>9. sent[k].kind \in {"refresh", "login"} => k \in Asked
  BY <1>3 DEF Asked
<1>10. ASSUME issued' = issued + 1, sent'[k].answer = issued', sent[k].kind \in {"refresh", "login"},
              live' \subseteq live \cup {issued'}, issued' \in live', \A n \in live : n \in live' \/ n = sent[k].cookie
       PROVE  AnswersAreNew' /\ TokensSuffice'
  <2>1. Unseen(issued)'
    <3>1. issued' \notin expired' /\ issued' \notin ghost' /\ issued' # cookie'
      BY <1>2, <1>10 DEF AnswersAreNew
    <3>2. \A j \in Tabs!Slot : sent'[j].cookie # issued'
      BY <1>1, <1>2, <1>4, <1>10 DEF AnswersAreNew
    <3>3. QED
      BY <1>10, <3>1, <3>2 DEF Unseen
  <2>2. ASSUME NEW j \in Tabs!Slot, j # k, sent[j].answer # 0
        PROVE  Unseen(sent[j].answer)' /\ sent[j].answer <= issued
    <3>1. Unseen(sent[j].answer) /\ sent[j].answer # sent[k].cookie
      BY <1>2, <2>2 DEF AnswersAreNew, Unseen
    <3>2. sent[j].answer \in live /\ sent[j].answer <= issued
      <4>1. sent[j].answer \in live
        BY <3>1 DEF Unseen
      <4>2. sent[j].answer \in 1 .. issued
        BY <1>2, <4>1 DEF AnswersAreNew
      <4>3. QED
        BY <1>2, <4>1, <4>2
    <3>3. sent'[j].answer = sent[j].answer /\ sent[j].answer \in live'
      BY <1>3, <1>10, <2>2, <3>1, <3>2
    <3>4. sent[j].answer \notin expired' /\ sent[j].answer \notin ghost' /\ sent[j].answer # cookie'
      BY <3>1 DEF Unseen
    <3>5. \A i \in Tabs!Slot : sent'[i].cookie # sent[j].answer
      BY <1>4, <3>1 DEF Unseen
    <3>6. QED
      BY <3>2, <3>3, <3>4, <3>5 DEF Unseen
  <2>3. \A i, j \in Tabs!Slot : sent'[i].answer = sent'[j].answer => i = j \/ sent'[j].answer = 0
    <3> SUFFICES ASSUME NEW i \in Tabs!Slot, NEW j \in Tabs!Slot, sent'[i].answer = sent'[j].answer, sent'[j].answer # 0
                 PROVE  i = j
      OBVIOUS
    <3>1. CASE i # k /\ j # k
      BY <1>2, <1>3, <3>1 DEF AnswersAreNew
    <3>2. CASE i = k /\ j # k
      BY <1>2, <1>3, <1>10, <2>2, <3>2
    <3>3. CASE i # k /\ j = k
      BY <1>2, <1>3, <1>10, <2>2, <3>3
    <3>4. QED
      BY <3>1, <3>2, <3>3
  <2>4. \A j \in Tabs!Slot : sent'[j].answer # 0 => Unseen(sent[j].answer)'
    BY <1>3, <1>10, <2>1, <2>2
  <2>5. /\ live' \subseteq 1 .. issued' /\ expired' \subseteq 1 .. issued' /\ ghost' \subseteq 1 .. issued'
        /\ cookie' <= issued' /\ \A j \in Tabs!Slot : sent'[j].cookie <= issued'
    BY <1>1, <1>2, <1>4, <1>10 DEF AnswersAreNew
  <2>6. QED
    BY <1>6, <1>8, <1>9, <1>10, <2>3, <2>4, <2>5 DEF AnswersAreNew
<1>11. ASSUME issued' = issued, sent'[k].answer = 0, live' \subseteq live, \A n \in live : n \in live' \/ n = sent[k].cookie
       PROVE  AnswersAreNew' /\ TokensSuffice'
  <2>1. \A j \in Tabs!Slot : sent'[j].answer # 0 => j # k /\ sent'[j] = sent[j]
    BY <1>3, <1>11
  <2>2. \A j \in Tabs!Slot : sent'[j].answer # 0 => Unseen(sent[j].answer)'
    <3> SUFFICES ASSUME NEW j \in Tabs!Slot, sent'[j].answer # 0 PROVE Unseen(sent[j].answer)'
      OBVIOUS
    <3>1. sent'[j].answer = sent[j].answer /\ Unseen(sent[j].answer) /\ sent[j].answer # sent[k].cookie
      BY <1>2, <2>1 DEF AnswersAreNew, Unseen
    <3>2. sent[j].answer \in live'
      BY <1>11, <3>1 DEF Unseen
    <3>3. sent[j].answer \notin expired' /\ sent[j].answer \notin ghost' /\ sent[j].answer # cookie'
      BY <3>1 DEF Unseen
    <3>4. \A i \in Tabs!Slot : sent'[i].cookie # sent[j].answer
      BY <1>4, <3>1 DEF Unseen
    <3>5. QED
      BY <3>1, <3>2, <3>3, <3>4 DEF Unseen
  <2>3. \A i, j \in Tabs!Slot : sent'[i].answer = sent'[j].answer => i = j \/ sent'[j].answer = 0
    BY <1>2, <2>1 DEF AnswersAreNew
  <2>4. /\ live' \subseteq 1 .. issued' /\ expired' \subseteq 1 .. issued' /\ ghost' \subseteq 1 .. issued'
        /\ cookie' <= issued' /\ \A j \in Tabs!Slot : sent'[j].cookie <= issued'
    BY <1>2, <1>4, <1>11 DEF AnswersAreNew
  <2>5. QED
    BY <1>7, <1>8, <1>11, <2>2, <2>3, <2>4 DEF AnswersAreNew
<1>12. ASSUME \A n \in live : n \in live' \/ (n = sent[k].cookie /\ Replaces(k)')
       PROVE  CookieFollowed'
  BY <1>3, <1>4, <1>5, <1>12 DEF TabsInvariant, CookieFollowed
<1>13. RequestsFormed'
  <2>1. sent'[k].kind = "logout" => sent'[k].answer = 0
    BY <1>3 DEF Served
  <2>2. sent'[k].kind = "login" => sent'[k].answer # 0
    BY <1>2, <1>3 DEF Served
  <2>3. sent[k].kind # "none"
    BY <1>3, Requested
  <2>4. QED
    BY <1>3, <2>1, <2>2, <2>3 DEF TabsInvariant, RequestsFormed
<1>14. CASE sent[k].kind = "login"
  <2>1. issued' = issued + 1 /\ sent'[k].answer = issued' /\ live' = live \cup {issued'} /\ ~ over'
    BY <1>14 DEF Served
  <2>2. QED
    BY <1>10, <1>12, <1>13, <1>14, <2>1 DEF NetworkFits, NothingAccepted
<1>15. CASE sent[k].kind = "refresh" /\ sent[k].cookie \in live
  <2>1. issued' = issued + 1 /\ sent'[k].answer = issued' /\ live' = (live \ {sent[k].cookie}) \cup {issued'} /\ (over' <=> over)
    BY <1>15 DEF Served
  <2>2. Replaces(k)'
    BY <1>2, <1>3, <1>15, <2>1 DEF Replaces
  <2>3. ~ over'
    BY <1>15, <2>1 DEF TabsInvariant, NothingAccepted
  <2>4. QED
    BY <1>10, <1>12, <1>13, <1>15, <2>1, <2>2, <2>3 DEF NetworkFits, NothingAccepted
<1>16. CASE sent[k].kind = "refresh" /\ sent[k].cookie \notin live
  <2>1. sent'[k].answer = 0 /\ issued' = issued /\ live' = live /\ (over' <=> over)
    BY <1>16 DEF Served
  <2>2. NothingAccepted'
    BY <1>3, <1>4, <2>1 DEF TabsInvariant, NothingAccepted
  <2>3. QED
    BY <1>11, <1>12, <1>13, <2>1, <2>2 DEF NetworkFits
<1>17. CASE sent[k].kind = "logout"
  <2>1. /\ sent'[k].answer = 0 /\ issued' = issued /\ live' = live \ {sent[k].cookie}
        /\ over' => sent[k].cookie = cookie /\ \A j \in Tabs!Slot \ {k} : sent[j].kind = "none"
    BY <1>17 DEF Served
  <2>2. Replaces(k)'
    BY <1>3, <1>17 DEF Replaces
  <2>3. over' => \A j \in Tabs!Slot \ {k} : sent[j] = Tabs!NotSent
    BY <2>1, Requested
  <2>4. NothingAccepted'
    BY <1>2, <1>3, <1>4, <2>1, <2>3 DEF NothingAccepted, Tabs!NotSent
  <2>5. QED
    BY <1>11, <1>12, <1>13, <2>1, <2>2, <2>4 DEF NetworkFits
<1>18. QED
  BY <1>14, <1>15, <1>16, <1>17 DEF Served

\* The network rests.
LEMMA NetworkRests ==
  ASSUME TabsInvariant, UNCHANGED <<live, expired, issued, ghost, cookie, sent, broken, over>>
  PROVE  NetworkFits'
BY DEF TabsInvariant, NetworkFits, RequestsFormed, AnswersAreNew, Unseen, TokensSuffice, Asked, CookieFollowed, Replaces, NothingAccepted

\* A request whose tab gave up reaches the server: the token it takes was nobody's answer.
LEMMA GhostFits ==
  ASSUME TabsInvariant, NEW n \in ghost, ghost' = ghost \ {n}, live' = live \ {n}, broken' <=> (broken \/ n \in live),
         UNCHANGED <<expired, issued, cookie, sent, over>>
  PROVE  NetworkFits'
<1>1. AnswersAreNew'
  <2>1. \A k \in Tabs!Slot : sent[k].answer # 0 => Unseen(sent[k].answer)'
    BY DEF TabsInvariant, AnswersAreNew, Unseen
  <2>2. QED
    BY <2>1 DEF TabsInvariant, AnswersAreNew
<1>2. TokensSuffice'
  BY DEF TabsInvariant, TokensSuffice, Asked
<1>3. CookieFollowed'
  BY DEF TabsInvariant, CookieFollowed, Replaces
<1>4. NothingAccepted'
  BY DEF TabsInvariant, NothingAccepted
<1>5. RequestsFormed'
  BY DEF TabsInvariant, RequestsFormed
<1>6. QED
  BY <1>1, <1>2, <1>3, <1>4, <1>5 DEF NetworkFits

\* An access token expires when nothing is on its way.
LEMMA ExpiredFits ==
  ASSUME TabsInvariant, NEW n \in 1 .. issued, expired' = expired \cup {n}, \A k \in Tabs!Slot : sent[k] = Tabs!NotSent,
         UNCHANGED <<live, issued, ghost, cookie, sent, broken, over>>
  PROVE  NetworkFits'
<1>1. \A k \in Tabs!Slot : sent[k].answer = 0
  BY DEF Tabs!NotSent
<1>2. AnswersAreNew'
  BY <1>1 DEF TabsInvariant, AnswersAreNew
<1>3. TokensSuffice' /\ CookieFollowed' /\ NothingAccepted'
  BY DEF TabsInvariant, TokensSuffice, Asked, CookieFollowed, Replaces, NothingAccepted
<1>4. RequestsFormed'
  BY DEF TabsInvariant, RequestsFormed
<1>5. QED
  BY <1>2, <1>3, <1>4 DEF NetworkFits
-----------------------------------------------------------------------------
(* The tabs                                                                *)

\* What concerns the tabs and not the network.
TabsFit == Tabs!TypeOK /\ RequestsFit /\ LocalsFit /\ LocksHeld /\ RefreshesAlone /\ CauseNeeded

\* The two halves of the invariant.
LEMMA BothFit ==
  ASSUME TabsFit', NetworkFits'
  PROVE  TabsInvariant'
BY DEF TabsFit, NetworkFits, TabsInvariant

\* What tabs keep to themselves.
LocalsTyped ==
  /\ own \in [Tab -> Tabs!Stored] /\ shared \in Tabs!Stored
  /\ at \in [Tab -> {"idle", "lease", "refresh", "missed", "waiting", "retry"}]
  /\ initial \in [Tab -> Tabs!Stored] /\ why \in [Tab -> {"page", "identity", "logout"}]
  /\ act \in [Tab -> {"idle", "bootstrap", "login", "logout"}]
  /\ signedOut \subseteq Tab

\* The refresh of tab t has ended one way or the other.
SettledTab(t, outcome) ==
  /\ LocalsTyped' /\ crossed' \in BOOLEAN
  /\ crossed => crossed'
  /\ at'[t] \in {"retry", "idle"}
  /\ \A u \in Tab : u # t => at'[u] = at[u] /\ initial'[u] = initial[u] /\ why'[u] = why[u] /\ act'[u] = act[u] /\ own'[u] = own[u]
  /\ act'[t] = IF at'[t] = "idle" /\ why[t] = "logout" THEN "idle" ELSE act[t]
  /\ at'[t] = "retry" =>
       /\ initial'[t] = initial[t] /\ why'[t] = why[t] /\ shared' = shared /\ signedOut' = signedOut
       /\ own'[t] = IF shared # 0 THEN shared ELSE own[t]
       /\ ~ crossed' => shared \notin expired
  /\ at'[t] = "idle" =>
       /\ initial'[t] = 0 /\ why'[t] = "page"
       /\ ~ crossed' /\ outcome = "network" => shared' = shared /\ own'[t] = own[t]
       /\ outcome = "unauthorized" => own'[t] = 0 /\ shared' = 0 /\ shared \in {0, initial[t]}
       /\ outcome = "network" \/ initial[t] = 0 => signedOut' = signedOut

\* What the types say of the tabs and the network.
LEMMA LocalTypes ==
  ASSUME TabsInvariant
  PROVE  /\ LocalsTyped /\ 0 \in Tabs!Stored /\ crossed \in BOOLEAN /\ broken \in BOOLEAN /\ over \in BOOLEAN /\ hasLocks \in BOOLEAN
         /\ mail \in [Tab -> SUBSET {"success", "unauthorized", "network", "token"}]
         /\ 0 \notin expired /\ 0 \notin live /\ Tabs!TypeOK
         /\ sent \in [Tabs!Slot -> Tabs!Request] /\ cookie \in Tabs!Stored /\ Tabs!Stored \subseteq Nat
BY BrowserAssumption
DEF LocalsTyped, TabsInvariant, Tabs!TypeOK, Tabs!TabsAssumption, Tabs!Stored, Tabs!Token, own, shared, at, initial, why, act, signedOut,
    crossed, broken, over, hasLocks, mail, expired, live, sent, cookie

\* A tab that takes the shared token repeats its request with it.
LEMMA Adopting ==
  ASSUME TabsInvariant, NEW t \in Tab, NEW outcome, Tabs!Adopt(t)
  PROVE  SettledTab(t, outcome) /\ at'[t] = "retry"
<1> USE DEF own, shared, at, initial, why, act, signedOut, crossed, expired
<1>1. LocalsTyped
  BY LocalTypes
<1>2. /\ at' = [at EXCEPT ![t] = "retry"] /\ own' = [own EXCEPT ![t] = IF shared # 0 THEN shared ELSE own[t]]
      /\ UNCHANGED <<shared, initial, why, act, signedOut>>
  BY DEF Tabs!Adopt
<1>3. crossed' \in BOOLEAN /\ (crossed' <=> (crossed \/ shared \in expired))
  <2>1. crossed' = (crossed \/ shared \in expired)
    BY DEF Tabs!Adopt
  <2>2. QED
    BY <2>1, Zenon
<1>4. LocalsTyped'
  BY <1>1, <1>2 DEF LocalsTyped
<1>5. QED
  BY <1>1, <1>2, <1>3, <1>4 DEF SettledTab, LocalsTyped

\* Without another token the refresh is over, and a refused one clears the sign-in.
LEMMA Settling ==
  ASSUME TabsInvariant, NEW t \in Tab, NEW outcome \in {"network", "unauthorized"}, Tabs!Settle(t, outcome)
  PROVE  SettledTab(t, outcome) /\ (at'[t] = "retry" => shared # 0)
<1> USE DEF own, shared, at, initial, why, act, signedOut, crossed, expired
<1>1. LocalsTyped /\ 0 \in Tabs!Stored
  BY LocalTypes
<1>2. CASE shared \notin {0, initial[t]}
  <2>1. Tabs!Adopt(t) /\ shared # 0
    BY <1>2 DEF Tabs!Settle
  <2>2. QED
    BY <2>1, Adopting
<1>3. CASE shared \in {0, initial[t]}
  <2>1. Tabs!Forget(t, outcome)
    BY <1>3 DEF Tabs!Settle
  <2>2. /\ at' = [at EXCEPT ![t] = "idle"] /\ initial' = [initial EXCEPT ![t] = 0] /\ why' = [why EXCEPT ![t] = "page"]
        /\ act' = IF why[t] = "logout" THEN [act EXCEPT ![t] = "idle"] ELSE act
        /\ IF why[t] = "logout" \/ outcome = "unauthorized" THEN own' = [own EXCEPT ![t] = 0] /\ shared' = 0 ELSE UNCHANGED <<own, shared>>
        /\ signedOut' = IF outcome = "unauthorized" /\ initial[t] # 0 THEN signedOut \cup {t} ELSE signedOut
    BY <2>1 DEF Tabs!Forget, Tabs!Return, Tabs!clearAuthStorage, Tabs!SetTokens
  <2>3. crossed' \in BOOLEAN /\ (crossed' <=> (crossed \/ why[t] = "logout"))
    <3>1. crossed' = (crossed \/ why[t] = "logout")
      BY <2>1 DEF Tabs!Forget
    <3>2. QED
      BY <3>1, Zenon
  <2>4. LocalsTyped'
    BY <1>1, <2>2 DEF LocalsTyped
  <2>5. QED
    BY <1>1, <1>3, <2>2, <2>3, <2>4 DEF SettledTab, LocalsTyped
<1>4. QED
  BY <1>2, <1>3

\* A tab that settles disturbs nobody: what it clears was empty, what it takes is good.
LEMMA SettledCause ==
  ASSUME TabsInvariant, NEW t \in Tab, NEW outcome \in {"network", "unauthorized"}, SettledTab(t, outcome), UNCHANGED <<live, expired>>,
         cookie' = cookie \/ cookie' # 0, \A k \in Tabs!Slot : sent'[k] \in {sent[k], Tabs!NotSent},
         ~ broken /\ ~ crossed =>
           /\ at'[t] = "retry" => shared # 0
           /\ outcome = "unauthorized" => initial[t] = 0
           /\ \A u \in Tab : /\ "success" \in mail'[u] => "success" \in mail[u]
                             /\ "unauthorized" \in mail'[u] => initial[u] = 0,
         broken => broken'
  PROVE  CauseNeeded'
<1> SUFFICES ASSUME ~ broken', ~ crossed' PROVE Undisturbed'
  BY DEF CauseNeeded
<1>1. ~ broken /\ ~ crossed /\ Undisturbed
  BY DEF CauseNeeded, TabsInvariant, SettledTab
<1>2. 0 \notin expired
  BY LocalTypes
<1>3. /\ initial'[t] \in {0, initial[t]} /\ own'[t] \in {0, shared, own[t]} /\ shared' \in {0, shared}
      /\ \A u \in Tab : u # t => initial'[u] = initial[u] /\ own'[u] = own[u] /\ at'[u] = at[u] /\ why'[u] = why[u]
      /\ outcome = "network" => shared' = shared
      /\ outcome = "unauthorized" => shared' = shared \/ shared = 0
      /\ signedOut' = signedOut
  BY <1>1 DEF SettledTab
<1>4. Blank => Blank'
  BY <1>1, <1>3 DEF Blank
<1>5. NothingExpired => NothingExpired'
  BY <1>1, <1>2, <1>3 DEF NothingExpired
<1>6. \A u \in Tab : /\ "unauthorized" \in mail'[u] => initial'[u] = 0
                     /\ "success" \in mail'[u] => shared' # 0
  BY <1>1, <1>3 DEF Undisturbed
<1>7. \A u \in Tab : at'[u] = "retry" /\ why'[u] = "identity" => ~ Tabs!Refused(own[u])'
  <2>1. ASSUME at'[t] = "retry" PROVE ~ Tabs!Refused(own[t])'
    <3>1. own'[t] = shared /\ shared # 0 /\ shared \notin expired'
      BY <1>1, <2>1 DEF SettledTab
    <3>2. QED
      BY <3>1 DEF Tabs!Refused, expired
  <2>2. ASSUME NEW u \in Tab, u # t, at'[u] = "retry", why'[u] = "identity" PROVE ~ Tabs!Refused(own[u])'
    <3>1. ~ Tabs!Refused(own[u])
      BY <1>1, <1>3, <2>2 DEF Undisturbed
    <3>2. QED
      BY <1>3, <2>2, <3>1 DEF Tabs!Refused, expired
  <2>3. QED
    BY <2>1, <2>2
<1>8. \A k \in Tabs!Slot : SlotUndisturbed(k)'
  BY <1>1, <1>5 DEF Undisturbed, SlotUndisturbed, Tabs!NotSent
<1>9. QED
  BY <1>1, <1>3, <1>4, <1>6, <1>7, <1>8 DEF Undisturbed

\* The locks stay with the tabs that refresh.
LEMMA LocksStay ==
  ASSUME TabsInvariant, UNCHANGED <<hasLocks, holder, lease, faults>>, crossed => crossed',
         \A u \in Tab : (at'[u] = "refresh" <=> at[u] = "refresh") /\ (at'[u] = "lease" => at[u] = "lease")
  PROVE  LocksHeld'
<1>1. holder \in Tab \cup {NoTab} /\ lease \in Tab \cup {NoTab}
  BY DEF TabsInvariant, Tabs!TypeOK, holder, lease
<1>2. /\ holder # NoTab => at'[holder] = "refresh"
      /\ lease # NoTab => at'[lease] = "refresh" \/ faults > 0
  BY <1>1 DEF TabsInvariant, LocksHeld
<1>3. hasLocks => \A t \in Tab : at'[t] # "lease" /\ (at'[t] = "refresh" => holder = t)
  BY DEF TabsInvariant, LocksHeld
<1>4. ~ hasLocks /\ ~ crossed' =>
        \A t \in Tab : at'[t] = "refresh" => lease = t /\ \A u \in Tab : at'[u] # "lease"
  BY DEF TabsInvariant, LocksHeld
<1>5. QED
  BY <1>2, <1>3, <1>4 DEF LocksHeld

\* A tab that hears how another tab's refresh ended, or no longer waits for it.
LEMMA HeardKept ==
  ASSUME TabsInvariant, NEW t \in Tab, Tabs!Hear(t) \/ Tabs!WaitTimeout(t)
  PROVE  TabsInvariant'
<1> USE DEF live, expired, issued, ghost, cookie, shared, own, hasLocks, holder, lease, at, initial, why, mail, act, sent,
            faults, broken, signedOut, crossed, over
<1>1. /\ at[t] = "waiting" /\ UNCHANGED <<live, expired, issued, ghost, cookie, hasLocks, holder, lease, sent, faults, broken, over>>
  BY DEF Tabs!Hear, Tabs!WaitTimeout, Tabs!server, Tabs!locking
<1>2. /\ LocalsTyped /\ Tabs!TypeOK /\ mail \in [Tab -> SUBSET {"success", "unauthorized", "network", "token"}]
  BY LocalTypes
<1>3. NetworkFits'
  BY <1>1, NetworkRests
<1>4. ASSUME NEW outcome \in {"network", "unauthorized"}, SettledTab(t, outcome), mail' = [mail EXCEPT ![t] = {}],
             ~ broken /\ ~ crossed => (at'[t] = "retry" => shared # 0) /\ (outcome = "unauthorized" => initial[t] = 0)
      PROVE  TabsFit'
  <2>1. Tabs!TypeOK'
    <3>1. LocalsTyped' /\ crossed' \in BOOLEAN
      BY <1>4 DEF SettledTab
    <3>2. mail' \in [Tab -> SUBSET {"success", "unauthorized", "network", "token"}]
      BY <1>2, <1>4
    <3>3. QED
      BY <1>1, <1>2, <3>1, <3>2 DEF Tabs!TypeOK, LocalsTyped
  <2>2. RequestsFit'
    BY <1>1, <1>4 DEF TabsInvariant, RequestsFit, SettledTab
  <2>3. LocalsFit'
    BY <1>2, <1>4 DEF TabsInvariant, LocalsFit, SettledTab
  <2>4. LocksHeld'
    BY <1>1, <1>4, LocksStay DEF SettledTab
  <2>5. RefreshesAlone'
    BY <1>1, <1>4 DEF TabsInvariant, RefreshesAlone, SettledTab
  <2>6. CauseNeeded'
    <3>1. ~ broken /\ ~ crossed => \A u \in Tab : "unauthorized" \in mail[u] => initial[u] = 0
      BY DEF TabsInvariant, CauseNeeded, Undisturbed
    <3>2. \A u \in Tab : mail'[u] \subseteq mail[u]
      BY <1>2, <1>4
    <3>3. ~ broken /\ ~ crossed => \A u \in Tab : /\ "success" \in mail'[u] => "success" \in mail[u]
                                                  /\ "unauthorized" \in mail'[u] => initial[u] = 0
      BY <3>1, <3>2
    <3>4. QED
      BY <1>1, <1>4, <3>3, SettledCause
  <2>7. QED
    BY <2>1, <2>2, <2>3, <2>4, <2>5, <2>6 DEF TabsFit
<1>5. CASE Tabs!WaitTimeout(t)
  <2>1. Tabs!Settle(t, "network") /\ mail' = [mail EXCEPT ![t] = {}]
    BY <1>5 DEF Tabs!WaitTimeout
  <2>2. QED
    BY <1>3, <1>4, <2>1, Settling, BothFit
<1>6. CASE Tabs!Hear(t)
  <2>1. PICK m \in mail[t] :
          IF m = "token" /\ shared = 0
            THEN mail' = [mail EXCEPT ![t] = @ \ {m}] /\ UNCHANGED <<at, initial, why, own, shared, act, signedOut, crossed>>
            ELSE /\ mail' = [mail EXCEPT ![t] = {}]
                 /\ IF m \in {"success", "token"} THEN Tabs!Adopt(t) ELSE Tabs!Settle(t, m)
    BY <1>6 DEF Tabs!Hear
  <2>2. m \in {"success", "unauthorized", "network", "token"}
    BY <1>2, <2>1
  <2>3. CASE m = "token" /\ shared = 0
    <3>1. mail' = [mail EXCEPT ![t] = @ \ {m}] /\ UNCHANGED <<at, initial, why, own, shared, act, signedOut, crossed>>
      BY <2>1, <2>3
    <3>2. mail' \in [Tab -> SUBSET {"success", "unauthorized", "network", "token"}] /\ \A u \in Tab : mail'[u] \subseteq mail[u]
      BY <1>2, <3>1
    <3>3. Tabs!TypeOK'
      BY <1>1, <1>2, <3>1, <3>2 DEF Tabs!TypeOK
    <3>4. RequestsFit' /\ LocksHeld' /\ RefreshesAlone'
      BY <1>1, <3>1 DEF TabsInvariant, RequestsFit, LocksHeld, RefreshesAlone
    <3>5. LocalsFit'
      BY <3>1, <3>2 DEF TabsInvariant, LocalsFit
    <3>6. CauseNeeded'
      BY <1>1, <3>1, <3>2 DEF TabsInvariant, CauseNeeded, Undisturbed, SlotUndisturbed, Blank, NothingExpired, Tabs!Refused
    <3>7. QED
      BY <1>3, <3>3, <3>4, <3>5, <3>6, BothFit DEF TabsFit
  <2>4. CASE m \in {"success", "token"} /\ ~ (m = "token" /\ shared = 0)
    <3>1. Tabs!Adopt(t) /\ mail' = [mail EXCEPT ![t] = {}]
      BY <2>1, <2>4
    <3>2. SettledTab(t, "network")
      BY <3>1, Adopting
    <3>3. ~ broken /\ ~ crossed => shared # 0
      BY <2>1, <2>4 DEF TabsInvariant, CauseNeeded, Undisturbed
    <3>4. QED
      BY <1>3, <1>4, <3>1, <3>2, <3>3, BothFit
  <2>5. CASE m \in {"network", "unauthorized"}
    <3>1. Tabs!Settle(t, m) /\ mail' = [mail EXCEPT ![t] = {}]
      BY <2>1, <2>5
    <3>2. SettledTab(t, m) /\ (at'[t] = "retry" => shared # 0)
      BY <2>5, <3>1, Settling
    <3>3. ~ broken /\ ~ crossed => (m = "unauthorized" => initial[t] = 0)
      BY <2>1 DEF TabsInvariant, CauseNeeded, Undisturbed
    <3>4. QED
      BY <1>3, <1>4, <2>5, <3>1, <3>2, <3>3, BothFit
  <2>6. QED
    BY <2>2, <2>3, <2>4, <2>5
<1>7. QED
  BY <1>5, <1>6

\* A tab begins to wait, unless another token has been stored since it was refused.
LEMMA StartWaitKept ==
  ASSUME TabsInvariant, NEW t \in Tab, Tabs!StartWait(t)
  PROVE  TabsInvariant'
<1> USE DEF live, expired, issued, ghost, cookie, shared, own, hasLocks, holder, lease, at, initial, why, mail, act, sent,
            faults, broken, signedOut, crossed, over
<1>1. /\ at[t] = "missed"
      /\ UNCHANGED <<live, expired, issued, ghost, cookie, shared, hasLocks, holder, lease, initial, why, mail, act, sent, faults, broken, signedOut, over>>
  BY DEF Tabs!StartWait, Tabs!server, Tabs!locking
<1>2. /\ LocalsTyped /\ Tabs!TypeOK /\ mail \in [Tab -> SUBSET {"success", "unauthorized", "network", "token"}] /\ crossed \in BOOLEAN
  BY LocalTypes
<1>3. NetworkFits'
  BY <1>1, NetworkRests
<1>4. \/ /\ shared # 0 /\ own' = [own EXCEPT ![t] = shared] /\ at' = [at EXCEPT ![t] = "retry"]
         /\ crossed' = (crossed \/ shared \in expired)
      \/ at' = [at EXCEPT ![t] = "waiting"] /\ UNCHANGED <<own, crossed>>
  BY DEF Tabs!StartWait
<1>5. /\ crossed' \in BOOLEAN /\ (crossed => crossed') /\ own'[t] \in {own[t], shared}
      /\ at'[t] = "retry" => own'[t] = shared /\ shared # 0 /\ (shared \in expired => crossed')
  <2>1. CASE crossed' = crossed
    BY <1>2, <1>4, <2>1 DEF LocalsTyped
  <2>2. CASE crossed' = (crossed \/ shared \in expired)
    <3>1. crossed' \in BOOLEAN /\ (crossed' <=> (crossed \/ shared \in expired))
      BY <2>2, Zenon
    <3>2. QED
      BY <1>2, <1>4, <3>1 DEF LocalsTyped
  <2>3. QED
    BY <1>4, <2>1, <2>2
<1>6. /\ at' \in [Tab -> {"idle", "lease", "refresh", "missed", "waiting", "retry"}] /\ own' \in [Tab -> Tabs!Stored]
      /\ at'[t] \in {"retry", "waiting"} /\ \A u \in Tab : u # t => at'[u] = at[u] /\ own'[u] = own[u]
  BY <1>2, <1>4 DEF LocalsTyped
<1>7. Tabs!TypeOK'
  BY <1>1, <1>2, <1>5, <1>6 DEF Tabs!TypeOK
<1>8. RequestsFit' /\ LocksHeld' /\ RefreshesAlone'
  <2>1. \A u \in Tab : (at'[u] = "refresh" <=> at[u] = "refresh") /\ (at'[u] = "lease" => at[u] = "lease")
    BY <1>1, <1>6
  <2>2. LocksHeld'
    BY <1>1, <1>5, <2>1, LocksStay
  <2>3. RequestsFit' /\ RefreshesAlone'
    BY <1>1, <1>5, <2>1 DEF TabsInvariant, RequestsFit, RefreshesAlone
  <2>4. QED
    BY <2>2, <2>3
<1>9. LocalsFit'
  BY <1>1, <1>6 DEF TabsInvariant, LocalsFit
<1>10. CauseNeeded'
  <2> SUFFICES ASSUME ~ broken, ~ crossed' PROVE Undisturbed'
    BY <1>1 DEF CauseNeeded
  <2>1. Undisturbed /\ (Blank => Blank') /\ (NothingExpired => NothingExpired')
    BY <1>1, <1>5, <1>6 DEF TabsInvariant, CauseNeeded, Blank, NothingExpired
  <2>2. \A u \in Tab : at'[u] = "retry" /\ why'[u] = "identity" => ~ Tabs!Refused(own[u])'
    BY <1>1, <1>5, <1>6, <2>1 DEF Undisturbed, Tabs!Refused
  <2>3. QED
    BY <1>1, <2>1, <2>2 DEF Undisturbed, SlotUndisturbed
<1>11. QED
  BY <1>3, <1>7, <1>8, <1>9, <1>10, BothFit DEF TabsFit

\* A tab that uses its access token copies it over the shared one: that clears and spoils nothing.
LEMMA Showing ==
  ASSUME TabsInvariant, NEW t \in Tab, shared' = Tabs!Access(t), Heard(t, {}), UNCHANGED <<expired, own>>,
         \A u \in Tab : initial'[u] \in {0, initial[u]} \/ (initial'[u] = Tabs!Access(t) /\ Tabs!Refused(Tabs!Access(t)))
  PROVE  /\ Blank => Blank'
         /\ NothingExpired => NothingExpired'
         /\ shared' \in Tabs!Stored /\ (shared' = 0 => shared = 0)
         /\ Tabs!Access(t) \in {own[t], shared}
<1>1. own[t] \in Tabs!Stored /\ shared \in Tabs!Stored /\ 0 \notin expired
  BY LocalTypes DEF LocalsTyped
<1>2. Tabs!Access(t) = IF own[t] # 0 THEN own[t] ELSE shared
  BY DEF Tabs!Access, own, shared
<1>3. \A u \in Tab : "success" \in mail'[u] => "success" \in mail[u]
  BY DEF Heard
<1>4. Blank => Blank'
  BY <1>2, <1>3 DEF Blank
<1>5. ASSUME NothingExpired PROVE NothingExpired'
  <2>1. Tabs!Access(t) \notin expired
    BY <1>2, <1>5 DEF NothingExpired
  <2>2. \A u \in Tab : initial'[u] = 0
    BY <1>5, <2>1 DEF NothingExpired, Tabs!Refused, expired
  <2>3. QED
    BY <1>3, <1>5, <2>1, <2>2 DEF NothingExpired
<1>6. QED
  BY <1>1, <1>2, <1>4, <1>5

\* A request whose access token is good.
LEMMA TouchKept ==
  ASSUME TabsInvariant, NEW t \in Tab, Tabs!Touch(t)
  PROVE  TabsInvariant'
<1> USE DEF live, expired, issued, ghost, cookie, shared, own, hasLocks, holder, lease, at, initial, why, mail, act, sent,
            faults, broken, signedOut, crossed, over
<1>1. /\ own[t] # 0 /\ ~ Tabs!Refused(own[t]) /\ shared' = own[t] /\ Tabs!Tell(t, own[t], {})
      /\ UNCHANGED <<live, expired, issued, ghost, cookie, own, hasLocks, holder, lease, at, initial, why, act, sent, faults, broken, signedOut, crossed, over>>
  BY DEF Tabs!Touch, Tabs!server, Tabs!locking, Tabs!history
<1>2. Tabs!TypeOK /\ Heard(t, {})
  BY <1>1, LocalTypes, Telling
<1>3. NetworkFits'
  BY <1>1, NetworkRests
<1>4. shared' = Tabs!Access(t)
  BY <1>1 DEF Tabs!Access
<1>5. /\ Blank => Blank'
      /\ NothingExpired => NothingExpired'
      /\ shared' \in Tabs!Stored /\ (shared' = 0 => shared = 0)
  BY <1>1, <1>2, <1>4, Showing
<1>6. Tabs!TypeOK'
  BY <1>1, <1>2, <1>5 DEF Tabs!TypeOK, Heard
<1>7. RequestsFit' /\ LocksHeld' /\ RefreshesAlone'
  BY <1>1 DEF TabsInvariant, RequestsFit, LocksHeld, RefreshesAlone
<1>8. LocalsFit'
  BY <1>1, <1>2 DEF TabsInvariant, LocalsFit, Heard
<1>9. CauseNeeded'
  <2> SUFFICES ASSUME Undisturbed PROVE Undisturbed'
    BY <1>1 DEF TabsInvariant, CauseNeeded
  <2>1. \A u \in Tab : mail'[u] \subseteq mail[u] \cup {"token"}
    BY <1>2 DEF Heard
  <2>2. QED
    BY <1>1, <1>5, <2>1 DEF Undisturbed, SlotUndisturbed, Tabs!Refused
<1>10. QED
  BY <1>3, <1>6, <1>7, <1>8, <1>9, BothFit DEF TabsFit

\* A refresh that leaves while no other is on its way has no cookie, or one that is accepted.
LEMMA LeavesAlone ==
  ASSUME TabsInvariant, NEW k \in Tabs!Slot, Leaves(k, "refresh"), UNCHANGED <<live, cookie>>, ~ broken, ~ crossed, 0 \notin expired',
         \A j \in Tabs!Slot : sent[j].kind # "refresh", Blank => Blank'
  PROVE  \A j \in Tabs!Slot : SlotUndisturbed(j)'
<1>1. Undisturbed
  BY DEF TabsInvariant, CauseNeeded
<1>2. cookie = 0 \/ cookie \in live
  BY <1>1 DEF TabsInvariant, CookieFollowed, Replaces, Undisturbed, SlotUndisturbed
<1>3. cookie = 0 => NothingExpired'
  BY <1>1 DEF Undisturbed, Blank, NothingExpired
<1>4. SlotUndisturbed(k)'
  BY <1>2, <1>3 DEF SlotUndisturbed, Leaves
<1>5. \A j \in Tabs!Slot : j # k => SlotUndisturbed(j)'
  BY <1>1 DEF Undisturbed, SlotUndisturbed, Leaves
<1>6. QED
  BY <1>4, <1>5

\* Who refreshes has a request in a slot, and only refreshes and bootstraps are refreshes.
LEMMA Refreshes ==
  ASSUME TabsInvariant
  PROVE  /\ \A k \in Tabs!Slot : sent[k].kind = "refresh" =>
              \E u \in Tab : (k = RefreshOf(u) /\ at[u] = "refresh") \/ (k = ActOf(u) /\ act[u] = "bootstrap")
         /\ \A u \in Tab : sent[RefreshOf(u)].kind = "refresh" <=> at[u] = "refresh"
         /\ \A u \in Tab : at[u] # "refresh" <=> sent[RefreshOf(u)].kind = "none"
         /\ \A u \in Tab : act[u] = "idle" => sent[ActOf(u)].kind = "none"
         /\ \A u \in Tab : RefreshOf(u) \in Tabs!Slot /\ ActOf(u) \in Tabs!Slot
<1>1. \A u \in Tab : sent[ActOf(u)].kind \in {"none", "refresh", "login", "logout"}
  BY Requested, TwoSlots
<1>2. QED
  BY <1>1, TwoSlots DEF TabsInvariant, RequestsFit

\* Outside the lock refreshes may meet: then they are marked.
LEMMA Crossing ==
  ASSUME TabsInvariant, Tabs!Crosses(Tab \X {"act"})
  PROVE  /\ crossed' \in BOOLEAN /\ (crossed => crossed')
         /\ ~ crossed' => \A u \in Tab : sent[ActOf(u)].kind # "refresh"
<1>1. crossed' = (crossed \/ \E k \in Tab \X {"act"} : sent[k].kind = "refresh")
  BY DEF Tabs!Crosses, crossed, sent
<1>2. crossed' \in BOOLEAN /\ (crossed' <=> crossed \/ \E k \in Tab \X {"act"} : sent[k].kind = "refresh")
  BY <1>1, Zenon
<1>3. \A u \in Tab : ActOf(u) \in Tab \X {"act"}
  BY DEF ActOf
<1>4. QED
  BY <1>2, <1>3

\* A tab whose access token is refused refreshes under the lock, or sees whether the lease is free.
LEMMA CoordinateKept ==
  ASSUME TabsInvariant, NEW t \in Tab, NEW purpose \in {"page", "identity", "logout"}, Tabs!Coordinate(t, purpose)
  PROVE  TabsInvariant'
<1> USE DEF live, expired, issued, ghost, cookie, shared, own, hasLocks, holder, lease, at, initial, why, mail, act, sent,
            faults, broken, signedOut, crossed, over
<1>1. /\ at[t] = "idle" /\ Tabs!Refused(Tabs!Access(t)) /\ Tabs!Room
      /\ why' = [why EXCEPT ![t] = purpose] /\ initial' = [initial EXCEPT ![t] = Tabs!Access(t)]
      /\ shared' = Tabs!Access(t) /\ Tabs!Tell(t, Tabs!Access(t), {})
      /\ purpose = "logout" => act[t] = "idle" /\ act' = [act EXCEPT ![t] = "logout"]
      /\ purpose # "logout" => act' = act
      /\ purpose = "identity" => Tabs!Access(t) # 0
      /\ UNCHANGED <<live, expired, issued, ghost, cookie, own, hasLocks, lease, faults, broken, signedOut, over>>
  BY DEF Tabs!Coordinate, Tabs!server
<1>2. /\ Tabs!TypeOK /\ Heard(t, {}) /\ LocalsTyped /\ 0 \notin expired /\ NoTab \notin Tab /\ crossed \in BOOLEAN
      /\ sent \in [Tabs!Slot -> Tabs!Request]
  BY <1>1, LocalTypes, Telling, BrowserAssumption DEF Tabs!TabsAssumption
<1>3. /\ initial'[t] = Tabs!Access(t) /\ why'[t] = purpose
      /\ \A u \in Tab : u # t => initial'[u] = initial[u] /\ why'[u] = why[u] /\ act'[u] = act[u]
      /\ act'[t] = IF purpose = "logout" THEN "logout" ELSE act[t]
  BY <1>1, <1>2 DEF LocalsTyped
<1>4. /\ Blank => Blank'
      /\ NothingExpired => NothingExpired'
      /\ shared' \in Tabs!Stored /\ (shared' = 0 => shared = 0)
      /\ Tabs!Access(t) \in {own[t], shared} /\ Tabs!Access(t) \in Tabs!Stored
  BY <1>1, <1>2, <1>3, Showing DEF LocalsTyped
<1>5. /\ initial' \in [Tab -> Tabs!Stored] /\ why' \in [Tab -> {"page", "identity", "logout"}]
      /\ act' \in [Tab -> {"idle", "bootstrap", "login", "logout"}]
      /\ mail' \in [Tab -> SUBSET {"success", "unauthorized", "network", "token"}]
  BY <1>1, <1>2, <1>4 DEF LocalsTyped, Heard
<1>6. mail[t] = {} /\ mail'[t] = {} /\ \A u \in Tab : mail'[u] \subseteq mail[u] \cup {"token"} /\ (mail'[u] # mail[u] => at[u] = "waiting")
  BY <1>1, <1>2 DEF TabsInvariant, LocalsFit, Heard
<1>7. sent[RefreshOf(t)].kind = "none" /\ RefreshOf(t) \in Tabs!Slot /\ (purpose = "logout" => sent[ActOf(t)].kind = "none")
  BY <1>1, Refreshes
<1>8. \/ /\ hasLocks /\ holder = NoTab /\ holder' = t /\ at' = [at EXCEPT ![t] = "refresh"]
         /\ Tabs!Send(RefreshOf(t), "refresh") /\ Tabs!Crosses(Tab \X {"act"})
      \/ /\ at' = [at EXCEPT ![t] = "lease"] /\ ~ hasLocks /\ lease = NoTab /\ UNCHANGED <<holder, sent, crossed>>
      \/ /\ at' = [at EXCEPT ![t] = "missed"] /\ UNCHANGED <<holder, sent, crossed>>
  BY DEF Tabs!Coordinate, RefreshOf, Tabs!LockAvailable
<1>9. /\ at' \in [Tab -> {"idle", "lease", "refresh", "missed", "waiting", "retry"}]
      /\ at'[t] \in {"refresh", "lease", "missed"} /\ \A u \in Tab : u # t => at'[u] = at[u]
  BY <1>2, <1>8 DEF LocalsTyped
<1>10. LocalsFit'
  BY <1>1, <1>3, <1>6, <1>9 DEF TabsInvariant, LocalsFit
<1>11. ASSUME \A k \in Tabs!Slot : SlotUndisturbed(k)', ~ broken, ~ crossed PROVE Undisturbed'
  <2>1. Undisturbed
    BY <1>11 DEF TabsInvariant, CauseNeeded
  <2>2. \A u \in Tab : /\ "unauthorized" \in mail'[u] => initial'[u] = 0
                       /\ "success" \in mail'[u] => shared' # 0
    BY <1>3, <1>4, <1>6, <2>1 DEF Undisturbed
  <2>3. \A u \in Tab : at'[u] = "retry" /\ why'[u] = "identity" => ~ Tabs!Refused(own[u])'
    BY <1>1, <1>3, <1>9, <2>1 DEF Undisturbed, Tabs!Refused
  <2>4. QED
    BY <1>1, <1>4, <1>11, <2>1, <2>2, <2>3 DEF Undisturbed
<1>12. CASE /\ hasLocks /\ holder = NoTab /\ holder' = t /\ at' = [at EXCEPT ![t] = "refresh"]
            /\ Tabs!Send(RefreshOf(t), "refresh") /\ Tabs!Crosses(Tab \X {"act"})
  <2>1. Leaves(RefreshOf(t), "refresh")
    BY <1>7, <1>12, Sending
  <2>2. NetworkFits'
    BY <1>1, <1>7, <2>1, LeavesFit
  <2>3. crossed' \in BOOLEAN /\ (crossed => crossed') /\ (~ crossed' => \A u \in Tab : sent[ActOf(u)].kind # "refresh")
    BY <1>12, Crossing
  <2>4. \A u \in Tab : at[u] # "refresh"
    BY <1>2, <1>12 DEF TabsInvariant, LocksHeld
  <2>5. ~ crossed' => \A k \in Tabs!Slot : sent[k].kind # "refresh"
    BY <2>3, <2>4, Refreshes
  <2>6. Tabs!TypeOK'
    BY <1>1, <1>2, <1>4, <1>5, <1>9, <1>12, <2>1, <2>3 DEF Tabs!TypeOK, Leaves
  <2>7. RequestsFit'
    <3>1. at'[t] = "refresh" /\ sent'[RefreshOf(t)].kind = "refresh" /\ \A u \in Tab : sent'[ActOf(u)] = sent[ActOf(u)]
      BY <1>2, <1>12, <2>1, TwoSlots DEF Leaves, LocalsTyped
    <3>2. \A u \in Tab : u # t => sent'[RefreshOf(u)] = sent[RefreshOf(u)]
      BY <2>1, TwoSlots DEF Leaves
    <3>3. QED
      BY <1>1, <1>3, <1>7, <1>9, <3>1, <3>2 DEF TabsInvariant, RequestsFit
  <2>8. LocksHeld'
    <3>1. at'[t] = "refresh" /\ \A u \in Tab : u # t => at'[u] # "refresh"
      BY <1>2, <1>9, <1>12, <2>4 DEF LocalsTyped
    <3>2. lease \in Tab \cup {NoTab}
      BY <1>2 DEF Tabs!TypeOK
    <3>3. lease # NoTab => faults > 0
      BY <2>4, <3>2 DEF TabsInvariant, LocksHeld
    <3>4. \A u \in Tab : at'[u] # "lease"
      BY <1>9, <1>12, <3>1 DEF TabsInvariant, LocksHeld
    <3>5. QED
      BY <1>1, <1>12, <3>1, <3>3, <3>4 DEF LocksHeld
  <2>9. RefreshesAlone'
    BY <2>1, <2>5 DEF RefreshesAlone, Leaves
  <2>10. CauseNeeded'
    BY <1>1, <1>2, <1>4, <1>7, <1>11, <2>1, <2>3, <2>5, LeavesAlone DEF CauseNeeded
  <2>11. QED
    BY <1>10, <2>2, <2>6, <2>7, <2>8, <2>9, <2>10, BothFit DEF TabsFit
<1>13. CASE /\ (at' = [at EXCEPT ![t] = "lease"] /\ ~ hasLocks /\ lease = NoTab) \/ at' = [at EXCEPT ![t] = "missed"]
            /\ UNCHANGED <<holder, sent, crossed>>
  <2>1. NetworkFits'
    BY <1>1, <1>13, NetworkRests
  <2>2. Tabs!TypeOK'
    BY <1>1, <1>2, <1>4, <1>5, <1>9, <1>13 DEF Tabs!TypeOK
  <2>3. \A u \in Tab : at'[u] = "refresh" <=> at[u] = "refresh"
    BY <1>1, <1>2, <1>9, <1>13 DEF LocalsTyped
  <2>4. RequestsFit'
    BY <1>1, <1>3, <1>7, <1>9, <1>13, <2>3 DEF TabsInvariant, RequestsFit
  <2>5. LocksHeld'
    <3>1. CASE at' = [at EXCEPT ![t] = "missed"]
      <4>1. \A u \in Tab : at'[u] = "lease" => at[u] = "lease"
        BY <1>2, <1>9, <3>1 DEF LocalsTyped
      <4>2. QED
        BY <1>1, <1>13, <2>3, <4>1, LocksStay
    <3>2. CASE ~ hasLocks /\ lease = NoTab
      <4>1. holder \in Tab \cup {NoTab}
        BY <1>2 DEF Tabs!TypeOK
      <4>2. holder # NoTab => at'[holder] = "refresh"
        BY <2>3, <4>1 DEF TabsInvariant, LocksHeld
      <4>3. ~ crossed => \A u \in Tab : at'[u] # "refresh"
        BY <1>2, <2>3, <3>2 DEF TabsInvariant, LocksHeld
      <4>4. QED
        BY <1>1, <1>13, <3>2, <4>2, <4>3 DEF LocksHeld
    <3>3. QED
      BY <1>13, <3>1, <3>2
  <2>6. RefreshesAlone'
    BY <1>13 DEF TabsInvariant, RefreshesAlone
  <2>7. CauseNeeded'
    <3> SUFFICES ASSUME ~ broken, ~ crossed PROVE Undisturbed'
      BY <1>1, <1>13 DEF CauseNeeded
    <3>1. Undisturbed
      BY DEF TabsInvariant, CauseNeeded
    <3>2. \A k \in Tabs!Slot : SlotUndisturbed(k)'
      BY <1>1, <1>4, <1>13, <3>1 DEF Undisturbed, SlotUndisturbed
    <3>3. QED
      BY <1>11, <3>2
  <2>8. QED
    BY <1>10, <2>1, <2>2, <2>4, <2>5, <2>6, <2>7, BothFit DEF TabsFit
<1>14. QED
  BY <1>8, <1>12, <1>13

\* A tab that saw the lease free takes it, as may another.
LEMMA TakeLeaseKept ==
  ASSUME TabsInvariant, NEW t \in Tab, Tabs!TakeLease(t)
  PROVE  TabsInvariant'
<1> USE DEF live, expired, issued, ghost, cookie, shared, own, hasLocks, holder, lease, at, initial, why, mail, act, sent,
            faults, broken, signedOut, crossed, over
<1>1. /\ at[t] = "lease" /\ Tabs!Room /\ lease' = t /\ at' = [at EXCEPT ![t] = "refresh"] /\ Tabs!Send(RefreshOf(t), "refresh")
      /\ IF \E u \in Tab \ {t} : at[u] = "lease" THEN crossed' = TRUE ELSE Tabs!Crosses(Tab \X {"act"})
      /\ UNCHANGED <<live, expired, issued, ghost, cookie, shared, own, hasLocks, holder, initial, why, mail, act, faults, broken, signedOut, over>>
  BY DEF Tabs!TakeLease, Tabs!server, RefreshOf
<1>2. Tabs!TypeOK /\ LocalsTyped /\ 0 \notin expired
  BY LocalTypes
<1>3. sent[RefreshOf(t)].kind = "none" /\ RefreshOf(t) \in Tabs!Slot
  BY <1>1, Refreshes
<1>4. Leaves(RefreshOf(t), "refresh")
  BY <1>1, <1>3, Sending
<1>5. NetworkFits'
  BY <1>1, <1>3, <1>4, LeavesFit
<1>6. /\ crossed' \in BOOLEAN /\ (crossed => crossed')
      /\ ~ crossed' => (\A u \in Tab : sent[ActOf(u)].kind # "refresh") /\ \A u \in Tab \ {t} : at[u] # "lease"
  <2>1. CASE \E u \in Tab \ {t} : at[u] = "lease"
    <3>1. crossed' = TRUE
      BY <1>1, <2>1
    <3>2. crossed' \in BOOLEAN /\ crossed'
      BY <3>1
    <3>3. QED
      BY <3>2
  <2>2. CASE ~ \E u \in Tab \ {t} : at[u] = "lease"
    BY <1>1, <2>2, Crossing
  <2>3. QED
    BY <2>1, <2>2
<1>7. /\ at' \in [Tab -> {"idle", "lease", "refresh", "missed", "waiting", "retry"}]
      /\ at'[t] = "refresh" /\ \A u \in Tab : u # t => at'[u] = at[u]
  BY <1>1, <1>2 DEF LocalsTyped
<1>8. ~ hasLocks /\ (~ crossed => \A u \in Tab : at[u] # "refresh")
  BY <1>1 DEF TabsInvariant, LocksHeld
<1>9. ~ crossed' => \A k \in Tabs!Slot : sent[k].kind # "refresh"
  BY <1>6, <1>8, Refreshes
<1>10. Tabs!TypeOK'
  BY <1>1, <1>2, <1>4, <1>6, <1>7 DEF Tabs!TypeOK, Leaves
<1>11. RequestsFit'
  <2>1. sent'[RefreshOf(t)].kind = "refresh" /\ \A u \in Tab : sent'[ActOf(u)] = sent[ActOf(u)]
    BY <1>4, TwoSlots DEF Leaves
  <2>2. \A u \in Tab : u # t => sent'[RefreshOf(u)] = sent[RefreshOf(u)]
    BY <1>4, TwoSlots DEF Leaves
  <2>3. QED
    BY <1>1, <1>7, <2>1, <2>2 DEF TabsInvariant, RequestsFit
<1>12. LocalsFit'
  BY <1>1, <1>7 DEF TabsInvariant, LocalsFit
<1>13. LocksHeld'
  <2>1. holder \in Tab \cup {NoTab}
    BY <1>2 DEF Tabs!TypeOK
  <2>2. holder # NoTab => at'[holder] = "refresh"
    BY <1>1, <1>7, <2>1 DEF TabsInvariant, LocksHeld
  <2>3. ~ crossed' => \A u \in Tab : (at'[u] = "refresh" => u = t) /\ at'[u] # "lease"
    BY <1>6, <1>7, <1>8
  <2>4. QED
    BY <1>1, <1>7, <1>8, <2>2, <2>3 DEF LocksHeld
<1>14. RefreshesAlone'
  BY <1>4, <1>9 DEF RefreshesAlone, Leaves
<1>15. CauseNeeded'
  <2> SUFFICES ASSUME ~ broken, ~ crossed' PROVE Undisturbed'
    BY <1>1 DEF CauseNeeded
  <2>1. Undisturbed /\ (Blank => Blank')
    BY <1>1, <1>6 DEF TabsInvariant, CauseNeeded, Blank
  <2>2. \A k \in Tabs!Slot : SlotUndisturbed(k)'
    BY <1>1, <1>2, <1>3, <1>4, <1>6, <1>9, <2>1, LeavesAlone
  <2>3. \A u \in Tab : at'[u] = "retry" /\ why'[u] = "identity" => ~ Tabs!Refused(own[u])'
    BY <1>1, <1>7, <2>1 DEF Undisturbed, Tabs!Refused
  <2>4. QED
    BY <1>1, <2>1, <2>2, <2>3 DEF Undisturbed
<1>16. QED
  BY <1>5, <1>10, <1>11, <1>12, <1>13, <1>14, <1>15, BothFit DEF TabsFit

\* After its refresh a tab repeats its request, or sends its logout.
LEMMA RetryKept ==
  ASSUME TabsInvariant, NEW t \in Tab, Tabs!Retry(t)
  PROVE  TabsInvariant'
<1> USE DEF live, expired, issued, ghost, cookie, shared, own, hasLocks, holder, lease, at, initial, why, mail, act, sent,
            faults, broken, signedOut, crossed, over
<1> DEFINE refused == Tabs!Refused(Tabs!Access(t))
<1>1. /\ at[t] = "retry" /\ at' = [at EXCEPT ![t] = "idle"] /\ initial' = [initial EXCEPT ![t] = 0] /\ why' = [why EXCEPT ![t] = "page"]
      /\ refused /\ why[t] # "page" => own' = [own EXCEPT ![t] = 0] /\ shared' = 0 /\ mail' = mail
      /\ ~ (refused /\ why[t] # "page") => shared' = Tabs!Access(t) /\ Tabs!Tell(t, Tabs!Access(t), {}) /\ own' = own
      /\ signedOut' = IF refused /\ why[t] = "identity" THEN signedOut \cup {t} ELSE signedOut
      /\ UNCHANGED <<live, expired, issued, ghost, cookie, hasLocks, holder, lease, faults, broken, over>>
  BY DEF Tabs!Retry, Tabs!Return, Tabs!clearAuthStorage, Tabs!SetTokens, Tabs!server, Tabs!locking
<1>2. /\ why[t] # "logout" => UNCHANGED <<act, sent, crossed>>
      /\ why[t] = "logout" /\ refused => act' = [act EXCEPT ![t] = "idle"] /\ crossed' = TRUE /\ sent' = sent
      /\ why[t] = "logout" /\ ~ refused => Tabs!Send(ActOf(t), "logout") /\ UNCHANGED <<act, crossed>>
  BY DEF Tabs!Retry, ActOf
<1>3. /\ Tabs!TypeOK /\ LocalsTyped /\ 0 \notin expired /\ 0 \in Tabs!Stored /\ crossed \in BOOLEAN
      /\ sent \in [Tabs!Slot -> Tabs!Request] /\ mail \in [Tab -> SUBSET {"success", "unauthorized", "network", "token"}]
  BY LocalTypes
<1> HIDE DEF refused
<1>4. /\ at' \in [Tab -> {"idle", "lease", "refresh", "missed", "waiting", "retry"}] /\ at'[t] = "idle"
      /\ initial' \in [Tab -> Tabs!Stored] /\ initial'[t] = 0 /\ why' \in [Tab -> {"page", "identity", "logout"}] /\ why'[t] = "page"
      /\ \A u \in Tab : u # t => at'[u] = at[u] /\ initial'[u] = initial[u] /\ why'[u] = why[u]
  BY <1>1, <1>3 DEF LocalsTyped
<1>5. /\ mail' \in [Tab -> SUBSET {"success", "unauthorized", "network", "token"}] /\ mail'[t] = mail[t] /\ mail[t] = {}
      /\ \A u \in Tab : mail'[u] \subseteq mail[u] \cup {"token"} /\ (mail'[u] # mail[u] => at[u] = "waiting")
  <2>1. mail[t] = {}
    BY <1>1 DEF TabsInvariant, LocalsFit
  <2>2. CASE refused /\ why[t] # "page"
    BY <1>1, <1>3, <2>1, <2>2
  <2>3. CASE ~ (refused /\ why[t] # "page")
    <3>1. Heard(t, {})
      BY <1>1, <1>3, <2>3, Telling
    <3>2. QED
      BY <2>1, <3>1 DEF Heard
  <2>4. QED
    BY <2>2, <2>3
<1>6. own' \in [Tab -> Tabs!Stored] /\ shared' \in Tabs!Stored /\ \A u \in Tab : u # t => own'[u] = own[u]
  BY <1>1, <1>3 DEF LocalsTyped, Tabs!Access
<1>7. crossed' \in BOOLEAN /\ (crossed => crossed') /\ (why[t] = "logout" /\ refused => crossed')
  <2>1. CASE crossed' = TRUE
    <3>1. crossed' \in BOOLEAN /\ crossed'
      BY <2>1
    <3>2. QED
      BY <3>1
  <2>2. CASE crossed' = crossed
    BY <1>2, <1>3, <2>2
  <2>3. QED
    BY <1>2, <2>1, <2>2
<1>8. signedOut' \subseteq Tab
  BY <1>1, <1>3 DEF LocalsTyped
<1>9. sent[ActOf(t)].kind = "none" \/ why[t] # "logout"
  BY DEF TabsInvariant, RequestsFit
<1>10. /\ NetworkFits' /\ sent' \in [Tabs!Slot -> Tabs!Request] /\ act' \in [Tab -> {"idle", "bootstrap", "login", "logout"}]
       /\ \A u \in Tab : sent'[RefreshOf(u)] = sent[RefreshOf(u)] /\ (u # t => sent'[ActOf(u)] = sent[ActOf(u)] /\ act'[u] = act[u])
       /\ \A k \in Tabs!Slot : sent'[k].kind = "refresh" => sent'[k] = sent[k]
       /\ \A k \in Tabs!Slot : sent'[k] = sent[k] \/ (sent'[k].kind = "logout" /\ sent'[k].step = "out")
       /\ \/ act'[t] = act[t] /\ sent'[ActOf(t)] = sent[ActOf(t)] /\ why[t] # "logout"
          \/ act'[t] = "idle" /\ sent'[ActOf(t)].kind = "none"
          \/ act'[t] = "logout" /\ sent'[ActOf(t)].kind = "logout"
  <2>1. CASE why[t] # "logout"
    <3>1. act' = act /\ sent' = sent
      BY <1>2, <2>1
    <3>2. NetworkFits'
      BY <1>1, <3>1, NetworkRests
    <3>3. QED
      BY <1>3, <2>1, <3>1, <3>2 DEF LocalsTyped
  <2>2. CASE why[t] = "logout" /\ refused
    <3>1. act' = [act EXCEPT ![t] = "idle"] /\ sent' = sent
      BY <1>2, <2>2
    <3>2. NetworkFits'
      BY <1>1, <3>1, NetworkRests
    <3>3. act' \in [Tab -> {"idle", "bootstrap", "login", "logout"}] /\ act'[t] = "idle" /\ \A u \in Tab : u # t => act'[u] = act[u]
      BY <1>3, <3>1 DEF LocalsTyped
    <3>4. sent'[ActOf(t)].kind = "none"
      BY <1>9, <2>2, <3>1
    <3>5. QED
      BY <1>3, <3>1, <3>2, <3>3, <3>4
  <2>3. CASE why[t] = "logout" /\ ~ refused
    <3>1. ActOf(t) \in Tabs!Slot
      BY TwoSlots
    <3>2. Leaves(ActOf(t), "logout")
      BY <1>2, <1>9, <2>3, <3>1, Sending
    <3>3. NetworkFits'
      BY <1>1, <3>1, <3>2, LeavesFit
    <3>4. act[t] = "logout" /\ act' = act
      BY <1>2, <2>3 DEF TabsInvariant, RequestsFit
    <3>5. \A u \in Tab : sent'[RefreshOf(u)] = sent[RefreshOf(u)] /\ (u # t => sent'[ActOf(u)] = sent[ActOf(u)])
      BY <3>2, TwoSlots DEF Leaves
    <3>6. /\ sent'[ActOf(t)].kind = "logout" /\ sent'[ActOf(t)].step = "out" /\ sent' \in [Tabs!Slot -> Tabs!Request]
          /\ \A k \in Tabs!Slot : k # ActOf(t) => sent'[k] = sent[k]
      BY <3>2 DEF Leaves
    <3>7. act' \in [Tab -> {"idle", "bootstrap", "login", "logout"}] /\ act'[t] = "logout" /\ \A u \in Tab : act'[u] = act[u]
      BY <1>3, <3>4 DEF LocalsTyped
    <3>8. /\ \A k \in Tabs!Slot : sent'[k].kind = "refresh" => sent'[k] = sent[k]
          /\ \A k \in Tabs!Slot : sent'[k] = sent[k] \/ (sent'[k].kind = "logout" /\ sent'[k].step = "out")
      <4> SUFFICES ASSUME NEW k \in Tabs!Slot
                   PROVE  \/ sent'[k] = sent[k]
                          \/ sent'[k].kind = "logout" /\ sent'[k].step = "out"
        OBVIOUS
      <4>1. CASE k = ActOf(t)
        BY <3>6, <4>1
      <4>2. CASE k # ActOf(t)
        BY <3>6, <4>2
      <4>3. QED
        BY <4>1, <4>2
    <3>9. QED
      BY <3>3, <3>5, <3>6, <3>7, <3>8
  <2>4. QED
    BY <2>1, <2>2, <2>3
<1>11. Tabs!TypeOK'
  BY <1>1, <1>3, <1>4, <1>5, <1>6, <1>7, <1>8, <1>10 DEF Tabs!TypeOK
<1>12. RequestsFit'
  BY <1>1, <1>4, <1>10 DEF TabsInvariant, RequestsFit
<1>13. LocalsFit'
  BY <1>1, <1>4, <1>5 DEF TabsInvariant, LocalsFit
<1>14. LocksHeld'
  <2>1. \A u \in Tab : (at'[u] = "refresh" <=> at[u] = "refresh") /\ (at'[u] = "lease" => at[u] = "lease")
    BY <1>1, <1>4
  <2>2. QED
    BY <1>1, <1>7, <2>1, LocksStay
<1>15. RefreshesAlone'
  BY <1>7, <1>10 DEF TabsInvariant, RefreshesAlone
<1>16. CauseNeeded'
  <2> SUFFICES ASSUME ~ broken, ~ crossed' PROVE Undisturbed'
    BY <1>1 DEF CauseNeeded
  <2>1. Undisturbed
    BY <1>7 DEF TabsInvariant, CauseNeeded
  <2>2. ~ (refused /\ why[t] # "page")
    <3>1. why[t] = "logout" => ~ refused
      BY <1>7
    <3>2. why[t] = "identity" => own[t] # 0 /\ ~ Tabs!Refused(own[t])
      BY <1>1, <2>1 DEF Undisturbed, Tabs!Refused
    <3>3. why[t] = "identity" => ~ refused
      BY <3>2 DEF refused, Tabs!Access
    <3>4. QED
      BY <1>3, <3>1, <3>3 DEF LocalsTyped
  <2>3. shared' = Tabs!Access(t) /\ Heard(t, {}) /\ own' = own /\ signedOut' = signedOut
    BY <1>1, <1>3, <2>2, Telling
  <2>4. \A u \in Tab : initial'[u] \in {0, initial[u]}
    BY <1>4
  <2>5. /\ Blank => Blank'
        /\ NothingExpired => NothingExpired'
        /\ shared' = 0 => shared = 0
    BY <1>1, <2>3, <2>4, Showing
  <2>6. \A k \in Tabs!Slot : SlotUndisturbed(k)'
    BY <1>1, <1>10, <2>1, <2>5 DEF Undisturbed, SlotUndisturbed
  <2>7. \A u \in Tab : at'[u] = "retry" /\ why'[u] = "identity" => ~ Tabs!Refused(own[u])'
    BY <1>1, <1>4, <2>1, <2>3 DEF Undisturbed, Tabs!Refused
  <2>8. \A u \in Tab : /\ "unauthorized" \in mail'[u] => initial'[u] = 0
                       /\ "success" \in mail'[u] => shared' # 0
    BY <1>4, <1>5, <2>1, <2>5 DEF Undisturbed
  <2>9. QED
    BY <1>1, <2>1, <2>3, <2>5, <2>6, <2>7, <2>8 DEF Undisturbed
<1>17. QED
  BY <1>10, <1>11, <1>12, <1>13, <1>14, <1>15, <1>16, BothFit DEF TabsFit

\* An action of refreshUser or of the user leaves, beside what the tab refreshes.
LEMMA ActLeaves ==
  ASSUME TabsInvariant, NEW t \in Tab, NEW name \in {"bootstrap", "login", "logout"}, NEW kind \in {"refresh", "login", "logout"},
         kind = "refresh" <=> name = "bootstrap", kind = "login" <=> name = "login", Tabs!Act(t, name, kind), kind # "logout" => Tabs!Room,
         crossed => crossed'
  PROVE  /\ UNCHANGED <<live, expired, issued, ghost, cookie, own, hasLocks, holder, lease, at, initial, why, faults, broken, signedOut, over>>
         /\ Leaves(ActOf(t), kind) /\ ActOf(t) \in Tabs!Slot /\ act' \in [Tab -> {"idle", "bootstrap", "login", "logout"}]
         /\ NetworkFits' /\ RequestsFit' /\ LocksHeld'
<1> USE DEF live, expired, issued, ghost, cookie, own, hasLocks, holder, lease, at, initial, why, act, faults, broken, signedOut, over
<1>1. /\ UNCHANGED <<live, expired, issued, ghost, cookie, own, hasLocks, holder, lease, at, initial, why, faults, broken, signedOut, over>>
      /\ act[t] = "idle" /\ act' = [act EXCEPT ![t] = name] /\ Tabs!Send(ActOf(t), kind)
  BY DEF Tabs!Act, Tabs!server, Tabs!locking, ActOf
<1>2. sent[ActOf(t)].kind = "none" /\ ActOf(t) \in Tabs!Slot
  BY <1>1, Refreshes
<1>3. Leaves(ActOf(t), kind)
  BY <1>1, <1>2, Sending
<1>4. NetworkFits'
  BY <1>1, <1>2, <1>3, LeavesFit
<1>5. /\ act' \in [Tab -> {"idle", "bootstrap", "login", "logout"}] /\ act'[t] = name /\ \A u \in Tab : u # t => act'[u] = act[u]
  BY <1>1, LocalTypes DEF LocalsTyped
<1>6. RequestsFit'
  <2>1. /\ sent'[ActOf(t)].kind = kind /\ \A u \in Tab : sent'[RefreshOf(u)] = sent[RefreshOf(u)]
        /\ \A u \in Tab : u # t => sent'[ActOf(u)] = sent[ActOf(u)]
    BY <1>3, TwoSlots DEF Leaves
  <2>2. why[t] # "logout"
    BY <1>1 DEF TabsInvariant, RequestsFit
  <2>3. QED
    BY <1>1, <1>5, <2>1, <2>2 DEF TabsInvariant, RequestsFit
<1>7. LocksHeld'
  BY <1>1, LocksStay
<1>8. QED
  BY <1>1, <1>2, <1>3, <1>4, <1>5, <1>6, <1>7

\* A tab without token asks for a refresh outside the lock.
LEMMA BootstrapKept ==
  ASSUME TabsInvariant, NEW t \in Tab, Tabs!bootstrap(t)
  PROVE  TabsInvariant'
<1> USE DEF live, expired, issued, ghost, cookie, shared, own, hasLocks, holder, lease, at, initial, why, mail, act, sent,
            faults, broken, signedOut, crossed, over
<1>1. Tabs!Room /\ Tabs!Act(t, "bootstrap", "refresh") /\ Tabs!Crosses(Tabs!Slot) /\ UNCHANGED <<shared, mail>>
  BY DEF Tabs!bootstrap
<1>2. crossed' \in BOOLEAN /\ (crossed' <=> crossed \/ \E k \in Tabs!Slot : sent[k].kind = "refresh")
  <2>1. crossed' = (crossed \/ \E k \in Tabs!Slot : sent[k].kind = "refresh")
    BY <1>1 DEF Tabs!Crosses
  <2>2. QED
    BY <2>1, Zenon
<1>3. /\ UNCHANGED <<live, expired, issued, ghost, cookie, own, hasLocks, holder, lease, at, initial, why, faults, broken, signedOut, over>>
      /\ Leaves(ActOf(t), "refresh") /\ ActOf(t) \in Tabs!Slot /\ act' \in [Tab -> {"idle", "bootstrap", "login", "logout"}]
      /\ NetworkFits' /\ RequestsFit' /\ LocksHeld'
  BY <1>1, <1>2, ActLeaves
<1>4. Tabs!TypeOK /\ 0 \notin expired
  BY LocalTypes
<1>5. Tabs!TypeOK'
  BY <1>1, <1>2, <1>3, <1>4 DEF Tabs!TypeOK, Leaves
<1>6. LocalsFit'
  BY <1>1, <1>3 DEF TabsInvariant, LocalsFit
<1>7. RefreshesAlone'
  BY <1>2, <1>3 DEF RefreshesAlone, Leaves
<1>8. CauseNeeded'
  <2> SUFFICES ASSUME ~ broken, ~ crossed' PROVE Undisturbed'
    BY <1>3 DEF CauseNeeded
  <2>1. Undisturbed /\ (Blank => Blank')
    BY <1>1, <1>2, <1>3 DEF TabsInvariant, CauseNeeded, Blank
  <2>2. \A k \in Tabs!Slot : SlotUndisturbed(k)'
    BY <1>2, <1>3, <1>4, <2>1, LeavesAlone
  <2>3. QED
    BY <1>1, <1>3, <2>1, <2>2 DEF Undisturbed, Tabs!Refused
<1>9. QED
  BY <1>3, <1>5, <1>6, <1>7, <1>8, BothFit DEF TabsFit

\* A login or a logout leaves.
LEMMA SignKept ==
  ASSUME TabsInvariant, NEW t \in Tab, Tabs!login(t) \/ Tabs!logout(t)
  PROVE  TabsInvariant'
<1> USE DEF live, expired, issued, ghost, cookie, shared, own, hasLocks, holder, lease, at, initial, why, mail, act, sent,
            faults, broken, signedOut, crossed, over
<1>1. /\ Tabs!TypeOK /\ crossed \in BOOLEAN
      /\ mail \in [Tab -> SUBSET {"success", "unauthorized", "network", "token"}] /\ shared \in Tabs!Stored
  BY LocalTypes DEF LocalsTyped
<1>2. PICK kind \in {"login", "logout"} :
        /\ Tabs!Act(t, kind, kind) /\ (kind # "logout" => Tabs!Room) /\ crossed' = crossed
        /\ UNCHANGED <<shared, mail>> \/ (shared' = Tabs!Access(t) /\ Tabs!Tell(t, Tabs!Access(t), {}))
  BY DEF Tabs!login, Tabs!logout
<1>3. /\ UNCHANGED <<live, expired, issued, ghost, cookie, own, hasLocks, holder, lease, at, initial, why, faults, broken, signedOut, over>>
      /\ Leaves(ActOf(t), kind) /\ ActOf(t) \in Tabs!Slot /\ act' \in [Tab -> {"idle", "bootstrap", "login", "logout"}]
      /\ NetworkFits' /\ RequestsFit' /\ LocksHeld'
  BY <1>2, ActLeaves
<1>4. /\ mail' \in [Tab -> SUBSET {"success", "unauthorized", "network", "token"}]
      /\ \A u \in Tab : mail'[u] \subseteq mail[u] \cup {"token"} /\ (mail'[u] # mail[u] => at[u] = "waiting")
      /\ shared' \in Tabs!Stored /\ (shared' = 0 => shared = 0)
      /\ Blank => Blank'
      /\ NothingExpired => NothingExpired'
  <2>1. CASE UNCHANGED <<shared, mail>>
    BY <1>1, <1>3, <2>1 DEF Blank, NothingExpired
  <2>2. CASE shared' = Tabs!Access(t) /\ Tabs!Tell(t, Tabs!Access(t), {})
    <3>1. Heard(t, {})
      BY <1>1, <2>2, Telling
    <3>2. QED
      BY <1>3, <2>2, <3>1, Showing DEF Heard
  <2>3. QED
    BY <1>2, <2>1, <2>2
<1>5. Tabs!TypeOK'
  BY <1>1, <1>2, <1>3, <1>4 DEF Tabs!TypeOK, Leaves
<1>6. LocalsFit'
  BY <1>3, <1>4 DEF TabsInvariant, LocalsFit
<1>7. /\ sent'[ActOf(t)].kind = kind /\ sent'[ActOf(t)].step = "out" /\ kind # "refresh"
      /\ \A k \in Tabs!Slot : k # ActOf(t) => sent'[k] = sent[k]
  BY <1>3 DEF Leaves
<1>8. RefreshesAlone'
  BY <1>2, <1>7 DEF TabsInvariant, RefreshesAlone
<1>9. CauseNeeded'
  <2> SUFFICES ASSUME ~ broken, ~ crossed' PROVE Undisturbed'
    BY <1>3 DEF CauseNeeded
  <2>1. Undisturbed
    BY <1>2 DEF TabsInvariant, CauseNeeded
  <2>2. ASSUME NEW k \in Tabs!Slot PROVE SlotUndisturbed(k)'
    <3>1. CASE k = ActOf(t)
      BY <1>7, <3>1 DEF SlotUndisturbed
    <3>2. CASE k # ActOf(t)
      <4>1. SlotUndisturbed(k) /\ sent'[k] = sent[k]
        BY <1>7, <2>1, <3>2 DEF Undisturbed
      <4>2. QED
        BY <1>3, <1>4, <4>1 DEF SlotUndisturbed
    <3>3. QED
      BY <3>1, <3>2
  <2>3. \A u \in Tab : /\ "unauthorized" \in mail'[u] => initial'[u] = 0
                       /\ "success" \in mail'[u] => shared' # 0
    BY <1>3, <1>4, <2>1 DEF Undisturbed
  <2>4. QED
    BY <1>3, <1>4, <2>1, <2>2, <2>3 DEF Undisturbed, Tabs!Refused
<1>10. QED
  BY <1>3, <1>5, <1>6, <1>8, <1>9, BothFit DEF TabsFit
-----------------------------------------------------------------------------
(* The server and time                                                     *)

\* The server deals with a request: nothing of the tabs changes.
LEMMA ServeKept ==
  ASSUME TabsInvariant, NEW k \in Tabs!Slot, Tabs!Serve(k)
  PROVE  TabsInvariant'
<1> USE DEF live, expired, issued, ghost, cookie, shared, own, hasLocks, holder, lease, at, initial, why, mail, act, sent,
            faults, broken, signedOut, crossed, over
<1>1. UNCHANGED <<expired, ghost, cookie, shared, own, hasLocks, holder, lease, at, initial, why, mail, act, faults, broken, signedOut>>
  BY DEF Tabs!Serve, Tabs!locking
<1>2. Served(k) /\ over' \in BOOLEAN /\ crossed' \in BOOLEAN
  BY Serving
<1>3. NetworkFits'
  BY <1>1, <1>2, ServedFit
<1>4. Tabs!TypeOK'
  BY <1>1, <1>2, LocalTypes DEF Tabs!TypeOK, Served
<1>5. \A j \in Tabs!Slot : sent'[j].kind = sent[j].kind
  BY <1>2 DEF Served
<1>6. crossed => crossed'
  BY <1>2 DEF Served
<1>7. RequestsFit'
  BY <1>1, <1>5, TwoSlots DEF TabsInvariant, RequestsFit
<1>8. LocalsFit' /\ RefreshesAlone'
  BY <1>1, <1>5, <1>6 DEF TabsInvariant, LocalsFit, RefreshesAlone
<1>9. LocksHeld'
  BY <1>1, <1>6, LocksStay
<1>10. CauseNeeded'
  <2> SUFFICES ASSUME ~ broken, ~ crossed' PROVE Undisturbed'
    BY <1>1 DEF CauseNeeded
  <2>1. Undisturbed /\ ~ crossed /\ sent[k].kind # "logout"
    BY <1>2, <1>6 DEF Served, TabsInvariant, CauseNeeded
  <2>2. /\ sent'[k].kind = sent[k].kind /\ sent'[k].cookie = sent[k].cookie /\ sent[k].step = "out" /\ sent'[k].step = "back"
        /\ \A j \in Tabs!Slot : j # k => sent'[j] = sent[j]
    BY <1>2 DEF Served
  <2>3. SlotUndisturbed(k)'
    <3>1. SlotUndisturbed(k)
      BY <2>1 DEF Undisturbed
    <3>2. CASE sent[k].kind = "refresh"
      <4>1. CASE sent[k].cookie = 0
        <5>1. NothingExpired' /\ sent'[k].answer = 0
          BY <1>1, <1>2, <2>2, <3>1, <3>2, <4>1, LocalTypes DEF Served, SlotUndisturbed, NothingExpired
        <5>2. QED
          BY <2>2, <3>2, <4>1, <5>1 DEF SlotUndisturbed
      <4>2. CASE sent[k].cookie # 0
        <5>1. sent[k].cookie \in live
          BY <2>2, <3>1, <3>2, <4>2 DEF SlotUndisturbed
        <5>2. sent'[k].answer = issued + 1 /\ issued \in Nat
          BY <1>2, <3>2, <5>1, Requested DEF Served
        <5>3. sent'[k].answer # 0
          BY <5>2
        <5>4. QED
          BY <2>2, <3>2, <4>2, <5>3 DEF SlotUndisturbed
      <4>3. QED
        BY <4>1, <4>2
    <3>3. CASE sent[k].kind # "refresh"
      BY <2>1, <2>2, <3>3 DEF SlotUndisturbed
    <3>4. QED
      BY <3>2, <3>3
  <2>4. ASSUME NEW j \in Tabs!Slot, j # k PROVE SlotUndisturbed(j)'
    <3>1. SlotUndisturbed(j) /\ sent'[j] = sent[j]
      BY <2>1, <2>2, <2>4 DEF Undisturbed
    <3>2. CASE sent[j].kind # "refresh"
      BY <3>1, <3>2 DEF SlotUndisturbed
    <3>3. CASE sent[j].kind = "refresh"
      <4>1. sent[k].kind # "refresh"
        BY <2>1, <2>4, <3>3 DEF TabsInvariant, RefreshesAlone
      <4>2. live \subseteq live'
        BY <1>2, <2>1, <4>1 DEF Served
      <4>3. NothingExpired => NothingExpired'
        BY <1>1 DEF NothingExpired
      <4>4. QED
        BY <3>1, <4>2, <4>3 DEF SlotUndisturbed
    <3>4. QED
      BY <3>2, <3>3
  <2>5. QED
    BY <1>1, <2>1, <2>3, <2>4 DEF Undisturbed, Blank, Tabs!Refused
<1>11. QED
  BY <1>3, <1>4, <1>7, <1>8, <1>9, <1>10, BothFit DEF TabsFit

\* A request whose tab gave up reaches the server: an accepted cookie it takes breaks a session.
LEMMA GhostKept ==
  ASSUME TabsInvariant, Tabs!ServeGhost
  PROVE  TabsInvariant'
<1> USE DEF live, expired, issued, ghost, cookie, shared, own, hasLocks, holder, lease, at, initial, why, mail, act, sent,
            faults, broken, signedOut, crossed, over
<1>1. PICK n \in ghost : ghost' = ghost \ {n} /\ live' = live \ {n} /\ broken' = (broken \/ n \in live)
  BY DEF Tabs!ServeGhost
<1>2. UNCHANGED <<expired, issued, cookie, shared, own, hasLocks, holder, lease, at, initial, why, mail, act, sent, faults, signedOut, crossed, over>>
  BY DEF Tabs!ServeGhost, Tabs!locking
<1>3. broken' \in BOOLEAN /\ (broken' <=> (broken \/ n \in live))
  BY <1>1, Zenon
<1>4. NetworkFits'
  BY <1>1, <1>2, <1>3, GhostFits
<1>5. Tabs!TypeOK'
  BY <1>1, <1>2, <1>3, LocalTypes DEF Tabs!TypeOK
<1>6. RequestsFit' /\ LocalsFit' /\ LocksHeld' /\ RefreshesAlone'
  BY <1>2 DEF TabsInvariant, RequestsFit, LocalsFit, LocksHeld, RefreshesAlone
<1>7. CauseNeeded'
  <2> SUFFICES ASSUME ~ broken', ~ crossed' PROVE Undisturbed'
    BY DEF CauseNeeded
  <2>1. Undisturbed /\ live' = live
    BY <1>1, <1>2, <1>3 DEF TabsInvariant, CauseNeeded
  <2>2. QED
    BY <1>2, <2>1 DEF Undisturbed, SlotUndisturbed, Blank, NothingExpired, Tabs!Refused
<1>8. QED
  BY <1>4, <1>5, <1>6, <1>7, BothFit DEF TabsFit

\* An access token expires while no tab refreshes.
LEMMA ExpireKept ==
  ASSUME TabsInvariant, Tabs!Expire
  PROVE  TabsInvariant'
<1> USE DEF live, expired, issued, ghost, cookie, shared, own, hasLocks, holder, lease, at, initial, why, mail, act, sent,
            faults, broken, signedOut, crossed, over
<1>1. /\ \A t \in Tab : at[t] = "idle" /\ act[t] = "idle"
      /\ UNCHANGED <<live, issued, ghost, cookie, shared, own, hasLocks, holder, lease, at, initial, why, mail, act, sent, faults, broken, signedOut, crossed, over>>
  BY DEF Tabs!Expire, Tabs!locking, Tabs!history
<1>2. PICK n \in 1 .. issued : expired' = expired \cup {n}
  BY DEF Tabs!Expire
<1>3. \A k \in Tabs!Slot : sent[k] = Tabs!NotSent /\ sent[k].kind = "none"
  <2> SUFFICES ASSUME NEW k \in Tabs!Slot PROVE sent[k] = Tabs!NotSent /\ sent[k].kind = "none"
    OBVIOUS
  <2>1. sent[k].kind = "none"
    BY <1>1, Refreshes, TwoSlots
  <2>2. QED
    BY <2>1, Requested
<1>4. NetworkFits'
  BY <1>1, <1>2, <1>3, ExpiredFits
<1>5. n \in Tabs!Token
  BY <1>2, BrowserAssumption, LocalTypes DEF Tabs!TypeOK, Tabs!Stored, Tabs!Token, Tabs!TabsAssumption
<1>6. Tabs!TypeOK'
  BY <1>1, <1>2, <1>5, LocalTypes DEF Tabs!TypeOK
<1>7. RequestsFit' /\ LocalsFit' /\ LocksHeld' /\ RefreshesAlone'
  BY <1>1 DEF TabsInvariant, RequestsFit, LocalsFit, LocksHeld, RefreshesAlone
<1>8. CauseNeeded'
  BY <1>1, <1>3 DEF TabsInvariant, CauseNeeded, Undisturbed, SlotUndisturbed, Blank
<1>9. QED
  BY <1>4, <1>6, <1>7, <1>8, BothFit DEF TabsFit

\* A lease runs out that nobody refreshes under.
LEMMA ExpireLeaseKept ==
  ASSUME TabsInvariant, Tabs!ExpireLease
  PROVE  TabsInvariant'
<1> USE DEF live, expired, issued, ghost, cookie, shared, own, hasLocks, holder, lease, at, initial, why, mail, act, sent,
            faults, broken, signedOut, crossed, over
<1>1. /\ lease # NoTab /\ at[lease] # "refresh" /\ lease' = NoTab
      /\ UNCHANGED <<live, expired, issued, ghost, cookie, shared, own, hasLocks, holder, at, initial, why, mail, act, sent, faults, broken, signedOut, crossed, over>>
  BY DEF Tabs!ExpireLease, Tabs!server, Tabs!history
<1>2. NetworkFits'
  BY <1>1, NetworkRests
<1>3. Tabs!TypeOK'
  BY <1>1, LocalTypes DEF Tabs!TypeOK
<1>4. RequestsFit' /\ LocalsFit' /\ RefreshesAlone'
  BY <1>1 DEF TabsInvariant, RequestsFit, LocalsFit, RefreshesAlone
<1>5. LocksHeld'
  BY <1>1 DEF TabsInvariant, LocksHeld
<1>6. CauseNeeded'
  BY <1>1 DEF TabsInvariant, CauseNeeded, Undisturbed, SlotUndisturbed, Blank, NothingExpired, Tabs!Refused
<1>7. QED
  BY <1>2, <1>3, <1>4, <1>5, <1>6, BothFit DEF TabsFit
-----------------------------------------------------------------------------
(* Answers                                                                 *)

\* The answer of a login, a logout or a refresh outside the lock.
LEMMA AnswerActKept ==
  ASSUME TabsInvariant, NEW t \in Tab, Tabs!AnswerAct(t)
  PROVE  TabsInvariant'
<1> USE DEF live, expired, issued, ghost, cookie, shared, own, hasLocks, holder, lease, at, initial, why, mail, act, sent,
            faults, broken, signedOut, crossed, over
<1> DEFINE k == ActOf(t)
<1>1. /\ sent[k].step = "back" /\ Tabs!Receive(k) /\ act' = [act EXCEPT ![t] = "idle"]
      /\ UNCHANGED <<live, expired, issued, ghost, hasLocks, holder, lease, at, initial, why, faults, broken, crossed, over>>
      /\ sent[k].answer # 0 =>
           /\ cookie' = sent[k].answer /\ own' = [own EXCEPT ![t] = sent[k].answer] /\ shared' = sent[k].answer
           /\ Tabs!Tell(t, sent[k].answer, {}) /\ signedOut' = signedOut
      /\ sent[k].answer = 0 =>
           /\ cookie' = IF act[t] = "logout" THEN 0 ELSE cookie
           /\ own' = [own EXCEPT ![t] = 0] /\ shared' = 0 /\ mail' = mail
           /\ signedOut' = IF act[t] = "bootstrap" /\ sent[k].cookie # 0 THEN signedOut \cup {t} ELSE signedOut
  BY DEF Tabs!AnswerAct, Tabs!NewCookie, Tabs!SetTokens, Tabs!clearAuthStorage, Tabs!server, Tabs!locking, ActOf
<1>2. k \in Tabs!Slot
  BY TwoSlots
<1>3. /\ sent[k].kind \in {"refresh", "login", "logout"} /\ sent[k].answer \in Tabs!Stored
      /\ sent[k].kind = "login" => sent[k].answer # 0
      /\ sent[k].kind = "logout" => sent[k].answer = 0
  BY <1>1, <1>2, Requested DEF TabsInvariant, RequestsFormed
<1>4. /\ sent[k].kind = "refresh" <=> act[t] = "bootstrap"
      /\ sent[k].kind = "logout" => act[t] = "logout"
      /\ why[t] # "logout"
  BY <1>3 DEF TabsInvariant, RequestsFit
<1>5. Gone({k})
  BY <1>1, <1>2, Receiving
<1>6. /\ Tabs!TypeOK /\ LocalsTyped /\ 0 \notin expired /\ 0 \in Tabs!Stored
      /\ mail \in [Tab -> SUBSET {"success", "unauthorized", "network", "token"}]
  BY LocalTypes
<1> HIDE DEF k
<1>7. NetworkFits' /\ cookie' \in Tabs!Stored
  <2>1. \/ cookie' = 0
        \/ \E j \in {k} : sent[j].answer # 0 /\ cookie' = sent[j].answer
        \/ cookie' = cookie /\ \A j \in {k} : ~ Replaces(j)
    <3>1. CASE sent[k].answer # 0
      BY <1>1, <3>1
    <3>2. CASE sent[k].answer = 0 /\ sent[k].kind = "refresh"
      BY <1>1, <1>4, <3>2 DEF Replaces
    <3>3. CASE sent[k].answer = 0 /\ sent[k].kind = "logout"
      BY <1>1, <1>4, <3>3
    <3>4. QED
      BY <1>3, <3>1, <3>2, <3>3
  <2>2. {k} \in SUBSET Tabs!Slot
    BY <1>2
  <2>3. QED
    BY <1>1, <1>5, <2>1, <2>2, GoneFit
<1>8. /\ own' \in [Tab -> Tabs!Stored] /\ shared' \in Tabs!Stored /\ own'[t] = sent[k].answer /\ shared' = sent[k].answer
      /\ act' \in [Tab -> {"idle", "bootstrap", "login", "logout"}] /\ act'[t] = "idle"
      /\ signedOut' \subseteq Tab
      /\ \A u \in Tab : u # t => own'[u] = own[u] /\ act'[u] = act[u]
  BY <1>1, <1>3, <1>6 DEF LocalsTyped
<1>9. /\ mail' \in [Tab -> SUBSET {"success", "unauthorized", "network", "token"}]
      /\ \A u \in Tab : mail'[u] \subseteq mail[u] \cup {"token"} /\ (mail'[u] # mail[u] => at[u] = "waiting")
  <2>1. CASE sent[k].answer # 0
    <3>1. Heard(t, {})
      BY <1>1, <1>6, <2>1, Telling
    <3>2. QED
      BY <3>1 DEF Heard
  <2>2. CASE sent[k].answer = 0
    BY <1>1, <1>6, <2>2
  <2>3. QED
    BY <2>1, <2>2
<1>10. /\ sent' \in [Tabs!Slot -> Tabs!Request] /\ sent'[k] = Tabs!NotSent /\ Tabs!NotSent.kind = "none"
       /\ \A j \in Tabs!Slot : j # k => sent'[j] = sent[j]
  BY <1>2, <1>5 DEF Gone, Tabs!NotSent
<1>11. Tabs!TypeOK'
  BY <1>1, <1>6, <1>7, <1>8, <1>9, <1>10 DEF Tabs!TypeOK
<1>12. RequestsFit'
  <2>1. \A u \in Tab : sent'[RefreshOf(u)] = sent[RefreshOf(u)] /\ (u # t => sent'[ActOf(u)] = sent[ActOf(u)])
    BY <1>10, TwoSlots DEF k
  <2>2. sent'[ActOf(t)].kind = "none"
    BY <1>10 DEF k
  <2>3. QED
    BY <1>1, <1>4, <1>8, <2>1, <2>2 DEF TabsInvariant, RequestsFit
<1>13. LocalsFit'
  BY <1>1, <1>9 DEF TabsInvariant, LocalsFit
<1>14. LocksHeld'
  BY <1>1, LocksStay
<1>15. RefreshesAlone'
  BY <1>1, <1>10 DEF TabsInvariant, RefreshesAlone
<1>16. CauseNeeded'
  <2> SUFFICES ASSUME ~ broken, ~ crossed PROVE Undisturbed'
    BY <1>1 DEF CauseNeeded
  <2>1. Undisturbed /\ SlotUndisturbed(k)
    BY <1>2 DEF TabsInvariant, CauseNeeded, Undisturbed
  <2>2. NothingExpired => NothingExpired' /\ sent[k].answer \notin expired
    <3>1. sent[k].answer \notin expired
      BY <1>2, <1>6 DEF TabsInvariant, AnswersAreNew, Unseen
    <3>2. QED
      BY <1>1, <1>8, <1>9, <3>1 DEF NothingExpired
  <2>3. \A j \in Tabs!Slot : SlotUndisturbed(j)'
    BY <1>1, <1>2, <1>10, <2>1, <2>2 DEF Undisturbed, SlotUndisturbed
  <2>4. CASE sent[k].answer # 0
    <3>1. sent[k].answer \notin expired
      BY <1>2, <2>4 DEF TabsInvariant, AnswersAreNew, Unseen
    <3>2. \A u \in Tab : at'[u] = "retry" /\ why'[u] = "identity" => ~ Tabs!Refused(own[u])'
      BY <1>1, <1>8, <2>1, <2>4, <3>1 DEF Undisturbed, Tabs!Refused
    <3>3. \A u \in Tab : /\ "unauthorized" \in mail'[u] => initial'[u] = 0
                         /\ "success" \in mail'[u] => shared' # 0
      BY <1>1, <1>8, <1>9, <2>1, <2>4 DEF Undisturbed
    <3>4. QED
      BY <1>1, <2>1, <2>3, <2>4, <3>2, <3>3 DEF Undisturbed
  <2>5. CASE sent[k].answer = 0
    <3>1. sent[k].kind = "refresh" /\ sent[k].cookie = 0 /\ NothingExpired
      BY <1>1, <1>3, <2>1, <2>5 DEF SlotUndisturbed
    <3>2. cookie' = cookie /\ signedOut' = signedOut
      BY <1>1, <1>4, <2>5, <3>1
    <3>3. Blank => Blank'
      BY <1>1, <1>8, <2>5 DEF Blank
    <3>4. \A u \in Tab : initial'[u] = 0 /\ why'[u] # "identity" /\ "success" \notin mail'[u]
      BY <1>1, <1>9, <3>1 DEF NothingExpired, TabsInvariant, LocalsFit
    <3>5. QED
      BY <2>1, <2>3, <3>2, <3>3, <3>4 DEF Undisturbed
  <2>6. QED
    BY <2>4, <2>5
<1>17. QED
  BY <1>7, <1>11, <1>12, <1>13, <1>14, <1>15, <1>16, BothFit DEF TabsFit

\* The lock and the lease go with the refresh that held them.
LEMMA Releasing ==
  ASSUME TabsInvariant, NEW t \in Tab, at[t] = "refresh", Tabs!Release(t), hasLocks' = hasLocks, faults > 0 => faults' > 0,
         crossed => crossed', at'[t] \notin {"refresh", "lease"}, \A u \in Tab : u # t => at'[u] = at[u]
  PROVE  LocksHeld' /\ holder' \in Tab \cup {NoTab} /\ lease' \in Tab \cup {NoTab}
<1>1. holder' = (IF holder = t THEN NoTab ELSE holder) /\ lease' = (IF lease = t THEN NoTab ELSE lease)
  BY DEF Tabs!Release, holder, lease
<1>2. holder \in Tab \cup {NoTab} /\ lease \in Tab \cup {NoTab}
  BY DEF TabsInvariant, Tabs!TypeOK, holder, lease
<1>3. /\ holder' # NoTab => at'[holder'] = "refresh"
      /\ lease' # NoTab => at'[lease'] = "refresh" \/ faults' > 0
  BY <1>1, <1>2 DEF TabsInvariant, LocksHeld
<1>4. hasLocks => \A u \in Tab : at'[u] # "lease" /\ at'[u] # "refresh"
  BY DEF TabsInvariant, LocksHeld
<1>5. ~ hasLocks /\ ~ crossed' => \A u \in Tab : at'[u] # "refresh"
  BY DEF TabsInvariant, LocksHeld
<1>6. QED
  BY <1>1, <1>2, <1>3, <1>4, <1>5 DEF LocksHeld

\* The answer of a refresh under the lock or the lease.
LEMMA AnswerRefreshKept ==
  ASSUME TabsInvariant, NEW t \in Tab, Tabs!AnswerRefresh(t)
  PROVE  TabsInvariant'
<1> USE DEF live, expired, issued, ghost, cookie, shared, own, hasLocks, holder, lease, at, initial, why, mail, act, sent,
            faults, broken, signedOut, crossed, over
<1> DEFINE k == RefreshOf(t)
<1>1. /\ sent[k].step = "back" /\ Tabs!Receive(k) /\ Tabs!Release(t)
      /\ UNCHANGED <<live, expired, issued, ghost, hasLocks, faults, broken, over>>
      /\ sent[k].answer # 0 =>
           /\ cookie' = sent[k].answer /\ own' = [own EXCEPT ![t] = sent[k].answer] /\ shared' = sent[k].answer
           /\ Tabs!Tell(t, sent[k].answer, {"success"}) /\ at' = [at EXCEPT ![t] = "retry"]
           /\ UNCHANGED <<initial, why, act, signedOut, crossed>>
      /\ sent[k].answer = 0 => Tabs!Tell(t, shared, {"unauthorized"}) /\ Tabs!Settle(t, "unauthorized") /\ cookie' = cookie
  BY DEF Tabs!AnswerRefresh, Tabs!NewCookie, Tabs!SetTokens, Tabs!server, RefreshOf
<1>2. k \in Tabs!Slot
  BY TwoSlots
<1>3. at[t] = "refresh" /\ sent[k].kind = "refresh" /\ sent[k].answer \in Tabs!Stored /\ mail[t] = {}
  BY <1>1, <1>2, Requested DEF TabsInvariant, RequestsFit, LocalsFit
<1>4. Gone({k})
  BY <1>1, <1>2, Receiving
<1>5. /\ Tabs!TypeOK /\ LocalsTyped /\ 0 \notin expired /\ crossed \in BOOLEAN
  BY LocalTypes
<1> HIDE DEF k
<1>6. /\ sent' \in [Tabs!Slot -> Tabs!Request] /\ sent'[k] = Tabs!NotSent /\ Tabs!NotSent.kind = "none"
      /\ \A j \in Tabs!Slot : j # k => sent'[j] = sent[j]
  BY <1>2, <1>4 DEF Gone, Tabs!NotSent
<1>7. NetworkFits' /\ cookie' \in Tabs!Stored
  <2>1. \/ \E j \in {k} : sent[j].answer # 0 /\ cookie' = sent[j].answer
        \/ cookie' = cookie /\ \A j \in {k} : ~ Replaces(j)
    BY <1>1, <1>3 DEF Replaces
  <2>2. {k} \in SUBSET Tabs!Slot
    BY <1>2
  <2>3. QED
    BY <1>1, <1>4, <2>1, <2>2, GoneFit
<1>8. /\ \A u \in Tab : sent'[ActOf(u)] = sent[ActOf(u)] /\ (u # t => sent'[RefreshOf(u)] = sent[RefreshOf(u)])
      /\ sent'[RefreshOf(t)].kind = "none"
  BY <1>6, TwoSlots DEF k
<1>9. ASSUME LocalsTyped', crossed' \in BOOLEAN, crossed => crossed', at'[t] \in {"retry", "idle"},
             \A u \in Tab : u # t => at'[u] = at[u] /\ initial'[u] = initial[u] /\ why'[u] = why[u] /\ act'[u] = act[u],
             act'[t] = IF at'[t] = "idle" /\ why[t] = "logout" THEN "idle" ELSE act[t],
             at'[t] = "retry" => initial'[t] = initial[t] /\ why'[t] = why[t],
             at'[t] = "idle" => initial'[t] = 0 /\ why'[t] = "page",
             NEW message \in SUBSET {"success", "unauthorized", "network"}, Heard(t, message), CauseNeeded'
      PROVE  TabsInvariant'
  <2>1. LocksHeld' /\ holder' \in Tab \cup {NoTab} /\ lease' \in Tab \cup {NoTab}
    BY <1>1, <1>3, <1>9, Releasing
  <2>2. Tabs!TypeOK'
    BY <1>1, <1>5, <1>6, <1>7, <1>9, <2>1 DEF Tabs!TypeOK, LocalsTyped, Heard
  <2>3. RequestsFit'
    BY <1>8, <1>9 DEF TabsInvariant, RequestsFit
  <2>4. LocalsFit'
    BY <1>3, <1>9 DEF TabsInvariant, LocalsFit, Heard
  <2>5. RefreshesAlone'
    BY <1>6, <1>9 DEF TabsInvariant, RefreshesAlone
  <2>6. QED
    BY <1>7, <1>9, <2>1, <2>2, <2>3, <2>4, <2>5, BothFit DEF TabsFit
<1>10. CASE sent[k].answer # 0
  <2>1. Heard(t, {"success"})
    BY <1>1, <1>5, <1>10, Telling
  <2>2. /\ LocalsTyped' /\ at'[t] = "retry" /\ own'[t] = sent[k].answer
        /\ \A u \in Tab : u # t => at'[u] = at[u] /\ own'[u] = own[u]
    BY <1>1, <1>3, <1>5, <1>10 DEF LocalsTyped
  <2>3. CauseNeeded'
    <3> SUFFICES ASSUME ~ broken, ~ crossed PROVE Undisturbed'
      BY <1>1, <1>10 DEF CauseNeeded
    <3>1. Undisturbed
      BY DEF TabsInvariant, CauseNeeded
    <3>2. sent[k].answer \notin expired
      BY <1>2, <1>10 DEF TabsInvariant, AnswersAreNew, Unseen
    <3>3. \A j \in Tabs!Slot : sent'[j].kind # "refresh"
      BY <1>2, <1>3, <1>6 DEF TabsInvariant, RefreshesAlone
    <3>4. \A j \in Tabs!Slot : SlotUndisturbed(j)'
      BY <1>6, <3>1, <3>3 DEF Undisturbed, SlotUndisturbed
    <3>5. \A u \in Tab : "unauthorized" \in mail'[u] => initial'[u] = 0
      BY <1>1, <1>10, <2>1, <3>1 DEF Undisturbed, Heard
    <3>6. \A u \in Tab : at'[u] = "retry" /\ why'[u] = "identity" => ~ Tabs!Refused(own[u])'
      BY <1>1, <1>10, <2>2, <3>1, <3>2 DEF Undisturbed, Tabs!Refused
    <3>7. QED
      BY <1>1, <1>10, <3>1, <3>4, <3>5, <3>6 DEF Undisturbed
  <2>4. QED
    BY <1>1, <1>5, <1>9, <1>10, <2>1, <2>2, <2>3
<1>11. CASE sent[k].answer = 0
  <2>1. Heard(t, {"unauthorized"})
    BY <1>1, <1>5, <1>11, Telling
  <2>2. SettledTab(t, "unauthorized") /\ (at'[t] = "retry" => shared # 0)
    BY <1>1, <1>11, Settling
  <2>3. ~ broken /\ ~ crossed => \A u \in Tab : initial[u] = 0
    <3>1. ~ broken /\ ~ crossed => SlotUndisturbed(k)
      BY <1>2 DEF TabsInvariant, CauseNeeded, Undisturbed
    <3>2. QED
      BY <1>1, <1>3, <1>11, <3>1 DEF SlotUndisturbed, NothingExpired
  <2>4. \A u \in Tab : "success" \in mail'[u] => "success" \in mail[u]
    BY <2>1 DEF Heard
  <2>5. \A j \in Tabs!Slot : sent'[j] \in {sent[j], Tabs!NotSent}
    BY <1>6
  <2>6. CauseNeeded'
    BY <1>1, <1>11, <2>2, <2>3, <2>4, <2>5, SettledCause
  <2>7. QED
    BY <1>9, <2>1, <2>2, <2>6 DEF SettledTab
<1>12. QED
  BY <1>10, <1>11
-----------------------------------------------------------------------------
(* Faults                                                                  *)

\* Requests given up: those on their way may reach the server, and a session is broken
\* whose new token does not arrive.
LEMMA Dropping ==
  ASSUME TabsInvariant, NEW slots \in SUBSET Tabs!Slot, NEW arrived, Tabs!Drop(slots, arrived)
  PROVE  /\ broken' \in BOOLEAN /\ (broken => broken')
         /\ \A n \in ghost' : n \in ghost \/ (n # 0 /\ \E k \in slots : n = sent[k].cookie)
         /\ arrived = {} => \A k \in slots : Replaces(k) /\ sent[k].cookie # 0 => broken'
<1> DEFINE unanswered == \E k \in slots :
             /\ sent[k].step = "back" /\ (sent[k].kind # "login" /\ sent[k].cookie # 0) /\ sent[k].answer \notin arrived
             /\ sent[k].answer # 0 \/ sent[k].kind = "logout"
<1>1. broken' = (broken \/ unanswered)
  BY DEF Tabs!Drop, broken, sent
<1>2. ghost' = ghost \cup { sent[k].cookie : k \in { j \in slots : sent[j].step = "out" /\ (sent[j].kind # "login" /\ sent[j].cookie # 0) } }
  BY DEF Tabs!Drop, ghost, sent
<1>3. arrived = {} => \A k \in slots : Replaces(k) /\ sent[k].cookie # 0 => unanswered
  BY DEF Replaces
<1> HIDE DEF unanswered
<1>4. broken' \in BOOLEAN /\ (broken' <=> broken \/ unanswered)
  BY <1>1, Zenon
<1>5. QED
  BY <1>2, <1>3, <1>4

\* A lost request or answer.
LEMMA LoseKept ==
  ASSUME TabsInvariant, NEW t \in Tab, NEW k \in Tabs!Slot, Tabs!Lose(t, k)
  PROVE  TabsInvariant'
<1> USE DEF live, expired, issued, ghost, cookie, shared, own, hasLocks, holder, lease, at, initial, why, mail, act, sent,
            faults, broken, signedOut, crossed, over
<1>1. /\ faults < MaxFaults /\ faults' = faults + 1 /\ sent[k].kind # "none" /\ k[1] = t /\ Tabs!Receive(k)
      /\ UNCHANGED <<live, expired, issued, hasLocks, over>>
      /\ k[2] = "refresh" => Tabs!Tell(t, shared, {"network"}) /\ Tabs!Release(t) /\ Tabs!Settle(t, "network")
      /\ k[2] # "refresh" =>
           /\ act' = [act EXCEPT ![t] = "idle"]
           /\ IF act[t] = "logout" THEN own' = [own EXCEPT ![t] = 0] /\ shared' = 0 ELSE UNCHANGED <<own, shared>>
           /\ crossed' = (crossed \/ act[t] = "logout")
           /\ UNCHANGED <<mail, holder, lease, at, initial, why, signedOut>>
  BY DEF Tabs!Lose, Tabs!Fault, Tabs!Busy, Tabs!clearAuthStorage, Tabs!SetTokens
<1>2. \E arrived : /\ Tabs!Drop({k}, arrived)
                   /\ (cookie' = cookie /\ arrived = {}) \/ (sent[k].answer # 0 /\ cookie' = sent[k].answer)
  BY DEF Tabs!Lose
<1>3. /\ Tabs!TypeOK /\ LocalsTyped /\ 0 \notin expired /\ crossed \in BOOLEAN /\ faults' \in 0 .. MaxFaults /\ faults' > 0
      /\ mail \in [Tab -> SUBSET {"success", "unauthorized", "network", "token"}] /\ 0 \in Tabs!Stored
  <2>1. faults \in 0 .. MaxFaults /\ MaxFaults \in Nat
    BY LocalTypes, BrowserAssumption DEF Tabs!TypeOK, Tabs!TabsAssumption
  <2>2. QED
    BY <1>1, <2>1, LocalTypes
<1>4. Gone({k})
  BY <1>1, Receiving
<1>5. /\ sent' \in [Tabs!Slot -> Tabs!Request] /\ sent'[k] = Tabs!NotSent /\ Tabs!NotSent.kind = "none"
      /\ \A j \in Tabs!Slot : j # k => sent'[j] = sent[j]
  BY <1>4 DEF Gone, Tabs!NotSent
<1>6. /\ broken' \in BOOLEAN /\ (broken => broken') /\ NetworkFits' /\ cookie' \in Tabs!Stored /\ ghost' \subseteq Tabs!Token
      /\ cookie' = cookie \/ cookie' # 0
  <2>1. PICK arrived : /\ Tabs!Drop({k}, arrived)
                       /\ (cookie' = cookie /\ arrived = {}) \/ (sent[k].answer # 0 /\ cookie' = sent[k].answer)
    BY <1>2
  <2>2. {k} \in SUBSET Tabs!Slot
    OBVIOUS
  <2>3. /\ broken' \in BOOLEAN /\ (broken => broken')
        /\ \A n \in ghost' : n \in ghost \/ (n # 0 /\ \E j \in {k} : n = sent[j].cookie)
        /\ arrived = {} => \A j \in {k} : Replaces(j) /\ sent[j].cookie # 0 => broken'
    BY <2>1, <2>2, Dropping
  <2>4. \/ cookie' = 0
        \/ \E j \in {k} : sent[j].answer # 0 /\ cookie' = sent[j].answer
        \/ cookie' = cookie /\ (broken' \/ \A j \in {k} : Replaces(j) => sent[j].cookie # cookie)
    BY <2>1, <2>3
  <2>5. NetworkFits' /\ cookie' \in Tabs!Stored /\ ghost' \subseteq Tabs!Token
    BY <1>1, <1>4, <2>2, <2>3, <2>4, GoneFit
  <2>6. QED
    BY <2>1, <2>3, <2>5
<1>7. CASE k[2] = "refresh"
  <2>1. k = RefreshOf(t)
    BY <1>1, <1>7 DEF Tabs!Slot, RefreshOf
  <2>2. at[t] = "refresh" /\ mail[t] = {} /\ k # ActOf(t)
    BY <1>1, <2>1, TwoSlots DEF TabsInvariant, RequestsFit, LocalsFit
  <2>3. Heard(t, {"network"})
    BY <1>1, <1>3, <1>7, Telling
  <2>4. SettledTab(t, "network") /\ (at'[t] = "retry" => shared # 0)
    BY <1>1, <1>7, Settling
  <2>5. LocalsTyped' /\ crossed' \in BOOLEAN /\ (crossed => crossed')
    BY <2>4 DEF SettledTab
  <2>6. LocksHeld' /\ holder' \in Tab \cup {NoTab} /\ lease' \in Tab \cup {NoTab}
    BY <1>1, <1>3, <1>7, <2>2, <2>4, Releasing DEF SettledTab
  <2>7. Tabs!TypeOK'
    BY <1>1, <1>3, <1>5, <1>6, <2>3, <2>5, <2>6 DEF Tabs!TypeOK, LocalsTyped, Heard
  <2>8. RequestsFit'
    <3>1. /\ \A u \in Tab : sent'[ActOf(u)] = sent[ActOf(u)] /\ (u # t => sent'[RefreshOf(u)] = sent[RefreshOf(u)])
          /\ sent'[RefreshOf(t)].kind = "none"
      BY <1>5, <2>1, TwoSlots
    <3>2. QED
      BY <2>4, <3>1 DEF TabsInvariant, RequestsFit, SettledTab
  <2>9. LocalsFit'
    BY <2>2, <2>3, <2>4 DEF TabsInvariant, LocalsFit, Heard, SettledTab
  <2>10. RefreshesAlone'
    BY <1>5, <2>5 DEF TabsInvariant, RefreshesAlone
  <2>11. CauseNeeded'
    <3>1. \A u \in Tab : /\ "success" \in mail'[u] => "success" \in mail[u]
                         /\ "unauthorized" \in mail'[u] => "unauthorized" \in mail[u]
      BY <2>3 DEF Heard
    <3>2. ~ broken /\ ~ crossed => \A u \in Tab : "unauthorized" \in mail'[u] => initial[u] = 0
      BY <3>1 DEF TabsInvariant, CauseNeeded, Undisturbed
    <3>3. \A j \in Tabs!Slot : sent'[j] \in {sent[j], Tabs!NotSent}
      BY <1>5
    <3>4. QED
      BY <1>1, <1>6, <2>4, <3>1, <3>2, <3>3, SettledCause
  <2>12. QED
    BY <1>6, <2>6, <2>7, <2>8, <2>9, <2>10, <2>11, BothFit DEF TabsFit
<1>8. CASE k[2] # "refresh"
  <2>1. k = ActOf(t)
    BY <1>1, <1>8 DEF Tabs!Slot, ActOf
  <2>2. why[t] # "logout"
    BY <1>1, <2>1 DEF TabsInvariant, RequestsFit
  <2>3. UNCHANGED <<mail, holder, lease, at, initial, why, signedOut>>
    BY <1>1, <1>8
  <2>4. crossed' \in BOOLEAN /\ (crossed' <=> crossed \/ act[t] = "logout")
    <3>1. crossed' = (crossed \/ act[t] = "logout")
      BY <1>1, <1>8
    <3>2. QED
      BY <3>1, Zenon
  <2>5. /\ act' \in [Tab -> {"idle", "bootstrap", "login", "logout"}] /\ act'[t] = "idle" /\ \A u \in Tab : u # t => act'[u] = act[u]
        /\ own' \in [Tab -> Tabs!Stored] /\ shared' \in Tabs!Stored
        /\ act[t] # "logout" => own' = own /\ shared' = shared
    BY <1>1, <1>3, <1>8 DEF LocalsTyped
  <2>6. Tabs!TypeOK'
    BY <1>1, <1>3, <1>5, <1>6, <2>3, <2>4, <2>5 DEF Tabs!TypeOK
  <2>7. RequestsFit'
    <3>1. /\ \A u \in Tab : sent'[RefreshOf(u)] = sent[RefreshOf(u)] /\ (u # t => sent'[ActOf(u)] = sent[ActOf(u)])
          /\ sent'[ActOf(t)].kind = "none"
      BY <1>5, <2>1, TwoSlots
    <3>2. QED
      BY <2>2, <2>3, <2>5, <3>1 DEF TabsInvariant, RequestsFit
  <2>8. LocalsFit'
    BY <2>3 DEF TabsInvariant, LocalsFit
  <2>9. LocksHeld'
    BY <1>1, <1>3, <2>3, <2>4 DEF TabsInvariant, LocksHeld
  <2>10. RefreshesAlone'
    BY <1>5, <2>4 DEF TabsInvariant, RefreshesAlone
  <2>11. CauseNeeded'
    <3> SUFFICES ASSUME ~ broken', ~ crossed' PROVE Undisturbed'
      BY DEF CauseNeeded
    <3>1. Undisturbed /\ own' = own /\ shared' = shared
      BY <1>6, <2>4, <2>5 DEF TabsInvariant, CauseNeeded
    <3>2. \A j \in Tabs!Slot : SlotUndisturbed(j)'
      BY <1>1, <1>5, <2>3, <3>1 DEF Undisturbed, SlotUndisturbed, NothingExpired
    <3>3. QED
      BY <1>1, <1>6, <2>3, <3>1, <3>2 DEF Undisturbed, Blank, Tabs!Refused
  <2>12. QED
    BY <1>6, <2>6, <2>7, <2>8, <2>9, <2>10, <2>11, BothFit DEF TabsFit
<1>9. QED
  BY <1>7, <1>8

\* A tab is closed: its Web Lock is freed, its lease must run out.
LEMMA CloseTabKept ==
  ASSUME TabsInvariant, NEW t \in Tab, Tabs!CloseTab(t)
  PROVE  TabsInvariant'
<1> USE DEF live, expired, issued, ghost, cookie, shared, own, hasLocks, holder, lease, at, initial, why, mail, act, sent,
            faults, broken, signedOut, crossed, over
<1> DEFINE slots == {t} \X {"refresh", "act"}
<1>1. /\ faults < MaxFaults /\ faults' = faults + 1
      /\ sent' = [k \in Tabs!Slot |-> IF k[1] = t THEN Tabs!NotSent ELSE sent[k]]
      /\ Tabs!Drop(slots, {})
      /\ own' = [own EXCEPT ![t] = 0] /\ act' = [act EXCEPT ![t] = "idle"] /\ mail' = [mail EXCEPT ![t] = {}]
      /\ at' = [at EXCEPT ![t] = "idle"] /\ initial' = [initial EXCEPT ![t] = 0] /\ why' = [why EXCEPT ![t] = "page"]
      /\ holder' = (IF holder = t THEN NoTab ELSE holder)
      /\ UNCHANGED <<live, expired, issued, cookie, shared, hasLocks, lease, signedOut, crossed, over>>
  BY DEF Tabs!CloseTab, Tabs!Fault, Tabs!Return
<1>2. /\ Tabs!TypeOK /\ LocalsTyped /\ 0 \in Tabs!Stored /\ faults' \in 0 .. MaxFaults /\ faults' > 0
      /\ mail \in [Tab -> SUBSET {"success", "unauthorized", "network", "token"}] /\ sent \in [Tabs!Slot -> Tabs!Request]
      /\ Tabs!NotSent \in Tabs!Request /\ Tabs!NotSent.kind = "none"
  <2>1. faults \in 0 .. MaxFaults /\ MaxFaults \in Nat
    BY LocalTypes, BrowserAssumption DEF Tabs!TypeOK, Tabs!TabsAssumption
  <2>2. 0 \in Tabs!Stored
    BY LocalTypes
  <2>3. QED
    BY <1>1, <2>1, <2>2, LocalTypes DEF Tabs!NotSent, Tabs!Request
<1>3. slots \in SUBSET Tabs!Slot /\ \A k \in Tabs!Slot : k[1] = t <=> k \in slots
  BY DEF Tabs!Slot
<1>4. /\ Gone(slots)
      /\ \A u \in Tab : u # t => sent'[RefreshOf(u)] = sent[RefreshOf(u)] /\ sent'[ActOf(u)] = sent[ActOf(u)]
      /\ sent'[RefreshOf(t)].kind = "none" /\ sent'[ActOf(t)].kind = "none"
  <2>1. sent' \in [Tabs!Slot -> Tabs!Request]
    BY <1>1, <1>2
  <2>2. \A k \in Tabs!Slot : sent'[k] = IF k \in slots THEN Tabs!NotSent ELSE sent[k]
    BY <1>1, <1>3
  <2>3. \A u \in Tab : (RefreshOf(u) \in slots <=> u = t) /\ (ActOf(u) \in slots <=> u = t)
    BY DEF RefreshOf, ActOf
  <2>4. QED
    BY <1>2, <2>1, <2>2, <2>3, TwoSlots DEF Gone
<1>5. /\ broken' \in BOOLEAN /\ (broken => broken')
      /\ \A n \in ghost' : n \in ghost \/ (n # 0 /\ \E k \in slots : n = sent[k].cookie)
      /\ \A k \in slots : Replaces(k) /\ sent[k].cookie # 0 => broken'
  BY <1>1, <1>3, Dropping
<1> HIDE DEF slots
<1>6. NetworkFits' /\ ghost' \subseteq Tabs!Token
  <2>1. \/ cookie' = 0
        \/ cookie' = cookie /\ (broken' \/ \A k \in slots : Replaces(k) => sent[k].cookie # cookie)
    BY <1>1, <1>5
  <2>2. QED
    BY <1>1, <1>3, <1>4, <1>5, <2>1, GoneFit
<1>7. /\ LocalsTyped' /\ own'[t] = 0 /\ act'[t] = "idle" /\ at'[t] = "idle" /\ initial'[t] = 0 /\ why'[t] = "page"
      /\ \A u \in Tab : u # t => own'[u] = own[u] /\ act'[u] = act[u] /\ at'[u] = at[u] /\ initial'[u] = initial[u] /\ why'[u] = why[u]
  BY <1>1, <1>2 DEF LocalsTyped
<1>8. /\ mail' \in [Tab -> SUBSET {"success", "unauthorized", "network", "token"}] /\ mail'[t] = {}
      /\ \A u \in Tab : u # t => mail'[u] = mail[u]
  BY <1>1, <1>2
<1>9. holder \in Tab \cup {NoTab} /\ lease \in Tab \cup {NoTab}
  BY <1>2 DEF Tabs!TypeOK
<1>10. Tabs!TypeOK'
  BY <1>1, <1>2, <1>4, <1>5, <1>6, <1>7, <1>8, <1>9 DEF Tabs!TypeOK, LocalsTyped, Gone
<1>11. RequestsFit'
  BY <1>4, <1>7 DEF TabsInvariant, RequestsFit
<1>12. LocalsFit'
  BY <1>7, <1>8 DEF TabsInvariant, LocalsFit
<1>13. LocksHeld'
  BY <1>1, <1>2, <1>7, <1>9 DEF TabsInvariant, LocksHeld
<1>14. RefreshesAlone'
  BY <1>1, <1>2, <1>4 DEF TabsInvariant, RefreshesAlone, Gone
<1>15. CauseNeeded'
  <2> SUFFICES ASSUME ~ broken', ~ crossed PROVE Undisturbed'
    BY <1>1 DEF CauseNeeded
  <2>1. Undisturbed
    BY <1>5 DEF TabsInvariant, CauseNeeded
  <2>2. /\ Blank => Blank'
        /\ NothingExpired => NothingExpired'
    BY <1>1, <1>7, <1>8, LocalTypes DEF Blank, NothingExpired
  <2>3. \A k \in Tabs!Slot : SlotUndisturbed(k)'
    BY <1>1, <1>2, <1>4, <2>1, <2>2 DEF Undisturbed, SlotUndisturbed, Gone
  <2>4. \A u \in Tab : /\ "unauthorized" \in mail'[u] => initial'[u] = 0
                       /\ "success" \in mail'[u] => shared' # 0
                       /\ at'[u] = "retry" /\ why'[u] = "identity" => ~ Tabs!Refused(own[u])'
    BY <1>1, <1>7, <1>8, <2>1 DEF Undisturbed, Tabs!Refused
  <2>5. QED
    BY <1>1, <2>1, <2>2, <2>3, <2>4 DEF Undisturbed
<1>16. QED
  BY <1>6, <1>10, <1>11, <1>12, <1>13, <1>14, <1>15, BothFit DEF TabsFit
-----------------------------------------------------------------------------
(* The specification                                                       *)

\* In the beginning there is no session, or one sign-in that some tabs have a copy of.
LEMMA TabsBegin ==
  ASSUME Tabs!Init
  PROVE  TabsInvariant
<1> USE DEF live, expired, issued, ghost, cookie, shared, own, hasLocks, holder, lease, at, initial, why, mail, act, sent,
            faults, broken, signedOut, crossed, over
<1>1. PICK n \in {0, 1} :
        live = 1 .. n /\ issued = n /\ cookie = n /\ shared \in {0, n} /\ own \in [Tab -> {0, shared}]
  BY DEF Tabs!Init
<1>2. /\ expired = {} /\ ghost = {} /\ hasLocks \in BOOLEAN /\ holder = NoTab /\ lease = NoTab
      /\ at = [t \in Tab |-> "idle"] /\ initial = [t \in Tab |-> 0] /\ why = [t \in Tab |-> "page"]
      /\ mail = [t \in Tab |-> {}] /\ act = [t \in Tab |-> "idle"]
      /\ sent = [k \in Tabs!Slot |-> Tabs!NotSent] /\ faults = 0
      /\ signedOut = {} /\ ~ broken /\ ~ crossed /\ ~ over
  BY DEF Tabs!Init
<1>3. MaxToken \in Nat \ {0} /\ MaxFaults \in Nat
  BY BrowserAssumption DEF Tabs!TabsAssumption
<1>4. n \in Tabs!Stored /\ 0 \in Tabs!Stored /\ live \subseteq Tabs!Token /\ shared \in Tabs!Stored
  BY <1>1, <1>3 DEF Tabs!Stored, Tabs!Token
<1>5. Tabs!NotSent \in Tabs!Request /\ \A k \in Tabs!Slot : sent[k] = Tabs!NotSent
  BY <1>2, <1>4 DEF Tabs!NotSent, Tabs!Request
<1>6. broken \in BOOLEAN /\ crossed \in BOOLEAN /\ over \in BOOLEAN
  <2>1. broken = FALSE /\ crossed = FALSE /\ over = FALSE
    BY DEF Tabs!Init
  <2>2. QED
    BY <2>1
<1>7. Tabs!TypeOK
  <2>1. own \in [Tab -> Tabs!Stored]
    BY <1>1, <1>4
  <2>2. sent \in [Tabs!Slot -> Tabs!Request]
    BY <1>2, <1>5
  <2>3. /\ at \in [Tab -> {"idle", "lease", "refresh", "missed", "waiting", "retry"}] /\ initial \in [Tab -> Tabs!Stored]
        /\ why \in [Tab -> {"page", "identity", "logout"}] /\ act \in [Tab -> {"idle", "bootstrap", "login", "logout"}]
        /\ mail \in [Tab -> SUBSET {"success", "unauthorized", "network", "token"}]
    BY <1>2, <1>4
  <2>4. QED
    BY <1>1, <1>2, <1>3, <1>4, <1>6, <2>1, <2>2, <2>3 DEF Tabs!TypeOK
<1>8. RequestsFit
  BY <1>2, <1>5, TwoSlots DEF RequestsFit, Tabs!NotSent
<1>9. LocalsFit /\ RequestsFormed /\ LocksHeld /\ RefreshesAlone /\ NothingAccepted
  BY <1>2, <1>5 DEF LocalsFit, RequestsFormed, LocksHeld, RefreshesAlone, NothingAccepted, Tabs!NotSent
<1>10. AnswersAreNew
  <2>1. \A k \in Tabs!Slot : sent[k].answer = 0 /\ sent[k].cookie = 0
    BY <1>5 DEF Tabs!NotSent
  <2>2. QED
    BY <1>1, <1>2, <2>1 DEF AnswersAreNew
<1>11. TokensSuffice
  <2>1. Asked = {}
    BY <1>5 DEF Asked, Tabs!NotSent
  <2>2. Cardinality(Asked) = 0
    BY <2>1, FS_EmptySet
  <2>3. QED
    BY <1>1, <1>3, <2>2 DEF TokensSuffice
<1>12. CookieFollowed
  BY <1>1 DEF CookieFollowed
<1>13. CauseNeeded
  <2>1. cookie = 0 => Blank
    BY <1>1, <1>2 DEF Blank
  <2>2. \A k \in Tabs!Slot : SlotUndisturbed(k)
    BY <1>5 DEF SlotUndisturbed, Tabs!NotSent
  <2>3. QED
    BY <1>2, <2>1, <2>2 DEF CauseNeeded, Undisturbed
<1>14. QED
  BY <1>7, <1>8, <1>9, <1>10, <1>11, <1>12, <1>13 DEF TabsInvariant

\* Every step of a tab, of the server, of time or of chance.
LEMMA TabsStep ==
  ASSUME TabsInvariant, Tabs!Next
  PROVE  TabsInvariant'
<1>1. CASE \E t \in Tab : Tabs!Proceed(t)
  <2>1. PICK t \in Tab : Tabs!Proceed(t)
    BY <1>1
  <2>2. {t} \X {"refresh", "act"} \subseteq Tabs!Slot
    BY DEF Tabs!Slot
  <2>3. \/ Tabs!TakeLease(t) \/ Tabs!StartWait(t) \/ Tabs!Hear(t) \/ Tabs!WaitTimeout(t) \/ Tabs!Retry(t)
        \/ Tabs!AnswerRefresh(t) \/ Tabs!AnswerAct(t)
        \/ \E k \in Tabs!Slot : Tabs!Serve(k)
    BY <2>1, <2>2 DEF Tabs!Proceed
  <2>4. QED
    BY <2>3, TakeLeaseKept, StartWaitKept, HeardKept, RetryKept, AnswerRefreshKept, AnswerActKept, ServeKept
<1>2. CASE \E t \in Tab : Tabs!Touch(t) \/ \E purpose \in {"page", "identity", "logout"} : Tabs!Coordinate(t, purpose)
  BY <1>2, TouchKept, CoordinateKept
<1>3. CASE \E t \in Tab : Tabs!bootstrap(t) \/ Tabs!login(t) \/ Tabs!logout(t)
  BY <1>3, BootstrapKept, SignKept
<1>4. CASE \E t \in Tab : (\E k \in Tabs!Slot : Tabs!Lose(t, k)) \/ Tabs!CloseTab(t)
  BY <1>4, LoseKept, CloseTabKept
<1>5. CASE Tabs!ServeGhost \/ Tabs!Expire \/ Tabs!ExpireLease
  BY <1>5, GhostKept, ExpireKept, ExpireLeaseKept
<1>6. QED
  BY <1>1, <1>2, <1>3, <1>4, <1>5 DEF Tabs!Next

\* The tabs of a browser never lose their session without a cause: a tab is told that it is
\* over only when a token did not arrive or requests met outside the lock, the cookie is the
\* one the server knows or is about to replace, a logout that met nothing holds, and no lock
\* stays behind (auth-session.ts, auth-storage.ts, api-client.ts).
THEOREM TabsShare == BrowserSpec => []TabsShareSession
<1>1. BrowserInit => (part = "tabs" => TabsInvariant)
  BY TabsBegin DEF BrowserInit
<1>2. (part = "tabs" => TabsInvariant) /\ [BrowserNext]_browserVars => (part = "tabs" => TabsInvariant)'
  <2> SUFFICES ASSUME part = "tabs" => TabsInvariant, [BrowserNext]_browserVars, part' = "tabs" PROVE TabsInvariant'
    OBVIOUS
  <2>1. CASE BrowserNext
    <3>1. part = "tabs" /\ Tabs!Next
      BY <2>1 DEF BrowserNext
    <3>2. QED
      BY <3>1, TabsStep
  <2>2. CASE UNCHANGED browserVars
    <3>1. /\ part' = part
          /\ UNCHANGED <<live, expired, issued, ghost, cookie, shared, own, hasLocks, holder, lease, at, initial, why, mail, act,
                         sent, faults, broken, signedOut, crossed, over>>
      BY <2>2 DEF browserVars, live, expired, issued, ghost, cookie, shared, own, hasLocks, holder, lease, at, initial, why, mail,
                  act, sent, faults, broken, signedOut, crossed, over
    <3>2. NetworkFits'
      BY <3>1, NetworkRests
    <3>3. Tabs!TypeOK'
      BY <3>1 DEF TabsInvariant, Tabs!TypeOK, live, expired, issued, ghost, cookie, shared, own, hasLocks, holder, lease, at,
                  initial, why, mail, act, sent, faults, broken, signedOut, crossed, over
    <3>4. RequestsFit' /\ LocalsFit' /\ LocksHeld' /\ RefreshesAlone'
      BY <3>1 DEF TabsInvariant, RequestsFit, LocalsFit, LocksHeld, RefreshesAlone
    <3>5. CauseNeeded'
      BY <3>1 DEF TabsInvariant, CauseNeeded, Undisturbed, SlotUndisturbed, Blank, NothingExpired, Tabs!Refused, expired
    <3>6. QED
      BY <3>2, <3>3, <3>4, <3>5, BothFit DEF TabsFit
  <2>3. QED
    BY <2>1, <2>2
<1>3. (part = "tabs" => TabsInvariant) => TabsShareSession
  <2> SUFFICES ASSUME TabsInvariant
               PROVE  Tabs!TypeOK /\ Tabs!SignOutHasCause /\ Tabs!CookieIsCurrent /\ Tabs!LogoutSticks /\ Tabs!NoLockLeftBehind
    BY DEF TabsShareSession
  <2>1. Tabs!SignOutHasCause
    BY DEF TabsInvariant, CauseNeeded, Undisturbed, Tabs!SignOutHasCause, broken, crossed, signedOut
  <2>2. Tabs!CookieIsCurrent
    BY DEF TabsInvariant, CookieFollowed, Replaces, Tabs!CookieIsCurrent, broken, cookie, live, sent
  <2>3. Tabs!LogoutSticks
    BY DEF TabsInvariant, NothingAccepted, Tabs!LogoutSticks, over, cookie, live
  <2>4. Tabs!NoLockLeftBehind
    BY DEF TabsInvariant, LocksHeld, Tabs!NoLockLeftBehind, holder, lease, at, faults
  <2>5. QED
    BY <2>1, <2>2, <2>3, <2>4 DEF TabsInvariant
<1>4. QED
  BY <1>1, <1>2, <1>3, PTL DEF BrowserSpec
=============================================================================
