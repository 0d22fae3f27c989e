----------------------------- MODULE PageLoads -----------------------------
(***************************************************************************)
(* How the pages load what they show.  A load is a React effect or an      *)
(* async function of a page: it asks for the rows of the filter chosen     *)
(* then, and shows the answer when it comes.  The pages differ in how they *)
(* keep an old answer from replacing a newer one; a load is a record of    *)
(* what its code does, and one behaviour is one load.  Rows are the filter *)
(* and the page they were asked for and the number of edits they show.     *)
(***************************************************************************)
EXTENDS Naturals, Sequences

CONSTANTS Filter, \* what the user can choose: filters, searches, tabs or, for a badge, the account
          Call,   \* slots for requests that are on their way
          NoRows, MaxPage, MaxSaves

LoadsAssumption == MaxPage \in Nat \ {0} /\ MaxSaves \in Nat /\ Filter # {} /\ Call # {}

VARIABLES
  load,             \* the load that this behaviour is about
  filter, page,     \* what is chosen now
  resetting,        \* the effect that returns to page 1 has not taken effect
  calls,            \* what was asked for and has not been answered
  rows, hasMore,    \* what the page shows
  busy, error,      \* loading and loadingMore; the latest load failed
  memo,             \* the module's cache of a shared request
  edits, save, saved, \* edits the server applied, the edit on its way, edits the page was told of
  overlapped,       \* history: an answer on its way may replace the latest one
  gap               \* history: a page that failed was left out

vars == <<load, filter, page, resetting, calls, rows, hasMore, busy, error, memo, edits, save, saved, overlapped, gap>>
-----------------------------------------------------------------------------
(* The loads.                                                              *)

\* guarded: an effect's cleanup sets `cancelled`;  timer: a pause before the request, with
\* the spinner ("busy") or without it ("quiet");
\* appends: pages are added;  shared: one request for all who ask, kept under the
\* account;  again: it may start without a new choice;  save: what an edit does.
Plain == [choices |-> TRUE, guarded |-> FALSE, timer |-> "none", appends |-> FALSE, shared |-> FALSE,
          again |-> FALSE, save |-> "none"]
Guarded == [Plain EXCEPT !.guarded = TRUE]
Once == [Guarded EXCEPT !.choices = FALSE]

TasksOverview == [Guarded EXCEPT !.timer = "busy", !.save = "reload"]
TaskDrawer == [Guarded EXCEPT !.appends = TRUE]
OpenTask == [Plain EXCEPT !.save = "answer"]
TaskScopeProbe == [Guarded EXCEPT !.shared = TRUE]
Badges == [Guarded EXCEPT !.shared = TRUE]
MenuBadges == [Guarded EXCEPT !.shared = TRUE]
IncidentWebsites == Once
IncidentList == Guarded
IncidentDetail == [Plain EXCEPT !.choices = FALSE, !.save = "answer"]
DashboardCards == Guarded
DashboardTasks == Once
WebsiteDetail == Once
WebsiteTasks == Once
ProjectList == [Guarded EXCEPT !.timer = "quiet"]
RequestList == [Guarded EXCEPT !.timer = "quiet"]
RequestDetail == [Once EXCEPT !.save = "answer"]
AssignmentRoster == Once
ProjectDetail == [Plain EXCEPT !.choices = FALSE, !.again = TRUE, !.save = "answer"]
ProjectStories == [Plain EXCEPT !.again = TRUE, !.save = "reload"]
ProjectTickets == [Plain EXCEPT !.choices = FALSE, !.again = TRUE, !.save = "reload"]
StoryList == [Plain EXCEPT !.save = "reload"]
MyWork == [Plain EXCEPT !.choices = FALSE, !.save = "reload"]
Users == [Plain EXCEPT !.choices = FALSE, !.save = "reload"]
Notifications == [Plain EXCEPT !.choices = FALSE, !.again = TRUE, !.save = "reload"]

Loads ==
  { TasksOverview, TaskDrawer, OpenTask, TaskScopeProbe, Badges, MenuBadges, IncidentWebsites,
    IncidentList, IncidentDetail, DashboardCards, DashboardTasks, WebsiteDetail, WebsiteTasks,
    ProjectList, RequestList, RequestDetail, AssignmentRoster, ProjectDetail, ProjectStories,
    ProjectTickets, StoryList, MyWork, Users, Notifications }
-----------------------------------------------------------------------------
Idle == [step |-> "none"]
Pages == 1 .. MaxPage
Chunk == [filter : Filter, page : Pages, edits : 0 .. MaxSaves]
CallRecord ==
  [step : {"timer", "out", "back"}, filter : Filter, page : Pages, edits : 0 .. MaxSaves, cancelled : BOOLEAN]

TypeOK ==
  /\ load \in Loads /\ filter \in Filter /\ page \in Pages /\ resetting \in BOOLEAN
  /\ calls \in [Call -> CallRecord \cup {Idle}]
  /\ rows \in Seq(Chunk) /\ (load.appends \/ Len(rows) <= 1)
  /\ hasMore \in BOOLEAN /\ busy \subseteq {"first", "more"} /\ error \in BOOLEAN
  /\ memo \in Chunk \cup {NoRows}
  /\ save \in [step : {"none", "out", "back"}, filter : Filter, edits : 0 .. MaxSaves]
  /\ edits \in 0 .. MaxSaves /\ saved \in 0 .. edits /\ overlapped \in BOOLEAN /\ gap \in BOOLEAN

Live(c) == calls[c] # Idle /\ ~calls[c].cancelled
Waiting(c) == calls[c].step = "timer"
-----------------------------------------------------------------------------
(* Asking.                                                                 *)

\* An effect's cleanup: its answer will be ignored, its timer is cleared.
Cleanup(c) ==
  IF ~load.guarded \/ calls[c] = Idle THEN calls[c]
  ELSE IF Waiting(c) THEN Idle ELSE [calls[c] EXCEPT !.cancelled = TRUE]

\* A request for page p of f.  Without a guard, another answer that is on its way
\* may come after this one's.
Ask(f, p) ==
  /\ \E c \in Call :
       /\ calls[c] = Idle
       /\ calls' = [d \in Call |->
            IF d # c THEN Cleanup(d)
            ELSE [step |-> IF load.timer = "none" THEN "out" ELSE "timer", filter |-> f, page |-> p, edits |-> 0, cancelled |-> FALSE]]
  /\ overlapped' = (~load.guarded /\ (f # filter' \/ \E c \in Call : Live(c)))
  /\ IF load.timer = "quiet" THEN UNCHANGED <<busy, error>>
     ELSE busy' = busy \cup {IF p = 1 THEN "first" ELSE "more"} /\ error' = FALSE
  /\ UNCHANGED <<rows, hasMore, memo>>

Kept(f) == memo # NoRows /\ memo.filter = f

\* A shared request: the kept answer if it is this account's, else the answer of the
\* request that is on its way, whoever began it, else one of its own.
AskShared(f) ==
  IF Kept(f)
    THEN /\ rows' = <<memo>> /\ calls' = [c \in Call |-> Cleanup(c)] /\ overlapped' = FALSE
         /\ busy' = {} /\ error' = FALSE /\ UNCHANGED <<hasMore, memo>>
  ELSE IF \E c \in Call : calls[c] # Idle
    THEN /\ calls' = [c \in Call |-> IF calls[c] = Idle THEN Idle ELSE [calls[c] EXCEPT !.cancelled = FALSE]]
         /\ overlapped' = \E c \in Call : calls[c] # Idle /\ calls[c].filter # f
         /\ busy' = {"first"} /\ error' = FALSE /\ UNCHANGED <<rows, hasMore, memo>>
  ELSE Ask(f, 1)

Load(f, p) == IF load.shared THEN AskShared(f) ELSE Ask(f, p)

\* The first load of a page, and loads that repeat: a tab shown again, the bell.
Start ==
  /\ load.again \/ (rows = <<>> /\ \A c \in Call : ~Live(c))
  /\ UNCHANGED filter /\ Load(filter, page)
  /\ UNCHANGED <<load, page, resetting, edits, save, saved, gap>>

Choose(f) ==
  /\ load.choices /\ f # filter /\ ~resetting
  /\ filter' = f /\ Load(f, page) /\ resetting' = (page # 1)
  /\ UNCHANGED <<load, page, edits, save, saved, gap>>

\* The drawer's other effect: the render after a new filter shows page 1.
ResetPage ==
  /\ resetting /\ resetting' = FALSE
  /\ page' = 1 /\ UNCHANGED filter /\ Load(filter, 1) /\ gap' = FALSE
  /\ UNCHANGED <<load, edits, save, saved>>

\* "More": also after a page that failed, whose rows are then left out.  (The last
\* page has no next one, save after a failure: there MaxPage is a bound.)
LoadMore ==
  /\ load.appends /\ busy = {} /\ ~resetting /\ hasMore /\ rows # <<>> /\ page < MaxPage
  /\ page' = page + 1 /\ UNCHANGED filter /\ Load(filter, page')
  /\ gap' = (gap \/ error)
  /\ UNCHANGED <<load, resetting, edits, save, saved>>

TimerFires(c) ==
  /\ Waiting(c) /\ calls' = [calls EXCEPT ![c].step = "out"]
  /\ busy' = busy \cup {"first"} /\ error' = FALSE
  /\ UNCHANGED <<load, filter, page, resetting, rows, hasMore, memo, edits, save, saved, overlapped, gap>>
-----------------------------------------------------------------------------
(* Answers.                                                                *)

Serve(c) ==
  /\ calls[c].step = "out" /\ calls' = [calls EXCEPT ![c].step = "back", ![c].edits = edits]
  /\ UNCHANGED <<load, filter, page, resetting, rows, hasMore, busy, error, memo, edits, save, saved, overlapped, gap>>

NeverIgnored(c) == FALSE \* mutant: cancelled is not looked at
Ignored(c) == calls[c].cancelled

AlwaysAppend(c, chunk) == Append(rows, chunk) \* mutant: page 1 is added as well
Combined(c, chunk) == IF calls[c].page = 1 THEN <<chunk>> ELSE Append(rows, chunk)

Answer(c) ==
  LET chunk == [filter |-> calls[c].filter, page |-> calls[c].page, edits |-> calls[c].edits] IN
  /\ calls[c].step = "back" /\ calls' = [calls EXCEPT ![c] = Idle]
  /\ memo' = IF load.shared THEN chunk ELSE memo
  /\ IF Ignored(c) THEN UNCHANGED <<rows, hasMore, busy>>
     ELSE /\ rows' = Combined(c, chunk) /\ hasMore' = (load.appends /\ calls[c].page < MaxPage)
          /\ busy' = {}
  /\ UNCHANGED <<load, filter, page, resetting, error, edits, save, saved, overlapped, gap>>

NoFinally(c) == busy \* mutant: the spinner stops after an answer only
Finally(c) == IF Ignored(c) THEN busy ELSE {}

Fail(c) ==
  /\ calls[c].step \in {"out", "back"} /\ calls' = [calls EXCEPT ![c] = Idle]
  /\ error' = (error \/ ~Ignored(c)) /\ busy' = Finally(c)
  /\ UNCHANGED <<load, filter, page, resetting, rows, hasMore, memo, edits, save, saved, overlapped, gap>>

\* The cache of a shared request is good for 30 or 60 seconds.
MemoExpires ==
  /\ memo # NoRows /\ memo' = NoRows
  /\ UNCHANGED <<load, filter, page, resetting, calls, rows, hasMore, busy, error, edits, save, saved, overlapped, gap>>
-----------------------------------------------------------------------------
(* Edits, from a page that has its rows.                                   *)

Save ==
  /\ load.save # "none" /\ save.step = "none" /\ edits < MaxSaves /\ rows # <<>> /\ busy = {}
  /\ save' = [save EXCEPT !.step = "out", !.filter = filter]
  /\ UNCHANGED <<load, filter, page, resetting, calls, rows, hasMore, busy, error, memo, edits, saved, overlapped, gap>>

ServeSave ==
  /\ save.step = "out" /\ edits' = edits + 1 /\ save' = [save EXCEPT !.step = "back", !.edits = edits']
  /\ UNCHANGED <<load, filter, page, resetting, calls, rows, hasMore, busy, error, memo, saved, overlapped, gap>>

\* Shows what the edit returned.
ShowSaved ==
  /\ rows' = <<[filter |-> save.filter, page |-> 1, edits |-> save.edits]>>
  /\ overlapped' = (overlapped \/ save.filter # filter \/ \E c \in Call : Live(c))
  /\ UNCHANGED <<calls, hasMore, busy, error, memo>>

\* Loads again: an effect with the filter of now, a function with the filter of the
\* render in which the edit began.
KeepRows == UNCHANGED <<calls, rows, hasMore, busy, error, memo, overlapped>> \* mutant: no reload
Reload == Load(IF load.guarded THEN filter ELSE save.filter, 1)

AnswerSave ==
  /\ save.step = "back" /\ save' = [save EXCEPT !.step = "none"] /\ saved' = save.edits
  /\ UNCHANGED filter /\ IF load.save = "answer" THEN ShowSaved ELSE Reload
  /\ UNCHANGED <<load, page, resetting, edits, gap>>

FailSave ==
  /\ save.step # "none" /\ save' = [save EXCEPT !.step = "none"]
  /\ UNCHANGED <<load, filter, page, resetting, calls, rows, hasMore, busy, error, memo, edits, saved, overlapped, gap>>
-----------------------------------------------------------------------------
Init ==
  /\ load \in Loads /\ filter \in Filter /\ page = 1 /\ resetting = FALSE
  /\ calls = [c \in Call |-> Idle] /\ rows = <<>> /\ hasMore = FALSE /\ busy = {"first"} /\ error = FALSE
  /\ memo = NoRows /\ edits = 0 /\ save = [step |-> "none", filter |-> filter, edits |-> 0] /\ saved = 0
  /\ overlapped = FALSE /\ gap = FALSE

Next ==
  \/ Start \/ \E f \in Filter : Choose(f)
  \/ ResetPage \/ LoadMore
  \/ \E c \in Call : TimerFires(c) \/ Serve(c) \/ Answer(c) \/ Fail(c)
  \/ MemoExpires
  \/ Save \/ ServeSave \/ AnswerSave \/ FailSave

Spec == Init /\ [][Next]_vars
-----------------------------------------------------------------------------
(* Properties.                                                             *)

\* No spinner, no failure, no pause in the typing: what is shown is taken for the answer.
\* (A failure is shown as a banner; the badges and the bell keep what they had in silence.)
Complete == busy = {} /\ ~error /\ ~resetting /\ rows # <<>> /\ \A c \in Call : ~Waiting(c)

\* A page that looks complete shows the rows of what is chosen now, in whatever order
\* the answers came.  Loads without the cancelled flag (the project's tabs, the story
\* list, an opened task) keep that only if none was asked for while another was on its way;
\* a shared request only if it was not begun for another account, the drawer only if
\* nobody went on from a page that failed.
ShowsTheChoice == Complete /\ ~overlapped /\ ~gap => \A i \in DOMAIN rows : rows[i].filter = filter

\* It also shows the edits that the page was told had been saved.
OwnEditsStay == Complete /\ ~overlapped /\ saved > 0 => rows[1].edits >= saved

\* The drawer shows all pages up to the one reached, each once, unless one failed and
\* the user went on.
PagesInOrder ==
  Complete /\ load.appends /\ ~gap => Len(rows) = page /\ \A i \in DOMAIN rows : rows[i].page = i

\* No spinner turns for ever: while one is shown a request is on its way.
SpinnerEnds == busy # {} /\ (rows # <<>> \/ error) => \E c \in Call : Live(c)

=============================================================================
