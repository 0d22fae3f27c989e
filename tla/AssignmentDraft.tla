-------------------------- MODULE AssignmentDraft --------------------------
(***************************************************************************)
(* The workspace in which an administrator edits the developers of a       *)
(* project: the page's copy of the project, a draft, a dialog before       *)
(* developers are removed, and saves that replace the whole team on the    *)
(* server, where others edit it as well.                                   *)
(***************************************************************************)
EXTENDS Naturals, FiniteSets

CONSTANTS Developer, Put, \* slots for saves on their way
          NoTeam, MaxWrites

TeamsAssumption == MaxWrites \in Nat /\ \A T \in SUBSET Developer : T # NoTeam

VARIABLES
  team, activeStories, \* on the server: developers, whether stories are under way
  project,          \* the page's copy of the team
  open, draft,      \* the workspace is shown, its draft
  confirmRemoval, saving,
  puts,             \* saves on their way
  settings,         \* another edit of the project on its way, which also returns the team
  writes,           \* number of saves of this tab and of others
  expected,         \* history: the team the latest save should leave
  reopened, mixed,  \* history: the workspace was left during a save; answers met
  unasked           \* history: developers removed without a question

vars == <<team, activeStories, project, open, draft, confirmRemoval, saving, puts, settings,
          writes, expected, reopened, mixed, unasked>>

Team == SUBSET Developer
NoPut == [step |-> "none"]
PutRecord == [step : {"out", "written", "back"}, sent : Team, seen : Team, asked : Team, got : Team, here : BOOLEAN]
Under(p) == puts[p] # NoPut
Quiet == \A p \in Put : ~Under(p)

TypeOK ==
  /\ team \in Team /\ activeStories \in BOOLEAN /\ project \in Team
  /\ open \in BOOLEAN /\ draft \in Team
  /\ confirmRemoval \in BOOLEAN /\ saving \in BOOLEAN
  /\ puts \in [Put -> PutRecord \cup {NoPut}]
  /\ settings \in [step : {"none", "out", "back"}, got : Team]
  /\ writes \in 0 .. MaxWrites
  /\ expected \in Team \cup {NoTeam} /\ reopened \in BOOLEAN /\ mixed \in BOOLEAN /\ unasked \subseteq Developer
  /\ confirmRemoval => open

Init ==
  /\ team \in Team /\ activeStories \in BOOLEAN /\ project = team
  /\ open = FALSE /\ draft = {} /\ confirmRemoval = FALSE /\ saving = FALSE
  /\ puts = [p \in Put |-> NoPut] /\ settings = [step |-> "none", got |-> {}]
  /\ writes = 0 /\ expected = NoTeam /\ reopened = FALSE /\ mixed = FALSE /\ unasked = {}
-----------------------------------------------------------------------------
(* The workspace. *)

Usable == open /\ ~confirmRemoval
dirty == draft # project
removedDevelopers == project \ draft

\* The tab is shown: a new draft, whatever is on its way.
Open ==
  /\ ~open /\ open' = TRUE /\ draft' = project /\ saving' = FALSE
  /\ reopened' = (reopened \/ ~Quiet)
  /\ UNCHANGED <<team, activeStories, project, confirmRemoval, puts, settings, writes, expected, mixed, unasked>>

\* Another tab is shown: the draft is gone without a question.
Leave ==
  /\ Usable
  /\ open' = FALSE /\ draft' = {} /\ saving' = FALSE
  /\ puts' = [p \in Put |-> IF Under(p) THEN [puts[p] EXCEPT !.here = FALSE] ELSE NoPut]
  /\ UNCHANGED <<team, activeStories, project, confirmRemoval, settings, writes, expected, reopened, mixed, unasked>>

\* A chip's cross, or the drawer's choice: the drawer covers the workspace and has a
\* draft of its own, which nothing else touches, so that opening it and applying it is
\* one step.
EditDraft(t) ==
  /\ Usable /\ draft' = t
  /\ UNCHANGED <<team, activeStories, project, open, confirmRemoval, saving, puts, settings, writes, expected, reopened, mixed, unasked>>
ResetDraft ==
  /\ Usable /\ dirty /\ ~saving /\ draft' = project
  /\ UNCHANGED <<team, activeStories, project, open, confirmRemoval, saving, puts, settings, writes, expected, reopened, mixed, unasked>>
-----------------------------------------------------------------------------
(* Saving. *)

performSave(asked) ==
  /\ writes < MaxWrites /\ writes' = writes + 1
  /\ \E p \in Put :
       /\ ~Under(p)
       /\ puts' = [puts EXCEPT ![p] = [step |-> "out", sent |-> draft, seen |-> project, asked |-> asked,
                                       got |-> {}, here |-> TRUE]]
  /\ saving' = TRUE /\ expected' = draft /\ reopened' = (reopened /\ ~Quiet)
  /\ mixed' = (settings.step # "none" \/ ~Quiet)

MayAlwaysSave == TRUE \* mutant: the button is not disabled while saving
MaySave == dirty /\ ~saving

NeverAsk == FALSE \* mutant: no dialog
MustAsk == removedDevelopers # {} /\ activeStories

RequestSave ==
  /\ Usable /\ MaySave
  /\ IF MustAsk THEN confirmRemoval' = TRUE /\ UNCHANGED <<saving, puts, writes, expected, reopened, mixed>>
     ELSE performSave({}) /\ UNCHANGED confirmRemoval
  /\ UNCHANGED <<team, activeStories, project, open, draft, settings, unasked>>

Confirm ==
  /\ confirmRemoval /\ confirmRemoval' = FALSE
  /\ \/ performSave(removedDevelopers)
     \/ UNCHANGED <<saving, puts, writes, expected, reopened, mixed>> \* "back"
  /\ UNCHANGED <<team, activeStories, project, open, draft, settings, unasked>>

\* The server replaces the team, and reads the project for its answer afterwards.
WritePut(p) ==
  /\ Under(p) /\ puts[p].step = "out" /\ puts' = [puts EXCEPT ![p].step = "written"]
  /\ team' = puts[p].sent
  /\ unasked' = unasked \cup
       (IF activeStories /\ team = puts[p].seen THEN (team \ puts[p].sent) \ puts[p].asked ELSE {})
  /\ UNCHANGED <<activeStories, project, open, draft, confirmRemoval, saving, settings, writes, expected, reopened, mixed>>
ReadBack(p) ==
  /\ Under(p) /\ puts[p].step = "written" /\ puts' = [puts EXCEPT ![p].step = "back", ![p].got = team]
  /\ UNCHANGED <<team, activeStories, project, open, draft, confirmRemoval, saving, settings, writes, expected, reopened, mixed, unasked>>

KeepProject(p) == project \* mutant: the page keeps its old copy
NewProject(p) == puts[p].got

\* onSaved: the answer becomes the page's copy; the draft may have changed meanwhile.
AnswerPut(p) ==
  /\ Under(p) /\ puts[p].step = "back" /\ puts' = [puts EXCEPT ![p] = NoPut]
  /\ project' = NewProject(p)
  /\ saving' = (saving /\ ~puts[p].here)
  /\ confirmRemoval' = (confirmRemoval /\ ~puts[p].here)
  /\ UNCHANGED <<team, activeStories, open, draft, settings, writes, expected, reopened, mixed, unasked>>

\* A refusal (a member was deactivated), or no answer: the save may have been written,
\* or even still be.
FailPut(p) ==
  /\ Under(p) /\ puts' = [puts EXCEPT ![p] = NoPut]
  /\ \/ team' = team
     \/ puts[p].step = "out" /\ team' = puts[p].sent
  /\ saving' = (saving /\ ~puts[p].here) /\ expected' = NoTeam
  /\ UNCHANGED <<activeStories, project, open, draft, confirmRemoval, settings, writes, reopened, mixed, unasked>>
-----------------------------------------------------------------------------
(* Other edits: of the project's settings in this tab, of the team by others. *)

SaveSettings ==
  /\ settings.step = "none" /\ ~confirmRemoval
  /\ settings' = [settings EXCEPT !.step = "out"] /\ mixed' = (mixed \/ ~Quiet)
  /\ UNCHANGED <<team, activeStories, project, open, draft, confirmRemoval, saving, puts, writes, expected, reopened, unasked>>
ServeSettings ==
  /\ settings.step = "out" /\ settings' = [step |-> "back", got |-> team]
  /\ UNCHANGED <<team, activeStories, project, open, draft, confirmRemoval, saving, puts, writes, expected, reopened, mixed, unasked>>
AnswerSettings ==
  /\ settings.step = "back" /\ settings' = [settings EXCEPT !.step = "none"]
  /\ project' = settings.got
  /\ UNCHANGED <<team, activeStories, open, draft, confirmRemoval, saving, puts, writes, expected, reopened, mixed, unasked>>

OtherAdmin(t) ==
  /\ writes < MaxWrites /\ writes' = writes + 1 /\ t # team /\ team' = t /\ expected' = NoTeam
  /\ UNCHANGED <<activeStories, project, open, draft, confirmRemoval, saving, puts, settings, reopened, mixed, unasked>>

Next ==
  \/ Open \/ Leave \/ ResetDraft \/ \E t \in Team : EditDraft(t)
  \/ RequestSave \/ Confirm
  \/ \E p \in Put : WritePut(p) \/ ReadBack(p) \/ AnswerPut(p) \/ FailPut(p)
  \/ SaveSettings \/ ServeSettings \/ AnswerSettings
  \/ \E t \in Team : OtherAdmin(t)

Spec == Init /\ [][Next]_vars
-----------------------------------------------------------------------------
(* Properties. *)

\* When the saves of this tab are done and nobody else wrote, the server has the team of
\* the latest one, unless the workspace was left while a save was on its way: the new one
\* may save beside it.
LastSaveWins == Quiet /\ expected # NoTeam /\ ~reopened => team = expected

\* While stories are under way, no save takes a developer from the team that the page
\* knew without asking.  (Developers whom others added meanwhile go unasked.)
RemovalsAreAsked == unasked = {}

\* After a save the workspace is clean exactly if nothing was changed meanwhile: the page's
\* copy is the server's team, unless another edit's answer met the save's.
SavedIsKnown == Quiet /\ settings.step = "none" /\ expected # NoTeam /\ ~mixed => project = expected
=============================================================================
