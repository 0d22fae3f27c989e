---------------------------- MODULE MCDecisions ----------------------------
(* Every history of up to six checks, with response times on both sides of  *)
(* the slow threshold and a missing one; and the rows over which the pure   *)
(* modules are compared.  A scope looks at one user, so one user and        *)
(* "somebody else" (NoUser) make every case; a website in a project is not  *)
(* looked at for its own owner and PICs.                                    *)
EXTENDS SequentialMonitoring, ReadModels, RoleGuards, ProjectTeams, Probes

MCResponseTimes == {NoResponseTime, SlowThresholdMs - 1, SlowThresholdMs}

MCProject == [picDeveloperId : Person, picWeb : SUBSET UserId, developers : SUBSET UserId, archived : {FALSE}]
MCWebsite ==
  [project : MCProject, ownerId : {NoUser}, itPicId : Person, backupItPicId : {NoUser}, isActive : {TRUE}]
    \cup [project : {NoProject}, ownerId : Person, itPicId : Person, backupItPicId : Person, isActive : BOOLEAN]

\* The board's rows: with and without project, website, developers, stories and deadline.
MCNever == -1
MCLed(p) == [picDeveloperId |-> p, picWeb |-> {}, developers |-> {}, archived |-> FALSE]
MCSite(p) == [project |-> p, ownerId |-> NoUser, itPicId |-> NoUser, backupItPicId |-> NoUser, isActive |-> TRUE]
MCStory(s, due) == [status |-> s, dueDate |-> due, completedAt |-> Never]
MCBoardTicket ==
  {t \in [project : {NoProject} \cup {MCLed(p) : p \in Person}, website : {NoSite, MCSite(NoProject)},
          createdBy : UserId, assignedTo : Person, userStory : SUBSET UserId, storyLinks : SUBSET UserId,
          status : {"open", "resolved"}, override : {Unset, "blocked"},
          stories : SUBSET {MCStory("ready", Now - 1), MCStory("done", Never)},
          slaDeadline : {Never, Now - 1}, updatedAt : {Now}, resolvedAt : {Never}, priority : {"medium", "high"},
          found : {{}, {"ticketNumber"}, {"title"}, {"projectName"}}] :
     /\ t.stories = {} => t.userStory = {} /\ t.storyLinks = {}
     /\ t.project = NoProject => t.found # {"projectName"}}
MCLegacyTask ==
  [status : {"pending", "in_progress", "done"}, website : {MCSite(p) : p \in {NoProject, MCLed(NoUser)}},
   assignee : Person, slaDeadline : {Never, Now - 1}, updatedAt : {Now},
   found : {{}, {"instructionNotes"}, {"projectName"}}]
MCAsk == [project |-> Unset, general |-> FALSE, website |-> Unset, developer |-> Unset, status |-> Unset,
          priority |-> Unset, overdue |-> Unset, needs_action |-> Unset, search |-> FALSE]
\* One criterion at a time, and the contradictory pair: the filters are conjunctions.
MCQuery ==
  {[MCAsk EXCEPT !.project = p, !.general = g] : p \in {Unset} \cup {MCLed(x) : x \in Person}, g \in BOOLEAN}
    \cup {[MCAsk EXCEPT !.website = MCSite(NoProject)], [MCAsk EXCEPT !.search = TRUE]}
    \cup {[MCAsk EXCEPT !.developer = x] : x \in UserId}
    \cup {[MCAsk EXCEPT !.status = x] : x \in TaskBusinessStatus}
    \cup {[MCAsk EXCEPT !.priority = x] : x \in {"medium", "high"}}
    \cup {[MCAsk EXCEPT !.overdue = x] : x \in BOOLEAN} \cup {[MCAsk EXCEPT !.needs_action = x] : x \in BOOLEAN}

\* Two websites, and a project that exists with nobody or with the user in every place.
MCNoKey == -1
MCSiteColumns ==
  [ownerId : Person, itPicId : Person, backupItPicId : Person, isActive : BOOLEAN, nameTaken : {FALSE}]
    \cup [ownerId : {NoUser}, itPicId : {NoUser}, backupItPicId : {NoUser}, isActive : {TRUE}, nameTaken : {TRUE}]
MCOldProject ==
  {[picDeveloperId |-> p, picWeb |-> UserId \cap {p}, developers |-> UserId \cap {p}, status |-> s] :
     p \in Person, s \in {"draft", "active", "archived"}}
-----------------------------------------------------------------------------
(* The tables, scopes and other pure functions change with no state: they   *)
(* are compared once, before the first check.                               *)

\* Whoever is given work reaches it by every way that leads to it: the scopes of tickets,
\* stories and websites, each written several times, agree wherever one user meets two.
ReachFollowsWork ==
  Init =>
    /\ SiteReachedWithItsProject /\ CreatorSeesTicket /\ AssigneeReachesStory /\ StoryKeepsTicketInReach
    /\ PagesAreWhole /\ BoardServesTheSameTickets /\ StoryListsAgree /\ IntakeMakesNoLegacyTask

\* The copies of the role table (pages, navigation, controllers, services) are one table.
RoleTablesAgree ==
  Init =>
    /\ PagesSendOnlyWhatIsServed /\ NavigationsAgree

\* Two filters, one order, pages and an overview, and one list of rows behind them all.
BoardShowsItsRows ==
  Init =>
    /\ PrefilterDropsNothing /\ RowNamesItsReaders /\ RowsHaveOneOrder /\ EveryRowOnOnePage /\ OverviewAgreesWithList

\* Whatever is counted, filtered or shown in two places is the same in both.
ReadersAgree ==
  Init =>
    /\ OneLatestResult /\ HealthIsWorstCard /\ WorkCountsAgree /\ StoryGroupsAgree
    /\ ProjectFiltersMatchCards /\ ListsAndBadgesAgree /\ BellAgreesWithList

\* A change of a team, by its editor or by the backfill, leaves in sight of everybody
\* what was in his sight and shows nothing new to anybody else.
TeamsKeepSight ==
  Init =>
    /\ TeamIsWhoReaches /\ BackfillKeepsSight /\ BackfillIsRepeatable /\ BackfillJoinsTickets

\* What the worker sends out: to safe targets only, with the status the chain of answers
\* deserves, and no message twice.
OutsideCallsHold ==
  Init =>
    /\ OnlySafeTargetsAsked /\ StatusIsOfTheChain /\ AcceptedIsMeasured /\ BackoffSendsOnce
=============================================================================
