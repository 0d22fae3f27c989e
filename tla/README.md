# EGI Web Monitoring: verification project

This directory holds TLA+ models of EGI Web Monitoring, the TLC configurations
that check them on small instances, and TLAPS proofs of what matters most for
instances of every size. All paths below are relative to the repository root.

The system checks websites every minute, decides from the last checks whether a
website has an incident, opens and resolves incidents and tickets, notifies
people, and lets staff work on the incidents, tickets, projects and requests
through an API and a web front end. It is hard in three places: the monitoring path (a
scheduler, a BullMQ queue, several workers with several concurrent executors
each, a Redis lock per website, a PostgreSQL transaction lock), the API, whose
handlers read rows and write them later while others do the same, and the
browser, where requests, tabs and timers overlap. Beside them stands a body of
rules (who sees what, how rows are counted, filtered and ordered) that
the code writes down several times and that must agree with itself.

## 1. Inventory

### 1.1 Components

| Component | Source | State it keeps | Operations |
|---|---|---|---|
| Scheduler | `apps/scheduler/src` | `lastSlotIso`, `ticking` per process; the tick lock in Redis | `tick`, `enqueueSlot`, acquire and release of the tick lock |
| Queue package | `packages/queue/src` | BullMQ jobs by id, their attempts and state | `enqueueMonitoringJob`, `enqueueNotificationJob`, backoff, metrics |
| Monitoring worker | `apps/worker/src/main.ts`, `website-lock.ts`, `rules-apply.ts` | locals of each running job; the website lock; rows of `monitoring_results`, `incidents`, `tickets`, `notifications` | `processMonitoringJob`, `persistCheckAndEvaluate`, `createIncidentFlow`, `resolveIncidentFlow`, `createLifecycleNotifications` |
| Monitoring rules | `packages/monitoring-rules/src` | none | `deriveCheckStatus`, `evaluateIncidentRules`, `applyCardStatusOverride` |
| Notification delivery | `apps/worker/src/notifications`, `main.ts` | rows pending, sent or failed; one job per row | `dispatchNotification`, `markNotificationFailed`, `reconcilePendingNotifications`, retention |
| Probes, target safety | `apps/worker/src/probes.ts`, `target-safety.ts`, the API's `monitoring-url.ts` | none | redirect chain, address checks |
| Notification transports | `.../notifications/telegram.ts`, `email.ts` | the time of the last send | sending, backoff after a flood answer |
| Incidents API | `apps/backend/src/modules/incidents` | `incidents` | `update`, `close`, lists, count |
| Tickets and tasks | `.../tickets`, `.../tasks` | `tickets`, `tasks`, their mirrored statuses | create, update, `syncTaskFromTicket`, `syncTicketFromTask`, assignment notices |
| User stories | `.../user-stories` | stories, links to tickets, assignees | create from ticket or in project, update, `syncTicketsFromStory` |
| Project requests | `.../project-requests` | requests and their status | create, update, `requestInfo`, reject, approve |
| Projects, websites | `.../projects`, `.../websites` | projects, teams, the project of each website | create, update, add and remove website, replace the team |
| Project backfill | `apps/backend/scripts/project-backfill.ts` | the same rows | one run over old rows |
| Authentication, users | `.../auth`, `.../users` | refresh sessions, reset tokens, users | login, refresh, logout, forgot and reset password, deactivation |
| Access control | `packages/shared-types/src/rbac.ts`, `common/resource-access.ts`, guards, decorators | none | role tests, visibility scopes |
| Task monitoring, workload, dashboard | `.../task-monitoring`, `.../workload`, `.../dashboard` | none of their own | rollup, rows, filters, overview, counts |
| Monitoring results, notifications API | `.../monitoring`, `.../notifications` | read flags | latest result, history; list, count, read one, read all |
| Frontend client and session | `apps/frontend/src/lib/api.ts`, `auth-context.tsx`, `auth-storage.ts` | GET cache and its generation, tokens, the refresh lease shared by tabs, current user | `apiFetch`, `clearApiCache`, `ensureRefresh`, `refreshUser` |
| Frontend pages and helpers | `apps/frontend/src/app`, `components`, `lib` | rows shown, drafts, timers, badges | load, page, cancel, save, reload; navigation by role |
| Logging, deployment, test scripts | `packages/logging`, `deploy`, `infra`, `apps/backend/scripts` | none of interest | output, configuration |

### 1.2 How they interact

- The scheduler adds one job per website and due minute (`mon_<website>_<slot>`).
  Several scheduler instances compete for a Redis lock that lives 55 seconds; the job id
  makes a slot that two of them release one job.
- The worker takes jobs. For one website the Redis lock (120 seconds) keeps
  executors apart; a job that finds it taken is moved back to the delayed set.
- A check reads earlier rows and the active incident, evaluates the rules, saves
  its row under a unique key `(website, slot)` and only then opens or resolves an
  incident. Opening takes a PostgreSQL advisory lock and looks again for an
  active incident; resolving writes by id.
- Each lifecycle event makes notification rows; each email or Telegram row gets a
  job `notif_<row>`. A periodic reconciliation enqueues rows still pending.
- Staff change incidents, tickets, tasks, stories, requests and projects through the
  API: a handler reads rows, checks them, and writes later. A ticket and its
  task mirror each other, a story writes its tickets, the worker resolves the
  tickets of a recovered incident. Only the approval of a request is serializable.
- A user has a refresh cookie whose hash one row of `user_sessions` knows; each refresh
  replaces it by a guarded update.
- The front end caches GET answers per generation, shares one token refresh
  between requests and between tabs, and rebuilds its identity from it. Pages load
  on their own, most with a `cancelled` flag, some without.

### 1.3 What is hard, and what makes each component correct

| Component | Hard behaviour | Correctness |
|---|---|---|
| Monitoring rules | counting windows that include the current check; unmeasured checks; grace for a first failure | agree with the whole history: an incident is active exactly when two consecutive failures have not been followed by two consecutive successes |
| Worker pipeline | overlapping checks, slots out of order, lock expiry under a running check, errors and crashes between the row and the incident, stalled jobs handed out twice, staff edits in between | one check at a time; one incident per slot; one active incident; incidents rest on recorded failures; events announced once and in order; an outage without incident costs a fault; every job settles |
| Scheduler | several instances, the lock expiring in the middle of a slot, an error in the middle of a slot, a restart | each due slot is released, at most one job per website and slot; a slot interrupted by an error is the hard case |
| Notifications | the remote side accepts a message and the answer or the write is lost; a finished job keeps its id; rows pending for ever | a duplicate costs a fault; a row is given up only after all attempts; every row settles or hides behind a failed job |
| Probes, Telegram | a name that resolves differently from one look to the next; redirects to anywhere; a retry inside a delivery that is retried itself | only safe targets are asked; the status is that of the chain; one call sends one message |
| Tickets, tasks, stories | mirrored statuses written in separate operations; read-then-write edits; the worker's recovery | mirrors agree; finished work is not begun again by a write that knew of it; the assignee was told |
| Requests, projects | read-then-write decisions of two reviewers; last website removed twice; a website taken twice | one project per approved request; a decision is final; an active project keeps a website |
| Sessions | rotation racing replay, logout and reset | one live token per chain; a token and a reset link work once; a reset ends what was before it |
| Access, boards, readers | the same rule in SQL, in memory, in the page and in the role table | the copies agree |
| Browser | tabs without Web Locks; answers of requests that started before a cache clear, a login, an edit or another choice; drafts under a reload | no session lost without a cause; no stale or foreign answer kept; a page at rest shows what was chosen |

Every hazard is listed, with its line and the properties that watch it, in `PROJECT.json`.

## 2. Plan

Done, in the order in which it was built: the rules and their sequential reference;
the check pipeline, its abstract specification, refinements and proofs; the scheduler;
notification delivery; work items; requests and projects; sessions and their
refinement of a chain of tokens; the browser; access, boards and readers; probes and
the Telegram call; the proofs of each, those of the browser and of the comparisons last.

Left:

1. **Composition**: the scheduler's jobs as the input of the pipeline
   (`Scheduler` instead of `ReleaseSlot`), and the pipeline's announcements as the rows of
   `NotificationDelivery`.
2. Liveness of the browser's refresh under fair timers.

## 3. Modules

| Module | Models | Source |
|---|---|---|
| `MonitoringRules` | classification and incident rules as operators | `packages/monitoring-rules/src/index.ts` |
| `SequentialMonitoring` | one website, checks one after the other, nothing goes wrong | `rules-apply.ts` 39-126 |
| `CheckPipeline` | one website: jobs, executors, website lock, rows, incidents, tickets, announcements, staff | `worker/src/main.ts` 49-134, `website-lock.ts`, `rules-apply.ts`, `queue/src/index.ts`, `incidents.service.ts` 125-170 |
| `IncidentLifecycle` | what the pipeline promises, without its machinery | abstract |
| `CheckPipelineRefinement` | the two refinement mappings | |
| `CheckPipelineProofs` | proofs: types, locks, one incident per slot, one active, the life of an incident, the refinements of `IncidentLifecycle` and `SequentialMonitoring` | |
| `Scheduler` | scheduler instances, tick lock, due websites, job ids | `scheduler/src`, `queue/src/index.ts` 111-141 |
| `NotificationDelivery` | rows, jobs, delivery, reconciliation | `worker/src/notifications/*`, `worker/src/main.ts` 136-185, `queue/src/index.ts` 143-158 |
| `SchedulerProofs`, `NotificationDeliveryProofs` | proofs | |
| `Probes` | redirects, target safety and its copy in the API, Telegram's backoff | `probes.ts`, `target-safety.ts`, `telegram.ts`, `monitoring-url.ts` |
| `WorkItems` | tickets, tasks, stories, their mirrors, reassignment, recovery | `tickets.service.ts`, `tasks.service.ts`, `user-stories.service.ts`, `rules-apply.ts` 231-283 |
| `WorkItemsProofs` | proofs | |
| `ProjectIntake` | requests, approval, projects and their websites | `project-requests.service.ts`, `projects.service.ts`, `websites.service.ts` |
| `ProjectIntakeProofs` | proofs | |
| `ProjectTeams` | who may be assigned, how a team is written, the backfill | `projects.service.ts`, `project-backfill.ts` |
| `AuthSessions` | sign-in sessions, password resets | `auth.service.ts`, `users.service.ts` |
| `TokenChain` | what a session promises | abstract |
| `AuthSessionsProofs` | proofs | |
| `Rbac`, `AccessScopes` | role tests; what each service shows to whom | `rbac.ts`, `resource-access.ts`, the services |
| `RoleGuards` | what controllers serve, what pages send, what the navigation offers | controllers, pages, `mobile-navigation.ts` |
| `TaskBoard` | rows of the board, their two filters, order, pages, overview | `task-monitoring.*.ts` |
| `ReadModels` | latest results, counts of work, list filters, badges, the bell | `dashboard`, `monitoring`, `workload`, `projects`, `notifications`, `me` services |
| `TabRefresh` | tabs of one browser sharing a sign-in | `api.ts`, `auth-context.tsx`, `auth-storage.ts` |
| `ApiReads` | cached, shared and retried calls of one tab | `api.ts` |
| `PageLoads` | how each page loads, pages, cancels, saves | pages and helpers of `apps/frontend/src` |
| `AssignmentDraft` | the assignment editor | `AssignmentWorkspace.tsx`, the project's page |
| `BuildUpdate` | a new build found by an open tab | `BuildUpdateMonitor.tsx`, `build-update.ts`, `unsaved-changes.tsx` |
| `LiveViewer` | the frame that shows a website | `LiveWebsiteViewer.tsx`, `live-website-viewer.ts` |
| `DecisionsProofs` | proofs: the rules (`SequentialMonitoring`), and that the copies agree (`AccessScopes`, `RoleGuards`, `TaskBoard`, `ReadModels`, `ProjectTeams`, `Probes`) | |
| `BrowserProofs` | proofs: the six modules of the browser | |
| `MC*` | the symmetry, constraints and constant definitions of the configurations; `MCDecisions` and `MCBrowser` join the parts of one run | |

### 3.1 `CheckPipeline`

| Variable | In the code |
|---|---|
| `now` | slots the scheduler has released; ages of jobs are counted in slots, so `LateSlots` stands for `LATE_JOB_SKIP_MS` |
| `job[s]` | the BullMQ job `mon_<website>_<slot>`: state, owner of its lock token, attempts made, stalls |
| `pc`, `slot`, `raw`, `seen`, `plan`, `target`, `todo`, `failed` | the position and the locals of each running `processMonitoringJob`: `raw` the derived status, `seen` the rows read before the insert, `plan` the rule action, `target` the incident in hand, `todo` the events to announce, `failed` whether `finally` was entered by an error |
| `lock`, `lost` | `egi:website-lock:<id>` in Redis; the executors it expired under |
| `advisory` | the holder of `pg_advisory_xact_lock` in `createIncidentFlow` |
| `results` | rows of `monitoring_results`, at most one per slot (the unique key) |
| `incident`, `ticket`, `notified` | the website's incidents, the ticket of each, lifecycle events announced |
| `staff` | an API request between its read and its write |

Each action is the code between two awaits. `StartJob`, `SkipLate`, `SkipRecorded`,
`NotRecorded`, `AcquireWebsiteLock`, `DelayBusy`, `SkipInactive`, `RunProbes` and
`ReleaseWebsiteLock` are `processMonitoringJob`; `ReadPrevious`,
`ReadActiveIncident`, `InsertResult`, `ResultAlreadyExists` are
`persistCheckAndEvaluate`; `BeginCreate` to `CommitIncident` the transaction of
`createIncidentFlow`; `ResolveIncident` and `ResolveTickets` the two writes of
`resolveIncidentFlow`; `Announce` is `createLifecycleNotifications` for one event.
`Throw` is a rejected promise at any await, `Crash` the death of the process, `Stall`
BullMQ's stalled-job checker, `ExpireLock` Redis's expiry. `StaffReads` and `StaffWrites`
are `IncidentsService.update` and `close`, which read and write outside a transaction.

Choices of the abstraction:

- Time. A delayed job may become ready at any later moment, an abandoned lock
  may expire at any moment, so every order of the real delays is included.
- `checkedAt` is the number of rows the check found; it only orders rows.
- A probe's result is its derived status. The derivation is checked in
  `SequentialMonitoring` and `Probes`.
- Rows that predate the `raw_status` column (`LegacySlots`) exist from the start
  with any card, because `previousChecks` falls back to their `status`.
- The scheduler releases a slot again only during its minute. A scheduler tick that runs
  into the next minute is in `Scheduler`, not here.
- A mapped `Guarded` step that throws passes through `finally`; one outside does not.

### 3.2 `Scheduler`

The clock counts quarters of a minute, because the timer fires every 15 seconds
and the lock lives 55: a lock set in quarter *q* expires in *q*+3 or *q*+4. `fired` says
whose timer has fired in the quarter. `slot` and `todo` are the locals of `tick` and
`enqueueSlot`, `lastSlot` is `lastSlotIso`, `ticking` is "`pc` is neither idle nor
down". `FindJob`/`KeepJob`, `RemoveJob` and `AddJob` are the awaits of
`enqueueMonitoringJob`. `LoseAnswer` is a SET that Redis executed and whose answer
was lost; ioredis sends it again and NX refuses it. `excused` and `slow` are history
variables for `EverySlotReleased`: the slots in which something broke that no later tick of the minute makes
good, and whether a tick has ever outlasted its quarter. Something broke for good when an error or
a crash hits `enqueueSlot`, when a lock is left without a holder (it blocks the minute it was set
in, and the next one if it was set in the last quarter), when nobody is up at the end of the
minute, and when the SET of the minute's last tick rejects (`LastTry`). The last case takes
two faults, a crash before it and the rejection; the attempt to prove `EverySlotReleased` found
it.

### 3.3 `NotificationDelivery`

`status` is the row, `job` the job `notif_<id>`, `unqueued` the rows whose creator has not
called enqueue (the ticket service never does), `batch` the rows one
reconciliation read. `Send` has four outcomes: accepted, refused, not configured, and
accepted with the answer lost. `HandleError` is the catch of
`processNotificationJob`, `MarkFailed` the last word, `LastWordFails` its failure.
`accepted`, `tried` and `unconfigured` are history variables. Dashboard rows are
created sent and are left out.

### 3.4 `WorkItems`, `ProjectIntake`

Both have handlers that hold what they read (`req`) between their two steps: `Read...`
is the handler up to its last check, `Write...` its write by id, `Abort` a request
that is refused, or whose connection or transaction is lost. Two history variables say who is to
blame for what no lock prevents: `overtaken` holds the handlers whose row somebody
else wrote since they read it, `raced` the rows that such a handler then wrote.
Properties that a race of two read-then-write edits can break name these two, so they say
exactly what is promised in spite of the races and what is not; nothing else is excused. The
serializable approval is never excused.

In `WorkItems` a transaction is one step because of its row locks, except where it reads
without a lock and writes later: the task's mirror (`syncTicketFromTask`) and the worker's
recovery (`FindActiveTickets`, then one write). `told` is who got the latest assignment notice.
In `ProjectIntake` a website that moves counts as a write of the projects it leaves and
enters; `made` holds the projects made for a request.

### 3.5 `AuthSessions`

A session's row accepts exactly the token `current`; the guarded updates (`updateMany` with
the old value in its condition) are one step each, everything else is a read and a later
step. A login compares the password first and issues its session later: one that a reset
overtakes is `crossed`. `accepted` counts how often each token was exchanged, `redeemed` how
often each link set a password. `ChainState` maps a row to a session of `TokenChain`, whose
exchanges are `accepted` itself: token *n* is exchanged after all before it and before all after
it. (A chain that only counts its exchanges would be weaker, and its mapping a sum that no prover
here reasons about.)

### 3.6 Access, boards, readers

`Rbac`, `AccessScopes`, `RoleGuards`, `TaskBoard`, `ReadModels`, `ProjectTeams` and `Probes`
are operators, one for each query, guard or function of the code and named after it. A
query is the condition it puts on a row, so that the copies of one rule can be
compared over all rows: TLC does it for a small universe, the proofs for any. Their properties need
no state; TLC evaluates them in the initial state of the run of the sequential rules, which
is what `Init =>` in `MCDecisions` says. `RoleGuards` has one record per endpoint and per
page: `Serves` is the roles that the guards let through (`Controllers`) and that the service does
not refuse (`Services`). What the rows must satisfy is in three assumptions:
`RowsAssumption` (the markers for "no user", "no project" and "no website" are no rows),
`BoardAssumption` (times are numbers, the fields of a legacy task are those of its table) and
`ReadersAssumption` (there is a user, and the marker for an unset filter is none of its values).

### 3.7 The browser

`TabRefresh` numbers tokens as they are issued. A tab's refresh moves through `at` (waiting
for the lease or the lock, asking, retrying), its other activity through `act` (bootstrap,
login, logout); requests are in `sent`, on their way out or back, and a tab may be
closed or a request lost at any time (`faults`). In `ApiReads` the server's data is the number of
edits applied, so an answer's age can be compared with what the page was told. `PageLoads` is one
module for all pages: `load` is a record of what the code of one load does (a `cancelled`
flag, a pause, added pages, a shared request, what a save does), every page has its record,
and a behaviour follows one of them. `BuildUpdate`, `AssignmentDraft` and `LiveViewer`
follow their components' callbacks. `undone` of `BuildUpdate` is a history variable: the page wrote
another build into `attempted` while it was leaving for one, because an older answer came or the banner's
button was pressed. The attempt to prove `OneReloadPerDeploy` found the second way, which needs three
builds to cost a reload. `MCBrowser` runs the six modules in one run: they share
no state, so a behaviour follows one of them, `part` says which, and `v1` to `v21` are that
module's variables.

## 4. Checks

Every run must find no error. Every property has mutants in `PROJECT.json`: plausible bugs in
mapped definitions under which the same run finds the property violated. A property
that is a conjunction has a mutant for each of its parts but the types.
The mutants stand before their originals in the modules, marked as such ("Mutant", "A slip").

| Run | Constants | Shows |
|---|---|---|
| `decisions` | every sequence of 6 checks over all probe outcomes and three response times around 5000 ms; one user and "somebody else", one criterion of a query at a time, chains of up to six redirects whose last hop repeats | `RulesMatchHistory`: the incremental rules agree with formulas over the whole history. Six checks hold an outage, a recovery and the start of a second outage. `ReachFollowsWork`, `RoleTablesAgree`, `BoardShowsItsRows`, `ReadersAgree`, `TeamsKeepSight`, `OutsideCallsHold`: the copies of each rule agree |
| `pipeline_overlap` | 2 executors, 1 staff, 2 incidents, 3 slots (1 legacy), always down, 1 fault, locks expire under running checks | `HolderKeepsLock`, `OneIncidentPerSlot`, `AtMostOneActive` |
| `pipeline_faults` | 2 executors, 4 slots, normal or down, 1 fault, no overrun | `OneCheckAtATime`, `AnnouncedOnceInOrder`, `LostIncidentCostsFault`: 4 slots hold an outage and its recovery |
| `pipeline_liveness` | 2 executors, 3 slots, 1 fault, 1 stall | `PipelineProgresses` under the fairness of 4.1 |
| `pipeline_lifecycle` | 2 executors, 1 staff who resolve and close, 3 slots, overlapping and overtaken checks | `IncidentRestsOnTwoFailures`; the pipeline implements `IncidentLifecycle` |
| `pipeline_sequential` | 1 executor, 5 slots, all four statuses | the undisturbed pipeline implements `SequentialMonitoring` |
| `scheduler_slots` | 2 instances, websites of interval 1 and 2, 9 quarters (no tick starts in the last, which only shows what the others left), 1 fault, ticks of any length | `OneScheduler`, `EverySlotReleased`, `JobsInHandStay`. Nine quarters end two minutes: one with the fault and the one after it |
| `notification_delivery` | 2 notifications, 2 executors, 3 attempts, 1 stall, 1 fault | `SentWasAccepted`, `DuplicatesCostFaults`, `FailedAfterAllAttempts`, `CompletedIsSettled`, and that a row stays pending only behind a failed job |
| `work_items` | 1 ticket with its task, 1 story, 2 developers, 2 handlers | `RowsAgree`, `AssigneeWasTold`, `WorkStaysDone` through every interleaving of two handlers |
| `project_intake` | 2 requests, 2 projects, 2 websites, 2 handlers | `RequestsMatchProjects`, `DecisionIsFinal`, `ProjectsKeepWebsites` |
| `auth_sessions` | 2 sessions of 2 rotations, 3 links, 2 resets, 2 handlers, a limit of 1 | `UsedOnce`; sessions implement `TokenChain` |
| `browser` | 2 tabs and 3 tokens with 1 fault; 2 flights and 2 other calls; 3 pages, 2 filters, 2 requests on their way, 2 saves; 3 builds, 2 deployments; 2 developers, 2 saves; 2 URLs | one property for each part: `TabsShareSession`, `CallsActAsOne`, `PagesShowTheChoice`, `UpdatesKeepDrafts`, `TeamEditsHold`, `ViewerFollowsFrame` |

Bounds. Two executors, handlers, instances, tabs or requests suffice for the races looked for:
each is between one of them and one other, and a third waits like the second. Two incidents are
one more than a correct pipeline can open in the bounds, so the incident identifiers never run
out silently where a second one is an error; the same holds for the second project of `project_intake`
and the third link of `auth_sessions`. `project_intake` follows a behaviour up to the
first write of an overtaken handler (`NothingRaced`), after which the properties excuse
the row; that write itself is checked. `browser` follows
tabs until a session is broken or a tab is told of its end, one activity per tab; reads until the
account changes under the tab; a page until it shows one page of rows too many (`Bound`).
`CHECK_DEADLOCK FALSE` stands where the bounded system comes to rest: all rows
created, all rotations used.

### 4.1 Fairness

- `ReleaseSlot`: the clock goes on.
- `Proceed(e)`: Node's event loop runs a started handler on; every await of it ends
  (timeouts on probes, connection errors otherwise).
- `Take(e)`: BullMQ hands jobs to a free executor.
- `Stall(s)` of a job whose owner is gone: BullMQ's stall check is periodic.
- `ExpireLock` of a lock nobody is working under: Redis expires keys.
- `ReconcileReads`, `ReconcileEnqueues`: the worker's 60-second timer.

Nothing is assumed of faults, staff, or the expiry of a lock under a running check.

`NotificationDelivery` assumes the like of its executors, stalls and timer. All other
modules are safety only: an API handler may be lost at any step, a user may close the tab.

### 4.2 Known divergences

Where a document or a comment says one thing and the code does another, or two parts of
the code disagree, the models follow the code. What the models excuse by name is marked with the
excuse.

Monitoring and notifications:

- `incidents.service.ts:132` "Closed incidents cannot be updated": the worker reads the active
  incident, staff resolve and close it, and the worker's update by id (`rules-apply.ts:237`) sets it to
  resolved again.
- `monitoring-rules/src/index.ts:80` "2 consecutive hard failures → create incident + down": the
  row with the card down is saved before the incident is created; if the transaction fails or the worker dies
  the retry finds the row and skips (`rules-apply.ts:119`). `LostIncidentCostsFault` says that it takes
  a fault.
- `Docs/bugs-backend.md:108`, two ticks in a bucket make one job: an instance that ticks later in the
  same minute finds a completed job, removes it and adds it again. The worker then skips it.
- `Docs/bugs-backend.md:146`, reconciliation of failed and stale items: a job that failed without marking its
  row keeps its id, and reconciliation adds that id for ever, which does nothing.
- `PATCH in_progress` on a resolved incident makes it active beside a newer one
  (`incidents.service.ts:134`; the staff of `AtMostOneActive` only resolve and close).
- A name that fails to resolve before the call makes a check `unknown`, one that fails in the call
  `down`. Telegram's `retry_after` of 0 is not retried, `lastSendAt` is shared by
  concurrent deliveries, and the text is cut after escaping.

Who sees and may do what:

- A PIC Web's project page loads stories the service refuses, and an end user's page sends
  `projects/:id` before it redirects (`KnownRefusals` of `RoleGuards`).
- A developer outside a project may not see a ticket he created. The ticket scope of an incident's context
  leaves the creator out. `GET /tasks` of a PIC Web goes by owner, the board by
  membership. A PIC Web can make a story of a website's ticket that he cannot read when the ticket has no
  project. Developers are notified of every incident and reach only those of their websites.
- `TICKET_MANAGER_ROLES` contains `pic_web`, whom `tickets.update` refuses. A ticket whose website
  moved to another project cannot become a story.

Boards, lists and counts:

- The board finds rows in SQL and drops them in memory (ticket number, requested name), or drops
  in SQL what memory would keep (an older task found by its project's name). `active_only`
  overrides `status`.
- `unassigned_count` counts finished rows; `has_overdue_work` includes website tasks and
  `overdue_count` stories only; the roster counts a story held twice twice; project health ignores websites
  never checked while its summary counts them unknown; the workload of a PIC Web
  without projects counts the stories of all projects, and a converted ticket counts beside its story.
- In the backfill the last of several websites in one project decides the team and
  overwrites what was edited since; a ticket left behind in an old project blocks a second run.

Concurrency of the API (`overtaken`, `raced`):

- Edits are read-then-write throughout: a handler that read before may reopen a closed ticket,
  overwrite a decision, empty an active project, take a website from a project.
- A reset link is claimed before the password is written. A change of
  password or a deactivation by an administrator revokes no session.

Browser:

- `readStorage` copies a tab's sessionStorage token over the one in localStorage, so the shortcut
  at `api.ts:336` never sees another tab's token. `refreshUser` refreshes outside the lock,
  and stores tokens before it looks at the version (`crossed` of `TabRefresh`). The lease is a
  read and a later write. A logout ignores errors, and one with a rotated cookie revokes
  nothing.
- The cached copy in sessionStorage is keyed by path alone: a refresh with another account's cookie shows the
  old rows (`swapped` of `ApiReads`). A GET sent after the cache was cleared and served before the edit is kept
  (`raced`, `api.ts:416`).
- Loads without a `cancelled` flag show the slower answer (`overlapped` of `PageLoads`); a page that failed and was
  passed over leaves a gap (`gap`); badges keep their old number in silence when a load fails; the
  story list's search is sent only with another filter's change.
- A draft begun while a version check is out is lost to the reload. Leaving the
  assignment workspace drops its draft in silence, a workspace opened again may save beside
  the save on its way (`reopened`), developers whom others added go without a question, and an
  inactive member of a team makes every save fail.

## 5. Proofs

All theorems hold for any sets of executors, staff, incidents, scheduler instances, websites,
requests, tickets, stories, handlers, sessions, users, rows, accounts, forms and developers, for any
finite set of tabs, and for any bounds that satisfy the `ASSUME`s of the
module they are about (positive bounds, names that are not names of something else). A theorem
that needs more says so in its row. The column "Argument" names the inductive invariant. Every
invariant, action property and refinement that a run checks has a theorem.

| Theorem | States | Argument |
|---|---|---|
| `TypeCorrect` | `Spec => []TypeOK` | `TypeOK` is inductive; one step per action. The lemmas say what the rules return and where `Goto` leads. |
| `LockKept` | `[]HolderKeepsLock` | `HolderKeepsLock` is inductive with `TypeOK`: the lock changes hands only when free, is deleted only by comparison with its holder, and an expiry under a running check puts the holder in `lost`. |
| `NeverTwoChecks` | `[]OneCheckAtATime` | from `LockKept`: two such executors would both be the value of `lock`. |
| `OnePerSlot` | `[]OneIncidentPerSlot` | A slot's incident is created by the executor that inserted its row. `TargetInvariant` says that whoever is to touch an incident has one; `SlotInvariant`, the strengthening, says that an executor still to create an incident works on a recorded slot for which no incident and no other such executor exists. A row is inserted once, so nobody else can come to that point for the slot. |
| `OneActive` | `[]AtMostOneActive`, when staff may only resolve and close | `CreationInvariant`: between `recheck` and `commit` the executor holds the advisory lock, and after `recheck` no incident is active. Nobody else can commit then, and neither the worker's resolve nor the staff's writes make an incident active. |
| `TwoFailures` | `[]IncidentRestsOnTwoFailures` | `RestInvariant`: what a handler read before its insert is still recorded (`RowsStay`: a row never changes), a plan to create counts a failure among it (`CreateNeedsTwo`), and the handler's own row is another one, because it inserts a slot that was free. From its insert on the two are recorded, and they still are when it opens the incident. |
| `LossCostsFault` | `[]LostIncidentCostsFault` | `DownInvariant`: as long as nothing has failed, a card that shows down has an incident or a handler on its way to create one; only `Throw` and `Crash` end that way without an incident (`CreationEnds`), and both count. A plan to keep an incident means that one existed when the plan was made, and incidents are never deleted. |
| `OnceInOrder` | `[]AnnouncedOnceInOrder`, when no check outlives its lock and staff only resolve and close | `EventInvariant`: whoever is about to resolve or announce holds an incident of which it has not told yet what it is going to tell. `LockKept` makes that handler the only one inside, so nobody tells it meanwhile; a retry finds its row and skips the rest. A closed ticket stays resolved because no staff reopens the incident. |
| `LifecycleImplemented` | `ImplementsLifecycle`, when staff only resolve and close | Step simulation with `TypeOK`, `TargetInvariant`, `SlotInvariant`, `RestInvariant`, `CreationInvariant` and `UnusedHaveNoStart`: `InsertResult` is a recording, `CommitIncident` an opening (its guards are the last three invariants), the worker's and the staff's resolve a resolution, all else a stutter. `DatabaseSteps` says which steps are not. |
| `SequentialImplemented` | `ImplementsSequentialMonitoring`, for one executor, no staff, no faults and no slots recorded before | `SoleInvariant` in four parts. `QueueInvariant`: the active job is the one in hand and none is ever delayed. `OrderInvariant`: no job waits for a slot older than one recorded or in hand. `CheckInvariant`: the rows and the incident are still as the check read them. `CountInvariant`: the n-th newest row exists for every n up to their number (`Ranked`), which an insert keeps because its slot is the newest (`NewestFirst`); stated as an invariant it needs no induction over the rows. So `InsertResult` is a check of `SequentialMonitoring` on the same history (`HistoryIsPrevious`, `SameRules`), what `CommitIncident` and `ResolveIncident` do was already seen as pending, and all else is a stutter. |
| `RulesFitHistory` | `[]RulesMatchHistory` | The property is inductive as it stands. `RecentShowsTwo`: the row of a check with at least one row before it shows the rules the two newest statuses, whatever the lookback; `RulesDecide`: what the rules do is a function of those two. The number of incidents follows from `OpeningsMove`: an opening in the history is added exactly when the rules create. |
| `OneTicks` | `[]OneScheduler` | `HolderInvariant`: an instance inside `enqueueSlot` that has not outlived its lock is the value of the key. `SET NX` finds the key free, so nobody can be such an instance when another enters; an expiry puts the holder in `lost`. |
| `SlotsReleased` | `[]EverySlotReleased` | `ReleaseInvariant` in three parts. `SlotInvariant`: what an instance has not put on its list of websites left has its job, and a slot whose tick reached the end or is remembered in `lastSlot` is served or excused. `LockInvariant`: a lock is at most four quarters old, and one without a holder blocks only excused minutes. `TimelyInvariant`: while no tick has outlasted its quarter, an instance inside is on the slot of the current minute, and in the last quarter an instance whose timer has fired has served the minute, or another instance is at it. |
| `JobsInHandKept` | `JobsInHandStay` | From the same invariant: the tick that removes holds the lock and is on the current slot, so the job it looked up is still settled when it removes it. |
| `SentIsAccepted` | `[]SentWasAccepted` | `SentInvariant`: an executor about to record holds an accepted row, and `accepted` never shrinks. |
| `FailedIsExhausted` | `[]FailedAfterAllAttempts` | `AttemptsInvariant`: what BullMQ counts as attempts, in the job and in an executor's copy of it, never exceeds the attempts that ended in an error, because a stall or a crash gives the job back without counting and a new job starts at 0. |
| `CompletedMeansSettled` | `[]CompletedIsSettled` | A job completes only in the step that settles its row, or finds it sent; a settled row never becomes pending again. The lemmas `CompleteJob`, `FailJob` and `EndDelivery` say what the end of a delivery leaves. |
| `DuplicatesArePaid` | `[]DuplicatesCostFaults` | `CostInvariant`: for every row the accepted messages, the executors that may still send one, and the next run of its job if it has one, are together at most one more than the faults. A job that goes back to the queue without a fault gives up an executor for the next run; a stall without a fault takes a job whose executor no longer has it. No assumption that executors are finitely many: the carriers of a row are. |
| `FinishedStays` | `WorkStaysDone` | A handler that nobody overtook still sees its row as it was (`StillTrue`, `KnowsRow`, `RowUntouched`, together `OvertakenOrKnows`), so its write passes the checks it made when it read. |
| `TicketsAgree` | `[]RowsAgree` | One invariant for each of the four agreements: `TimeInvariant` (who saw a resolution time is right about it), `TaskFollowsAssignee`, `DoneInvariant` (at most one handler is between a task and its ticket, and what it saw finished still is), `CompletedInvariant` (who was given a status writes that one). `HeldInvariant` says that what a handler will write exists. |
| `AssigneeTold` | `[]AssigneeWasTold` | `RowUntouched` again: a handler that was not overtaken compares the new assignee with the ticket's, so it tells exactly when it changes. |
| `RequestsAndProjectsMatch` | `[]RequestsMatchProjects` | A decision reads the row it writes and is not an approval (`ReadsItsRow`); a handler nobody has overtaken still finds what it read (`FreshFinds`), so a decision that was not overtaken writes an undecided request and an approval a pending one, and both have no project (`Matching`). A row that such a handler wrote is matched again; the rows the others wrote are the `raced` ones the property excepts. |
| `DecisionsStand` | `DecisionIsFinal` | A decided request contradicts `FreshFinds` for the handler that writes it unless the handler was overtaken, and an overtaken approval cannot commit. |
| `WebsitesStay` | `ProjectsKeepWebsites` | `FreshFindsSites`: a handler nobody has overtaken still finds the websites where it saw them, since a website that moves overtakes whoever read one of its projects; `ActiveHasWebsite`: an active project has one unless its row was raced. |
| `TokensUsedOnce` | `[]UsedOnce` | For any number of sessions, links and handlers (the latter two finite: `FiniteAssumption`). A blank row stores token 0 (`FreshRows`), and the guarded rotation moves the row on exactly when it exchanges the stored token. A link that is not used has set no password, and the guarded claim gives it to one handler (`LinksClaimed`). Sign-ins under way know the latest reset or are marked (`LoginsKnowReset`). The recent links together with those being made exceed the limit by less than the number of handlers (`OverlapBounded`): a handler that counts sees fewer than the limit, and one that makes a link leaves the second set as it enlarges the first. |
| `TokenChainImplemented` | `ImplementsTokenChain` | Step simulation with the invariant of `TokensUsedOnce`: the guarded rotation finds `current` stored, all tokens before it exchanged and none after it. Every other step opens a session, ends some, or is a stutter. |
| `WorkIsReached` | `[]ReachFollowsWork` | No state: each inclusion holds of the queries themselves, for every row, user and role. Where a query is a disjunction of ways to a row, every way is followed into the other query (`Operating` for the roles that see all, `StoryWays` for the links of a story). A story made of a ticket inherits project and website, so whoever reached the ticket by one of them still does (`TicketsStayInReach`). |
| `TablesAgree` | `[]RoleTablesAgree` | `EndpointsServe` works out, endpoint by endpoint, whom the controller and the service serve; `Askers` who a page is shown to. The rest is a comparison of two sets of roles for each call of a page. |
| `BoardShows` | `[]BoardShowsItsRows` | `TicketRowFields` and `LegacyRowFields` say what a row keeps of its record, so the two filters can be compared criterion by criterion (`NothingDropped`). `RowsOrdered`: the comparison is a strict weak order on rows with any times. `RowsOnPages`: for any number of rows and any limit the announced pages are intervals (`OneInterval`) that cut the list (`DividedUp` is the rounding). `OverviewCounts` adds up disjoint parts of a list of any length. |
| `ReadersMeet` | `[]ReadersAgree` | `OneNewest`: of the results of a website, which differ in the time they are ordered by, one is the newest. The counts are cardinalities of sets of positions in sequences of any length: `TwoParts` and `Parts` add up disjoint parts, `WorkCounted` and `BellRows` map a filtered sequence back to its positions. |
| `SightStays` | `[]TeamsKeepSight` | `Backfilled` and `BackfilledFields` say what one run leaves in each field of the old rows; `OwnProject` where a website and its tickets end. Sight is kept field by field (`SightKept`); a second run finds every row as the first would write it (`BackfillAgain`). |
| `CallsGoRight` | `[]OutsideCallsHold` | `FollowExists` gives the recursive function over the hops its values, from the last of the six to the first: the code follows `MaxRedirects` and no more, so no induction is needed. `ChainEnds`: every chain, however answered, passes safe hops up to the one it ends at. `AskedIsSafe` and `StatusTellsArrival` state the property for any chain and any time, not only those compared by TLC. |
| `TabsShare` | `[]TabsShareSession` | `TabsInvariant` in eleven parts. A request belongs to what its tab does (`RequestsFit`, `RequestsFormed`, `LocalsFit`); a token on its way is new (`AnswersAreNew`) and there is one for each who asked (`TokensSuffice`, which counts slots: tabs are finitely many). `CookieFollowed`: the cookie is accepted, or a request that replaced it is on its way back. `LocksHeld` and `RefreshesAlone`: outside the races that `crossed` names there is one refresh. `CauseNeeded`: then nothing that a tab holds is refused. One lemma for what each kind of step does to the requests (`Sending`, `Serving`, `Receiving`) is shared by all actions. |
| `CallsAsOne` | `[]CallsActAsOne` | `ReadsInvariant`: an answer kept shows every edit confirmed or about to be (`KeptAnswersShow`), which a clear before and after an edit establishes; a GET on its way will be answered with what its page counts on, also by its fallback (`GetsShow`); what is kept under a token is its account's (`KeptAnswersAreOwn`); a current GET is the one its token's pages wait for (`CurrentIsPending`); data are at most the edits settled (`EditsCounted`). |
| `PagesShow` | `[]PagesShowTheChoice` | `PagesInvariant`: the only live request is the one for what is chosen (`WaitsForTheChoice`), what is shown is right unless an answer will replace or extend it (`ShownIsRight`), a spinner has a request (`SpinnerWaits`). The records of the pages enter by `LoadsSound` alone: whoever pauses, adds pages or shares a request has a `cancelled` flag. A new page that keeps that rule keeps the theorem. |
| `DraftsSurvive` | `[]UpdatesKeepDrafts` | `CleanChecksLoseNothing`: a check that began without unsaved changes has none to lose (drafts begun since are not counted), and one that began with some only offers the banner. `ReloadsCovered`: reloads made, the one under way and the one still owed if another build is deployed than the page leaves for, have a deployment each. |
| `TeamEdits` | `[]TeamEditsHold` | `EditorInvariant`: the question comes before the save and the workspace waits for it (`WorkspaceWaits`); there is one save at a time, and what it wrote stays (`SaveLands`); the page is going to show what it saved (`PageLearns`); whom a save removes it asked for (`RemovalsAsked`). |
| `ViewerFollows` | `[]ViewerFollowsFrame` | The property with `FrameHasUrl`, there is a document exactly if there is a URL, is inductive. |

The comparisons of `decisions` are proved of the operators outright, without `Init`; the theorem
about `Spec` follows at once. Where a property bounds its data to let TLC enumerate them (rows on a page,
lengths of lists, forms of chains), the lemma named above has no such bound; the results of one website
remain at most two, and a project's websites two.

The assumption on staff of `OneActive`, `OnceInOrder` and `LifecycleImplemented` cannot be dropped: a
PATCH to `in_progress` on a resolved incident is accepted and makes it active beside a newer one. Nor
can that of `OnceInOrder` on the lock: two checks that overlap resolve and announce the same
incident twice.

Only model-checked: `PipelineProgresses`, and that a row of notifications stays pending only behind a failed
job. Liveness under fairness needs `ENABLED` and is out of the prover's reach.

## 6. Not modelled

- Validation of request bodies, texts, titles, names, numbering, formatting and
  message contents: data that no property here tells apart.
- Uploads and object storage, the SMTP conversation (one step of `NotificationDelivery`), the metrics and connection
  options of the queue package, Prisma's generated client.
- The status edit of the board, of which the models keep the override it leaves in the row.
- Retention: it deletes rows 90 days later and meets no job in flight. BullMQ removes completed jobs
  after 1000 (notifications: 2000) newer ones; the bounds stay below.
- Deadlocks that PostgreSQL breaks (a task update locks the task and then the ticket, a ticket update the other
  way round): the aborted transaction leaves no trace, as `Abort`.
- Rendering, styles, logging, deployment, seeds and test scripts.
