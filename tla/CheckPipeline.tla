---------------------------- MODULE CheckPipeline ----------------------------
(***************************************************************************)
(* The monitoring worker for ONE website: BullMQ jobs, one per minute      *)
(* slot, taken by concurrent executors; the Redis website lock; the rows   *)
(* of monitoring_results; and the incident and ticket that the rules open  *)
(* and resolve, while staff edit the same incidents through the API.       *)
(*                                                                         *)
(* Every await of processMonitoringJob and persistCheckAndEvaluate is a    *)
(* step boundary.  Time is abstracted: a delayed job may run at any later  *)
(* moment, an abandoned lock may expire at any moment, and a job's age is  *)
(* counted in slots.                                                       *)
(***************************************************************************)
EXTENDS MonitoringRules

CONSTANTS
  Executor,         \* concurrent job processors of the worker instances
  Staff,            \* API requests editing incidents at the same time
  IncidentId,       \* identifiers available for new incidents
  NoOne, NoIncident,
  MaxSlot,          \* bound: number of minute slots
  LegacySlots,      \* first slots whose rows predate the raw_status column
  LateSlots,        \* LATE_JOB_SKIP_MS in slots
  Lookback,         \* "take: 5"
  MaxAttempts,      \* BullMQ attempts per job
  MaxStalls,        \* BullMQ maxStalledCount
  MaxFaults,        \* bound: errors thrown, crashes and lost job locks
  MayOverrun,       \* may a check outlive LOCK_TTL_SEC?
  Observations,     \* statuses a probe may derive
  StaffTargets      \* statuses PATCH /incidents/:id may ask for

Slot == 1 .. MaxSlot
NoSlot == 0

ASSUME BoundsAssumption ==
  /\ MaxSlot \in Nat /\ LegacySlots \in 0 .. MaxSlot /\ LateSlots \in Nat
  /\ Lookback \in Nat \ {0} /\ MaxAttempts \in Nat \ {0}
  /\ MaxStalls \in Nat /\ MaxFaults \in Nat /\ MayOverrun \in BOOLEAN
ASSUME NamesAssumption ==
  /\ NoOne \notin Executor
  /\ NoIncident \notin IncidentId
  /\ Observations \subseteq MonitoringStatus
  /\ StaffTargets \subseteq {"open", "in_progress", "resolved"}

VARIABLES
  now,              \* slots the scheduler has released
  job,              \* the BullMQ job of each slot
  pc, slot,         \* per executor: next step and slot in hand
  raw, seen, plan, target, todo, failed,  \* per executor: the handler's locals
  lock, lost,       \* website lock, and holders it expired under
  advisory,         \* holder of pg_advisory_xact_lock
  results,          \* monitoring_results by slot
  incident, ticket, \* the website's incidents and the ticket of each
  notified,         \* lifecycle notifications created, per incident
  staff,            \* per API request: what it read and will write
  faults

localVars == << slot, raw, seen, plan, target, todo, failed >>
lockVars  == << lock, lost >>
dbVars    == << results, incident, ticket, notified >>
vars == << now, job, pc, slot, raw, seen, plan, target, todo, failed, lock, lost,
           advisory, results, incident, ticket, notified, staff, faults >>

-----------------------------------------------------------------------------
(* Data *)

JobState == {"absent", "waiting", "delayed", "active", "completed", "failed"}
Job == [state : JobState, owner : Executor \cup {NoOne},
        attempts : 0 .. MaxAttempts, stalls : 0 .. MaxStalls]
NewJob(state) == [state |-> state, owner |-> NoOne, attempts |-> 0, stalls |-> 0]

\* Rows written before the column existed have no raw status.
NoRaw == "none"
\* checkedAt counts the rows the check found: what was checked before it.
Row == [rawStatus : MonitoringStatus \cup {NoRaw}, status : MonitoringStatus,
        checkedAt : 0 .. MaxSlot]
NoRow == [rawStatus |-> NoRaw, status |-> "none", checkedAt |-> 0]
Rows == [Slot -> Row \cup {NoRow}]
RawOf(row) == IF row.rawStatus = NoRaw THEN row.status ELSE row.rawStatus
Recorded(rows) == {s \in Slot : rows[s] # NoRow}

IncidentStatus == {"none", "open", "in_progress", "resolved", "closed"}
Incident == [status : IncidentStatus, startedAt : 0 .. MaxSlot]
NoRecord == [status |-> "none", startedAt |-> NoSlot]
Exists(i) == incident[i].status # "none"
Active(i) == incident[i].status \in {"open", "in_progress"}
ActiveIncidents == {i \in IncidentId : Active(i)}

\* What findFirst ordered by startedAt desc may return.
NewestActive ==
  {i \in ActiveIncidents : \A j \in ActiveIncidents : incident[j].startedAt <= incident[i].startedAt}

TicketStatus == {"none", "open", "in_progress", "resolved", "closed"}
Event == {"incident_created", "ticket_assigned", "incident_recovered"}

Step == {"idle", "lookup", "lock", "probe", "previous", "active", "insert",
         "advisory", "recheck", "commit", "resolve", "tickets", "announce", "release"}
\* Steps between acquireWebsiteLock and releaseWebsiteLock.
Guarded == Step \ {"idle", "lookup", "lock"}
Inside(e) == pc[e] \in Guarded

\* The n-th newest recorded slot, the newest Lookback raw statuses, and the
\* list the rules are given: this check first, then earlier rows.
NthOldest(rows, n) ==   \* mutant: ascending order
  CHOOSE s \in Recorded(rows) : Cardinality({t \in Recorded(rows) : t < s}) = n - 1
NthNewest(rows, n) ==
  CHOOSE s \in Recorded(rows) : Cardinality({t \in Recorded(rows) : t > s}) = n - 1
Previous(rows) ==
  LET count == Cardinality(Recorded(rows))
  IN  [n \in 1 .. (IF count < Lookback THEN count ELSE Lookback) |-> RawOf(rows[NthNewest(rows, n)])]
RecentWithOwnRow(status, rows) == << status, status >> \o Previous(rows)  \* mutant: read after the insert
RecentForRules(status, rows) == << status >> \o Previous(rows)

NoPlan == [type |-> "none", cardStatus |-> NoCard]

-----------------------------------------------------------------------------
Init ==
  /\ now = LegacySlots
  /\ job = [s \in Slot |-> NewJob(IF s <= LegacySlots THEN "completed" ELSE "absent")]
  /\ pc = [e \in Executor |-> "idle"]
  /\ slot = [e \in Executor |-> NoSlot]
  /\ raw = [e \in Executor |-> "unknown"]
  /\ seen = [e \in Executor |-> [s \in Slot |-> NoRow]]
  /\ plan = [e \in Executor |-> NoPlan]
  /\ target = [e \in Executor |-> NoIncident]
  /\ todo = [e \in Executor |-> << >>]
  /\ failed = [e \in Executor |-> FALSE]
  /\ lock = NoOne
  /\ lost = {}
  /\ advisory = NoOne
  /\ \E statuses \in [1 .. LegacySlots -> Observations] :
       results = [s \in Slot |->
         IF s <= LegacySlots
         THEN [rawStatus |-> NoRaw, status |-> statuses[s], checkedAt |-> s - 1]
         ELSE NoRow]
  /\ incident = [i \in IncidentId |-> NoRecord]
  /\ ticket = [i \in IncidentId |-> "none"]
  /\ notified = [i \in IncidentId |-> [v \in Event |-> 0]]
  /\ staff = [p \in Staff |-> [op |-> "idle", id |-> NoIncident]]
  /\ faults = 0

-----------------------------------------------------------------------------
(* The scheduler and the queue, as the worker sees them *)

\* The next minute: the scheduler adds the job of its slot.  The minute after
\* MaxSlot adds none: it only ends the last slot's minute.
ReleaseSlot ==
  /\ now <= MaxSlot
  /\ now' = now + 1
  /\ job' = IF now < MaxSlot THEN [job EXCEPT ![now + 1] = NewJob("waiting")] ELSE job
  /\ UNCHANGED << pc, localVars, lockVars, advisory, dbVars, staff, faults >>

\* A second scheduler instance releases the same minute again: a job in a
\* terminal state is removed and added anew, any other state keeps it.
ReleaseAgain ==
  /\ now \in Slot /\ job[now].state \in {"completed", "failed"}
  /\ job' = [job EXCEPT ![now] = NewJob("waiting")]
  /\ UNCHANGED << now, pc, localVars, lockVars, advisory, dbVars, staff, faults >>

\* BullMQ hands out waiting jobs in order; a delayed one joins at any time.
Ready(s) ==
  \/ job[s].state = "delayed"
  \/ job[s].state = "waiting" /\ \A t \in Slot : job[t].state = "waiting" => s <= t

\* Settle the job in hand, unless the executor lost it to the stall checker.
\* A job in a terminal state keeps nothing that a new one would read.
Settle(e, state) ==
  job' = IF job[slot[e]].owner # e THEN job
         ELSE [job EXCEPT ![slot[e]] =
                IF state = "delayed" THEN [@ EXCEPT !.owner = NoOne, !.state = state]
                                     ELSE NewJob(state)]

\* An error uses up an attempt; the last one fails the job.
SettleError(e) ==
  LET made == job[slot[e]].attempts + 1
  IN  job' = IF job[slot[e]].owner # e THEN job
             ELSE [job EXCEPT ![slot[e]] =
                    IF made < MaxAttempts
                    THEN [@ EXCEPT !.owner = NoOne, !.state = "delayed", !.attempts = made]
                    ELSE NewJob("failed")]

\* The executor forgets its job and waits for another.
GoIdle(e) ==
  /\ pc' = [pc EXCEPT ![e] = "idle"]
  /\ slot' = [slot EXCEPT ![e] = NoSlot]
  /\ raw' = [raw EXCEPT ![e] = "unknown"]
  /\ seen' = [seen EXCEPT ![e] = [s \in Slot |-> NoRow]]
  /\ plan' = [plan EXCEPT ![e] = NoPlan]
  /\ target' = [target EXCEPT ![e] = NoIncident]
  /\ todo' = [todo EXCEPT ![e] = << >>]
  /\ failed' = [failed EXCEPT ![e] = FALSE]

Goto(e, from, to) == pc[e] = from /\ pc' = [pc EXCEPT ![e] = to]

-----------------------------------------------------------------------------
(* processMonitoringJob *)

StartJob(e, s) ==
  /\ pc[e] = "idle" /\ Ready(s)
  /\ now - s <= LateSlots
  /\ job' = [job EXCEPT ![s] = [@ EXCEPT !.state = "active", !.owner = e]]
  /\ pc' = [pc EXCEPT ![e] = "lookup"]
  /\ slot' = [slot EXCEPT ![e] = s]
  /\ UNCHANGED << now, raw, seen, plan, target, todo, failed, lockVars, advisory, dbVars, staff, faults >>

\* A job older than LATE_JOB_SKIP_MS completes without a check.
SkipLate(e, s) ==
  /\ pc[e] = "idle" /\ Ready(s)
  /\ now - s >= LateSlots
  /\ job' = [job EXCEPT ![s] = NewJob("completed")]
  /\ UNCHANGED << now, pc, localVars, lockVars, advisory, dbVars, staff, faults >>

SkipRecorded(e) ==
  /\ pc[e] = "lookup" /\ results[slot[e]] # NoRow
  /\ Settle(e, "completed")
  /\ GoIdle(e)
  /\ UNCHANGED << now, lockVars, advisory, dbVars, staff, faults >>

NotRecorded(e) ==
  /\ Goto(e, "lookup", "lock") /\ results[slot[e]] = NoRow
  /\ UNCHANGED << now, job, localVars, lockVars, advisory, dbVars, staff, faults >>

\* Mutant: SET without NX.
AcquireTaken(e) ==
  /\ Goto(e, "lock", "probe")
  /\ lock' = e
  /\ UNCHANGED << now, job, localVars, lost, advisory, dbVars, staff, faults >>

AcquireWebsiteLock(e) ==
  /\ Goto(e, "lock", "probe")
  /\ lock = NoOne
  /\ lock' = e
  /\ UNCHANGED << now, job, localVars, lost, advisory, dbVars, staff, faults >>

\* Lock taken: moveToDelayed, without using up an attempt.
DelayBusy(e) ==
  /\ pc[e] = "lock" /\ lock # NoOne
  /\ Settle(e, "delayed")
  /\ GoIdle(e)
  /\ UNCHANGED << now, lockVars, advisory, dbVars, staff, faults >>

\* The website was deactivated after the job was added.
SkipInactive(e) ==
  /\ Goto(e, "probe", "release")
  /\ UNCHANGED << now, job, localVars, lockVars, advisory, dbVars, staff, faults >>

RunProbes(e) ==
  /\ Goto(e, "probe", "previous")
  /\ \E status \in Observations : raw' = [raw EXCEPT ![e] = status]
  /\ UNCHANGED << now, job, slot, seen, plan, target, todo, failed, lockVars, advisory, dbVars, staff, faults >>

\* Mutant: DEL without comparing the token.
ReleaseAnyLock(e) ==
  /\ pc[e] = "release"
  /\ lock' = NoOne
  /\ lost' = lost \ {e}
  /\ IF failed[e] THEN SettleError(e) ELSE Settle(e, "completed")
  /\ GoIdle(e)
  /\ UNCHANGED << now, advisory, dbVars, staff, faults >>

\* finally: compare-and-delete of the lock, then the job is settled.
ReleaseWebsiteLock(e) ==
  /\ pc[e] = "release"
  /\ lock' = IF lock = e THEN NoOne ELSE lock
  /\ lost' = lost \ {e}
  /\ IF failed[e] THEN SettleError(e) ELSE Settle(e, "completed")
  /\ GoIdle(e)
  /\ UNCHANGED << now, advisory, dbVars, staff, faults >>

-----------------------------------------------------------------------------
(* persistCheckAndEvaluate *)

\* The newest rows of the website, whatever slot is being checked.
ReadPrevious(e) ==
  /\ Goto(e, "previous", "active")
  /\ seen' = [seen EXCEPT ![e] = results]
  /\ UNCHANGED << now, job, slot, raw, plan, target, todo, failed, lockVars, advisory, dbVars, staff, faults >>

\* Read the active incident and evaluate the rules on both reads.
ReadActiveIncident(e) ==
  /\ Goto(e, "active", "insert")
  /\ \/ ActiveIncidents = {} /\ target' = target
     \/ \E i \in NewestActive : target' = [target EXCEPT ![e] = i]
  /\ plan' = [plan EXCEPT ![e] =
       EvaluateIncidentRules(RecentForRules(raw[e], seen[e]), ActiveIncidents # {})]
  /\ UNCHANGED << now, job, slot, raw, seen, todo, failed, lockVars, advisory, dbVars, staff, faults >>

\* Mutant: the rules' decision to create is not dispatched.
AfterInsertNoCreate(e) == IF plan[e].type = "resolve_incident" THEN "resolve" ELSE "release"

AfterInsert(e) ==
  CASE plan[e].type = "create_incident"  -> "advisory"
    [] plan[e].type = "resolve_incident" -> "resolve"
    [] OTHER                             -> "release"

InsertResult(e) ==
  /\ pc[e] = "insert" /\ results[slot[e]] = NoRow
  /\ results' = [results EXCEPT ![slot[e]] =
       [rawStatus |-> raw[e], status |-> ApplyCardStatusOverride(raw[e], plan[e]),
        checkedAt |-> Cardinality(Recorded(seen[e]))]]
  /\ pc' = [pc EXCEPT ![e] = AfterInsert(e)]
  /\ UNCHANGED << now, job, localVars, lockVars, advisory, incident, ticket, notified, staff, faults >>

\* Mutant: the losing attempt carries on with its own plan.
CarryOnAfterDuplicate(e) ==
  /\ pc[e] = "insert" /\ results[slot[e]] # NoRow
  /\ pc' = [pc EXCEPT ![e] = AfterInsert(e)]
  /\ UNCHANGED << now, job, localVars, lockVars, advisory, dbVars, staff, faults >>

\* Unique (website_id, scheduled_at): another attempt recorded the slot first.
ResultAlreadyExists(e) ==
  /\ Goto(e, "insert", "release") /\ results[slot[e]] # NoRow
  /\ UNCHANGED << now, job, localVars, lockVars, advisory, dbVars, staff, faults >>

\* Mutant: the transaction without the advisory lock.
BeginUnserialised(e) ==
  /\ Goto(e, "advisory", "recheck")
  /\ UNCHANGED << now, job, localVars, lockVars, advisory, dbVars, staff, faults >>

\* createIncidentFlow: one transaction under the website's advisory lock.
BeginCreate(e) ==
  /\ Goto(e, "advisory", "recheck")
  /\ advisory = NoOne
  /\ advisory' = e
  /\ UNCHANGED << now, job, localVars, lockVars, dbVars, staff, faults >>

SkipDuplicateIncident(e) ==
  /\ Goto(e, "recheck", "release")
  /\ ActiveIncidents # {}
  /\ advisory' = NoOne
  /\ UNCHANGED << now, job, localVars, lockVars, dbVars, staff, faults >>

NoActiveIncident(e) ==
  /\ Goto(e, "recheck", "commit")
  /\ ActiveIncidents = {}
  /\ UNCHANGED << now, job, localVars, lockVars, advisory, dbVars, staff, faults >>

\* Incident and ticket are inserted; the ticket may have found an assignee.
CommitIncident(e) ==
  /\ Goto(e, "commit", "announce")
  /\ \E i \in IncidentId :
       /\ ~ Exists(i)
       /\ incident' = [incident EXCEPT ![i] = [status |-> "open", startedAt |-> slot[e]]]
       /\ ticket' = [ticket EXCEPT ![i] = "open"]
       /\ target' = [target EXCEPT ![e] = i]
  /\ advisory' = NoOne
  /\ \E assigned \in BOOLEAN :
       todo' = [todo EXCEPT ![e] = IF assigned THEN << "incident_created", "ticket_assigned" >>
                                               ELSE << "incident_created" >>]
  /\ UNCHANGED << now, job, slot, raw, seen, plan, failed, lockVars, results, notified, staff, faults >>

\* Mutant: the recovery is announced without touching the tickets.
ResolveAndAnnounce(e) ==
  /\ Goto(e, "resolve", "announce")
  /\ incident' = [incident EXCEPT ![target[e]].status = "resolved"]
  /\ todo' = [todo EXCEPT ![e] = << "incident_recovered" >>]
  /\ UNCHANGED << now, job, slot, raw, seen, plan, target, failed, lockVars, advisory, results, ticket, notified, staff, faults >>

\* resolveIncidentFlow: the incident by id, whatever its status has become ...
ResolveIncident(e) ==
  /\ Goto(e, "resolve", "tickets")
  /\ incident' = [incident EXCEPT ![target[e]].status = "resolved"]
  /\ UNCHANGED << now, job, localVars, lockVars, advisory, results, ticket, notified, staff, faults >>

\* ... and its active tickets in a transaction of their own.
ResolveTickets(e) ==
  /\ Goto(e, "tickets", "announce")
  /\ ticket' = [ticket EXCEPT ![target[e]] = IF @ \in {"open", "in_progress"} THEN "resolved" ELSE @]
  /\ todo' = [todo EXCEPT ![e] = << "incident_recovered" >>]
  /\ UNCHANGED << now, job, slot, raw, seen, plan, target, failed, lockVars, advisory, results, incident, notified, staff, faults >>

\* createLifecycleNotifications for the events left, one after the other.
Announce(e) ==
  /\ pc[e] = "announce" /\ todo[e] # << >>
  /\ notified' = [notified EXCEPT ![target[e]][Head(todo[e])] = @ + 1]
  /\ todo' = [todo EXCEPT ![e] = Tail(@)]
  /\ UNCHANGED << now, job, pc, slot, raw, seen, plan, target, failed, lockVars, advisory, results, incident, ticket, staff, faults >>

AllAnnounced(e) ==
  /\ Goto(e, "announce", "release") /\ todo[e] = << >>
  /\ UNCHANGED << now, job, localVars, lockVars, advisory, dbVars, staff, faults >>

-----------------------------------------------------------------------------
(* What goes wrong *)

KeepAdvisory(e) == advisory' = advisory   \* mutant: the transaction is never rolled back
FreeAdvisory(e) == advisory' = IF advisory = e THEN NoOne ELSE advisory

\* Mutant: an error while announcing starts the announcements again.
ThrowAndAnnounceAgain(e) ==
  /\ pc[e] = "announce" /\ faults < MaxFaults
  /\ faults' = faults + 1
  /\ todo' = [todo EXCEPT ![e] = IF plan[e].type = "create_incident" THEN << "incident_created" >>
                                                                     ELSE << "incident_recovered" >>]
  /\ UNCHANGED << now, job, pc, slot, raw, seen, plan, target, failed, lockVars, advisory, dbVars, staff >>

\* A query or a Redis call rejects.  Under the lock the finally block still
\* runs; a transaction in progress rolls back.
Throw(e) ==
  /\ pc[e] # "idle" /\ faults < MaxFaults
  /\ faults' = faults + 1
  /\ FreeAdvisory(e)
  /\ IF pc[e] \in Guarded \ {"release"}
     THEN /\ pc' = [pc EXCEPT ![e] = "release"]
          /\ failed' = [failed EXCEPT ![e] = TRUE]
          /\ UNCHANGED << job, slot, raw, seen, plan, target, todo, lost >>
     ELSE /\ SettleError(e) /\ GoIdle(e)
          /\ lost' = lost \ {e}
  /\ UNCHANGED << now, lock, dbVars, staff >>

\* The process dies: its job stays active and its lock stays in Redis.
Crash(e) ==
  /\ pc[e] # "idle" /\ faults < MaxFaults
  /\ faults' = faults + 1
  /\ FreeAdvisory(e)
  /\ GoIdle(e)
  /\ lost' = lost \ {e}
  /\ UNCHANGED << now, job, lock, dbVars, staff >>

\* The stall checker takes an active job back: its executor is gone, or is
\* alive but failed to renew the job's lock.
OwnerGone(s) == slot[job[s].owner] # s
Stall(s) ==
  /\ job[s].state = "active"
  /\ \/ OwnerGone(s) /\ faults' = faults
     \/ ~ OwnerGone(s) /\ faults < MaxFaults /\ faults' = faults + 1
  /\ job' = [job EXCEPT ![s] =
       IF job[s].stalls < MaxStalls
       THEN [@ EXCEPT !.owner = NoOne, !.state = "delayed", !.stalls = job[s].stalls + 1]
       ELSE NewJob("failed")]
  /\ UNCHANGED << now, pc, localVars, lockVars, advisory, dbVars, staff >>

\* LOCK_TTL_SEC passes.  A check still running is overtaken only if it may be.
NeverExpires == FALSE   \* mutant: SET without EX
ExpireLock ==
  /\ lock # NoOne
  /\ Inside(lock) => MayOverrun
  /\ lock' = NoOne
  /\ lost' = IF Inside(lock) THEN lost \cup {lock} ELSE lost
  /\ UNCHANGED << now, job, pc, localVars, advisory, dbVars, staff, faults >>

-----------------------------------------------------------------------------
(* IncidentsService.update and .close: a read, then an unconditional write *)

StaffReads(p) ==
  /\ staff[p].op = "idle"
  /\ \E i \in IncidentId :
       /\ Exists(i)
       /\ \/ \E status \in StaffTargets :
               /\ incident[i].status # "closed"
               /\ status = "open" => incident[i].status = "open"
               /\ staff' = [staff EXCEPT ![p] = [op |-> status, id |-> i]]
          \/ /\ incident[i].status = "resolved"
             /\ staff' = [staff EXCEPT ![p] = [op |-> "closed", id |-> i]]
  /\ UNCHANGED << now, job, pc, localVars, lockVars, advisory, dbVars, faults >>

StaffWrites(p) ==
  /\ staff[p].op # "idle"
  /\ incident' = [incident EXCEPT ![staff[p].id].status = staff[p].op]
  /\ staff' = [staff EXCEPT ![p] = [op |-> "idle", id |-> NoIncident]]
  /\ UNCHANGED << now, job, pc, localVars, lockVars, advisory, results, ticket, notified, faults >>

-----------------------------------------------------------------------------
\* One step of a handler that has taken a job.
Proceed(e) ==
  \/ SkipRecorded(e) \/ NotRecorded(e) \/ AcquireWebsiteLock(e) \/ DelayBusy(e)
  \/ SkipInactive(e) \/ RunProbes(e) \/ ReadPrevious(e) \/ ReadActiveIncident(e)
  \/ InsertResult(e) \/ ResultAlreadyExists(e)
  \/ BeginCreate(e) \/ SkipDuplicateIncident(e) \/ NoActiveIncident(e) \/ CommitIncident(e)
  \/ ResolveIncident(e) \/ ResolveTickets(e) \/ Announce(e) \/ AllAnnounced(e)
  \/ ReleaseWebsiteLock(e)

\* The bounded horizon is over: nothing runs and nothing is queued.
HorizonReached ==
  /\ now = MaxSlot + 1
  /\ \A e \in Executor : pc[e] = "idle"
  /\ \A s \in Slot : job[s].state \in {"completed", "failed"}
  /\ \A p \in Staff : staff[p].op = "idle"
  /\ UNCHANGED vars

Take(e) == \E s \in Slot : StartJob(e, s) \/ SkipLate(e, s)

Next ==
  \/ ReleaseSlot \/ ReleaseAgain
  \/ \E e \in Executor : Take(e) \/ Proceed(e) \/ Throw(e) \/ Crash(e)
  \/ \E s \in Slot : Stall(s)
  \/ ExpireLock
  \/ \E p \in Staff : StaffReads(p) \/ StaffWrites(p)
  \/ HorizonReached

Spec == Init /\ [][Next]_vars

\* The clock goes on, the event loop runs every started handler to its end, the queue hands jobs
\* to free executors, BullMQ's stall check and Redis's expiry both happen.
Fairness ==
  /\ WF_vars(ReleaseSlot)
  /\ \A e \in Executor : WF_vars(Proceed(e)) /\ WF_vars(Take(e))
  /\ \A s \in Slot : WF_vars(Stall(s) /\ OwnerGone(s))
  /\ WF_vars(ExpireLock /\ ~ Inside(lock))
FairSpec == Spec /\ Fairness

-----------------------------------------------------------------------------
TypeOK ==
  /\ now \in 0 .. MaxSlot + 1
  /\ job \in [Slot -> Job]
  /\ pc \in [Executor -> Step]
  /\ slot \in [Executor -> 0 .. MaxSlot]
  /\ raw \in [Executor -> MonitoringStatus]
  /\ seen \in [Executor -> Rows]
  /\ plan \in [Executor -> IncidentRuleAction]
  /\ target \in [Executor -> IncidentId \cup {NoIncident}]
  /\ todo \in [Executor -> Seq(Event)]
  /\ failed \in [Executor -> BOOLEAN]
  /\ lock \in Executor \cup {NoOne}
  /\ lost \in SUBSET Executor
  /\ advisory \in Executor \cup {NoOne}
  /\ results \in Rows
  /\ incident \in [IncidentId -> Incident]
  /\ ticket \in [IncidentId -> TicketStatus]
  /\ notified \in [IncidentId -> [Event -> Nat]]
  /\ staff \in [Staff -> [op : (IncidentStatus \ {"none"}) \cup {"idle"}, id : IncidentId \cup {NoIncident}]]
  /\ faults \in 0 .. MaxFaults

\* Whoever works on the website and has not outlived the lock's TTL still owns
\* the lock in Redis: no other executor's late release, crash or stalled job
\* takes it away (the compare-and-delete of releaseWebsiteLock).
HolderKeepsLock ==
  \A e \in Executor : Inside(e) /\ e \notin lost => lock = e

\* "max one active job per website": of the executors between acquire and
\* release, at most one has not outlived its lock.
OneCheckAtATime ==
  \A e, f \in Executor : Inside(e) /\ Inside(f) /\ e \notin lost /\ f \notin lost => e = f

\* However often a slot is retried, stalled, released again or processed twice
\* at once, it opens at most one incident.
OneIncidentPerSlot ==
  \A i, j \in IncidentId : Exists(i) /\ Exists(j) /\ i # j => incident[i].startedAt # incident[j].startedAt

\* The website never has two active incidents, even when two checks overlap.
\* (Staff moving an incident back to in_progress is excluded by StaffTargets.)
AtMostOneActive ==
  \A i, j \in ActiveIncidents : i = j

\* An incident rests on two different slots that were both recorded as hard
\* failures: a check never counts its own row, and never one that was not saved.
IncidentRestsOnTwoFailures ==
  \A i \in IncidentId : Exists(i) =>
    /\ RawOf(results[incident[i].startedAt]) = "down"
    /\ \E s \in Recorded(results) \ {incident[i].startedAt} : RawOf(results[s]) = "down"

\* No lifecycle event is announced twice for the same incident, whatever is
\* retried after an error or a crash.
AnnouncedOnce ==
  \A i \in IncidentId, v \in Event : notified[i][v] <= 1

\* A recovery is announced only after the incident and its ticket were resolved,
\* and an assignment only for an incident already announced as created.
AnnouncedInOrder ==
  \A i \in IncidentId :
    /\ notified[i]["incident_recovered"] > 0 => ticket[i] = "resolved" /\ ~ Active(i)
    /\ notified[i]["ticket_assigned"] > 0 => notified[i]["incident_created"] > 0

\* "2 consecutive hard failures -> create incident + down": the row with the
\* card down is saved before the incident is created, and a retry that finds
\* the row skips the rest.  Once everything has settled, a card that shows down
\* without any incident is the work of an error or a crash, never of a busy
\* lock, a stall or the order of slots alone.
LostIncidentCostsFault ==
  /\ \A e \in Executor : pc[e] = "idle"
  /\ \A s \in Slot : job[s].state \in {"absent", "completed", "failed"}
  /\ faults = 0
  => \A s \in Recorded(results) \ 1 .. LegacySlots : results[s].status = "down" => \E i \in IncidentId : Exists(i)

\* Every job that is queued is settled in the end, through busy locks, stalls,
\* crashes and abandoned locks.
EveryJobSettles ==
  \A s \in Slot : job[s].state # "absent" ~> job[s].state \in {"completed", "failed"}

\* Every job taken off the queue gives its executor back.
ExecutorsReturn == \A e \in Executor : []<>(pc[e] = "idle")

\* Lifecycle events reach people once, and in the order in which they make sense.
AnnouncedOnceInOrder == AnnouncedOnce /\ AnnouncedInOrder

\* Nothing waits for ever, neither a job nor the executor that took one.
PipelineProgresses == EveryJobSettles /\ ExecutorsReturn
=============================================================================
