------------------------- MODULE CheckPipelineProofs -------------------------
(***************************************************************************)
(* Theorems about the check pipeline, for every set of executors, staff    *)
(* requests, incidents and slots and every bound.                          *)
(*                                                                         *)
(* First its types, and each from an inductive strengthening the website   *)
(* lock, the incident of a slot and, when staff only resolve and close,    *)
(* the single active incident.                                             *)
(*                                                                         *)
(* Then what the pipeline promises about an incident from its opening to   *)
(* its last event: it rests on two recorded failures, only an error or a   *)
(* crash loses it, its events are announced once and in order, the         *)
(* pipeline implements the incident lifecycle, and one undisturbed         *)
(* executor computes the sequential rules.  These arguments share three    *)
(* facts: which steps write the database (DatabaseSteps), that a step      *)
(* moves one handler only (OneHandlerMoves), and that a recorded row never *)
(* changes (RowsStay).  Each property then has an inductive invariant of   *)
(* its own: RestInvariant, DownInvariant, EventInvariant, SoleInvariant.   *)
(***************************************************************************)
EXTENDS CheckPipelineRefinement, FiniteSetTheorems, WellFoundedInduction, SequenceTheorems, TLAPS

-----------------------------------------------------------------------------
(* Operators *)

\* Classification and card stay within the monitoring statuses.
LEMMA EvaluateType ==
  ASSUME NEW recent, NEW hasActive
  PROVE  EvaluateIncidentRules(recent, hasActive) \in IncidentRuleAction
BY SMT DEF EvaluateIncidentRules, IncidentRuleAction, RuleAction, MonitoringStatus, NoCard

LEMMA NoPlanType == NoPlan \in IncidentRuleAction
BY DEF NoPlan, IncidentRuleAction, NoCard

LEMMA OverrideType ==
  ASSUME NEW status \in MonitoringStatus, NEW action \in IncidentRuleAction
  PROVE  ApplyCardStatusOverride(status, action) \in MonitoringStatus
BY SMT DEF ApplyCardStatusOverride, IncidentRuleAction, MonitoringStatus, IsFailureStatus, NoCard

\* A website never has more rows than slots.
LEMMA RecordedBound ==
  ASSUME NEW rows
  PROVE  Cardinality(Recorded(rows)) \in 0 .. MaxSlot
<1>1. MaxSlot \in Nat
  BY BoundsAssumption
<1>2. IsFiniteSet(Slot) /\ Cardinality(Slot) = MaxSlot
  <2>1. IsFiniteSet(1 .. MaxSlot) /\ Cardinality(1 .. MaxSlot) = IF 1 > MaxSlot THEN 0 ELSE MaxSlot - 1 + 1
    BY <1>1, FS_Interval
  <2>2. QED
    BY <1>1, <2>1 DEF Slot
<1>3. Recorded(rows) \subseteq Slot
  BY DEF Recorded
<1>4. IsFiniteSet(Recorded(rows)) /\ Cardinality(Recorded(rows)) <= Cardinality(Slot)
  BY <1>2, <1>3, FS_Subset
<1>5. Cardinality(Recorded(rows)) \in Nat
  BY <1>4, FS_CardinalityType
<1>6. QED
  BY <1>1, <1>2, <1>4, <1>5

LEMMA NewJobType ==
  ASSUME NEW state \in JobState
  PROVE  NewJob(state) \in Job
BY BoundsAssumption DEF NewJob, Job

-----------------------------------------------------------------------------
(* Type correctness *)

LEMMA JobUpdateType ==
  ASSUME NEW j \in Job, NEW state \in JobState, NEW owner \in Executor \cup {NoOne},
         NEW attempts \in 0 .. MaxAttempts, NEW stalls \in 0 .. MaxStalls
  PROVE  /\ [j EXCEPT !.owner = owner, !.state = state] \in Job
         /\ [j EXCEPT !.state = state, !.owner = owner] \in Job
         /\ [j EXCEPT !.owner = owner, !.state = state, !.attempts = attempts] \in Job
         /\ [j EXCEPT !.owner = owner, !.state = state, !.stalls = stalls] \in Job
BY DEF Job

LEMMA SettleType ==
  ASSUME TypeOK, NEW e \in Executor,
         NEW state \in {"delayed", "completed"}, Settle(e, state)
  PROVE  job' \in [Slot -> Job]
<1> DEFINE mine == job[slot[e]]
           requeued == [mine EXCEPT !.owner = NoOne, !.state = state]
<1>1. NewJob(state) \in Job /\ state \in JobState
  BY NewJobType DEF JobState
<1>2. ASSUME slot[e] \in Slot
      PROVE  requeued \in Job
  <2>1. mine \in Job
    BY <1>2 DEF TypeOK
  <2>2. 0 \in 0 .. MaxAttempts /\ 0 \in 0 .. MaxStalls
    BY BoundsAssumption
  <2> HIDE DEF mine
  <2>3. QED
    BY <1>1, <2>1, <2>2, JobUpdateType
<1>3. job' = job \/ job' = [job EXCEPT ![slot[e]] = requeued]
                 \/ job' = [job EXCEPT ![slot[e]] = NewJob(state)]
  BY DEF Settle
<1> HIDE DEF requeued
<1>4. QED
  BY <1>1, <1>2, <1>3 DEF TypeOK

LEMMA SettleErrorType ==
  ASSUME TypeOK, NEW e \in Executor, SettleError(e)
  PROVE  job' \in [Slot -> Job]
<1> DEFINE mine == job[slot[e]]
           made == mine.attempts + 1
           retried == [mine EXCEPT !.owner = NoOne, !.state = "delayed", !.attempts = made]
<1>1. NewJob("failed") \in Job /\ "delayed" \in JobState
  BY NewJobType DEF JobState
<1>2. ASSUME slot[e] \in Slot, made < MaxAttempts
      PROVE  retried \in Job
  <2>1. mine \in Job
    BY <1>2 DEF TypeOK
  <2>2. made \in 0 .. MaxAttempts
    BY <1>2, <2>1, BoundsAssumption DEF Job
  <2>3. 0 \in 0 .. MaxStalls
    BY BoundsAssumption
  <2> HIDE DEF mine, made
  <2>4. QED
    BY <1>1, <2>1, <2>2, <2>3, JobUpdateType
<1>3. \/ job' = job
      \/ job' = [job EXCEPT ![slot[e]] = IF made < MaxAttempts THEN retried ELSE NewJob("failed")]
  BY DEF SettleError
<1> HIDE DEF retried
<1>4. QED
  BY <1>1, <1>2, <1>3 DEF TypeOK

LEMMA GoIdleType ==
  ASSUME TypeOK, NEW e \in Executor, GoIdle(e)
  PROVE  /\ pc' \in [Executor -> Step]
         /\ slot' \in [Executor -> 0 .. MaxSlot]
         /\ raw' \in [Executor -> MonitoringStatus]
         /\ seen' \in [Executor -> Rows]
         /\ plan' \in [Executor -> IncidentRuleAction]
         /\ target' \in [Executor -> IncidentId \cup {NoIncident}]
         /\ todo' \in [Executor -> Seq(Event)]
         /\ failed' \in [Executor -> BOOLEAN]
<1>1. [s \in Slot |-> NoRow] \in Rows
  BY DEF Rows
<1>2. NoSlot \in 0 .. MaxSlot
  BY BoundsAssumption DEF NoSlot
<1>3. "unknown" \in MonitoringStatus /\ "idle" \in Step
  BY DEF MonitoringStatus, Step
<1>4. QED
  BY <1>1, <1>2, <1>3, NoPlanType DEF TypeOK, GoIdle
-----------------------------------------------------------------------------
\* The pending executors keep a slot in hand.
LEMMA InitTypeCorrect == Init => TypeOK
<1> SUFFICES ASSUME Init PROVE TypeOK
  OBVIOUS
<1>1. NoRow \in Row \cup {NoRow} /\ NoSlot \in 0 .. MaxSlot /\ 0 \in 0 .. MaxSlot
  BY BoundsAssumption DEF NoSlot
<1>2. job \in [Slot -> Job]
  BY NewJobType DEF Init, JobState
<1>3. results \in Rows
  <2>1. PICK statuses \in [1 .. LegacySlots -> Observations] :
          results = [s \in Slot |->
            IF s <= LegacySlots
            THEN [rawStatus |-> NoRaw, status |-> statuses[s], checkedAt |-> s - 1]
            ELSE NoRow]
    BY DEF Init
  <2>2. ASSUME NEW s \in Slot, s <= LegacySlots
        PROVE  [rawStatus |-> NoRaw, status |-> statuses[s], checkedAt |-> s - 1] \in Row
    <3>1. statuses[s] \in MonitoringStatus
      BY <2>2, BoundsAssumption, NamesAssumption DEF Slot
    <3>2. s - 1 \in 0 .. MaxSlot
      BY <2>2, BoundsAssumption DEF Slot
    <3>3. QED
      BY <3>1, <3>2 DEF Row
  <2>3. QED
    BY <2>1, <2>2 DEF Rows
<1>4. plan \in [Executor -> IncidentRuleAction]
  BY NoPlanType DEF Init
<1>5. seen \in [Executor -> Rows]
  BY DEF Init, Rows
<1>6. incident \in [IncidentId -> Incident]
  BY <1>1 DEF Init, Incident, IncidentStatus, NoRecord
<1>7. now \in 0 .. MaxSlot + 1 /\ faults \in 0 .. MaxFaults
  BY BoundsAssumption DEF Init
<1>8. /\ pc \in [Executor -> Step]
      /\ slot \in [Executor -> 0 .. MaxSlot]
      /\ raw \in [Executor -> MonitoringStatus]
      /\ failed \in [Executor -> BOOLEAN]
      /\ todo \in [Executor -> Seq(Event)]
      /\ target \in [Executor -> IncidentId \cup {NoIncident}]
  BY <1>1 DEF Init, Step, MonitoringStatus
<1>9. /\ lock \in Executor \cup {NoOne} /\ lost \in SUBSET Executor
      /\ advisory \in Executor \cup {NoOne}
      /\ ticket \in [IncidentId -> TicketStatus]
      /\ notified \in [IncidentId -> [Event -> Nat]]
  BY DEF Init, TicketStatus
<1>10. staff \in [Staff -> [op : (IncidentStatus \ {"none"}) \cup {"idle"}, id : IncidentId \cup {NoIncident}]]
  BY DEF Init
<1>11. QED
  BY <1>2, <1>3, <1>4, <1>5, <1>6, <1>7, <1>8, <1>9, <1>10 DEF TypeOK

\* The steps that only move one handler along.
LEMMA HandlerTypeCorrect ==
  ASSUME TypeOK, NEW e \in Executor,
         \/ NotRecorded(e) \/ AcquireWebsiteLock(e) \/ SkipInactive(e) \/ RunProbes(e)
         \/ ReadPrevious(e) \/ ResultAlreadyExists(e)
         \/ BeginCreate(e) \/ SkipDuplicateIncident(e) \/ NoActiveIncident(e)
         \/ AllAnnounced(e) \/ ResolveIncident(e) \/ ResolveTickets(e)
         \/ Announce(e) \/ CommitIncident(e) \/ InsertResult(e) \/ ReadActiveIncident(e)
  PROVE  TypeOK'
<1>1. CASE NotRecorded(e)
  BY <1>1 DEF TypeOK, NotRecorded, Goto, Step, localVars, lockVars, dbVars
<1>2. CASE AcquireWebsiteLock(e)
  BY <1>2 DEF TypeOK, AcquireWebsiteLock, Goto, Step, localVars, lockVars, dbVars
<1>3. CASE SkipInactive(e)
  BY <1>3 DEF TypeOK, SkipInactive, Goto, Step, localVars, lockVars, dbVars
<1>4. CASE RunProbes(e)
  BY <1>4, NamesAssumption DEF TypeOK, RunProbes, Goto, Step, localVars, lockVars, dbVars
<1>5. CASE ReadPrevious(e)
  BY <1>5 DEF TypeOK, ReadPrevious, Goto, Step, localVars, lockVars, dbVars
<1>6. CASE ResultAlreadyExists(e)
  BY <1>6 DEF TypeOK, ResultAlreadyExists, Goto, Step, localVars, lockVars, dbVars
<1>7. CASE BeginCreate(e)
  BY <1>7 DEF TypeOK, BeginCreate, Goto, Step, localVars, lockVars, dbVars
<1>8. CASE SkipDuplicateIncident(e)
  BY <1>8 DEF TypeOK, SkipDuplicateIncident, Goto, Step, localVars, lockVars, dbVars
<1>9. CASE NoActiveIncident(e)
  BY <1>9 DEF TypeOK, NoActiveIncident, Goto, Step, localVars, lockVars, dbVars
<1>10. CASE AllAnnounced(e)
  BY <1>10 DEF TypeOK, AllAnnounced, Goto, Step, localVars, lockVars, dbVars
<1>11. CASE ResolveIncident(e)
  BY <1>11 DEF TypeOK, ResolveIncident, Goto, Step, localVars, lockVars, dbVars, Incident, IncidentStatus
<1>12. CASE ResolveTickets(e)
  <2>1. todo' \in [Executor -> Seq(Event)]
    BY <1>12 DEF TypeOK, ResolveTickets, Event
  <2>2. ticket' \in [IncidentId -> TicketStatus]
    BY <1>12 DEF TypeOK, ResolveTickets, TicketStatus
  <2>3. QED
    BY <1>12, <2>1, <2>2 DEF TypeOK, ResolveTickets, Step, Goto, localVars, lockVars, dbVars
<1>13. CASE Announce(e)
  <2>1. Head(todo[e]) \in Event /\ Tail(todo[e]) \in Seq(Event)
    BY <1>13 DEF TypeOK, Announce
  <2>2. todo' \in [Executor -> Seq(Event)]
    BY <1>13, <2>1 DEF TypeOK, Announce
  <2>3. notified' \in [IncidentId -> [Event -> Nat]]
    <3> DEFINE i == target[e]
               counted == [notified[i] EXCEPT ![Head(todo[e])] = @ + 1]
    <3>1. notified' = [notified EXCEPT ![i] = counted]
      BY <1>13 DEF Announce
    <3>2. ASSUME i \in IncidentId PROVE counted \in [Event -> Nat]
      BY <2>1, <3>2 DEF TypeOK
    <3> HIDE DEF counted
    <3>3. QED
      BY <3>1, <3>2 DEF TypeOK
  <2>4. QED
    BY <1>13, <2>2, <2>3 DEF TypeOK, Announce, Goto, localVars, lockVars, dbVars
<1>14. CASE CommitIncident(e)
  <2>1. PICK i \in IncidentId :
          /\ incident' = [incident EXCEPT ![i] = [status |-> "open", startedAt |-> slot[e]]]
          /\ ticket' = [ticket EXCEPT ![i] = "open"]
          /\ target' = [target EXCEPT ![e] = i]
    BY <1>14 DEF CommitIncident
  <2>2. [status |-> "open", startedAt |-> slot[e]] \in Incident /\ "open" \in TicketStatus
    BY DEF TypeOK, Incident, IncidentStatus, TicketStatus
  <2>3. /\ incident' \in [IncidentId -> Incident]
        /\ ticket' \in [IncidentId -> TicketStatus]
        /\ target' \in [Executor -> IncidentId \cup {NoIncident}]
    BY <2>1, <2>2 DEF TypeOK
  <2>4. todo' \in [Executor -> Seq(Event)]
    <3>1. << "incident_created", "ticket_assigned" >> \in Seq(Event) /\ << "incident_created" >> \in Seq(Event)
      BY DEF Event
    <3>2. PICK assigned \in BOOLEAN :
            todo' = [todo EXCEPT ![e] = IF assigned THEN << "incident_created", "ticket_assigned" >>
                                                    ELSE << "incident_created" >>]
      BY <1>14 DEF CommitIncident
    <3>3. QED
      BY <3>1, <3>2 DEF TypeOK
  <2>5. QED
    BY <1>14, <2>3, <2>4 DEF TypeOK, CommitIncident, Step, Goto, localVars, lockVars, dbVars
<1>15. CASE InsertResult(e)
  <2>1. /\ raw[e] \in MonitoringStatus
        /\ ApplyCardStatusOverride(raw[e], plan[e]) \in MonitoringStatus
    BY OverrideType DEF TypeOK
  <2>2. Cardinality(Recorded(seen[e])) \in 0 .. MaxSlot
    BY RecordedBound
  <2>3. results' \in Rows
    BY <1>15, <2>1, <2>2 DEF TypeOK, InsertResult, Rows, Row
  <2>4. pc' \in [Executor -> Step]
    BY <1>15 DEF TypeOK, InsertResult, AfterInsert, Step
  <2>5. QED
    BY <1>15, <2>3, <2>4 DEF TypeOK, InsertResult, Goto, localVars, lockVars, dbVars
<1>16. CASE ReadActiveIncident(e)
  <2>1. plan' \in [Executor -> IncidentRuleAction]
    BY <1>16, EvaluateType DEF TypeOK, ReadActiveIncident
  <2>2. target' \in [Executor -> IncidentId \cup {NoIncident}]
    BY <1>16 DEF TypeOK, ReadActiveIncident, NewestActive, ActiveIncidents
  <2>3. QED
    BY <1>16, <2>1, <2>2 DEF TypeOK, ReadActiveIncident, Step, Goto, localVars, lockVars, dbVars
<1>17. QED
  BY <1>1, <1>2, <1>3, <1>4, <1>5, <1>6, <1>7, <1>8, <1>9, <1>10, <1>11, <1>12, <1>13, <1>14, <1>15, <1>16
\* The steps that settle a job.
LEMMA SettlingTypeCorrect ==
  ASSUME TypeOK, NEW e \in Executor,
         SkipRecorded(e) \/ DelayBusy(e) \/ ReleaseWebsiteLock(e) \/ Throw(e) \/ Crash(e)
  PROVE  TypeOK'
<1>1. CASE SkipRecorded(e)
  <2>1. job' \in [Slot -> Job]
    BY <1>1, SettleType DEF SkipRecorded
  <2>2. QED
    BY <1>1, <2>1, GoIdleType DEF TypeOK, SkipRecorded, lockVars, dbVars
<1>2. CASE DelayBusy(e)
  <2>1. job' \in [Slot -> Job]
    BY <1>2, SettleType DEF DelayBusy
  <2>2. QED
    BY <1>2, <2>1, GoIdleType DEF TypeOK, DelayBusy, lockVars, dbVars
<1>3. CASE ReleaseWebsiteLock(e)
  <2>1. job' \in [Slot -> Job]
    BY <1>3, SettleType, SettleErrorType DEF ReleaseWebsiteLock
  <2>2. lock' \in Executor \cup {NoOne} /\ lost' \in SUBSET Executor
    BY <1>3 DEF TypeOK, ReleaseWebsiteLock
  <2>3. QED
    BY <1>3, <2>1, <2>2, GoIdleType DEF TypeOK, ReleaseWebsiteLock, lockVars, dbVars
<1>4. CASE Throw(e)
  <2>1. /\ advisory' \in Executor \cup {NoOne} /\ lost' \in SUBSET Executor
        /\ faults' \in 0 .. MaxFaults
    BY <1>4, BoundsAssumption DEF TypeOK, Throw, FreeAdvisory
  <2>2. CASE pc[e] \in Guarded \ {"release"}
    BY <1>4, <2>1, <2>2 DEF TypeOK, Throw, Step, lockVars, dbVars
  <2>3. CASE pc[e] \notin Guarded \ {"release"}
    <3>1. SettleError(e) /\ GoIdle(e)
      BY <1>4, <2>3 DEF Throw
    <3>2. QED
      BY <1>4, <2>1, <3>1, SettleErrorType, GoIdleType DEF TypeOK, Throw, dbVars
  <2>4. QED
    BY <2>2, <2>3
<1>5. CASE Crash(e)
  <2>1. /\ advisory' \in Executor \cup {NoOne} /\ lost' \in SUBSET Executor
        /\ faults' \in 0 .. MaxFaults
    BY <1>5, BoundsAssumption DEF TypeOK, Crash, FreeAdvisory
  <2>2. QED
    BY <1>5, <2>1, GoIdleType DEF TypeOK, Crash, dbVars
<1>6. QED
  BY <1>1, <1>2, <1>3, <1>4, <1>5

\* Jobs released, taken or taken back.
LEMMA QueueTypeCorrect ==
  ASSUME TypeOK,
         \/ ReleaseSlot \/ ReleaseAgain
         \/ \E e \in Executor : Take(e)
         \/ \E s \in Slot : Stall(s)
  PROVE  TypeOK'
<1>1. CASE ReleaseSlot
  <2>1. job' \in [Slot -> Job]
    BY <1>1, NewJobType DEF TypeOK, ReleaseSlot, JobState
  <2>2. now' \in 0 .. MaxSlot + 1
    BY <1>1, BoundsAssumption DEF TypeOK, ReleaseSlot
  <2>3. QED
    BY <1>1, <2>1, <2>2 DEF TypeOK, ReleaseSlot, localVars, lockVars, dbVars
<1>2. CASE ReleaseAgain
  <2>1. job' \in [Slot -> Job]
    BY <1>2, NewJobType DEF TypeOK, ReleaseAgain, JobState
  <2>2. QED
    BY <1>2, <2>1 DEF TypeOK, ReleaseAgain, localVars, lockVars, dbVars
<1>3. ASSUME NEW e \in Executor, NEW s \in Slot, StartJob(e, s)
      PROVE  TypeOK'
  <2> DEFINE taken == [job[s] EXCEPT !.state = "active", !.owner = e]
  <2>1. taken \in Job
    <3>1. job[s] \in Job /\ "active" \in JobState /\ 0 \in 0 .. MaxAttempts /\ 0 \in 0 .. MaxStalls
      BY BoundsAssumption DEF TypeOK, JobState
    <3>2. QED
      BY <3>1, JobUpdateType
  <2>2. job' \in [Slot -> Job]
    <3>1. job' = [job EXCEPT ![s] = taken]
      BY <1>3 DEF StartJob
    <3> HIDE DEF taken
    <3>2. QED
      BY <2>1, <3>1 DEF TypeOK
  <2>3. slot' \in [Executor -> 0 .. MaxSlot] /\ pc' \in [Executor -> Step]
    <3>1. pc' = [pc EXCEPT ![e] = "lookup"] /\ slot' = [slot EXCEPT ![e] = s]
      BY <1>3 DEF StartJob
    <3>2. s \in 0 .. MaxSlot /\ "lookup" \in Step
      BY BoundsAssumption DEF Slot, Step
    <3>3. QED
      BY <3>1, <3>2 DEF TypeOK
  <2>4. QED
    BY <1>3, <2>2, <2>3 DEF TypeOK, StartJob, lockVars, dbVars
<1>4. ASSUME NEW e \in Executor, NEW s \in Slot, SkipLate(e, s)
      PROVE  TypeOK'
  <2>1. job' \in [Slot -> Job]
    BY <1>4, NewJobType DEF TypeOK, SkipLate, JobState
  <2>2. QED
    BY <1>4, <2>1 DEF TypeOK, SkipLate, localVars, lockVars, dbVars
<1>5. ASSUME NEW s \in Slot, Stall(s)
      PROVE  TypeOK'
  <2>1. NewJob("failed") \in Job
    BY NewJobType DEF JobState
  <2> DEFINE stalls == job[s].stalls + 1
             back == [job[s] EXCEPT !.owner = NoOne, !.state = "delayed", !.stalls = stalls]
  <2>2. ASSUME job[s].stalls < MaxStalls
        PROVE  back \in Job
    <3>1. job[s] \in Job /\ "delayed" \in JobState /\ 0 \in 0 .. MaxAttempts
      BY BoundsAssumption DEF TypeOK, JobState
    <3>2. stalls \in 0 .. MaxStalls
      BY <2>2, <3>1, BoundsAssumption DEF Job
    <3> HIDE DEF stalls
    <3>3. QED
      BY <3>1, <3>2, JobUpdateType
  <2>3. job' \in [Slot -> Job]
    <3>1. job' = [job EXCEPT ![s] = IF job[s].stalls < MaxStalls THEN back ELSE NewJob("failed")]
      BY <1>5 DEF Stall
    <3> HIDE DEF back
    <3>2. QED
      BY <2>1, <2>2, <3>1 DEF TypeOK
  <2>4. faults' \in 0 .. MaxFaults
    <3>1. faults' = faults \/ (faults < MaxFaults /\ faults' = faults + 1)
      BY <1>5 DEF Stall
    <3>2. QED
      BY <3>1, BoundsAssumption DEF TypeOK
  <2>5. QED
    BY <1>5, <2>3, <2>4 DEF TypeOK, Stall, localVars, lockVars, dbVars
<1>6. QED
  BY <1>1, <1>2, <1>3, <1>4, <1>5 DEF Take

\* The API requests and the lock's expiry.
LEMMA EnvironmentTypeCorrect ==
  ASSUME TypeOK, ExpireLock \/ (\E p \in Staff : StaffReads(p) \/ StaffWrites(p)) \/ HorizonReached
  PROVE  TypeOK'
<1>1. CASE ExpireLock
  BY <1>1 DEF TypeOK, ExpireLock, localVars, dbVars
<1>2. ASSUME NEW p \in Staff, StaffReads(p)
      PROVE  TypeOK'
  <2>1. StaffTargets \cup {"closed"} \subseteq IncidentStatus \ {"none"}
    BY NamesAssumption DEF IncidentStatus
  <2>2. staff' \in [Staff -> [op : (IncidentStatus \ {"none"}) \cup {"idle"}, id : IncidentId \cup {NoIncident}]]
    <3>1. PICK i \in IncidentId, op \in StaffTargets \cup {"closed"} :
            staff' = [staff EXCEPT ![p] = [op |-> op, id |-> i]]
      BY <1>2 DEF StaffReads
    <3>2. [op |-> op, id |-> i] \in [op : (IncidentStatus \ {"none"}) \cup {"idle"}, id : IncidentId \cup {NoIncident}]
      BY <2>1
    <3>3. QED
      BY <3>1, <3>2 DEF TypeOK
  <2>3. QED
    BY <1>2, <2>2 DEF TypeOK, StaffReads, localVars, lockVars, dbVars
<1>3. ASSUME NEW p \in Staff, StaffWrites(p)
      PROVE  TypeOK'
  <2>1. staff[p].op \in IncidentStatus
    BY <1>3 DEF TypeOK, StaffWrites
  <2>2. incident' \in [IncidentId -> Incident]
    BY <1>3, <2>1 DEF TypeOK, StaffWrites, Incident
  <2>3. staff' \in [Staff -> [op : (IncidentStatus \ {"none"}) \cup {"idle"}, id : IncidentId \cup {NoIncident}]]
    BY <1>3 DEF TypeOK, StaffWrites
  <2>4. QED
    BY <1>3, <2>2, <2>3 DEF TypeOK, StaffWrites, localVars, lockVars
<1>4. CASE HorizonReached
  BY <1>4 DEF TypeOK, HorizonReached, vars
<1>5. QED
  BY <1>1, <1>2, <1>3, <1>4

\* The variables of the pipeline always have their types: no handler, fault or
\* staff request leaves the statuses, rows and jobs the code works with.
THEOREM TypeCorrect == Spec => []TypeOK
<1>1. Init => TypeOK
  BY InitTypeCorrect
<1>2. TypeOK /\ [Next]_vars => TypeOK'
  <2>1. TypeOK /\ Next => TypeOK'
    BY HandlerTypeCorrect, SettlingTypeCorrect, QueueTypeCorrect, EnvironmentTypeCorrect
    DEF Next, Proceed
  <2>2. TypeOK /\ UNCHANGED vars => TypeOK'
    BY DEF TypeOK, vars
  <2>3. QED
    BY <2>1, <2>2
<1>3. QED
  BY <1>1, <1>2, PTL DEF Spec

-----------------------------------------------------------------------------
(* The website lock *)

\* The steps that neither touch the lock nor enter the guarded section.
LEMMA LockUntouched ==
  ASSUME TypeOK, HolderKeepsLock, lock' = lock, lost' = lost,
         \A f \in Executor : Inside(f)' => Inside(f)
  PROVE  HolderKeepsLock'
BY DEF HolderKeepsLock

\* Every step of a handler but the acquisition and the release of the lock.
LEMMA HandlerKeepsLock ==
  ASSUME TypeOK, NEW e \in Executor,
         \/ SkipRecorded(e) \/ NotRecorded(e) \/ DelayBusy(e)
         \/ SkipInactive(e) \/ RunProbes(e) \/ ReadPrevious(e) \/ ReadActiveIncident(e)
         \/ InsertResult(e) \/ ResultAlreadyExists(e)
         \/ BeginCreate(e) \/ SkipDuplicateIncident(e) \/ NoActiveIncident(e) \/ CommitIncident(e)
         \/ ResolveIncident(e) \/ ResolveTickets(e) \/ Announce(e) \/ AllAnnounced(e)
  PROVE  lock' = lock /\ lost' = lost /\ \A f \in Executor : Inside(f)' => Inside(f)
<1>1. CASE SkipRecorded(e) \/ DelayBusy(e)
  BY <1>1 DEF TypeOK, SkipRecorded, DelayBusy, GoIdle, Inside, Guarded, lockVars
<1>2. CASE NotRecorded(e)
  BY <1>2 DEF TypeOK, NotRecorded, Goto, Inside, Guarded, lockVars
<1>3. CASE SkipInactive(e) \/ RunProbes(e) \/ ReadPrevious(e)
  BY <1>3 DEF TypeOK, SkipInactive, RunProbes, ReadPrevious, Goto, Inside, Guarded, Step, lockVars
<1>4. CASE ReadActiveIncident(e)
  BY <1>4 DEF TypeOK, ReadActiveIncident, Goto, Inside, Guarded, Step, lockVars
<1>5. CASE InsertResult(e)
  BY <1>5 DEF TypeOK, InsertResult, Inside, Guarded, Step, lockVars
<1>6. CASE ResultAlreadyExists(e) \/ BeginCreate(e) \/ SkipDuplicateIncident(e) \/ NoActiveIncident(e)
  BY <1>6 DEF TypeOK, ResultAlreadyExists, BeginCreate, SkipDuplicateIncident, NoActiveIncident,
              Goto, Inside, Guarded, Step, lockVars
<1>7. CASE CommitIncident(e)
  BY <1>7 DEF TypeOK, CommitIncident, Goto, Inside, Guarded, Step, lockVars
<1>8. CASE ResolveIncident(e) \/ ResolveTickets(e)
  BY <1>8 DEF TypeOK, ResolveIncident, ResolveTickets, Goto, Inside, Guarded, Step, lockVars
<1>9. CASE Announce(e) \/ AllAnnounced(e)
  BY <1>9 DEF TypeOK, Announce, AllAnnounced, Goto, Inside, Guarded, Step, lockVars
<1>10. QED
  BY <1>1, <1>2, <1>3, <1>4, <1>5, <1>6, <1>7, <1>8, <1>9

\* What the queue and the staff do changes no handler that holds the lock.
LEMMA OthersKeepLock ==
  ASSUME TypeOK,
         \/ ReleaseSlot \/ ReleaseAgain \/ HorizonReached \/ UNCHANGED vars
         \/ \E e \in Executor : Take(e)
         \/ \E s \in Slot : Stall(s)
         \/ \E p \in Staff : StaffReads(p) \/ StaffWrites(p)
  PROVE  lock' = lock /\ lost' = lost /\ \A f \in Executor : Inside(f)' => Inside(f)
<1>1. CASE ReleaseSlot \/ ReleaseAgain \/ HorizonReached \/ UNCHANGED vars
  BY <1>1 DEF ReleaseSlot, ReleaseAgain, HorizonReached, Inside, lockVars, vars
<1>2. ASSUME NEW e \in Executor, NEW s \in Slot, StartJob(e, s)
      PROVE  lock' = lock /\ lost' = lost /\ \A f \in Executor : Inside(f)' => Inside(f)
  BY <1>2 DEF TypeOK, StartJob, Inside, Guarded, lockVars
<1>3. ASSUME NEW e \in Executor, NEW s \in Slot, SkipLate(e, s)
      PROVE  lock' = lock /\ lost' = lost /\ \A f \in Executor : Inside(f)' => Inside(f)
  BY <1>3 DEF SkipLate, Inside, lockVars
<1>4. ASSUME NEW s \in Slot, Stall(s)
      PROVE  lock' = lock /\ lost' = lost /\ \A f \in Executor : Inside(f)' => Inside(f)
  BY <1>4 DEF Stall, Inside, lockVars
<1>5. ASSUME NEW p \in Staff, StaffReads(p) \/ StaffWrites(p)
      PROVE  lock' = lock /\ lost' = lost /\ \A f \in Executor : Inside(f)' => Inside(f)
  BY <1>5 DEF StaffReads, StaffWrites, Inside, lockVars
<1>6. QED
  BY <1>1, <1>2, <1>3, <1>4, <1>5 DEF Take

\* A handler that leaves, by the finally block, an error or a crash, leaves
\* every other handler's lock alone.
LEMMA LeavingKeepsLock ==
  ASSUME TypeOK, HolderKeepsLock, NEW e \in Executor,
         ReleaseWebsiteLock(e) \/ Throw(e) \/ Crash(e)
  PROVE  HolderKeepsLock'
<1>1. ASSUME GoIdle(e), lost' = lost \ {e}, lock' = lock \/ (lock = e /\ lock' = NoOne)
      PROVE  HolderKeepsLock'
  <2> SUFFICES ASSUME NEW f \in Executor, Inside(f)', f \notin lost'
               PROVE  lock' = f
    BY DEF HolderKeepsLock
  <2>1. f # e /\ Inside(f)
    BY <1>1 DEF TypeOK, GoIdle, Inside, Guarded
  <2>2. lock = f
    BY <1>1, <2>1 DEF HolderKeepsLock
  <2>3. QED
    BY <1>1, <2>1, <2>2
<1>2. CASE ReleaseWebsiteLock(e)
  <2>1. GoIdle(e) /\ lost' = lost \ {e} /\ (lock' = lock \/ (lock = e /\ lock' = NoOne))
    BY <1>2 DEF ReleaseWebsiteLock
  <2>2. QED
    BY <1>1, <2>1
<1>3. CASE Throw(e) /\ pc[e] \in Guarded \ {"release"}
  <2>1. lock' = lock /\ lost' = lost /\ pc' = [pc EXCEPT ![e] = "release"]
    BY <1>3 DEF Throw
  <2>2. \A f \in Executor : Inside(f)' => Inside(f)
    BY <1>3, <2>1 DEF TypeOK, Inside, Guarded
  <2>3. QED
    BY <2>1, <2>2, LockUntouched
<1>4. CASE Throw(e) /\ pc[e] \notin Guarded \ {"release"}
  <2>1. GoIdle(e) /\ lost' = lost \ {e} /\ lock' = lock
    BY <1>4 DEF Throw
  <2>2. QED
    BY <1>1, <2>1
<1>5. CASE Crash(e)
  <2>1. GoIdle(e) /\ lost' = lost \ {e} /\ lock' = lock
    BY <1>5 DEF Crash
  <2>2. QED
    BY <1>1, <2>1
<1>6. QED
  BY <1>2, <1>3, <1>4, <1>5

\* Taking a free lock, and a lock that expires.
LEMMA LockChanges ==
  ASSUME TypeOK, HolderKeepsLock,
         (\E e \in Executor : AcquireWebsiteLock(e)) \/ ExpireLock
  PROVE  HolderKeepsLock'
<1>1. ASSUME NEW e \in Executor, AcquireWebsiteLock(e)
      PROVE  HolderKeepsLock'
  <2> SUFFICES ASSUME NEW f \in Executor, Inside(f)', f \notin lost', f # e
               PROVE  FALSE
    BY <1>1 DEF HolderKeepsLock, AcquireWebsiteLock
  <2>1. Inside(f) /\ f \notin lost /\ lock = NoOne
    BY <1>1 DEF TypeOK, AcquireWebsiteLock, Goto, Inside
  <2>2. QED
    BY <2>1, NamesAssumption DEF HolderKeepsLock
<1>2. CASE ExpireLock
  <2> SUFFICES ASSUME NEW f \in Executor, Inside(f)', f \notin lost'
               PROVE  FALSE
    BY DEF HolderKeepsLock
  <2>1. Inside(f) /\ f \notin lost
    BY <1>2 DEF ExpireLock, Inside
  <2>2. lock = f
    BY <2>1 DEF HolderKeepsLock
  <2>3. QED
    BY <1>2, <2>1, <2>2 DEF ExpireLock
<1>3. QED
  BY <1>1, <1>2

\* A check that has not outlived its lock owns it until it releases it itself,
\* for any number of executors, crashes, stalls and late releases.
THEOREM LockKept == Spec => []HolderKeepsLock
<1>1. Init => HolderKeepsLock
  BY DEF Init, HolderKeepsLock, Inside, Guarded
<1>2. TypeOK /\ HolderKeepsLock /\ [Next]_vars => HolderKeepsLock'
  <2> SUFFICES ASSUME TypeOK, HolderKeepsLock, [Next]_vars
               PROVE  HolderKeepsLock'
    OBVIOUS
  <2>1. ASSUME NEW e \in Executor, Proceed(e)
        PROVE  HolderKeepsLock'
    BY <2>1, HandlerKeepsLock, LockUntouched, LeavingKeepsLock, LockChanges DEF Proceed
  <2>2. CASE ReleaseSlot \/ ReleaseAgain \/ HorizonReached \/ UNCHANGED vars
             \/ (\E e \in Executor : Take(e)) \/ (\E s \in Slot : Stall(s))
             \/ (\E p \in Staff : StaffReads(p) \/ StaffWrites(p))
    BY <2>2, OthersKeepLock, LockUntouched
  <2>3. CASE ExpireLock \/ \E e \in Executor : Throw(e) \/ Crash(e)
    BY <2>3, LockChanges, LeavingKeepsLock
  <2>4. QED
    BY <2>1, <2>2, <2>3 DEF Next
<1>3. QED
  BY <1>1, <1>2, TypeCorrect, PTL DEF Spec

\* "Max one active job per website": two handlers inside the guarded section
\* are the same, or one of them has outlived its lock.
THEOREM NeverTwoChecks == Spec => []OneCheckAtATime
<1>1. HolderKeepsLock => OneCheckAtATime
  BY DEF HolderKeepsLock, OneCheckAtATime
<1>2. QED
  BY <1>1, LockKept, PTL

-----------------------------------------------------------------------------
(* Incidents that are written exist *)

\* A handler about to resolve, or bound to, and a staff request about to write
\* refer to an incident that was created.
Resolving(e) == pc[e] = "resolve" \/ (pc[e] = "insert" /\ plan[e].type = "resolve_incident")
TargetInvariant ==
  /\ \A e \in Executor : Resolving(e) => target[e] \in IncidentId /\ Exists(target[e])
  /\ \A p \in Staff : staff[p].op # "idle" => staff[p].id \in IncidentId /\ Exists(staff[p].id)

\* The rules resolve only an incident they were told of.
LEMMA ResolveNeedsActive ==
  ASSUME NEW recent, NEW hasActive \in BOOLEAN,
         EvaluateIncidentRules(recent, hasActive).type = "resolve_incident"
  PROVE  hasActive
BY DEF EvaluateIncidentRules, RuleAction

\* No step makes an incident disappear.
IncidentsStay == \A i \in IncidentId : Exists(i) => Exists(i)'

LEMMA NextKeepsIncidents ==
  ASSUME TypeOK, [Next]_vars
  PROVE  IncidentsStay
<1>1. incident' = incident => IncidentsStay
  BY DEF IncidentsStay, Exists
<1>2. ASSUME NEW e \in Executor, Proceed(e) \/ Throw(e) \/ Crash(e) \/ Take(e)
      PROVE  IncidentsStay
  <2>1. CASE CommitIncident(e)
    BY <2>1 DEF TypeOK, CommitIncident, IncidentsStay, Exists
  <2>2. CASE ResolveIncident(e)
    BY <2>2 DEF TypeOK, ResolveIncident, IncidentsStay, Exists, Incident
  <2>3. CASE InsertResult(e) \/ ResolveTickets(e) \/ Announce(e)
    BY <1>1, <2>3 DEF InsertResult, ResolveTickets, Announce
  <2>4. CASE SkipRecorded(e) \/ NotRecorded(e) \/ AcquireWebsiteLock(e) \/ DelayBusy(e) \/ SkipInactive(e)
    BY <1>1, <2>4 DEF SkipRecorded, NotRecorded, AcquireWebsiteLock, DelayBusy, SkipInactive, dbVars
  <2>5. CASE RunProbes(e) \/ ReadPrevious(e) \/ ReadActiveIncident(e) \/ ResultAlreadyExists(e)
    BY <1>1, <2>5 DEF RunProbes, ReadPrevious, ReadActiveIncident, ResultAlreadyExists, dbVars
  <2>6. CASE BeginCreate(e) \/ SkipDuplicateIncident(e) \/ NoActiveIncident(e) \/ AllAnnounced(e)
    BY <1>1, <2>6 DEF BeginCreate, SkipDuplicateIncident, NoActiveIncident, AllAnnounced, dbVars
  <2>7. CASE ReleaseWebsiteLock(e) \/ Throw(e) \/ Crash(e) \/ Take(e)
    BY <1>1, <2>7 DEF ReleaseWebsiteLock, Throw, Crash, Take, StartJob, SkipLate, dbVars
  <2>8. QED
    BY <1>2, <2>1, <2>2, <2>3, <2>4, <2>5, <2>6, <2>7 DEF Proceed
<1>3. ASSUME NEW p \in Staff, StaffWrites(p)
      PROVE  IncidentsStay
  BY <1>3 DEF TypeOK, StaffWrites, IncidentsStay, Exists, Incident
<1>4. CASE \/ ReleaseSlot \/ ReleaseAgain \/ ExpireLock \/ HorizonReached \/ UNCHANGED vars
           \/ (\E s \in Slot : Stall(s)) \/ (\E p \in Staff : StaffReads(p))
  BY <1>1, <1>4 DEF ReleaseSlot, ReleaseAgain, ExpireLock, HorizonReached, Stall, StaffReads, dbVars, vars
<1>5. QED
  BY <1>2, <1>3, <1>4 DEF Next

\* The steps after which nobody is newly bound to an incident.
LEMMA TargetUntouched ==
  ASSUME TypeOK, TargetInvariant, IncidentsStay, staff' = staff,
         \A f \in Executor : Resolving(f)' => Resolving(f) /\ target'[f] = target[f]
  PROVE  TargetInvariant'
BY DEF TargetInvariant, IncidentsStay, Exists

LEMMA HandlerKeepsTargets ==
  ASSUME TypeOK, TargetInvariant, IncidentsStay,
         NEW e \in Executor, Proceed(e) \/ Throw(e) \/ Crash(e) \/ Take(e)
  PROVE  TargetInvariant'
<1> DEFINE Steps == \A f \in Executor : Resolving(f)' => Resolving(f) /\ target'[f] = target[f]
<1>1. Steps /\ staff' = staff => TargetInvariant'
  BY TargetUntouched
<1>2. GoIdle(e) => Steps
  BY DEF TypeOK, GoIdle, Resolving
<1>3. ASSUME NEW from, NEW to, to \notin {"insert", "resolve"}, Goto(e, from, to),
             \A f \in Executor \ {e} : plan'[f] = plan[f] /\ target'[f] = target[f]
      PROVE  Steps
  BY <1>3 DEF TypeOK, Goto, Resolving
<1>4. CASE SkipRecorded(e) \/ DelayBusy(e) \/ ReleaseWebsiteLock(e) \/ Crash(e)
  BY <1>1, <1>2, <1>4 DEF SkipRecorded, DelayBusy, ReleaseWebsiteLock, Crash
<1>5. CASE Throw(e) /\ pc[e] \in Guarded \ {"release"}
  BY <1>1, <1>5 DEF TypeOK, Throw, Resolving
<1>6. CASE Throw(e) /\ pc[e] \notin Guarded \ {"release"}
  BY <1>1, <1>2, <1>6 DEF Throw
<1>7. CASE NotRecorded(e) \/ AcquireWebsiteLock(e) \/ SkipInactive(e) \/ ResultAlreadyExists(e) \/ AllAnnounced(e)
  BY <1>1, <1>3, <1>7
  DEF NotRecorded, AcquireWebsiteLock, SkipInactive, ResultAlreadyExists, AllAnnounced, localVars
<1>8. CASE RunProbes(e) \/ ReadPrevious(e)
  BY <1>1, <1>3, <1>8 DEF RunProbes, ReadPrevious
<1>9. CASE BeginCreate(e) \/ SkipDuplicateIncident(e) \/ NoActiveIncident(e)
  BY <1>1, <1>3, <1>9 DEF BeginCreate, SkipDuplicateIncident, NoActiveIncident, localVars
<1>10. CASE CommitIncident(e)
  <2>1. \A f \in Executor \ {e} : plan'[f] = plan[f] /\ target'[f] = target[f]
    BY <1>10 DEF TypeOK, CommitIncident
  <2>2. Goto(e, "commit", "announce") /\ staff' = staff
    BY <1>10 DEF CommitIncident
  <2>3. QED
    BY <1>1, <1>3, <2>1, <2>2
<1>11. CASE ResolveIncident(e) \/ ResolveTickets(e)
  BY <1>1, <1>3, <1>11 DEF ResolveIncident, ResolveTickets, localVars
<1>12. CASE Announce(e)
  BY <1>1, <1>12 DEF Announce, Resolving
<1>13. CASE InsertResult(e)
  <2>1. pc[e] = "insert" /\ pc' = [pc EXCEPT ![e] = AfterInsert(e)]
        /\ plan' = plan /\ target' = target /\ staff' = staff
    BY <1>13 DEF InsertResult, localVars
  <2>2. AfterInsert(e) = "resolve" => plan[e].type = "resolve_incident"
    BY DEF AfterInsert
  <2>4. AfterInsert(e) # "insert"
    BY DEF AfterInsert
  <2>3. Steps
    BY <2>1, <2>2, <2>4 DEF TypeOK, Resolving
  <2>5. QED
    BY <1>1, <2>1, <2>3
<1>14. CASE ReadActiveIncident(e)
  <2>1. /\ pc' = [pc EXCEPT ![e] = "insert"] /\ staff' = staff
        /\ plan' = [plan EXCEPT ![e] = EvaluateIncidentRules(RecentForRules(raw[e], seen[e]), ActiveIncidents # {})]
    BY <1>14 DEF ReadActiveIncident, Goto
  <2>2. \A f \in Executor \ {e} : target'[f] = target[f]
    BY <1>14 DEF TypeOK, ReadActiveIncident
  <2>3. Resolving(e)' => target'[e] \in IncidentId /\ Exists(target'[e])
    <3>1. Resolving(e)' => ActiveIncidents # {}
      BY <2>1, ResolveNeedsActive DEF TypeOK, Resolving
    <3>2. ActiveIncidents # {} => target'[e] \in ActiveIncidents
      BY <1>14 DEF TypeOK, ReadActiveIncident, NewestActive
    <3>3. QED
      BY <3>1, <3>2 DEF ActiveIncidents, Active, Exists
  <2>4. \A f \in Executor \ {e} : Resolving(f)' => Resolving(f)
    BY <2>1 DEF TypeOK, Resolving
  <2>5. \A f \in Executor : Resolving(f)' => target'[f] \in IncidentId /\ Exists(target'[f])
    BY <2>2, <2>3, <2>4 DEF TargetInvariant
  <2>6. QED
    BY <2>1, <2>5 DEF TargetInvariant, IncidentsStay, Exists
<1>15. CASE Take(e)
  BY <1>1, <1>15 DEF TypeOK, Take, StartJob, SkipLate, Resolving, localVars
<1>16. QED
  BY <1>4, <1>5, <1>6, <1>7, <1>8, <1>9, <1>10, <1>11, <1>12, <1>13, <1>14, <1>15 DEF Proceed

LEMMA TargetsExist == Spec => []TargetInvariant
<1>1. Init => TargetInvariant
  BY DEF Init, TargetInvariant, Resolving
<1>2. TypeOK /\ TargetInvariant /\ [Next]_vars => TargetInvariant'
  <2> SUFFICES ASSUME TypeOK, TargetInvariant, [Next]_vars
               PROVE  TargetInvariant'
    OBVIOUS
  <2>1. IncidentsStay
    BY NextKeepsIncidents
  <2>2. ASSUME NEW e \in Executor, Proceed(e) \/ Throw(e) \/ Crash(e) \/ Take(e)
        PROVE  TargetInvariant'
    BY <2>1, <2>2, HandlerKeepsTargets
  <2>3. CASE \/ ReleaseSlot \/ ReleaseAgain \/ ExpireLock \/ HorizonReached \/ UNCHANGED vars
             \/ \E s \in Slot : Stall(s)
    BY <2>1, <2>3, TargetUntouched
    DEF ReleaseSlot, ReleaseAgain, ExpireLock, HorizonReached, Stall, Resolving, localVars, vars
  <2>4. ASSUME NEW p \in Staff, StaffReads(p) \/ StaffWrites(p)
        PROVE  TargetInvariant'
    <3>1. \A f \in Executor : Resolving(f)' => Resolving(f) /\ target'[f] = target[f]
      BY <2>4 DEF StaffReads, StaffWrites, Resolving, localVars
    <3>2. \A q \in Staff \ {p} : staff'[q] = staff[q]
      BY <2>4 DEF TypeOK, StaffReads, StaffWrites
    <3>3. staff'[p].op # "idle" => staff'[p].id \in IncidentId /\ Exists(staff'[p].id)
      <4>1. CASE StaffReads(p)
        <5>1. PICK i \in IncidentId, op \in StaffTargets \cup {"closed"} :
                Exists(i) /\ staff' = [staff EXCEPT ![p] = [op |-> op, id |-> i]]
          BY <4>1 DEF StaffReads
        <5>2. QED
          BY <5>1 DEF TypeOK
      <4>2. CASE StaffWrites(p)
        BY <4>2 DEF TypeOK, StaffWrites
      <4>3. QED
        BY <2>4, <4>1, <4>2
    <3>4. QED
      BY <2>1, <3>1, <3>2, <3>3 DEF TargetInvariant, IncidentsStay, Exists
  <2>5. QED
    BY <2>2, <2>3, <2>4 DEF Next
<1>3. QED
  BY <1>1, <1>2, TypeCorrect, PTL DEF Spec

-----------------------------------------------------------------------------
(* The incident of a slot *)

\* Between the insert of its row and the commit of its incident, a handler is
\* the only one in hand of its slot, and the slot has a row but no incident.
Creating(e) == pc[e] \in {"advisory", "recheck", "commit"}
SlotInvariant ==
  /\ \A e \in Executor : pc[e] # "idle" => slot[e] \in Slot
  /\ \A e \in Executor : Creating(e) =>
       /\ results[slot[e]] # NoRow
       /\ \A i \in IncidentId : Exists(i) => incident[i].startedAt # slot[e]
  /\ \A e, f \in Executor : Creating(e) /\ Creating(f) /\ e # f => slot[e] # slot[f]
  /\ \A i \in IncidentId : Exists(i) =>
       incident[i].startedAt \in Slot /\ results[incident[i].startedAt] # NoRow
  /\ OneIncidentPerSlot

\* A step that records nothing and opens nothing, and leads nobody into the
\* creation of an incident, preserves it.
LEMMA SlotUntouched ==
  ASSUME TypeOK, SlotInvariant, results' = results,
         \A i \in IncidentId : Exists(i)' => Exists(i) /\ incident'[i].startedAt = incident[i].startedAt,
         \A f \in Executor : pc'[f] # "idle" => slot'[f] \in Slot \/ (slot'[f] = slot[f] /\ pc[f] # "idle"),
         \A f \in Executor : Creating(f)' => Creating(f) /\ slot'[f] = slot[f]
  PROVE  SlotInvariant'
<1>1. \A e \in Executor : pc'[e] # "idle" => slot'[e] \in Slot
  BY DEF SlotInvariant
<1>2. \A e \in Executor : Creating(e)' =>
        /\ results'[slot'[e]] # NoRow
        /\ \A i \in IncidentId : Exists(i)' => incident'[i].startedAt # slot'[e]
  BY DEF SlotInvariant
<1>3. \A e, f \in Executor : Creating(e)' /\ Creating(f)' /\ e # f => slot'[e] # slot'[f]
  BY DEF SlotInvariant
<1>4. \A i \in IncidentId : Exists(i)' =>
        incident'[i].startedAt \in Slot /\ results'[incident'[i].startedAt] # NoRow
  BY DEF SlotInvariant
<1>5. OneIncidentPerSlot'
  BY DEF SlotInvariant, OneIncidentPerSlot
<1>6. QED
  BY <1>1, <1>2, <1>3, <1>4, <1>5 DEF SlotInvariant

\* The row is inserted only where there was none.
LEMMA InsertKeepsSlots ==
  ASSUME TypeOK, SlotInvariant, NEW e \in Executor, InsertResult(e)
  PROVE  SlotInvariant'
<1> DEFINE row == [rawStatus |-> raw[e], status |-> ApplyCardStatusOverride(raw[e], plan[e]),
                   checkedAt |-> Cardinality(Recorded(seen[e]))]
<1>1. /\ slot[e] \in Slot /\ results[slot[e]] = NoRow
      /\ results' = [results EXCEPT ![slot[e]] = row]
      /\ slot' = slot /\ incident' = incident
      /\ pc[e] = "insert" /\ pc' = [pc EXCEPT ![e] = AfterInsert(e)]
  BY DEF InsertResult, SlotInvariant, localVars
<1>2. row # NoRow
  <2>1. row.status \in MonitoringStatus
    BY OverrideType DEF TypeOK
  <2>2. NoRow.status \notin MonitoringStatus
    BY DEF NoRow, MonitoringStatus
  <2>3. QED
    BY <2>1, <2>2
<1> HIDE DEF row
<1>3. \A t \in Slot : results[t] # NoRow => results'[t] # NoRow
  BY <1>1, <1>2 DEF TypeOK, Rows
<1>4. results'[slot[e]] # NoRow
  BY <1>1, <1>2 DEF TypeOK, Rows
<1>5. \A f \in Executor : f # e => pc'[f] = pc[f]
  BY <1>1 DEF TypeOK
<1>6. \A i \in IncidentId : Exists(i) => incident[i].startedAt # slot[e]
  BY <1>1 DEF SlotInvariant
<1>7. \A f \in Executor : Creating(f) => slot[f] # slot[e] /\ f # e /\ slot[f] \in Slot
  BY <1>1 DEF SlotInvariant, Creating
<1>8. \A f \in Executor : pc'[f] # "idle" => slot'[f] \in Slot
  BY <1>1, <1>5 DEF SlotInvariant
<1>9. ASSUME NEW f \in Executor, Creating(f)'
      PROVE  /\ results'[slot'[f]] # NoRow
             /\ \A i \in IncidentId : Exists(i)' => incident'[i].startedAt # slot'[f]
  <2>1. CASE f = e
    BY <1>1, <1>4, <1>6, <2>1 DEF Exists
  <2>2. CASE f # e
    <3>1. Creating(f)
      BY <1>5, <1>9, <2>2 DEF Creating
    <3>2. QED
      BY <1>1, <1>3, <1>7, <3>1 DEF SlotInvariant, Exists
  <2>3. QED
    BY <2>1, <2>2
<1>10. ASSUME NEW f \in Executor, NEW g \in Executor, Creating(f)', Creating(g)', f # g
       PROVE  slot'[f] # slot'[g]
  <2>1. (f # e => Creating(f)) /\ (g # e => Creating(g))
    BY <1>5, <1>10 DEF Creating
  <2>2. QED
    BY <1>1, <1>7, <1>10, <2>1 DEF SlotInvariant
<1>11. \A i \in IncidentId : Exists(i)' =>
         incident'[i].startedAt \in Slot /\ results'[incident'[i].startedAt] # NoRow
  BY <1>1, <1>3 DEF SlotInvariant, Exists
<1>12. OneIncidentPerSlot'
  BY <1>1 DEF SlotInvariant, OneIncidentPerSlot, Exists
<1>13. QED
  BY <1>8, <1>9, <1>10, <1>11, <1>12 DEF SlotInvariant

\* The incident is opened for a slot that has none.
LEMMA CommitKeepsSlots ==
  ASSUME TypeOK, SlotInvariant, NEW e \in Executor, CommitIncident(e)
  PROVE  SlotInvariant'
<1>1. PICK i \in IncidentId :
        /\ ~ Exists(i)
        /\ incident' = [incident EXCEPT ![i] = [status |-> "open", startedAt |-> slot[e]]]
  BY DEF CommitIncident
<1>2. /\ pc[e] = "commit" /\ pc' = [pc EXCEPT ![e] = "announce"]
      /\ slot' = slot /\ results' = results
  BY DEF CommitIncident, Goto
<1>3. /\ incident'[i].startedAt = slot[e]
      /\ \A j \in IncidentId : j # i => incident'[j] = incident[j]
  BY <1>1 DEF TypeOK
<1>4. /\ slot[e] \in Slot /\ results[slot[e]] # NoRow
      /\ \A j \in IncidentId : Exists(j) => incident[j].startedAt # slot[e]
  BY <1>2 DEF SlotInvariant, Creating
<1>5. \A f \in Executor : pc'[f] # "idle" => slot'[f] \in Slot
  BY <1>2 DEF TypeOK, SlotInvariant
<1>6. \A f \in Executor : Creating(f)' => f # e /\ Creating(f)
  BY <1>2 DEF TypeOK, Creating
<1>7. \A f \in Executor : Creating(f)' => slot[f] # slot[e]
  BY <1>2, <1>6 DEF SlotInvariant, Creating
<1>8. \A j \in IncidentId : Exists(j)' => j = i \/ Exists(j)
  BY <1>3 DEF Exists
<1>9. \A f \in Executor : Creating(f)' =>
        /\ results'[slot'[f]] # NoRow
        /\ \A j \in IncidentId : Exists(j)' => incident'[j].startedAt # slot'[f]
  BY <1>2, <1>3, <1>6, <1>7, <1>8 DEF SlotInvariant
<1>10. \A f, g \in Executor : Creating(f)' /\ Creating(g)' /\ f # g => slot'[f] # slot'[g]
  BY <1>2, <1>6 DEF SlotInvariant
<1>11. \A j \in IncidentId : Exists(j)' =>
         incident'[j].startedAt \in Slot /\ results'[incident'[j].startedAt] # NoRow
  BY <1>2, <1>3, <1>4, <1>8 DEF SlotInvariant
<1>12. OneIncidentPerSlot'
  BY <1>3, <1>4, <1>8 DEF SlotInvariant, OneIncidentPerSlot
<1>13. QED
  BY <1>5, <1>9, <1>10, <1>11, <1>12 DEF SlotInvariant

\* The handler's other steps.
LEMMA HandlerKeepsSlots ==
  ASSUME TypeOK, TargetInvariant, SlotInvariant, NEW e \in Executor, Proceed(e) \/ Throw(e) \/ Crash(e)
  PROVE  SlotInvariant'
<1> DEFINE Frame == /\ results' = results
                    /\ \A i \in IncidentId : Exists(i)' => Exists(i) /\ incident'[i].startedAt = incident[i].startedAt
           Steps == /\ \A f \in Executor : pc'[f] # "idle" => slot'[f] \in Slot \/ (slot'[f] = slot[f] /\ pc[f] # "idle")
                    /\ \A f \in Executor : Creating(f)' => Creating(f) /\ slot'[f] = slot[f]
<1>1. Frame /\ Steps => SlotInvariant'
  BY SlotUntouched
<1>2. incident' = incident => \A i \in IncidentId : Exists(i)' => Exists(i) /\ incident'[i].startedAt = incident[i].startedAt
  BY DEF Exists
<1>3. GoIdle(e) => Steps
  BY DEF TypeOK, GoIdle, Creating
<1>4. CASE SkipRecorded(e) \/ DelayBusy(e) \/ ReleaseWebsiteLock(e) \/ Crash(e)
  BY <1>1, <1>2, <1>3, <1>4 DEF SkipRecorded, DelayBusy, ReleaseWebsiteLock, Crash, dbVars
<1>5. CASE Throw(e)
  <2>1. Frame
    BY <1>2, <1>5 DEF Throw, dbVars
  <2>2. CASE pc[e] \in Guarded \ {"release"}
    BY <1>1, <1>5, <2>1, <2>2 DEF TypeOK, Throw, Creating, Guarded
  <2>3. CASE pc[e] \notin Guarded \ {"release"}
    BY <1>1, <1>3, <1>5, <2>1, <2>3 DEF Throw
  <2>4. QED
    BY <2>2, <2>3
<1>6. ASSUME NEW from, NEW to, from # "idle",
             to \notin {"advisory", "recheck", "commit"} \/ from \in {"advisory", "recheck", "commit"},
             Goto(e, from, to), slot' = slot
      PROVE  Steps
  BY <1>6 DEF TypeOK, Goto, Creating
<1>7. CASE NotRecorded(e) \/ AcquireWebsiteLock(e) \/ SkipInactive(e) \/ ResultAlreadyExists(e) \/ AllAnnounced(e)
  BY <1>1, <1>2, <1>6, <1>7
  DEF NotRecorded, AcquireWebsiteLock, SkipInactive, ResultAlreadyExists, AllAnnounced, localVars, dbVars
<1>8. CASE RunProbes(e) \/ ReadPrevious(e) \/ ReadActiveIncident(e)
  BY <1>1, <1>2, <1>6, <1>8 DEF RunProbes, ReadPrevious, ReadActiveIncident, dbVars
<1>9. CASE BeginCreate(e) \/ SkipDuplicateIncident(e) \/ NoActiveIncident(e)
  BY <1>1, <1>2, <1>6, <1>9 DEF BeginCreate, SkipDuplicateIncident, NoActiveIncident, localVars, dbVars
<1>10. CASE ResolveIncident(e)
  <2>1. Frame
    <3>1. results' = results /\ pc[e] = "resolve"
          /\ incident' = [incident EXCEPT ![target[e]].status = "resolved"]
      BY <1>10 DEF ResolveIncident, Goto
    <3>2. Exists(target[e])
      BY <3>1 DEF TargetInvariant, Resolving
    <3>3. ASSUME NEW i \in IncidentId, Exists(i)'
          PROVE  Exists(i) /\ incident'[i].startedAt = incident[i].startedAt
      <4>1. CASE i = target[e]
        BY <3>1, <3>2, <4>1 DEF TypeOK, Incident
      <4>2. CASE i # target[e]
        BY <3>1, <3>3, <4>2 DEF TypeOK, Exists
      <4>3. QED
        BY <4>1, <4>2
    <3>4. QED
      BY <3>1, <3>3
  <2>2. Steps
    BY <1>6, <1>10 DEF ResolveIncident, localVars
  <2>3. QED
    BY <1>1, <2>1, <2>2
<1>11. CASE ResolveTickets(e) \/ Announce(e)
  BY <1>1, <1>2, <1>6, <1>11 DEF TypeOK, ResolveTickets, Announce, Creating
<1>12. QED
  BY <1>4, <1>5, <1>7, <1>8, <1>9, <1>10, <1>11, InsertKeepsSlots, CommitKeepsSlots DEF Proceed

\* Handlers own their slots, and an incident is the only one of its slot.
LEMMA SlotsKept == Spec => []SlotInvariant
<1>1. Init => SlotInvariant
  BY DEF Init, SlotInvariant, OneIncidentPerSlot, Creating, Exists, NoRecord
<1>2. TypeOK /\ TargetInvariant /\ SlotInvariant /\ [Next]_vars => SlotInvariant'
  <2> SUFFICES ASSUME TypeOK, TargetInvariant, SlotInvariant, [Next]_vars
               PROVE  SlotInvariant'
    OBVIOUS
  <2>1. ASSUME NEW e \in Executor, Proceed(e) \/ Throw(e) \/ Crash(e)
        PROVE  SlotInvariant'
    BY <2>1, HandlerKeepsSlots
  <2>2. ASSUME NEW e \in Executor, NEW s \in Slot, StartJob(e, s) \/ SkipLate(e, s)
        PROVE  SlotInvariant'
    <3>1. \A f \in Executor : Creating(f)' => Creating(f) /\ slot'[f] = slot[f]
      BY <2>2 DEF TypeOK, StartJob, SkipLate, Creating, localVars
    <3>2. \A f \in Executor : pc'[f] # "idle" => slot'[f] \in Slot \/ (slot'[f] = slot[f] /\ pc[f] # "idle")
      BY <2>2 DEF TypeOK, StartJob, SkipLate, localVars
    <3>3. QED
      BY <2>2, <3>1, <3>2, SlotUntouched DEF StartJob, SkipLate, dbVars, Exists
  <2>3. CASE \/ ReleaseSlot \/ ReleaseAgain \/ ExpireLock \/ HorizonReached \/ UNCHANGED vars
             \/ \E s \in Slot : Stall(s)
    BY <2>3, SlotUntouched
    DEF ReleaseSlot, ReleaseAgain, ExpireLock, HorizonReached, Stall, Creating, Exists, localVars, dbVars, vars
  <2>4. ASSUME NEW p \in Staff, StaffReads(p) \/ StaffWrites(p)
        PROVE  SlotInvariant'
    <3>1. pc' = pc /\ slot' = slot /\ results' = results
      BY <2>4 DEF StaffReads, StaffWrites, localVars, dbVars
    <3>2. ASSUME NEW i \in IncidentId, Exists(i)'
          PROVE  Exists(i) /\ incident'[i].startedAt = incident[i].startedAt
      <4>1. CASE StaffReads(p)
        BY <3>2, <4>1 DEF StaffReads, dbVars, Exists
      <4>2. CASE StaffWrites(p)
        <5>1. Exists(staff[p].id)
          BY <4>2 DEF StaffWrites, TargetInvariant
        <5>2. QED
          BY <3>2, <4>2, <5>1 DEF TypeOK, Incident, StaffWrites, Exists
      <4>3. QED
        BY <2>4, <4>1, <4>2
    <3>3. QED
      BY <3>1, <3>2, SlotUntouched DEF Creating
  <2>5. QED
    BY <2>1, <2>2, <2>3, <2>4 DEF Next, Take
<1>3. QED
  BY <1>1, <1>2, TypeCorrect, TargetsExist, PTL DEF Spec

\* However a slot is retried, stalled, released again or processed twice at
\* once, it opens at most one incident.
THEOREM OnePerSlot == Spec => []OneIncidentPerSlot
<1>1. SlotInvariant => OneIncidentPerSlot
  BY DEF SlotInvariant
<1>2. QED
  BY <1>1, SlotsKept, PTL

-----------------------------------------------------------------------------
(* The single active incident *)

\* A handler that rechecks or commits holds the website's advisory lock, and
\* between the recheck and the commit no incident is active.
CreationInvariant ==
  /\ \A e \in Executor : pc[e] \in {"recheck", "commit"} => advisory = e
  /\ \A e \in Executor : pc[e] = "commit" => ActiveIncidents = {}
  /\ \A p \in Staff : staff[p].op \in {"idle", "resolved", "closed"}
  /\ AtMostOneActive

\* The steps that activate no incident.
LEMMA CreationUntouched ==
  ASSUME TypeOK, CreationInvariant, ActiveIncidents' \subseteq ActiveIncidents,
         \A f \in Executor : pc'[f] \in {"recheck", "commit"} => advisory' = f,
         \A f \in Executor : pc'[f] = "commit" => pc[f] = "commit" \/ ActiveIncidents = {},
         \A p \in Staff : staff'[p].op \in {"idle", "resolved", "closed"}
  PROVE  CreationInvariant'
<1>1. \A f \in Executor : pc'[f] = "commit" => ActiveIncidents' = {}
  BY DEF CreationInvariant
<1>2. AtMostOneActive'
  BY DEF CreationInvariant, AtMostOneActive
<1>3. QED
  BY <1>1, <1>2 DEF CreationInvariant

\* The commit: the lock leaves no other handler in the transaction, and the
\* recheck left no active incident.
LEMMA CommitKeepsOneActive ==
  ASSUME TypeOK, CreationInvariant, NEW e \in Executor, CommitIncident(e)
  PROVE  CreationInvariant'
<1>1. PICK i \in IncidentId : incident' = [incident EXCEPT ![i] = [status |-> "open", startedAt |-> slot[e]]]
  BY DEF CommitIncident
<1>2. pc[e] = "commit" /\ pc' = [pc EXCEPT ![e] = "announce"] /\ staff' = staff
  BY DEF CommitIncident, Goto
<1>3. advisory = e /\ ActiveIncidents = {}
  BY <1>2 DEF CreationInvariant
<1>4. \A f \in Executor : pc'[f] \notin {"recheck", "commit"}
  BY <1>2, <1>3 DEF TypeOK, CreationInvariant
<1>5. ActiveIncidents' \subseteq {i}
  BY <1>1, <1>3 DEF TypeOK, ActiveIncidents, Active
<1>6. QED
  BY <1>2, <1>4, <1>5 DEF CreationInvariant, AtMostOneActive

LEMMA HandlerKeepsOneActive ==
  ASSUME TypeOK, CreationInvariant, NEW e \in Executor, Proceed(e) \/ Throw(e) \/ Crash(e)
  PROVE  CreationInvariant'
<1> DEFINE Quiet == incident' = incident /\ staff' = staff
           Steps == /\ \A f \in Executor : pc'[f] \in {"recheck", "commit"} => advisory' = f
                    /\ \A f \in Executor : pc'[f] = "commit" => pc[f] = "commit" \/ ActiveIncidents = {}
<1>1. Quiet /\ Steps => CreationInvariant'
  <2>1. Quiet => ActiveIncidents' \subseteq ActiveIncidents
    BY DEF ActiveIncidents, Active
  <2>2. QED
    BY <2>1, CreationUntouched DEF CreationInvariant
<1>2. ASSUME GoIdle(e), advisory' = advisory \/ FreeAdvisory(e)
      PROVE  Steps
  BY <1>2 DEF TypeOK, CreationInvariant, GoIdle, FreeAdvisory
<1>3. ASSUME NEW from, NEW to, to \notin {"recheck", "commit"}, Goto(e, from, to), advisory' = advisory
      PROVE  Steps
  BY <1>3 DEF TypeOK, CreationInvariant, Goto
<1>4. CASE SkipRecorded(e) \/ DelayBusy(e) \/ ReleaseWebsiteLock(e)
  BY <1>1, <1>2, <1>4 DEF SkipRecorded, DelayBusy, ReleaseWebsiteLock, dbVars
<1>5. CASE Throw(e) /\ pc[e] \in Guarded \ {"release"}
  BY <1>1, <1>5 DEF TypeOK, CreationInvariant, Throw, FreeAdvisory, dbVars
<1>6. CASE (Throw(e) /\ pc[e] \notin Guarded \ {"release"}) \/ Crash(e)
  BY <1>1, <1>2, <1>6 DEF Throw, Crash, dbVars
<1>7. CASE NotRecorded(e) \/ AcquireWebsiteLock(e) \/ SkipInactive(e) \/ RunProbes(e) \/ ReadPrevious(e)
  BY <1>1, <1>3, <1>7 DEF NotRecorded, AcquireWebsiteLock, SkipInactive, RunProbes, ReadPrevious, dbVars
<1>8. CASE ReadActiveIncident(e) \/ ResultAlreadyExists(e) \/ AllAnnounced(e) \/ ResolveTickets(e)
  BY <1>1, <1>3, <1>8 DEF ReadActiveIncident, ResultAlreadyExists, AllAnnounced, ResolveTickets, dbVars
<1>9. CASE InsertResult(e)
  <2>1. pc' = [pc EXCEPT ![e] = AfterInsert(e)] /\ Quiet /\ advisory' = advisory
    BY <1>9 DEF InsertResult
  <2>2. AfterInsert(e) # "recheck" /\ AfterInsert(e) # "commit"
    BY DEF AfterInsert
  <2>3. Steps
    BY <2>1, <2>2 DEF TypeOK, CreationInvariant
  <2>4. QED
    BY <1>1, <2>1, <2>3
<1>10. CASE BeginCreate(e)
  <2>1. Steps
    BY <1>10, NamesAssumption DEF TypeOK, CreationInvariant, BeginCreate, Goto
  <2>2. QED
    BY <1>1, <1>10, <2>1 DEF BeginCreate, dbVars
<1>11. CASE SkipDuplicateIncident(e)
  <2>1. Steps
    BY <1>11 DEF TypeOK, CreationInvariant, SkipDuplicateIncident, Goto
  <2>2. QED
    BY <1>1, <1>11, <2>1 DEF SkipDuplicateIncident, dbVars
<1>12. CASE NoActiveIncident(e)
  <2>1. Steps
    BY <1>12 DEF TypeOK, CreationInvariant, NoActiveIncident, Goto
  <2>2. QED
    BY <1>1, <1>12, <2>1 DEF NoActiveIncident, dbVars
<1>13. CASE ResolveIncident(e)
  <2>1. Steps
    BY <1>3, <1>13 DEF ResolveIncident
  <2>2. ActiveIncidents' \subseteq ActiveIncidents
    BY <1>13 DEF TypeOK, ResolveIncident, ActiveIncidents, Active, Incident
  <2>3. QED
    BY <1>13, <2>1, <2>2, CreationUntouched DEF ResolveIncident, CreationInvariant
<1>14. CASE Announce(e)
  BY <1>1, <1>14 DEF CreationInvariant, Announce
<1>15. QED
  BY <1>4, <1>5, <1>6, <1>7, <1>8, <1>9, <1>10, <1>11, <1>12, <1>13, <1>14, CommitKeepsOneActive DEF Proceed

\* With staff who only resolve and close, a creation that is past its recheck
\* finds no active incident, and staff requests in flight end incidents.
LEMMA CreationKept ==
  ASSUME StaffTargets \subseteq {"resolved"}
  PROVE  Spec => []CreationInvariant
<1>1. Init => CreationInvariant
  BY DEF Init, CreationInvariant, AtMostOneActive, ActiveIncidents, Active, NoRecord
<1>2. TypeOK /\ CreationInvariant /\ [Next]_vars => CreationInvariant'
  <2> SUFFICES ASSUME TypeOK, CreationInvariant, [Next]_vars
               PROVE  CreationInvariant'
    OBVIOUS
  <2>1. ASSUME NEW e \in Executor, Proceed(e) \/ Throw(e) \/ Crash(e)
        PROVE  CreationInvariant'
    BY <2>1, HandlerKeepsOneActive
  <2>2. ASSUME NEW e \in Executor, NEW s \in Slot, StartJob(e, s) \/ SkipLate(e, s)
        PROVE  CreationInvariant'
    <3>1. \A f \in Executor : pc'[f] \in {"recheck", "commit"} => pc[f] = pc'[f]
      BY <2>2 DEF TypeOK, StartJob, SkipLate
    <3>2. ActiveIncidents' = ActiveIncidents /\ staff' = staff /\ advisory' = advisory
      BY <2>2 DEF StartJob, SkipLate, ActiveIncidents, Active, dbVars
    <3>3. QED
      BY <3>1, <3>2, CreationUntouched DEF CreationInvariant
  <2>3. CASE \/ ReleaseSlot \/ ReleaseAgain \/ ExpireLock \/ HorizonReached \/ UNCHANGED vars
             \/ \E s \in Slot : Stall(s)
    <3>1. pc' = pc /\ staff' = staff /\ advisory' = advisory /\ incident' = incident
      BY <2>3 DEF ReleaseSlot, ReleaseAgain, ExpireLock, HorizonReached, Stall, dbVars, vars
    <3>2. ActiveIncidents' = ActiveIncidents
      BY <3>1 DEF ActiveIncidents, Active
    <3>3. QED
      BY <3>1, <3>2, CreationUntouched DEF CreationInvariant
  <2>4. ASSUME NEW p \in Staff, StaffReads(p) \/ StaffWrites(p)
        PROVE  CreationInvariant'
    <3>1. pc' = pc /\ advisory' = advisory
      BY <2>4 DEF StaffReads, StaffWrites
    <3>2. CASE StaffReads(p)
      <4>1. PICK i \in IncidentId, op \in StaffTargets \cup {"closed"} :
              staff' = [staff EXCEPT ![p] = [op |-> op, id |-> i]]
        BY <3>2 DEF StaffReads
      <4>2. \A q \in Staff : staff'[q].op \in {"idle", "resolved", "closed"}
        BY <4>1 DEF TypeOK, CreationInvariant
      <4>3. ActiveIncidents' = ActiveIncidents
        BY <3>2 DEF StaffReads, ActiveIncidents, Active, dbVars
      <4>4. QED
        BY <3>1, <4>2, <4>3, CreationUntouched DEF CreationInvariant
    <3>3. CASE StaffWrites(p)
      <4>1. staff[p].op \in {"resolved", "closed"}
        BY <3>3 DEF StaffWrites, CreationInvariant
      <4>2. \A q \in Staff : staff'[q].op \in {"idle", "resolved", "closed"}
        BY <3>3 DEF TypeOK, StaffWrites, CreationInvariant
      <4>3. ActiveIncidents' \subseteq ActiveIncidents
        BY <3>3, <4>1 DEF TypeOK, StaffWrites, ActiveIncidents, Active, Incident
      <4>4. QED
        BY <3>1, <4>2, <4>3, CreationUntouched DEF CreationInvariant
    <3>4. QED
      BY <2>4, <3>2, <3>3
  <2>5. QED
    BY <2>1, <2>2, <2>3, <2>4 DEF Next, Take
<1>3. QED
  BY <1>1, <1>2, TypeCorrect, PTL DEF Spec

\* When staff may only resolve and close incidents through the API, the website
\* never has two active incidents, however many checks overlap.  (A staff
\* request that moves a resolved incident back to in_progress breaks it.)
THEOREM OneActive ==
  ASSUME StaffTargets \subseteq {"resolved"}
  PROVE  Spec => []AtMostOneActive
<1>1. CreationInvariant => AtMostOneActive
  BY DEF CreationInvariant
<1>2. QED
  BY <1>1, CreationKept, PTL

-----------------------------------------------------------------------------
(* The decision to create *)

\* When anything is recorded there is a newest row, and the worker reads it.
LEMMA NewestRecorded ==
  ASSUME NEW rows, Recorded(rows) # {}
  PROVE  NthNewest(rows, 1) \in Recorded(rows)
<1> DEFINE older == {MaxSlot - s : s \in Recorded(rows)}
           less == {p \in Nat \X Nat : p[1] < p[2]}
<1>1. MaxSlot \in Nat /\ Recorded(rows) \subseteq 1 .. MaxSlot
  BY BoundsAssumption DEF Recorded, Slot
<1>2. IsWellFoundedOn(less, Nat)
  BY NatLessThanWellFounded DEF OpToRel
<1>3. older \subseteq Nat /\ older # {}
  BY <1>1
<1>4. PICK m \in older : \A n \in older : << n, m >> \notin less
  <2> HIDE DEF older, less
  <2>1. QED
    BY <1>2, <1>3, WFMin
<1>5. PICK s \in Recorded(rows) : m = MaxSlot - s
  OBVIOUS
<1>6. ASSUME NEW t \in Recorded(rows)
      PROVE  ~ (t > s)
  <2>1. MaxSlot - t \in older
    OBVIOUS
  <2>2. << MaxSlot - t, m >> \notin less
    BY <1>4, <2>1
  <2>3. QED
    BY <1>1, <1>3, <1>5, <2>1, <2>2
<1>7. {t \in Recorded(rows) : t > s} = {}
  BY <1>6
<1>8. Cardinality({t \in Recorded(rows) : t > s}) = 1 - 1
  BY <1>7, FS_EmptySet
<1>9. QED
  BY <1>8 DEF NthNewest

\* A count of two or more means that the two newest statuses are wanted.
LEMMA TwoLead ==
  ASSUME NEW S, NEW statuses \in Seq(S), NEW wanted, CountLeading(statuses, wanted) >= 2
  PROVE  Len(statuses) >= 2 /\ statuses[1] \in wanted /\ statuses[2] \in wanted
<1> DEFINE lead == {n \in 1 .. Len(statuses) : \A k \in 1 .. n : statuses[k] \in wanted}
<1>1. 2 \in lead
  <2>1. SUFFICES ASSUME 2 \notin lead PROVE FALSE
    OBVIOUS
  <2>2. lead \subseteq {1}
    <3>1. ASSUME NEW n \in lead
          PROVE  n = 1
      <4>1. n \in 1 .. Len(statuses) /\ \A k \in 1 .. n : statuses[k] \in wanted
        OBVIOUS
      <4>2. n >= 2 => 2 \in lead
        BY <4>1
      <4>3. QED
        BY <2>1, <4>1, <4>2
    <3>2. QED
      BY <3>1
  <2>3. IsFiniteSet({1}) /\ Cardinality({1}) = 1
    BY FS_Singleton
  <2>4. IsFiniteSet(lead) /\ Cardinality(lead) <= Cardinality({1})
    BY <2>2, <2>3, FS_Subset
  <2>5. Cardinality(lead) \in Nat
    BY <2>4, FS_CardinalityType
  <2>6. Cardinality(lead) >= 2
    BY DEF CountLeading
  <2> HIDE DEF lead
  <2>7. QED
    BY <2>3, <2>4, <2>5, <2>6
<1>2. QED
  BY <1>1

\* The slots recorded as hard failures.
DownSlots(rows) == {s \in Slot : RawOf(rows[s]) = "down"}

\* The rules create an incident only on a failure that follows a recorded one.
LEMMA CreateNeedsTwo ==
  ASSUME NEW rows, NEW status, NEW hasActive \in BOOLEAN,
         EvaluateIncidentRules(RecentForRules(status, rows), hasActive).type = "create_incident"
  PROVE  status = "down" /\ DownSlots(rows) # {}
<1> DEFINE count == Cardinality(Recorded(rows))
           taken == IF count < Lookback THEN count ELSE Lookback
           S == {RawOf(rows[NthNewest(rows, n)]) : n \in 1 .. taken}
           recent == RecentForRules(status, rows)
<1>1. count \in Nat /\ taken \in Nat
  BY RecordedBound, BoundsAssumption
<1>2. /\ Previous(rows) \in Seq(S) /\ Len(Previous(rows)) = taken
      /\ taken >= 1 => Previous(rows)[1] = RawOf(rows[NthNewest(rows, 1)])
  <2> HIDE DEF count
  <2>1. Previous(rows) = [n \in 1 .. taken |-> RawOf(rows[NthNewest(rows, n)])]
    BY DEF Previous, count
  <2> HIDE DEF taken
  <2>2. QED
    BY <1>1, <2>1
<1>3. CountLeading(recent, FailureStatuses) >= 2
  BY DEF EvaluateIncidentRules, RuleAction
<1> HIDE DEF taken, S
<1>4. /\ recent \in Seq(S \cup {status}) /\ recent[1] = status
      /\ Len(recent) = 1 + taken
      /\ taken >= 1 => recent[2] = Previous(rows)[1]
  BY <1>1, <1>2 DEF RecentForRules
<1> HIDE DEF recent
<1>5. Len(recent) >= 2 /\ recent[1] \in FailureStatuses /\ recent[2] \in FailureStatuses
  BY <1>3, <1>4, TwoLead
<1>6. taken >= 1
  BY <1>1, <1>4, <1>5
<1>7. Recorded(rows) # {}
  BY <1>1, <1>6, FS_EmptySet DEF taken
<1>8. NthNewest(rows, 1) \in Slot
  BY <1>7, NewestRecorded DEF Recorded
<1>9. QED
  BY <1>2, <1>4, <1>5, <1>6, <1>8 DEF DownSlots, FailureStatuses, IsFailureStatus

-----------------------------------------------------------------------------
(* Who writes what *)

\* The database changes in five kinds of a handler's steps and in one of the
\* staff's.
DatabaseStep(e) ==
  InsertResult(e) \/ CommitIncident(e) \/ ResolveIncident(e) \/ ResolveTickets(e) \/ Announce(e)

\* Every step is one of these or leaves the database as it is.
LEMMA DatabaseSteps ==
  ASSUME [Next]_vars
  PROVE  \/ UNCHANGED dbVars
         \/ \E e \in Executor : DatabaseStep(e)
         \/ \E p \in Staff : StaffWrites(p)
<1>1. ASSUME NEW e \in Executor, Proceed(e), ~ DatabaseStep(e)
      PROVE  UNCHANGED dbVars
  BY <1>1 DEF DatabaseStep, Proceed, SkipRecorded, NotRecorded, AcquireWebsiteLock, DelayBusy, SkipInactive,
       RunProbes, ReadPrevious, ReadActiveIncident, ResultAlreadyExists, BeginCreate, SkipDuplicateIncident,
       NoActiveIncident, AllAnnounced, ReleaseWebsiteLock
<1>2. ASSUME NEW e \in Executor, Take(e) \/ Throw(e) \/ Crash(e)
      PROVE  UNCHANGED dbVars
  BY <1>2 DEF Take, StartJob, SkipLate, Throw, Crash
<1>3. CASE \/ ReleaseSlot \/ ReleaseAgain \/ ExpireLock \/ HorizonReached \/ UNCHANGED vars
           \/ (\E s \in Slot : Stall(s)) \/ (\E p \in Staff : StaffReads(p))
  BY <1>3 DEF ReleaseSlot, ReleaseAgain, ExpireLock, HorizonReached, Stall, StaffReads, dbVars, vars
<1>4. QED
  BY <1>1, <1>2, <1>3 DEF Next

\* Rows are written by the insert alone, incidents by the handlers that commit
\* or resolve and by the staff.
LEMMA DatabaseWriters ==
  ASSUME [Next]_vars
  PROVE  /\ results' = results \/ \E e \in Executor : InsertResult(e)
         /\ \/ incident' = incident
            \/ \E e \in Executor : CommitIncident(e) \/ ResolveIncident(e)
            \/ \E p \in Staff : StaffWrites(p)
<1>1. ASSUME NEW e \in Executor, DatabaseStep(e)
      PROVE  /\ results' = results \/ InsertResult(e)
             /\ incident' = incident \/ CommitIncident(e) \/ ResolveIncident(e)
  BY <1>1 DEF DatabaseStep, InsertResult, CommitIncident, ResolveIncident, ResolveTickets, Announce
<1>2. ASSUME NEW p \in Staff, StaffWrites(p)
      PROVE  results' = results
  BY <1>2 DEF StaffWrites
<1>3. QED
  BY <1>1, <1>2, DatabaseSteps DEF dbVars

\* A step moves one handler: every other keeps its position and its locals.
Keeps(f) == /\ pc'[f] = pc[f] /\ slot'[f] = slot[f] /\ raw'[f] = raw[f] /\ seen'[f] = seen[f]
            /\ plan'[f] = plan[f] /\ target'[f] = target[f] /\ todo'[f] = todo[f]

\* Every step leaves a handler alone or is the handler's own.
LEMMA OneHandlerMoves ==
  ASSUME TypeOK, [Next]_vars, NEW f \in Executor
  PROVE  Keeps(f) \/ Take(f) \/ Proceed(f) \/ Throw(f) \/ Crash(f)
<1>1. ASSUME NEW e \in Executor, e # f, GoIdle(e)
      PROVE  Keeps(f)
  BY <1>1 DEF TypeOK, GoIdle, Keeps
<1>2. ASSUME NEW e \in Executor, e # f, Take(e)
      PROVE  Keeps(f)
  BY <1>2 DEF TypeOK, Take, StartJob, SkipLate, Keeps, localVars
<1>3. ASSUME NEW e \in Executor, e # f, Throw(e) \/ Crash(e)
      PROVE  Keeps(f)
  BY <1>1, <1>3 DEF TypeOK, Throw, Crash, Keeps
<1>4. ASSUME NEW e \in Executor, e # f, Proceed(e)
      PROVE  Keeps(f)
  <2>1. CASE SkipRecorded(e) \/ DelayBusy(e) \/ ReleaseWebsiteLock(e)
    BY <1>1, <1>4, <2>1 DEF SkipRecorded, DelayBusy, ReleaseWebsiteLock
  <2>2. CASE NotRecorded(e) \/ AcquireWebsiteLock(e) \/ SkipInactive(e) \/ ResultAlreadyExists(e) \/ AllAnnounced(e)
    BY <1>4, <2>2 DEF TypeOK, NotRecorded, AcquireWebsiteLock, SkipInactive, ResultAlreadyExists, AllAnnounced,
         Goto, Keeps, localVars
  <2>3. CASE RunProbes(e) \/ ReadPrevious(e) \/ ReadActiveIncident(e)
    BY <1>4, <2>3 DEF TypeOK, RunProbes, ReadPrevious, ReadActiveIncident, Goto, Keeps
  <2>4. CASE BeginCreate(e) \/ SkipDuplicateIncident(e) \/ NoActiveIncident(e) \/ InsertResult(e)
    BY <1>4, <2>4 DEF TypeOK, BeginCreate, SkipDuplicateIncident, NoActiveIncident, InsertResult,
         Goto, Keeps, localVars
  <2>5. CASE CommitIncident(e)
    BY <1>4, <2>5 DEF TypeOK, CommitIncident, Goto, Keeps
  <2>6. CASE ResolveIncident(e) \/ ResolveTickets(e) \/ Announce(e)
    BY <1>4, <2>6 DEF TypeOK, ResolveIncident, ResolveTickets, Announce, Goto, Keeps, localVars
  <2>7. QED
    BY <1>4, <2>1, <2>2, <2>3, <2>4, <2>5, <2>6 DEF Proceed
<1>5. CASE \/ ReleaseSlot \/ ReleaseAgain \/ ExpireLock \/ HorizonReached \/ UNCHANGED vars
           \/ (\E s \in Slot : Stall(s)) \/ (\E p \in Staff : StaffReads(p) \/ StaffWrites(p))
  BY <1>5 DEF ReleaseSlot, ReleaseAgain, ExpireLock, HorizonReached, Stall, StaffReads, StaffWrites,
       Keeps, localVars, vars
<1>6. QED
  BY <1>2, <1>3, <1>4, <1>5 DEF Next

\* Only the commit brings an incident into being, for the slot of its handler.
LEMMA OnlyCommitOpens ==
  ASSUME TypeOK, TargetInvariant, [Next]_vars, NEW i \in IncidentId, Exists(i)'
  PROVE  \/ Exists(i) /\ incident'[i].startedAt = incident[i].startedAt
         \/ \E e \in Executor : pc[e] = "commit" /\ incident'[i].startedAt = slot[e]
<1>1. ASSUME NEW e \in Executor, CommitIncident(e)
      PROVE  \/ Exists(i) /\ incident'[i].startedAt = incident[i].startedAt
             \/ pc[e] = "commit" /\ incident'[i].startedAt = slot[e]
  BY <1>1 DEF TypeOK, CommitIncident, Goto, Exists
<1>2. ASSUME NEW k \in IncidentId, Exists(k), NEW status, incident' = [incident EXCEPT ![k].status = status]
      PROVE  Exists(i) /\ incident'[i].startedAt = incident[i].startedAt
  BY <1>2 DEF TypeOK, Incident, Exists
<1>3. ASSUME NEW e \in Executor, ResolveIncident(e)
      PROVE  Exists(i) /\ incident'[i].startedAt = incident[i].startedAt
  <2>1. target[e] \in IncidentId /\ Exists(target[e])
    BY <1>3 DEF ResolveIncident, Goto, TargetInvariant, Resolving
  <2>2. QED
    BY <1>2, <1>3, <2>1 DEF ResolveIncident
<1>4. ASSUME NEW p \in Staff, StaffWrites(p)
      PROVE  Exists(i) /\ incident'[i].startedAt = incident[i].startedAt
  <2>1. staff[p].id \in IncidentId /\ Exists(staff[p].id)
    BY <1>4 DEF StaffWrites, TargetInvariant
  <2>2. QED
    BY <1>2, <1>4, <2>1 DEF StaffWrites
<1>5. QED
  BY <1>1, <1>3, <1>4, DatabaseWriters DEF Exists

\* A row that is written stays as it was written.
LEMMA RowsStay ==
  ASSUME TypeOK, [Next]_vars, NEW s \in Slot, results[s] # NoRow
  PROVE  results'[s] = results[s]
<1>1. ASSUME NEW e \in Executor, InsertResult(e)
      PROVE  results'[s] = results[s]
  BY <1>1 DEF TypeOK, Rows, InsertResult
<1>2. QED
  BY <1>1, DatabaseWriters

-----------------------------------------------------------------------------
(* An incident rests on two failures *)

\* A slot and another one failed hard.
Rests(s, rows) == s \in DownSlots(rows) /\ DownSlots(rows) \ {s} # {}

\* What a handler has read is still in the table; a plan to create was made on
\* a failure of its own and one that it read; and once its row is saved, the
\* slot rests on itself and another.
RestInvariant ==
  /\ \A e \in Executor : DownSlots(seen[e]) \subseteq DownSlots(results)
  /\ \A e \in Executor : pc[e] = "insert" /\ plan[e].type = "create_incident" =>
       raw[e] = "down" /\ DownSlots(seen[e]) # {}
  /\ \A e \in Executor : Creating(e) => Rests(slot[e], results)
  /\ \A i \in IncidentId : Exists(i) => Rests(incident[i].startedAt, results)

\* A slot that failed hard stays one that did.
LEMMA DownSlotsStay ==
  ASSUME TypeOK, [Next]_vars
  PROVE  DownSlots(results) \subseteq DownSlots(results')
BY RowsStay DEF DownSlots, RawOf, NoRow, NoRaw

\* So what an incident rests on stays.
LEMMA StillRests ==
  ASSUME TypeOK, [Next]_vars, NEW s, Rests(s, results)
  PROVE  Rests(s, results')
BY DownSlotsStay DEF Rests

\* A handler's step from its reads to the incident.
LEMMA HandlerKeepsRest ==
  ASSUME TypeOK, SlotInvariant, RestInvariant, [Next]_vars, NEW e \in Executor,
         Take(e) \/ Proceed(e) \/ Throw(e) \/ Crash(e)
  PROVE  /\ DownSlots(seen'[e]) \subseteq DownSlots(results')
         /\ pc'[e] = "insert" /\ plan'[e].type = "create_incident" =>
              raw'[e] = "down" /\ DownSlots(seen'[e]) # {}
         /\ Creating(e)' => Rests(slot'[e], results')
<1> DEFINE Goal == /\ DownSlots(seen'[e]) \subseteq DownSlots(results')
                   /\ pc'[e] = "insert" /\ plan'[e].type = "create_incident" =>
                        raw'[e] = "down" /\ DownSlots(seen'[e]) # {}
                   /\ Creating(e)' => Rests(slot'[e], results')
<1>1. DownSlots(seen[e]) \subseteq DownSlots(results')
  BY DownSlotsStay DEF RestInvariant
<1>2. ASSUME GoIdle(e)
      PROVE  Goal
  <2>1. pc'[e] = "idle" /\ seen'[e] = [s \in Slot |-> NoRow]
    BY <1>2 DEF TypeOK, GoIdle
  <2>2. DownSlots(seen'[e]) = {}
    BY <2>1 DEF DownSlots, RawOf, NoRow, NoRaw
  <2>3. QED
    BY <2>1, <2>2 DEF Creating
<1>3. ASSUME seen'[e] = seen[e], pc'[e] # "insert", Creating(e)' => Creating(e) /\ slot'[e] = slot[e]
      PROVE  Goal
  BY <1>1, <1>3, StillRests DEF RestInvariant
<1>4. CASE SkipRecorded(e) \/ DelayBusy(e) \/ ReleaseWebsiteLock(e) \/ Crash(e)
  BY <1>2, <1>4 DEF SkipRecorded, DelayBusy, ReleaseWebsiteLock, Crash
<1>5. CASE Throw(e)
  <2>1. CASE pc[e] \in Guarded \ {"release"}
    BY <1>3, <1>5, <2>1 DEF TypeOK, Throw, Creating
  <2>2. CASE pc[e] \notin Guarded \ {"release"}
    BY <1>2, <1>5, <2>2 DEF Throw
  <2>3. QED
    BY <2>1, <2>2
<1>6. CASE Take(e)
  <2>1. ASSUME NEW s \in Slot, StartJob(e, s)
        PROVE  Goal
    BY <1>3, <2>1 DEF TypeOK, StartJob, Creating
  <2>2. ASSUME NEW s \in Slot, SkipLate(e, s)
        PROVE  Goal
    BY <1>3, <2>2 DEF SkipLate, Creating, localVars
  <2>3. QED
    BY <1>6, <2>1, <2>2 DEF Take
<1>7. CASE NotRecorded(e) \/ AcquireWebsiteLock(e) \/ SkipInactive(e) \/ ResultAlreadyExists(e) \/ AllAnnounced(e)
  BY <1>3, <1>7 DEF TypeOK, NotRecorded, AcquireWebsiteLock, SkipInactive, ResultAlreadyExists, AllAnnounced,
       Goto, Creating, localVars
<1>8. CASE RunProbes(e)
  BY <1>3, <1>8 DEF TypeOK, RunProbes, Goto, Creating
<1>9. CASE ReadPrevious(e)
  <2>1. pc'[e] = "active" /\ seen'[e] = results /\ results' = results
    BY <1>9 DEF TypeOK, ReadPrevious, Goto, dbVars
  <2>2. QED
    BY <2>1 DEF Creating
<1>10. CASE ReadActiveIncident(e)
  <2>1. /\ pc'[e] = "insert" /\ raw'[e] = raw[e] /\ seen'[e] = seen[e]
        /\ plan'[e] = EvaluateIncidentRules(RecentForRules(raw[e], seen[e]), ActiveIncidents # {})
    BY <1>10 DEF TypeOK, ReadActiveIncident, Goto
  <2>2. plan'[e].type = "create_incident" => raw[e] = "down" /\ DownSlots(seen[e]) # {}
    BY <2>1, CreateNeedsTwo
  <2>3. QED
    BY <1>1, <2>1, <2>2 DEF Creating
<1>11. CASE InsertResult(e)
  <2>1. /\ pc[e] = "insert" /\ pc'[e] = AfterInsert(e) /\ seen' = seen /\ slot' = slot
        /\ results[slot[e]] = NoRow /\ slot[e] \in Slot
    BY <1>11 DEF TypeOK, InsertResult, SlotInvariant, localVars
  <2>2. pc'[e] # "insert" /\ (Creating(e)' => plan[e].type = "create_incident")
    BY <2>1 DEF AfterInsert, Creating
  <2>3. ASSUME plan[e].type = "create_incident"
        PROVE  Rests(slot[e], results')
    <3>1. raw[e] = "down" /\ DownSlots(seen[e]) # {}
      BY <2>1, <2>3 DEF RestInvariant
    <3>2. RawOf(results'[slot[e]]) = "down"
      BY <1>11, <2>1, <3>1 DEF TypeOK, Rows, InsertResult, RawOf, NoRaw
    <3>3. slot[e] \notin DownSlots(results)
      BY <2>1 DEF DownSlots, RawOf, NoRow, NoRaw
    <3>4. DownSlots(seen[e]) \subseteq DownSlots(results)
      BY DEF RestInvariant
    <3>5. DownSlots(results') \ {slot[e]} # {}
      BY <1>1, <3>1, <3>3, <3>4
    <3>6. QED
      BY <2>1, <3>2, <3>5 DEF Rests, DownSlots
  <2>4. QED
    BY <1>1, <2>1, <2>2, <2>3
<1>12. CASE BeginCreate(e) \/ SkipDuplicateIncident(e) \/ NoActiveIncident(e)
  BY <1>3, <1>12 DEF TypeOK, BeginCreate, SkipDuplicateIncident, NoActiveIncident, Goto, Creating, localVars
<1>13. CASE CommitIncident(e)
  BY <1>3, <1>13 DEF TypeOK, CommitIncident, Goto, Creating
<1>14. CASE ResolveIncident(e) \/ ResolveTickets(e) \/ Announce(e)
  BY <1>3, <1>14 DEF TypeOK, ResolveIncident, ResolveTickets, Announce, Goto, Creating, localVars
<1>15. QED
  BY <1>4, <1>5, <1>6, <1>7, <1>8, <1>9, <1>10, <1>11, <1>12, <1>13, <1>14 DEF Proceed

\* RestInvariant is inductive.
LEMMA RestKept == Spec => []RestInvariant
<1>1. Init => RestInvariant
  <2> SUFFICES ASSUME Init PROVE RestInvariant
    OBVIOUS
  <2>1. \A e \in Executor : seen[e] = [s \in Slot |-> NoRow] /\ pc[e] = "idle"
    BY DEF Init
  <2>2. \A e \in Executor : DownSlots(seen[e]) = {}
    BY <2>1 DEF DownSlots, RawOf, NoRow, NoRaw
  <2>3. \A i \in IncidentId : ~ Exists(i)
    BY DEF Init, Exists, NoRecord
  <2>4. QED
    BY <2>1, <2>2, <2>3 DEF RestInvariant, Creating
<1>2. TypeOK /\ TargetInvariant /\ SlotInvariant /\ RestInvariant /\ [Next]_vars => RestInvariant'
  <2> SUFFICES ASSUME TypeOK, TargetInvariant, SlotInvariant, RestInvariant, [Next]_vars
               PROVE  RestInvariant'
    OBVIOUS
  <2>1. ASSUME NEW e \in Executor
        PROVE  /\ DownSlots(seen'[e]) \subseteq DownSlots(results')
               /\ pc'[e] = "insert" /\ plan'[e].type = "create_incident" =>
                    raw'[e] = "down" /\ DownSlots(seen'[e]) # {}
               /\ Creating(e)' => Rests(slot'[e], results')
    <3>1. CASE Keeps(e)
      BY <3>1, DownSlotsStay, StillRests DEF Keeps, Creating, RestInvariant
    <3>2. QED
      BY <3>1, OneHandlerMoves, HandlerKeepsRest
  <2>2. ASSUME NEW i \in IncidentId, Exists(i)'
        PROVE  Rests(incident'[i].startedAt, results')
    BY <2>2, OnlyCommitOpens, StillRests DEF RestInvariant, Creating
  <2>3. QED
    BY <2>1, <2>2 DEF RestInvariant
<1>3. QED
  BY <1>1, <1>2, TypeCorrect, TargetsExist, SlotsKept, PTL DEF Spec

\* An incident rests on two different slots that were both recorded as hard
\* failures, however many checks overlap and whatever is retried: a check never
\* counts its own row, and never one that was not saved.
THEOREM TwoFailures == Spec => []IncidentRestsOnTwoFailures
<1>1. RestInvariant => IncidentRestsOnTwoFailures
  BY DEF RestInvariant, IncidentRestsOnTwoFailures, Rests, DownSlots, Recorded, RawOf, NoRow, NoRaw
<1>2. QED
  BY <1>1, RestKept, PTL

-----------------------------------------------------------------------------
(* A card that shows down without an incident *)

AnyIncident == \E i \in IncidentId : Exists(i)

\* Faults are counted and never forgotten.
LEMMA FaultsCount ==
  ASSUME [Next]_vars
  PROVE  faults' = faults \/ faults' = faults + 1
<1>1. ASSUME NEW e \in Executor, Proceed(e)
      PROVE  faults' = faults
  BY <1>1 DEF Proceed, SkipRecorded, NotRecorded, AcquireWebsiteLock, DelayBusy, SkipInactive, RunProbes,
       ReadPrevious, ReadActiveIncident, InsertResult, ResultAlreadyExists, BeginCreate, SkipDuplicateIncident,
       NoActiveIncident, CommitIncident, ResolveIncident, ResolveTickets, Announce, AllAnnounced,
       ReleaseWebsiteLock
<1>2. ASSUME NEW e \in Executor, Take(e) \/ Throw(e) \/ Crash(e)
      PROVE  faults' = faults \/ faults' = faults + 1
  BY <1>2 DEF Take, StartJob, SkipLate, Throw, Crash
<1>3. CASE \/ ReleaseSlot \/ ReleaseAgain \/ ExpireLock \/ HorizonReached \/ UNCHANGED vars
           \/ (\E s \in Slot : Stall(s)) \/ (\E p \in Staff : StaffReads(p) \/ StaffWrites(p))
  BY <1>3 DEF ReleaseSlot, ReleaseAgain, ExpireLock, HorizonReached, Stall, StaffReads, StaffWrites, vars
<1>4. QED
  BY <1>1, <1>2, <1>3 DEF Next

\* A handler gets to its insert from the reads before it.
LEMMA EntersInsert ==
  ASSUME TypeOK, [Next]_vars, NEW e \in Executor, pc'[e] = "insert"
  PROVE  Keeps(e) \/ ReadActiveIncident(e)
<1>1. ~ GoIdle(e)
  BY DEF TypeOK, GoIdle
<1>2. CASE Take(e)
  BY <1>2 DEF TypeOK, Take, StartJob, SkipLate, Keeps, localVars
<1>3. ~ Throw(e) /\ ~ Crash(e)
  BY <1>1 DEF TypeOK, Throw, Crash
<1>4. CASE InsertResult(e)
  BY <1>4 DEF TypeOK, InsertResult, AfterInsert
<1>5. CASE Announce(e)
  BY <1>5 DEF Announce
<1>6. ASSUME NEW from, NEW to, Goto(e, from, to)
      PROVE  to = "insert"
  BY <1>6 DEF TypeOK, Goto
<1>7. ASSUME Proceed(e), ~ ReadActiveIncident(e)
      PROVE  InsertResult(e) \/ Announce(e)
  BY <1>1, <1>6, <1>7, Zenon
  DEF Proceed, SkipRecorded, NotRecorded, AcquireWebsiteLock, DelayBusy, SkipInactive, RunProbes,
       ReadPrevious, ResultAlreadyExists, BeginCreate, SkipDuplicateIncident,
       NoActiveIncident, CommitIncident, ResolveIncident, ResolveTickets, AllAnnounced, ReleaseWebsiteLock
<1>8. QED
  BY <1>2, <1>3, <1>4, <1>5, <1>7, OneHandlerMoves

\* A card that is about to show down stands beside an incident, and without
\* faults a card that shows it has an incident or one that is being created.
DownInvariant ==
  /\ \A e \in Executor : pc[e] = "insert" /\ plan[e].type = "keep_incident" => AnyIncident
  /\ faults = 0 =>
       \A s \in Slot \ (1 .. LegacySlots) : results[s].status = "down" =>
         AnyIncident \/ \E e \in Executor : Creating(e)

\* The rules keep an incident only when one is active.
LEMMA KeepNeedsActive ==
  ASSUME NEW recent, NEW hasActive \in BOOLEAN,
         EvaluateIncidentRules(recent, hasActive).type = "keep_incident"
  PROVE  hasActive
BY DEF EvaluateIncidentRules, RuleAction

\* Only a failure that creates or keeps an incident turns the card down.
LEMMA DownNeedsIncident ==
  ASSUME NEW status, NEW action, ApplyCardStatusOverride(status, action) = "down"
  PROVE  action.type \in {"create_incident", "keep_incident"}
BY DEF ApplyCardStatusOverride, IsFailureStatus

\* Only an error or a crash ends a creation without an incident.
LEMMA CreationEnds ==
  ASSUME TypeOK, [Next]_vars, NEW e \in Executor, Creating(e), faults' = 0
  PROVE  Creating(e)' \/ AnyIncident'
<1>1. AnyIncident => AnyIncident'
  BY NextKeepsIncidents DEF IncidentsStay, AnyIncident
<1>2. CASE Keeps(e)
  BY <1>2 DEF Keeps, Creating
<1>3. CASE Throw(e) \/ Crash(e)
  BY <1>3 DEF TypeOK, Throw, Crash
<1>4. CASE BeginCreate(e) \/ NoActiveIncident(e)
  BY <1>4 DEF TypeOK, BeginCreate, NoActiveIncident, Goto, Creating
<1>5. CASE SkipDuplicateIncident(e)
  BY <1>1, <1>5 DEF SkipDuplicateIncident, ActiveIncidents, Active, Exists, AnyIncident
<1>6. CASE CommitIncident(e)
  BY <1>6 DEF TypeOK, CommitIncident, Exists, AnyIncident
<1>7. pc[e] \in {"advisory", "recheck", "commit"}
  BY DEF Creating
<1>8. ~ Take(e)
  <2>1. ASSUME NEW s \in Slot, SkipLate(e, s)
        PROVE  FALSE
    BY <1>7, <2>1 DEF SkipLate
  <2>2. ASSUME NEW s \in Slot, StartJob(e, s)
        PROVE  FALSE
    BY <1>7, <2>2 DEF StartJob
  <2>3. QED
    BY <2>1, <2>2 DEF Take
<1>9. Proceed(e) => BeginCreate(e) \/ NoActiveIncident(e) \/ SkipDuplicateIncident(e) \/ CommitIncident(e)
  BY <1>7 DEF Proceed, SkipRecorded, NotRecorded, AcquireWebsiteLock, DelayBusy, SkipInactive, RunProbes,
       ReadPrevious, ReadActiveIncident, InsertResult, ResultAlreadyExists, ResolveIncident, ResolveTickets,
       Announce, AllAnnounced, ReleaseWebsiteLock, Goto
<1>10. QED
  BY <1>2, <1>3, <1>4, <1>5, <1>6, <1>8, <1>9, OneHandlerMoves

\* Once everything has settled, a card that shows down without any incident is
\* the work of an error or a crash, never of a busy lock, a stall, an outlived
\* lock, the staff or the order of slots alone.
THEOREM LossCostsFault == Spec => []LostIncidentCostsFault
<1>1. Init => DownInvariant
  BY DEF Init, DownInvariant, NoRow, Slot
<1>2. TypeOK /\ SlotInvariant /\ DownInvariant /\ [Next]_vars => DownInvariant'
  <2> SUFFICES ASSUME TypeOK, SlotInvariant, DownInvariant, [Next]_vars
               PROVE  DownInvariant'
    OBVIOUS
  <2>1. AnyIncident => AnyIncident'
    BY NextKeepsIncidents DEF IncidentsStay, AnyIncident
  <2>2. ASSUME NEW e \in Executor, pc'[e] = "insert", plan'[e].type = "keep_incident"
        PROVE  AnyIncident'
    <3>1. CASE Keeps(e)
      BY <2>1, <2>2, <3>1 DEF Keeps, DownInvariant
    <3>2. CASE ReadActiveIncident(e)
      <4>1. plan'[e] = EvaluateIncidentRules(RecentForRules(raw[e], seen[e]), ActiveIncidents # {})
        BY <3>2 DEF TypeOK, ReadActiveIncident
      <4>2. ActiveIncidents # {}
        BY <2>2, <4>1, KeepNeedsActive
      <4>3. QED
        BY <2>1, <4>2 DEF ActiveIncidents, Active, Exists, AnyIncident
    <3>3. QED
      BY <2>2, <3>1, <3>2, EntersInsert
  <2>3. faults' = 0 => faults = 0
    BY FaultsCount DEF TypeOK
  <2>4. ASSUME faults' = 0, NEW s \in Slot \ (1 .. LegacySlots), results'[s].status = "down"
        PROVE  AnyIncident' \/ \E e \in Executor : Creating(e)'
    <3>1. CASE results'[s] = results[s]
      BY <2>1, <2>3, <2>4, <3>1, CreationEnds DEF DownInvariant
    <3>2. CASE results'[s] # results[s]
      <4>1. PICK e \in Executor : InsertResult(e)
        BY <3>2, DatabaseWriters
      <4>2. s = slot[e] /\ ApplyCardStatusOverride(raw[e], plan[e]) = "down"
        BY <2>4, <3>2, <4>1 DEF TypeOK, Rows, InsertResult
      <4>3. plan[e].type \in {"create_incident", "keep_incident"}
        BY <4>2, DownNeedsIncident
      <4>4. pc[e] = "insert" /\ pc'[e] = AfterInsert(e)
        BY <4>1 DEF TypeOK, InsertResult
      <4>5. QED
        BY <2>1, <4>3, <4>4 DEF AfterInsert, Creating, DownInvariant
    <3>3. QED
      BY <3>1, <3>2
  <2>5. QED
    BY <2>2, <2>4 DEF DownInvariant
<1>3. DownInvariant => LostIncidentCostsFault
  <2>1. ASSUME DownInvariant, \A e \in Executor : pc[e] = "idle", faults = 0
        PROVE  \A s \in Recorded(results) \ 1 .. LegacySlots : results[s].status = "down" => AnyIncident
    BY <2>1 DEF DownInvariant, Creating, Recorded
  <2>2. QED
    BY <2>1 DEF LostIncidentCostsFault, AnyIncident
<1>4. QED
  BY <1>1, <1>2, <1>3, TypeCorrect, SlotsKept, PTL DEF Spec

-----------------------------------------------------------------------------
(* The events of an incident *)

\* What is told of an incident: nothing before it exists, each event once, the
\* recovery when incident and ticket are resolved, the assignment after the
\* creation.
IncidentEvents(i) ==
  /\ ~ Exists(i) => ticket[i] = "none" /\ \A v \in Event : notified[i][v] = 0
  /\ Exists(i) => ticket[i] \in {"open", "resolved"}
  /\ \A v \in Event : notified[i][v] <= 1
  /\ notified[i]["incident_recovered"] > 0 => ticket[i] = "resolved" /\ ~ Active(i)
  /\ notified[i]["ticket_assigned"] > 0 => notified[i]["incident_created"] > 0

\* A handler that is going to resolve or announce holds an incident of which
\* nothing has been told that it is going to tell.
Untold(i, events) == \A v \in events : notified[i][v] = 0
HandlerEvents(e) ==
  /\ Resolving(e) \/ pc[e] \in {"tickets", "announce"} => target[e] \in IncidentId /\ Exists(target[e])
  /\ Resolving(e) \/ pc[e] = "tickets" => Untold(target[e], {"incident_recovered"})
  /\ pc[e] = "tickets" => ~ Active(target[e])
  /\ pc[e] = "announce" =>
       \/ todo[e] = << >>
       \/ /\ todo[e] \in {<< "incident_created" >>, << "incident_created", "ticket_assigned" >>}
          /\ Untold(target[e], {"incident_created", "ticket_assigned"})
       \/ /\ todo[e] = << "ticket_assigned" >>
          /\ Untold(target[e], {"ticket_assigned"}) /\ notified[target[e]]["incident_created"] > 0
       \/ /\ todo[e] = << "incident_recovered" >>
          /\ Untold(target[e], {"incident_recovered"})
          /\ ticket[target[e]] = "resolved" /\ ~ Active(target[e])

EventInvariant ==
  /\ lost = {}
  /\ \A p \in Staff : staff[p].op \in {"idle", "resolved", "closed"}
  /\ \A i \in IncidentId : IncidentEvents(i)
  /\ \A e \in Executor : HandlerEvents(e)

\* Every step leaves every incident with the events it may have.
LEMMA EventsOfIncident ==
  ASSUME TypeOK, TargetInvariant, EventInvariant, [Next]_vars, NEW i \in IncidentId
  PROVE  IncidentEvents(i)'
<1>1. IncidentEvents(i)
  BY DEF EventInvariant
<1>2. ASSUME incident'[i] = incident[i], ticket'[i] = ticket[i], notified'[i] = notified[i]
      PROVE  IncidentEvents(i)'
  BY <1>1, <1>2 DEF IncidentEvents, Exists, Active
<1>3. ASSUME Exists(i), Exists(i)', ~ Active(i)', ticket'[i] = ticket[i], notified'[i] = notified[i]
      PROVE  IncidentEvents(i)'
  BY <1>1, <1>3 DEF IncidentEvents
<1>4. ASSUME NEW e \in Executor, InsertResult(e)
      PROVE  IncidentEvents(i)'
  BY <1>2, <1>4 DEF InsertResult
<1>5. ASSUME NEW e \in Executor, CommitIncident(e)
      PROVE  IncidentEvents(i)'
  <2>1. PICK k \in IncidentId :
          /\ ~ Exists(k)
          /\ incident' = [incident EXCEPT ![k] = [status |-> "open", startedAt |-> slot[e]]]
          /\ ticket' = [ticket EXCEPT ![k] = "open"]
    BY <1>5 DEF CommitIncident
  <2>2. notified' = notified
    BY <1>5 DEF CommitIncident
  <2>3. CASE i # k
    BY <1>2, <2>1, <2>2, <2>3 DEF TypeOK
  <2>4. CASE i = k
    <3>1. \A v \in Event : notified'[i][v] = 0
      BY <1>1, <2>1, <2>2, <2>4 DEF IncidentEvents
    <3>2. incident'[i].status = "open" /\ ticket'[i] = "open"
      BY <2>1, <2>4 DEF TypeOK
    <3>3. QED
      BY <3>1, <3>2 DEF IncidentEvents, Exists, Event
  <2>5. QED
    BY <2>3, <2>4
<1>6. ASSUME NEW k \in IncidentId, Exists(k), NEW status \in {"resolved", "closed"},
             incident' = [incident EXCEPT ![k].status = status], ticket' = ticket, notified' = notified
      PROVE  IncidentEvents(i)'
  <2>1. CASE i # k
    BY <1>2, <1>6, <2>1 DEF TypeOK
  <2>2. CASE i = k
    <3>1. incident'[i].status = status
      BY <1>6, <2>2 DEF TypeOK, Incident
    <3>2. QED
      BY <1>3, <1>6, <2>2, <3>1 DEF Exists, Active
  <2>3. QED
    BY <2>1, <2>2
<1>7. ASSUME NEW e \in Executor, ResolveIncident(e)
      PROVE  IncidentEvents(i)'
  <2>1. target[e] \in IncidentId /\ Exists(target[e])
    BY <1>7 DEF ResolveIncident, Goto, EventInvariant, HandlerEvents, Resolving
  <2>2. QED
    BY <1>6, <1>7, <2>1 DEF ResolveIncident
<1>8. ASSUME NEW p \in Staff, StaffWrites(p)
      PROVE  IncidentEvents(i)'
  <2>1. staff[p].id \in IncidentId /\ Exists(staff[p].id) /\ staff[p].op \in {"resolved", "closed"}
    BY <1>8 DEF StaffWrites, TargetInvariant, EventInvariant
  <2>2. QED
    BY <1>6, <1>8, <2>1 DEF StaffWrites
<1>9. ASSUME NEW e \in Executor, ResolveTickets(e)
      PROVE  IncidentEvents(i)'
  <2>1. /\ target[e] \in IncidentId /\ Exists(target[e]) /\ ~ Active(target[e])
        /\ incident' = incident /\ notified' = notified
        /\ ticket' = [ticket EXCEPT ![target[e]] = IF @ \in {"open", "in_progress"} THEN "resolved" ELSE @]
    BY <1>9 DEF ResolveTickets, Goto, EventInvariant, HandlerEvents
  <2>2. CASE i # target[e]
    BY <1>2, <2>1, <2>2 DEF TypeOK
  <2>3. CASE i = target[e]
    <3>1. ticket'[i] = "resolved"
      BY <1>1, <2>1, <2>3 DEF TypeOK, IncidentEvents
    <3>2. QED
      BY <1>1, <2>1, <2>3, <3>1 DEF IncidentEvents, Exists, Active
  <2>4. QED
    BY <2>2, <2>3
<1>10. ASSUME NEW e \in Executor, Announce(e)
       PROVE  IncidentEvents(i)'
  <2>1. /\ target[e] \in IncidentId /\ Exists(target[e]) /\ HandlerEvents(e)
        /\ pc[e] = "announce" /\ todo[e] # << >>
        /\ incident' = incident /\ ticket' = ticket
        /\ notified' = [notified EXCEPT ![target[e]][Head(todo[e])] = @ + 1]
    BY <1>10 DEF Announce, EventInvariant, HandlerEvents
  <2>2. CASE i # target[e]
    BY <1>2, <2>1, <2>2 DEF TypeOK
  <2>3. CASE i = target[e]
    <3>1. notified[i] \in [Event -> Nat]
      BY DEF TypeOK
    <3>2. notified'[i] = [notified[i] EXCEPT ![Head(todo[e])] = @ + 1]
      BY <2>1, <2>3 DEF TypeOK
    <3>3. \/ Head(todo[e]) = "incident_created" /\ notified[i]["incident_created"] = 0
          \/ /\ Head(todo[e]) = "ticket_assigned" /\ notified[i]["ticket_assigned"] = 0
             /\ notified[i]["incident_created"] > 0
          \/ /\ Head(todo[e]) = "incident_recovered" /\ notified[i]["incident_recovered"] = 0
             /\ ticket[i] = "resolved" /\ ~ Active(i)
      BY <2>1, <2>3 DEF HandlerEvents, Untold
    <3>4. Exists(i)' /\ (Active(i)' <=> Active(i)) /\ ticket'[i] = ticket[i]
      BY <2>1, <2>3 DEF Exists, Active
    <3>5. \A v \in Event : notified'[i][v] = IF v = Head(todo[e]) THEN notified[i][v] + 1 ELSE notified[i][v]
      BY <3>1, <3>2
    <3>6. QED
      BY <1>1, <2>1, <2>3, <3>1, <3>3, <3>4, <3>5 DEF IncidentEvents, Event
  <2>4. QED
    BY <2>2, <2>3
<1>11. QED
  BY <1>2, <1>4, <1>5, <1>7, <1>8, <1>9, <1>10, DatabaseSteps DEF DatabaseStep, dbVars

\* A handler that stays where it is keeps what it holds: it is under the lock,
\* where no other handler writes, and the staff only resolve and close.
LEMMA EventsOfOthers ==
  ASSUME TypeOK, HolderKeepsLock, TargetInvariant, EventInvariant, [Next]_vars,
         NEW f \in Executor, Keeps(f), \A e \in Executor : DatabaseStep(e) => e # f
  PROVE  HandlerEvents(f)'
<1> DEFINE held == Resolving(f) \/ pc[f] \in {"tickets", "announce"}
<1>1. CASE ~ held
  BY <1>1 DEF Keeps, HandlerEvents, Resolving
<1>2. CASE held
  <2>1. Inside(f) /\ HandlerEvents(f)
    BY <1>2 DEF EventInvariant, Resolving, Inside, Guarded, Step
  <2>7. PICK k \in IncidentId : k = target[f] /\ Exists(k)
    BY <1>2, <2>1 DEF HandlerEvents
  <2>2. ASSUME NEW e \in Executor
        PROVE  ~ DatabaseStep(e)
    <3>1. DatabaseStep(e) => Inside(e)
      BY DEF DatabaseStep, InsertResult, CommitIncident, ResolveIncident, ResolveTickets, Announce,
             Goto, Inside, Guarded, Step
    <3>2. QED
      BY <2>1, <3>1 DEF EventInvariant, HolderKeepsLock
  <2>3. /\ ticket' = ticket /\ notified' = notified
        /\ Exists(k)' /\ (Active(k)' => Active(k))
    <3>1. CASE UNCHANGED dbVars
      BY <2>7, <3>1 DEF dbVars, Exists, Active
    <3>2. ASSUME NEW p \in Staff, StaffWrites(p)
          PROVE  /\ ticket' = ticket /\ notified' = notified
                 /\ Exists(k)' /\ (Active(k)' => Active(k))
      <4>1. staff[p].op \in {"resolved", "closed"}
        BY <3>2 DEF StaffWrites, EventInvariant
      <4>2. QED
        BY <2>7, <3>2, <4>1 DEF TypeOK, Incident, StaffWrites, Exists, Active
    <3>3. QED
      BY <2>2, <3>1, <3>2, DatabaseSteps
  <2>4. target'[f] = k /\ pc'[f] = pc[f] /\ todo'[f] = todo[f] /\ (Resolving(f)' <=> Resolving(f))
    BY <2>7 DEF Keeps, Resolving
  <2>5. QED
    BY <2>1, <2>3, <2>4, <2>7 DEF HandlerEvents, Untold
<1>3. QED
  BY <1>1, <1>2

\* A handler's own steps.
LEMMA EventsOfHandler ==
  ASSUME TypeOK, EventInvariant, [Next]_vars, NEW e \in Executor,
         Take(e) \/ Proceed(e) \/ Throw(e) \/ Crash(e)
  PROVE  HandlerEvents(e)'
<1>1. ASSUME ~ Resolving(e)', pc'[e] \notin {"tickets", "announce"}
      PROVE  HandlerEvents(e)'
  BY <1>1 DEF HandlerEvents
<1>2. GoIdle(e) => HandlerEvents(e)'
  BY <1>1 DEF TypeOK, GoIdle, Resolving
<1>3. ASSUME NEW from, NEW to, Goto(e, from, to), to \notin {"insert", "resolve", "tickets", "announce"}
      PROVE  HandlerEvents(e)'
  BY <1>1, <1>3 DEF TypeOK, Goto, Resolving
<1>4. CASE SkipRecorded(e) \/ DelayBusy(e) \/ ReleaseWebsiteLock(e) \/ Crash(e)
  BY <1>2, <1>4 DEF SkipRecorded, DelayBusy, ReleaseWebsiteLock, Crash
<1>5. CASE Throw(e)
  BY <1>1, <1>2, <1>5 DEF TypeOK, Throw, Resolving
<1>6. CASE \/ NotRecorded(e) \/ AcquireWebsiteLock(e) \/ SkipInactive(e) \/ ResultAlreadyExists(e) \/ AllAnnounced(e)
           \/ RunProbes(e) \/ ReadPrevious(e) \/ BeginCreate(e) \/ SkipDuplicateIncident(e) \/ NoActiveIncident(e)
  BY <1>3, <1>6 DEF NotRecorded, AcquireWebsiteLock, SkipInactive, ResultAlreadyExists, AllAnnounced,
       RunProbes, ReadPrevious, BeginCreate, SkipDuplicateIncident, NoActiveIncident
<1>7. CASE Take(e)
  <2>1. ASSUME NEW s \in Slot, StartJob(e, s)
        PROVE  HandlerEvents(e)'
    BY <1>1, <2>1 DEF TypeOK, StartJob, Resolving
  <2>2. ASSUME NEW s \in Slot, SkipLate(e, s)
        PROVE  HandlerEvents(e)'
    BY <1>1, <2>2 DEF SkipLate, Resolving
  <2>3. QED
    BY <1>7, <2>1, <2>2 DEF Take
<1>8. CASE ReadActiveIncident(e)
  <2>1. /\ pc'[e] = "insert" /\ UNCHANGED dbVars
        /\ plan'[e] = EvaluateIncidentRules(RecentForRules(raw[e], seen[e]), ActiveIncidents # {})
    BY <1>8 DEF TypeOK, ReadActiveIncident, Goto
  <2>2. Resolving(e)' => ActiveIncidents # {}
    BY <2>1, ResolveNeedsActive DEF Resolving
  <2>3. ActiveIncidents # {} => target'[e] \in ActiveIncidents
    BY <1>8 DEF TypeOK, ReadActiveIncident, NewestActive
  <2>4. \A i \in ActiveIncidents : i \in IncidentId /\ Exists(i)' /\ notified'[i]["incident_recovered"] = 0
    <3>1. ASSUME NEW i \in ActiveIncidents
          PROVE  i \in IncidentId /\ Exists(i) /\ notified[i]["incident_recovered"] = 0
      <4>1. i \in IncidentId /\ Active(i) /\ IncidentEvents(i)
        BY DEF ActiveIncidents, EventInvariant
      <4>2. notified[i]["incident_recovered"] \in Nat
        BY <4>1 DEF TypeOK, Event
      <4>3. QED
        BY <4>1, <4>2 DEF IncidentEvents, Active, Exists
    <3>2. QED
      BY <2>1, <3>1 DEF dbVars, Exists
  <2>5. QED
    BY <2>1, <2>2, <2>3, <2>4 DEF HandlerEvents, Untold
<1>9. CASE InsertResult(e)
  <2>1. /\ pc[e] = "insert" /\ pc'[e] = AfterInsert(e) /\ plan' = plan /\ target' = target
        /\ incident' = incident /\ notified' = notified
    BY <1>9 DEF TypeOK, InsertResult, localVars
  <2>2. pc'[e] \notin {"insert", "tickets", "announce"} /\ (pc'[e] = "resolve" => Resolving(e))
    BY <2>1 DEF AfterInsert, Resolving
  <2>3. HandlerEvents(e)
    BY DEF EventInvariant
  <2>4. QED
    BY <2>1, <2>2, <2>3 DEF HandlerEvents, Untold, Resolving, Exists
<1>10. CASE CommitIncident(e)
  <2>1. PICK i \in IncidentId :
          /\ ~ Exists(i) /\ target' = [target EXCEPT ![e] = i]
          /\ incident' = [incident EXCEPT ![i] = [status |-> "open", startedAt |-> slot[e]]]
    BY <1>10 DEF CommitIncident
  <2>2. /\ pc'[e] = "announce" /\ notified' = notified /\ target'[e] = i /\ Exists(i)'
        /\ todo'[e] \in {<< "incident_created" >>, << "incident_created", "ticket_assigned" >>}
    BY <1>10, <2>1 DEF TypeOK, CommitIncident, Goto, Exists
  <2>3. \A v \in Event : notified'[i][v] = 0
    BY <2>1, <2>2 DEF EventInvariant, IncidentEvents
  <2>4. QED
    BY <2>2, <2>3 DEF HandlerEvents, Untold, Resolving, Event
<1>11. CASE ResolveIncident(e)
  <2>1. /\ target[e] \in IncidentId /\ Exists(target[e]) /\ Untold(target[e], {"incident_recovered"})
        /\ pc'[e] = "tickets" /\ target' = target /\ notified' = notified
        /\ incident' = [incident EXCEPT ![target[e]].status = "resolved"]
    BY <1>11 DEF TypeOK, ResolveIncident, Goto, EventInvariant, HandlerEvents, Resolving, localVars
  <2>2. incident'[target[e]].status = "resolved"
    BY <2>1 DEF TypeOK, Incident
  <2>3. QED
    BY <2>1, <2>2 DEF HandlerEvents, Untold, Resolving, Exists, Active
<1>12. CASE ResolveTickets(e)
  <2>1. /\ target[e] \in IncidentId /\ Exists(target[e]) /\ ~ Active(target[e])
        /\ Untold(target[e], {"incident_recovered"})
        /\ pc'[e] = "announce" /\ target' = target /\ notified' = notified /\ incident' = incident
        /\ todo'[e] = << "incident_recovered" >>
        /\ ticket' = [ticket EXCEPT ![target[e]] = IF @ \in {"open", "in_progress"} THEN "resolved" ELSE @]
    BY <1>12 DEF TypeOK, ResolveTickets, Goto, EventInvariant, HandlerEvents
  <2>2. ticket'[target[e]] = "resolved"
    BY <2>1 DEF TypeOK, EventInvariant, IncidentEvents
  <2>3. QED
    BY <2>1, <2>2 DEF HandlerEvents, Untold, Resolving, Exists, Active
<1>13. CASE Announce(e)
  <2>1. PICK k \in IncidentId, v \in {Head(todo[e])} : k = target[e] /\ Exists(k)
    BY <1>13 DEF Announce, EventInvariant, HandlerEvents
  <2>7. /\ HandlerEvents(e) /\ pc[e] = "announce" /\ todo[e] # << >>
        /\ notified[k] \in [Event -> Nat]
    BY <1>13 DEF TypeOK, Announce, EventInvariant
  <2>2. /\ pc'[e] = "announce" /\ target'[e] = k /\ incident' = incident /\ ticket' = ticket
        /\ todo'[e] = Tail(todo[e])
        /\ notified'[k] = [notified[k] EXCEPT ![v] = @ + 1]
    BY <1>13, <2>1 DEF TypeOK, Announce
  <2>3. Exists(k)' /\ ~ Resolving(e)'
    BY <2>1, <2>2 DEF Exists, Resolving
  <2>4. CASE todo[e] = << "incident_created", "ticket_assigned" >>
    <3>1. v = "incident_created" /\ todo'[e] = << "ticket_assigned" >>
      BY <2>1, <2>2, <2>4
    <3>2. Untold(k, {"ticket_assigned"})
      BY <2>1, <2>4, <2>7 DEF HandlerEvents, Untold
    <3>3. notified'[k]["ticket_assigned"] = 0 /\ notified'[k]["incident_created"] > 0
      BY <2>2, <2>7, <3>1, <3>2 DEF Untold, Event
    <3>4. QED
      BY <2>1, <2>2, <2>3, <3>1, <3>3 DEF HandlerEvents, Untold
  <2>5. CASE todo[e] # << "incident_created", "ticket_assigned" >>
    <3>1. todo'[e] = << >>
      <4>1. PICK only : todo[e] = << only >>
        BY <2>5, <2>7, Zenon DEF HandlerEvents
      <4>2. QED
        BY <2>2, <4>1
    <3>2. QED
      BY <2>1, <2>2, <2>3, <3>1 DEF HandlerEvents
  <2>6. QED
    BY <2>4, <2>5
<1>14. QED
  BY <1>4, <1>5, <1>6, <1>7, <1>8, <1>9, <1>10, <1>11, <1>12, <1>13 DEF Proceed

\* Without checks that outlive the lock none ever loses it.
LEMMA NoneLost ==
  ASSUME TypeOK, ~ MayOverrun, lost = {}, [Next]_vars
  PROVE  lost' = {}
<1>1. ASSUME NEW e \in Executor, Proceed(e) \/ Take(e)
      PROVE  lost' \subseteq lost
  BY <1>1 DEF Proceed, SkipRecorded, NotRecorded, AcquireWebsiteLock, DelayBusy, SkipInactive, RunProbes,
       ReadPrevious, ReadActiveIncident, InsertResult, ResultAlreadyExists, BeginCreate, SkipDuplicateIncident,
       NoActiveIncident, CommitIncident, ResolveIncident, ResolveTickets, Announce, AllAnnounced,
       ReleaseWebsiteLock, Take, StartJob, SkipLate, lockVars
<1>2. ASSUME NEW e \in Executor, Throw(e) \/ Crash(e)
      PROVE  lost' \subseteq lost
  BY <1>2 DEF Throw, Crash
<1>3. CASE \/ ReleaseSlot \/ ReleaseAgain \/ ExpireLock \/ HorizonReached \/ UNCHANGED vars
           \/ (\E s \in Slot : Stall(s)) \/ (\E p \in Staff : StaffReads(p) \/ StaffWrites(p))
  BY <1>3 DEF ReleaseSlot, ReleaseAgain, ExpireLock, HorizonReached, Stall, StaffReads, StaffWrites,
       lockVars, vars
<1>4. QED
  BY <1>1, <1>2, <1>3 DEF Next

\* The staff's requests in flight resolve or close.
LEMMA StaffOnlyResolve ==
  ASSUME TypeOK, StaffTargets \subseteq {"resolved"}, EventInvariant, [Next]_vars, NEW p \in Staff
  PROVE  staff'[p].op \in {"idle", "resolved", "closed"}
<1>1. staff[p].op \in {"idle", "resolved", "closed"}
  BY DEF EventInvariant
<1>2. ASSUME NEW q \in Staff, StaffReads(q)
      PROVE  staff'[p].op \in {"idle", "resolved", "closed"}
  <2>1. PICK i \in IncidentId, op \in StaffTargets \cup {"closed"} :
          staff' = [staff EXCEPT ![q] = [op |-> op, id |-> i]]
    BY <1>2 DEF StaffReads
  <2>2. QED
    BY <1>1, <2>1 DEF TypeOK
<1>3. ASSUME NEW q \in Staff, StaffWrites(q)
      PROVE  staff'[p].op \in {"idle", "resolved", "closed"}
  BY <1>1, <1>3 DEF TypeOK, StaffWrites
<1>4. ASSUME NEW e \in Executor, Proceed(e) \/ Take(e) \/ Throw(e) \/ Crash(e)
      PROVE  staff' = staff
  BY <1>4 DEF Proceed, SkipRecorded, NotRecorded, AcquireWebsiteLock, DelayBusy, SkipInactive, RunProbes,
       ReadPrevious, ReadActiveIncident, InsertResult, ResultAlreadyExists, BeginCreate, SkipDuplicateIncident,
       NoActiveIncident, CommitIncident, ResolveIncident, ResolveTickets, Announce, AllAnnounced,
       ReleaseWebsiteLock, Take, StartJob, SkipLate, Throw, Crash
<1>5. CASE \/ ReleaseSlot \/ ReleaseAgain \/ ExpireLock \/ HorizonReached \/ UNCHANGED vars
           \/ (\E s \in Slot : Stall(s))
  BY <1>1, <1>5 DEF ReleaseSlot, ReleaseAgain, ExpireLock, HorizonReached, Stall, vars
<1>6. QED
  BY <1>1, <1>2, <1>3, <1>4, <1>5 DEF Next

\* When no check outlives its lock and staff only resolve and close incidents,
\* no lifecycle event is announced twice, whatever is retried after an error
\* or a crash; a recovery follows the end of incident and ticket, and an
\* assignment follows the creation.
THEOREM OnceInOrder ==
  ASSUME ~ MayOverrun, StaffTargets \subseteq {"resolved"}
  PROVE  Spec => []AnnouncedOnceInOrder
<1>1. Init => EventInvariant
  BY DEF Init, EventInvariant, IncidentEvents, HandlerEvents, Resolving, Exists, Active, NoRecord, Event
<1>2. TypeOK /\ HolderKeepsLock /\ TargetInvariant /\ EventInvariant /\ [Next]_vars => EventInvariant'
  <2> SUFFICES ASSUME TypeOK, HolderKeepsLock, TargetInvariant, EventInvariant, [Next]_vars
               PROVE  EventInvariant'
    OBVIOUS
  <2>1. lost' = {}
    BY NoneLost DEF EventInvariant
  <2>2. \A p \in Staff : staff'[p].op \in {"idle", "resolved", "closed"}
    BY StaffOnlyResolve
  <2>3. \A i \in IncidentId : IncidentEvents(i)'
    BY EventsOfIncident
  <2>4. ASSUME NEW e \in Executor
        PROVE  HandlerEvents(e)'
    <3>1. CASE Take(e) \/ Proceed(e) \/ Throw(e) \/ Crash(e)
      BY <3>1, EventsOfHandler
    <3>2. CASE ~ (Take(e) \/ Proceed(e) \/ Throw(e) \/ Crash(e))
      <4>1. Keeps(e) /\ ~ Proceed(e)
        BY <3>2, OneHandlerMoves
      <4>2. \A f \in Executor : DatabaseStep(f) => f # e
        BY <4>1 DEF DatabaseStep, Proceed
      <4>3. QED
        BY <4>1, <4>2, EventsOfOthers
    <3>3. QED
      BY <3>1, <3>2
  <2>5. QED
    BY <2>1, <2>2, <2>3, <2>4 DEF EventInvariant
<1>3. EventInvariant => AnnouncedOnceInOrder
  BY DEF EventInvariant, IncidentEvents, AnnouncedOnceInOrder, AnnouncedOnce, AnnouncedInOrder
<1>4. QED
  BY <1>1, <1>2, <1>3, TypeCorrect, LockKept, TargetsExist, PTL DEF Spec

-----------------------------------------------------------------------------
(* The pipeline implements the incident lifecycle *)

\* An identifier that no incident has taken has no start either.
UnusedHaveNoStart == \A i \in IncidentId : ~ Exists(i) => incident[i].startedAt = NoSlot

\* The commit alone gives an incident its start.
LEMMA UnusedStay == Spec => []UnusedHaveNoStart
<1>1. Init => UnusedHaveNoStart
  BY DEF Init, UnusedHaveNoStart, NoRecord
<1>2. TypeOK /\ TargetInvariant /\ UnusedHaveNoStart /\ [Next]_vars => UnusedHaveNoStart'
  <2> SUFFICES ASSUME TypeOK, TargetInvariant, UnusedHaveNoStart, [Next]_vars, NEW i \in IncidentId, ~ Exists(i)'
               PROVE  incident'[i].startedAt = NoSlot
    BY DEF UnusedHaveNoStart
  <2>1. ~ Exists(i)
    BY NextKeepsIncidents DEF IncidentsStay
  <2>2. ASSUME NEW k \in IncidentId, Exists(k), NEW status, incident' = [incident EXCEPT ![k].status = status]
        PROVE  incident'[i] = incident[i]
    BY <2>1, <2>2 DEF TypeOK
  <2>3. ASSUME NEW e \in Executor, CommitIncident(e)
        PROVE  incident'[i] = incident[i]
    BY <2>1, <2>3 DEF TypeOK, CommitIncident, Exists
  <2>4. ASSUME NEW e \in Executor, ResolveIncident(e)
        PROVE  incident'[i] = incident[i]
    BY <2>2, <2>4 DEF ResolveIncident, Goto, TargetInvariant, Resolving
  <2>5. ASSUME NEW p \in Staff, StaffWrites(p)
        PROVE  incident'[i] = incident[i]
    BY <2>2, <2>5 DEF StaffWrites, TargetInvariant
  <2>6. incident'[i] = incident[i]
    BY <2>3, <2>4, <2>5, DatabaseWriters
  <2>7. QED
    BY <2>1, <2>6 DEF UnusedHaveNoStart
<1>3. QED
  BY <1>1, <1>2, TypeCorrect, TargetsExist, PTL DEF Spec

\* The database the pipeline starts from is one the lifecycle starts from.
LEMMA LifecycleInit ==
  ASSUME Init
  PROVE  Lifecycle!Init
<1>1. PICK statuses \in [1 .. LegacySlots -> Observations] :
        results = [s \in Slot |->
          IF s <= LegacySlots
          THEN [rawStatus |-> NoRaw, status |-> statuses[s], checkedAt |-> s - 1]
          ELSE NoRow]
  BY DEF Init
<1>2. ASSUME NEW s \in Slot, s <= LegacySlots
      PROVE  RecordedStatuses[s] \in MonitoringStatus
  BY <1>1, <1>2, BoundsAssumption, NamesAssumption DEF Slot, RecordedStatuses, RawOf
<1>3. ASSUME NEW s \in Slot, ~ (s <= LegacySlots)
      PROVE  RecordedStatuses[s] = "none"
  BY <1>1, <1>3 DEF RecordedStatuses, RawOf, NoRow
<1>4. \A s \in Slot : s <= LegacySlots <=> s \in 1 .. LegacySlots
  BY BoundsAssumption DEF Slot
<1>5. RecordedStatuses \in [Slot -> MonitoringStatus \cup {"none"}]
  BY <1>2, <1>3 DEF RecordedStatuses
<1>6. \A s \in Slot : RecordedStatuses[s] # "none" <=> s \in 1 .. LegacySlots
  BY <1>2, <1>3, <1>4 DEF MonitoringStatus
<1>7. LifecycleStates = [i \in IncidentId |-> "none"] /\ StartSlots = [i \in IncidentId |-> 0]
  BY DEF Init, LifecycleStates, LifecycleState, StartSlots, Active, NoRecord, NoSlot
<1>8. QED
  BY <1>5, <1>6, <1>7 DEF Lifecycle!Init

\* What leaves rows and incidents alone is a stutter of the lifecycle.
LEMMA LifecycleStutter ==
  ASSUME results' = results, incident' = incident
  PROVE  UNCHANGED Lifecycle!vars
BY DEF Lifecycle!vars, RecordedStatuses, LifecycleStates, StartSlots, LifecycleState, Active

\* The insert of a row records its slot.
LEMMA InsertRecords ==
  ASSUME TypeOK, SlotInvariant, NEW e \in Executor, InsertResult(e)
  PROVE  Lifecycle!Record(slot[e], raw[e])
<1>1. /\ slot[e] \in Slot /\ results[slot[e]] = NoRow /\ raw[e] \in MonitoringStatus
      /\ incident' = incident
  BY DEF TypeOK, InsertResult, SlotInvariant
<1>2. \A s \in Slot : RawOf(results'[s]) = IF s = slot[e] THEN raw[e] ELSE RawOf(results[s])
  BY <1>1 DEF TypeOK, Rows, InsertResult, RawOf, NoRaw, MonitoringStatus
<1>3. RecordedStatuses[slot[e]] = "none"
  BY <1>1 DEF RecordedStatuses, RawOf, NoRow, NoRaw
<1>4. RecordedStatuses' = [RecordedStatuses EXCEPT ![slot[e]] = raw[e]]
  BY <1>1, <1>2 DEF RecordedStatuses
<1>5. LifecycleStates' = LifecycleStates /\ StartSlots' = StartSlots
  BY <1>1 DEF LifecycleStates, StartSlots, LifecycleState, Active
<1>6. QED
  BY <1>3, <1>4, <1>5 DEF Lifecycle!Record

\* The commit opens an incident: its slot and another failed, no incident is
\* active and none has started there.
LEMMA CommitOpens ==
  ASSUME TypeOK, SlotInvariant, RestInvariant, CreationInvariant, UnusedHaveNoStart,
         NEW e \in Executor, CommitIncident(e)
  PROVE  \E i \in IncidentId, s \in Slot : Lifecycle!Open(i, s)
<1>1. PICK i \in IncidentId :
        ~ Exists(i) /\ incident' = [incident EXCEPT ![i] = [status |-> "open", startedAt |-> slot[e]]]
  BY DEF CommitIncident
<1>2. pc[e] = "commit" /\ Creating(e) /\ results' = results
  BY DEF CommitIncident, Goto, Creating
<1>3. slot[e] \in Slot /\ Rests(slot[e], results)
  BY <1>2 DEF SlotInvariant, RestInvariant
<1>4. ActiveIncidents = {}
  BY <1>2 DEF CreationInvariant
<1>5. LifecycleStates[i] = "none"
  BY <1>1 DEF TypeOK, Incident, IncidentStatus, LifecycleStates, LifecycleState, Active, Exists
<1>6. \A j \in IncidentId : LifecycleStates[j] # "active"
  BY <1>4 DEF ActiveIncidents, LifecycleStates, LifecycleState
<1>7. \A j \in IncidentId : StartSlots[j] # slot[e]
  <2>1. \A j \in IncidentId : Exists(j) => incident[j].startedAt # slot[e]
    BY <1>2 DEF SlotInvariant
  <2>2. NoSlot # slot[e]
    BY <1>3, BoundsAssumption DEF NoSlot, Slot
  <2>3. QED
    BY <2>1, <2>2 DEF UnusedHaveNoStart, StartSlots
<1>8. RecordedStatuses[slot[e]] = "down" /\ \E t \in Slot \ {slot[e]} : RecordedStatuses[t] = "down"
  BY <1>3 DEF Rests, DownSlots, RecordedStatuses
<1>9. LifecycleStates' = [LifecycleStates EXCEPT ![i] = "active"]
  BY <1>1 DEF TypeOK, LifecycleStates, LifecycleState, Active
<1>10. StartSlots' = [StartSlots EXCEPT ![i] = slot[e]]
  BY <1>1 DEF TypeOK, StartSlots
<1>11. RecordedStatuses' = RecordedStatuses
  BY <1>2 DEF RecordedStatuses
<1>12. Lifecycle!Open(i, slot[e])
  BY <1>5, <1>6, <1>7, <1>8, <1>9, <1>10, <1>11 DEF Lifecycle!Open
<1>13. QED
  BY <1>3, <1>12

\* Whoever resolves or closes an existing incident resolves it, or changes
\* nothing that the lifecycle sees.
LEMMA ResolvingResolves ==
  ASSUME TypeOK, NEW i \in IncidentId, Exists(i), NEW status \in {"resolved", "closed"},
         incident' = [incident EXCEPT ![i].status = status], results' = results
  PROVE  Lifecycle!Resolve(i) \/ UNCHANGED Lifecycle!vars
<1>1. StartSlots' = StartSlots /\ RecordedStatuses' = RecordedStatuses
  BY DEF TypeOK, Incident, StartSlots, RecordedStatuses
<1>2. LifecycleStates' = [LifecycleStates EXCEPT ![i] = "resolved"]
  BY DEF TypeOK, Incident, LifecycleStates, LifecycleState, Active
<1>3. LifecycleStates[i] = IF Active(i) THEN "active" ELSE "resolved"
  BY DEF TypeOK, Incident, IncidentStatus, LifecycleStates, LifecycleState, Exists, Active
<1>4. CASE Active(i)
  BY <1>1, <1>2, <1>3, <1>4 DEF Lifecycle!Resolve
<1>5. CASE ~ Active(i)
  <2>1. LifecycleStates' = LifecycleStates
    BY <1>2, <1>3, <1>5 DEF LifecycleStates
  <2>2. QED
    BY <1>1, <2>1 DEF Lifecycle!vars
<1>6. QED
  BY <1>4, <1>5

\* With any number of executors, faults, retries and outlived locks, and staff
\* who resolve and close, the pipeline implements the incident lifecycle: it
\* only ever records a slot, opens an incident on two failures while none is
\* active, and resolves it.
THEOREM LifecycleImplemented ==
  ASSUME StaffTargets \subseteq {"resolved"}
  PROVE  Spec => ImplementsLifecycle
<1>1. Init => Lifecycle!Init
  BY LifecycleInit
<1>2. /\ TypeOK /\ TargetInvariant /\ SlotInvariant /\ RestInvariant
      /\ CreationInvariant /\ UnusedHaveNoStart /\ [Next]_vars
      => [Lifecycle!Next]_(Lifecycle!vars)
  <2> SUFFICES ASSUME TypeOK, TargetInvariant, SlotInvariant, RestInvariant,
                      CreationInvariant, UnusedHaveNoStart, [Next]_vars
               PROVE  Lifecycle!Next \/ UNCHANGED Lifecycle!vars
    OBVIOUS
  <2>1. ASSUME NEW e \in Executor, InsertResult(e)
        PROVE  Lifecycle!Next
    <3>1. slot[e] \in Slot /\ raw[e] \in MonitoringStatus
      BY <2>1 DEF TypeOK, InsertResult, SlotInvariant
    <3>2. QED
      BY <2>1, <3>1, InsertRecords DEF Lifecycle!Next
  <2>2. ASSUME NEW e \in Executor, CommitIncident(e)
        PROVE  Lifecycle!Next
    BY <2>2, CommitOpens DEF Lifecycle!Next
  <2>3. ASSUME NEW e \in Executor, ResolveIncident(e)
        PROVE  Lifecycle!Next \/ UNCHANGED Lifecycle!vars
    <3>1. target[e] \in IncidentId /\ Exists(target[e]) /\ results' = results
      BY <2>3 DEF ResolveIncident, Goto, TargetInvariant, Resolving
    <3>2. incident' = [incident EXCEPT ![target[e]].status = "resolved"]
      BY <2>3 DEF ResolveIncident
    <3>3. QED
      BY <3>1, <3>2, ResolvingResolves DEF Lifecycle!Next
  <2>4. ASSUME NEW p \in Staff, StaffWrites(p)
        PROVE  Lifecycle!Next \/ UNCHANGED Lifecycle!vars
    <3>1. /\ staff[p].id \in IncidentId /\ Exists(staff[p].id) /\ results' = results
          /\ staff[p].op \in {"resolved", "closed"}
      BY <2>4 DEF StaffWrites, TargetInvariant, CreationInvariant
    <3>2. incident' = [incident EXCEPT ![staff[p].id].status = staff[p].op]
      BY <2>4 DEF StaffWrites
    <3>3. QED
      BY <3>1, <3>2, ResolvingResolves DEF Lifecycle!Next
  <2>5. ASSUME NEW e \in Executor, ResolveTickets(e) \/ Announce(e)
        PROVE  UNCHANGED Lifecycle!vars
    BY <2>5, LifecycleStutter DEF ResolveTickets, Announce
  <2>6. CASE UNCHANGED dbVars
    BY <2>6, LifecycleStutter DEF dbVars
  <2>7. QED
    BY <2>1, <2>2, <2>3, <2>4, <2>5, <2>6, DatabaseSteps DEF DatabaseStep
<1>3. QED
  BY <1>1, <1>2, TypeCorrect, TargetsExist, SlotsKept, RestKept, CreationKept, UnusedStay, PTL
  DEF Spec, ImplementsLifecycle, Lifecycle!Spec

-----------------------------------------------------------------------------
(* The rows, newest first *)

\* The rows later than a slot, and the row that has n - 1 of them.
Later(rows, s) == {t \in Recorded(rows) : t > s}
IsNth(rows, n, s) == s \in Recorded(rows) /\ Cardinality(Later(rows, s)) = n - 1

\* Every count has its row.  That a set of n slots has an n-th newest for every n
\* goes by induction over sets; that it stays so when a row is added does not.
Ranked(rows) == \A n \in 1 .. Cardinality(Recorded(rows)) : \E s \in Slot : IsNth(rows, n, s)

\* Recorded rows, and those later than a slot, can be counted.
LEMMA RecordedFinite ==
  ASSUME NEW rows
  PROVE  /\ IsFiniteSet(Recorded(rows)) /\ Cardinality(Recorded(rows)) \in Nat
         /\ \A s : IsFiniteSet(Later(rows, s))
<1>1. IsFiniteSet(Slot)
  BY BoundsAssumption, FS_Interval DEF Slot
<1>2. Recorded(rows) \subseteq Slot
  BY DEF Recorded
<1>3. IsFiniteSet(Recorded(rows))
  BY <1>1, <1>2, FS_Subset
<1>4. \A s : Later(rows, s) \subseteq Recorded(rows)
  BY DEF Later
<1>5. QED
  BY <1>3, <1>4, FS_Subset, FS_CardinalityType

\* The n-th newest row is one and no other.
LEMMA OneNth ==
  ASSUME NEW rows, NEW n \in Nat, NEW s, NEW u, IsNth(rows, n, s), IsNth(rows, n, u)
  PROVE  s = u
<1>1. s \in Int /\ u \in Int
  BY BoundsAssumption DEF IsNth, Recorded, Slot
<1>2. ASSUME NEW a \in Int, NEW b \in Int, IsNth(rows, n, a), IsNth(rows, n, b), a < b
      PROVE  FALSE
  <2>1. Later(rows, b) \subseteq Later(rows, a) /\ b \in Later(rows, a) /\ b \notin Later(rows, b)
    BY <1>2, BoundsAssumption DEF Later, IsNth, Recorded, Slot
  <2>2. Cardinality(Later(rows, a)) = Cardinality(Later(rows, b))
    BY <1>2 DEF IsNth
  <2>3. Later(rows, a) = Later(rows, b)
    BY <2>1, <2>2, RecordedFinite, FS_Subset
  <2>4. QED
    BY <2>1, <2>3
<1>3. QED
  BY <1>1, <1>2

\* What NthNewest chooses is that row.
LEMMA NthIs ==
  ASSUME NEW rows, NEW n \in Nat, NEW s, IsNth(rows, n, s)
  PROVE  NthNewest(rows, n) = s
<1>1. s \in Recorded(rows) /\ Cardinality({t \in Recorded(rows) : t > s}) = n - 1
  BY DEF IsNth, Later
<1>2. IsNth(rows, n, NthNewest(rows, n))
  BY <1>1 DEF NthNewest, IsNth, Later
<1>3. QED
  BY <1>2, OneNth

\* A row newer than all others is the first and moves every other one place back.
FirstOf(more, s, rows) ==
  /\ Cardinality(Recorded(more)) = Cardinality(Recorded(rows)) + 1
  /\ Ranked(more)
  /\ NthNewest(more, 1) = s
  /\ \A n \in 1 .. Cardinality(Recorded(rows)) :
       /\ NthNewest(more, n + 1) = NthNewest(rows, n)
       /\ NthNewest(rows, n) \in Recorded(rows)

LEMMA NewestFirst ==
  ASSUME NEW rows \in Rows, NEW s \in Slot, NEW row \in Row, row # NoRow, rows[s] = NoRow, Ranked(rows),
         \A t \in Recorded(rows) : t < s,
         NEW more, more = [rows EXCEPT ![s] = row]
  PROVE  FirstOf(more, s, rows)
<1> DEFINE count == Cardinality(Recorded(rows))
<1>1. Recorded(more) = Recorded(rows) \cup {s} /\ s \notin Recorded(rows)
  BY DEF Recorded, Rows
<1>2. Cardinality(Recorded(more)) = count + 1
  <2>1. IsFiniteSet(Recorded(rows))
    BY RecordedFinite
  <2>2. Cardinality(Recorded(rows) \cup {s}) = count + 1
    BY <1>1, <2>1, FS_AddElement
  <2>3. QED
    BY <1>1, <2>2
<1>3. Later(more, s) = {}
  BY <1>1, BoundsAssumption DEF Later, Recorded, Slot
<1>4. IsNth(more, 1, s)
  <2>1. Cardinality(Later(more, s)) = 0
    BY <1>3, FS_EmptySet
  <2>2. s \in Recorded(more)
    BY <1>1
  <2>3. QED
    BY <2>1, <2>2 DEF IsNth
<1>5. ASSUME NEW n \in 1 .. count
      PROVE  \E t \in Slot : t \in Recorded(rows) /\ IsNth(rows, n, t) /\ IsNth(more, n + 1, t)
  <2>1. PICK t \in Slot : IsNth(rows, n, t)
    BY <1>5 DEF Ranked
  <2>2. t \in Recorded(rows)
    BY <2>1 DEF IsNth
  <2>3. Later(more, t) = Later(rows, t) \cup {s} /\ s \notin Later(rows, t)
    BY <1>1, <2>2, BoundsAssumption DEF Later, Recorded, Slot
  <2>4. IsFiniteSet(Later(rows, t))
    BY RecordedFinite
  <2>5. Cardinality(Later(rows, t) \cup {s}) = Cardinality(Later(rows, t)) + 1
    BY <2>3, <2>4, FS_AddElement
  <2>6. Cardinality(Later(rows, t)) = n - 1
    BY <2>1 DEF IsNth
  <2>7. IsNth(more, n + 1, t)
    <3>1. Cardinality(Later(more, t)) = n
      <4>1. Cardinality(Later(more, t)) = (n - 1) + 1
        BY <2>3, <2>5, <2>6
      <4>2. QED
        BY <4>1
    <3>2. t \in Recorded(more)
      BY <1>1, <2>2
    <3>3. QED
      BY <3>1, <3>2 DEF IsNth
  <2>8. QED
    BY <2>1, <2>2, <2>7
<1>6. count \in Nat
  BY RecordedFinite
<1> HIDE DEF count
<1>7. Ranked(more)
  <2>1. SUFFICES ASSUME NEW n \in 1 .. count + 1
                 PROVE  \E t \in Slot : IsNth(more, n, t)
    BY <1>2 DEF Ranked
  <2>2. CASE n = 1
    BY <1>4, <2>2
  <2>3. CASE n # 1
    <3>1. n - 1 \in 1 .. count /\ (n - 1) + 1 = n
      BY <1>6, <2>3
    <3>2. QED
      BY <1>5, <3>1
  <2>4. QED
    BY <2>2, <2>3
<1>8. NthNewest(more, 1) = s
  BY <1>4, NthIs
<1>9. ASSUME NEW n \in 1 .. count
      PROVE  NthNewest(more, n + 1) = NthNewest(rows, n) /\ NthNewest(rows, n) \in Recorded(rows)
  <2>1. PICK t \in Slot : t \in Recorded(rows) /\ IsNth(rows, n, t) /\ IsNth(more, n + 1, t)
    BY <1>5
  <2>2. NthNewest(rows, n) = t /\ NthNewest(more, n + 1) = t
    BY <1>6, <2>1, NthIs
  <2>3. QED
    BY <2>1, <2>2
<1>10. QED
  BY <1>2, <1>7, <1>8, <1>9 DEF FirstOf, count

-----------------------------------------------------------------------------
(* The sequential rules are the pipeline's *)

\* The sequential module's copy of the rules is the pipeline's.
LEMMA SameRules ==
  /\ \A recent, hasActive :
       Sequential!EvaluateIncidentRules(recent, hasActive) = EvaluateIncidentRules(recent, hasActive)
  /\ \A status, action :
       Sequential!ApplyCardStatusOverride(status, action) = ApplyCardStatusOverride(status, action)
<1>1. Sequential!MonitoringStatus = MonitoringStatus /\ Sequential!NoCard = NoCard
  BY DEF Sequential!MonitoringStatus, MonitoringStatus, Sequential!NoCard, NoCard
<1>2. /\ \A status : Sequential!IsFailureStatus(status) = IsFailureStatus(status)
      /\ \A status : Sequential!IsSuccessStatus(status) = IsSuccessStatus(status)
  BY Zenon DEF Sequential!IsFailureStatus, IsFailureStatus, Sequential!IsSuccessStatus, IsSuccessStatus
<1>3. /\ Sequential!FailureStatuses = FailureStatuses
      /\ Sequential!SuccessStatuses = SuccessStatuses
  BY <1>1, <1>2 DEF Sequential!FailureStatuses, FailureStatuses, Sequential!SuccessStatuses, SuccessStatuses
<1>4. \A statuses, wanted : Sequential!CountLeading(statuses, wanted) = CountLeading(statuses, wanted)
  <2>1. ASSUME NEW statuses, NEW wanted
        PROVE  Sequential!CountLeading(statuses, wanted) = CountLeading(statuses, wanted)
    BY DEF Sequential!CountLeading, CountLeading, Sequential!Cardinality, Cardinality
  <2>2. QED
    BY <2>1
<1>5. \A type, card : Sequential!RuleAction(type, card) = RuleAction(type, card)
  BY Zenon DEF Sequential!RuleAction, RuleAction
<1>6. ASSUME NEW recent, NEW hasActive
      PROVE  Sequential!EvaluateIncidentRules(recent, hasActive) = EvaluateIncidentRules(recent, hasActive)
  BY <1>1, <1>3, <1>4, <1>5 DEF Sequential!EvaluateIncidentRules, EvaluateIncidentRules
<1>7. ASSUME NEW status, NEW action
      PROVE  Sequential!ApplyCardStatusOverride(status, action) = ApplyCardStatusOverride(status, action)
  BY <1>2 DEF Sequential!ApplyCardStatusOverride, ApplyCardStatusOverride
<1>8. QED
  BY <1>6, <1>7

\* The probe shown to the sequential rules is one of theirs and derives to the status read.
LEMMA ProbesDerive ==
  ASSUME NEW status \in MonitoringStatus
  PROVE  /\ ProbeOf(status) \in Sequential!ProbeResult({NoResponseTime, SlowThresholdMs})
         /\ Sequential!DeriveCheckStatus(ProbeOf(status)) = status
<1> DEFINE probe == ProbeOf(status)
<1>1. /\ probe.probeAborted <=> status = "unknown"
      /\ ~ probe.infrastructureFailure
      /\ probe.httpOk <=> status # "down"
      /\ probe.responseTimeMs = IF status = "warning" THEN 5000 ELSE -1
  BY DEF ProbeOf, NoResponseTime, SlowThresholdMs
<1>2. probe \in Sequential!ProbeResult({NoResponseTime, SlowThresholdMs})
  BY DEF ProbeOf, Sequential!ProbeResult
<1> HIDE DEF probe
<1>3. Sequential!DeriveCheckStatus(probe) = status
  <2>1. CASE status = "unknown"
    BY <1>1, <2>1 DEF Sequential!DeriveCheckStatus
  <2>2. CASE status = "down"
    BY <1>1, <2>2 DEF Sequential!DeriveCheckStatus
  <2>3. CASE status = "warning"
    BY <1>1, <2>3 DEF Sequential!DeriveCheckStatus, Sequential!NoResponseTime, Sequential!SlowThresholdMs
  <2>4. CASE status = "normal"
    BY <1>1, <2>4 DEF Sequential!DeriveCheckStatus, Sequential!NoResponseTime, Sequential!SlowThresholdMs
  <2>5. QED
    BY <2>1, <2>2, <2>3, <2>4 DEF MonitoringStatus
<1>4. QED
  BY <1>2, <1>3 DEF probe

-----------------------------------------------------------------------------
(* One undisturbed executor *)

\* One executor, no staff, no faults and no old rows.
Undisturbed(e) ==
  /\ Executor = {e} /\ Staff = {}
  /\ MaxFaults = 0 /\ LegacySlots = 0

\* The executor holds nothing; a job waits.
Idle(e) == pc[e] = "idle"
Waits(s) == job[s].state = "waiting"

\* The one active job is the executor's, and none is ever delayed.
QueueInvariant(e) ==
  /\ ~ failed[e]
  /\ lock = e => Inside(e)
  /\ ~ Idle(e) => slot[e] \in Slot
  /\ \A s \in Slot :
       /\ job[s].state # "delayed"
       /\ job[s].state # "absent" => s <= now
       /\ job[s].state = "active" <=> ~ Idle(e) /\ slot[e] = s
       /\ job[s].state = "active" => job[s].owner = e

\* Slots are checked in order: none that waits is older than one recorded or in hand.
OrderInvariant(e) ==
  /\ \A t \in Recorded(results) : t <= now /\ (~ Idle(e) => t <= slot[e])
  /\ \A s \in Slot : Waits(s) =>
       /\ \A t \in Recorded(results) : t <= s
       /\ ~ Idle(e) => slot[e] <= s

\* The only steps are the clock's, the queue's and the executor's, and it always gets the lock.
LEMMA UndisturbedSteps ==
  ASSUME TypeOK, NEW e \in Executor, Undisturbed(e), QueueInvariant(e), [Next]_vars
  PROVE  \/ ReleaseSlot \/ ReleaseAgain \/ ExpireLock \/ UNCHANGED vars
         \/ \E s \in Slot : StartJob(e, s) \/ SkipLate(e, s)
         \/ Proceed(e) /\ ~ DelayBusy(e)
<1>1. ~ Throw(e) /\ ~ Crash(e)
  BY DEF TypeOK, Undisturbed, Throw, Crash
<1>2. ASSUME NEW s \in Slot
      PROVE  ~ Stall(s)
  BY DEF TypeOK, Undisturbed, QueueInvariant, Stall, OwnerGone
<1>3. ~ DelayBusy(e)
  BY DEF TypeOK, Undisturbed, QueueInvariant, DelayBusy, Inside, Guarded
<1>4. ~ \E p \in Staff : StaffReads(p) \/ StaffWrites(p)
  BY DEF Undisturbed
<1>5. \A f \in Executor : f = e
  BY DEF Undisturbed
<1>6. QED
  BY <1>1, <1>2, <1>3, <1>4, <1>5 DEF Next, Take, HorizonReached

\* A job in hand is settled without being delayed.
LEMMA SettlesOwn ==
  ASSUME TypeOK, NEW e \in Executor, QueueInvariant(e), ~ Idle(e), Settle(e, "completed")
  PROVE  job' = [job EXCEPT ![slot[e]] = NewJob("completed")]
BY DEF QueueInvariant, Settle

\* Every step keeps the one active job the one in hand.
LEMMA QueueKept ==
  ASSUME TypeOK, NEW e \in Executor, Undisturbed(e), QueueInvariant(e), [Next]_vars
  PROVE  QueueInvariant(e)'
<1>1. CASE ReleaseSlot \/ ReleaseAgain
  <2>1. /\ pc' = pc /\ slot' = slot /\ failed' = failed /\ lock' = lock
        /\ now' \in {now, now + 1}
        /\ \/ job' = job
           \/ \E s \in Slot : s <= now' /\ job[s].state # "active" /\ job' = [job EXCEPT ![s] = NewJob("waiting")]
    <3>1. CASE ReleaseSlot
      <4>1. CASE now < MaxSlot
        <5>1. now + 1 \in Slot /\ ~ (now + 1 <= now)
          BY <4>1, BoundsAssumption DEF TypeOK, Slot
        <5>2. job[now + 1].state # "active" /\ now' = now + 1 /\ job' = [job EXCEPT ![now + 1] = NewJob("waiting")]
          BY <3>1, <4>1, <5>1 DEF ReleaseSlot, QueueInvariant
        <5>3. now + 1 <= now'
          BY <5>2 DEF TypeOK
        <5>4. QED
          BY <3>1, <5>1, <5>2, <5>3 DEF ReleaseSlot, localVars, lockVars
      <4>2. CASE ~ (now < MaxSlot)
        BY <3>1, <4>2 DEF ReleaseSlot, localVars, lockVars
      <4>3. QED
        BY <4>1, <4>2
    <3>2. CASE ReleaseAgain
      <4>1. now \in Slot /\ now <= now /\ job[now].state # "active" /\ now' = now
            /\ job' = [job EXCEPT ![now] = NewJob("waiting")]
        BY <3>2 DEF TypeOK, ReleaseAgain, Slot
      <4>2. QED
        BY <3>2, <4>1 DEF ReleaseAgain, localVars, lockVars
    <3>3. QED
      BY <1>1, <3>1, <3>2
  <2>2. QED
    BY <2>1, BoundsAssumption DEF TypeOK, QueueInvariant, Idle, Inside, NewJob, Slot
<1>2. ASSUME NEW s \in Slot, StartJob(e, s)
      PROVE  QueueInvariant(e)'
  BY <1>2 DEF TypeOK, QueueInvariant, Idle, Inside, Guarded, StartJob, Ready, lockVars, Job
<1>3. ASSUME NEW s \in Slot, SkipLate(e, s)
      PROVE  QueueInvariant(e)'
  BY <1>3 DEF TypeOK, QueueInvariant, Idle, Inside, SkipLate, Ready, lockVars, localVars, NewJob
<1>4. CASE SkipRecorded(e) \/ ReleaseWebsiteLock(e)
  <2>1. ~ Idle(e) /\ Settle(e, "completed") /\ GoIdle(e) /\ now' = now /\ lock' # e
    <3>1. CASE SkipRecorded(e)
      BY <3>1 DEF QueueInvariant, SkipRecorded, Idle, Inside, Guarded, lockVars
    <3>2. CASE ReleaseWebsiteLock(e)
      BY <3>2, NamesAssumption DEF QueueInvariant, ReleaseWebsiteLock, Idle
    <3>3. QED
      BY <1>4, <3>1, <3>2
  <2>2. job' = [job EXCEPT ![slot[e]] = NewJob("completed")]
    BY <2>1, SettlesOwn
  <2>3. QED
    BY <2>1, <2>2 DEF TypeOK, QueueInvariant, Idle, GoIdle, NewJob
<1>5. CASE Proceed(e) /\ ~ SkipRecorded(e) /\ ~ ReleaseWebsiteLock(e) /\ ~ DelayBusy(e)
  <2>1. CASE NotRecorded(e) \/ AcquireWebsiteLock(e) \/ SkipInactive(e) \/ RunProbes(e) \/ ReadPrevious(e)
    BY <2>1 DEF TypeOK, QueueInvariant, Idle, Inside, Guarded, NotRecorded, AcquireWebsiteLock, SkipInactive,
         RunProbes, ReadPrevious, Goto, Step, localVars, lockVars
  <2>2. CASE ReadActiveIncident(e) \/ ResultAlreadyExists(e)
    BY <2>2 DEF TypeOK, QueueInvariant, Idle, Inside, Guarded, ReadActiveIncident, ResultAlreadyExists,
         Goto, Step, localVars, lockVars
  <2>3. CASE InsertResult(e)
    <3>1. AfterInsert(e) \in {"advisory", "resolve", "release"}
      BY DEF AfterInsert
    <3>2. pc[e] = "insert" /\ pc'[e] \in {"advisory", "resolve", "release"}
      BY <2>3, <3>1 DEF TypeOK, InsertResult
    <3>3. QED
      BY <2>3, <3>2 DEF QueueInvariant, Idle, Inside, Guarded, InsertResult, Step, localVars, lockVars
  <2>4. CASE BeginCreate(e) \/ SkipDuplicateIncident(e) \/ NoActiveIncident(e)
    BY <2>4 DEF TypeOK, QueueInvariant, Idle, Inside, Guarded, BeginCreate, SkipDuplicateIncident,
         NoActiveIncident, Goto, Step, localVars, lockVars
  <2>5. CASE CommitIncident(e) \/ ResolveIncident(e) \/ ResolveTickets(e)
    BY <2>5 DEF TypeOK, QueueInvariant, Idle, Inside, Guarded, CommitIncident, ResolveIncident, ResolveTickets,
         Goto, Step, localVars, lockVars
  <2>6. CASE Announce(e) \/ AllAnnounced(e)
    BY <2>6 DEF TypeOK, QueueInvariant, Idle, Inside, Guarded, Announce, AllAnnounced,
         Goto, Step, localVars, lockVars
  <2>7. QED
    BY <1>5, <2>1, <2>2, <2>3, <2>4, <2>5, <2>6 DEF Proceed
<1>6. CASE ExpireLock \/ UNCHANGED vars
  BY <1>6, NamesAssumption DEF QueueInvariant, Idle, Inside, ExpireLock, localVars, vars
<1>7. QED
  BY <1>1, <1>2, <1>3, <1>4, <1>5, <1>6, UndisturbedSteps

\* The executor's own steps leave the clock alone, never queue a job, and record its slot only.
LEMMA HandlerInOrder ==
  ASSUME TypeOK, NEW e \in Executor, QueueInvariant(e), Proceed(e), ~ DelayBusy(e)
  PROVE  /\ ~ Idle(e) /\ now' = now
         /\ \A s \in Slot : Waits(s)' => Waits(s)
         /\ ~ Idle(e)' => slot'[e] = slot[e]
         /\ Recorded(results') \subseteq Recorded(results) \cup {slot[e]}
<1>1. CASE SkipRecorded(e) \/ ReleaseWebsiteLock(e)
  <2>1. ~ Idle(e) /\ Settle(e, "completed") /\ Idle(e)' /\ now' = now /\ results' = results
    BY <1>1 DEF TypeOK, QueueInvariant, SkipRecorded, ReleaseWebsiteLock, Idle, GoIdle, dbVars
  <2>2. job' = [job EXCEPT ![slot[e]] = NewJob("completed")]
    BY <2>1, SettlesOwn
  <2>3. QED
    BY <2>1, <2>2 DEF TypeOK, Waits, NewJob
<1>2. CASE InsertResult(e)
  <2>1. ~ Idle(e) /\ now' = now /\ job' = job /\ slot' = slot
    BY <1>2 DEF InsertResult, Idle, localVars
  <2>2. \A s \in Slot : s # slot[e] => results'[s] = results[s]
    BY <1>2 DEF InsertResult, TypeOK, Rows
  <2>3. QED
    BY <2>1, <2>2 DEF Waits, Recorded
<1>3. CASE ~ SkipRecorded(e) /\ ~ ReleaseWebsiteLock(e) /\ ~ InsertResult(e)
  <2>1. CASE NotRecorded(e) \/ AcquireWebsiteLock(e) \/ SkipInactive(e) \/ RunProbes(e) \/ ReadPrevious(e)
             \/ ReadActiveIncident(e) \/ ResultAlreadyExists(e)
    BY <2>1 DEF Idle, Waits, NotRecorded, AcquireWebsiteLock, SkipInactive, RunProbes, ReadPrevious,
         ReadActiveIncident, ResultAlreadyExists, Goto, localVars, dbVars
  <2>2. CASE BeginCreate(e) \/ SkipDuplicateIncident(e) \/ NoActiveIncident(e)
             \/ CommitIncident(e) \/ ResolveIncident(e) \/ ResolveTickets(e) \/ Announce(e) \/ AllAnnounced(e)
    BY <2>2 DEF Idle, Waits, BeginCreate, SkipDuplicateIncident, NoActiveIncident, CommitIncident,
         ResolveIncident, ResolveTickets, Announce, AllAnnounced, Goto, localVars, dbVars
  <2>3. QED
    BY <1>3, <2>1, <2>2 DEF Proceed
<1>4. QED
  BY <1>1, <1>2, <1>3

\* Every step keeps the slots in order.
LEMMA OrderKept ==
  ASSUME TypeOK, NEW e \in Executor, Undisturbed(e), QueueInvariant(e), OrderInvariant(e), [Next]_vars
  PROVE  OrderInvariant(e)'
<1>1. now \in Int /\ slot[e] \in Int /\ \A s \in Slot : s \in Int
  BY BoundsAssumption DEF TypeOK, Slot
<1>2. ~ Idle(e) => slot[e] <= now
  BY DEF QueueInvariant
<1>3. CASE ReleaseSlot \/ ReleaseAgain
  <2>1. /\ pc' = pc /\ slot' = slot /\ results' = results
        /\ now' \in {now, now + 1}
        /\ \A s \in Slot : Waits(s)' => Waits(s) \/ now <= s
    <3>1. CASE ReleaseSlot
      BY <1>1, <3>1 DEF TypeOK, ReleaseSlot, Waits, localVars, dbVars
    <3>2. CASE ReleaseAgain
      BY <1>1, <3>2 DEF TypeOK, ReleaseAgain, Waits, localVars, dbVars
    <3>3. QED
      BY <1>3, <3>1, <3>2
  <2>2. Recorded(results') \subseteq Slot
    BY DEF Recorded
  <2>3. QED
    BY <1>1, <1>2, <2>1, <2>2 DEF OrderInvariant, Idle
<1>4. ASSUME NEW s \in Slot, StartJob(e, s)
      PROVE  OrderInvariant(e)'
  <2>1. /\ Idle(e) /\ Waits(s) /\ \A t \in Slot : Waits(t) => s <= t
        /\ slot'[e] = s /\ now' = now /\ results' = results
        /\ \A t \in Slot : Waits(t)' => Waits(t)
    BY <1>4 DEF TypeOK, QueueInvariant, StartJob, Ready, Waits, Idle, dbVars
  <2>2. QED
    BY <2>1 DEF OrderInvariant
<1>5. ASSUME NEW s \in Slot, SkipLate(e, s)
      PROVE  OrderInvariant(e)'
  <2>1. /\ pc' = pc /\ slot' = slot /\ now' = now /\ results' = results
        /\ \A t \in Slot : Waits(t)' => Waits(t)
    BY <1>5 DEF TypeOK, SkipLate, Waits, NewJob, localVars, dbVars
  <2>2. QED
    BY <2>1 DEF OrderInvariant, Idle
<1>6. CASE Proceed(e) /\ ~ DelayBusy(e)
  <2>1. slot[e] <= slot[e]
    BY <1>1
  <2>2. QED
    BY <1>2, <1>6, <2>1, HandlerInOrder DEF OrderInvariant
<1>7. CASE ExpireLock \/ UNCHANGED vars
  BY <1>7 DEF OrderInvariant, Idle, Waits, ExpireLock, localVars, dbVars, vars
<1>8. QED
  BY <1>3, <1>4, <1>5, <1>6, <1>7, UndisturbedSteps

\* What a check knows is so: the rows and the incident are as it read them, its slot is free
\* until it records it, and its plan fits them.
PlanFits(e) ==
  /\ plan[e] = EvaluateIncidentRules(RecentForRules(raw[e], results), ActiveIncidents # {})
  /\ plan[e].type = "resolve_incident" => target[e] \in ActiveIncidents
CheckInvariant(e) ==
  /\ pc[e] \in {"active", "insert"} => seen[e] = results
  /\ pc[e] \in {"lock", "probe", "previous", "active", "insert"} => results[slot[e]] = NoRow
  /\ pc[e] = "insert" => PlanFits(e)
  /\ pc[e] = "resolve" => target[e] \in ActiveIncidents
  /\ Creating(e) => ActiveIncidents = {}
  /\ AtMostOneActive

\* The rules create an incident only when none is active.
LEMMA CreateNeedsNone ==
  ASSUME NEW recent, NEW hasActive \in BOOLEAN,
         EvaluateIncidentRules(recent, hasActive).type = "create_incident"
  PROVE  ~ hasActive
BY DEF EvaluateIncidentRules, RuleAction

\* Who is active changes when an incident is opened or resolved.
LEMMA CommitActivates ==
  ASSUME TypeOK, NEW e \in Executor, CommitIncident(e), ActiveIncidents = {}
  PROVE  \E i \in IncidentId : ~ Exists(i) /\ ActiveIncidents' = {i}
           /\ {j \in IncidentId : Exists(j)}' = {j \in IncidentId : Exists(j)} \cup {i}
<1>1. PICK i \in IncidentId : ~ Exists(i) /\ incident' = [incident EXCEPT ![i] = [status |-> "open", startedAt |-> slot[e]]]
  BY DEF CommitIncident
<1>2. ~ Exists(i) /\ Exists(i)' /\ Active(i)'
  BY <1>1 DEF TypeOK, Exists, Active
<1>3. \A j \in IncidentId \ {i} : (Exists(j)' <=> Exists(j)) /\ (Active(j)' <=> Active(j))
  BY <1>1 DEF TypeOK, Exists, Active
<1>4. QED
  BY <1>2, <1>3 DEF ActiveIncidents

\* The resolve leaves no incident active, and none opened or lost.
LEMMA ResolveSettles ==
  ASSUME TypeOK, NEW e \in Executor, ResolveIncident(e), target[e] \in ActiveIncidents, AtMostOneActive
  PROVE  /\ ActiveIncidents' = {}
         /\ {j \in IncidentId : Exists(j)}' = {j \in IncidentId : Exists(j)}
<1>1. PICK i \in IncidentId : i = target[e]
  BY DEF ActiveIncidents
<1>2. Active(i) /\ \A j \in IncidentId \ {i} : ~ Active(j)
  BY <1>1 DEF ActiveIncidents, AtMostOneActive
<1>3. /\ incident'[i] = [incident[i] EXCEPT !.status = "resolved"]
      /\ \A j \in IncidentId \ {i} : incident'[j] = incident[j]
  BY <1>1 DEF TypeOK, ResolveIncident
<1>4. incident'[i].status = "resolved"
  BY <1>3 DEF TypeOK, Incident
<1>5. \A j \in IncidentId : (Exists(j)' <=> Exists(j)) /\ ~ Active(j)'
  BY <1>2, <1>3, <1>4 DEF Exists, Active
<1>6. QED
  BY <1>5 DEF ActiveIncidents

\* Every step keeps what the check in hand knows true.
LEMMA CheckKept ==
  ASSUME TypeOK, NEW e \in Executor, Undisturbed(e), QueueInvariant(e), CheckInvariant(e), [Next]_vars
  PROVE  CheckInvariant(e)'
<1>1. CASE Keeps(e) /\ UNCHANGED dbVars
  BY <1>1 DEF CheckInvariant, PlanFits, Keeps, dbVars, Creating, AtMostOneActive, ActiveIncidents, Active
<1>2. ASSUME NEW s \in Slot, StartJob(e, s)
      PROVE  CheckInvariant(e)'
  BY <1>2 DEF TypeOK, StartJob, CheckInvariant, dbVars, Creating, AtMostOneActive, ActiveIncidents, Active
<1>3. ASSUME NEW s \in Slot, SkipLate(e, s)
      PROVE  CheckInvariant(e)'
  BY <1>1, <1>3 DEF SkipLate, Keeps, localVars
<1>4. CASE Proceed(e) /\ ~ DelayBusy(e)
  <2>1. CASE SkipRecorded(e) \/ ReleaseWebsiteLock(e)
    BY <2>1 DEF TypeOK, SkipRecorded, ReleaseWebsiteLock, GoIdle, CheckInvariant, dbVars, Creating,
         AtMostOneActive, ActiveIncidents, Active
  <2>2. CASE NotRecorded(e) \/ AcquireWebsiteLock(e) \/ SkipInactive(e) \/ RunProbes(e) \/ ReadPrevious(e)
    BY <2>2 DEF TypeOK, NotRecorded, AcquireWebsiteLock, SkipInactive, RunProbes, ReadPrevious, Goto,
         CheckInvariant, localVars, dbVars, Creating, AtMostOneActive, ActiveIncidents, Active
  <2>3. CASE ReadActiveIncident(e)
    <3>1. /\ pc[e] = "active" /\ pc'[e] = "insert" /\ slot' = slot /\ raw' = raw /\ seen' = seen
          /\ results' = results /\ incident' = incident
      BY <2>3 DEF TypeOK, ReadActiveIncident, Goto, dbVars
    <3>2. plan'[e] = EvaluateIncidentRules(RecentForRules(raw[e], results), ActiveIncidents # {})
      BY <2>3, <3>1 DEF TypeOK, ReadActiveIncident, CheckInvariant
    <3>3. ActiveIncidents' = ActiveIncidents /\ AtMostOneActive'
      BY <3>1 DEF CheckInvariant, AtMostOneActive, ActiveIncidents, Active
    <3>4. ActiveIncidents # {} => target'[e] \in ActiveIncidents
      BY <2>3 DEF TypeOK, ReadActiveIncident, NewestActive
    <3>5. PlanFits(e)'
      BY <3>1, <3>2, <3>3, <3>4, ResolveNeedsActive DEF PlanFits
    <3>6. QED
      BY <3>1, <3>3, <3>5 DEF CheckInvariant, Creating
  <2>4. CASE InsertResult(e)
    <3>1. pc[e] = "insert" /\ pc'[e] = AfterInsert(e) /\ plan' = plan /\ target' = target /\ incident' = incident
      BY <2>4 DEF TypeOK, InsertResult, localVars
    <3>2. ActiveIncidents' = ActiveIncidents /\ AtMostOneActive'
      BY <3>1 DEF CheckInvariant, AtMostOneActive, ActiveIncidents, Active
    <3>3. plan[e].type = "create_incident" => ActiveIncidents = {}
      BY <3>1, CreateNeedsNone DEF CheckInvariant, PlanFits
    <3>4. plan[e].type = "resolve_incident" => target[e] \in ActiveIncidents
      BY <3>1 DEF CheckInvariant, PlanFits
    <3>5. \/ pc'[e] = "advisory" /\ plan[e].type = "create_incident"
          \/ pc'[e] = "resolve" /\ plan[e].type = "resolve_incident"
          \/ pc'[e] = "release"
      BY <3>1 DEF AfterInsert
    <3>6. QED
      BY <3>1, <3>2, <3>3, <3>4, <3>5 DEF CheckInvariant, Creating
  <2>5. CASE ResultAlreadyExists(e) \/ BeginCreate(e) \/ SkipDuplicateIncident(e) \/ NoActiveIncident(e)
    BY <2>5 DEF TypeOK, ResultAlreadyExists, BeginCreate, SkipDuplicateIncident, NoActiveIncident, Goto,
         CheckInvariant, localVars, dbVars, Creating, AtMostOneActive, ActiveIncidents, Active
  <2>6. CASE CommitIncident(e)
    <3>1. pc[e] = "commit" /\ pc'[e] = "announce"
      BY <2>6 DEF TypeOK, CommitIncident, Goto
    <3>2. PICK i \in IncidentId : ActiveIncidents' = {i}
      BY <2>6, <3>1, CommitActivates DEF CheckInvariant, Creating
    <3>3. QED
      BY <3>1, <3>2 DEF CheckInvariant, Creating, AtMostOneActive
  <2>7. CASE ResolveIncident(e)
    <3>1. pc[e] = "resolve" /\ pc'[e] = "tickets"
      BY <2>7 DEF TypeOK, ResolveIncident, Goto
    <3>2. ActiveIncidents' = {}
      BY <2>7, <3>1, ResolveSettles DEF CheckInvariant
    <3>3. QED
      BY <3>1, <3>2 DEF CheckInvariant, Creating, AtMostOneActive
  <2>8. CASE ResolveTickets(e) \/ Announce(e) \/ AllAnnounced(e)
    BY <2>8 DEF TypeOK, ResolveTickets, Announce, AllAnnounced, Goto,
         CheckInvariant, localVars, dbVars, Creating, AtMostOneActive, ActiveIncidents, Active
  <2>9. QED
    BY <1>4, <2>1, <2>2, <2>3, <2>4, <2>5, <2>6, <2>7, <2>8 DEF Proceed
<1>5. CASE ReleaseSlot \/ ReleaseAgain \/ ExpireLock \/ UNCHANGED vars
  BY <1>1, <1>5 DEF ReleaseSlot, ReleaseAgain, ExpireLock, Keeps, localVars, vars, dbVars
<1>6. QED
  BY <1>2, <1>3, <1>4, <1>5, UndisturbedSteps

-----------------------------------------------------------------------------
(* The pipeline's steps as sequential checks *)

\* The incidents opened can be counted, and so can the rows by age.
CountInvariant == IsFiniteSet(OpenedIncidents) /\ Ranked(results)

\* The inductive invariant: queue, order, check and counts together.
SoleInvariant(e) == QueueInvariant(e) /\ OrderInvariant(e) /\ CheckInvariant(e) /\ CountInvariant

\* An insert records a slot that is newer than all recorded ones.
LEMMA InsertIsNewest ==
  ASSUME TypeOK, NEW e \in Executor, SoleInvariant(e), InsertResult(e)
  PROVE  /\ RecordedCount' = RecordedCount + 1 /\ RecordedCount \in Nat /\ RecordedCount' <= MaxSlot
         /\ Ranked(results')
         /\ NthNewest(results', 1) = slot[e]
         /\ results'[slot[e]].rawStatus = raw[e]
         /\ results'[slot[e]].status = ApplyCardStatusOverride(raw[e], plan[e])
         /\ \A n \in 1 .. RecordedCount :
              /\ NthNewest(results', n + 1) = NthNewest(results, n)
              /\ results'[NthNewest(results, n)] = results[NthNewest(results, n)]
<1> DEFINE row == [rawStatus |-> raw[e], status |-> ApplyCardStatusOverride(raw[e], plan[e]),
                   checkedAt |-> Cardinality(Recorded(seen[e]))]
<1>1. /\ pc[e] = "insert" /\ slot[e] \in Slot /\ results[slot[e]] = NoRow
      /\ results' = [results EXCEPT ![slot[e]] = row]
  BY DEF InsertResult, SoleInvariant, QueueInvariant, Idle
<1>2. row \in Row /\ row # NoRow
  <2>1. Cardinality(Recorded(seen[e])) \in 0 .. MaxSlot
    BY RecordedBound
  <2>2. raw[e] \in MonitoringStatus /\ ApplyCardStatusOverride(raw[e], plan[e]) \in MonitoringStatus
    BY OverrideType DEF TypeOK
  <2>3. QED
    BY <2>1, <2>2 DEF Row, NoRow, NoRaw, MonitoringStatus
<1>3. row.rawStatus = raw[e] /\ row.status = ApplyCardStatusOverride(raw[e], plan[e])
  OBVIOUS
<1> HIDE DEF row
<1>4. \A t \in Recorded(results) : t < slot[e]
  <2>1. SUFFICES ASSUME NEW t \in Recorded(results) PROVE t < slot[e]
    OBVIOUS
  <2>2. t <= slot[e] /\ t # slot[e]
    BY <1>1 DEF SoleInvariant, OrderInvariant, Idle, Recorded
  <2>3. QED
    BY <1>1, <2>2, BoundsAssumption DEF Recorded, Slot
<1>5. results \in Rows /\ Ranked(results)
  BY DEF TypeOK, SoleInvariant, CountInvariant
<1>6. FirstOf(results', slot[e], results)
  BY <1>1, <1>2, <1>4, <1>5, NewestFirst
<1>7. \A t \in Recorded(results) : results'[t] = results[t]
  BY <1>1, <1>5 DEF Recorded, Rows
<1>8. results'[slot[e]] = row
  BY <1>1, <1>5 DEF Rows
<1>9. RecordedCount \in Nat /\ RecordedCount' \in 0 .. MaxSlot
  BY RecordedBound, BoundsAssumption DEF RecordedCount
<1>10. QED
  BY <1>3, <1>6, <1>7, <1>8, <1>9 DEF FirstOf, RecordedCount

\* An insert adds the first row of a ranked history, and an opening one incident.
LEMMA CountKept ==
  ASSUME TypeOK, NEW e \in Executor, Undisturbed(e), SoleInvariant(e), [Next]_vars
  PROVE  CountInvariant'
<1>1. Ranked(results)'
  <2>1. CASE results' = results
    BY <2>1 DEF SoleInvariant, CountInvariant
  <2>2. CASE InsertResult(e)
    BY <2>2, InsertIsNewest
  <2>3. QED
    BY <2>1, <2>2, DatabaseWriters DEF Undisturbed
<1>2. IsFiniteSet(OpenedIncidents)'
  <2>1. CASE incident' = incident
    BY <2>1 DEF SoleInvariant, CountInvariant, OpenedIncidents, Exists
  <2>2. CASE CommitIncident(e)
    <3>1. ActiveIncidents = {}
      BY <2>2 DEF CommitIncident, Goto, SoleInvariant, CheckInvariant, Creating
    <3>2. PICK i \in IncidentId : OpenedIncidents' = OpenedIncidents \cup {i}
      BY <2>2, <3>1, CommitActivates DEF OpenedIncidents
    <3>3. IsFiniteSet(OpenedIncidents \cup {i})
      BY FS_AddElement DEF SoleInvariant, CountInvariant
    <3>4. QED
      BY <3>2, <3>3
  <2>3. CASE ResolveIncident(e)
    <3>1. target[e] \in ActiveIncidents /\ AtMostOneActive
      BY <2>3 DEF ResolveIncident, Goto, SoleInvariant, CheckInvariant
    <3>2. OpenedIncidents' = OpenedIncidents
      BY <2>3, <3>1, ResolveSettles DEF OpenedIncidents
    <3>3. QED
      BY <3>2 DEF SoleInvariant, CountInvariant
  <2>4. QED
    BY <2>1, <2>2, <2>3, DatabaseWriters DEF Undisturbed
<1>3. QED
  BY <1>1, <1>2 DEF CountInvariant

\* The strengthened invariant holds at the start.
LEMMA SoleInit ==
  ASSUME NEW e \in Executor, Undisturbed(e), Init
  PROVE  SoleInvariant(e)
<1>1. \A s \in Slot : results[s] = NoRow /\ job[s] = NewJob("absent")
  BY BoundsAssumption DEF Init, Undisturbed, Slot
<1>2. Idle(e) /\ ~ failed[e] /\ lock # e /\ \A i \in IncidentId : incident[i].status = "none"
  BY NamesAssumption DEF Init, Idle, NoRecord
<1>3. Recorded(results) = {}
  BY <1>1 DEF Recorded
<1>4. OpenedIncidents = {} /\ ActiveIncidents = {}
  BY <1>2 DEF OpenedIncidents, ActiveIncidents, Exists, Active
<1>5. QueueInvariant(e)
  BY <1>1, <1>2 DEF QueueInvariant, NewJob
<1>6. OrderInvariant(e)
  BY <1>1, <1>2, <1>3 DEF OrderInvariant, Waits, NewJob
<1>7. CheckInvariant(e)
  BY <1>2, <1>4 DEF CheckInvariant, Creating, Idle, AtMostOneActive
<1>8. CountInvariant
  <2>1. Cardinality(Recorded(results)) = 0
    BY <1>3, FS_EmptySet
  <2>2. QED
    BY <1>4, <2>1, FS_EmptySet DEF CountInvariant, Ranked
<1>9. QED
  BY <1>5, <1>6, <1>7, <1>8 DEF SoleInvariant

\* It holds throughout.
LEMMA SoleKept ==
  ASSUME NEW e \in Executor, Undisturbed(e)
  PROVE  Spec => []SoleInvariant(e)
<1>1. Init => SoleInvariant(e)
  BY SoleInit
<1>2. TypeOK /\ SoleInvariant(e) /\ [Next]_vars => SoleInvariant(e)'
  BY QueueKept, OrderKept, CheckKept, CountKept DEF SoleInvariant
<1>3. QED
  BY <1>1, <1>2, TypeCorrect, PTL DEF Spec

-----------------------------------------------------------------------------
(* One undisturbed executor computes the sequential rules *)

\* The newest statuses the worker reads are the head of the observed history.
LEMMA HistoryIsPrevious ==
  /\ Len(ObservedHistory) = RecordedCount
  /\ \A status : Sequential!RecentForRules(status, ObservedHistory) = RecentForRules(status, results)
<1> DEFINE S == {RawOf(results[NthNewest(results, n)]) : n \in 1 .. RecordedCount}
           taken == IF RecordedCount < Lookback THEN RecordedCount ELSE Lookback
<1>1. RecordedCount \in Nat /\ taken \in 0 .. RecordedCount /\ taken \in Nat
  BY RecordedBound, BoundsAssumption DEF RecordedCount
<1>2. /\ ObservedHistory \in Seq(S) /\ Len(ObservedHistory) = RecordedCount
      /\ \A n \in 1 .. RecordedCount : ObservedHistory[n] = RawOf(results[NthNewest(results, n)])
  <2> HIDE DEF taken
  <2>1. ObservedHistory = [n \in 1 .. RecordedCount |-> RawOf(results[NthNewest(results, n)])]
    BY DEF ObservedHistory
  <2>2. QED
    BY <1>1, <2>1
<1>3. Previous(results) = [n \in 1 .. taken |-> RawOf(results[NthNewest(results, n)])]
  BY DEF Previous, RecordedCount
<1> HIDE DEF S
<1>4. /\ SubSeq(ObservedHistory, 1, taken) \in Seq(S)
      /\ Len(SubSeq(ObservedHistory, 1, taken)) = taken
      /\ \A n \in 1 .. taken : SubSeq(ObservedHistory, 1, taken)[n] = ObservedHistory[n]
  <2> HIDE DEF taken
  <2>1. \A n \in 1 .. taken : ObservedHistory[n] \in S
    BY <1>1, <1>2, ElementOfSeq
  <2>2. QED
    BY <1>1, <2>1, SubSeqProperties
<1>5. Previous(results) \in Seq(S) /\ Len(Previous(results)) = taken
      /\ \A n \in 1 .. taken : Previous(results)[n] = ObservedHistory[n]
  <2> HIDE DEF taken
  <2>1. \A n \in 1 .. taken : RawOf(results[NthNewest(results, n)]) \in S
    BY <1>1 DEF S
  <2>2. QED
    BY <1>1, <1>2, <1>3, <2>1
<1>6. SubSeq(ObservedHistory, 1, taken) = Previous(results)
  BY <1>4, <1>5, SeqEqual
<1>7. QED
  BY <1>2, <1>6 DEF Sequential!RecentForRules, RecentForRules

\* The pipeline starts where the sequential rules start.
LEMMA SequentialInit ==
  ASSUME NEW e \in Executor, Undisturbed(e), Init
  PROVE  Sequential!Init
<1>1. SoleInvariant(e) /\ Idle(e) /\ \A f \in Executor : f = e
  BY SoleInit DEF Init, Idle, Undisturbed
<1>2. RecordedCount = 0 /\ OpenedIncidents = {} /\ ActiveIncidents = {}
  <2>1. \A s \in Slot : results[s] = NoRow
    BY BoundsAssumption DEF Init, Undisturbed, Slot
  <2>2. \A i \in IncidentId : incident[i].status = "none"
    BY DEF Init, NoRecord
  <2>3. Recorded(results) = {} /\ OpenedIncidents = {} /\ ActiveIncidents = {}
    BY <2>1, <2>2 DEF Recorded, OpenedIncidents, ActiveIncidents, Exists, Active
  <2>4. QED
    BY <2>3, FS_EmptySet DEF RecordedCount
<1>3. ~ CreatePending /\ ~ ResolvePending
  BY <1>1 DEF CreatePending, ResolvePending, Idle
<1>4. ObservedHistory = << >>
  BY <1>2, HistoryIsPrevious DEF ObservedHistory
<1>5. SequentialIncident = "none"
  BY <1>2, <1>3 DEF SequentialIncident, OpenedIncidents
<1>6. OpenedCount = 0
  BY <1>2, <1>3, FS_EmptySet DEF OpenedCount
<1>7. NewestCard = "unknown" /\ NewestProbe = Sequential!NoProbe
  BY <1>2 DEF NewestCard, NewestProbe, NothingProbed, ProbeOf, Sequential!NoProbe,
       NoResponseTime, Sequential!NoResponseTime
<1>8. QED
  BY <1>4, <1>5, <1>6, <1>7 DEF Sequential!Init

\* A step that records nothing and changes no incident, seen or pending, is none.
LEMMA SequentialStutter ==
  ASSUME results' = results, SequentialIncident' = SequentialIncident, OpenedCount' = OpenedCount
  PROVE  UNCHANGED Sequential!vars
BY DEF Sequential!vars, ObservedHistory, NewestCard, NewestProbe, NewestRow, RecordedCount, NthNewest,
   Recorded, RawOf

\* The insert is the check: rules, row, card and pending incident in one step.
LEMMA InsertChecks ==
  ASSUME TypeOK, NEW e \in Executor, Undisturbed(e), SoleInvariant(e), InsertResult(e)
  PROVE  Sequential!Check(ProbeOf(raw[e]))
<1> DEFINE probe == ProbeOf(raw[e])
           status == Sequential!DeriveCheckStatus(probe)
           recent == Sequential!RecentForRules(status, ObservedHistory)
           action == Sequential!EvaluateIncidentRules(recent, SequentialIncident = "active")
<1>1. raw[e] \in MonitoringStatus /\ \A f \in Executor : f = e
  BY DEF TypeOK, Undisturbed
<1>2. status = raw[e]
  BY <1>1, ProbesDerive
<1>3. /\ pc[e] = "insert" /\ pc'[e] = AfterInsert(e) /\ incident' = incident
      /\ PlanFits(e)
  BY DEF TypeOK, InsertResult, SoleInvariant, CheckInvariant
<1>4. ~ CreatePending /\ ~ ResolvePending
  BY <1>1, <1>3 DEF CreatePending, ResolvePending
<1>5. (SequentialIncident = "active") = (ActiveIncidents # {})
  BY <1>4 DEF SequentialIncident
<1>6. action = plan[e]
  <2>1. recent = RecentForRules(raw[e], results)
    BY <1>2, HistoryIsPrevious
  <2>2. action = EvaluateIncidentRules(RecentForRules(raw[e], results), SequentialIncident = "active")
    BY <2>1, SameRules
  <2>3. QED
    BY <1>3, <1>5, <2>2 DEF PlanFits
<1> HIDE DEF action, recent, status
<1>7. Len(ObservedHistory) < MaxSlot
  BY InsertIsNewest, HistoryIsPrevious, BoundsAssumption
<1>8. ObservedHistory' = << status >> \o ObservedHistory
  <2> DEFINE count == RecordedCount
             S == {RawOf(results[NthNewest(results, n)]) : n \in 1 .. count} \cup {status}
  <2>1. count \in Nat
    BY InsertIsNewest
  <2> HIDE DEF count
  <2>2. ObservedHistory = [n \in 1 .. count |-> RawOf(results[NthNewest(results, n)])]
    BY DEF ObservedHistory, count
  <2>3. ObservedHistory' = [n \in 1 .. count + 1 |-> RawOf(results'[NthNewest(results', n)])]
    BY InsertIsNewest DEF ObservedHistory, count
  <2>4. RawOf(results'[NthNewest(results', 1)]) = status
    BY <1>1, <1>2, InsertIsNewest DEF RawOf, NoRaw, MonitoringStatus
  <2>5. \A n \in 1 .. count :
          RawOf(results'[NthNewest(results', n + 1)]) = RawOf(results[NthNewest(results, n)])
    BY InsertIsNewest DEF count
  <2>6. ObservedHistory \in Seq(S) /\ Len(ObservedHistory) = count
    BY <2>1, <2>2
  <2>7. << status >> \in Seq(S) /\ Len(<< status >>) = 1
    OBVIOUS
  <2>8. \A n \in 1 .. count + 1 :
          RawOf(results'[NthNewest(results', n)]) =
            IF n <= 1 THEN << status >>[n] ELSE ObservedHistory[n - 1]
    <3>1. SUFFICES ASSUME NEW n \in 1 .. count + 1
                   PROVE  RawOf(results'[NthNewest(results', n)]) =
                            IF n <= 1 THEN << status >>[n] ELSE ObservedHistory[n - 1]
      OBVIOUS
    <3>2. CASE n = 1
      BY <2>4, <3>2
    <3>3. CASE n # 1
      <4>1. n - 1 \in 1 .. count /\ (n - 1) + 1 = n /\ ~ (n <= 1)
        BY <2>1, <3>3
      <4>2. RawOf(results'[NthNewest(results', n)]) = RawOf(results[NthNewest(results, n - 1)])
        BY <2>5, <4>1
      <4>3. QED
        BY <2>2, <4>1, <4>2
    <3>4. QED
      BY <3>2, <3>3
  <2>9. \A n \in 1 .. count + 1 : RawOf(results'[NthNewest(results', n)]) \in S
    <3>1. \A n \in 1 .. count : ObservedHistory[n] \in S
      BY <2>6, ElementOfSeq
    <3>2. status \in S
      OBVIOUS
    <3> HIDE DEF S
    <3>3. QED
      BY <2>1, <2>8, <3>1, <3>2
  <2> HIDE DEF S
  <2>10. ObservedHistory' \in Seq(S) /\ Len(ObservedHistory') = 1 + count
    BY <2>1, <2>3, <2>9
  <2>11. /\ << status >> \o ObservedHistory \in Seq(S)
         /\ Len(<< status >> \o ObservedHistory) = 1 + count
         /\ \A n \in 1 .. 1 + count :
              (<< status >> \o ObservedHistory)[n] =
                IF n <= 1 THEN << status >>[n] ELSE ObservedHistory[n - 1]
    BY <2>1, <2>6, <2>7, ConcatProperties
  <2>12. \A n \in 1 .. 1 + count : ObservedHistory'[n] = (<< status >> \o ObservedHistory)[n]
    BY <2>1, <2>3, <2>8, <2>11
  <2>13. QED
    BY <2>10, <2>11, <2>12, SeqEqual
<1>9. NewestCard' = Sequential!ApplyCardStatusOverride(status, action) /\ NewestProbe' = probe
  <2>1. RecordedCount' # 0 /\ NewestRow' = results'[slot[e]]
    BY InsertIsNewest DEF NewestRow
  <2>2. NewestCard' = ApplyCardStatusOverride(raw[e], plan[e])
    BY <2>1, InsertIsNewest DEF NewestCard
  <2>3. RawOf(NewestRow') = raw[e]
    BY <1>1, <2>1, InsertIsNewest DEF RawOf, NoRaw, MonitoringStatus
  <2>4. NewestProbe' = probe
    BY <2>1, <2>3 DEF NewestProbe, RawOf, ProbeOf
  <2>5. QED
    BY <1>2, <1>6, <2>2, <2>4, SameRules
<1>10. /\ CreatePending' <=> plan[e].type = "create_incident"
       /\ ResolvePending' <=> plan[e].type = "resolve_incident"
  BY <1>1, <1>3 DEF AfterInsert, CreatePending, ResolvePending
<1>11. ActiveIncidents' = ActiveIncidents /\ OpenedIncidents' = OpenedIncidents
  BY <1>3 DEF ActiveIncidents, Active, OpenedIncidents, Exists
<1>12. SequentialIncident' = Sequential!AfterAction(action.type)
  <2>1. CASE plan[e].type = "create_incident"
    BY <1>6, <1>10, <2>1 DEF SequentialIncident, Sequential!AfterAction
  <2>2. CASE plan[e].type = "resolve_incident"
    BY <1>6, <1>10, <2>2 DEF SequentialIncident, Sequential!AfterAction
  <2>3. CASE plan[e].type \notin {"create_incident", "resolve_incident"}
    <3>1. SequentialIncident' = SequentialIncident
      BY <1>3, <1>4, <1>10, <1>11, <2>3 DEF SequentialIncident, Exists
    <3>2. QED
      BY <1>6, <2>3, <3>1 DEF Sequential!AfterAction
  <2>4. QED
    BY <2>1, <2>2, <2>3
<1>13. OpenedCount' = OpenedCount + (IF action.type = "create_incident" THEN 1 ELSE 0)
  <2>1. Cardinality(OpenedIncidents) \in Nat
    BY FS_CardinalityType DEF SoleInvariant, CountInvariant
  <2>2. QED
    BY <1>4, <1>6, <1>10, <1>11, <2>1 DEF OpenedCount
<1>14. QED
  BY <1>7, <1>8, <1>9, <1>12, <1>13 DEF Sequential!Check, action, recent, status

\* What is pending is done, and seen as it was.
LEMMA CommitSeen ==
  ASSUME TypeOK, NEW e \in Executor, Undisturbed(e), SoleInvariant(e), CommitIncident(e)
  PROVE  SequentialIncident' = SequentialIncident /\ OpenedCount' = OpenedCount
<1>1. /\ pc[e] = "commit" /\ pc'[e] = "announce" /\ \A f \in Executor : f = e
      /\ ActiveIncidents = {}
  BY DEF TypeOK, Undisturbed, SoleInvariant, CheckInvariant, Creating, CommitIncident, Goto
<1>2. PICK i \in IncidentId : ~ Exists(i) /\ ActiveIncidents' = {i} /\ OpenedIncidents' = OpenedIncidents \cup {i}
  BY <1>1, CommitActivates DEF OpenedIncidents
<1>3. CreatePending /\ ~ CreatePending' /\ ~ ResolvePending'
  BY <1>1 DEF CreatePending, ResolvePending
<1>4. SequentialIncident = "active" /\ SequentialIncident' = "active"
  BY <1>2, <1>3 DEF SequentialIncident
<1>5. /\ IsFiniteSet(OpenedIncidents) /\ i \notin OpenedIncidents
      /\ Cardinality(OpenedIncidents) \in Nat
  BY <1>2, FS_CardinalityType DEF SoleInvariant, CountInvariant, OpenedIncidents
<1>6. Cardinality(OpenedIncidents \cup {i}) = Cardinality(OpenedIncidents) + 1
  BY <1>5, FS_AddElement
<1>7. Cardinality(OpenedIncidents)' = Cardinality(OpenedIncidents) + 1
  BY <1>2, <1>6
<1>8. OpenedCount' = OpenedCount
  BY <1>3, <1>5, <1>7 DEF OpenedCount
<1>9. QED
  BY <1>4, <1>8

\* The resolve does what the insert had announced.
LEMMA ResolveSeen ==
  ASSUME TypeOK, NEW e \in Executor, Undisturbed(e), SoleInvariant(e), ResolveIncident(e)
  PROVE  SequentialIncident' = SequentialIncident /\ OpenedCount' = OpenedCount
<1>1. /\ pc[e] = "resolve" /\ pc'[e] = "tickets" /\ \A f \in Executor : f = e
      /\ target[e] \in ActiveIncidents /\ AtMostOneActive
  BY DEF TypeOK, Undisturbed, SoleInvariant, CheckInvariant, ResolveIncident, Goto
<1>2. ActiveIncidents' = {} /\ OpenedIncidents' = OpenedIncidents
  BY <1>1, ResolveSettles DEF OpenedIncidents
<1>3. OpenedIncidents # {}
  BY <1>1 DEF ActiveIncidents, Active, OpenedIncidents, Exists
<1>4. ~ CreatePending /\ ResolvePending /\ ~ CreatePending' /\ ~ ResolvePending'
  BY <1>1 DEF CreatePending, ResolvePending
<1>5. SequentialIncident' = "resolved"
  BY <1>2, <1>3, <1>4 DEF SequentialIncident, OpenedIncidents
<1>6. SequentialIncident = "resolved"
  BY <1>4 DEF SequentialIncident
<1>7. OpenedCount' = OpenedCount
  BY <1>2, <1>4 DEF OpenedCount
<1>8. QED
  BY <1>5, <1>6, <1>7

\* A step that leaves what is pending alone.
SamePending(e) ==
  /\ Creating(e)' <=> Creating(e)
  /\ pc'[e] = "resolve" <=> pc[e] = "resolve"

\* The other steps record nothing and leave what is pending.
LEMMA OthersSeen ==
  ASSUME TypeOK, NEW e \in Executor, Undisturbed(e), SoleInvariant(e), [Next]_vars,
         ~ InsertResult(e), ~ CommitIncident(e), ~ ResolveIncident(e)
  PROVE  SequentialIncident' = SequentialIncident /\ OpenedCount' = OpenedCount
<1>1. incident' = incident
  BY DatabaseWriters DEF Undisturbed
<1>2. SamePending(e)
  <2>1. CASE pc' = pc
    BY <2>1 DEF SamePending, Creating
  <2>2. ASSUME NEW s \in Slot, StartJob(e, s)
        PROVE  SamePending(e)
    BY <2>2 DEF TypeOK, StartJob, SamePending, Creating
  <2>3. CASE Proceed(e) /\ ~ DelayBusy(e)
    <3>1. CASE SkipRecorded(e) \/ ReleaseWebsiteLock(e)
      BY <3>1 DEF TypeOK, SkipRecorded, ReleaseWebsiteLock, GoIdle, SamePending, Creating
    <3>2. CASE SkipDuplicateIncident(e)
      BY <3>2 DEF SkipDuplicateIncident, Goto, SoleInvariant, CheckInvariant, SamePending, Creating
    <3>3. CASE NotRecorded(e) \/ AcquireWebsiteLock(e) \/ SkipInactive(e) \/ RunProbes(e) \/ ReadPrevious(e)
               \/ ReadActiveIncident(e) \/ ResultAlreadyExists(e) \/ BeginCreate(e) \/ NoActiveIncident(e)
               \/ ResolveTickets(e) \/ AllAnnounced(e)
      BY <3>3 DEF TypeOK, NotRecorded, AcquireWebsiteLock, SkipInactive, RunProbes, ReadPrevious,
           ReadActiveIncident, ResultAlreadyExists, BeginCreate, NoActiveIncident, ResolveTickets,
           AllAnnounced, Goto, SamePending, Creating
    <3>4. CASE Announce(e)
      BY <2>1, <3>4 DEF Announce
    <3>5. QED
      BY <2>3, <3>1, <3>2, <3>3, <3>4 DEF Proceed
  <2>4. CASE ReleaseSlot \/ ReleaseAgain \/ ExpireLock \/ UNCHANGED vars \/ \E s \in Slot : SkipLate(e, s)
    BY <2>1, <2>4 DEF ReleaseSlot, ReleaseAgain, ExpireLock, SkipLate, vars
  <2>5. \/ ReleaseSlot \/ ReleaseAgain \/ ExpireLock \/ UNCHANGED vars
        \/ \E s \in Slot : StartJob(e, s) \/ SkipLate(e, s)
        \/ Proceed(e) /\ ~ DelayBusy(e)
    BY UndisturbedSteps DEF SoleInvariant
  <2>6. QED
    BY <2>2, <2>3, <2>4, <2>5
<1>3. (CreatePending' <=> CreatePending) /\ (ResolvePending' <=> ResolvePending)
  BY <1>2 DEF Undisturbed, SamePending, CreatePending, ResolvePending, Creating
<1>4. QED
  BY <1>1, <1>3 DEF SequentialIncident, OpenedCount, OpenedIncidents, ActiveIncidents, Active, Exists

\* One executor that nothing disturbs computes the sequential rules: whatever the
\* order of its awaits and of the slots released meanwhile, skipped, or released
\* again, the rows it writes are the checks of SequentialMonitoring, in slot
\* order, with the same cards, incidents opened and incidents resolved.
THEOREM SequentialImplemented ==
  ASSUME NEW e \in Executor, Executor = {e}, Staff = {}, MaxFaults = 0, LegacySlots = 0
  PROVE  Spec => ImplementsSequentialMonitoring
<1>1. Undisturbed(e)
  BY DEF Undisturbed
<1>2. Init => Sequential!Init
  BY <1>1, SequentialInit
<1>3. TypeOK /\ SoleInvariant(e) /\ [Next]_vars => [Sequential!Next]_(Sequential!vars)
  <2> SUFFICES ASSUME TypeOK, SoleInvariant(e), [Next]_vars
               PROVE  [Sequential!Next]_(Sequential!vars)
    OBVIOUS
  <2>1. CASE InsertResult(e)
    <3>1. raw[e] \in MonitoringStatus
      BY DEF TypeOK
    <3>2. QED
      BY <1>1, <2>1, <3>1, InsertChecks, ProbesDerive DEF Sequential!Next
  <2>2. CASE ~ InsertResult(e)
    <3>1. results' = results
      BY <1>1, <2>2, DatabaseWriters DEF Undisturbed
    <3>2. SequentialIncident' = SequentialIncident /\ OpenedCount' = OpenedCount
      BY <1>1, <2>2, CommitSeen, ResolveSeen, OthersSeen
    <3>3. QED
      BY <3>1, <3>2, SequentialStutter
  <2>3. QED
    BY <2>1, <2>2
<1>4. Spec => []SoleInvariant(e)
  BY <1>1, SoleKept
<1>5. QED
  BY <1>2, <1>3, <1>4, TypeCorrect, PTL DEF Spec, Sequential!Spec, ImplementsSequentialMonitoring

=============================================================================
