------------------------ MODULE NotificationDelivery ------------------------
(***************************************************************************)
(* Email and Telegram notifications: rows of the notifications table, the  *)
(* BullMQ job of each, the executors that deliver them, and the periodic   *)
(* reconciliation of rows that are still pending.  A delivery to the       *)
(* outside is a step that is accepted, refused, impossible for lack of     *)
(* configuration, or accepted with its answer lost.                        *)
(***************************************************************************)
EXTENDS Naturals, FiniteSets

CONSTANTS
  Note,             \* bound: number of notifications, created in this order
  Executor,         \* concurrent processors of the notification queue
  NoOne,
  Limit,            \* rows one reconciliation looks at ("limit = 100")
  MaxAttempts,      \* BullMQ attempts of a notification job
  MaxStalls,        \* BullMQ maxStalledCount
  MaxFaults         \* bound: failed writes, lost answers, crashes, lost job locks

ASSUME BoundsAssumption ==
  /\ Note \in Nat /\ Limit \in Nat \ {0} /\ MaxAttempts \in Nat \ {0}
  /\ MaxStalls \in Nat /\ MaxFaults \in Nat
ASSUME NamesAssumption == NoOne \notin Executor

Id == 1 .. Note
NoNote == 0

VARIABLES
  status,           \* row: "none" before it is created, then NotificationStatus
  unqueued,         \* rows whose creator has not called enqueue yet
  batch,            \* rows a reconciliation has read and not enqueued yet
  job,              \* the job notif_<id> of each row
  pc, note, made,   \* per executor: next step, row in hand, job.attemptsMade
  accepted,         \* messages the outside has accepted (history)
  tried,            \* attempts that ended in an error (history)
  unconfigured,     \* rows whose delivery found no configuration (history)
  faults

rowVars == << status, unqueued, batch >>
executorVars == << pc, note, made >>
historyVars == << accepted, tried, unconfigured >>
vars == << status, unqueued, batch, job, pc, note, made, accepted, tried, unconfigured, faults >>

NotificationStatus == {"pending", "sent", "failed"}
Step == {"idle", "read", "send", "record", "refuse", "error", "final"}
JobState == {"absent", "ready", "active", "completed", "failed"}
Job == [state : JobState, owner : Executor \cup {NoOne}, attempts : 0 .. MaxAttempts, stalls : 0 .. MaxStalls]
NewJob(state) == [state |-> state, owner |-> NoOne, attempts |-> 0, stalls |-> 0]

Init ==
  /\ status = [n \in Id |-> "none"]
  /\ unqueued = {} /\ batch = {}
  /\ job = [n \in Id |-> NewJob("absent")]
  /\ pc = [e \in Executor |-> "idle"]
  /\ note = [e \in Executor |-> NoNote]
  /\ made = [e \in Executor |-> 0]
  /\ accepted = [n \in Id |-> 0]
  /\ tried = [n \in Id |-> 0]
  /\ unconfigured = {}
  /\ faults = 0

Fault == faults < MaxFaults /\ faults' = faults + 1

-----------------------------------------------------------------------------
(* Creating, enqueueing, reconciling *)

\* The worker and the ticket service insert pending rows, one after the other.
CreateNotification ==
  /\ \E n \in Id :
       /\ status[n] = "none" /\ \A k \in 1 .. n - 1 : status[k] # "none"
       /\ status' = [status EXCEPT ![n] = "pending"]
       /\ unqueued' = unqueued \cup {n}
  /\ UNCHANGED << batch, job, executorVars, historyVars, faults >>

\* Adding under the id of a job that exists, in whatever state, adds nothing.
enqueueNotificationJob(n) ==
  job' = IF job[n].state = "absent" THEN [job EXCEPT ![n] = NewJob("ready")] ELSE job

\* The creator's own call.  It may never come: tickets made by the API never
\* call it, the worker may die first, and a failed call is only logged.
EnqueueByCreator ==
  /\ \E n \in unqueued :
       /\ unqueued' = unqueued \ {n}
       /\ enqueueNotificationJob(n) \/ job' = job
  /\ UNCHANGED << status, batch, executorVars, historyVars, faults >>

\* Mutant: one row less.
OldestButOne ==
  {n \in Id : status[n] = "pending" /\ Cardinality({k \in Id : k < n /\ status[k] = "pending"}) < Limit - 1}

OldestPending ==
  {n \in Id : status[n] = "pending" /\ Cardinality({k \in Id : k < n /\ status[k] = "pending"}) < Limit}

\* reconcilePendingNotifications: read up to Limit pending rows, oldest first ...
ReconcileReads ==
  /\ batch = {} /\ OldestPending # {}
  /\ batch' = OldestPending
  /\ UNCHANGED << status, unqueued, job, executorVars, historyVars, faults >>

\* ... and enqueue them one after the other; an error ends the round.
ReconcileEnqueues ==
  /\ batch # {}
  /\ LET n == CHOOSE k \in batch : \A j \in batch : k <= j
     IN  \/ enqueueNotificationJob(n) /\ batch' = batch \ {n} /\ faults' = faults
         \/ Fault /\ batch' = {} /\ job' = job
  /\ UNCHANGED << status, unqueued, executorVars, historyVars >>

-----------------------------------------------------------------------------
(* processNotificationJob and dispatchNotification *)

Goto(e, from, to) == pc[e] = from /\ pc' = [pc EXCEPT ![e] = to]

GoIdle(e) ==
  /\ pc' = [pc EXCEPT ![e] = "idle"]
  /\ note' = [note EXCEPT ![e] = NoNote]
  /\ made' = [made EXCEPT ![e] = 0]

\* Only the owner of the job's lock can move the job.
Complete(e) ==
  job' = IF job[note[e]].owner # e THEN job ELSE [job EXCEPT ![note[e]] = NewJob("completed")]
Fail(e) ==
  job' = IF job[note[e]].owner # e THEN job
         ELSE [job EXCEPT ![note[e]] =
                IF made[e] + 1 < MaxAttempts
                THEN [@ EXCEPT !.state = "ready", !.owner = NoOne, !.attempts = made[e] + 1]
                ELSE NewJob("failed")]

TakeJob(e, n) ==
  /\ pc[e] = "idle" /\ job[n].state = "ready"
  /\ job' = [job EXCEPT ![n] = [@ EXCEPT !.state = "active", !.owner = e]]
  /\ pc' = [pc EXCEPT ![e] = "read"]
  /\ note' = [note EXCEPT ![e] = n]
  /\ made' = [made EXCEPT ![e] = job[n].attempts]
  /\ UNCHANGED << rowVars, historyVars, faults >>

ReadPending(e) ==
  /\ Goto(e, "read", "send") /\ status[note[e]] # "sent"
  /\ UNCHANGED << rowVars, job, note, made, historyVars, faults >>

SkipSent(e) ==
  /\ pc[e] = "read" /\ status[note[e]] = "sent"
  /\ Complete(e) /\ GoIdle(e)
  /\ UNCHANGED << rowVars, historyVars, faults >>

\* Mutant: missing configuration is taken for success.
FakeSuccess(e) ==
  /\ \/ Goto(e, "send", "record") /\ accepted' = [accepted EXCEPT ![note[e]] = @ + 1]
     \/ Goto(e, "send", "record") /\ accepted' = accepted
     \/ Goto(e, "send", "error") /\ accepted' = accepted
  /\ UNCHANGED << rowVars, job, note, made, tried, unconfigured, faults >>

\* Mutant: any error, not only 429, is answered by sending once more.
SendAgainOnAnyError(e) ==
  /\ pc[e] = "send"
  /\ \/ /\ accepted' = [accepted EXCEPT ![note[e]] = @ + 1]
        /\ pc' = [pc EXCEPT ![e] = "record"]
        /\ UNCHANGED << unconfigured, faults >>
     \/ /\ pc' = [pc EXCEPT ![e] = "error"]
        /\ UNCHANGED << accepted, unconfigured, faults >>
     \/ /\ unconfigured' = unconfigured \cup {note[e]}
        /\ pc' = [pc EXCEPT ![e] = "refuse"]
        /\ UNCHANGED << accepted, faults >>
     \/ /\ Fault
        /\ accepted' = [accepted EXCEPT ![note[e]] = @ + 2]
        /\ pc' = [pc EXCEPT ![e] = "error"]
        /\ UNCHANGED unconfigured
  /\ UNCHANGED << rowVars, job, note, made, tried >>

\* sendEmail or sendTelegramWithBackoff.
Send(e) ==
  /\ pc[e] = "send"
  /\ \/ /\ accepted' = [accepted EXCEPT ![note[e]] = @ + 1]
        /\ pc' = [pc EXCEPT ![e] = "record"]
        /\ UNCHANGED << unconfigured, faults >>
     \/ /\ pc' = [pc EXCEPT ![e] = "error"]
        /\ UNCHANGED << accepted, unconfigured, faults >>
     \/ /\ unconfigured' = unconfigured \cup {note[e]}
        /\ pc' = [pc EXCEPT ![e] = "refuse"]
        /\ UNCHANGED << accepted, faults >>
     \/ /\ Fault
        /\ accepted' = [accepted EXCEPT ![note[e]] = @ + 1]
        /\ pc' = [pc EXCEPT ![e] = "error"]
        /\ UNCHANGED unconfigured
  /\ UNCHANGED << rowVars, job, note, made, tried >>

\* The delivered row is marked sent.
RecordSent(e) ==
  /\ pc[e] = "record"
  /\ status' = [status EXCEPT ![note[e]] = "sent"]
  /\ Complete(e) /\ GoIdle(e)
  /\ UNCHANGED << unqueued, batch, historyVars, faults >>

\* Mutant: the job ends and the row is left alone.
RefuseQuietly(e) ==
  /\ pc[e] = "refuse"
  /\ Complete(e) /\ GoIdle(e)
  /\ UNCHANGED << rowVars, historyVars, faults >>

\* Missing configuration marks the row failed at once and ends the job.
RefuseUnconfigured(e) ==
  /\ pc[e] = "refuse"
  /\ status' = [status EXCEPT ![note[e]] = "failed"]
  /\ Complete(e) /\ GoIdle(e)
  /\ UNCHANGED << unqueued, batch, historyVars, faults >>

\* Mutant: one attempt less.
GiveUpEarly(e) ==
  /\ pc[e] = "error"
  /\ tried' = [tried EXCEPT ![note[e]] = @ + 1]
  /\ IF made[e] + 2 < MaxAttempts
     THEN Fail(e) /\ GoIdle(e)
     ELSE pc' = [pc EXCEPT ![e] = "final"] /\ UNCHANGED << job, note, made >>
  /\ UNCHANGED << rowVars, accepted, unconfigured, faults >>

\* processNotificationJob catches the error: another attempt, or the last word.
HandleError(e) ==
  /\ pc[e] = "error"
  /\ tried' = [tried EXCEPT ![note[e]] = @ + 1]
  /\ IF made[e] + 1 < MaxAttempts
     THEN Fail(e) /\ GoIdle(e)
     ELSE pc' = [pc EXCEPT ![e] = "final"] /\ UNCHANGED << job, note, made >>
  /\ UNCHANGED << rowVars, accepted, unconfigured, faults >>

\* markNotificationFailed; the job itself completes.
MarkFailed(e) ==
  /\ pc[e] = "final"
  /\ status' = [status EXCEPT ![note[e]] = "failed"]
  /\ Complete(e) /\ GoIdle(e)
  /\ UNCHANGED << unqueued, batch, historyVars, faults >>

-----------------------------------------------------------------------------
(* What goes wrong *)

\* A read or an update of dispatchNotification rejects: it is an error like a
\* refused delivery, even when the message is out already.
WriteFails(e) ==
  /\ pc[e] \in {"read", "record", "refuse"} /\ Fault
  /\ pc' = [pc EXCEPT ![e] = "error"]
  /\ UNCHANGED << rowVars, job, note, made, historyVars >>

\* markNotificationFailed rejects on the last attempt: BullMQ fails the job and
\* the row stays pending.
LastWordFails(e) ==
  /\ pc[e] = "final" /\ Fault
  /\ Fail(e) /\ GoIdle(e)
  /\ UNCHANGED << rowVars, historyVars >>

Crash(e) ==
  /\ pc[e] # "idle" /\ Fault
  /\ GoIdle(e)
  /\ UNCHANGED << rowVars, job, historyVars >>

\* The stall checker takes an active job back: its executor died, or lives on
\* without having renewed the job's lock.
OwnerGone(n) == note[job[n].owner] # n
Stall(n) ==
  /\ job[n].state = "active"
  /\ \/ OwnerGone(n) /\ faults' = faults
     \/ ~ OwnerGone(n) /\ Fault
  /\ job' = [job EXCEPT ![n] =
       IF job[n].stalls < MaxStalls
       THEN [@ EXCEPT !.state = "ready", !.owner = NoOne, !.stalls = job[n].stalls + 1]
       ELSE NewJob("failed")]
  /\ UNCHANGED << rowVars, executorVars, historyVars >>

-----------------------------------------------------------------------------
Proceed(e) ==
  \/ ReadPending(e) \/ SkipSent(e) \/ Send(e) \/ RecordSent(e) \/ RefuseUnconfigured(e)
  \/ HandleError(e) \/ MarkFailed(e)
Take(e) == \E n \in Id : TakeJob(e, n)

\* The bounded number of notifications is created and settled.
AllSettled ==
  /\ unqueued = {} /\ batch = {}
  /\ \A n \in Id : status[n] \in {"sent", "failed"} /\ job[n].state \notin {"ready", "active"}
  /\ UNCHANGED vars

Next ==
  \/ CreateNotification \/ EnqueueByCreator \/ ReconcileReads \/ ReconcileEnqueues
  \/ \E e \in Executor : Take(e) \/ Proceed(e) \/ WriteFails(e) \/ LastWordFails(e) \/ Crash(e)
  \/ \E n \in Id : Stall(n)
  \/ AllSettled

Spec == Init /\ [][Next]_vars

\* The worker's timer reconciles every minute, its event loop runs every handler
\* to its end, the queue hands out jobs and checks for stalled ones.
Fairness ==
  /\ WF_vars(ReconcileReads) /\ WF_vars(ReconcileEnqueues)
  /\ \A e \in Executor : WF_vars(Proceed(e)) /\ WF_vars(Take(e))
  /\ \A n \in Id : WF_vars(Stall(n) /\ OwnerGone(n))
FairSpec == Spec /\ Fairness

-----------------------------------------------------------------------------
TypeOK ==
  /\ status \in [Id -> NotificationStatus \cup {"none"}]
  /\ unqueued \in SUBSET Id /\ batch \in SUBSET Id
  /\ job \in [Id -> Job]
  /\ pc \in [Executor -> Step]
  /\ note \in [Executor -> Id \cup {NoNote}]
  /\ made \in [Executor -> 0 .. MaxAttempts - 1]
  /\ accepted \in [Id -> Nat]
  /\ tried \in [Id -> Nat]
  /\ unconfigured \in SUBSET Id
  /\ faults \in 0 .. MaxFaults

\* A row says sent only of a message that was accepted outside: missing
\* configuration is never "faked as sent" (README).
SentWasAccepted ==
  \A n \in Id : status[n] = "sent" => accepted[n] > 0

\* Retries and reconciliation never send a message twice by themselves: every
\* duplicate costs a fault of its own (a lost answer, a lost write, a crash or
\* a job taken from a living executor).
DuplicatesCostFaults ==
  \A n \in Id : accepted[n] <= 1 + faults

\* A row is given up only for missing configuration or after all attempts.
FailedAfterAllAttempts ==
  \A n \in Id : status[n] = "failed" => n \in unconfigured \/ tried[n] >= MaxAttempts

\* A completed job has settled its row: nothing pending hides behind a job that
\* reconciliation cannot add again.
CompletedIsSettled ==
  \A n \in Id : job[n].state = "completed" => status[n] \in {"sent", "failed"}

\* Every row is settled in the end, also one that its creator never enqueued,
\* unless its job failed: that job keeps its id, and reconciliation adds nothing.
PendingOnlyBehindFailedJob ==
  \A n \in Id : status[n] = "pending" ~> status[n] # "pending" \/ job[n].state = "failed"
=============================================================================
