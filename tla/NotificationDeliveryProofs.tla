---------------------- MODULE NotificationDeliveryProofs ----------------------
(***************************************************************************)
(* What a settled notification row stands for, and what a message sent     *)
(* twice costs, for any number of rows, executors, attempts, stalls and    *)
(* faults.                                                                 *)
(*                                                                         *)
(* The first three theorems share DeliveryInvariant.  The last one keeps   *)
(* accounts: what was accepted, what the executors still carry and the     *)
(* next run of the job are never more than one and the faults so far       *)
(* (Paid); a step either hands one of these on or costs a fault.           *)
(***************************************************************************)
EXTENDS NotificationDelivery, FiniteSetTheorems, TLAPS

\* The attempts and stalls of a job, without their bounds.
JobRow == [state : JobState, owner : Executor \cup {NoOne}, attempts : Nat, stalls : Nat]

\* The part of the types the arguments below need.
Types ==
  /\ status \in [Id -> NotificationStatus \cup {"none"}]
  /\ unqueued \in SUBSET Id /\ batch \in SUBSET Id
  /\ job \in [Id -> JobRow]
  /\ pc \in [Executor -> Step]
  /\ note \in [Executor -> Id \cup {NoNote}]
  /\ made \in [Executor -> Nat]
  /\ accepted \in [Id -> Nat]
  /\ tried \in [Id -> Nat]
  /\ \A e \in Executor : pc[e] # "idle" => note[e] \in Id

\* An executor about to record a delivery holds a row that was accepted.
SentInvariant ==
  /\ \A n \in Id : status[n] = "sent" => accepted[n] > 0
  /\ \A e \in Executor : pc[e] = "record" => accepted[note[e]] > 0

\* The attempts BullMQ counts, in the job and in the executor's copy of it, are
\* attempts that ended in an error.
AttemptsInvariant ==
  /\ \A n \in Id : job[n].attempts <= tried[n]
  /\ \A e \in Executor : pc[e] # "idle" => made[e] <= tried[note[e]]
  /\ \A e \in Executor : pc[e] = "final" =>
       made[e] + 1 >= MaxAttempts /\ tried[note[e]] >= MaxAttempts
  /\ \A e \in Executor : pc[e] = "refuse" => note[e] \in unconfigured
  /\ \A n \in Id : status[n] = "failed" => n \in unconfigured \/ tried[n] >= MaxAttempts

SettledInvariant == CompletedIsSettled

DeliveryInvariant == Types /\ SentInvariant /\ AttemptsInvariant /\ SettledInvariant

\* It holds before anything is created.
LEMMA DeliveryInit == Init => DeliveryInvariant
  BY BoundsAssumption
  DEF Init, DeliveryInvariant, Types, SentInvariant, AttemptsInvariant, SettledInvariant,
      JobRow, CompletedIsSettled, NewJob, JobState, Step, Id, NoNote, NotificationStatus

-----------------------------------------------------------------------------
(* What the queue's own operations do to the jobs *)

\* The end of a job by its owner.
LEMMA CompleteJob ==
  ASSUME Types, NEW e \in Executor, note[e] \in Id, Complete(e)
  PROVE  /\ job' \in [Id -> JobRow]
         /\ \A n \in Id : job'[n].attempts \in {job[n].attempts, 0}
         /\ \A n \in Id \ {note[e]} : job'[n] = job[n]
  BY DEF Types, Complete, NewJob, JobRow, JobState

\* Another attempt, or the end of all.
LEMMA FailJob ==
  ASSUME Types, NEW e \in Executor, note[e] \in Id, Fail(e)
  PROVE  /\ job' \in [Id -> JobRow]
         /\ \A n \in Id : \/ job'[n].attempts \in {job[n].attempts, 0}
                          \/ n = note[e] /\ job'[n].attempts = made[e] + 1
         /\ \A n \in Id : job'[n].state = "completed" => job[n].state = "completed"
<1> USE DEF Types, JobRow, JobState
<1>1. CASE job[note[e]].owner # e
  BY <1>1 DEF Fail
<1>2. CASE job[note[e]].owner = e /\ made[e] + 1 < MaxAttempts
  <2> DEFINE row == [job[note[e]] EXCEPT !.state = "ready", !.owner = NoOne, !.attempts = made[e] + 1]
  <2>1. job' = [job EXCEPT ![note[e]] = row]
    BY <1>2 DEF Fail
  <2>2. row \in JobRow /\ row.attempts = made[e] + 1 /\ row.state = "ready"
    <3>1. job[note[e]] \in JobRow /\ made[e] + 1 \in Nat
      OBVIOUS
    <3> DEFINE old == job[note[e]]
               count == made[e] + 1
    <3>2. /\ row = [old EXCEPT !.state = "ready", !.owner = NoOne, !.attempts = count]
          /\ old \in JobRow /\ count \in Nat
      BY <3>1
    <3> HIDE DEF old, count, row
    <3>3. row \in JobRow /\ row.attempts = count /\ row.state = "ready"
      BY ONLY <3>2 DEF JobRow, JobState
    <3> QED
      BY <3>3 DEF count
  <2>3. row.state # "completed"
    BY <2>2
  <2> HIDE DEF row
  <2> QED
    BY <2>1, <2>2, <2>3
<1>3. CASE job[note[e]].owner = e /\ ~ (made[e] + 1 < MaxAttempts)
  <2>1. job' = [job EXCEPT ![note[e]] = NewJob("failed")]
    BY <1>3 DEF Fail
  <2> QED
    BY <2>1 DEF NewJob
<1> QED
  BY <1>1, <1>2, <1>3

\* Of any n: adding under the id of no row would leave all rows' jobs alone.
LEMMA EnqueueJob ==
  ASSUME Types, NEW n, enqueueNotificationJob(n)
  PROVE  /\ job' \in [Id -> JobRow]
         /\ \A k \in Id : job'[k].attempts \in {job[k].attempts, 0}
         /\ \A k \in Id : job'[k].state = "completed" => job[k].state = "completed"
  BY DEF Types, enqueueNotificationJob, NewJob, JobRow, JobState

-----------------------------------------------------------------------------
(* One lemma for each kind of step *)

\* Rows are created, added to the queue, and read again by reconciliation.
LEMMA QueueSteps ==
  ASSUME DeliveryInvariant,
         CreateNotification \/ EnqueueByCreator \/ ReconcileReads \/ ReconcileEnqueues
  PROVE  DeliveryInvariant'
<1> USE DEF DeliveryInvariant, SentInvariant, AttemptsInvariant, SettledInvariant, CompletedIsSettled
<1>1. CASE CreateNotification
  BY <1>1 DEF CreateNotification, Types, NotificationStatus, executorVars, historyVars, JobRow
<1>2. ASSUME /\ job' = job \/ \E n : enqueueNotificationJob(n)
             /\ unqueued' \in SUBSET Id /\ batch' \in SUBSET Id
             /\ UNCHANGED << status, executorVars, historyVars >>
      PROVE  DeliveryInvariant'
  <2>1. /\ job' \in [Id -> JobRow]
        /\ \A k \in Id : job'[k].attempts \in {job[k].attempts, 0}
        /\ \A k \in Id : job'[k].state = "completed" => job[k].state = "completed"
    BY <1>2, EnqueueJob DEF Types
  <2> QED
    BY <1>2, <2>1 DEF Types, executorVars, historyVars, JobRow
<1>3. CASE EnqueueByCreator
  BY <1>2, <1>3 DEF EnqueueByCreator, Types
<1>4. CASE ReconcileReads
  BY <1>2, <1>4 DEF ReconcileReads, OldestPending, Types
<1>5. CASE ReconcileEnqueues
  <2> DEFINE n == CHOOSE k \in batch : \A j \in batch : k <= j
  <2>1. \/ enqueueNotificationJob(n) /\ batch' = batch \ {n}
        \/ batch' = {} /\ job' = job
    BY <1>5 DEF ReconcileEnqueues
  <2> HIDE DEF n
  <2> QED
    BY <1>2, <1>5, <2>1 DEF ReconcileEnqueues, Types
<1> QED
  BY <1>1, <1>3, <1>4, <1>5

\* A delivery ends in GoIdle: what remains to be shown is that the job and the
\* row are left in order.
LEMMA EndDelivery ==
  ASSUME DeliveryInvariant, NEW e \in Executor, GoIdle(e),
         status' \in [Id -> NotificationStatus \cup {"none"}],
         job' \in [Id -> JobRow],
         tried' \in [Id -> Nat],
         \A n \in Id : tried[n] <= tried'[n],
         \A n \in Id : job'[n].attempts <= tried'[n],
         \A n \in Id : job'[n].state = "completed" => status'[n] \in {"sent", "failed"},
         \A n \in Id : status'[n] = "sent" => accepted[n] > 0,
         \A n \in Id : status'[n] = "failed" => n \in unconfigured \/ tried[n] >= MaxAttempts,
         UNCHANGED << unqueued, batch, accepted, unconfigured >>
  PROVE  DeliveryInvariant'
<1> USE DEF DeliveryInvariant, SentInvariant, AttemptsInvariant, SettledInvariant, CompletedIsSettled,
            Types, Step
<1>1. /\ pc' = [pc EXCEPT ![e] = "idle"]
      /\ note' = [note EXCEPT ![e] = NoNote]
      /\ made' = [made EXCEPT ![e] = 0]
  BY DEF GoIdle
<1>2. Types'
  BY <1>1 DEF NoNote
<1>3. SentInvariant'
  BY <1>1
<1>4. AttemptsInvariant'
  <2>1. \A n \in Id : tried[n] \in Nat /\ tried'[n] \in Nat
    OBVIOUS
  <2>2. \A f \in Executor : pc'[f] # "idle" =>
          f # e /\ pc'[f] = pc[f] /\ note'[f] = note[f] /\ made'[f] = made[f] /\ note[f] \in Id
    BY <1>1
  <2>3. \A n \in Id : status'[n] = "failed" => n \in unconfigured' \/ tried'[n] >= MaxAttempts
    BY <2>1, BoundsAssumption
  <2>4. \A f \in Executor : pc'[f] # "idle" => made'[f] <= tried'[note'[f]]
    BY <2>1, <2>2
  <2>5. \A f \in Executor : pc'[f] = "final" =>
          made'[f] + 1 >= MaxAttempts /\ tried'[note'[f]] >= MaxAttempts
    BY <2>1, <2>2, BoundsAssumption
  <2> QED
    BY <2>2, <2>3, <2>4, <2>5
<1> QED
  BY <1>2, <1>3, <1>4

\* As EndDelivery, of a step that completes the job of a settled row.
LEMMA EndCompleted ==
  ASSUME DeliveryInvariant, NEW e \in Executor, note[e] \in Id, GoIdle(e), Complete(e),
         NEW s \in {"sent", "failed"},
         status' = [status EXCEPT ![note[e]] = s],
         s = "sent" => accepted[note[e]] > 0,
         s = "failed" => note[e] \in unconfigured \/ tried[note[e]] >= MaxAttempts,
         UNCHANGED << unqueued, batch, historyVars >>
  PROVE  DeliveryInvariant'
<1> USE DEF DeliveryInvariant, SentInvariant, AttemptsInvariant, SettledInvariant, CompletedIsSettled,
            Types, Step
<1> USE DEF NotificationStatus, historyVars
<1>1. /\ job' \in [Id -> JobRow]
      /\ \A n \in Id : job'[n].attempts \in {job[n].attempts, 0}
      /\ \A n \in Id \ {note[e]} : job'[n] = job[n]
  BY CompleteJob
<1>2. \A n \in Id : job'[n].attempts <= tried'[n]
  BY <1>1
<1>3. \A n \in Id : job'[n].state = "completed" => status'[n] \in {"sent", "failed"}
  BY <1>1
<1>4. \A n \in Id : status'[n] = "sent" => accepted[n] > 0
  OBVIOUS
<1>5. \A n \in Id : status'[n] = "failed" => n \in unconfigured \/ tried[n] >= MaxAttempts
  OBVIOUS
<1>6. /\ status' \in [Id -> NotificationStatus \cup {"none"}]
      /\ tried' \in [Id -> Nat] /\ \A n \in Id : tried[n] <= tried'[n]
  OBVIOUS
<1>7. UNCHANGED << unqueued, batch, accepted, unconfigured >>
  OBVIOUS
<1> QED
  BY ONLY DeliveryInvariant, e \in Executor, GoIdle(e),
          <1>1, <1>2, <1>3, <1>4, <1>5, <1>6, <1>7, EndDelivery

\* processNotificationJob and dispatchNotification.
LEMMA DeliverySteps ==
  ASSUME DeliveryInvariant, NEW e \in Executor, Proceed(e)
  PROVE  DeliveryInvariant'
<1> USE DEF DeliveryInvariant, SentInvariant, AttemptsInvariant, SettledInvariant, CompletedIsSettled,
            Types, Step
<1>1. CASE ReadPending(e)
  BY <1>1 DEF ReadPending, Goto, rowVars, historyVars
<1>2. CASE SkipSent(e)
  <2>1. note[e] \in Id /\ status[note[e]] = "sent" /\ Complete(e)
    BY <1>2 DEF SkipSent
  <2>2. status' = [status EXCEPT ![note[e]] = "sent"] /\ accepted[note[e]] > 0
    BY <1>2, <2>1 DEF SkipSent, rowVars
  <2> QED
    BY <1>2, <2>1, <2>2, EndCompleted DEF SkipSent, rowVars
<1>3. CASE Send(e)
  <2>1. note[e] \in Id /\ pc[e] = "send"
    BY <1>3 DEF Send
  <2>2. CASE accepted' = [accepted EXCEPT ![note[e]] = @ + 1] /\ unconfigured' = unconfigured
    BY <1>3, <2>1, <2>2 DEF Send, rowVars
  <2>3. CASE accepted' = accepted
    BY <1>3, <2>1, <2>3 DEF Send, rowVars
  <2> QED
    BY <1>3, <2>2, <2>3 DEF Send
<1>4. CASE RecordSent(e)
  <2>1. note[e] \in Id /\ Complete(e)
    BY <1>4 DEF RecordSent
  <2> QED
    BY <1>4, <2>1, EndCompleted DEF RecordSent
<1>5. CASE RefuseUnconfigured(e)
  <2>1. note[e] \in Id /\ Complete(e)
    BY <1>5 DEF RefuseUnconfigured
  <2> QED
    BY <1>5, <2>1, EndCompleted DEF RefuseUnconfigured
<1>6. CASE HandleError(e)
  <2>1. note[e] \in Id /\ tried' = [tried EXCEPT ![note[e]] = @ + 1]
    BY <1>6 DEF HandleError
  <2>2. CASE made[e] + 1 < MaxAttempts
    <3>1. Fail(e) /\ GoIdle(e)
      BY <1>6, <2>2 DEF HandleError
    <3>2. /\ job' \in [Id -> JobRow]
          /\ \A n \in Id : \/ job'[n].attempts \in {job[n].attempts, 0}
                           \/ n = note[e] /\ job'[n].attempts = made[e] + 1
          /\ \A n \in Id : job'[n].state = "completed" => job[n].state = "completed"
      BY <2>1, <3>1, FailJob
    <3>3. made[e] <= tried[note[e]]
      BY <1>6 DEF HandleError
    <3>4. \A n \in Id : tried[n] <= tried'[n] /\ tried'[n] \in Nat
      BY <2>1
    <3>5. \A n \in Id : job'[n].attempts <= tried'[n]
      <4>1. tried'[note[e]] = tried[note[e]] + 1
        BY <2>1
      <4>2. \A n \in Id : job[n].attempts <= tried[n] /\ job[n].attempts \in Nat /\ tried[n] \in Nat
        BY DEF JobRow
      <4>3. made[e] \in Nat /\ tried[note[e]] \in Nat
        BY <2>1
      <4> QED
        BY ONLY <3>2, <3>3, <3>4, <4>1, <4>2, <4>3
    <3>6. UNCHANGED << unqueued, batch, accepted, unconfigured, status >>
      BY <1>6 DEF HandleError, rowVars
    <3>7. tried' \in [Id -> Nat]
      BY <2>1
    <3>8. /\ status' \in [Id -> NotificationStatus \cup {"none"}]
          /\ \A n \in Id : job'[n].state = "completed" => status'[n] \in {"sent", "failed"}
          /\ \A n \in Id : status'[n] = "sent" => accepted[n] > 0
          /\ \A n \in Id : status'[n] = "failed" => n \in unconfigured \/ tried[n] >= MaxAttempts
      BY <3>2, <3>6
    <3> QED
      BY ONLY DeliveryInvariant, e \in Executor, <3>1, <3>2, <3>4, <3>5, <3>6, <3>7, <3>8, EndDelivery
  <2>3. CASE ~ (made[e] + 1 < MaxAttempts)
    BY <1>6, <2>1, <2>3, BoundsAssumption DEF HandleError, rowVars, JobRow
  <2> QED
    BY <2>2, <2>3
<1>7. CASE MarkFailed(e)
  <2>1. note[e] \in Id /\ Complete(e)
    BY <1>7 DEF MarkFailed
  <2> QED
    BY <1>7, <2>1, EndCompleted DEF MarkFailed
<1> QED
  BY <1>1, <1>2, <1>3, <1>4, <1>5, <1>6, <1>7 DEF Proceed

\* A job is taken from the queue, or something goes wrong under an executor.
LEMMA OtherSteps ==
  ASSUME DeliveryInvariant, NEW e \in Executor,
         Take(e) \/ WriteFails(e) \/ LastWordFails(e) \/ Crash(e)
  PROVE  DeliveryInvariant'
<1> USE DEF DeliveryInvariant, SentInvariant, AttemptsInvariant, SettledInvariant, CompletedIsSettled,
            Types, Step
<1>1. CASE Take(e)
  <2> PICK n \in Id : TakeJob(e, n)
    BY <1>1 DEF Take
  <2>1. /\ job' = [job EXCEPT ![n] = [job[n] EXCEPT !.state = "active", !.owner = e]]
        /\ job'[n] \in JobRow /\ job'[n].attempts = job[n].attempts /\ job'[n].state = "active"
    BY DEF TakeJob, JobRow, JobState
  <2> QED
    BY <2>1 DEF TakeJob, rowVars, historyVars, JobRow
<1>2. CASE WriteFails(e)
  BY <1>2 DEF WriteFails, rowVars, historyVars
<1>3. CASE LastWordFails(e)
  <2>1. note[e] \in Id /\ Fail(e) /\ made[e] + 1 >= MaxAttempts
    BY <1>3 DEF LastWordFails
  <2>2. job' \in [Id -> JobRow] /\ \A n \in Id : job'[n].state = "completed" => job[n].state = "completed"
    BY <2>1, FailJob
  <2>3. \A n \in Id : job'[n] = job[n] \/ job'[n] = NewJob("failed")
    <3>1. ~ (made[e] + 1 < MaxAttempts)
      BY <2>1, BoundsAssumption
    <3> QED
      BY <2>1, <3>1 DEF Fail
  <2>4. \A n \in Id : job'[n].attempts <= tried[n]
    BY <2>3 DEF NewJob
  <2> QED
    BY <1>3, <2>1, <2>2, <2>4, EndDelivery DEF LastWordFails, rowVars, historyVars
<1>4. CASE Crash(e)
  BY <1>4 DEF Crash, GoIdle, rowVars, historyVars, NoNote
<1> QED
  BY <1>1, <1>2, <1>3, <1>4

\* A job is taken back.
LEMMA StallSteps ==
  ASSUME DeliveryInvariant, NEW n \in Id, Stall(n)
  PROVE  DeliveryInvariant'
<1> USE DEF DeliveryInvariant, SentInvariant, AttemptsInvariant, SettledInvariant, CompletedIsSettled,
            Types, Step
<1> DEFINE row == [job[n] EXCEPT !.state = "ready", !.owner = NoOne, !.stalls = job[n].stalls + 1]
<1>1. row \in JobRow /\ row.attempts = job[n].attempts /\ row.state = "ready"
  <2> DEFINE old == job[n]
             count == job[n].stalls + 1
  <2>1. /\ row = [old EXCEPT !.state = "ready", !.owner = NoOne, !.stalls = count]
        /\ old \in JobRow /\ count \in Nat
    BY DEF JobRow
  <2> HIDE DEF old, count, row
  <2>2. row \in JobRow /\ row.attempts = old.attempts /\ row.state = "ready"
    BY ONLY <2>1 DEF JobRow, JobState
  <2> QED
    BY <2>2 DEF old
<1>2. NewJob("failed") \in JobRow /\ NewJob("failed").attempts = 0 /\ NewJob("failed").state = "failed"
  BY DEF NewJob, JobRow, JobState
<1>3. job' = [job EXCEPT ![n] = row] \/ job' = [job EXCEPT ![n] = NewJob("failed")]
  BY DEF Stall
<1> HIDE DEF row
<1> QED
  BY <1>1, <1>2, <1>3 DEF Stall, rowVars, executorVars, historyVars, JobRow

\* No step breaks it.
LEMMA DeliveryInductive == DeliveryInvariant /\ [Next]_vars => DeliveryInvariant'
<1> SUFFICES ASSUME DeliveryInvariant, [Next]_vars
             PROVE  DeliveryInvariant'
  OBVIOUS
<1>1. CASE UNCHANGED vars
  BY <1>1 DEF vars, DeliveryInvariant, Types, SentInvariant, AttemptsInvariant, SettledInvariant,
              CompletedIsSettled
<1> QED
  BY <1>1, QueueSteps, DeliverySteps, OtherSteps, StallSteps DEF Next, AllSettled

-----------------------------------------------------------------------------
\* The inductive invariant holds throughout, whatever is assumed of fairness.
LEMMA DeliveryHolds == Spec => []DeliveryInvariant
  BY DeliveryInit, DeliveryInductive, PTL DEF Spec

\* A row says sent only of a message that was accepted outside, whatever crashes,
\* lost writes, repeated attempts and stalled jobs there are.
THEOREM SentIsAccepted == Spec => []SentWasAccepted
<1>1. DeliveryInvariant => SentWasAccepted
  BY DEF DeliveryInvariant, SentInvariant, SentWasAccepted
<1> QED
  BY <1>1, DeliveryHolds, PTL

\* A row is given up only for missing configuration or after MaxAttempts attempts
\* that ended in an error, however often its job was taken back.
THEOREM FailedIsExhausted == Spec => []FailedAfterAllAttempts
<1>1. DeliveryInvariant => FailedAfterAllAttempts
  BY DEF DeliveryInvariant, AttemptsInvariant, FailedAfterAllAttempts
<1> QED
  BY <1>1, DeliveryHolds, PTL

\* No pending row hides behind a completed job, which reconciliation could not
\* add again.
THEOREM CompletedMeansSettled == Spec => []CompletedIsSettled
<1>1. DeliveryInvariant => CompletedIsSettled
  BY DEF DeliveryInvariant, SettledInvariant
<1> QED
  BY <1>1, DeliveryHolds, PTL
-----------------------------------------------------------------------------
(* What a duplicate costs *)

\* Who may still have the message of row n accepted: the executors that have it
\* in hand and have not sent it ...
Carriers(n) == {e \in Executor : note[e] = n /\ pc[e] \in {"read", "send"}}

\* ... and, without a fault of its own, whoever will take its job next.
MayRunAgain(n) ==
  \/ job[n].state \in {"absent", "ready"}
  \/ job[n].state = "active" /\ (OwnerGone(n) \/ pc[job[n].owner] = "error")

NextRun(n) == IF MayRunAgain(n) THEN 1 ELSE 0

\* The messages accepted and those that may still be are paid for: the first is
\* free, every other one costs a fault.
Paid(n) ==
  /\ IsFiniteSet(Carriers(n))
  /\ accepted[n] + Cardinality(Carriers(n)) + NextRun(n) <= 1 + faults

\* Who is idle holds no row, and active jobs are those that have an owner.
HandsInvariant ==
  /\ faults \in Nat
  /\ \A e \in Executor : pc[e] = "idle" => note[e] = NoNote
  /\ \A n \in Id : job[n].state = "active" <=> job[n].owner \in Executor

CostInvariant == HandsInvariant /\ \A n \in Id : Paid(n)

\* Only executor e acts.
Alone(e) == \A f \in Executor \ {e} : pc'[f] = pc[f] /\ note'[f] = note[f]

\* Who does not send any more carries nothing.
LEMMA CarriersShrink ==
  ASSUME NEW e \in Executor, NEW n \in Id, Alone(e), note'[e] \in {note[e], NoNote},
         pc'[e] \notin {"read", "send"}
  PROVE  Carriers(n)' \subseteq Carriers(n) \ {e}
BY DEF Alone, Carriers

\* A job e does not work on is not run again for anything e does.
LEMMA NotRunAgain ==
  ASSUME Types, HandsInvariant, NEW e \in Executor, NEW n \in Id, Alone(e), job'[n] = job[n],
         job[n].owner = e => note[e] # n
  PROVE  MayRunAgain(n)' => MayRunAgain(n)
BY DEF HandsInvariant, Alone, MayRunAgain, OwnerGone

\* A step that sends nothing pays for another run of the job.
LEMMA NothingSent ==
  ASSUME Types, HandsInvariant, NEW n \in Id, Paid(n),
         Carriers(n)' \subseteq Carriers(n), accepted'[n] = accepted[n],
         \/ faults' = faults + 1
         \/ faults' = faults /\ (MayRunAgain(n)' => MayRunAgain(n))
  PROVE  Paid(n)'
<1>1. IsFiniteSet(Carriers(n)') /\ Cardinality(Carriers(n)') <= Cardinality(Carriers(n))
  BY FS_Subset DEF Paid
<1>2. Cardinality(Carriers(n)) \in Nat /\ Cardinality(Carriers(n)') \in Nat
  BY <1>1, FS_CardinalityType DEF Paid
<1>3. accepted[n] \in Nat /\ faults \in Nat
  BY DEF Types, HandsInvariant
<1>4. Cardinality(Carriers(n)') + NextRun(n)' <= Cardinality(Carriers(n)) + NextRun(n) + (faults' - faults)
  BY <1>1, <1>2, <1>3 DEF NextRun
<1>5. NextRun(n) \in Nat /\ NextRun(n)' \in Nat
  BY DEF NextRun
<1>6. QED
  BY <1>1, <1>2, <1>3, <1>4, <1>5 DEF Paid

\* A carrier that sends its message once has paid for it, and if it costs a fault
\* for another run as well.
LEMMA MessageSent ==
  ASSUME Types, HandsInvariant, NEW n \in Id, Paid(n), NEW e \in Carriers(n),
         Carriers(n)' \subseteq Carriers(n) \ {e},
         \/ accepted'[n] = accepted[n] /\ faults' = faults
         \/ accepted'[n] = accepted[n] + 1 /\ faults' = faults + 1
         \/ accepted'[n] = accepted[n] + 1 /\ faults' = faults /\ (MayRunAgain(n)' => MayRunAgain(n))
  PROVE  Paid(n)'
<1>1. /\ IsFiniteSet(Carriers(n) \ {e})
      /\ Cardinality(Carriers(n) \ {e}) = Cardinality(Carriers(n)) - 1
  BY FS_RemoveElement DEF Paid
<1>2. IsFiniteSet(Carriers(n)') /\ Cardinality(Carriers(n)') <= Cardinality(Carriers(n)) - 1
  BY <1>1, FS_Subset
<1>3. Cardinality(Carriers(n)) \in Nat /\ Cardinality(Carriers(n)') \in Nat
  BY <1>2, FS_CardinalityType DEF Paid
<1>4. accepted[n] \in Nat /\ faults \in Nat
  BY DEF Types, HandsInvariant
<1>5. /\ NextRun(n) \in 0 .. 1 /\ NextRun(n)' \in 0 .. 1
      /\ (MayRunAgain(n)' => MayRunAgain(n)) => NextRun(n)' <= NextRun(n)
  BY DEF NextRun
<1>6. QED
  BY <1>2, <1>3, <1>4, <1>5 DEF Paid

\* Nothing is accepted at first, and the first run is free.
LEMMA CostInit == Init => CostInvariant
<1> SUFFICES ASSUME Init PROVE CostInvariant
  OBVIOUS
<1>1. \A n \in Id : Carriers(n) = {}
  BY DEF Init, Carriers
<1>2. HandsInvariant
  BY NamesAssumption DEF Init, HandsInvariant, NewJob
<1>3. \A n \in Id : accepted[n] = 0 /\ NextRun(n) = 1 /\ faults = 0
  BY DEF Init, NextRun, MayRunAgain, NewJob
<1>4. QED
  BY <1>1, <1>2, <1>3, FS_EmptySet DEF CostInvariant, Paid

\* The owner's last word about its job, and nobody else's.
LEMMA JobsEnd ==
  ASSUME Types, HandsInvariant, NEW e \in Executor, note[e] \in Id, Complete(e) \/ Fail(e)
  PROVE  /\ \A n \in Id : job'[n] = job[n] \/ (n = note[e] /\ job[n].owner = e)
         /\ \A n \in Id : job'[n].state = "active" <=> job'[n].owner \in Executor
         /\ Complete(e) /\ job[note[e]].owner = e => job'[note[e]].state = "completed"
<1>1. CASE job[note[e]].owner # e
  BY <1>1 DEF Complete, Fail, HandsInvariant
<1>2. CASE job[note[e]].owner = e /\ Complete(e)
  BY <1>2, NamesAssumption DEF Complete, HandsInvariant, NewJob, Types
<1>3. CASE job[note[e]].owner = e /\ Fail(e)
  <2>1. PICK row : /\ job' = [job EXCEPT ![note[e]] = row]
                   /\ row \in {[job[note[e]] EXCEPT !.state = "ready", !.owner = NoOne, !.attempts = made[e] + 1],
                               NewJob("failed")}
    BY <1>3 DEF Fail
  <2>2. row.state # "active" /\ row.owner = NoOne
    <3>1. CASE row = NewJob("failed")
      BY <3>1 DEF NewJob
    <3>2. CASE row = [job[note[e]] EXCEPT !.state = "ready", !.owner = NoOne, !.attempts = made[e] + 1]
      <4>1. job[note[e]] \in JobRow
        BY DEF Types
      <4>2. QED
        BY <3>2, <4>1 DEF JobRow
    <3>3. QED
      BY <2>1, <3>1, <3>2
  <2>3. Complete(e) => job'[note[e]].state = "completed"
    BY <1>3 DEF Complete, NewJob, Types
  <2>4. QED
    BY <1>3, <2>1, <2>2, <2>3, NamesAssumption DEF Types, HandsInvariant
<1>4. QED
  BY <1>1, <1>2, <1>3

\* Who ends its delivery leaves the job to no one, or to its next run at a cost.
LEMMA EndPaid ==
  ASSUME Types, CostInvariant, NEW e \in Executor, note[e] \in Id, GoIdle(e),
         accepted' = accepted,
         \/ faults' = faults /\ Complete(e)
         \/ faults' = faults /\ Fail(e) /\ pc[e] = "error"
         \/ faults' = faults + 1 /\ Fail(e)
         \/ faults' = faults + 1 /\ job' = job
  PROVE  CostInvariant'
<1>1. Alone(e) /\ pc'[e] = "idle" /\ note'[e] = NoNote
  BY DEF Types, GoIdle, Alone
<1>2. /\ \A n \in Id : job'[n] = job[n] \/ (n = note[e] /\ job[n].owner = e)
      /\ \A n \in Id : job'[n].state = "active" <=> job'[n].owner \in Executor
      /\ Complete(e) /\ job[note[e]].owner = e => job'[note[e]].state = "completed"
  BY JobsEnd DEF CostInvariant, HandsInvariant, Complete, NewJob, Types
<1>3. HandsInvariant'
  BY <1>1, <1>2 DEF CostInvariant, HandsInvariant, Alone
<1>4. ASSUME NEW n \in Id, faults' = faults, MayRunAgain(n)'
      PROVE  MayRunAgain(n)
  <2>1. CASE job[n].owner = e /\ note[e] = n
    <3>1. ~ Complete(e)
      BY <1>2, <1>4, <2>1 DEF MayRunAgain
    <3>2. pc[e] = "error"
      BY <1>4, <3>1 DEF CostInvariant, HandsInvariant
    <3>3. QED
      BY <2>1, <3>2 DEF CostInvariant, HandsInvariant, MayRunAgain
  <2>2. CASE ~ (job[n].owner = e /\ note[e] = n)
    BY <1>1, <1>2, <1>4, <2>2, NotRunAgain DEF CostInvariant
  <2>3. QED
    BY <2>1, <2>2
<1>5. ASSUME NEW n \in Id
      PROVE  Paid(n)'
  <2>1. Carriers(n)' \subseteq Carriers(n) \ {e}
    BY <1>1, CarriersShrink
  <2>2. QED
    BY <1>4, <2>1, NothingSent DEF CostInvariant
<1>6. QED
  BY <1>3, <1>5 DEF CostInvariant

\* Rows, reconciliation and the queue: a job that is added, or read again.
LEMMA QueuePaid ==
  ASSUME Types, CostInvariant,
         CreateNotification \/ EnqueueByCreator \/ ReconcileReads \/ ReconcileEnqueues \/ UNCHANGED vars
  PROVE  CostInvariant'
<1>1. UNCHANGED << executorVars, historyVars >> /\ faults' \in {faults, faults + 1}
  BY DEF CreateNotification, EnqueueByCreator, ReconcileReads, ReconcileEnqueues, Fault, vars,
         executorVars, historyVars
<1>2. job' = job \/ \E n : enqueueNotificationJob(n)
  BY DEF CreateNotification, EnqueueByCreator, ReconcileReads, ReconcileEnqueues, vars
<1>3. \A n \in Id : job'[n] = job[n] \/ (job[n].state = "absent" /\ job'[n] = NewJob("ready"))
  BY <1>2 DEF enqueueNotificationJob, Types
<1>4. HandsInvariant'
  BY <1>1, <1>3, NamesAssumption DEF CostInvariant, HandsInvariant, NewJob, executorVars
<1>5. ASSUME NEW n \in Id
      PROVE  Paid(n)'
  <2>1. Carriers(n)' \subseteq Carriers(n)
    BY <1>1 DEF Carriers, executorVars
  <2>2. MayRunAgain(n)' => MayRunAgain(n)
    BY <1>1, <1>3 DEF MayRunAgain, OwnerGone, executorVars
  <2>3. accepted'[n] = accepted[n]
    BY <1>1 DEF historyVars
  <2>4. QED
    BY <1>1, <2>1, <2>2, <2>3, NothingSent DEF CostInvariant
<1>6. QED
  BY <1>4, <1>5 DEF CostInvariant

\* A job that is taken carries the run that was paid for.
LEMMA TakePaid ==
  ASSUME Types, CostInvariant, NEW e \in Executor, NEW k \in Id, TakeJob(e, k)
  PROVE  CostInvariant'
<1>1. /\ job' = [job EXCEPT ![k] = [job[k] EXCEPT !.state = "active", !.owner = e]]
      /\ job'[k].state = "active" /\ job'[k].owner = e
  BY DEF TakeJob, Types, JobRow
<1>2. /\ pc[e] = "idle" /\ note[e] = NoNote /\ pc'[e] = "read" /\ note'[e] = k /\ Alone(e)
      /\ accepted' = accepted /\ faults' = faults
  BY DEF TakeJob, Types, Alone, CostInvariant, HandsInvariant, historyVars
<1>3. HandsInvariant'
  BY <1>1, <1>2 DEF CostInvariant, HandsInvariant, Alone, Types
<1>4. ASSUME NEW n \in Id \ {k}
      PROVE  Paid(n)'
  <2>1. Carriers(n)' \subseteq Carriers(n)
    BY <1>2 DEF Carriers, Alone
  <2>2. job'[n] = job[n] /\ note[e] # n
    BY <1>1, <1>2 DEF Types, NoNote, Id
  <2>3. QED
    BY <1>2, <2>1, <2>2, NotRunAgain, NothingSent DEF CostInvariant
<1>5. Paid(k)'
  <2>1. e \notin Carriers(k) /\ Carriers(k)' = Carriers(k) \cup {e}
    BY <1>2 DEF Carriers, Alone
  <2>2. MayRunAgain(k) /\ ~ MayRunAgain(k)'
    BY <1>1, <1>2 DEF TakeJob, MayRunAgain, OwnerGone
  <2>3. Paid(k) /\ accepted[k] \in Nat /\ faults \in Nat
    BY DEF CostInvariant, HandsInvariant, Types
  <2>4. /\ IsFiniteSet(Carriers(k)') /\ Cardinality(Carriers(k)') = Cardinality(Carriers(k)) + 1
        /\ Cardinality(Carriers(k)) \in Nat
    BY <2>1, <2>3, FS_AddElement, FS_CardinalityType DEF Paid
  <2>5. NextRun(k) = 1 /\ NextRun(k)' = 0
    BY <2>2 DEF NextRun
  <2>6. accepted'[k] + Cardinality(Carriers(k)') + NextRun(k)' <= 1 + faults'
    BY <1>2, <2>3, <2>4, <2>5 DEF Paid
  <2>7. QED
    BY <2>4, <2>6 DEF Paid
<1>6. QED
  BY <1>3, <1>4, <1>5 DEF CostInvariant

\* A step of an executor that keeps its row and its job: nothing changes for the
\* other rows.
LEMMA StayPaid ==
  ASSUME Types, CostInvariant, NEW e \in Executor, pc[e] # "idle", NEW to \in Step \ {"idle"},
         pc' = [pc EXCEPT ![e] = to], note' = note, job' = job, faults' \in {faults, faults + 1},
         \A n \in Id \ {note[e]} : accepted'[n] = accepted[n],
         note[e] \in Id => Paid(note[e])'
  PROVE  CostInvariant'
<1>1. Alone(e) /\ pc'[e] = to /\ note'[e] = note[e]
  BY DEF Types, Alone
<1>2. HandsInvariant'
  BY <1>1 DEF CostInvariant, HandsInvariant, Alone
<1>3. ASSUME NEW n \in Id \ {note[e]}
      PROVE  Paid(n)'
  <2>1. Carriers(n)' \subseteq Carriers(n)
    BY <1>1, <1>3 DEF Carriers, Alone
  <2>2. MayRunAgain(n)' => MayRunAgain(n)
    BY <1>1, <1>3, NotRunAgain DEF CostInvariant
  <2>3. QED
    BY <2>1, <2>2, NothingSent DEF CostInvariant
<1>4. QED
  BY <1>2, <1>3 DEF CostInvariant

\* A delivery is sent, refused, impossible, or sent with its answer lost.
LEMMA SendPaid ==
  ASSUME Types, CostInvariant, NEW e \in Executor, Send(e)
  PROVE  CostInvariant'
<1> DEFINE n == note[e]
<1>1. /\ pc[e] = "send" /\ n \in Id /\ note' = note /\ job' = job
  BY DEF Send, Types, rowVars
<1>2. PICK to \in {"record", "error", "refuse"} : pc' = [pc EXCEPT ![e] = to]
  BY DEF Send
<1>3. /\ faults' \in {faults, faults + 1}
      /\ \A k \in Id \ {n} : accepted'[k] = accepted[k]
      /\ \/ accepted'[n] = accepted[n] /\ faults' = faults
         \/ accepted'[n] = accepted[n] + 1 /\ faults' = faults + 1
         \/ accepted'[n] = accepted[n] + 1 /\ faults' = faults /\ pc' = [pc EXCEPT ![e] = "record"]
  BY <1>1 DEF Send, Types, Fault
<1>4. Alone(e) /\ pc'[e] = to /\ note'[e] = n
  BY <1>1, <1>2 DEF Types, Alone
<1>5. e \in Carriers(n) /\ Carriers(n)' \subseteq Carriers(n) \ {e}
  BY <1>1, <1>4, CarriersShrink DEF Carriers
<1>6. ASSUME pc' = [pc EXCEPT ![e] = "record"]
      PROVE  MayRunAgain(n)' => MayRunAgain(n)
  <2>1. pc'[e] = "record"
    BY <1>6 DEF Types
  <2>2. QED
    BY <1>1, <1>4, <2>1 DEF CostInvariant, HandsInvariant, MayRunAgain, OwnerGone, Alone
<1>7. Paid(n)'
  BY <1>1, <1>3, <1>5, <1>6, MessageSent DEF CostInvariant
<1>8. QED
  BY <1>1, <1>2, <1>3, <1>7, StayPaid DEF Step

\* The other steps of an executor.
LEMMA ExecutorPaid ==
  ASSUME Types, CostInvariant, NEW e \in Executor,
         Proceed(e) \/ WriteFails(e) \/ LastWordFails(e) \/ Crash(e)
  PROVE  CostInvariant'
<1>1. pc[e] # "idle" /\ note[e] \in Id
  BY DEF Types, Proceed, ReadPending, SkipSent, Send, RecordSent, RefuseUnconfigured, HandleError, MarkFailed,
         WriteFails, LastWordFails, Crash, Goto
<1>2. CASE ReadPending(e)
  <2>1. /\ pc[e] = "read" /\ pc' = [pc EXCEPT ![e] = "send"] /\ pc'[e] = "send"
        /\ note' = note /\ job' = job /\ faults' = faults /\ accepted' = accepted
    BY <1>2 DEF ReadPending, Goto, Types, historyVars
  <2>2. Alone(e) /\ Carriers(note[e])' \subseteq Carriers(note[e])
    BY <2>1 DEF Types, Alone, Carriers
  <2>3. MayRunAgain(note[e])' => MayRunAgain(note[e])
    BY <1>1, <2>1, <2>2 DEF CostInvariant, HandsInvariant, MayRunAgain, OwnerGone, Alone
  <2>4. Paid(note[e])'
    BY <1>1, <2>1, <2>2, <2>3, NothingSent DEF CostInvariant
  <2>5. QED
    BY <1>1, <2>1, <2>4, StayPaid DEF Step
<1>3. ASSUME Complete(e), GoIdle(e), UNCHANGED << historyVars, faults >>
      PROVE  CostInvariant'
  BY <1>1, <1>3, EndPaid DEF historyVars
<1>4. CASE SkipSent(e) \/ RecordSent(e) \/ RefuseUnconfigured(e) \/ MarkFailed(e)
  BY <1>3, <1>4 DEF SkipSent, RecordSent, RefuseUnconfigured, MarkFailed
<1>5. CASE HandleError(e)
  <2>1. CASE made[e] + 1 < MaxAttempts
    BY <1>1, <1>5, <2>1, EndPaid DEF HandleError
  <2>2. CASE ~ (made[e] + 1 < MaxAttempts)
    <3>1. /\ pc' = [pc EXCEPT ![e] = "final"] /\ pc'[e] = "final"
          /\ note' = note /\ job' = job /\ faults' = faults /\ accepted' = accepted
      BY <1>5, <2>2 DEF HandleError, Types
    <3>2. Alone(e) /\ Carriers(note[e])' \subseteq Carriers(note[e])
      BY <3>1 DEF Types, Alone, Carriers
    <3>3. MayRunAgain(note[e])' => MayRunAgain(note[e])
      BY <1>1, <3>1, <3>2 DEF CostInvariant, HandsInvariant, MayRunAgain, OwnerGone, Alone
    <3>4. Paid(note[e])'
      BY <1>1, <3>1, <3>2, <3>3, NothingSent DEF CostInvariant
    <3>5. QED
      BY <1>1, <3>1, <3>4, StayPaid DEF Step
  <2>3. QED
    BY <2>1, <2>2
<1>6. CASE WriteFails(e)
  <2>1. /\ pc' = [pc EXCEPT ![e] = "error"] /\ pc'[e] = "error"
        /\ note' = note /\ job' = job /\ faults' = faults + 1 /\ accepted' = accepted
    BY <1>6 DEF WriteFails, Fault, Types, historyVars
  <2>2. Carriers(note[e])' \subseteq Carriers(note[e])
    BY <2>1 DEF Types, Carriers
  <2>3. Paid(note[e])'
    BY <1>1, <2>1, <2>2, NothingSent DEF CostInvariant
  <2>4. QED
    BY <1>1, <2>1, <2>3, StayPaid DEF Step
<1>7. CASE LastWordFails(e)
  BY <1>1, <1>7, EndPaid DEF LastWordFails, Fault, historyVars
<1>8. CASE Crash(e)
  BY <1>1, <1>8, EndPaid DEF Crash, Fault, historyVars
<1>9. QED
  BY <1>2, <1>4, <1>5, <1>6, <1>7, <1>8, SendPaid DEF Proceed

\* A stalled job is run again: its owner is gone, or a fault pays for it.
LEMMA StallPaid ==
  ASSUME Types, CostInvariant, NEW k \in Id, Stall(k)
  PROVE  CostInvariant'
<1>1. PICK row : /\ job' = [job EXCEPT ![k] = row]
                 /\ row \in {[job[k] EXCEPT !.state = "ready", !.owner = NoOne, !.stalls = job[k].stalls + 1],
                             NewJob("failed")}
  BY DEF Stall
<1>2. row.state # "active" /\ row.owner = NoOne
  <2>1. CASE row = NewJob("failed")
    BY <2>1 DEF NewJob
  <2>2. CASE row = [job[k] EXCEPT !.state = "ready", !.owner = NoOne, !.stalls = job[k].stalls + 1]
    <3>1. job[k] \in JobRow
      BY DEF Types
    <3>2. QED
      BY <2>2, <3>1 DEF JobRow
  <2>3. QED
    BY <1>1, <2>1, <2>2
<1>3. /\ UNCHANGED << executorVars, historyVars >>
      /\ faults' = faults + 1 \/ (faults' = faults /\ MayRunAgain(k))
  <2>1. job[k].state = "active" /\ ((OwnerGone(k) /\ faults' = faults) \/ Fault)
    BY DEF Stall
  <2>2. faults' = faults + 1 \/ (faults' = faults /\ MayRunAgain(k))
    BY <2>1 DEF Fault, MayRunAgain
  <2>3. UNCHANGED << executorVars, historyVars >>
    BY DEF Stall
  <2>4. QED
    BY <2>2, <2>3
<1>4. HandsInvariant'
  BY <1>1, <1>2, <1>3, NamesAssumption DEF CostInvariant, HandsInvariant, Types, executorVars
<1>5. ASSUME NEW n \in Id
      PROVE  Paid(n)'
  <2>1. Carriers(n)' \subseteq Carriers(n) /\ accepted'[n] = accepted[n]
    BY <1>3 DEF Carriers, executorVars, historyVars
  <2>2. n # k => (MayRunAgain(n)' => MayRunAgain(n))
    BY <1>1, <1>3 DEF MayRunAgain, OwnerGone, executorVars, Types
  <2>3. QED
    BY <1>3, <2>1, <2>2, NothingSent DEF CostInvariant
<1>6. QED
  BY <1>4, <1>5 DEF CostInvariant

\* Every message is paid for throughout.
LEMMA CostHolds == Spec => []CostInvariant
<1>1. DeliveryInvariant /\ CostInvariant /\ [Next]_vars => CostInvariant'
  <2> SUFFICES ASSUME Types, CostInvariant, [Next]_vars PROVE CostInvariant'
    BY DEF DeliveryInvariant
  <2>1. ASSUME NEW e \in Executor, Take(e)
        PROVE  CostInvariant'
    BY <2>1, TakePaid DEF Take
  <2>2. QED
    BY <2>1, QueuePaid, ExecutorPaid, StallPaid DEF Next, AllSettled
<1>2. QED
  BY <1>1, CostInit, DeliveryHolds, PTL DEF Spec

\* For any number of rows, executors, attempts and stalls: a row's message is
\* accepted at most once more than faults happened, whatever was retried.
THEOREM DuplicatesArePaid == Spec => []DuplicatesCostFaults
<1>1. DeliveryInvariant /\ CostInvariant => DuplicatesCostFaults
  <2> SUFFICES ASSUME Types, CostInvariant, NEW n \in Id PROVE accepted[n] <= 1 + faults
    BY DEF DeliveryInvariant, DuplicatesCostFaults
  <2>1. Paid(n) /\ accepted[n] \in Nat /\ faults \in Nat
    BY DEF CostInvariant, HandsInvariant, Types
  <2>2. Cardinality(Carriers(n)) \in Nat /\ NextRun(n) \in Nat
    BY <2>1, FS_CardinalityType DEF Paid, NextRun
  <2>3. QED
    BY <2>1, <2>2 DEF Paid
<1>2. QED
  BY <1>1, DeliveryHolds, CostHolds, PTL
=============================================================================
