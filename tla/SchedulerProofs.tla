--------------------------- MODULE SchedulerProofs ---------------------------
(***************************************************************************)
(* The tick lock keeps scheduler instances apart, and every slot is        *)
(* released once its minute is over, for any number of instances, of       *)
(* websites, intervals, errors and crashes.                                *)
(*                                                                         *)
(*   HolderInvariant  who is inside enqueueSlot, unexpired, is named by    *)
(*                    the key;                                             *)
(*   SlotInvariant    a website leaves an instance's list only when it has *)
(*                    had a job, so a slot remembered is settled;          *)
(*   LockInvariant    a lock that nobody will release blocks only minutes  *)
(*                    that are excused;                                    *)
(*   OnTime           as long as no tick outlasts its quarter, who is at   *)
(*                    work took the lock in this quarter, and the last     *)
(*                    tick of a minute leaves its slot settled.            *)
(***************************************************************************)
EXTENDS Scheduler, TLAPS

\* An instance inside enqueueSlot whose lock has not expired holds the lock.
\* OneScheduler alone is not inductive: without the key naming the holder, a
\* second SET NX could not be told to be refused.
HolderInvariant ==
  /\ pc \in [Instance -> Step]
  /\ \A i \in Instance : pc[i] \in Holding /\ i \notin lost => lock = i

\* Nobody is inside at first.
LEMMA HolderInit == Init => HolderInvariant
  BY DEF Init, HolderInvariant, Step, Holding

\* The steps of tick, enqueueSlot and enqueueMonitoringJob.
LEMMA HolderProceeds ==
  ASSUME HolderInvariant, NEW i \in Instance, Proceed(i)
  PROVE  HolderInvariant'
<1> USE DEF HolderInvariant, Step, Holding
<1>1. CASE Tick(i)
  BY <1>1 DEF Tick, Goto, lockVars
<1>2. CASE TickReturns(i)
  BY <1>2 DEF TickReturns, tickVars, lockVars
<1>3. CASE AcquireSchedulerLock(i)
  <2>1. \A j \in Instance : ~ (pc[j] \in Holding /\ j \notin lost)
    BY <1>3, NamesAssumption DEF AcquireSchedulerLock
  <2> QED
    BY <1>3, <2>1 DEF AcquireSchedulerLock, Goto
<1>4. CASE SkipLockHeld(i)
  BY <1>4 DEF SkipLockHeld, Goto, lockVars
<1>5. CASE ListWebsites(i)
  BY <1>5 DEF ListWebsites, lockVars
<1>6. CASE FindJob(i)
  BY <1>6 DEF FindJob, lockVars
<1>7. CASE KeepJob(i)
  BY <1>7 DEF KeepJob, NextWebsite, lockVars
<1>8. CASE RemoveJob(i)
  BY <1>8 DEF RemoveJob, Goto, lockVars
<1>9. CASE AddJob(i)
  BY <1>9 DEF AddJob, NextWebsite, lockVars
<1>10. CASE ReleaseSchedulerLock(i)
  BY <1>10 DEF ReleaseSchedulerLock, Goto
<1> QED
  BY <1>1, <1>2, <1>3, <1>4, <1>5, <1>6, <1>7, <1>8, <1>9, <1>10 DEF Proceed

\* Errors, lost answers, crashes and restarts.
LEMMA HolderSurvivesFaults ==
  ASSUME HolderInvariant, NEW i \in Instance,
         ThrowInSlot(i) \/ ThrowAtLock(i) \/ LoseAnswer(i) \/ Crash(i) \/ Start(i)
  PROVE  HolderInvariant'
<1> USE DEF HolderInvariant, Step, Holding
<1>1. CASE ThrowInSlot(i)
  BY <1>1 DEF ThrowInSlot, lockVars
<1>2. CASE ThrowAtLock(i)
  BY <1>2 DEF ThrowAtLock
<1>3. CASE LoseAnswer(i)
  <2>1. \A j \in Instance : ~ (pc[j] \in Holding /\ j \notin lost)
    BY <1>3, NamesAssumption DEF LoseAnswer
  <2> QED
    BY <1>3, <2>1 DEF LoseAnswer, Goto
<1>4. CASE Crash(i)
  BY <1>4 DEF Crash
<1>5. CASE Start(i)
  BY <1>5 DEF Start, Goto, lockVars
<1> QED
  BY <1>1, <1>2, <1>3, <1>4, <1>5

\* No step breaks it.
LEMMA HolderInductive == HolderInvariant /\ [Next]_vars => HolderInvariant'
<1> SUFFICES ASSUME HolderInvariant, [Next]_vars
             PROVE  HolderInvariant'
  OBVIOUS
<1>1. ASSUME NEW i \in Instance, Proceed(i)
      PROVE  HolderInvariant'
  BY <1>1, HolderProceeds
<1>2. ASSUME NEW i \in Instance,
             ThrowInSlot(i) \/ ThrowAtLock(i) \/ LoseAnswer(i) \/ Crash(i) \/ Start(i)
      PROVE  HolderInvariant'
  BY <1>2, HolderSurvivesFaults
<1>3. ASSUME NEW m \in Minute, NEW w \in Website, WorkerStep(m, w)
      PROVE  HolderInvariant'
  BY <1>3 DEF WorkerStep, tickVars, lockVars, HolderInvariant
<1>4. CASE ExpireLock
  BY <1>4 DEF ExpireLock, tickVars, HolderInvariant
<1>5. CASE EndQuarter
  BY <1>5 DEF EndQuarter, tickVars, lockVars, HolderInvariant
<1>6. CASE UNCHANGED vars
  BY <1>6 DEF vars, HolderInvariant
<1> QED
  BY <1>1, <1>2, <1>3, <1>4, <1>5, <1>6 DEF Next, HorizonReached

\* Whatever errors, crashes, lost answers and slow ticks there are: of the
\* instances inside enqueueSlot, at most one has not outlived its 55 seconds.
THEOREM OneTicks == Spec => []OneScheduler
<1>1. Init => HolderInvariant
  BY HolderInit
<1>2. HolderInvariant /\ [Next]_vars => HolderInvariant'
  BY HolderInductive
<1>3. HolderInvariant => OneScheduler
  BY DEF HolderInvariant, OneScheduler
<1> QED
  BY <1>1, <1>2, <1>3, PTL DEF Spec

-----------------------------------------------------------------------------
(* Minutes and quarters *)

\* The clock never leaves the minutes of the horizon.
LEMMA MinuteInHorizon ==
  ASSUME NEW q \in 0 .. MaxQuarter
  PROVE  MinuteOf(q) \in Minute /\ MinuteOf(q) \in 0 .. MinuteOf(MaxQuarter) /\ MinuteOf(q) # NoMinute
BY BoundsAssumption DEF MinuteOf, Minute, NoMinute

\* A quarter later it is the same minute, or the next one after its last quarter.
LEMMA QuarterLater ==
  ASSUME NEW q \in Nat
  PROVE  MinuteOf(q + 1) = IF q = LastQuarter(MinuteOf(q)) THEN MinuteOf(q) + 1 ELSE MinuteOf(q)
BY DEF MinuteOf, LastQuarter

\* A lock that still blocks the last tick of a minute blocks the minute.
LEMMA BlocksLastTick ==
  ASSUME NEW q \in Nat, NEW s \in Nat, q = LastQuarter(MinuteOf(q)), s <= q, q <= s + 4
  PROVE  MinuteOf(q) \in Blocked(s)
BY DEF MinuteOf, LastQuarter, Blocked

\* A lock blocks the minute it was set in, and no minute long after the horizon.
LEMMA BlockedInHorizon ==
  ASSUME NEW q \in 0 .. MaxQuarter
  PROVE  Blocked(q) \subseteq 0 .. MinuteOf(MaxQuarter) + 1 /\ MinuteOf(q) \in Blocked(q)
<1>1. MinuteOf(q) \in 0 .. MinuteOf(MaxQuarter) /\ MinuteOf(MaxQuarter) \in Nat
  BY MinuteInHorizon, BoundsAssumption DEF MinuteOf
<1>2. QED
  BY <1>1 DEF Blocked

-----------------------------------------------------------------------------
(* Types *)

\* The website in hand is one of those left.
LEMMA CurrentIsLeft ==
  ASSUME NEW i, todo[i] # {}
  PROVE  Current(i) \in todo[i]
BY DEF Current

\* Who looks for a job has a slot and a website in hand.
HandsFull ==
  /\ \A i \in Instance : Ticking(i) => slot[i] \in Minute
  /\ \A i \in Instance : pc[i] \in {"lookup", "remove", "add"} => todo[i] # {}

\* Every variable has its type throughout.
TypesHold == TypeOK /\ HandsFull

\* At first nobody has anything in hand.
LEMMA TypesInit == Init => TypesHold
<1> SUFFICES ASSUME Init PROVE TypesHold
  OBVIOUS
<1>1. 0 \in 0 .. MaxQuarter /\ 0 \in 0 .. MaxFaults
  BY BoundsAssumption
<1>2. TypeOK
  <2>1. job \in [Minute -> [Website -> JobState]] /\ added \in [Minute -> [Website -> 0 .. 2]]
    BY DEF Init, JobState
  <2>2. slow \in BOOLEAN
    BY DEF Init
  <2>3. QED
    BY <1>1, <2>1, <2>2 DEF Init, TypeOK, Step
<1>3. HandsFull
  BY DEF Init, HandsFull, Ticking
<1>4. QED
  BY <1>2, <1>3 DEF TypesHold

\* The steps of tick.
LEMMA TypesTick ==
  ASSUME TypesHold, NEW i \in Instance,
         \/ Tick(i) \/ TickReturns(i) \/ AcquireSchedulerLock(i) \/ SkipLockHeld(i)
         \/ ReleaseSchedulerLock(i) \/ Start(i)
  PROVE  TypesHold'
<1> USE DEF TypesHold, HandsFull, Ticking, Goto, lockVars, jobVars, historyVars, tickVars
<1>1. quarter \in 0 .. MaxQuarter /\ 0 \in 0 .. MaxQuarter /\ MinuteOf(quarter) \in Minute
  BY MinuteInHorizon, BoundsAssumption DEF TypeOK
<1>2. CASE Tick(i)
  BY <1>1, <1>2 DEF Tick, TypeOK, Step
<1>3. CASE TickReturns(i)
  BY <1>1, <1>3 DEF TickReturns, TypeOK, Step
<1>4. CASE AcquireSchedulerLock(i)
  BY <1>1, <1>4 DEF AcquireSchedulerLock, TypeOK, Step
<1>5. CASE SkipLockHeld(i)
  BY <1>1, <1>5 DEF SkipLockHeld, TypeOK, Step
<1>6. CASE ReleaseSchedulerLock(i)
  BY <1>1, <1>6 DEF ReleaseSchedulerLock, TypeOK, Step
<1>7. CASE Start(i)
  BY <1>1, <1>7 DEF Start, TypeOK, Step
<1>8. QED
  BY <1>2, <1>3, <1>4, <1>5, <1>6, <1>7

\* The steps of enqueueSlot and enqueueMonitoringJob.
LEMMA TypesEnqueue ==
  ASSUME TypesHold, NEW i \in Instance,
         ListWebsites(i) \/ FindJob(i) \/ KeepJob(i) \/ RemoveJob(i) \/ AddJob(i)
  PROVE  TypesHold'
<1> USE DEF TypesHold, HandsFull, Ticking, Goto, lockVars, jobVars, historyVars, tickVars
<1>1. CASE ListWebsites(i)
  <2>1. DueWebsites(slot[i]) \in SUBSET Website
    BY DEF DueWebsites
  <2>2. QED
    BY <1>1, <2>1 DEF ListWebsites, TypeOK, Step
<1>2. CASE FindJob(i)
  BY <1>2 DEF FindJob, TypeOK, Step
<1>3. ASSUME NextWebsite(i), pc[i] \in {"lookup", "add"},
             UNCHANGED << quarter, slot, lastSlot, fired, lockVars, historyVars, faults >>,
             job' \in [Minute -> [Website -> JobState]], added' \in [Minute -> [Website -> 0 .. 2]]
      PROVE  TypesHold'
  <2>1. todo[i] # {} /\ Current(i) \in todo[i]
    BY <1>3, CurrentIsLeft
  <2>2. TypeOK'
    BY <1>3, <2>1 DEF NextWebsite, TypeOK, Step
  <2>3. HandsFull'
    BY <1>3, <2>1 DEF NextWebsite, TypeOK, Step
  <2>4. QED
    BY <2>2, <2>3
<1>4. CASE KeepJob(i)
  BY <1>3, <1>4 DEF KeepJob, TypeOK
<1>5. ASSUME pc[i] \in {"lookup", "remove", "add"}
      PROVE  slot[i] \in Minute /\ Current(i) \in Website
  BY <1>5, CurrentIsLeft DEF TypeOK
<1>6. CASE RemoveJob(i)
  <2>1. job' \in [Minute -> [Website -> JobState]]
    BY <1>5, <1>6 DEF RemoveJob, TypeOK, JobState
  <2>2. QED
    BY <1>6, <2>1 DEF RemoveJob, TypeOK, Step
<1>7. CASE AddJob(i)
  <2>1. job' \in [Minute -> [Website -> JobState]] /\ added' \in [Minute -> [Website -> 0 .. 2]]
    <3>1. CASE State(i) = "absent"
      <4>1. job' \in [Minute -> [Website -> JobState]]
        BY <1>5, <1>7, <3>1 DEF AddJob, TypeOK, JobState
      <4>2. PICK m \in Minute, w \in Website : m = slot[i] /\ w = Current(i)
        BY <1>5, <1>7 DEF AddJob
      <4>3. added[m][w] \in 0 .. 2
        BY DEF TypeOK
      <4>4. PICK n \in 0 .. 2 : added' = [added EXCEPT ![m][w] = n]
        BY <1>7, <3>1, <4>2, <4>3 DEF AddJob
      <4>5. QED
        BY <4>1, <4>4 DEF TypeOK
    <3>2. CASE State(i) # "absent"
      BY <1>7, <3>2 DEF AddJob, TypeOK
    <3>3. QED
      BY <3>1, <3>2
  <2>2. QED
    BY <1>3, <1>7, <2>1 DEF AddJob
<1>8. QED
  BY <1>1, <1>2, <1>4, <1>6, <1>7

\* Errors, lost answers and crashes.
LEMMA TypesFaults ==
  ASSUME TypesHold, NEW i \in Instance,
         ThrowInSlot(i) \/ ThrowAtLock(i) \/ LoseAnswer(i) \/ Crash(i)
  PROVE  TypesHold'
<1> USE DEF TypesHold, HandsFull, Ticking, Goto, lockVars, jobVars, historyVars, tickVars
<1> DEFINE Slots == 0 .. MinuteOf(MaxQuarter) + 1
<1>1. /\ quarter \in 0 .. MaxQuarter /\ since \in 0 .. MaxQuarter
      /\ Blocked(quarter) \subseteq Slots /\ Blocked(since) \subseteq Slots
  BY BlockedInHorizon DEF TypeOK
<1>2. slot[i] \in Minute => slot[i] \in Slots
  BY BoundsAssumption DEF Minute, MinuteOf
<1>3. ASSUME Fault
      PROVE  faults' \in 0 .. MaxFaults
  BY <1>3, BoundsAssumption DEF Fault, TypeOK
<1> HIDE DEF Slots
<1>4. CASE ThrowInSlot(i)
  <2>1. excused' \subseteq Slots
    BY <1>2, <1>4 DEF ThrowInSlot, TypeOK, Slots
  <2>2. QED
    BY <1>3, <1>4, <2>1 DEF ThrowInSlot, TypeOK, Step, Slots
<1>5. CASE ThrowAtLock(i)
  <2>1. excused' \subseteq Slots
    BY <1>1, <1>2, <1>5 DEF ThrowAtLock, TypeOK, Slots, Abandoned, LastTry
  <2>2. QED
    BY <1>3, <1>5, <2>1 DEF ThrowAtLock, TypeOK, Step, Slots
<1>6. CASE LoseAnswer(i)
  <2>1. excused' \subseteq Slots
    BY <1>1, <1>6 DEF LoseAnswer, TypeOK, Slots
  <2>2. QED
    BY <1>1, <1>3, <1>6, <2>1 DEF LoseAnswer, TypeOK, Step, Slots
<1>7. CASE Crash(i)
  <2>1. excused' \subseteq Slots
    BY <1>1, <1>2, <1>7 DEF Crash, TypeOK, Slots, Abandoned, Holding
  <2>2. QED
    BY <1>3, <1>7, <2>1 DEF Crash, TypeOK, Step, Slots
<1>8. QED
  BY <1>4, <1>5, <1>6, <1>7

\* Every step keeps the types.
LEMMA TypesInductive == TypesHold /\ [Next]_vars => TypesHold'
<1> SUFFICES ASSUME TypesHold, [Next]_vars PROVE TypesHold'
  OBVIOUS
<1>1. ASSUME NEW m \in Minute, NEW w \in Website, WorkerStep(m, w)
      PROVE  TypesHold'
  <2>1. job' \in [Minute -> [Website -> JobState]]
    <3>1. PICK to \in JobState : job' = [job EXCEPT ![m][w] = to]
      BY <1>1 DEF WorkerStep, JobState
    <3>2. QED
      BY <3>1 DEF TypesHold, TypeOK
  <2>2. QED
    BY <1>1, <2>1 DEF TypesHold, HandsFull, Ticking, WorkerStep, TypeOK, tickVars, lockVars, historyVars
<1>2. CASE ExpireLock
  <2>1. 0 \in 0 .. MaxQuarter
    BY BoundsAssumption
  <2>2. QED
    BY <1>2, <2>1 DEF TypesHold, HandsFull, Ticking, ExpireLock, TypeOK, tickVars, jobVars, historyVars
<1>3. CASE EndQuarter
  <2>1. quarter' \in 0 .. MaxQuarter
    BY <1>3, BoundsAssumption DEF EndQuarter, TypesHold, TypeOK
  <2>2. MinuteOf(quarter) \in 0 .. MinuteOf(MaxQuarter) + 1
    BY MinuteInHorizon, BoundsAssumption DEF TypesHold, TypeOK, MinuteOf
  <2>3. slow' \in BOOLEAN /\ excused' \subseteq 0 .. MinuteOf(MaxQuarter) + 1
    BY <1>3, <2>2 DEF EndQuarter, TypesHold, TypeOK
  <2>4. QED
    BY <1>3, <2>1, <2>3 DEF EndQuarter, TypesHold, HandsFull, Ticking, TypeOK, tickVars, lockVars, jobVars
<1>4. CASE UNCHANGED vars
  BY <1>4 DEF vars, TypesHold, HandsFull, Ticking, TypeOK
<1>5. QED
  BY <1>1, <1>2, <1>3, <1>4, TypesTick, TypesEnqueue, TypesFaults DEF Next, Proceed, HorizonReached

-----------------------------------------------------------------------------
(* What becomes of a slot *)

\* A slot is settled when something broke in it, or every due website had a job.
Settled(m) == m \in excused \/ \A w \in DueWebsites(m) : added[m][w] > 0

\* An instance has had every website of its slot that is not left to it, has
\* settled the slot when it releases the lock, and is at it or has settled it when
\* it remembers it.
Serves(i) ==
  /\ pc[i] \in {"lookup", "remove", "add"} =>
       \A w \in DueWebsites(slot[i]) \ todo[i] : added[slot[i]][w] > 0
  /\ pc[i] = "release" => Settled(slot[i])
  /\ lastSlot[i] \in Minute => Settled(lastSlot[i]) \/ (pc[i] \in Holding /\ slot[i] = lastSlot[i])

\* Every job was added, and every instance serves its slot.
SlotInvariant ==
  /\ \A m \in Minute, w \in Website : job[m][w] # "absent" => added[m][w] > 0
  /\ \A i \in Instance : Serves(i)

\* Only instance i acts, and neither jobs added nor excuses are taken back.
OnlyActs(i) ==
  \A j \in Instance \ {i} :
    pc'[j] = pc[j] /\ slot'[j] = slot[j] /\ todo'[j] = todo[j] /\ lastSlot'[j] = lastSlot[j]
Grows ==
  /\ excused \subseteq excused'
  /\ \A m \in Minute, w \in Website : added[m][w] > 0 => added'[m][w] > 0

\* What is settled stays settled.
LEMMA SettledStays ==
  ASSUME Grows, NEW m \in Minute, Settled(m)
  PROVE  Settled(m)'
BY DEF Grows, Settled, DueWebsites

\* Whoever acts, the others serve as they did.
LEMMA OthersServe ==
  ASSUME TypesHold, Grows, NEW j \in Instance, Serves(j),
         pc'[j] = pc[j], slot'[j] = slot[j], todo'[j] = todo[j], lastSlot'[j] = lastSlot[j]
  PROVE  Serves(j)'
<1>1. Ticking(j) => slot[j] \in Minute
  BY DEF TypesHold, HandsFull
<1>2. pc'[j] \in {"lookup", "remove", "add"} =>
        \A w \in DueWebsites(slot'[j]) \ todo'[j] : added'[slot'[j]][w] > 0
  BY <1>1 DEF Serves, Grows, DueWebsites, Ticking
<1>3. pc'[j] = "release" => Settled(slot[j])'
  BY <1>1, SettledStays DEF Serves, Ticking
<1>4. lastSlot'[j] \in Minute => Settled(lastSlot[j])' \/ (pc'[j] \in Holding /\ slot'[j] = lastSlot'[j])
  BY SettledStays DEF Serves
<1>5. QED
  BY <1>2, <1>3, <1>4 DEF Serves, Settled

\* No slot is served at first, and none is remembered.
LEMMA SlotInit == Init => SlotInvariant
  BY DEF Init, SlotInvariant, Serves, NoMinute, Minute

\* Steps of tick and faults: what the instance has in hand ends, or begins.
LEMMA TickServes ==
  ASSUME TypesHold, SlotInvariant, NEW i \in Instance,
         \/ Tick(i) \/ TickReturns(i) \/ AcquireSchedulerLock(i) \/ SkipLockHeld(i)
         \/ ReleaseSchedulerLock(i) \/ Start(i)
         \/ ThrowInSlot(i) \/ ThrowAtLock(i) \/ LoseAnswer(i) \/ Crash(i)
  PROVE  SlotInvariant'
<1> USE DEF Goto, tickVars, lockVars, jobVars, historyVars
<1>1. job' = job /\ added' = added /\ excused \subseteq excused'
  BY DEF Tick, TickReturns, AcquireSchedulerLock, SkipLockHeld, ReleaseSchedulerLock, Start,
         ThrowInSlot, ThrowAtLock, LoseAnswer, Crash
<1>2. OnlyActs(i)
  BY DEF TypesHold, TypeOK, OnlyActs, Tick, TickReturns, AcquireSchedulerLock, SkipLockHeld,
         ReleaseSchedulerLock, Start, ThrowInSlot, ThrowAtLock, LoseAnswer, Crash
<1>3. Grows
  BY <1>1 DEF Grows
<1>4. /\ Serves(i) /\ (Ticking(i) => slot[i] \in Minute) /\ NoMinute \notin Minute
      /\ \A m \in Minute : Settled(m) => Settled(m)'
  BY <1>3, SettledStays DEF SlotInvariant, TypesHold, HandsFull, NoMinute, Minute
<1>5. Serves(i)'
  <2>1. CASE Tick(i) \/ TickReturns(i) \/ SkipLockHeld(i) \/ Start(i) \/ LoseAnswer(i)
    <3>1. /\ pc'[i] \in {pc[i], "acquire", "idle"} /\ lastSlot'[i] = lastSlot[i]
          /\ pc'[i] # pc[i] => pc[i] \notin Holding
          /\ pc'[i] = pc[i] => slot'[i] = slot[i] /\ todo'[i] = todo[i]
      BY <2>1 DEF TypesHold, TypeOK, Tick, TickReturns, SkipLockHeld, Start, LoseAnswer, Holding
    <3>2. CASE pc'[i] = pc[i]
      BY <1>3, <3>1, <3>2, OthersServe DEF SlotInvariant
    <3>3. CASE pc'[i] # pc[i]
      BY <1>4, <3>1, <3>3 DEF Serves
    <3>4. QED
      BY <3>2, <3>3
  <2>2. CASE AcquireSchedulerLock(i)
    BY <2>2 DEF TypesHold, TypeOK, AcquireSchedulerLock, Serves, Holding
  <2>3. CASE ReleaseSchedulerLock(i) \/ ThrowAtLock(i)
    <3>1. /\ pc[i] \in {"acquire", "release"} /\ pc'[i] = "idle" /\ lastSlot'[i] = lastSlot[i]
      BY <2>3 DEF TypesHold, TypeOK, ReleaseSchedulerLock, ThrowAtLock
    <3>2. lastSlot[i] \in Minute => Settled(lastSlot[i])
      BY <1>4, <3>1 DEF Serves, Holding
    <3>3. QED
      BY <1>4, <3>1, <3>2 DEF Serves
  <2>4. CASE ThrowInSlot(i)
    <3>1. /\ pc'[i] = "release" /\ slot'[i] = slot[i] /\ lastSlot'[i] = lastSlot[i] /\ slot[i] \in excused'
      BY <2>4 DEF TypesHold, TypeOK, ThrowInSlot
    <3>2. QED
      BY <1>4, <3>1 DEF Serves, Settled, Holding
  <2>5. CASE Crash(i)
    BY <1>4, <2>5 DEF TypesHold, TypeOK, Crash, Serves
  <2>6. QED
    BY <2>1, <2>2, <2>3, <2>4, <2>5
<1>6. ASSUME NEW j \in Instance \ {i}
      PROVE  Serves(j)'
  BY <1>2, <1>3, OthersServe DEF SlotInvariant, OnlyActs
<1>7. QED
  BY <1>1, <1>5, <1>6 DEF SlotInvariant

\* Steps of enqueueSlot: a website leaves the list when it has had a job.
LEMMA EnqueueServes ==
  ASSUME TypesHold, SlotInvariant, NEW i \in Instance,
         ListWebsites(i) \/ FindJob(i) \/ KeepJob(i) \/ RemoveJob(i) \/ AddJob(i)
  PROVE  SlotInvariant' /\ OnlyActs(i) /\ Grows
<1> USE DEF Goto, lockVars, jobVars, historyVars
<1> DEFINE w == Current(i)
           m == slot[i]
<1>1. /\ pc[i] \in {"list", "lookup", "remove", "add"} /\ m \in Minute
      /\ slot' = slot /\ lastSlot' = lastSlot /\ excused' = excused
  BY DEF ListWebsites, FindJob, KeepJob, RemoveJob, AddJob, TypesHold, HandsFull, Ticking
<1>2. pc[i] # "list" => w \in todo[i] /\ w \in Website
  BY <1>1, CurrentIsLeft DEF TypesHold, HandsFull, TypeOK
<1>3. OnlyActs(i)
  BY <1>1 DEF TypesHold, TypeOK, OnlyActs, ListWebsites, FindJob, KeepJob, RemoveJob, AddJob, NextWebsite
<1>4. /\ added' \in [Minute -> [Website -> 0 .. 2]]
      /\ \A k \in Minute, v \in Website : added[k][v] > 0 => added'[k][v] > 0
      /\ AddJob(i) => added'[m][w] > 0
      /\ \A k \in Minute, v \in Website : job'[k][v] # "absent" => added'[k][v] > 0
  <2>1. CASE AddJob(i) /\ State(i) = "absent"
    <3>1. added[m][w] \in 0 .. 2
      BY <1>1, <1>2, <2>1 DEF AddJob, TypesHold, TypeOK
    <3>2. PICK n \in 1 .. 2 : added' = [added EXCEPT ![m][w] = n]
      BY <2>1, <3>1 DEF AddJob
    <3>3. job' = [job EXCEPT ![m][w] = "waiting"]
      BY <2>1 DEF AddJob
    <3>4. PICK k0 \in Minute, v0 \in Website : k0 = m /\ v0 = w
      BY <1>1, <1>2, <2>1 DEF AddJob
    <3> HIDE DEF m, w
    <3>5. QED
      BY <3>2, <3>3, <3>4 DEF TypesHold, TypeOK, SlotInvariant
  <2>2. CASE AddJob(i) /\ State(i) # "absent"
    BY <1>1, <1>2, <2>2 DEF AddJob, State, SlotInvariant, TypesHold, TypeOK
  <2>3. CASE RemoveJob(i)
    <3>1. added' = added /\ (job' = job \/ job' = [job EXCEPT ![m][w] = "absent"])
      BY <2>3 DEF RemoveJob
    <3>2. PICK k0 \in Minute, v0 \in Website : k0 = m /\ v0 = w
      BY <1>1, <1>2, <2>3 DEF RemoveJob
    <3>3. ~ AddJob(i)
      BY <2>3 DEF RemoveJob, AddJob
    <3> HIDE DEF m, w
    <3>4. job' = job \/ job' = [job EXCEPT ![k0][v0] = "absent"]
      BY <3>1, <3>2
    <3>5. \A k \in Minute, v \in Website : job'[k][v] # "absent" => job[k][v] # "absent"
      BY <3>2, <3>4 DEF TypesHold, TypeOK
    <3>6. QED
      BY <3>1, <3>3, <3>5 DEF TypesHold, TypeOK, SlotInvariant
  <2>4. CASE ListWebsites(i) \/ FindJob(i) \/ KeepJob(i)
    BY <2>4 DEF ListWebsites, FindJob, KeepJob, AddJob, TypesHold, TypeOK, SlotInvariant
  <2>5. QED
    BY <2>1, <2>2, <2>3, <2>4
<1>5. Grows
  BY <1>1, <1>4 DEF Grows
<1>6. Settled(m) => Settled(m)'
  BY <1>1, <1>5, SettledStays
<1>7. Serves(i)
  BY DEF SlotInvariant
<1>8. lastSlot'[i] \in Minute => Settled(lastSlot[i])' \/ slot'[i] = lastSlot'[i]
  BY <1>1, <1>5, <1>7, SettledStays DEF Serves
<1>9. pc'[i] \in Holding
  BY <1>1 DEF ListWebsites, FindJob, KeepJob, RemoveJob, AddJob, NextWebsite, TypesHold, TypeOK, Holding
<1>10. \A v \in DueWebsites(m) : v \in Website
  BY DEF DueWebsites
<1>11. /\ pc'[i] \in {"lookup", "remove", "add"} => \A v \in DueWebsites(m) \ todo'[i] : added'[m][v] > 0
       /\ pc'[i] = "release" => \A v \in DueWebsites(m) : added'[m][v] > 0
  <2>1. CASE ListWebsites(i)
    BY <2>1 DEF ListWebsites, TypesHold, TypeOK
  <2>2. CASE FindJob(i) \/ RemoveJob(i)
    BY <1>1, <1>4, <1>7, <1>10, <2>2 DEF FindJob, RemoveJob, Serves, TypesHold, TypeOK
  <2>3. CASE KeepJob(i) \/ AddJob(i)
    <3>1. added'[m][w] > 0
      BY <1>1, <1>2, <1>4, <2>3 DEF KeepJob, State, SlotInvariant
    <3>2. /\ todo'[i] = todo[i] \ {w} /\ pc'[i] \in {"release", "lookup"}
          /\ pc'[i] = "release" => todo[i] = {w}
      BY <2>3 DEF KeepJob, AddJob, NextWebsite, TypesHold, TypeOK
    <3>3. \A v \in DueWebsites(m) \ todo[i] : added'[m][v] > 0
      BY <1>1, <1>4, <1>7, <1>10, <2>3 DEF KeepJob, AddJob, Serves
    <3>4. QED
      BY <3>1, <3>2, <3>3
  <2>4. QED
    BY <2>1, <2>2, <2>3
<1>12. Serves(i)'
  BY <1>1, <1>8, <1>9, <1>11 DEF Serves, Settled
<1>13. ASSUME NEW j \in Instance \ {i}
       PROVE  Serves(j)'
  BY <1>3, <1>5, OthersServe DEF SlotInvariant, OnlyActs
<1>14. QED
  BY <1>3, <1>4, <1>5, <1>12, <1>13 DEF SlotInvariant

\* No step breaks it: workers settle jobs, and the clock takes nothing back.
LEMMA SlotInductive == TypesHold /\ SlotInvariant /\ [Next]_vars => SlotInvariant'
<1> SUFFICES ASSUME TypesHold, SlotInvariant, [Next]_vars PROVE SlotInvariant'
  OBVIOUS
<1>1. ASSUME tickVars' = tickVars, added' = added, excused \subseteq excused',
             \A m \in Minute, w \in Website : job'[m][w] # "absent" => job[m][w] # "absent"
      PROVE  SlotInvariant'
  <2>1. Grows
    BY <1>1 DEF Grows
  <2>2. \A j \in Instance : Serves(j)'
    BY <1>1, <2>1, OthersServe DEF SlotInvariant, tickVars
  <2>3. QED
    BY <1>1, <2>2 DEF SlotInvariant
<1>2. ASSUME NEW m \in Minute, NEW w \in Website, WorkerStep(m, w)
      PROVE  SlotInvariant'
  <2>1. PICK to : job' = [job EXCEPT ![m][w] = to] /\ job[m][w] # "absent"
    BY <1>2 DEF WorkerStep
  <2>2. \A k \in Minute, v \in Website : job'[k][v] # "absent" => job[k][v] # "absent"
    BY <2>1 DEF TypesHold, TypeOK
  <2>3. QED
    BY <1>1, <1>2, <2>2 DEF WorkerStep, historyVars
<1>3. CASE ExpireLock \/ EndQuarter \/ UNCHANGED vars
  BY <1>1, <1>3 DEF ExpireLock, EndQuarter, vars, tickVars, jobVars, historyVars
<1>4. QED
  BY <1>2, <1>3, TickServes, EnqueueServes DEF Next, Proceed, HorizonReached

-----------------------------------------------------------------------------
(* The age of the lock, and what an abandoned lock blocks *)

\* A lock lives for at most four quarters, and one without a holder blocks nothing
\* that is not excused.
LockInvariant ==
  /\ lock # NoOne => since <= quarter /\ quarter <= since + 4
  /\ \A i \in Instance : lock = i /\ pc[i] \notin Holding => Blocked(since) \subseteq excused

\* There is no lock at first.
LEMMA LockInit == Init => LockInvariant
  BY NamesAssumption DEF Init, LockInvariant

\* A lock is taken, kept by its holder, released, abandoned and excused, or expires.
LEMMA LockInductive == TypesHold /\ LockInvariant /\ [Next]_vars => LockInvariant'
<1> SUFFICES ASSUME TypesHold, LockInvariant, [Next]_vars PROVE LockInvariant'
  OBVIOUS
<1> USE DEF Goto, tickVars, lockVars, jobVars, historyVars
<1>1. quarter \in Nat /\ since \in Nat /\ pc \in [Instance -> Step] /\ lock \in Instance \cup {NoOne}
  BY BoundsAssumption DEF TypesHold, TypeOK
<1>2. ASSUME lock' = lock, since' = since, quarter' = quarter, excused \subseteq excused',
             \A i \in Instance :
               lock = i /\ pc[i] \in Holding /\ pc'[i] \notin Holding => Blocked(since) \subseteq excused'
      PROVE  LockInvariant'
  <2>1. Blocked(since)' = Blocked(since)
    BY <1>2 DEF Blocked, MinuteOf, LastQuarter
  <2>2. QED
    BY <1>1, <1>2, <2>1 DEF LockInvariant
<1>3. ASSUME NEW i \in Instance, Tick(i) \/ TickReturns(i) \/ SkipLockHeld(i) \/ Start(i)
      PROVE  LockInvariant'
  <2>1. \A j \in Instance : pc[j] \in Holding => pc'[j] \in Holding
    BY <1>1, <1>3 DEF Tick, TickReturns, SkipLockHeld, Start, Holding
  <2>2. QED
    BY <1>2, <1>3, <2>1 DEF Tick, TickReturns, SkipLockHeld, Start
<1>4. ASSUME NEW i \in Instance,
             ListWebsites(i) \/ FindJob(i) \/ KeepJob(i) \/ RemoveJob(i) \/ AddJob(i) \/ ThrowInSlot(i)
      PROVE  LockInvariant'
  <2>1. \A j \in Instance : pc[j] \in Holding => pc'[j] \in Holding
    BY <1>1, <1>4 DEF ListWebsites, FindJob, KeepJob, RemoveJob, AddJob, ThrowInSlot, NextWebsite, Holding
  <2>2. QED
    BY <1>2, <1>4, <2>1 DEF ListWebsites, FindJob, KeepJob, RemoveJob, AddJob, ThrowInSlot
<1>5. ASSUME NEW i \in Instance, AcquireSchedulerLock(i)
      PROVE  LockInvariant'
  <2>1. lock' = i /\ since' = quarter /\ quarter' = quarter /\ pc'[i] \in Holding
    BY <1>1, <1>5 DEF AcquireSchedulerLock, Holding
  <2>2. QED
    BY <1>1, <2>1 DEF LockInvariant
<1>6. ASSUME NEW i \in Instance, LoseAnswer(i)
      PROVE  LockInvariant'
  <2>1. lock' = i /\ since' = quarter /\ quarter' = quarter /\ Blocked(quarter) \subseteq excused'
    BY <1>6 DEF LoseAnswer
  <2>2. Blocked(since)' = Blocked(quarter)
    BY <2>1 DEF Blocked, MinuteOf, LastQuarter
  <2>3. QED
    BY <1>1, <2>1, <2>2 DEF LockInvariant
<1>7. ASSUME NEW i \in Instance, ReleaseSchedulerLock(i)
      PROVE  LockInvariant'
  <2>1. CASE lock = i
    BY <1>7, <2>1, NamesAssumption DEF ReleaseSchedulerLock, LockInvariant
  <2>2. CASE lock # i
    BY <1>1, <1>2, <1>7, <2>2 DEF ReleaseSchedulerLock
  <2>3. QED
    BY <2>1, <2>2
<1>8. ASSUME NEW i \in Instance, ThrowAtLock(i) \/ Crash(i)
      PROVE  LockInvariant'
  <2>1. /\ lock' = lock /\ since' = since /\ quarter' = quarter
        /\ excused \subseteq excused' /\ Abandoned(i) \subseteq excused'
        /\ \A j \in Instance \ {i} : pc'[j] = pc[j]
    BY <1>1, <1>8 DEF ThrowAtLock, Crash
  <2>2. lock = i => Blocked(since) \subseteq excused'
    BY <2>1 DEF Abandoned
  <2>3. QED
    BY <1>2, <2>1, <2>2
<1>9. ASSUME NEW m \in Minute, NEW w \in Website, WorkerStep(m, w)
      PROVE  LockInvariant'
  BY <1>2, <1>9 DEF WorkerStep
<1>10. CASE ExpireLock
  BY <1>10, NamesAssumption DEF ExpireLock, LockInvariant
<1>11. CASE EndQuarter
  <2>1. /\ lock' = lock /\ since' = since /\ quarter' = quarter + 1 /\ pc' = pc /\ excused \subseteq excused'
        /\ lock # NoOne => quarter < since + 4
    BY <1>11 DEF EndQuarter, GoneAfter
  <2>2. Blocked(since)' = Blocked(since)
    BY <2>1 DEF Blocked, MinuteOf, LastQuarter
  <2>3. QED
    BY <1>1, <2>1, <2>2 DEF LockInvariant
<1>12. CASE UNCHANGED vars
  BY <1>2, <1>12 DEF vars
<1>13. QED
  BY <1>3, <1>4, <1>5, <1>6, <1>7, <1>8, <1>9, <1>10, <1>11, <1>12 DEF Next, Proceed, HorizonReached

-----------------------------------------------------------------------------
(* As long as no tick outlasts its quarter *)

\* An instance at work is at the slot of this minute and has set the lock in this
\* quarter, and a job it will remove is still settled.
OnSlot(i) ==
  /\ Ticking(i) => slot[i] = MinuteOf(quarter)
  /\ pc[i] \in Holding => lock = i /\ since = quarter
  /\ pc[i] = "remove" => State(i) = "settled"

\* Whose timer has fired in the last quarter of the minute and is done leaves the
\* slot settled, or another instance at it.
LastTickServes ==
  quarter = LastQuarter(MinuteOf(quarter)) =>
    \A i \in fired : pc[i] = "idle" =>
      Settled(MinuteOf(quarter)) \/ \E j \in Instance : pc[j] \in Holding

PastSettled == \A m \in Minute : m < MinuteOf(quarter) => Settled(m)

\* This is so as long as no tick has outlasted its quarter.
OnTime == (\A i \in Instance : OnSlot(i)) /\ LastTickServes /\ PastSettled

TimelyInvariant == ~ slow => OnTime

\* Nobody is late at first.
LEMMA TimelyInit == Init => TimelyInvariant
<1> SUFFICES ASSUME Init PROVE OnTime
  BY DEF TimelyInvariant
<1>1. MinuteOf(quarter) = 0
  BY DEF Init, MinuteOf
<1>2. QED
  BY <1>1 DEF Init, OnTime, OnSlot, LastTickServes, PastSettled, Ticking, Holding, Minute

\* Within a quarter it is enough that who acts stays on its slot, and settles the
\* slot when it stops holding the lock.
LEMMA QuarterGoesOn ==
  ASSUME TypesHold, OnTime, Grows, quarter' = quarter, NEW i \in Instance, OnlyActs(i), OnSlot(i)',
         \A j \in Instance \ {i} : pc[j] \in Holding => lock' = lock /\ since' = since,
         job' = job \/ pc[i] \in Holding,
         fired' \in SUBSET (fired \cup {i}),
         pc[i] \in Holding => pc'[i] \in Holding \/ Settled(MinuteOf(quarter))',
         quarter = LastQuarter(MinuteOf(quarter)) /\ i \in fired' /\ pc'[i] = "idle" =>
           Settled(MinuteOf(quarter))' \/ \E j \in Instance : pc'[j] \in Holding
  PROVE  OnTime'
<1>1. PICK M \in Minute : M = MinuteOf(quarter) /\ M = MinuteOf(quarter)'
  BY MinuteInHorizon DEF TypesHold, TypeOK
<1>2. ASSUME NEW j \in Instance \ {i}
      PROVE  OnSlot(j)'
  <2>1. pc'[j] = pc[j] /\ slot'[j] = slot[j] /\ todo'[j] = todo[j] /\ OnSlot(j)
    BY DEF OnlyActs, OnTime
  <2>2. Ticking(j)' => slot'[j] = MinuteOf(quarter)'
    BY <1>1, <2>1 DEF OnSlot, Ticking
  <2>3. pc'[j] \in Holding => lock' = j /\ since' = quarter'
    BY <2>1 DEF OnSlot
  <2>4. pc'[j] = "remove" => State(j)' = "settled"
    <3>1. Current(j)' = Current(j)
      BY <2>1 DEF Current
    <3>2. pc[j] = "remove" => pc[i] \notin Holding
      BY <2>1 DEF OnSlot, OnTime, Holding
    <3>3. QED
      BY <2>1, <3>1, <3>2 DEF OnSlot, State
  <2>5. QED
    BY <2>2, <2>3, <2>4 DEF OnSlot
<1>3. Settled(M) => Settled(M)'
  BY SettledStays
<1>4. Settled(MinuteOf(quarter))' <=> Settled(M)'
  BY <1>1 DEF Settled, DueWebsites
<1>5. LastTickServes'
  <2>1. SUFFICES ASSUME quarter' = LastQuarter(MinuteOf(quarter)'), NEW k \in fired', pc'[k] = "idle"
                 PROVE  Settled(M)' \/ \E j \in Instance : pc'[j] \in Holding
    BY <1>4 DEF LastTickServes
  <2>2. CASE k = i
    BY <1>1, <1>4, <2>1, <2>2
  <2>3. CASE k # i
    <3>1. k \in fired /\ k \in Instance /\ pc[k] = "idle"
      BY <2>1, <2>3 DEF OnlyActs, TypesHold, TypeOK
    <3>2. Settled(M) \/ \E j \in Instance : pc[j] \in Holding
      BY <1>1, <2>1, <3>1 DEF OnTime, LastTickServes
    <3>3. ASSUME NEW j \in Instance, pc[j] \in Holding
          PROVE  pc'[j] \in Holding \/ Settled(M)'
      BY <1>4, <3>3 DEF OnlyActs
    <3>4. QED
      BY <1>3, <3>2, <3>3
  <2>4. QED
    BY <2>2, <2>3
<1>6. PastSettled'
  <2>1. SUFFICES ASSUME NEW m \in Minute, m < M PROVE Settled(m)'
    BY <1>1 DEF PastSettled
  <2>2. Settled(m)
    BY <1>1, <2>1 DEF OnTime, PastSettled
  <2>3. QED
    BY <2>2, SettledStays
<1>7. QED
  BY <1>2, <1>5, <1>6 DEF OnTime

\* Who holds the lock on time is alone.
LEMMA HolderAlone ==
  ASSUME OnTime, NEW i \in Instance, NEW j \in Instance, pc[i] \in Holding, pc[j] \in Holding
  PROVE  i = j
BY DEF OnTime, OnSlot

\* Steps outside enqueueSlot.
LEMMA TickOnTime ==
  ASSUME TypesHold, SlotInvariant, LockInvariant, OnTime, NEW i \in Instance,
         Tick(i) \/ TickReturns(i) \/ AcquireSchedulerLock(i) \/ SkipLockHeld(i) \/ Start(i) \/ LoseAnswer(i)
  PROVE  OnTime'
<1> USE DEF Goto, tickVars, lockVars, jobVars, historyVars
<1> DEFINE M == MinuteOf(quarter)
<1>1. /\ job' = job /\ added' = added /\ excused \subseteq excused' /\ quarter' = quarter
      /\ fired' \in SUBSET (fired \cup {i}) /\ pc \in [Instance -> Step]
  BY DEF Tick, TickReturns, AcquireSchedulerLock, SkipLockHeld, Start, LoseAnswer, TypesHold, TypeOK
<1>2. OnlyActs(i)
  BY DEF TypesHold, TypeOK, OnlyActs, Tick, TickReturns, AcquireSchedulerLock, SkipLockHeld, Start, LoseAnswer
<1>3. Grows
  BY <1>1 DEF Grows
<1>4. M \in Minute /\ M # NoMinute /\ quarter \in Nat /\ since \in Nat
  BY MinuteInHorizon, BoundsAssumption DEF TypesHold, TypeOK
<1>5. /\ MinuteOf(quarter)' = M
      /\ Settled(MinuteOf(quarter))' <=> (M \in excused' \/ \A w \in DueWebsites(M) : added'[M][w] > 0)
  BY <1>1 DEF Settled, DueWebsites
<1>6. \A j \in Instance : OnSlot(j) /\ Serves(j)
  BY DEF OnTime, SlotInvariant
<1>7. \A j \in Instance : pc[j] \in Holding => lock = j
  BY <1>6 DEF OnSlot
<1>8. Settled(M) => Settled(MinuteOf(quarter))'
  BY <1>1, <1>5 DEF Settled
<1>9. CASE Tick(i) \/ Start(i)
  <2>1. /\ pc[i] \notin Holding /\ pc'[i] = "acquire" /\ slot'[i] = M /\ lock' = lock /\ since' = since
    BY <1>1, <1>9 DEF Tick, Start, TypesHold, TypeOK, Holding
  <2>2. OnSlot(i)'
    BY <1>5, <2>1 DEF OnSlot, Holding
  <2>3. QED
    BY <1>1, <1>2, <1>3, <2>1, <2>2, QuarterGoesOn
<1>10. CASE TickReturns(i)
  <2>1. UNCHANGED << pc, slot, todo, lastSlot, lock, since >>
    BY <1>10 DEF TickReturns
  <2>2. OnSlot(i)'
    BY <1>1, <1>5, <1>6, <2>1 DEF OnSlot, Ticking, State, Current
  <2>3. pc'[i] = "idle" => Settled(MinuteOf(quarter))'
    BY <1>4, <1>6, <1>8, <1>10, <2>1 DEF TickReturns, Ticking, Serves, Holding
  <2>4. QED
    BY <1>1, <1>2, <1>3, <2>1, <2>2, <2>3, QuarterGoesOn
<1>11. CASE AcquireSchedulerLock(i)
  <2>1. /\ pc[i] = "acquire" /\ pc'[i] = "list" /\ slot' = slot /\ lock' = i /\ since' = quarter /\ lock = NoOne
    BY <1>1, <1>11 DEF AcquireSchedulerLock
  <2>2. \A j \in Instance : pc[j] \notin Holding
    BY <1>7, <2>1, NamesAssumption
  <2>3. OnSlot(i)'
    BY <1>1, <1>5, <1>6, <2>1 DEF OnSlot, Ticking
  <2>4. QED
    BY <1>1, <1>2, <1>3, <2>1, <2>2, <2>3, QuarterGoesOn
<1>12. CASE SkipLockHeld(i)
  <2>1. /\ pc[i] = "acquire" /\ pc'[i] = "idle" /\ lock' = lock /\ since' = since /\ lock # NoOne
    BY <1>1, <1>12 DEF SkipLockHeld
  <2>2. OnSlot(i)'
    BY <2>1 DEF OnSlot, Ticking, Holding
  <2>3. ASSUME quarter = LastQuarter(M)
        PROVE  Settled(MinuteOf(quarter))' \/ \E j \in Instance : pc'[j] \in Holding
    <3>1. lock \in Instance /\ M \in Blocked(since)
      BY <1>4, <2>1, <2>3, BlocksLastTick DEF LockInvariant, TypesHold, TypeOK
    <3>2. CASE pc[lock] \in Holding
      BY <1>2, <2>1, <3>1, <3>2 DEF OnlyActs, Holding
    <3>3. CASE pc[lock] \notin Holding
      BY <1>8, <3>1, <3>3 DEF LockInvariant, Settled
    <3>4. QED
      BY <3>2, <3>3
  <2>4. QED
    BY <1>1, <1>2, <1>3, <2>1, <2>2, <2>3, QuarterGoesOn DEF Holding
<1>13. CASE LoseAnswer(i)
  <2>1. /\ pc[i] = "acquire" /\ pc'[i] = "idle" /\ lock = NoOne /\ Blocked(quarter) \subseteq excused'
    BY <1>1, <1>13 DEF LoseAnswer
  <2>2. \A j \in Instance : pc[j] \notin Holding
    BY <1>7, <2>1, NamesAssumption
  <2>3. OnSlot(i)'
    BY <2>1 DEF OnSlot, Ticking, Holding
  <2>4. Settled(MinuteOf(quarter))'
    BY <1>5, <2>1 DEF Blocked
  <2>5. QED
    BY <1>1, <1>2, <1>3, <2>1, <2>2, <2>3, <2>4, QuarterGoesOn
<1>14. QED
  BY <1>9, <1>10, <1>11, <1>12, <1>13

\* Steps of the one that holds the lock, and what may go wrong with it.
LEMMA SlotOnTime ==
  ASSUME TypesHold, SlotInvariant, OnTime, NEW i \in Instance,
         \/ ListWebsites(i) \/ FindJob(i) \/ KeepJob(i) \/ RemoveJob(i) \/ AddJob(i)
         \/ ReleaseSchedulerLock(i) \/ ThrowInSlot(i) \/ ThrowAtLock(i) \/ Crash(i)
  PROVE  OnTime'
<1> USE DEF Goto, tickVars, lockVars, jobVars, historyVars
<1> DEFINE M == MinuteOf(quarter)
<1>1. /\ quarter' = quarter /\ fired' = fired /\ pc \in [Instance -> Step] /\ pc[i] # "down"
      /\ pc[i] \in Holding \/ job' = job
  BY DEF ListWebsites, FindJob, KeepJob, RemoveJob, AddJob, ReleaseSchedulerLock, ThrowInSlot, ThrowAtLock, Crash,
         TypesHold, TypeOK, Holding
<1>2. OnlyActs(i) /\ Grows
  <2>1. CASE ListWebsites(i) \/ FindJob(i) \/ KeepJob(i) \/ RemoveJob(i) \/ AddJob(i)
    BY <2>1, EnqueueServes
  <2>2. CASE ReleaseSchedulerLock(i) \/ ThrowInSlot(i) \/ ThrowAtLock(i) \/ Crash(i)
    <3>1. OnlyActs(i)
      BY <2>2 DEF OnlyActs, TypesHold, TypeOK, ReleaseSchedulerLock, ThrowInSlot, ThrowAtLock, Crash
    <3>2. Grows
      BY <2>2 DEF Grows, ReleaseSchedulerLock, ThrowInSlot, ThrowAtLock, Crash
    <3>3. QED
      BY <3>1, <3>2
  <2>3. QED
    BY <2>1, <2>2
<1>3. OnSlot(i) /\ Serves(i) /\ M \in Minute
  BY MinuteInHorizon DEF OnTime, SlotInvariant, TypesHold, TypeOK
<1>4. /\ MinuteOf(quarter)' = M
      /\ Settled(MinuteOf(quarter))' <=> (M \in excused' \/ \A w \in DueWebsites(M) : added'[M][w] > 0)
  BY <1>1 DEF Settled, DueWebsites
<1>5. Settled(M) => Settled(MinuteOf(quarter))'
  BY <1>2, <1>3, <1>4, SettledStays DEF Settled
<1>6. \A j \in Instance \ {i} : pc[j] \in Holding => lock' = lock /\ since' = since
  BY HolderAlone DEF ListWebsites, FindJob, KeepJob, RemoveJob, AddJob, ReleaseSchedulerLock,
     ThrowInSlot, ThrowAtLock, Crash, Holding
<1>7. CASE ListWebsites(i) \/ FindJob(i) \/ KeepJob(i) \/ RemoveJob(i) \/ AddJob(i) \/ ThrowInSlot(i)
  <2>1. /\ pc[i] \in Holding /\ pc'[i] \in Holding /\ slot' = slot /\ lock' = lock /\ since' = since
        /\ pc'[i] = "remove" => FindJob(i)
    BY <1>1, <1>7 DEF ListWebsites, FindJob, KeepJob, RemoveJob, AddJob, ThrowInSlot, NextWebsite, Holding
  <2>2. FindJob(i) /\ pc'[i] = "remove" => State(i)' = "settled"
    <3>1. SUFFICES ASSUME FindJob(i), pc'[i] = "remove" PROVE State(i)' = "settled"
      OBVIOUS
    <3>2. State(i) \notin {"waiting", "active", "absent"} /\ State(i)' = State(i)
      BY <1>1, <3>1 DEF FindJob, State, Current
    <3>3. slot[i] \in Minute /\ Current(i) \in Website
      BY <3>1, CurrentIsLeft DEF FindJob, TypesHold, HandsFull, Ticking, TypeOK
    <3>4. QED
      BY <3>2, <3>3 DEF State, JobState, TypesHold, TypeOK
  <2>3. Ticking(i)
    BY <2>1 DEF Ticking, Holding
  <2>4. OnSlot(i)'
    BY <1>1, <1>3, <1>4, <2>1, <2>2, <2>3 DEF OnSlot
  <2>5. pc'[i] # "idle"
    BY <2>1 DEF Holding
  <2>6. QED
    BY <1>1, <1>2, <1>6, <2>1, <2>4, <2>5, QuarterGoesOn
<1>8. CASE ReleaseSchedulerLock(i) \/ ThrowAtLock(i) \/ Crash(i)
  <2>1. pc'[i] \in {"idle", "down"}
    BY <1>1, <1>8 DEF ReleaseSchedulerLock, ThrowAtLock, Crash
  <2>2. OnSlot(i)'
    BY <2>1 DEF OnSlot, Ticking, Holding
  <2>3. pc[i] \in Holding => Settled(MinuteOf(quarter))'
    <3>1. CASE Crash(i)
      BY <1>3, <1>4, <3>1 DEF Crash, OnSlot, Ticking, Holding
    <3>2. CASE ReleaseSchedulerLock(i) \/ ThrowAtLock(i)
      BY <1>3, <1>5, <3>2 DEF ReleaseSchedulerLock, ThrowAtLock, OnSlot, Ticking, Holding, Serves
    <3>3. QED
      BY <1>8, <3>1, <3>2
  <2>4. quarter = LastQuarter(M) /\ i \in fired' /\ pc'[i] = "idle" =>
          Settled(MinuteOf(quarter))' \/ \E j \in Instance : pc'[j] \in Holding
    <3>1. CASE Crash(i)
      BY <1>1, <3>1 DEF Crash
    <3>2. CASE ReleaseSchedulerLock(i)
      BY <2>3, <3>2 DEF ReleaseSchedulerLock, Holding
    <3>3. CASE ThrowAtLock(i) /\ pc[i] = "acquire"
      BY <1>3, <1>4, <3>3 DEF ThrowAtLock, LastTry, OnSlot, Ticking
    <3>4. CASE ThrowAtLock(i) /\ pc[i] # "acquire"
      BY <2>3, <3>4 DEF ThrowAtLock, Holding
    <3>5. QED
      BY <1>8, <3>1, <3>2, <3>3, <3>4
  <2>5. QED
    BY <1>1, <1>2, <1>6, <2>2, <2>3, <2>4, QuarterGoesOn
<1>9. QED
  BY <1>7, <1>8

\* A quarter ends with nobody at work: every timer has fired, and whoever is up is
\* done.  If nobody is up, the slot is excused.
LEMMA QuarterOnTime ==
  ASSUME TypesHold, SlotInvariant, OnTime, EndQuarter, ~ slow'
  PROVE  OnTime'
<1>0. PICK M \in Minute : M = MinuteOf(quarter)
  BY MinuteInHorizon DEF TypesHold, TypeOK
<1>1. /\ quarter \in 0 .. MaxQuarter /\ quarter \in Nat /\ quarter' = quarter + 1 /\ pc' = pc
      /\ M \in Nat
  BY <1>0, BoundsAssumption DEF EndQuarter, tickVars, TypesHold, TypeOK, MinuteOf
<1>2. \A i \in Instance : ~ Ticking(i) /\ pc[i] \in {"down", "idle"} /\ pc[i] \notin Holding /\ pc[i] # "remove"
  BY DEF EndQuarter, Ticking, Holding
<1>3. Grows
  BY DEF EndQuarter, jobVars, Grows
<1>4. \A i \in Instance : OnSlot(i)'
  BY <1>1, <1>2 DEF OnSlot, Ticking
<1>5. LastTickServes'
  BY DEF EndQuarter, LastTickServes
<1>6. MinuteOf(quarter)' = IF quarter = LastQuarter(M) THEN M + 1 ELSE M
  <2>1. MinuteOf(quarter + 1) = IF quarter = LastQuarter(M) THEN M + 1 ELSE M
    BY <1>0, <1>1, QuarterLater
  <2>2. QED
    BY <1>1, <2>1 DEF MinuteOf
<1>7. ASSUME quarter = LastQuarter(M)
      PROVE  Settled(M)'
  <2>1. CASE \A i \in Instance : pc[i] = "down"
    BY <1>0, <1>7, <2>1 DEF EndQuarter, Settled
  <2>2. CASE \E i \in Instance : pc[i] # "down"
    <3>1. PICK i \in Instance : pc[i] # "down"
      BY <2>2
    <3>2. i \in fired /\ pc[i] = "idle"
      BY <1>2, <3>1 DEF EndQuarter
    <3>3. Settled(M)
      BY <1>0, <1>2, <1>7, <3>2 DEF OnTime, LastTickServes
    <3>4. QED
      BY <1>3, <3>3, SettledStays
  <2>3. QED
    BY <2>1, <2>2
<1>8. ASSUME NEW m \in Minute, m < MinuteOf(quarter)'
      PROVE  Settled(m)'
  <2>1. CASE m < M
    <3>1. Settled(m)
      BY <1>0, <2>1 DEF OnTime, PastSettled
    <3>2. QED
      BY <1>3, <3>1, SettledStays
  <2>2. CASE ~ (m < M)
    <3>1. m = M /\ quarter = LastQuarter(M)
      BY <1>1, <1>6, <1>8, <2>2 DEF Minute
    <3>2. QED
      BY <1>7, <3>1
  <2>3. QED
    BY <2>1, <2>2
<1>9. QED
  BY <1>4, <1>5, <1>8 DEF OnTime, PastSettled

\* The workers, and a lock that expires: on time, nobody is at work under it.
LEMMA OthersOnTime ==
  ASSUME TypesHold, SlotInvariant, OnTime,
         (\E m \in Minute, w \in Website : WorkerStep(m, w)) \/ ExpireLock \/ UNCHANGED vars
  PROVE  OnTime'
<1>1. UNCHANGED << quarter, tickVars, fired, added, excused >>
  BY DEF WorkerStep, ExpireLock, vars, tickVars, jobVars, historyVars
<1>2. \A m \in Minute : Settled(m)' <=> Settled(m)
  BY <1>1 DEF Settled, DueWebsites
<1>3. MinuteOf(quarter)' = MinuteOf(quarter) /\ MinuteOf(quarter) \in Minute /\ quarter \in Nat /\ since \in Nat
  BY <1>1, MinuteInHorizon, BoundsAssumption DEF MinuteOf, TypesHold, TypeOK
<1>4. \A i \in Instance : pc[i] \in Holding => lock' = lock /\ since' = since
  <2>1. ~ ExpireLock => lock' = lock /\ since' = since
    BY DEF WorkerStep, vars, lockVars
  <2>2. ASSUME NEW i \in Instance, pc[i] \in Holding
        PROVE  ~ ExpireLock
    BY <1>3, <2>2 DEF OnTime, OnSlot, ExpireLock, MayExpireIn
  <2>3. QED
    BY <2>1, <2>2
<1>5. \A m \in Minute, w \in Website : job[m][w] = "settled" => job'[m][w] = "settled"
  <2>1. ASSUME NEW m \in Minute, NEW w \in Website, WorkerStep(m, w)
        PROVE  \E to : job' = [job EXCEPT ![m][w] = to] /\ job[m][w] # "settled"
    BY <2>1 DEF WorkerStep
  <2>2. ExpireLock \/ UNCHANGED vars => job' = job
    BY DEF ExpireLock, vars, jobVars
  <2>3. QED
    BY <2>1, <2>2 DEF TypesHold, TypeOK
<1>6. ASSUME NEW i \in Instance
      PROVE  OnSlot(i)'
  <2>1. pc[i] = "remove" => State(i)' = "settled"
    <3>1. SUFFICES ASSUME pc[i] = "remove" PROVE State(i)' = "settled"
      OBVIOUS
    <3>2. slot[i] \in Minute /\ Current(i) \in Website /\ Current(i)' = Current(i) /\ slot'[i] = slot[i]
      BY <1>1, <3>1, CurrentIsLeft DEF TypesHold, HandsFull, Ticking, TypeOK, Current, tickVars
    <3>3. State(i) = "settled"
      BY <3>1 DEF OnTime, OnSlot
    <3>4. QED
      BY <1>5, <3>2, <3>3 DEF State
  <2>2. QED
    BY <1>1, <1>3, <1>4, <2>1 DEF OnTime, OnSlot, Ticking, tickVars
<1>7. LastTickServes' /\ PastSettled'
  BY <1>1, <1>2, <1>3 DEF OnTime, LastTickServes, PastSettled, tickVars, Settled, DueWebsites
<1>8. QED
  BY <1>6, <1>7 DEF OnTime

\* Types, slots, lock and punctuality together.
ReleaseInvariant == TypesHold /\ SlotInvariant /\ LockInvariant /\ TimelyInvariant

\* It holds throughout.
LEMMA ReleaseHolds == Spec => []ReleaseInvariant
<1>1. Init => ReleaseInvariant
  BY TypesInit, SlotInit, LockInit, TimelyInit DEF ReleaseInvariant
<1>2. ReleaseInvariant /\ [Next]_vars => ReleaseInvariant'
  <2> SUFFICES ASSUME ReleaseInvariant, [Next]_vars PROVE ReleaseInvariant'
    OBVIOUS
  <2>1. TypesHold' /\ SlotInvariant' /\ LockInvariant'
    BY TypesInductive, SlotInductive, LockInductive DEF ReleaseInvariant
  <2>2. slow => slow'
    BY DEF Next, Proceed, Tick, TickReturns, AcquireSchedulerLock, SkipLockHeld, ListWebsites, FindJob, KeepJob,
       RemoveJob, AddJob, ReleaseSchedulerLock, ThrowInSlot, ThrowAtLock, LoseAnswer, Crash, Start, WorkerStep,
       ExpireLock, EndQuarter, HorizonReached, historyVars, vars
  <2>3. ASSUME ~ slow'
        PROVE  OnTime'
    BY <2>2, <2>3, TickOnTime, SlotOnTime, QuarterOnTime, OthersOnTime
       DEF ReleaseInvariant, TimelyInvariant, Next, Proceed, HorizonReached
  <2>4. QED
    BY <2>1, <2>3 DEF ReleaseInvariant, TimelyInvariant
<1>3. QED
  BY <1>1, <1>2, PTL DEF Spec

\* For any number of instances, websites, intervals, errors, crashes and lost
\* answers: as long as no tick outlasts its quarter, every slot whose minute is over
\* has had a job for each due website, unless something broke that no later tick of
\* its minute could make good.
THEOREM SlotsReleased == Spec => []EverySlotReleased
<1>1. ReleaseInvariant => EverySlotReleased
  BY DEF ReleaseInvariant, TimelyInvariant, OnTime, PastSettled, Settled, EverySlotReleased
<1>2. QED
  BY <1>1, ReleaseHolds, PTL

\* And as long as no tick outlasts its quarter, what is looked up as settled and
\* removed two awaits later is never a job that is queued or running.
THEOREM JobsInHandKept == Spec => JobsInHandStay
<1> DEFINE Kept == ~ slow => \A m \in Minute, w \in Website :
                     job[m][w] \in {"waiting", "active"} => job'[m][w] # "absent"
<1>1. ReleaseInvariant /\ [Next]_vars => Kept
  <2> SUFFICES ASSUME TypesHold, OnTime, [Next]_vars, NEW m \in Minute, NEW w \in Website,
                      job[m][w] \in {"waiting", "active"}
               PROVE  job'[m][w] # "absent"
    BY DEF ReleaseInvariant, TimelyInvariant
  <2>1. job' = job => job'[m][w] # "absent"
    OBVIOUS
  <2>2. ASSUME NEW i \in Instance, RemoveJob(i)
        PROVE  job'[m][w] # "absent"
    <3>1. State(i) = "settled" /\ slot[i] \in Minute /\ Current(i) \in Website
      BY <2>2, CurrentIsLeft DEF RemoveJob, Goto, OnTime, OnSlot, TypesHold, HandsFull, Ticking, TypeOK
    <3>2. job' = [job EXCEPT ![slot[i]][Current(i)] = "absent"]
      BY <2>2, <3>1 DEF RemoveJob
    <3>3. ~ (m = slot[i] /\ w = Current(i))
      BY <3>1 DEF State
    <3>4. QED
      BY <3>1, <3>2, <3>3 DEF TypesHold, TypeOK
  <2>3. ASSUME NEW k \in Minute, NEW v \in Website, NEW to \in JobState \ {"absent"},
               job' = [job EXCEPT ![k][v] = to]
        PROVE  job'[m][w] # "absent"
    BY <2>3 DEF TypesHold, TypeOK
  <2>4. ASSUME NEW i \in Instance, AddJob(i)
        PROVE  job'[m][w] # "absent"
    <3>1. slot[i] \in Minute /\ Current(i) \in Website
      BY <2>4, CurrentIsLeft DEF AddJob, TypesHold, HandsFull, Ticking, TypeOK
    <3>2. job' = job \/ job' = [job EXCEPT ![slot[i]][Current(i)] = "waiting"]
      BY <2>4 DEF AddJob, jobVars
    <3>3. QED
      BY <2>1, <2>3, <3>1, <3>2 DEF JobState
  <2>5. ASSUME NEW k \in Minute, NEW v \in Website, WorkerStep(k, v)
        PROVE  job'[m][w] # "absent"
    BY <2>3, <2>5 DEF WorkerStep, JobState
  <2>6. ASSUME NEW i \in Instance,
               \/ Tick(i) \/ TickReturns(i) \/ AcquireSchedulerLock(i) \/ SkipLockHeld(i) \/ ListWebsites(i)
               \/ FindJob(i) \/ KeepJob(i) \/ ReleaseSchedulerLock(i) \/ ThrowInSlot(i) \/ ThrowAtLock(i)
               \/ LoseAnswer(i) \/ Crash(i) \/ Start(i)
        PROVE  job' = job
    BY <2>6 DEF Tick, TickReturns, AcquireSchedulerLock, SkipLockHeld, ListWebsites, FindJob, KeepJob,
       ReleaseSchedulerLock, ThrowInSlot, ThrowAtLock, LoseAnswer, Crash, Start, jobVars
  <2>7. ExpireLock \/ EndQuarter \/ UNCHANGED vars => job' = job
    BY DEF ExpireLock, EndQuarter, vars, jobVars
  <2>8. QED
    BY <2>1, <2>2, <2>4, <2>5, <2>6, <2>7 DEF Next, Proceed, HorizonReached
<1>2. QED
  BY <1>1, ReleaseHolds, PTL DEF Spec, JobsInHandStay
=============================================================================
