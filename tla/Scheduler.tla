------------------------------ MODULE Scheduler ------------------------------
(***************************************************************************)
(* Scheduler instances that release one job per due website and minute     *)
(* slot, under a Redis lock with a TTL.  Every await of tick, enqueueSlot  *)
(* and enqueueMonitoringJob is a step boundary.                            *)
(*                                                                         *)
(* The clock counts quarters of a minute: SCHEDULER_TICK_SECONDS is 15, so *)
(* the timer of every instance fires once in each quarter, at any moment   *)
(* of it.  Workers are abstracted to jobs being taken and settled.         *)
(***************************************************************************)
EXTENDS Integers, FiniteSets

CONSTANTS
  Instance,         \* scheduler processes
  Website,          \* active websites
  Interval,         \* monitoringIntervalMinutes of each website
  NoOne,
  MaxQuarter,       \* bound: quarters of a minute in a behaviour; no tick starts
                    \* in the last one, which only shows what the others left
  MaxFaults         \* bound: errors, crashes and lost answers

ASSUME BoundsAssumption == MaxQuarter \in Nat /\ MaxFaults \in Nat
ASSUME NamesAssumption == NoOne \notin Instance
ASSUME IntervalAssumption == Interval \in [Website -> Nat \ {0}]

MinuteOf(q) == q \div 4
LastQuarter(m) == 4 * m + 3
Minute == 0 .. MinuteOf(MaxQuarter)
NoMinute == -1

VARIABLES
  quarter,          \* the clock
  pc, slot, todo,   \* per instance: next step of tick, its slot, websites left
  lastSlot,         \* lastSlotIso, NoMinute for null
  fired,            \* timers that have fired in this quarter
  lock, since,      \* tick lock in Redis and the quarter it was set in
  lost,             \* instances whose lock expired under them
  job,              \* BullMQ job of each slot and website
  added,            \* jobs added for each slot and website, counted to 2
  excused, slow,    \* history: slots in which something broke that no later tick
                    \* of the minute makes good, and whether a tick has ever
                    \* outlasted its quarter
  faults

tickVars == << pc, slot, todo, lastSlot >>
lockVars == << lock, since, lost >>
jobVars  == << job, added >>
historyVars == << excused, slow >>
vars == << quarter, pc, slot, todo, lastSlot, fired, lock, since, lost, job, added, excused, slow, faults >>

Step == {"down", "idle", "acquire", "list", "lookup", "remove", "add", "release"}
Ticking(i) == pc[i] \notin {"down", "idle"}
Holding == {"list", "lookup", "remove", "add", "release"}
JobState == {"absent", "waiting", "active", "settled"}

isWebsiteDue(m, w) == m % Interval[w] = 0
DueWebsites(m) == {w \in Website : isWebsiteDue(m, w)}

Init ==
  /\ quarter = 0
  /\ pc = [i \in Instance |-> "idle"]
  /\ slot = [i \in Instance |-> NoMinute]
  /\ todo = [i \in Instance |-> {}]
  /\ lastSlot = [i \in Instance |-> NoMinute]
  /\ fired = {}
  /\ lock = NoOne /\ since = 0 /\ lost = {}
  /\ job = [m \in Minute |-> [w \in Website |-> "absent"]]
  /\ added = [m \in Minute |-> [w \in Website |-> 0]]
  /\ excused = {} /\ slow = FALSE
  /\ faults = 0

-----------------------------------------------------------------------------
(* tick *)

Goto(i, from, to) == pc[i] = from /\ pc' = [pc EXCEPT ![i] = to]

\* The timer fires; the slot is the minute at this moment.
Tick(i) ==
  /\ Goto(i, "idle", "acquire") /\ i \notin fired /\ quarter < MaxQuarter
  /\ lastSlot[i] # MinuteOf(quarter)
  /\ slot' = [slot EXCEPT ![i] = MinuteOf(quarter)]
  /\ fired' = fired \cup {i}
  /\ UNCHANGED << quarter, todo, lastSlot, lockVars, jobVars, historyVars, faults >>

\* The previous tick is still running, or this instance has had the slot.
TickReturns(i) ==
  /\ pc[i] # "down" /\ i \notin fired
  /\ Ticking(i) \/ lastSlot[i] = MinuteOf(quarter)
  /\ fired' = fired \cup {i}
  /\ UNCHANGED << quarter, tickVars, lockVars, jobVars, historyVars, faults >>

\* Mutant: SET without NX.
AcquireTaken(i) ==
  /\ Goto(i, "acquire", "list")
  /\ lock' = i /\ since' = quarter
  /\ lastSlot' = [lastSlot EXCEPT ![i] = slot[i]]
  /\ UNCHANGED << quarter, slot, todo, fired, lost, jobVars, historyVars, faults >>

\* The slot counts as had from here on, whatever becomes of enqueueSlot.
AcquireSchedulerLock(i) ==
  /\ Goto(i, "acquire", "list")
  /\ lock = NoOne
  /\ lock' = i /\ since' = quarter
  /\ lastSlot' = [lastSlot EXCEPT ![i] = slot[i]]
  /\ UNCHANGED << quarter, slot, todo, fired, lost, jobVars, historyVars, faults >>

\* Mutant: lastSlotIso is stored before leadership is acquired.
SkipForGood(i) ==
  /\ Goto(i, "acquire", "idle")
  /\ lock # NoOne
  /\ lastSlot' = [lastSlot EXCEPT ![i] = slot[i]]
  /\ slot' = [slot EXCEPT ![i] = NoMinute]
  /\ UNCHANGED << quarter, todo, fired, lockVars, jobVars, historyVars, faults >>

SkipLockHeld(i) ==
  /\ Goto(i, "acquire", "idle")
  /\ lock # NoOne
  /\ slot' = [slot EXCEPT ![i] = NoMinute]
  /\ UNCHANGED << quarter, todo, lastSlot, fired, lockVars, jobVars, historyVars, faults >>

\* Compare-and-delete of the lock; ticking is reset.
ReleaseSchedulerLock(i) ==
  /\ Goto(i, "release", "idle")
  /\ lock' = IF lock = i THEN NoOne ELSE lock
  /\ since' = IF lock = i THEN 0 ELSE since
  /\ lost' = lost \ {i}
  /\ slot' = [slot EXCEPT ![i] = NoMinute]
  /\ todo' = [todo EXCEPT ![i] = {}]
  /\ UNCHANGED << quarter, lastSlot, fired, jobVars, historyVars, faults >>

-----------------------------------------------------------------------------
(* enqueueSlot and enqueueMonitoringJob *)

ListWebsites(i) ==
  /\ pc[i] = "list"
  /\ pc' = [pc EXCEPT ![i] = IF DueWebsites(slot[i]) = {} THEN "release" ELSE "lookup"]
  /\ todo' = [todo EXCEPT ![i] = DueWebsites(slot[i])]
  /\ UNCHANGED << quarter, slot, lastSlot, fired, lockVars, jobVars, historyVars, faults >>

\* The website in hand; findMany has no order, any fixed one will do.
Current(i) == CHOOSE w \in todo[i] : TRUE
State(i) == job[slot[i]][Current(i)]

\* The loop goes on with the next website, or ends.
NextWebsite(i) ==
  /\ todo' = [todo EXCEPT ![i] = @ \ {Current(i)}]
  /\ pc' = [pc EXCEPT ![i] = IF todo[i] = {Current(i)} THEN "release" ELSE "lookup"]

\* Mutant: getState is not asked.
FindAnyJob(i) ==
  /\ pc[i] = "lookup"
  /\ pc' = [pc EXCEPT ![i] = IF State(i) = "absent" THEN "add" ELSE "remove"]
  /\ UNCHANGED << quarter, slot, todo, lastSlot, fired, lockVars, jobVars, historyVars, faults >>

\* getJob and getState: a job in a terminal state is removed first ...
FindJob(i) ==
  /\ pc[i] = "lookup" /\ State(i) \notin {"waiting", "active"}
  /\ pc' = [pc EXCEPT ![i] = IF State(i) = "absent" THEN "add" ELSE "remove"]
  /\ UNCHANGED << quarter, slot, todo, lastSlot, fired, lockVars, jobVars, historyVars, faults >>

\* ... and a job that is queued or running is kept.
KeepJob(i) ==
  /\ pc[i] = "lookup" /\ State(i) \in {"waiting", "active"}
  /\ NextWebsite(i)
  /\ UNCHANGED << quarter, slot, lastSlot, fired, lockVars, jobVars, historyVars, faults >>

\* remove().catch(): an active job is locked and stays.
RemoveJob(i) ==
  /\ Goto(i, "remove", "add")
  /\ job' = IF State(i) = "active" THEN job
            ELSE [job EXCEPT ![slot[i]][Current(i)] = "absent"]
  /\ UNCHANGED << quarter, slot, todo, lastSlot, fired, lockVars, added, historyVars, faults >>

\* Adding under the id of a job that exists leaves that job as it is.
AddJob(i) ==
  /\ pc[i] = "add"
  /\ IF State(i) = "absent"
     THEN /\ job' = [job EXCEPT ![slot[i]][Current(i)] = "waiting"]
          /\ added' = [added EXCEPT ![slot[i]][Current(i)] = IF @ = 2 THEN 2 ELSE @ + 1]
     ELSE UNCHANGED jobVars
  /\ NextWebsite(i)
  /\ UNCHANGED << quarter, slot, lastSlot, fired, lockVars, historyVars, faults >>

-----------------------------------------------------------------------------
(* The workers, the clock and Redis *)

WorkerStep(m, w) ==
  /\ \/ job[m][w] = "waiting" /\ job' = [job EXCEPT ![m][w] = "active"]
     \/ job[m][w] = "active"  /\ job' = [job EXCEPT ![m][w] = "settled"]
  /\ UNCHANGED << quarter, tickVars, fired, lockVars, added, historyVars, faults >>

\* LOCK_TTL_SECONDS is 55: a lock set in quarter q expires in q + 3 or q + 4.
MayExpireIn(q)  == q + 3
GoneAfter(q)    == q + 4

ExpireLock ==
  /\ lock # NoOne /\ quarter >= MayExpireIn(since)
  /\ lock' = NoOne /\ since' = 0
  /\ lost' = IF pc[lock] \in Holding THEN lost \cup {lock} ELSE lost
  /\ UNCHANGED << quarter, tickVars, fired, jobVars, historyVars, faults >>

\* A quarter ends after every timer has fired and every lock has lived its
\* time.  A minute that ends with nobody up is excused.
EndQuarter ==
  /\ quarter < MaxQuarter
  /\ \A i \in Instance : pc[i] # "down" => i \in fired
  /\ lock # NoOne => quarter < GoneAfter(since)
  /\ quarter' = quarter + 1
  /\ fired' = {}
  /\ slow' = (slow \/ \E i \in Instance : Ticking(i))
  /\ excused' =
       IF quarter = LastQuarter(MinuteOf(quarter)) /\ \A i \in Instance : pc[i] = "down"
       THEN excused \cup {MinuteOf(quarter)} ELSE excused
  /\ UNCHANGED << tickVars, lockVars, jobVars, faults >>

-----------------------------------------------------------------------------
(* What goes wrong *)

\* A lock nobody will release blocks the minute it was set in, and the next
\* one only if it was set in the last quarter.
Blocked(q) ==
  {MinuteOf(q)} \cup (IF q = LastQuarter(MinuteOf(q)) THEN {MinuteOf(q) + 1} ELSE {})
Abandoned(i) == IF lock = i THEN Blocked(since) ELSE {}

Fault == faults < MaxFaults /\ faults' = faults + 1

\* A query or a Redis call of enqueueSlot rejects: finally releases the lock.
ThrowInSlot(i) ==
  /\ pc[i] \in {"list", "lookup", "add"} /\ Fault
  /\ pc' = [pc EXCEPT ![i] = "release"]
  /\ excused' = excused \cup {slot[i]}
  /\ UNCHANGED << quarter, slot, todo, lastSlot, fired, lockVars, jobVars, slow >>

\* A SET that rejects is tried again by the next tick, if its minute has another.
LastTry(i) == IF pc[i] = "acquire" /\ quarter = LastQuarter(slot[i]) THEN {slot[i]} ELSE {}

\* SET or the compare-and-delete rejects: tick logs it and ends.
ThrowAtLock(i) ==
  /\ pc[i] \in {"acquire", "release"} /\ Fault
  /\ pc' = [pc EXCEPT ![i] = "idle"]
  /\ slot' = [slot EXCEPT ![i] = NoMinute]
  /\ todo' = [todo EXCEPT ![i] = {}]
  /\ lost' = lost \ {i}
  /\ excused' = excused \cup Abandoned(i) \cup LastTry(i)
  /\ UNCHANGED << quarter, lastSlot, fired, lock, since, jobVars, slow >>

\* SET was executed, its answer was lost, the client sent it again and NX
\* refused it: the lock is set and nobody holds it.
LoseAnswer(i) ==
  /\ Goto(i, "acquire", "idle") /\ lock = NoOne /\ Fault
  /\ lock' = i /\ since' = quarter
  /\ slot' = [slot EXCEPT ![i] = NoMinute]
  /\ excused' = excused \cup Blocked(quarter)
  /\ UNCHANGED << quarter, todo, lastSlot, fired, lost, jobVars, slow >>

Crash(i) ==
  /\ pc[i] # "down" /\ Fault
  /\ pc' = [pc EXCEPT ![i] = "down"]
  /\ slot' = [slot EXCEPT ![i] = NoMinute]
  /\ todo' = [todo EXCEPT ![i] = {}]
  /\ lastSlot' = [lastSlot EXCEPT ![i] = NoMinute]
  /\ lost' = lost \ {i}
  /\ excused' = excused \cup Abandoned(i)
       \cup (IF pc[i] \in Holding THEN {slot[i]} ELSE {})
  /\ UNCHANGED << quarter, fired, lock, since, jobVars, slow >>

\* main: a new process ticks at once.
Start(i) ==
  /\ Goto(i, "down", "acquire") /\ quarter < MaxQuarter
  /\ slot' = [slot EXCEPT ![i] = MinuteOf(quarter)]
  /\ fired' = fired \cup {i}
  /\ UNCHANGED << quarter, todo, lastSlot, lockVars, jobVars, historyVars, faults >>

-----------------------------------------------------------------------------
Proceed(i) ==
  \/ Tick(i) \/ TickReturns(i) \/ AcquireSchedulerLock(i) \/ SkipLockHeld(i)
  \/ ListWebsites(i) \/ FindJob(i) \/ KeepJob(i) \/ RemoveJob(i) \/ AddJob(i)
  \/ ReleaseSchedulerLock(i)

\* The bounded horizon is over.
HorizonReached ==
  /\ quarter = MaxQuarter
  /\ \A i \in Instance : ~ Ticking(i)
  /\ UNCHANGED vars

Next ==
  \/ \E i \in Instance : Proceed(i) \/ ThrowInSlot(i) \/ ThrowAtLock(i) \/ LoseAnswer(i)
                           \/ Crash(i) \/ Start(i)
  \/ \E m \in Minute, w \in Website : WorkerStep(m, w)
  \/ ExpireLock \/ EndQuarter \/ HorizonReached

Spec == Init /\ [][Next]_vars

-----------------------------------------------------------------------------
TypeOK ==
  /\ quarter \in 0 .. MaxQuarter
  /\ pc \in [Instance -> Step]
  /\ slot \in [Instance -> Minute \cup {NoMinute}]
  /\ todo \in [Instance -> SUBSET Website]
  /\ lastSlot \in [Instance -> Minute \cup {NoMinute}]
  /\ fired \in SUBSET Instance
  /\ lock \in Instance \cup {NoOne}
  /\ since \in 0 .. MaxQuarter
  /\ lost \in SUBSET Instance
  /\ job \in [Minute -> [Website -> JobState]]
  /\ added \in [Minute -> [Website -> 0 .. 2]]
  /\ excused \in SUBSET (0 .. MinuteOf(MaxQuarter) + 1) /\ slow \in BOOLEAN
  /\ faults \in 0 .. MaxFaults

\* "Scheduler memakai distributed lock dengan TTL": of the instances inside
\* enqueueSlot, at most one has not outlived its lock.
OneScheduler ==
  \A i, j \in Instance :
    pc[i] \in Holding /\ pc[j] \in Holding /\ i \notin lost /\ j \notin lost => i = j

\* As long as no tick outlasts its quarter, a slot in which nothing broke for good
\* has had a job for every due website by the end of its minute.  In particular
\* the minute after a crash is served by the others: the TTL is shorter than a
\* minute, and lastSlotIso is stored only after the lock was acquired, so an
\* instance that was refused, or whose SET failed, tries again.
EverySlotReleased ==
  ~ slow => \A m \in Minute : m < MinuteOf(quarter) /\ m \notin excused =>
    \A w \in DueWebsites(m) : added[m][w] > 0

\* As long as no tick outlasts its quarter, a second tick of a slot never removes
\* a job that is queued or running, although it looks first and removes later.
JobsInHandStay ==
  [][ ~ slow => \A m \in Minute, w \in Website :
        job[m][w] \in {"waiting", "active"} => job'[m][w] # "absent" ]_vars
=============================================================================
