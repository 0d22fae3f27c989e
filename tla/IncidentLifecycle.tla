-------------------------- MODULE IncidentLifecycle --------------------------
(***************************************************************************)
(* What the monitoring pipeline promises about one website, with no queue, *)
(* lock, process or query left in it: every slot is classified at most     *)
(* once and for good; an incident opens only while none is active, on a    *)
(* slot that failed hard, next to another that did, and no slot opens two; *)
(* and the only thing that happens to an incident is that it is resolved.  *)
(***************************************************************************)
EXTENDS Naturals

CONSTANTS Slot, IncidentId, Status, NoStatus, InitiallyRecorded

VARIABLES
  recorded,     \* status of each slot, NoStatus before its check is saved
  state,        \* "none", "active" or "resolved" per incident
  startedAt     \* the slot an incident was opened for

vars == << recorded, state, startedAt >>

Init ==
  /\ recorded \in [Slot -> Status \cup {NoStatus}]
  /\ \A s \in Slot : recorded[s] # NoStatus <=> s \in InitiallyRecorded
  /\ state = [i \in IncidentId |-> "none"]
  /\ startedAt = [i \in IncidentId |-> 0]

Record(s, status) ==
  /\ recorded[s] = NoStatus
  /\ recorded' = [recorded EXCEPT ![s] = status]
  /\ UNCHANGED << state, startedAt >>

Open(i, s) ==
  /\ state[i] = "none"
  /\ \A j \in IncidentId : state[j] # "active" /\ startedAt[j] # s
  /\ recorded[s] = "down"
  /\ \E t \in Slot \ {s} : recorded[t] = "down"
  /\ state' = [state EXCEPT ![i] = "active"]
  /\ startedAt' = [startedAt EXCEPT ![i] = s]
  /\ UNCHANGED recorded

Resolve(i) ==
  /\ state[i] = "active"
  /\ state' = [state EXCEPT ![i] = "resolved"]
  /\ UNCHANGED << recorded, startedAt >>

Next ==
  \/ \E s \in Slot, status \in Status : Record(s, status)
  \/ \E i \in IncidentId, s \in Slot : Open(i, s)
  \/ \E i \in IncidentId : Resolve(i)

Spec == Init /\ [][Next]_vars
=============================================================================
