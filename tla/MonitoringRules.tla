--------------------------- MODULE MonitoringRules ---------------------------
(***************************************************************************)
(* The pure incident rules of packages/monitoring-rules: how one probe is  *)
(* classified, and what a newest-first list of classified checks means for *)
(* the website's card and incident.  No state: the worker's pipeline and   *)
(* the sequential reference both evaluate these operators.                 *)
(***************************************************************************)
EXTENDS Integers, Sequences, FiniteSets

MonitoringStatus == {"normal", "warning", "down", "unknown"}

\* A response time the probe never measured (null in the code).
NoResponseTime == -1
SlowThresholdMs == 5000

\* What a probe reports, as far as the classification can tell results apart.
ProbeResult(times) ==
  [ probeAborted : BOOLEAN, infrastructureFailure : BOOLEAN,
    httpOk : BOOLEAN, responseTimeMs : times ]

\* Mutant: an aborted probe, which got no answer, is a hard failure.
DeriveAnswerFirst(probe) ==
  CASE ~ probe.httpOk                                                    -> "down"
    [] probe.httpOk /\ (probe.probeAborted \/ probe.infrastructureFailure) -> "unknown"
    [] OTHER -> IF probe.responseTimeMs >= SlowThresholdMs THEN "warning" ELSE "normal"

DeriveCheckStatus(probe) ==
  CASE probe.probeAborted \/ probe.infrastructureFailure -> "unknown"
    [] ~ (probe.probeAborted \/ probe.infrastructureFailure) /\ ~ probe.httpOk -> "down"
    [] OTHER -> IF /\ probe.responseTimeMs # NoResponseTime
                   /\ probe.responseTimeMs >= SlowThresholdMs
                THEN "warning" ELSE "normal"

\* Mutant: slow answers count as failures.
IsNotHealthy(status) == status \in {"down", "warning"}

IsFailureStatus(status) == status = "down"
IsSuccessStatus(status) == status = "normal"
FailureStatuses == {status \in MonitoringStatus : IsFailureStatus(status)}
SuccessStatuses == {status \in MonitoringStatus : IsSuccessStatus(status)}

\* Mutant: all members that are wanted, in a row or not.
CountAll(statuses, wanted) == Cardinality({n \in 1 .. Len(statuses) : statuses[n] \in wanted})

\* Length of the longest prefix of wanted statuses.
CountLeading(statuses, wanted) ==
  Cardinality({n \in 1 .. Len(statuses) : \A k \in 1 .. n : statuses[k] \in wanted})

\* An action without a card leaves the probe's own status to the card.
NoCard == "none"
IncidentRuleAction ==
  [type : {"none"}, cardStatus : {NoCard}]
    \cup [type : {"create_incident"}, cardStatus : {"down"}]
    \cup [type : {"keep_incident"}, cardStatus : MonitoringStatus]
    \cup [type : {"resolve_incident"}, cardStatus : {"normal"}]
RuleAction(type, card) == [type |-> type, cardStatus |-> card]

\* Mutant: a lasting failure creates an incident whether or not one is active.
EvaluateIgnoringActive(recent, hasActiveIncident) ==
  IF CountLeading(recent, FailureStatuses) >= 2 THEN RuleAction("create_incident", "down")
  ELSE IF hasActiveIncident /\ CountLeading(recent, SuccessStatuses) >= 2
       THEN RuleAction("resolve_incident", "normal")
       ELSE RuleAction("none", NoCard)

EvaluateIncidentRules(recent, hasActiveIncident) ==
  LET failures == CountLeading(recent, FailureStatuses)
      normals  == CountLeading(recent, SuccessStatuses)
      WithActive ==
        IF recent[1] = "unknown" THEN RuleAction("keep_incident", "unknown")
        ELSE IF normals >= 2 THEN RuleAction("resolve_incident", "normal")
        ELSE IF failures >= 2 THEN RuleAction("keep_incident", "down")
        ELSE IF recent[1] \in {"down", "warning"} THEN RuleAction("keep_incident", "warning")
        ELSE RuleAction("keep_incident", "normal")
      WithoutActive ==
        IF failures >= 2 THEN RuleAction("create_incident", "down")
        ELSE RuleAction("none", NoCard)
  IN  IF recent = << >> THEN RuleAction("none", NoCard)
      ELSE IF hasActiveIncident THEN WithActive ELSE WithoutActive

\* Mutants: the card of the action, present or not; no grace for a first failure.
CardOfAction(checkStatus, action) == action.cardStatus
CardWithoutGrace(checkStatus, action) ==
  IF action.type = "none" THEN checkStatus ELSE action.cardStatus

ApplyCardStatusOverride(checkStatus, action) ==
  IF action.type \in {"create_incident", "keep_incident"} THEN action.cardStatus
  ELSE IF action.type = "resolve_incident" THEN "normal"
  ELSE IF IsFailureStatus(checkStatus) THEN "warning"
  ELSE checkStatus
=============================================================================
