------------------------- MODULE SequentialMonitoring -------------------------
(***************************************************************************)
(* One website checked one slot at a time, in slot order, by a worker that *)
(* is never disturbed: what persistCheckAndEvaluate promises when the      *)
(* queue, the locks and the clock all behave.  It is the specification the *)
(* concurrent CheckPipeline is measured against, and it is checked itself  *)
(* against closed formulas over the whole history of checks.               *)
(***************************************************************************)
EXTENDS MonitoringRules

CONSTANTS
  ResponseTimes,    \* response times a probe may report
  Lookback,         \* earlier results the rules may see ("take: 5")
  MaxChecks         \* bound: number of checks in a behaviour

ASSUME LookbackAssumption == Lookback \in Nat \ {0}
ASSUME ChecksAssumption == MaxChecks \in Nat

VARIABLES
  history,          \* raw statuses, newest first
  incident,         \* state of the latest incident
  lifecycles,       \* incidents opened so far
  card,             \* status stored on the newest row
  lastProbe         \* what the newest probe reported (for the properties)

vars == << history, incident, lifecycles, card, lastProbe >>

NoProbe == [probeAborted |-> FALSE, infrastructureFailure |-> FALSE,
            httpOk |-> TRUE, responseTimeMs |-> NoResponseTime]

Init ==
  /\ history = << >>
  /\ incident = "none"
  /\ lifecycles = 0
  /\ card = "unknown"
  /\ lastProbe = NoProbe

\* The newest-first statuses the rules are given: this check, then at most
\* Lookback earlier rows.
RecentForRules(status, earlier) ==
  << status >> \o SubSeq(earlier, 1, IF Len(earlier) < Lookback THEN Len(earlier) ELSE Lookback)

AfterAction(type) ==
  CASE type = "create_incident"  -> "active"
    [] type = "resolve_incident" -> "resolved"
    [] OTHER                     -> incident

\* One whole check: classify, evaluate, store the row, open or resolve.
Check(probe) ==
  LET status == DeriveCheckStatus(probe)
      action == EvaluateIncidentRules(RecentForRules(status, history), incident = "active")
  IN  /\ Len(history) < MaxChecks
      /\ history' = << status >> \o history
      /\ card' = ApplyCardStatusOverride(status, action)
      /\ incident' = AfterAction(action.type)
      /\ lifecycles' = lifecycles + (IF action.type = "create_incident" THEN 1 ELSE 0)
      /\ lastProbe' = probe

Next == \E probe \in ProbeResult(ResponseTimes) : Check(probe)

Spec == Init /\ [][Next]_vars

-----------------------------------------------------------------------------
TypeOK ==
  /\ history \in Seq(MonitoringStatus)
  /\ incident \in {"none", "active", "resolved"}
  /\ lifecycles \in Nat
  /\ card \in MonitoringStatus
  /\ lastProbe \in ProbeResult(ResponseTimes \cup {NoResponseTime})

Pairs == 1 .. Len(history) - 1
OutageAt(k)   == history[k] = "down" /\ history[k + 1] = "down"
RecoveryAt(k) == history[k] = "normal" /\ history[k + 1] = "normal"

\* The incremental rules, which see six statuses and one flag, agree with the
\* whole history: an incident is active exactly when some two consecutive hard
\* failures have not been followed by two consecutive normal checks.
IncidentMatchesHistory ==
  (incident = "active") <=>
    \E k \in Pairs : OutageAt(k) /\ \A j \in 1 .. k - 1 : ~ RecoveryAt(j)

\* Every outage opens one incident and only one: the number of incidents is the
\* number of double failures with a recovery, or nothing, between them and the
\* previous double failure.
OneIncidentPerOutage ==
  lifecycles =
    Cardinality({k \in Pairs :
      /\ OutageAt(k)
      /\ \A m \in Pairs : m > k /\ OutageAt(m) => \E j \in k + 1 .. m - 1 : RecoveryAt(j)})

\* The card of the newest row depends on the last two checks alone, whatever the
\* incident does: down needs two failures in a row, a single one shows warning, and a check
\* that could not measure the website (aborted probe, failure of the monitoring itself)
\* shows unknown, whatever the probe says besides.
CardReflectsLastTwo ==
  history # << >> =>
    /\ card = IF history[1] # "down" THEN history[1]
              ELSE IF 1 \in Pairs /\ OutageAt(1) THEN "down" ELSE "warning"
    /\ lastProbe.probeAborted \/ lastProbe.infrastructureFailure => card = "unknown"

\* The incremental rules agree with the whole history: on whether an incident is active,
\* on how many there were, and on what the card shows.
RulesMatchHistory == TypeOK /\ IncidentMatchesHistory /\ OneIncidentPerOutage /\ CardReflectsLastTwo
=============================================================================
