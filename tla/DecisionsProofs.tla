--------------------------- MODULE DecisionsProofs ---------------------------
(***************************************************************************)
(* The pure parts of the program, for all rows, users and histories.  The  *)
(* incremental incident rules agree with the whole history, for every      *)
(* lookback and any number of checks; the scopes, role tables, filters,    *)
(* counts and team changes that are written several times agree; and what  *)
(* the worker sends out follows its chain of answers.  Only the first is   *)
(* an induction over steps: the others hold of the operators themselves.   *)
(***************************************************************************)
EXTENDS MCDecisions, FiniteSetTheorems, TLAPS

-----------------------------------------------------------------------------
(* The rules *)

\* A count of two or more says that the two newest statuses are wanted, and no more.
LEMMA TwoLead ==
  ASSUME NEW S, NEW statuses \in Seq(S), NEW wanted
  PROVE  CountLeading(statuses, wanted) >= 2
           <=> Len(statuses) >= 2 /\ statuses[1] \in wanted /\ statuses[2] \in wanted
<1> DEFINE lead == {n \in 1 .. Len(statuses) : \A k \in 1 .. n : statuses[k] \in wanted}
<1>1. IsFiniteSet(lead) /\ Cardinality(lead) \in Nat
  <2>1. IsFiniteSet(1 .. Len(statuses)) BY FS_Interval
  <2>2. lead \subseteq 1 .. Len(statuses) OBVIOUS
  <2> QED BY <2>1, <2>2, FS_Subset, FS_CardinalityType
<1>2. Cardinality({1}) = 1 /\ IsFiniteSet({1}) BY FS_Singleton
<1>3. Cardinality({1, 2}) = 2
  <2>1. Cardinality({1} \cup {2}) = IF 2 \in {1} THEN Cardinality({1}) ELSE Cardinality({1}) + 1
    BY <1>2, FS_AddElement
  <2>2. {1, 2} = {1} \cup {2} /\ 2 \notin {1} OBVIOUS
  <2>3. Cardinality({1, 2}) = Cardinality({1}) + 1 BY <2>1, <2>2, Zenon
  <2> QED BY <1>2, <2>3
<1>4. ASSUME 2 \in lead PROVE Cardinality(lead) >= 2
  <2>1. {1, 2} \subseteq lead BY <1>4
  <2> HIDE DEF lead
  <2> QED BY <1>1, <1>3, <2>1, FS_Subset, FS_CardinalityType
<1>5. ASSUME 2 \notin lead PROVE Cardinality(lead) <= 1
  <2>1. ASSUME NEW n \in lead PROVE n = 1
    <3>1. n >= 2 => 2 \in lead OBVIOUS
    <3> QED BY <1>5, <3>1
  <2>2. lead \subseteq {1} BY <2>1
  <2> HIDE DEF lead
  <2> QED BY <1>2, <2>2, FS_Subset
<1>6. CountLeading(statuses, wanted) = Cardinality(lead) BY DEF CountLeading
<1>7. 2 \in lead <=> Len(statuses) >= 2 /\ statuses[1] \in wanted /\ statuses[2] \in wanted
  <2>1. 1 .. 2 = {1, 2} OBVIOUS
  <2> QED BY <2>1
<1> HIDE DEF lead
<1> QED BY <1>1, <1>4, <1>5, <1>6, <1>7

\* The newest check and the one before it show this status.
TwiceNow(status, earlier, wanted) == status = wanted /\ Len(earlier) >= 1 /\ earlier[1] = wanted

\* What the rules are given starts with the two newest statuses, however short the lookback.
LEMMA RecentShowsTwo ==
  ASSUME NEW status \in MonitoringStatus, NEW earlier \in Seq(MonitoringStatus)
  PROVE  /\ RecentForRules(status, earlier) \in Seq(MonitoringStatus)
         /\ RecentForRules(status, earlier) # << >> /\ RecentForRules(status, earlier)[1] = status
         /\ \A wanted : CountLeading(RecentForRules(status, earlier), {wanted}) >= 2
                          <=> TwiceNow(status, earlier, wanted)
<1> DEFINE taken == IF Len(earlier) < Lookback THEN Len(earlier) ELSE Lookback
           recent == << status >> \o SubSeq(earlier, 1, taken)
<1>1. taken \in 0 .. Len(earlier) /\ (taken >= 1 <=> Len(earlier) >= 1) BY LookbackAssumption
<1> HIDE DEF taken
<1>2. /\ SubSeq(earlier, 1, taken) \in Seq(MonitoringStatus) /\ Len(SubSeq(earlier, 1, taken)) = taken
      /\ taken >= 1 => SubSeq(earlier, 1, taken)[1] = earlier[1]
  BY <1>1
<1>3. /\ recent \in Seq(MonitoringStatus) /\ Len(recent) = taken + 1 /\ recent[1] = status
      /\ taken >= 1 => recent[2] = earlier[1]
  BY <1>1, <1>2
<1>4. RecentForRules(status, earlier) = recent BY DEF RecentForRules, taken
<1> HIDE DEF recent
<1>5. ASSUME NEW wanted
      PROVE  CountLeading(recent, {wanted}) >= 2 <=> TwiceNow(status, earlier, wanted)
  <2>1. CountLeading(recent, {wanted}) >= 2 <=> Len(recent) >= 2 /\ recent[1] = wanted /\ recent[2] = wanted
    BY <1>3, TwoLead
  <2> QED BY <1>1, <1>3, <2>1 DEF TwiceNow
<1>6. recent # << >> BY <1>1, <1>3
<1> QED BY <1>3, <1>4, <1>5, <1>6

\* The decision and the card, in closed form.
Decided(status, earlier, state, action) ==
  /\ action.type = IF state = "active"
                   THEN IF TwiceNow(status, earlier, "normal") THEN "resolve_incident" ELSE "keep_incident"
                   ELSE IF TwiceNow(status, earlier, "down") THEN "create_incident" ELSE "none"
  /\ ApplyCardStatusOverride(status, action)
       = IF status # "down" THEN status ELSE IF TwiceNow(status, earlier, "down") THEN "down" ELSE "warning"

\* What the rules answer, by the two newest statuses and the open incident.
LEMMA RulesDecide ==
  ASSUME NEW status \in MonitoringStatus, NEW earlier \in Seq(MonitoringStatus), NEW state,
         NEW action, action = EvaluateIncidentRules(RecentForRules(status, earlier), state = "active")
  PROVE  Decided(status, earlier, state, action)
<1> DEFINE recent == RecentForRules(status, earlier)
<1>1. FailureStatuses = {"down"} /\ SuccessStatuses = {"normal"}
  BY DEF FailureStatuses, SuccessStatuses, IsFailureStatus, IsSuccessStatus, MonitoringStatus
<1>2. /\ recent # << >> /\ recent[1] = status
      /\ CountLeading(recent, FailureStatuses) >= 2 <=> TwiceNow(status, earlier, "down")
      /\ CountLeading(recent, SuccessStatuses) >= 2 <=> TwiceNow(status, earlier, "normal")
  BY <1>1, RecentShowsTwo
<1> HIDE DEF recent
<1>3. action = EvaluateIncidentRules(recent, state = "active") BY DEF recent
<1>4. CASE state = "active"
  <2>1. action = IF status = "unknown" THEN RuleAction("keep_incident", "unknown")
                 ELSE IF TwiceNow(status, earlier, "normal") THEN RuleAction("resolve_incident", "normal")
                 ELSE IF TwiceNow(status, earlier, "down") THEN RuleAction("keep_incident", "down")
                 ELSE IF status \in {"down", "warning"} THEN RuleAction("keep_incident", "warning")
                 ELSE RuleAction("keep_incident", "normal")
    BY <1>2, <1>3, <1>4 DEF EvaluateIncidentRules
  <2>2. CASE TwiceNow(status, earlier, "normal")
    <3>1. status = "normal" /\ action = RuleAction("resolve_incident", "normal") BY <2>1, <2>2 DEF TwiceNow
    <3>2. action.type = "resolve_incident" BY <3>1 DEF RuleAction
    <3> QED BY <1>4, <2>2, <3>1, <3>2 DEF Decided, ApplyCardStatusOverride
  <2>3. CASE ~TwiceNow(status, earlier, "normal")
    <3>1. PICK shown \in MonitoringStatus :
            /\ action = RuleAction("keep_incident", shown)
            /\ shown = IF status # "down" THEN status ELSE IF TwiceNow(status, earlier, "down") THEN "down" ELSE "warning"
      <4>1. CASE TwiceNow(status, earlier, "down") BY <2>1, <2>3, <4>1 DEF TwiceNow, MonitoringStatus
      <4>2. CASE ~TwiceNow(status, earlier, "down") BY <2>1, <2>3, <4>2 DEF MonitoringStatus
      <4> QED BY <4>1, <4>2
    <3>2. action.type = "keep_incident" /\ action.cardStatus = shown BY <3>1 DEF RuleAction
    <3> QED BY <1>4, <2>3, <3>1, <3>2 DEF Decided, ApplyCardStatusOverride
  <2> QED BY <2>2, <2>3
<1>5. CASE state # "active"
  <2>1. action = IF TwiceNow(status, earlier, "down") THEN RuleAction("create_incident", "down")
                                                     ELSE RuleAction("none", NoCard)
    BY <1>2, <1>3, <1>5 DEF EvaluateIncidentRules
  <2> QED BY <1>5, <2>1 DEF Decided, RuleAction, ApplyCardStatusOverride, IsFailureStatus, TwiceNow
<1> QED BY <1>4, <1>5

\* Whatever a probe reports has a status, unknown when it was aborted or could not be made.
LEMMA Classified ==
  ASSUME NEW probe \in ProbeResult(ResponseTimes)
  PROVE  /\ DeriveCheckStatus(probe) \in MonitoringStatus
         /\ probe.probeAborted \/ probe.infrastructureFailure => DeriveCheckStatus(probe) = "unknown"
BY DEF ProbeResult, DeriveCheckStatus, MonitoringStatus

-----------------------------------------------------------------------------
(* One more check *)

\* The check in closed form.
LEMMA Checked ==
  ASSUME TypeOK, NEW probe \in ProbeResult(ResponseTimes), Check(probe)
  PROVE  \E status \in MonitoringStatus :
           /\ history' = << status >> \o history
           /\ card' = IF status # "down" THEN status ELSE IF TwiceNow(status, history, "down") THEN "down" ELSE "warning"
           /\ incident = "active" =>
                /\ incident' = IF TwiceNow(status, history, "normal") THEN "resolved" ELSE "active"
                /\ lifecycles' = lifecycles
           /\ incident # "active" /\ TwiceNow(status, history, "down") =>
                incident' = "active" /\ lifecycles' = lifecycles + 1
           /\ incident # "active" /\ ~TwiceNow(status, history, "down") =>
                incident' = incident /\ lifecycles' = lifecycles
           /\ probe.probeAborted \/ probe.infrastructureFailure => status = "unknown"
<1> DEFINE status == DeriveCheckStatus(probe)
           action == EvaluateIncidentRules(RecentForRules(status, history), incident = "active")
<1>1. status \in MonitoringStatus /\ (probe.probeAborted \/ probe.infrastructureFailure => status = "unknown")
  BY Classified
<1>2. /\ history' = << status >> \o history /\ card' = ApplyCardStatusOverride(status, action)
      /\ incident' = AfterAction(action.type)
      /\ lifecycles' = lifecycles + (IF action.type = "create_incident" THEN 1 ELSE 0)
  BY DEF Check
<1>3. history \in Seq(MonitoringStatus) /\ lifecycles \in Nat BY DEF TypeOK
<1>0. action = EvaluateIncidentRules(RecentForRules(status, history), incident = "active") OBVIOUS
<1> HIDE DEF status, action
<1>4. Decided(status, history, incident, action) BY <1>0, <1>1, <1>3, RulesDecide
<1>5. /\ incident = "active" =>
           /\ incident' = IF TwiceNow(status, history, "normal") THEN "resolved" ELSE "active"
           /\ lifecycles' = lifecycles
      /\ incident # "active" /\ TwiceNow(status, history, "down") =>
           incident' = "active" /\ lifecycles' = lifecycles + 1
      /\ incident # "active" /\ ~TwiceNow(status, history, "down") =>
           incident' = incident /\ lifecycles' = lifecycles
  BY <1>2, <1>3, <1>4 DEF AfterAction, Decided
<1> QED BY <1>1, <1>2, <1>4, <1>5 DEF Decided

\* The history moves by one place, and pairs with it.
LEMMA HistoryMoves ==
  ASSUME history \in Seq(MonitoringStatus), NEW status \in MonitoringStatus, history' = << status >> \o history
  PROVE  /\ history' \in Seq(MonitoringStatus) /\ history' # << >>
         /\ history'[1] = status
         /\ \A k : k \in Pairs' <=> (k = 1 /\ Len(history) >= 1) \/ (k \in Nat /\ k - 1 \in Pairs)
         /\ 1 \in Pairs' /\ OutageAt(1)' <=> TwiceNow(status, history, "down")
         /\ 1 \in Pairs' /\ RecoveryAt(1)' <=> TwiceNow(status, history, "normal")
         /\ \A k \in Pairs : (OutageAt(k + 1)' <=> OutageAt(k)) /\ (RecoveryAt(k + 1)' <=> RecoveryAt(k))
<1>1. history' \in Seq(MonitoringStatus) /\ Len(history') = Len(history) + 1 /\ history'[1] = status
  OBVIOUS
<1>2. \A k \in 1 .. Len(history) : history'[k + 1] = history[k] OBVIOUS
<1>3. Len(history) \in Nat OBVIOUS
<1>4. history' # << >> BY <1>1, <1>3
<1>5. /\ Pairs = 1 .. Len(history) - 1 /\ Pairs' = 1 .. Len(history)
  BY <1>1, <1>3 DEF Pairs
<1>6. \A k : k \in Pairs' <=> (k = 1 /\ Len(history) >= 1) \/ (k \in Nat /\ k - 1 \in Pairs)
  BY <1>3, <1>5
<1>7. 1 \in Pairs' <=> Len(history) >= 1 BY <1>3, <1>5
<1>8. Len(history) >= 1 => history'[1 + 1] = history[1] BY <1>2, <1>3
<1>9. \A k \in Pairs : history'[k + 1] = history[k] /\ history'[(k + 1) + 1] = history[k + 1]
  BY <1>2, <1>3, <1>5
<1> QED BY <1>1, <1>4, <1>6, <1>7, <1>8, <1>9 DEF OutageAt, RecoveryAt, TwiceNow

\* Whether an incident is active changes as the history says: two failures open one, two
\* normal checks resolve it, and nothing else touches it.
LEMMA HistoryStaysMatched ==
  ASSUME TypeOK, IncidentMatchesHistory, NEW probe \in ProbeResult(ResponseTimes), Check(probe)
  PROVE  IncidentMatchesHistory'
<1>1. PICK status \in MonitoringStatus :
        /\ history' = << status >> \o history
        /\ incident = "active" => incident' = IF TwiceNow(status, history, "normal") THEN "resolved" ELSE "active"
        /\ incident # "active" /\ TwiceNow(status, history, "down") => incident' = "active"
        /\ incident # "active" /\ ~TwiceNow(status, history, "down") => incident' = incident
  BY Checked, Zenon
<1> DEFINE Standing == \E k \in Pairs : OutageAt(k) /\ \A j \in 1 .. k - 1 : ~ RecoveryAt(j)
<1>2. /\ \A k : k \in Pairs' <=> (k = 1 /\ Len(history) >= 1) \/ (k \in Nat /\ k - 1 \in Pairs)
      /\ 1 \in Pairs' /\ OutageAt(1)' <=> TwiceNow(status, history, "down")
      /\ 1 \in Pairs' /\ RecoveryAt(1)' <=> TwiceNow(status, history, "normal")
      /\ \A k \in Pairs : (OutageAt(k + 1)' <=> OutageAt(k)) /\ (RecoveryAt(k + 1)' <=> RecoveryAt(k))
  BY <1>1, HistoryMoves DEF TypeOK
<1>3. Pairs = 1 .. Len(history) - 1 /\ Len(history) \in Nat BY DEF Pairs, TypeOK
<1>4. Standing' <=> TwiceNow(status, history, "down") \/ (Standing /\ ~TwiceNow(status, history, "normal"))
  <2>1. ASSUME TwiceNow(status, history, "down") PROVE Standing'
    <3>1. 1 \in Pairs' /\ OutageAt(1)' BY <1>2, <2>1
    <3>2. \A j \in 1 .. 1 - 1 : ~ RecoveryAt(j)' OBVIOUS
    <3> QED BY <3>1, <3>2
  <2>2. ASSUME NEW k \in Pairs, OutageAt(k), \A j \in 1 .. k - 1 : ~ RecoveryAt(j),
               ~TwiceNow(status, history, "normal")
        PROVE  Standing'
    <3>1. k + 1 \in Pairs' /\ OutageAt(k + 1)' BY <1>2, <1>3, <2>2
    <3>2. ASSUME NEW j \in 1 .. (k + 1) - 1 PROVE ~RecoveryAt(j)'
      <4>1. CASE j = 1 BY <1>2, <1>3, <2>2, <4>1
      <4>2. CASE j # 1
        <5>1. j - 1 \in Pairs /\ j - 1 \in 1 .. k - 1 /\ j = (j - 1) + 1 BY <1>3, <4>2
        <5>2. RecoveryAt((j - 1) + 1)' <=> RecoveryAt(j - 1) BY <1>2, <5>1
        <5>3. RecoveryAt(j)' <=> RecoveryAt(j - 1) BY <5>1, <5>2
        <5> QED BY <2>2, <5>1, <5>3
      <4> QED BY <4>1, <4>2
    <3> QED BY <3>1, <3>2
  <2>3. ASSUME NEW k \in Pairs', OutageAt(k)', \A j \in 1 .. k - 1 : ~ RecoveryAt(j)',
               ~TwiceNow(status, history, "down")
        PROVE  Standing /\ ~TwiceNow(status, history, "normal")
    <3>1. k \in Nat /\ k - 1 \in Pairs BY <1>2, <2>3
    <3>2. PICK m \in Pairs : k = m + 1 BY <1>3, <3>1
    <3>3. OutageAt(m) BY <1>2, <2>3, <3>2
    <3>4. ASSUME NEW j \in 1 .. m - 1 PROVE ~RecoveryAt(j)
      <4>1. j \in Pairs /\ j + 1 \in 1 .. k - 1 BY <1>3, <3>2
      <4> QED BY <1>2, <2>3, <4>1
    <3>5. 1 \in Pairs' /\ 1 \in 1 .. k - 1 BY <1>2, <1>3, <3>2
    <3> QED BY <1>2, <2>3, <3>3, <3>4, <3>5
  <2> QED BY <2>1, <2>2, <2>3
<1>5. IncidentMatchesHistory <=> ((incident = "active") <=> Standing) BY DEF IncidentMatchesHistory
<1>6. IncidentMatchesHistory' <=> ((incident' = "active") <=> Standing') BY DEF IncidentMatchesHistory
<1>7. ~(TwiceNow(status, history, "down") /\ TwiceNow(status, history, "normal")) BY DEF TwiceNow
<1> HIDE DEF Standing
<1> QED BY <1>1, <1>4, <1>5, <1>6, <1>7

\* Moving numbers by one does not change how many they are.
LEMMA SameCount ==
  ASSUME NEW S \in SUBSET Nat, IsFiniteSet(S)
  PROVE  /\ IsFiniteSet({k + 1 : k \in S}) /\ Cardinality({k + 1 : k \in S}) = Cardinality(S)
<1> DEFINE T == {k + 1 : k \in S}
           f == [k \in S |-> k + 1]
<1>1. f \in Surjection(S, T) BY DEF Surjection
<1>2. f \in Injection(S, T)
  <2>1. f \in [S -> T] OBVIOUS
  <2>2. \A a, b \in S : f[a] = f[b] => a = b OBVIOUS
  <2> QED BY <2>1, <2>2, Zenon DEF Injection, IsInjective
<1> HIDE DEF T, f
<1>3. IsFiniteSet(T) /\ (Cardinality(T) = Cardinality(S) <=> f \in Injection(S, T))
  BY <1>1, FS_Surjection
<1> QED BY <1>2, <1>3 DEF T

\* The first failures of outages: double failures with a recovery, or nothing, before them.
OpensOutage(k) ==
  /\ OutageAt(k)
  /\ \A m \in Pairs : m > k /\ OutageAt(m) => \E j \in k + 1 .. m - 1 : RecoveryAt(j)
Openings == {k \in Pairs : OpensOutage(k)}

\* A new check opens an outage exactly when it is the second failure and none stands.
LEMMA OpeningsMove ==
  ASSUME TypeOK, IncidentMatchesHistory, NEW status \in MonitoringStatus, history' = << status >> \o history
  PROVE  Openings' = {k + 1 : k \in Openings}
                       \cup (IF incident # "active" /\ TwiceNow(status, history, "down") THEN {1} ELSE {})
<1>1. /\ \A k : k \in Pairs' <=> (k = 1 /\ Len(history) >= 1) \/ (k \in Nat /\ k - 1 \in Pairs)
      /\ 1 \in Pairs' /\ OutageAt(1)' <=> TwiceNow(status, history, "down")
      /\ \A k \in Pairs : (OutageAt(k + 1)' <=> OutageAt(k)) /\ (RecoveryAt(k + 1)' <=> RecoveryAt(k))
  BY HistoryMoves DEF TypeOK
<1>2. Pairs = 1 .. Len(history) - 1 /\ Len(history) \in Nat BY DEF Pairs, TypeOK
<1>3. ASSUME NEW k \in Nat, NEW m \in Pairs
      PROVE  (\E j \in (k + 1) + 1 .. (m + 1) - 1 : RecoveryAt(j)') <=> (\E j \in k + 1 .. m - 1 : RecoveryAt(j))
  <2>1. ASSUME NEW j \in k + 1 .. m - 1, RecoveryAt(j)
        PROVE  \E i \in (k + 1) + 1 .. (m + 1) - 1 : RecoveryAt(i)'
    <3>1. j \in Pairs /\ j + 1 \in (k + 1) + 1 .. (m + 1) - 1 BY <1>2
    <3> QED BY <1>1, <2>1, <3>1
  <2>2. ASSUME NEW i \in (k + 1) + 1 .. (m + 1) - 1, RecoveryAt(i)'
        PROVE  \E j \in k + 1 .. m - 1 : RecoveryAt(j)
    <3>1. PICK j \in k + 1 .. m - 1 : i = j + 1
      <4>1. i - 1 \in k + 1 .. m - 1 /\ i = (i - 1) + 1 BY <1>2
      <4> QED BY <4>1
    <3>2. j \in Pairs BY <1>2
    <3> QED BY <1>1, <2>2, <3>1, <3>2
  <2> QED BY <2>1, <2>2
<1>4. \A m \in Pairs' : m = 1 \/ \E n \in Pairs : m = n + 1
  <2> SUFFICES ASSUME NEW m \in Pairs', m # 1 PROVE \E n \in Pairs : m = n + 1 OBVIOUS
  <2>1. m - 1 \in Pairs /\ m = (m - 1) + 1 BY <1>1
  <2> QED BY <2>1
<1>5. ASSUME NEW n \in Pairs PROVE n \in Nat /\ n + 1 \in Pairs'
  <2>1. n \in Nat /\ n + 1 \in Nat /\ (n + 1) - 1 = n BY <1>2
  <2>2. (n + 1) - 1 \in Pairs BY <2>1
  <2> QED BY <1>1, <2>1, <2>2
<1>6. ASSUME NEW k \in Pairs PROVE OpensOutage(k + 1)' <=> OpensOutage(k)
  <2>1. (\A m \in Pairs' : m > k + 1 /\ OutageAt(m)' => \E j \in (k + 1) + 1 .. m - 1 : RecoveryAt(j)')
          <=> (\A m \in Pairs : m > k /\ OutageAt(m) => \E j \in k + 1 .. m - 1 : RecoveryAt(j))
    <3>1. ASSUME \A m \in Pairs' : m > k + 1 /\ OutageAt(m)' => \E j \in (k + 1) + 1 .. m - 1 : RecoveryAt(j)',
                 NEW m \in Pairs, m > k, OutageAt(m)
          PROVE  \E j \in k + 1 .. m - 1 : RecoveryAt(j)
      <4>1. m + 1 \in Pairs' /\ m + 1 > k + 1 /\ OutageAt(m + 1)' BY <1>1, <1>2, <1>5, <3>1
      <4>2. \E j \in (k + 1) + 1 .. (m + 1) - 1 : RecoveryAt(j)' BY <3>1, <4>1
      <4> QED BY <1>3, <1>5, <4>2
    <3>2. ASSUME \A m \in Pairs : m > k /\ OutageAt(m) => \E j \in k + 1 .. m - 1 : RecoveryAt(j),
                 NEW n \in Pairs', n > k + 1, OutageAt(n)'
          PROVE  \E j \in (k + 1) + 1 .. n - 1 : RecoveryAt(j)'
      <4>1. PICK m \in Pairs : n = m + 1 BY <1>2, <1>4, <3>2
      <4>2. m > k /\ OutageAt(m) BY <1>1, <1>2, <3>2, <4>1
      <4>3. \E j \in k + 1 .. m - 1 : RecoveryAt(j) BY <3>2, <4>2
      <4>4. \E j \in (k + 1) + 1 .. (m + 1) - 1 : RecoveryAt(j)' BY <1>3, <1>5, <4>3
      <4> QED BY <4>1, <4>4
    <3> QED BY <3>1, <3>2
  <2> QED BY <1>1, <2>1 DEF OpensOutage
<1>7. 1 \in Pairs' /\ OpensOutage(1)' <=> incident # "active" /\ TwiceNow(status, history, "down")
  <2>1. (\A m \in Pairs' : m > 1 /\ OutageAt(m)' => \E j \in 1 + 1 .. m - 1 : RecoveryAt(j)')
          <=> (\A m \in Pairs : OutageAt(m) => \E j \in 1 .. m - 1 : RecoveryAt(j))
    <3>1. ASSUME \A m \in Pairs' : m > 1 /\ OutageAt(m)' => \E j \in 1 + 1 .. m - 1 : RecoveryAt(j)',
                 NEW m \in Pairs, OutageAt(m)
          PROVE  \E j \in 1 .. m - 1 : RecoveryAt(j)
      <4>1. m + 1 \in Pairs' /\ m + 1 > 1 /\ OutageAt(m + 1)' BY <1>1, <1>2, <1>5, <3>1
      <4>2. \E j \in (0 + 1) + 1 .. (m + 1) - 1 : RecoveryAt(j)' BY <3>1, <4>1
      <4>3. \E j \in 0 + 1 .. m - 1 : RecoveryAt(j) BY <1>3, <4>2
      <4> QED BY <4>3
    <3>2. ASSUME \A m \in Pairs : OutageAt(m) => \E j \in 1 .. m - 1 : RecoveryAt(j),
                 NEW n \in Pairs', n > 1, OutageAt(n)'
          PROVE  \E j \in 1 + 1 .. n - 1 : RecoveryAt(j)'
      <4>1. PICK m \in Pairs : n = m + 1 BY <1>4, <3>2
      <4>2. OutageAt(m) BY <1>1, <3>2, <4>1
      <4>3. \E j \in 0 + 1 .. m - 1 : RecoveryAt(j) BY <3>2, <4>2
      <4>4. \E j \in (0 + 1) + 1 .. (m + 1) - 1 : RecoveryAt(j)' BY <1>3, <4>3
      <4> QED BY <4>1, <4>4
    <3> QED BY <3>1, <3>2
  <2>2. incident # "active" <=> \A m \in Pairs : OutageAt(m) => \E j \in 1 .. m - 1 : RecoveryAt(j)
    BY DEF IncidentMatchesHistory
  <2> QED BY <1>1, <2>1, <2>2 DEF OpensOutage
<1>8. ASSUME NEW k PROVE k \in Openings' <=> k \in {n + 1 : n \in Openings} \/ (k = 1 /\ k \in Openings')
  BY <1>4, <1>5, <1>6 DEF Openings
<1> QED BY <1>7, <1>8 DEF Openings

\* The count of incidents grows with the openings.
LEMMA CountStaysMatched ==
  ASSUME TypeOK, IncidentMatchesHistory, OneIncidentPerOutage,
         NEW probe \in ProbeResult(ResponseTimes), Check(probe)
  PROVE  OneIncidentPerOutage'
<1>1. PICK status \in MonitoringStatus :
        /\ history' = << status >> \o history
        /\ lifecycles' = IF incident # "active" /\ TwiceNow(status, history, "down") THEN lifecycles + 1 ELSE lifecycles
  BY Checked, Zenon
<1> DEFINE moved == {k + 1 : k \in Openings}
<1>2. Openings' = moved \cup (IF incident # "active" /\ TwiceNow(status, history, "down") THEN {1} ELSE {})
  BY <1>1, OpeningsMove
<1>3. Openings \subseteq Nat /\ IsFiniteSet(Openings) /\ 1 \notin moved
  <2>1. Openings \subseteq 1 .. Len(history) - 1 /\ Len(history) \in Nat BY DEF Openings, Pairs, TypeOK
  <2>2. IsFiniteSet(1 .. Len(history) - 1) BY <2>1, FS_Interval
  <2>3. IsFiniteSet(Openings) BY <2>1, <2>2, FS_Subset
  <2> QED BY <2>1, <2>3
<1>4. IsFiniteSet(moved) /\ Cardinality(moved) = Cardinality(Openings) BY <1>3, SameCount
<1>5. Cardinality(moved \cup {1}) = Cardinality(moved) + 1
  <2> HIDE DEF moved
  <2>1. Cardinality(moved \cup {1}) = IF 1 \in moved THEN Cardinality(moved) ELSE Cardinality(moved) + 1
    BY <1>4, FS_AddElement
  <2> QED BY <1>3, <2>1
<1>6. lifecycles = Cardinality(Openings) BY DEF OneIncidentPerOutage, Openings, OpensOutage
<1>7. OneIncidentPerOutage' <=> lifecycles' = Cardinality(Openings')
  BY DEF OneIncidentPerOutage, Openings, OpensOutage
<1> HIDE DEF moved
<1>8. CASE incident # "active" /\ TwiceNow(status, history, "down")
  BY <1>1, <1>2, <1>4, <1>5, <1>6, <1>7, <1>8
<1>9. CASE ~(incident # "active" /\ TwiceNow(status, history, "down"))
  <2>1. Openings' = moved BY <1>2, <1>9
  <2> QED BY <1>1, <1>4, <1>6, <1>7, <1>9, <2>1
<1> QED BY <1>8, <1>9

\* The card shows the two newest statuses, whatever they were before.
LEMMA CardShowsTwo ==
  ASSUME TypeOK, NEW probe \in ProbeResult(ResponseTimes), Check(probe)
  PROVE  CardReflectsLastTwo'
<1>1. PICK status \in MonitoringStatus :
        /\ history' = << status >> \o history
        /\ card' = IF status # "down" THEN status ELSE IF TwiceNow(status, history, "down") THEN "down" ELSE "warning"
        /\ probe.probeAborted \/ probe.infrastructureFailure => status = "unknown"
  BY Checked, Zenon
<1>2. history'[1] = status /\ (1 \in Pairs' /\ OutageAt(1)' <=> TwiceNow(status, history, "down"))
  BY <1>1, HistoryMoves DEF TypeOK
<1>3. lastProbe' = probe BY DEF Check
<1> QED BY <1>1, <1>2, <1>3 DEF CardReflectsLastTwo

\* A check keeps the types of the variables.
LEMMA TypesStay ==
  ASSUME TypeOK, NEW probe \in ProbeResult(ResponseTimes), Check(probe)
  PROVE  TypeOK'
<1>1. PICK status \in MonitoringStatus :
        /\ history' = << status >> \o history
        /\ card' = IF status # "down" THEN status ELSE IF TwiceNow(status, history, "down") THEN "down" ELSE "warning"
        /\ incident' \in {incident, "active", "resolved"}
        /\ lifecycles' \in {lifecycles, lifecycles + 1}
  BY Checked
<1>2. history' \in Seq(MonitoringStatus) BY <1>1, HistoryMoves DEF TypeOK
<1>3. card' \in MonitoringStatus BY <1>1 DEF MonitoringStatus
<1>4. lastProbe' \in ProbeResult(ResponseTimes \cup {NoResponseTime}) BY DEF Check, ProbeResult
<1> QED BY <1>1, <1>2, <1>3, <1>4 DEF TypeOK

-----------------------------------------------------------------------------
\* For every lookback, which may be as short as one earlier check, and any sequence of probes:
\* an incident is active exactly when two failures were not followed by two normal checks,
\* every outage opens one, and the card shows the last two checks.
THEOREM RulesFitHistory == Spec => []RulesMatchHistory
<1>1. Init => RulesMatchHistory
  <2> SUFFICES ASSUME Init PROVE RulesMatchHistory OBVIOUS
  <2>1. TypeOK BY DEF Init, TypeOK, NoProbe, ProbeResult, MonitoringStatus
  <2>2. Pairs = {} BY DEF Init, Pairs
  <2>3. IncidentMatchesHistory BY <2>2 DEF Init, IncidentMatchesHistory
  <2>4. OneIncidentPerOutage
    <3>1. Openings = {} BY <2>2 DEF Openings
    <3>2. Cardinality(Openings) = 0 BY <3>1, FS_EmptySet
    <3> QED BY <3>2 DEF Init, OneIncidentPerOutage, Openings, OpensOutage
  <2>5. CardReflectsLastTwo BY DEF Init, CardReflectsLastTwo
  <2> QED BY <2>1, <2>3, <2>4, <2>5 DEF RulesMatchHistory
<1>2. RulesMatchHistory /\ [Next]_vars => RulesMatchHistory'
  <2> SUFFICES ASSUME RulesMatchHistory, [Next]_vars PROVE RulesMatchHistory' OBVIOUS
  <2>1. ASSUME NEW probe \in ProbeResult(ResponseTimes), Check(probe) PROVE RulesMatchHistory'
    BY <2>1, TypesStay, HistoryStaysMatched, CountStaysMatched, CardShowsTwo DEF RulesMatchHistory
  <2>2. CASE UNCHANGED vars
    BY <2>2 DEF vars, RulesMatchHistory, TypeOK, IncidentMatchesHistory, OneIncidentPerOutage,
                CardReflectsLastTwo, Pairs, OutageAt, RecoveryAt
  <2> QED BY <2>1, <2>2 DEF Next
<1> QED BY <1>1, <1>2, PTL DEF Spec
-----------------------------------------------------------------------------
(* Counts *)

\* A count of rows: some of them, split, or none.
LEMMA Counting ==
  ASSUME NEW n \in Nat, NEW A, NEW B, A \subseteq 1..n, B \subseteq 1..n
  PROVE  /\ Cardinality(A) \in Nat /\ (Cardinality(A) > 0 <=> A # {})
         /\ A \cap B = {} => Cardinality(A \cup B) = Cardinality(A) + Cardinality(B)
         /\ Cardinality(1..n) = n
<1>1. IsFiniteSet(1..n) /\ Cardinality(1..n) = n BY FS_Interval
<1>2. IsFiniteSet(A) /\ IsFiniteSet(B) BY <1>1, FS_Subset
<1>3. Cardinality(A) \in Nat /\ Cardinality(B) \in Nat BY <1>2, FS_CardinalityType
<1>4. Cardinality(A) = 0 <=> A = {} BY <1>2, FS_EmptySet
<1>5. Cardinality({}) = 0 BY FS_EmptySet
<1>6. Cardinality(A \cup B) = Cardinality(A) + Cardinality(B) - Cardinality(A \cap B) BY <1>2, FS_Union
<1>7. A \cap B = {} => Cardinality(A \cup B) = Cardinality(A) + Cardinality(B)
  <2>1. ASSUME A \cap B = {} PROVE Cardinality(A \cap B) = 0 BY <1>5, <2>1, Zenon
  <2> QED BY <1>3, <1>6, <2>1
<1>8. Cardinality(A) > 0 <=> A # {}
  <2>1. Cardinality(A) > 0 <=> Cardinality(A) # 0 BY <1>3
  <2> QED BY <2>1, <1>4, Zenon
<1> QED BY <1>1, <1>3, <1>7, <1>8
-----------------------------------------------------------------------------
(* Scopes *)

\* The scopes by role, for signed-in users.
LEMMA SitesAndProjects == SiteReachedWithItsProject
<1> SUFFICES ASSUME NEW u \in AuthUser, NEW w \in Website, u.role # "end_user", w.project # NoProject
             PROVE  /\ websiteGet(u, w) <=> projectVisibilityWhere(u, w.project)
                    /\ resultList(u, w) <=> projectVisibilityWhere(u, w.project)
                    /\ incidentGet(u, w) <=> projectVisibilityWhere(u, w.project)
  BY DEF SiteReachedWithItsProject
<1>1. u.role \in {"superadmin", "bos_it", "developer", "pic_web"} BY DEF AuthUser, Role
<1>2. websiteVisibilityScope(u, w) <=> projectVisibilityWhere(u, w.project)
  BY <1>1 DEF websiteVisibilityScope, projectVisibilityWhere, IsPicDeveloper, IsDeveloperMember, IsPicWebMember
<1>3. canOperateScopedResources(u)
  BY <1>1 DEF canOperateScopedResources, canAccessAllMonitoredResources, roleCanAccessAllMonitoredResources,
              ALL_RESOURCE_ACCESS_ROLES
<1>4. u.role \in {"superadmin", "bos_it"} => projectVisibilityWhere(u, w.project) BY DEF projectVisibilityWhere
<1> QED BY <1>1, <1>2, <1>3, <1>4 DEF websiteGet, resultList, incidentGet

\* A user has an id and a role, and operates scoped resources unless he is an end user.
LEMMA Operating ==
  ASSUME NEW u \in AuthUser
  PROVE  /\ u.id \in UserId /\ u.role \in Role /\ u.id # NoUser
         /\ canOperateScopedResources(u) <=> u.role \in {"superadmin", "bos_it", "developer", "pic_web"}
BY RowsAssumption
   DEF AuthUser, Role, canOperateScopedResources, canAccessAllMonitoredResources, roleCanAccessAllMonitoredResources,
       ALL_RESOURCE_ACCESS_ROLES

\* A page has all it promises (monitoring.service.ts, incidents.service.ts).
LEMMA WholePages == PagesAreWhole
<1>1. ASSUME NEW u \in AuthUser, NEW w \in Website, incidentGet(u, w) PROVE websiteVisibilityScope(u, w)
  <2>1. u.role \in {"superadmin", "bos_it", "developer", "pic_web"} BY <1>1, Operating DEF incidentGet
  <2> QED BY <1>1, <2>1 DEF incidentGet, websiteVisibilityScope
<1>2. ASSUME NEW u \in AuthUser, NEW t \in Ticket, contextTicket(u, t) PROVE ticketReadScope(u, t)
  <2>1. CASE u.role = "pic_web" BY <1>2, <2>1 DEF contextTicket, ticketReadScope
  <2>2. CASE u.role = "developer" BY <1>2, <2>2 DEF contextTicket, ticketReadScope
  <2>3. CASE u.role \notin {"pic_web", "developer"} BY <1>2, <2>3 DEF contextTicket, ticketReadScope
  <2> QED BY <2>1, <2>2, <2>3
<1> QED BY <1>1, <1>2 DEF PagesAreWhole, dashboardCard, resultGet, incidentContextWebsite, ticketGet

\* The board and the ticket endpoints ask for the same tickets.
LEMMA SameTickets == BoardServesTheSameTickets
<1>1. ASSUME NEW u \in AuthUser, NEW t \in Ticket PROVE boardTicket(u, t) <=> ticketGet(u, t)
  <2>1. CASE u.role = "pic_web"
    <3>1. canOperateScopedResources(u) BY <2>1, Operating
    <3> QED BY <2>1, <3>1 DEF boardTicket, ticketGet, ticketReadScope
  <2>2. CASE u.role = "developer"
    <3>1. canOperateScopedResources(u) BY <2>2, Operating
    <3> QED BY <2>2, <3>1 DEF boardTicket, ticketGet, ticketReadScope
  <2>3. CASE u.role \in {"superadmin", "bos_it"}
    <3>1. canOperateScopedResources(u) BY <2>3, Operating
    <3> QED BY <2>3, <3>1 DEF boardTicket, ticketGet, ticketReadScope
  <2>4. CASE u.role = "end_user"
    <3>1. ~canOperateScopedResources(u) BY <2>4, Operating
    <3> QED BY <2>4, <3>1 DEF boardTicket, ticketGet
  <2> QED BY <2>1, <2>2, <2>3, <2>4, Operating DEF Role
<1>2. ASSUME NEW u \in AuthUser, NEW w \in Website, NEW a \in Person, u.role = "developer", taskList(u, w, a)
      PROVE  boardTask(u, w, a)
  BY <1>2 DEF taskList, boardTask
<1> QED BY <1>1, <1>2 DEF BoardServesTheSameTickets

\* A request names rows.
LEMMA RequestsNameRows ==
  ASSUME NEW d \in CreateTicketDto
  PROVE  /\ SiteOf(d) \in Website \cup {NoSite}
         /\ ProjectOf(d) \in Project \cup {NoProject}
         /\ SiteOf(d) # NoSite => SiteOf(d).project \in Project \cup {NoProject}
<1>1. d.website \in Website \cup {NoSite} /\ d.incident \in Website \cup {NoSite}
      /\ d.project \in Project \cup {NoProject}
  BY DEF CreateTicketDto
<1>2. SiteOf(d) \in Website \cup {NoSite} BY <1>1 DEF SiteOf
<1>3. SiteOf(d) # NoSite => SiteOf(d).project \in Project \cup {NoProject} BY <1>2, RowsAssumption DEF WebsiteRow
<1> QED BY <1>1, <1>2, <1>3 DEF ProjectOf

\* The ticket a user creates is in his scope, project by project or website by website.
LEMMA CreatorsSee == CreatorSeesTicket
<1> SUFFICES ASSUME NEW u \in AuthUser, NEW d \in CreateTicketDto, ticketCreate(u, d),
                    u.role = "developer" => ProjectOf(d) # NoProject
             PROVE  ticketGet(u, CreatedTicket(u, d))
  BY DEF CreatorSeesTicket
<1> DEFINE t == CreatedTicket(u, d)
<1>1. t.project = ProjectOf(d) /\ t.createdBy = u.id BY DEF CreatedTicket
<1>2. canOperateScopedResources(u)
      /\ (ProjectOf(d) # NoProject => projectVisibilityWhere(u, ProjectOf(d)))
      /\ (ProjectOf(d) # NoProject /\ u.role = "developer" => IsPicDeveloper(u, ProjectOf(d)))
  BY DEF ticketCreate
<1> HIDE DEF t
<1>3. ASSUME u.role = "pic_web" PROVE ticketGet(u, t)
  BY <1>1, <1>2, <1>3 DEF ticketReadScope, projectVisibilityWhere, ticketGet
<1>4. ASSUME u.role = "developer" PROVE ticketGet(u, t)
  BY <1>1, <1>2, <1>4 DEF ticketReadScope, ticketGet
<1>5. ASSUME u.role \notin {"pic_web", "developer"} PROVE ticketGet(u, t)
  BY <1>2, <1>5 DEF ticketReadScope, ticketGet
<1>6. ticketGet(u, t) BY <1>3, <1>4, <1>5
<1> QED BY <1>6 DEF t

\* Intake asks for a website in a project, so its ticket makes no older task.
LEMMA IntakeMakesTickets == IntakeMakesNoLegacyTask
<1> SUFFICES ASSUME NEW u \in AuthUser, NEW d \in CreateTicketDto, createTaskIntake(u, d)
             PROVE  ~CreatesLegacyTask(CreatedTicket(u, d))
  BY DEF IntakeMakesNoLegacyTask
<1>1. d.website \in Website \cup {NoSite} BY DEF CreateTicketDto
<1>2. CASE d.website = NoSite
  <2>1. SiteOf(d) = NoSite BY <1>2 DEF SiteOf, createTaskIntake
  <2> QED BY <2>1 DEF CreatesLegacyTask, CreatedTicket
<1>3. CASE d.website # NoSite
  <2>1. SiteOf(d) = d.website /\ d.website.project # NoProject BY <1>3 DEF SiteOf, createTaskIntake
  <2>2. ProjectOf(d) # NoProject BY <1>3, <2>1 DEF ProjectOf
  <2> QED BY <2>2 DEF CreatesLegacyTask, CreatedTicket
<1> QED BY <1>2, <1>3
-----------------------------------------------------------------------------
(* Stories *)

\* Who manages a project sees and changes its stories.
LEMMA StoryWays ==
  ASSUME NEW u \in AuthUser, NEW s \in Story
  PROVE  /\ s.project \in Project /\ s.project # NoProject
         /\ IsPicDeveloper(u, s.project) <=> s.project.picDeveloperId = u.id
         /\ projectStoryScope(u, s) <=> globalStoryScope(u, s)
<1>1. s.project \in Project BY DEF Story
<1>2. s.project # NoProject BY <1>1, RowsAssumption
<1>3. IsPicDeveloper(u, s.project) <=> s.project.picDeveloperId = u.id BY <1>2 DEF IsPicDeveloper
<1>4. projectStoryScope(u, s) <=> globalStoryScope(u, s)
  BY <1>3 DEF projectStoryScope, globalStoryScope
<1> QED BY <1>1, <1>2, <1>3, <1>4

\* Every scope of the lists of stories is within the one of a story.
LEMMA ListsOfStories == StoryListsAgree
<1> SUFFICES ASSUME NEW u \in AuthUser, NEW s \in Story
             PROVE  /\ storyUpdate(u, s) => storyGet(u, s)
                    /\ listForProject(u, s) => storyGet(u, s)
  BY DEF StoryListsAgree
<1>1. storyUpdate(u, s) => storyGet(u, s)
  BY StoryWays DEF storyUpdate, storyGet, canManageProject, assertCanViewStories, globalStoryScope,
                   canManageProjectConfiguration
<1>2. listForProject(u, s) => storyGet(u, s)
  BY StoryWays DEF listForProject, requireProjectView, storyGet
<1> QED BY <1>1, <1>2

\* Those who are assigned to an accepted story belong to the project's developers.
LEMMA AssigneesInTeam ==
  ASSUME NEW u \in AuthUser, NEW s \in Story, createInProject(s), isAssigned(u, s)
  PROVE  u.id \in s.project.developers
<1>1. u.id # NoUser BY Operating
<1> QED BY <1>1 DEF createInProject, validateAssignees, isAssigned

\* An accepted assignee is in the team, and the team is in every scope.
LEMMA AssigneesReach == AssigneeReachesStory
<1> SUFFICES ASSUME NEW u \in AuthUser, NEW s \in Story, createInProject(s), u.role = "developer", isAssigned(u, s)
             PROVE  /\ storyGet(u, s) /\ listForProject(u, s) /\ storyUpdate(u, s)
                    /\ projectVisibilityWhere(u, s.project)
                    /\ s.website # NoSite => websiteGet(u, s.website)
  BY DEF AssigneeReachesStory
<1>1. u.id \in s.project.developers BY AssigneesInTeam
<1>2. IsDeveloperMember(u, s.project) BY <1>1, StoryWays DEF IsDeveloperMember
<1>3. projectVisibilityWhere(u, s.project) BY <1>2 DEF projectVisibilityWhere
<1>4. storyGet(u, s) BY DEF storyGet, assertCanViewStories, globalStoryScope
<1>5. listForProject(u, s)
  BY <1>3 DEF listForProject, requireProjectView, assertCanViewStories, projectStoryScope
<1>6. storyUpdate(u, s) BY DEF storyUpdate
<1>7. s.website # NoSite => s.website.project = s.project
  BY DEF createInProject, assertWebsiteBelongsToProject
<1>8. s.website # NoSite => websiteGet(u, s.website)
  BY <1>2, <1>7 DEF websiteGet, websiteVisibilityScope
<1> QED BY <1>3, <1>4, <1>5, <1>6, <1>8

\* The developers of a story are linked to its ticket, which joins its project.
LEMMA TicketsStayInReach == StoryKeepsTicketInReach
<1> SUFFICES ASSUME NEW u \in AuthUser, NEW t \in Ticket, createFromTicket(u, t),
                    NEW s \in Story, s.project = StoryProject(t), createInProject(s)
             PROVE  /\ storyGet(u, s) /\ ticketGet(u, TicketWithStory(t, s))
                    /\ \A v \in AuthUser :
                         v.role = "developer" /\ isAssigned(v, s) => ticketGet(v, TicketWithStory(t, s))
  BY DEF StoryKeepsTicketInReach
<1> DEFINE x == TicketWithStory(t, s)
<1>1. /\ x.project = s.project
      /\ x.storyLinks = t.storyLinks \cup ({s.primary} \ {NoUser}) \cup s.collaborators
  BY DEF TicketWithStory, Ticket
<1> HIDE DEF x
<1>2. canManageProjectConfiguration(u) \/ (u.role = "developer" /\ s.project.picDeveloperId = u.id)
  BY DEF createFromTicket, requireProjectManager, canManageProject
<1>3. u.role \in {"superadmin", "bos_it", "developer"} BY <1>2 DEF canManageProjectConfiguration
<1>4. storyGet(u, s)
  BY <1>2, <1>3, StoryWays DEF storyGet, assertCanViewStories, globalStoryScope
<1>5. ticketGet(u, x)
  <2>1. canOperateScopedResources(u) BY <1>3, Operating
  <2>2. CASE u.role = "developer"
    <3>1. s.project.picDeveloperId = u.id BY <1>2, <2>2 DEF canManageProjectConfiguration
    <3>2. IsPicDeveloper(u, x.project) BY <1>1, <3>1, StoryWays
    <3> QED BY <2>1, <2>2, <3>2 DEF ticketGet, ticketReadScope
  <2>3. CASE u.role # "developer"
    BY <1>3, <2>1, <2>3 DEF ticketGet, ticketReadScope
  <2> QED BY <2>2, <2>3
<1>6. ASSUME NEW v \in AuthUser, v.role = "developer", isAssigned(v, s) PROVE ticketGet(v, x)
  <2>1. v.id # NoUser /\ canOperateScopedResources(v) BY <1>6, Operating
  <2>2. v.id \in x.storyLinks BY <1>1, <1>6, <2>1 DEF isAssigned
  <2> QED BY <1>6, <2>1, <2>2 DEF ticketGet, ticketReadScope
<1> QED BY <1>4, <1>5, <1>6 DEF x

\* Whoever is given work reaches it: the scopes of tickets, stories and websites, written
\* several times (resource-access.ts and the services), agree for all rows and users.
THEOREM WorkIsReached == Spec => []ReachFollowsWork
<1>1. ReachFollowsWork
  BY SitesAndProjects, CreatorsSee, AssigneesReach, TicketsStayInReach, WholePages, SameTickets, ListsOfStories,
     IntakeMakesTickets DEF ReachFollowsWork
<1> QED BY <1>1, PTL
-----------------------------------------------------------------------------
(* Role tables *)

\* What the tables give to the endpoints that the pages ask.
LEMMA EndpointsServe ==
  /\ \A e \in {"usersList", "usersCreate", "usersUpdate", "incidentsUpdate", "incidentsClose"} :
       {"superadmin"} \subseteq Serves(e)
  /\ \A e \in {"projectsList", "projectsGet", "ticketsList", "boardFilters", "boardOverview", "boardList",
              "boardGet", "dashboardDetail", "websitesList", "incidentsList", "incidentContext",
              "notificationsList", "readAll", "markRead"} :
       {"superadmin", "bos_it", "developer", "pic_web"} \subseteq Serves(e)
  /\ \A e \in {"projectsCreate", "projectsUpdate", "addWebsite", "removeWebsite", "roster",
              "updateAssignments", "requestInfo", "reject", "approve", "boardUpdateStatus"} :
       {"superadmin", "bos_it"} \subseteq Serves(e)
  /\ \A e \in {"storiesOfProject", "storiesCreate", "createFromTicket", "storiesUpdate", "storiesList",
              "activeCount"} :
       {"superadmin", "bos_it", "developer"} \subseteq Serves(e)
  /\ \A e \in {"taskIntakeCreate", "requestsList", "requestsGet", "requestsAttachment"} :
       {"superadmin", "bos_it", "pic_web"} \subseteq Serves(e)
  /\ \A e \in {"uploadAttachment", "requestsCreate", "requestsUpdate"} :
       {"pic_web"} \subseteq Serves(e)
  /\ \A e \in {"scopeSummary", "tasksList", "meWork", "tasksUpdateStatus", "meWorkSummary"} :
       {"developer"} \subseteq Serves(e)
  /\ \A e \in {"dashboardMain"} :
       {"superadmin", "bos_it", "developer", "pic_web", "end_user"} \subseteq Serves(e)
<1> USE DEF Role, Serves, RolesGuard, NoRole, Controllers, Services, Operational, Managers, StoryViewers,
        UsersController, WebsitesController, ProjectsController, ProjectRequestsController, IncidentsController,
        MonitoringController, DashboardController, NotificationsController, TicketsController, TaskIntakeController,
        TasksController, TaskMonitoringController, UserStoriesController, WorkloadController,
        IncidentsService, MonitoringService, DashboardService, TicketsService, TaskMonitoringService,
        UserStoriesService, MyWorkService, ProjectsService, ProjectRequestsService,
        PLATFORM_ADMIN_ROLES, PROJECT_ADMIN_ROLES, PROJECT_REQUEST_CREATOR_ROLES, PROJECT_REQUEST_REVIEWER_ROLES,
        INCIDENT_MANAGER_ROLES, TICKET_MANAGER_ROLES, TASK_INTAKE_CREATOR_ROLES, WORKLOAD_VIEWER_ROLES
<1>1. \A e \in {"usersList", "usersCreate", "usersUpdate", "incidentsUpdate", "incidentsClose"} :
       {"superadmin"} \subseteq Serves(e)
  <2>1. {"superadmin"} \subseteq Serves("usersList") OBVIOUS
  <2>2. {"superadmin"} \subseteq Serves("usersCreate") OBVIOUS
  <2>3. {"superadmin"} \subseteq Serves("usersUpdate") OBVIOUS
  <2>4. {"superadmin"} \subseteq Serves("incidentsUpdate") OBVIOUS
  <2>5. {"superadmin"} \subseteq Serves("incidentsClose") OBVIOUS
  <2> QED BY ONLY <2>1, <2>2, <2>3, <2>4, <2>5
<1>2. \A e \in {"projectsList", "projectsGet", "ticketsList", "boardFilters", "boardOverview", "boardList",
              "boardGet", "dashboardDetail", "websitesList", "incidentsList", "incidentContext",
              "notificationsList", "readAll", "markRead"} :
       {"superadmin", "bos_it", "developer", "pic_web"} \subseteq Serves(e)
  <2>1. {"superadmin", "bos_it", "developer", "pic_web"} \subseteq Serves("projectsList") OBVIOUS
  <2>2. {"superadmin", "bos_it", "developer", "pic_web"} \subseteq Serves("projectsGet") OBVIOUS
  <2>3. {"superadmin", "bos_it", "developer", "pic_web"} \subseteq Serves("ticketsList") OBVIOUS
  <2>4. {"superadmin", "bos_it", "developer", "pic_web"} \subseteq Serves("boardFilters") OBVIOUS
  <2>5. {"superadmin", "bos_it", "developer", "pic_web"} \subseteq Serves("boardOverview") OBVIOUS
  <2>6. {"superadmin", "bos_it", "developer", "pic_web"} \subseteq Serves("boardList") OBVIOUS
  <2>7. {"superadmin", "bos_it", "developer", "pic_web"} \subseteq Serves("boardGet") OBVIOUS
  <2>8. {"superadmin", "bos_it", "developer", "pic_web"} \subseteq Serves("dashboardDetail") OBVIOUS
  <2>9. {"superadmin", "bos_it", "developer", "pic_web"} \subseteq Serves("websitesList") OBVIOUS
  <2>10. {"superadmin", "bos_it", "developer", "pic_web"} \subseteq Serves("incidentsList") OBVIOUS
  <2>11. {"superadmin", "bos_it", "developer", "pic_web"} \subseteq Serves("incidentContext") OBVIOUS
  <2>12. {"superadmin", "bos_it", "developer", "pic_web"} \subseteq Serves("notificationsList") OBVIOUS
  <2>13. {"superadmin", "bos_it", "developer", "pic_web"} \subseteq Serves("readAll") OBVIOUS
  <2>14. {"superadmin", "bos_it", "developer", "pic_web"} \subseteq Serves("markRead") OBVIOUS
  <2> QED BY ONLY <2>1, <2>2, <2>3, <2>4, <2>5, <2>6, <2>7, <2>8, <2>9, <2>10, <2>11, <2>12, <2>13, <2>14
<1>3. \A e \in {"projectsCreate", "projectsUpdate", "addWebsite", "removeWebsite", "roster",
              "updateAssignments", "requestInfo", "reject", "approve", "boardUpdateStatus"} :
       {"superadmin", "bos_it"} \subseteq Serves(e)
  <2>1. {"superadmin", "bos_it"} \subseteq Serves("projectsCreate") OBVIOUS
  <2>2. {"superadmin", "bos_it"} \subseteq Serves("projectsUpdate") OBVIOUS
  <2>3. {"superadmin", "bos_it"} \subseteq Serves("addWebsite") OBVIOUS
  <2>4. {"superadmin", "bos_it"} \subseteq Serves("removeWebsite") OBVIOUS
  <2>5. {"superadmin", "bos_it"} \subseteq Serves("roster") OBVIOUS
  <2>6. {"superadmin", "bos_it"} \subseteq Serves("updateAssignments") OBVIOUS
  <2>7. {"superadmin", "bos_it"} \subseteq Serves("requestInfo") OBVIOUS
  <2>8. {"superadmin", "bos_it"} \subseteq Serves("reject") OBVIOUS
  <2>9. {"superadmin", "bos_it"} \subseteq Serves("approve") OBVIOUS
  <2>10. {"superadmin", "bos_it"} \subseteq Serves("boardUpdateStatus") OBVIOUS
  <2> QED BY ONLY <2>1, <2>2, <2>3, <2>4, <2>5, <2>6, <2>7, <2>8, <2>9, <2>10
<1>4. \A e \in {"storiesOfProject", "storiesCreate", "createFromTicket", "storiesUpdate", "storiesList",
              "activeCount"} :
       {"superadmin", "bos_it", "developer"} \subseteq Serves(e)
  <2>1. {"superadmin", "bos_it", "developer"} \subseteq Serves("storiesOfProject") OBVIOUS
  <2>2. {"superadmin", "bos_it", "developer"} \subseteq Serves("storiesCreate") OBVIOUS
  <2>3. {"superadmin", "bos_it", "developer"} \subseteq Serves("createFromTicket") OBVIOUS
  <2>4. {"superadmin", "bos_it", "developer"} \subseteq Serves("storiesUpdate") OBVIOUS
  <2>5. {"superadmin", "bos_it", "developer"} \subseteq Serves("storiesList") OBVIOUS
  <2>6. {"superadmin", "bos_it", "developer"} \subseteq Serves("activeCount") OBVIOUS
  <2> QED BY ONLY <2>1, <2>2, <2>3, <2>4, <2>5, <2>6
<1>5. \A e \in {"taskIntakeCreate", "requestsList", "requestsGet", "requestsAttachment"} :
       {"superadmin", "bos_it", "pic_web"} \subseteq Serves(e)
  <2>1. {"superadmin", "bos_it", "pic_web"} \subseteq Serves("taskIntakeCreate") OBVIOUS
  <2>2. {"superadmin", "bos_it", "pic_web"} \subseteq Serves("requestsList") OBVIOUS
  <2>3. {"superadmin", "bos_it", "pic_web"} \subseteq Serves("requestsGet") OBVIOUS
  <2>4. {"superadmin", "bos_it", "pic_web"} \subseteq Serves("requestsAttachment") OBVIOUS
  <2> QED BY ONLY <2>1, <2>2, <2>3, <2>4
<1>6. \A e \in {"uploadAttachment", "requestsCreate", "requestsUpdate"} :
       {"pic_web"} \subseteq Serves(e)
  <2>1. {"pic_web"} \subseteq Serves("uploadAttachment") OBVIOUS
  <2>2. {"pic_web"} \subseteq Serves("requestsCreate") OBVIOUS
  <2>3. {"pic_web"} \subseteq Serves("requestsUpdate") OBVIOUS
  <2> QED BY ONLY <2>1, <2>2, <2>3
<1>7. \A e \in {"scopeSummary", "tasksList", "meWork", "tasksUpdateStatus", "meWorkSummary"} :
       {"developer"} \subseteq Serves(e)
  <2>1. {"developer"} \subseteq Serves("scopeSummary") OBVIOUS
  <2>2. {"developer"} \subseteq Serves("tasksList") OBVIOUS
  <2>3. {"developer"} \subseteq Serves("meWork") OBVIOUS
  <2>4. {"developer"} \subseteq Serves("tasksUpdateStatus") OBVIOUS
  <2>5. {"developer"} \subseteq Serves("meWorkSummary") OBVIOUS
  <2> QED BY ONLY <2>1, <2>2, <2>3, <2>4, <2>5
<1>8. \A e \in {"dashboardMain"} :
       {"superadmin", "bos_it", "developer", "pic_web", "end_user"} \subseteq Serves(e)
  <2>1. {"superadmin", "bos_it", "developer", "pic_web", "end_user"} \subseteq Serves("dashboardMain") OBVIOUS
  <2> QED BY ONLY <2>1
<1> QED BY ONLY <1>1, <1>2, <1>3, <1>4, <1>5, <1>6, <1>7, <1>8

\* The sets of roles that the pages ask for.
LEMMA Askers ==
  /\ Platform = {"superadmin"} /\ ProjectAdmins = {"superadmin", "bos_it"} /\ Reviewers = {"superadmin", "bos_it"}
  /\ Submitters = {"pic_web"}
  /\ Registry = {"superadmin", "bos_it", "developer", "pic_web"}
  /\ IncidentViewers = {"superadmin", "bos_it", "developer", "pic_web"}
  /\ BoardViewers = {"superadmin", "bos_it", "developer", "pic_web"}
  /\ NotGallery = {"superadmin", "bos_it", "developer", "pic_web"}
  /\ Having(canManageIncidents) = {"superadmin"}
  /\ Having(canViewUserStories) = {"superadmin", "bos_it", "developer"}
  /\ Having(canNavigateIncidents) = {"superadmin", "bos_it", "developer"}
<1> USE DEF Having, Role
<1>1. Platform = {"superadmin"} BY DEF Platform, canManagePlatform, PLATFORM_ADMIN_ROLES
<1>2. ProjectAdmins = {"superadmin", "bos_it"} BY DEF ProjectAdmins, canManageProjects, PROJECT_ADMIN_ROLES
<1>3. Reviewers = {"superadmin", "bos_it"}
  BY DEF Reviewers, canReviewProjectRequests, PROJECT_REQUEST_REVIEWER_ROLES
<1>4. Submitters = {"pic_web"} BY DEF Submitters, canCreateProjectRequest, PROJECT_REQUEST_CREATOR_ROLES
<1>5. Registry = {"superadmin", "bos_it", "developer", "pic_web"}
  BY DEF Registry, canViewProjectRegistry, PROJECT_GLOBAL_VIEWER_ROLES
<1>6. IncidentViewers = {"superadmin", "bos_it", "developer", "pic_web"}
  BY DEF IncidentViewers, canViewIncidents, roleCanAccessAllMonitoredResources, ALL_RESOURCE_ACCESS_ROLES
<1>7. BoardViewers = {"superadmin", "bos_it", "developer", "pic_web"} BY DEF BoardViewers, canViewTaskMonitoring
<1>8. NotGallery = {"superadmin", "bos_it", "developer", "pic_web"} BY DEF NotGallery, isEndUserPublicDashboard
<1>9. Having(canManageIncidents) = {"superadmin"} BY DEF canManageIncidents, INCIDENT_MANAGER_ROLES
<1>10. Having(canViewUserStories) = {"superadmin", "bos_it", "developer"}
  BY DEF canViewUserStories, USER_STORY_MANAGER_ROLES
<1>11. Having(canNavigateIncidents) = {"superadmin", "bos_it", "developer"} BY DEF canNavigateIncidents
<1> QED BY ONLY <1>1, <1>2, <1>3, <1>4, <1>5, <1>6, <1>7, <1>8, <1>9, <1>10, <1>11

\* Every request of a page is one of those endpoints, for no more than those roles.
LEMMA PagesServed == PagesSendOnlyWhatIsServed
<1> DEFINE Fine(page) == \A e \in DOMAIN page : \A role \in page[e] :
                           role \in Serves(e) \/ <<e, role>> \in KnownRefusals
<1>1. Fine(AdminUsersPage) BY EndpointsServe, Askers DEF AdminUsersPage
<1>2. Fine(ProjectsPage) BY EndpointsServe, Askers DEF ProjectsPage
<1>3. Fine(ProjectPage) BY EndpointsServe, Askers DEF ProjectPage, KnownRefusals, Role, StoryViewers
<1>4. Fine(RequestsPage) BY EndpointsServe, Askers DEF RequestsPage
<1>5. Fine(NewRequestPage) BY EndpointsServe, Askers DEF NewRequestPage
<1>6. Fine(RequestPage) BY EndpointsServe, Askers DEF RequestPage
<1>7. Fine(BoardPage) BY EndpointsServe, Askers DEF BoardPage
<1>8. Fine(DashboardPage) BY EndpointsServe, Askers DEF DashboardPage, Role
<1>9. Fine(WebsitePage) BY EndpointsServe, Askers DEF WebsitePage
<1>10. Fine(IncidentsPage) BY EndpointsServe, Askers DEF IncidentsPage
<1>11. Fine(IncidentPage) BY EndpointsServe, Askers DEF IncidentPage
<1>12. Fine(MyWorkPage) BY EndpointsServe, Askers DEF MyWorkPage
<1>13. Fine(UserStoriesPage) BY EndpointsServe, Askers DEF UserStoriesPage
<1>14. Fine(NotificationBell) BY EndpointsServe, Askers DEF NotificationBell
<1>15. Fine(AppShell) BY EndpointsServe, Askers DEF AppShell
<1>16. \A page \in Pages : Fine(page)
  <2> HIDE DEF Fine
  <2> QED BY <1>1, <1>2, <1>3, <1>4, <1>5, <1>6, <1>7, <1>8, <1>9, <1>10, <1>11, <1>12, <1>13, <1>14, <1>15
          DEF Pages
<1> QED BY <1>16 DEF PagesSendOnlyWhatIsServed

\* The three lists of the navigation keep the paths their role may open.
LEMMA OneNavigation == NavigationsAgree
<1> SUFFICES ASSUME NEW role \in Role, NEW c \in NavigationContext, buildNavigationCatalog(role, c).ready
             PROVE  LET nav == buildNavigationCatalog(role, c) IN
                    /\ nav.desktopNav = (nav.primaryNav \cup nav.menuNav) \ {"/menu"}
                    /\ \A path \in nav.desktopNav \cup nav.primaryNav \cup nav.menuNav : Keeps(path, role, c)
  BY Zenon DEF NavigationsAgree
<1> DEFINE desktop == commonDesktopItems(role, c)
           primary == primaryNav(role, c)
           menu == menuNav(role, c)
           nav == buildNavigationCatalog(role, c)
<1>1. CASE role = "end_user"
  <2>1. nav = [ready |-> TRUE, primaryNav |-> {}, menuNav |-> {}, desktopNav |-> {}]
    BY <1>1 DEF buildNavigationCatalog
  <2> HIDE DEF nav
  <2>2. nav.primaryNav = {} /\ nav.menuNav = {} /\ nav.desktopNav = {} BY <2>1
  <2> QED BY <2>2 DEF nav
<1>2. CASE role # "end_user"
  <2>1. nav = [ready |-> role # "developer" \/ c.scopeReady, primaryNav |-> primary, menuNav |-> menu,
               desktopNav |-> desktop]
    BY <1>2, Zenon DEF buildNavigationCatalog
  <2>2. nav.primaryNav = primary /\ nav.menuNav = menu /\ nav.desktopNav = desktop
        /\ (nav.ready <=> role # "developer" \/ c.scopeReady)
    <3> HIDE DEF nav, primary, menu, desktop
    <3> QED BY <2>1
  <2>3. role = "developer" => c.scopeReady BY <2>2
  <2>4. role \in {"superadmin", "bos_it", "developer", "pic_web"} BY <1>2 DEF Role
  <2>5. desktop = (primary \cup menu) \ {"/menu"}
    BY <2>3, <2>4 DEF commonDesktopItems, primaryNav, menuNav, When, canNavigateIncidents
  <2>6. \A path \in primary \cup menu : Keeps(path, role, c)
    BY <2>3, <2>4 DEF primaryNav, menuNav, When, canNavigateIncidents, Keeps, isEndUserPublicDashboard,
          canViewTaskMonitoring, canViewProjectRegistry, PROJECT_GLOBAL_VIEWER_ROLES, canViewUserStories,
          USER_STORY_MANAGER_ROLES, canViewIncidents, roleCanAccessAllMonitoredResources, ALL_RESOURCE_ACCESS_ROLES,
          canManagePlatform, PLATFORM_ADMIN_ROLES
  <2> HIDE DEF nav, primary, menu, desktop
  <2>7. /\ nav.desktopNav = (nav.primaryNav \cup nav.menuNav) \ {"/menu"}
        /\ \A path \in nav.desktopNav \cup nav.primaryNav \cup nav.menuNav : Keeps(path, role, c)
    BY <2>2, <2>5, <2>6
  <2> QED BY <2>7 DEF nav
<1> QED BY <1>1, <1>2

\* The role tables of pages, navigation, controllers and services are one table.
THEOREM TablesAgree == Spec => []RoleTablesAgree
<1>1. RoleTablesAgree BY PagesServed, OneNavigation DEF RoleTablesAgree
<1> QED BY <1>1, PTL
-----------------------------------------------------------------------------
(* The board *)

\* A row of the board has the fields it was made with.
LEMMA RowFields ==
  ASSUME NEW source, NEW status, NEW due, NEW row
  PROVE  LET r == BoardRow(source, status, due, row) IN
         /\ r.status = status /\ r.project = row.project /\ r.website = row.website /\ r.priority = row.priority
         /\ r.developers = row.developers /\ r.found = row.found
<1> DEFINE late == isTaskOverdue(status, due)
           action == needsTaskAction(status, late)
           pic == PicOf(row.project)
<1>1. BoardRow(source, status, due, row)
        = [source |-> source, status |-> status, is_overdue |-> late, needs_action |-> action,
           project |-> row.project, website |-> row.website, priority |-> row.priority,
           pic_developer |-> pic, developers |-> row.developers, found |-> row.found,
           last_update |-> row.last_update, completed_at |-> row.completed_at]
  BY Zenon DEF BoardRow
<1> HIDE DEF late, action, pic
<1> QED BY <1>1

\* What a ticket's row shows of the ticket, and an older task's of the task.
LEMMA TicketRowFields ==
  ASSUME NEW t
  PROVE  LET r == ticketRow(t) IN
         /\ r.project = t.project /\ r.website = t.website /\ r.priority = t.priority
         /\ r.developers = developersFor(t) /\ r.found \subseteq t.found
<1> DEFINE status == TicketRowStatus(t)
           due == Earliest({t.slaDeadline} \cup StoryTimes(t, "dueDate"))
           done == IF t.resolvedAt # Never THEN t.resolvedAt
                   ELSE IF TicketRowStatus(t) = "done" THEN Latest({t.updatedAt} \cup StoryTimes(t, "completedAt"))
                   ELSE Never
           people == developersFor(t)
           found == t.found \cap {"title", "description", "projectName", "websiteName"}
           row == [project |-> t.project, website |-> t.website, priority |-> t.priority, developers |-> people,
                   found |-> found, last_update |-> t.updatedAt, completed_at |-> done]
<1>1. ticketRow(t) = BoardRow("task", status, due, row) BY Zenon DEF ticketRow
<1>2. /\ row.project = t.project /\ row.website = t.website /\ row.priority = t.priority
      /\ row.developers = people /\ row.found = found
  <2> HIDE DEF done, people, found
  <2> QED OBVIOUS
<1>3. found \subseteq t.found OBVIOUS
<1> HIDE DEF status, due, row, found
<1> QED BY <1>1, <1>2, <1>3, RowFields

\* What the row of an older task shows of the task.
LEMMA LegacyRowFields ==
  ASSUME NEW k
  PROVE  LET r == legacyTaskRow(k) IN
         /\ r.project = k.website.project /\ r.website = k.website /\ r.priority = "medium"
         /\ r.developers = {k.assignee} \ {NoUser} /\ r.found = k.found /\ r.status = LegacyStatus(k)
<1> DEFINE done == IF k.status = "done" THEN k.updatedAt ELSE Never
           people == {k.assignee} \ {NoUser}
           place == k.website.project
           row == [project |-> place, website |-> k.website, priority |-> "medium", developers |-> people,
                   found |-> k.found, last_update |-> k.updatedAt, completed_at |-> done]
           status == LegacyStatus(k)
<1>1. legacyTaskRow(k) = BoardRow("legacy_task", status, k.slaDeadline, row) BY Zenon DEF legacyTaskRow
<1>2. /\ row.project = place /\ row.website = k.website /\ row.priority = "medium"
      /\ row.developers = people /\ row.found = k.found
  <2> HIDE DEF done, people, place
  <2> QED OBVIOUS
<1> HIDE DEF status, row
<1> QED BY <1>1, <1>2, RowFields DEF status

\* Every criterion of the filter in memory implies its criterion in the database.
LEMMA NothingDropped == PrefilterDropsNothing
<1>1. ASSUME NEW q \in TaskMonitoringQuery, NEW t \in BoardTicket, matches(ticketRow(t), q)
      PROVE  ticketQueryWhere(t, q)
  <2> DEFINE r == ticketRow(t)
  <2>1. /\ r.project = t.project /\ r.website = t.website /\ r.priority = t.priority
        /\ r.developers = developersFor(t) /\ r.found \subseteq t.found
    BY TicketRowFields
  <2> HIDE DEF r
  <2>2. matches(r, q) BY <1>1 DEF r
  <2> QED BY <2>1, <2>2 DEF matches, ticketQueryWhere, developersFor
<1>2. ASSUME NEW q \in TaskMonitoringQuery, NEW k \in LegacyTask, matches(legacyTaskRow(k), q),
             q.search => k.found # {"projectName"}
      PROVE  legacyTaskQueryWhere(k, q)
  <2> DEFINE r == legacyTaskRow(k)
  <2>1. /\ r.project = k.website.project /\ r.website = k.website /\ r.priority = "medium"
        /\ r.developers = {k.assignee} \ {NoUser} /\ r.found = k.found /\ r.status = LegacyStatus(k)
    BY LegacyRowFields
  <2> HIDE DEF r
  <2>2. matches(r, q) BY <1>2 DEF r
  <2>3. /\ k.status \in {"pending", "in_progress", "done"}
        /\ k.found \subseteq {"instructionNotes", "websiteName", "projectName"}
    BY BoardAssumption
  <2>4. LegacyStatus(k) \in {"new", "in_progress", "done"} BY <2>3 DEF LegacyStatus
  <2>5. q.status # Unset => q.status \in {"new", "in_progress", "done"} /\ q.status = LegacyStatus(k)
    BY <2>1, <2>2, <2>4 DEF matches
  <2>6. q.search => k.found \cap {"instructionNotes", "websiteName"} # {}
    <3>1. q.search => k.found # {} BY <2>1, <2>2 DEF matches
    <3> QED BY <1>2, <2>3, <3>1
  <2>7. /\ q.project # Unset => k.website.project = q.project
        /\ q.general => k.website.project = NoProject
        /\ q.website # Unset => k.website = q.website
        /\ q.priority \in {Unset, "medium"}
        /\ q.developer # Unset => q.developer \in {k.assignee, PicOf(k.website.project)}
    BY <2>1, <2>2 DEF matches
  <2> QED BY <2>5, <2>6, <2>7 DEF legacyTaskQueryWhere
<1> QED BY <1>1, <1>2 DEF PrefilterDropsNothing

\* The scope of a developer and the developers of a row are the same people.
LEMMA ReadersNamed == RowNamesItsReaders
<1> SUFFICES ASSUME NEW t \in BoardTicket, NEW u \in AuthUser, u.role = "developer"
             PROVE  boardTicket(u, t) <=> u.id \in ticketRow(t).developers
  BY DEF RowNamesItsReaders
<1>1. u.id # NoUser BY RowsAssumption DEF AuthUser
<1>2. ticketRow(t).developers = developersFor(t) BY TicketRowFields
<1>3. IsPicDeveloper(u, t.project) <=> u.id = PicOf(t.project) BY <1>1 DEF IsPicDeveloper, PicOf
<1>4. boardTicket(u, t) <=> IsPicDeveloper(u, t.project) \/ u.id \in {t.assignedTo} \cup t.userStory \cup t.storyLinks
  BY DEF boardTicket
<1> QED BY <1>1, <1>2, <1>3, <1>4 DEF developersFor

\* Overdue rows first, finished ones last, and the newest first: a strict weak order.
LEMMA RowsOrdered ==
  ASSUME NEW a, NEW b, NEW c,
         a.is_overdue \in BOOLEAN, b.is_overdue \in BOOLEAN, c.is_overdue \in BOOLEAN,
         a.last_update \in Int, b.last_update \in Int, c.last_update \in Int
  PROVE  /\ ~(Before(a, b) /\ Before(b, a))
         /\ Before(a, b) /\ Before(b, c) => Before(a, c)
         /\ Before(a, b) => Before(a, c) \/ Before(c, b)
<1>1. \A x, y : x.is_overdue \in BOOLEAN /\ y.is_overdue \in BOOLEAN =>
        (Before(x, y) <=> \/ x.is_overdue /\ ~y.is_overdue
                          \/ /\ x.is_overdue <=> y.is_overdue
                             /\ \/ x.status # "done" /\ y.status = "done"
                                \/ (x.status = "done" <=> y.status = "done") /\ x.last_update > y.last_update)
  BY DEF Before
<1> QED BY <1>1

\* The order over the rows of the property.
LEMMA OneOrder == RowsHaveOneOrder
<1> DEFINE R == {[is_overdue |-> o, status |-> s, last_update |-> n] :
                   o \in BOOLEAN, s \in {"done", "new"}, n \in 0..2}
<1>1. \A r \in R : r.is_overdue \in BOOLEAN /\ r.last_update \in Int OBVIOUS
<1> HIDE DEF R
<1>2. \A a, b, c \in R : /\ ~(Before(a, b) /\ Before(b, a))
                         /\ Before(a, b) /\ Before(b, c) => Before(a, c)
                         /\ Before(a, b) => Before(a, c) \/ Before(c, b)
  BY <1>1, RowsOrdered
<1> QED BY <1>2 DEF RowsHaveOneOrder, R

\* A number divided upwards.
LEMMA DividedUp ==
  ASSUME NEW a \in Nat, a > 0, NEW b \in Nat, b > 0
  PROVE  LET q == CeilDiv(a, b) IN q \in Nat /\ q >= 1 /\ (q - 1) * b < a /\ a =< q * b
<1> DEFINE q == (a + b - 1) \div b
           r == (a + b - 1) % b
<1>1. a + b - 1 \in Nat OBVIOUS
<1>2. q \in Int /\ r \in 0 .. (b - 1) /\ a + b - 1 = b * q + r
  BY <1>1
<1> HIDE DEF q, r
<1>3. b * q = q * b BY <1>2
<1>4. (q - 1) * b = q * b - b BY <1>2
<1>5. (q - 1) * b < a /\ a =< q * b BY <1>2, <1>3, <1>4
<1>6. q >= 1
  <2>1. q =< 0 => q * b =< 0 BY <1>2
  <2> QED BY <1>2, <1>5, <2>1
<1>7. CeilDiv(a, b) = q BY DEF CeilDiv, q
<1> QED BY <1>2, <1>5, <1>6, <1>7

\* Intervals of one length that share a row are one interval.
LEMMA OneInterval ==
  ASSUME NEW b \in Nat, b > 0, NEW m \in Int, NEW n \in Int, NEW i \in Int,
         (m - 1) * b < i, i =< m * b, (n - 1) * b < i, i =< n * b
  PROVE  m = n
<1>1. (m - 1) * b = m * b - b /\ (n - 1) * b = n * b - b OBVIOUS
<1>2. ASSUME NEW x \in Int, NEW y \in Int, x < y PROVE x * b =< (y - 1) * b
  <2>1. x =< y - 1 BY <1>2
  <2>2. y - 1 - x \in Nat BY <2>1
  <2>3. (y - 1 - x) * b >= 0 BY <2>2
  <2>4. (y - 1 - x) * b = (y - 1) * b - x * b OBVIOUS
  <2> QED BY <2>3, <2>4
<1>3. ~(m < n) BY <1>2
<1>4. ~(n < m) BY <1>2
<1> QED BY <1>3, <1>4

\* Row i is on page ceil(i / limit), which is at most the last page announced.
LEMMA RowsOnPages ==
  ASSUME NEW total \in Nat, NEW limit \in Nat, limit > 0
  PROVE  /\ \A i \in 1..total : \E n \in 1..total_pages(limit, total) :
              \A m \in 1..(total + 1) : i \in PageOf(m, limit, total) <=> m = n
         /\ total > 0 => \A n \in 1..total_pages(limit, total) : PageOf(n, limit, total) # {}
<1> DEFINE pages == total_pages(limit, total)
<1>1. total > 0 => pages \in Nat /\ (pages - 1) * limit < total /\ total =< pages * limit
  BY DividedUp DEF total_pages
<1> HIDE DEF pages
<1>2. ASSUME NEW x \in Int, NEW y \in Int, x < y PROVE x * limit =< (y - 1) * limit
  <2>1. y - 1 - x \in Nat BY <1>2
  <2>2. (y - 1 - x) * limit >= 0 BY <2>1
  <2>3. (y - 1 - x) * limit = (y - 1) * limit - x * limit OBVIOUS
  <2> QED BY <2>2, <2>3
<1>3. ASSUME NEW i \in 1..total
      PROVE  \E n \in 1..pages : \A m \in 1..(total + 1) : i \in PageOf(m, limit, total) <=> m = n
  <2> DEFINE n == CeilDiv(i, limit)
  <2>1. n \in Nat /\ n >= 1 /\ (n - 1) * limit < i /\ i =< n * limit
    <3>1. i \in Nat /\ i > 0 OBVIOUS
    <3> QED BY <3>1, DividedUp, Zenon
  <2> HIDE DEF n
  <2>2. \A m \in 1..(total + 1) : i \in PageOf(m, limit, total) <=> (m - 1) * limit < i /\ i =< m * limit
    BY DEF PageOf
  <2>3. \A m \in 1..(total + 1) : (m - 1) * limit < i /\ i =< m * limit <=> m = n BY <2>1, OneInterval
  <2>4. n =< pages
    <3>1. pages < n => pages * limit =< (n - 1) * limit BY <1>1, <1>2, <2>1
    <3>2. pages * limit \in Int /\ (n - 1) * limit \in Int BY <1>1, <2>1
    <3> QED BY <1>1, <2>1, <3>1, <3>2
  <2>5. n \in 1..pages BY <1>1, <2>1, <2>4
  <2>6. \A m \in 1..(total + 1) : i \in PageOf(m, limit, total) <=> m = n BY <2>2, <2>3
  <2> QED BY <2>5, <2>6
<1>4. ASSUME total > 0, NEW n \in 1..pages PROVE PageOf(n, limit, total) # {}
  <2> DEFINE i == (n - 1) * limit + 1
  <2>1. n * limit = (n - 1) * limit + limit /\ (n - 1) * limit \in Nat OBVIOUS
  <2>2. (n - 1) * limit < total
    <3>1. n < pages => n * limit =< (pages - 1) * limit BY <1>1, <1>2, <1>4
    <3>2. (pages - 1) * limit \in Int BY <1>1, <1>4
    <3> QED BY <1>1, <1>4, <2>1, <3>1, <3>2
  <2>3. i \in 1..total /\ (n - 1) * limit < i /\ i =< n * limit BY <2>1, <2>2
  <2> HIDE DEF i
  <2> QED BY <2>3 DEF PageOf
<1> QED BY <1>3, <1>4 DEF pages

\* The pages of the property.
LEMMA PagesCutTheList == EveryRowOnOnePage
<1>1. \A total \in 0..7, limit \in 1..4 : total \in Nat /\ limit \in Nat /\ limit > 0 OBVIOUS
<1> QED BY <1>1, RowsOnPages DEF EveryRowOnOnePage

\* The overview and the list over any number of rows: a hidden project has finished rows only.
LEMMA OverviewCounts == OverviewAgreesWithList
<1> SUFFICES ASSUME NEW n \in Nat, NEW rows \in [1..n -> {r \in BoardRows : r.status = "done" => ~r.is_overdue}]
             PROVE  LET list == summarize(rows)
                        overview == aggregateTaskMonitoringRows(rows, Now, FALSE) IN
                    /\ overview.active = list.total - list.done
                    /\ overview.new = list.new + list.waiting_pic
                    /\ overview.in_progress = list.in_progress /\ overview.blocked = list.blocked
                    /\ overview.overdue = list.overdue
                    /\ overview.completed_period = list.done
                    /\ overview.attention_projects > 0 <=> list.needs_action > 0
  <2>1. \A n \in 0..3 : n \in Nat OBVIOUS
  <2> QED BY <2>1, Zenon DEF OverviewAgreesWithList
<1>1. ASSUME NEW r \in BoardRows
      PROVE  /\ r.status \in TaskBusinessStatus /\ r.is_overdue \in BOOLEAN
             /\ r.needs_action <=> needsTaskAction(r.status, r.is_overdue)
             /\ r.completed_at = IF r.status = "done" THEN Now ELSE Never
  <2> DEFINE Place == {NoProject, CHOOSE x \in Project : TRUE}
             Row(p, s, o) == [project |-> p, status |-> s, is_overdue |-> o, needs_action |-> needsTaskAction(s, o),
                              completed_at |-> IF s = "done" THEN Now ELSE Never]
  <2>0. \E p \in Place, s \in TaskBusinessStatus, o \in BOOLEAN : r = Row(p, s, o)
    <3>1. BoardRows = {Row(p, s, o) : p \in Place, s \in TaskBusinessStatus, o \in BOOLEAN} BY DEF BoardRows
    <3> HIDE DEF Row, Place
    <3> QED BY <1>1, <3>1
  <2>1. PICK p \in Place, s \in TaskBusinessStatus, o \in BOOLEAN : r = Row(p, s, o)
    <3> HIDE DEF Row, Place
    <3> QED BY <2>0
  <2> DEFINE act == needsTaskAction(s, o)
             when == IF s = "done" THEN Now ELSE Never
  <2>2. r = [project |-> p, status |-> s, is_overdue |-> o, needs_action |-> act, completed_at |-> when] BY <2>1
  <2>3. r.status = s /\ r.is_overdue = o /\ r.needs_action = act /\ r.completed_at = when
    <3> HIDE DEF act, when
    <3> QED BY <2>2
  <2> QED BY <2>3, Zenon
<1>2. DOMAIN rows = 1..n /\ Len(rows) = n
  <2>1. rows \in Seq({r \in BoardRows : r.status = "done" => ~r.is_overdue}) OBVIOUS
  <2> QED BY <2>1
<1>3. \A i \in 1..n : /\ rows[i].status \in TaskBusinessStatus /\ rows[i].is_overdue \in BOOLEAN
                      /\ rows[i].needs_action <=> needsTaskAction(rows[i].status, rows[i].is_overdue)
                      /\ rows[i].completed_at = IF rows[i].status = "done" THEN Now ELSE Never
                      /\ rows[i].status = "done" => ~rows[i].is_overdue
  BY <1>1
<1>4. \A i \in 1..n : rows[i].needs_action => rows[i].status # "done" BY <1>3 DEF needsTaskAction
<1> DEFINE shown == OverviewGroups(rows, FALSE)
           With(S) == {i \in 1..n : rows[i].status \in S}
           Late == {i \in 1..n : rows[i].is_overdue}
           Waiting == {i \in 1..n : rows[i].needs_action}
           Shown(S) == {i \in 1..n : rows[i].project \in shown /\ rows[i].status \in S}
           ShownLate == {i \in 1..n : rows[i].project \in shown /\ rows[i].is_overdue}
           Ended == {i \in 1..n : rows[i].status = "done" /\ rows[i].completed_at >= Now /\ rows[i].completed_at =< Now}
           Wanting == {p \in shown : \E i \in Of(rows, p) : rows[i].needs_action}
           places == {rows[i].project : i \in 1..n}
<1>5. \A i \in 1..n : rows[i].status # "done" => rows[i].project \in shown BY <1>2 DEF OverviewGroups, Of
<1>6. \A S : "done" \notin S => Shown(S) = With(S) BY <1>5
<1>7. ShownLate = Late BY <1>3, <1>5
<1>8. Ended = With({"done"}) BY <1>3, BoardAssumption
<1>9. Wanting # {} <=> Waiting # {} BY <1>2, <1>4, <1>5 DEF Of
<1>10. IsFiniteSet(Wanting)
  <2>1. IsFiniteSet(1..n) BY FS_Interval
  <2>2. IsFiniteSet(places)
    <3> DEFINE place == [i \in 1..n |-> rows[i].project]
    <3>1. place \in Surjection(1..n, places) BY DEF Surjection
    <3> HIDE DEF place, places
    <3> QED BY <2>1, <3>1, FS_Surjection
  <2>3. Wanting \subseteq places BY <1>2 DEF OverviewGroups
  <2> HIDE DEF Wanting, places
  <2> QED BY <2>2, <2>3, FS_Subset
<1> DEFINE N(S) == Cardinality(With(S))
           list == summarize(rows)
           overview == aggregateTaskMonitoringRows(rows, Now, FALSE)
<1>11. /\ list.total = n /\ list.new = N({"new"}) /\ list.waiting_pic = N({"waiting_pic"})
       /\ list.in_progress = N({"in_progress"}) /\ list.blocked = N({"blocked"}) /\ list.done = N({"done"})
       /\ list.overdue = Cardinality(Late) /\ list.needs_action = Cardinality(Waiting)
  <2> DEFINE n1 == N({"new"})
             n2 == N({"waiting_pic"})
             n3 == N({"in_progress"})
             n4 == N({"blocked"})
             n5 == N({"done"})
             n6 == Cardinality(Late)
             n7 == Cardinality(Waiting)
  <2>1. list = [total |-> n, new |-> n1, waiting_pic |-> n2, in_progress |-> n3, blocked |-> n4, done |-> n5,
                overdue |-> n6, needs_action |-> n7]
    BY <1>2, Zenon DEF summarize
  <2> HIDE DEF list, n1, n2, n3, n4, n5, n6, n7
  <2>2. /\ list.total = n /\ list.new = n1 /\ list.waiting_pic = n2 /\ list.in_progress = n3 /\ list.blocked = n4
        /\ list.done = n5 /\ list.overdue = n6 /\ list.needs_action = n7
    BY <2>1
  <2> QED BY <2>2 DEF n1, n2, n3, n4, n5, n6, n7
<1>12. /\ overview.active = N(TaskBusinessStatus \ {"done"}) /\ overview.new = N({"new", "waiting_pic"})
       /\ overview.in_progress = N({"in_progress"}) /\ overview.blocked = N({"blocked"})
       /\ overview.overdue = Cardinality(Late) /\ overview.completed_period = N({"done"})
       /\ overview.attention_projects = Cardinality(Wanting)
  <2> DEFINE m0 == Cardinality(shown)
             m1 == Cardinality(Shown(TaskBusinessStatus \ {"done"}))
             m2 == Cardinality(Shown({"new", "waiting_pic"}))
             m3 == Cardinality(Shown({"in_progress"}))
             m4 == Cardinality(Shown({"blocked"}))
             m5 == Cardinality(ShownLate)
             m6 == Cardinality(Ended)
             m7 == Cardinality(Wanting)
  <2>1. overview = [projects |-> m0, active |-> m1, new |-> m2, in_progress |-> m3, blocked |-> m4, overdue |-> m5,
                    completed_period |-> m6, attention_projects |-> m7]
    BY <1>2, Zenon DEF aggregateTaskMonitoringRows
  <2>2. /\ overview.active = m1 /\ overview.new = m2 /\ overview.in_progress = m3 /\ overview.blocked = m4
        /\ overview.overdue = m5 /\ overview.completed_period = m6 /\ overview.attention_projects = m7
    <3> HIDE DEF overview, m0, m1, m2, m3, m4, m5, m6, m7
    <3> QED BY <2>1
  <2>3. /\ Shown(TaskBusinessStatus \ {"done"}) = With(TaskBusinessStatus \ {"done"})
        /\ Shown({"new", "waiting_pic"}) = With({"new", "waiting_pic"})
        /\ Shown({"in_progress"}) = With({"in_progress"}) /\ Shown({"blocked"}) = With({"blocked"})
    <3> HIDE DEF Shown, With
    <3> QED BY <1>6
  <2> HIDE DEF overview, Shown, With, Ended, ShownLate, Late, Wanting
  <2> QED BY <1>7, <1>8, <2>2, <2>3 DEF m1, m2, m3, m4, m5, m6, m7, N
<1>13. N({"new", "waiting_pic"}) = N({"new"}) + N({"waiting_pic"})
  <2>1. With({"new", "waiting_pic"}) = With({"new"}) \cup With({"waiting_pic"})
        /\ With({"new"}) \cap With({"waiting_pic"}) = {}
        /\ With({"new"}) \subseteq 1..n /\ With({"waiting_pic"}) \subseteq 1..n
    OBVIOUS
  <2> HIDE DEF With
  <2> QED BY <2>1, Counting
<1>14. N(TaskBusinessStatus \ {"done"}) = n - N({"done"})
  <2>1. 1..n = With(TaskBusinessStatus \ {"done"}) \cup With({"done"})
        /\ With(TaskBusinessStatus \ {"done"}) \cap With({"done"}) = {}
        /\ With(TaskBusinessStatus \ {"done"}) \subseteq 1..n /\ With({"done"}) \subseteq 1..n
    BY <1>3
  <2> HIDE DEF With
  <2>2. Cardinality(1..n) = n /\ N({"done"}) \in Nat /\ N(TaskBusinessStatus \ {"done"}) \in Nat
    <3>0. Cardinality(1..n) = n BY Counting
    <3>1. N({"done"}) \in Nat BY <2>1, Counting
    <3>2. N(TaskBusinessStatus \ {"done"}) \in Nat BY <2>1, Counting
    <3> QED BY <3>0, <3>1, <3>2
  <2>3. Cardinality(1..n) = N(TaskBusinessStatus \ {"done"}) + N({"done"})
    <3> DEFINE U == With(TaskBusinessStatus \ {"done"})
               D == With({"done"})
    <3>1. 1..n = U \cup D /\ U \cap D = {} /\ U \subseteq 1..n /\ D \subseteq 1..n BY <2>1
    <3> HIDE DEF U, D
    <3>2. Cardinality(U \cup D) = Cardinality(U) + Cardinality(D) BY <3>1, Counting
    <3>3. Cardinality(1..n) = Cardinality(U) + Cardinality(D) BY <3>1, <3>2, Zenon
    <3> QED BY <3>3 DEF U, D
  <2> QED BY <2>2, <2>3
<1>15. Cardinality(Wanting) > 0 <=> Cardinality(Waiting) > 0
  <2>1. Waiting \subseteq 1..n OBVIOUS
  <2> HIDE DEF Wanting, Waiting
  <2>2. Cardinality(Waiting) > 0 <=> Waiting # {} BY <2>1, Counting
  <2>3. Cardinality(Wanting) \in Nat /\ (Cardinality(Wanting) = 0 <=> Wanting = {})
    BY <1>10, FS_CardinalityType, FS_EmptySet
  <2> QED BY <1>9, <2>2, <2>3
<1> HIDE DEF list, overview, N, Late, Waiting, Wanting
<1>16. /\ overview.active = list.total - list.done
       /\ overview.new = list.new + list.waiting_pic
       /\ overview.in_progress = list.in_progress /\ overview.blocked = list.blocked
       /\ overview.overdue = list.overdue
       /\ overview.completed_period = list.done
       /\ overview.attention_projects > 0 <=> list.needs_action > 0
  BY <1>11, <1>12, <1>13, <1>14, <1>15
<1> QED BY <1>16 DEF list, overview

\* Two filters, one order, pages and an overview, and one list of rows behind them all.
THEOREM BoardShows == Spec => []BoardShowsItsRows
<1>1. BoardShowsItsRows
  BY NothingDropped, ReadersNamed, OneOrder, PagesCutTheList, OverviewCounts DEF BoardShowsItsRows
<1> QED BY <1>1, PTL
-----------------------------------------------------------------------------
(* The readers *)

\* A set of rows in two parts is counted in two parts.
TwoParts(A, B, C) == A = B \cup C /\ B \cap C = {}

\* The size of a set in two parts.
LEMMA Parts ==
  ASSUME NEW A, NEW B, NEW C, IsFiniteSet(A), TwoParts(A, B, C)
  PROVE  /\ Cardinality(A) \in Nat /\ Cardinality(B) \in Nat /\ Cardinality(C) \in Nat
         /\ Cardinality(A) = Cardinality(B) + Cardinality(C)
<1>1. A = B \cup C /\ B \cap C = {} BY DEF TwoParts
<1>2. B \subseteq A /\ C \subseteq A BY <1>1
<1>3. IsFiniteSet(B) /\ IsFiniteSet(C) BY <1>2, FS_Subset
<1>4. Cardinality(B) \in Nat /\ Cardinality(C) \in Nat BY <1>3, FS_CardinalityType
<1>5. Cardinality(B \cup C) = Cardinality(B) + Cardinality(C) - Cardinality(B \cap C) BY <1>3, FS_Union
<1>6. Cardinality(B \cap C) = 0 BY <1>1, FS_EmptySet, Zenon
<1>7. Cardinality(B \cup C) = Cardinality(B) + Cardinality(C) BY <1>4, <1>5, <1>6
<1>8. Cardinality(A) = Cardinality(B) + Cardinality(C) BY <1>1, <1>7, Zenon
<1> QED BY <1>4, <1>8

\* Any choice of the n rows is finite.
LEMMA Rows ==
  ASSUME NEW n \in Nat, NEW A \in SUBSET (1..n)
  PROVE  IsFiniteSet(A) /\ Cardinality(A) \in Nat
<1>1. IsFiniteSet(1..n) BY FS_Interval
<1>2. IsFiniteSet(A) BY <1>1, FS_Subset
<1> QED BY <1>2, FS_CardinalityType

\* The newest of some results by a time: one at most when no two have the same, and the
\* same by two times that run in the same order.
LEMMA OneNewest ==
  ASSUME NEW R \in ResultSets
  PROVE  /\ R = {} => latest(R) = {}
         /\ R # {} => \E r \in R : latest(R) = {r}
         /\ \A r \in R : r \in MonitoringResult
<1>1. \A r \in R : r \in MonitoringResult /\ r.checkedAt \in Int
  <2>1. \A r \in R : r \in MonitoringResult BY DEF ResultSets
  <2> QED BY <2>1 DEF MonitoringResult
<1>2. \A a, b \in R : a # b => a.checkedAt # b.checkedAt BY DEF ResultSets
<1>3. R = {} \/ \E a, b \in MonitoringResult : R = {a, b} BY DEF ResultSets
<1>4. R = {} => latest(R) = {} BY DEF latest, NewestBy
<1>5. ASSUME NEW a \in MonitoringResult, NEW b \in MonitoringResult, R = {a, b}
      PROVE  \E r \in R : latest(R) = {r}
  <2>1. a \in R /\ b \in R /\ a.checkedAt \in Int /\ b.checkedAt \in Int BY <1>1, <1>5
  <2>2. a # b => a.checkedAt # b.checkedAt BY <1>2, <2>1
  <2>3. \A r : r \in latest(R) <=> r \in {a, b} /\ a.checkedAt =< r.checkedAt /\ b.checkedAt =< r.checkedAt
    BY <1>5 DEF latest, NewestBy
  <2>4. CASE a.checkedAt < b.checkedAt
    <3>1. latest(R) = {b} BY <2>1, <2>3, <2>4
    <3> QED BY <2>1, <3>1
  <2>5. CASE b.checkedAt < a.checkedAt
    <3>1. latest(R) = {a} BY <2>1, <2>3, <2>5
    <3> QED BY <2>1, <3>1
  <2>6. CASE a = b
    <3>1. latest(R) = {a} BY <2>1, <2>3, <2>6
    <3> QED BY <2>1, <3>1
  <2> QED BY <2>1, <2>2, <2>4, <2>5, <2>6
<1> QED BY <1>1, <1>3, <1>4, <1>5

\* The newest by slot and the newest by time, when slots and times run in one order.
LEMMA LatestIsOne == OneLatestResult
<1>1. ASSUME NEW R \in ResultSets PROVE dashboardLatest(R) = latest(R) /\ detailLatest(R) = latest(R) /\ projectLatest(R) = latest(R)
  BY DEF dashboardLatest, detailLatest, projectLatest, latest
<1>2. ASSUME NEW R \in ResultSets, \A a, b \in R : a.scheduledAt < b.scheduledAt => a.checkedAt < b.checkedAt
      PROVE  listByWebsite(R) = latest(R)
  <2>1. \A a, b \in R : /\ a.scheduledAt \in Int /\ a.checkedAt \in Int
                        /\ a # b => a.scheduledAt # b.scheduledAt /\ a.checkedAt # b.checkedAt
    <3>1. \A r \in R : r \in MonitoringResult BY OneNewest
    <3>2. \A a, b \in R : a # b => a.scheduledAt # b.scheduledAt /\ a.checkedAt # b.checkedAt BY DEF ResultSets
    <3> QED BY <3>1, <3>2 DEF MonitoringResult
  <2>2. \A a, b \in R : a.scheduledAt =< b.scheduledAt <=> a.checkedAt =< b.checkedAt
    <3>1. \A a, b \in R : a.scheduledAt < b.scheduledAt => a.checkedAt < b.checkedAt BY <1>2
    <3>2. \A a, b \in R : a.scheduledAt = b.scheduledAt => a = b BY <2>1
    <3>3. \A a, b \in R : a.checkedAt = b.checkedAt => a = b BY <2>1
    <3> QED BY <2>1, <3>1, <3>2, <3>3
  <2>3. \A r : r \in listByWebsite(R) <=> r \in R /\ \A x \in R : x.scheduledAt =< r.scheduledAt
    BY DEF listByWebsite, NewestBy
  <2>4. \A r : r \in latest(R) <=> r \in R /\ \A x \in R : x.checkedAt =< r.checkedAt
    BY DEF latest, NewestBy
  <2>5. \A r : r \in listByWebsite(R) <=> r \in latest(R) BY <2>2, <2>3, <2>4
  <2> QED BY <2>5
<1> QED BY <1>1, <1>2 DEF OneLatestResult

\* The latest result of a website has a status, or there is none.
LEMMA OneStatus ==
  ASSUME NEW R \in ResultSets
  PROVE  \/ projectLatest(R) = {} /\ StatusIn(projectLatest(R)) = {}
         \/ projectLatest(R) # {} /\ \E s \in MonitoringStatus : StatusIn(projectLatest(R)) = {s}
<1>1. projectLatest(R) = latest(R) BY DEF projectLatest, latest
<1>2. CASE R = {}
  <2>1. latest(R) = {} BY <1>2, OneNewest
  <2> QED BY <1>1, <2>1 DEF StatusIn
<1>3. CASE R # {}
  <2>1. PICK r \in R : latest(R) = {r} BY <1>3, OneNewest
  <2>2. r.status \in MonitoringStatus
    <3>1. r \in MonitoringResult BY OneNewest
    <3> QED BY <3>1 DEF MonitoringResult
  <2>3. StatusIn({r}) = {r.status} BY DEF StatusIn
  <2> QED BY <1>1, <2>1, <2>2, <2>3, Zenon
<1> QED BY <1>2, <1>3

\* The worst card of two websites, and a summary that counts each once.
LEMMA HealthShown == HealthIsWorstCard
<1> SUFFICES ASSUME NEW R1 \in ResultSets, NEW R2 \in ResultSets
             PROVE  LET sites == <<R1, R2>>
                        health == healthFromWebsites(sites)
                        summary == healthSummaryFromWebsites(sites)
                        Shown(role, R, f) == \E u \in AuthUser : u.role = role /\ cardShown(u, R, f) IN
                    /\ health = "down" <=> Shown("superadmin", R1, "down") \/ Shown("superadmin", R2, "down")
                    /\ health = "down" <=> summary["down"] > 0
                    /\ health = "warning" <=> summary["down"] = 0 /\ summary["warning"] > 0
                    /\ health = "normal" => summary["normal"] > 0
                    /\ summary["normal"] + summary["warning"] + summary["down"] + summary["unknown"] = 2
                    /\ Shown("end_user", R1, Unset) <=> Shown("superadmin", R1, "active")
  BY Zenon DEF HealthIsWorstCard
<1> DEFINE sites == <<R1, R2>>
           S1 == StatusIn(projectLatest(R1))
           S2 == StatusIn(projectLatest(R2))
           none1 == projectLatest(R1) = {}
           none2 == projectLatest(R2) = {}
           In(s) == {i \in 1..2 : \/ i = 1 /\ (S1 = {s} \/ (s = "unknown" /\ none1))
                                  \/ i = 2 /\ (S2 = {s} \/ (s = "unknown" /\ none2))}
           health == healthFromWebsites(sites)
           summary == healthSummaryFromWebsites(sites)
           Shown(role, R, f) == \E u \in AuthUser : u.role = role /\ cardShown(u, R, f)
<1>1. DOMAIN sites = 1..2 /\ sites[1] = R1 /\ sites[2] = R2 OBVIOUS
<1>2. \A i \in 1..2 : i = 1 \/ i = 2 OBVIOUS
<1>3. \A s \in MonitoringStatus : summary[s] = Cardinality(In(s))
  <2> SUFFICES ASSUME NEW s \in MonitoringStatus PROVE summary[s] = Cardinality(In(s)) OBVIOUS
  <2>1. summary[s] = Cardinality({i \in DOMAIN sites : StatusIn(projectLatest(sites[i])) = {s}
                                         \/ (s = "unknown" /\ projectLatest(sites[i]) = {})})
    BY DEF healthSummaryFromWebsites
  <2>2. {i \in DOMAIN sites : StatusIn(projectLatest(sites[i])) = {s}
                                         \/ (s = "unknown" /\ projectLatest(sites[i]) = {})} = In(s)
    <3> HIDE DEF sites
    <3> QED BY <1>1, <1>2
  <2> QED BY <2>1, <2>2
<1>4. /\ (none1 /\ S1 = {}) \/ (~none1 /\ \E s \in MonitoringStatus : S1 = {s})
      /\ (none2 /\ S2 = {}) \/ (~none2 /\ \E s \in MonitoringStatus : S2 = {s})
  BY OneStatus, Zenon
<1>5. UNION {StatusIn(projectLatest(sites[i])) : i \in DOMAIN sites} = S1 \cup S2
  <2> HIDE DEF sites
  <2> QED BY <1>1, <1>2
<1> DEFINE All == S1 \cup S2
<1>6. health = CASE "down" \in All -> "down"
                 [] "down" \notin All /\ "warning" \in All -> "warning"
                 [] All \cap {"down", "warning"} = {} /\ (All = {} \/ "unknown" \in All) -> "unknown"
                 [] OTHER -> "normal"
  BY <1>5, Zenon DEF healthFromWebsites
<1> HIDE DEF sites, S1, S2, none1, none2, health, summary
<1>7. /\ health = "down" <=> "down" \in All
      /\ health = "warning" <=> "down" \notin All /\ "warning" \in All
      /\ health = "normal" => "normal" \in All
  <2>1. \A s \in All : s \in MonitoringStatus BY <1>4
  <2> HIDE DEF All
  <2>2. CASE "down" \in All BY <1>6, <2>2
  <2>3. CASE "down" \notin All /\ "warning" \in All BY <1>6, <2>3
  <2>4. CASE All \cap {"down", "warning"} = {} /\ (All = {} \/ "unknown" \in All) BY <1>6, <2>4
  <2>5. CASE "down" \notin All /\ "warning" \notin All /\ All # {} /\ "unknown" \notin All
    <3>1. health = "normal" BY <1>6, <2>5
    <3> QED BY <2>1, <2>5, <3>1 DEF MonitoringStatus
  <2> QED BY <2>2, <2>3, <2>4, <2>5
<1>8. \A s \in MonitoringStatus : /\ In(s) \subseteq 1..2
                                  /\ s # "unknown" => (s \in All <=> In(s) # {})
  <2>1. 1 \in 1..2 /\ 2 \in 1..2 OBVIOUS
  <2>2. \A s \in MonitoringStatus : s # "unknown" => (s \in All <=> S1 = {s} \/ S2 = {s}) BY <1>4
  <2> QED BY <2>1, <2>2
<1>9. \A s \in MonitoringStatus : Cardinality(In(s)) \in Nat /\ (Cardinality(In(s)) > 0 <=> In(s) # {})
  <2> HIDE DEF In
  <2>1. 2 \in Nat OBVIOUS
  <2> QED BY <1>8, <2>1, Counting
<1>10. "normal" \in MonitoringStatus /\ "warning" \in MonitoringStatus /\ "down" \in MonitoringStatus
       /\ "unknown" \in MonitoringStatus
  BY DEF MonitoringStatus
<1>11. Cardinality(In("normal")) + Cardinality(In("warning")) + Cardinality(In("down")) + Cardinality(In("unknown")) = 2
  <2> DEFINE A == In("normal") \cup In("warning")
             B == In("down") \cup In("unknown")
  <2>1. /\ TwoParts(A, In("normal"), In("warning")) /\ TwoParts(B, In("down"), In("unknown"))
        /\ TwoParts(1..2, A, B)
    BY <1>4 DEF MonitoringStatus, TwoParts
  <2>2. IsFiniteSet(A) /\ IsFiniteSet(B) /\ IsFiniteSet(1..2)
    <3>1. A \in SUBSET (1..2) /\ B \in SUBSET (1..2) /\ 1..2 \in SUBSET (1..2) OBVIOUS
    <3> HIDE DEF A, B
    <3> QED BY <3>1, Rows
  <2>3. 2 \in Nat OBVIOUS
  <2> HIDE DEF In
  <2>4. Cardinality(A) = Cardinality(In("normal")) + Cardinality(In("warning")) BY <2>1, <2>2, Parts
  <2>5. Cardinality(B) = Cardinality(In("down")) + Cardinality(In("unknown")) BY <2>1, <2>2, Parts
  <2> HIDE DEF A, B
  <2>6. Cardinality(1..2) = Cardinality(A) + Cardinality(B) BY <2>1, <2>2, Parts
  <2>7. Cardinality(1..2) = 2 BY <2>3, Counting
  <2> QED BY <1>9, <1>10, <2>4, <2>5, <2>6, <2>7
<1>12. PICK x : x \in UserId BY ReadersAssumption
<1>13. \A role \in Role : \E u \in AuthUser : u.role = role
  <2> SUFFICES ASSUME NEW role \in Role PROVE \E u \in AuthUser : u.role = role OBVIOUS
  <2>1. [id |-> x, role |-> role] \in AuthUser BY <1>12 DEF AuthUser
  <2>2. [id |-> x, role |-> role].role = role OBVIOUS
  <2> QED BY <2>1, <2>2
<1>14. "superadmin" \in Role /\ "end_user" \in Role BY DEF Role
<1>15. \A R : dashboardLatest(R) = projectLatest(R) BY DEF dashboardLatest, projectLatest
<1>16. \A R : Shown("superadmin", R, "down") <=> StatusIn(projectLatest(R)) = {"down"}
  <2>1. \A u, R : u.role = "superadmin" => (cardShown(u, R, "down") <=> StatusIn(projectLatest(R)) = {"down"})
    BY <1>15 DEF cardShown, isEndUserPublicDashboard
  <2> QED BY <1>13, <1>14, <2>1
<1>17. \A R : Shown("superadmin", R, "active") <=> StatusIn(projectLatest(R)) \cap {"normal", "warning"} # {}
  <2>1. \A u, R : u.role = "superadmin" =>
          (cardShown(u, R, "active") <=> StatusIn(projectLatest(R)) \cap {"normal", "warning"} # {})
    BY <1>15 DEF cardShown, isEndUserPublicDashboard
  <2> QED BY <1>13, <1>14, <2>1
<1>18. \A R : Shown("end_user", R, Unset) <=> StatusIn(projectLatest(R)) \cap {"normal", "warning"} # {}
  <2>1. \A u, R : u.role = "end_user" =>
          (cardShown(u, R, Unset) <=> StatusIn(projectLatest(R)) \cap {"normal", "warning"} # {})
    BY <1>15 DEF cardShown, isEndUserPublicDashboard
  <2> QED BY <1>13, <1>14, <2>1
<1>19. "down" \in All <=> S1 = {"down"} \/ S2 = {"down"} BY <1>4
<1> HIDE DEF Shown, In, All
<1>20. health = "down" <=> Shown("superadmin", R1, "down") \/ Shown("superadmin", R2, "down")
  BY <1>7, <1>16, <1>19 DEF S1, S2
<1>21. Shown("end_user", R1, Unset) <=> Shown("superadmin", R1, "active") BY <1>17, <1>18
<1>22. /\ health = "down" <=> summary["down"] > 0
       /\ health = "warning" <=> summary["down"] = 0 /\ summary["warning"] > 0
       /\ health = "normal" => summary["normal"] > 0
  BY <1>3, <1>7, <1>8, <1>9, <1>10
<1>23. summary["normal"] + summary["warning"] + summary["down"] + summary["unknown"] = 2
  BY <1>3, <1>10, <1>11
<1> QED BY <1>20, <1>21, <1>22, <1>23 DEF health, summary, sites, Shown

\* Units of work in the two sequences the counts are taken over, of any length.
LEMMA WorkCounted ==
  ASSUME NEW d, NEW n \in Nat, NEW m \in Nat, NEW S \in [1..n -> WorkStory], NEW T \in [1..m -> WorkTask]
  PROVE  LET own == meWork(d, S, T)
             load == developers(d, <<>>, T, S)
             tasks == {i \in 1..m : T[i].assignee = d /\ T[i].status # "done"} IN
         /\ own = meWorkSummary(d, S, T)
         /\ roster(d, S).active_workload = own.pending + own.in_progress
         /\ roster(d, S).overdue_workload = own.overdue - LateTasks(T, d)
         /\ load.overdue = own.overdue
         /\ load.total_active = load.pending + load.in_progress
         /\ load.total_active = own.pending + own.in_progress + Cardinality(tasks)
         /\ load.total_active \in Nat
<1>1. DOMAIN S = 1..n /\ DOMAIN T = 1..m OBVIOUS
<1>2. \A i \in 1..n : S[i].status \in UserStoryStatus /\ S[i].primary \notin S[i].collaborators
  BY DEF WorkStory
<1>3. \A i \in 1..m : T[i].status \in {"pending", "in_progress", "done"} BY DEF WorkTask
<1> DEFINE Mine == {i \in 1..n : AssignedTo(S[i], d)}
           Held(Q) == {i \in 1..n : AssignedTo(S[i], d) /\ S[i].status \in Q}
           Late == {i \in 1..n : AssignedTo(S[i], d) /\ storyIsOverdue(S[i])}
           Led == {i \in 1..n : S[i].primary = d /\ storyIsOverdue(S[i])}
           Helped == {i \in 1..n : d \in S[i].collaborators /\ storyIsOverdue(S[i])}
           Work == {i \in 1..n : S[i].status # "done" /\ AssignedTo(S[i], d)}
           Due == {i \in Work : PastDue(S[i])}
           Tasks == {i \in 1..m : T[i].assignee = d /\ T[i].status # "done"}
           TasksOf(s) == {i \in Tasks : T[i].status = s}
           TasksDue == {i \in Tasks : PastDue(T[i])}
           Wait == {"backlog", "ready"}
           Busy == {"in_progress", "review", "blocked"}
           late == Cardinality(Late)
           lateTasks == LateTasks(T, d)
<1>4. lateTasks = Cardinality(TasksDue)
  <2>1. TasksDue = {i \in 1..m : T[i].assignee = d /\ T[i].status # "done" /\ PastDue(T[i])} OBVIOUS
  <2> QED BY <1>1, <2>1, Zenon DEF LateTasks
\* The own list, counted at once or group by group.
<1> DEFINE p == Cardinality(Held(Wait))
           b == Cardinality(Held(Busy))
           o == late + lateTasks
           f == Cardinality(Held({"done"}))
           own == meWork(d, S, T)
<1>5. own = [pending |-> p, in_progress |-> b, overdue |-> o, done |-> f]
  <2>1. /\ {i \in DOMAIN S : AssignedTo(S[i], d)} = Mine
        /\ {i \in Mine : S[i].status \in {"backlog", "ready"}} = Held(Wait)
        /\ {i \in Mine : S[i].status \in {"in_progress", "review", "blocked"}} = Held(Busy)
        /\ {i \in Mine : S[i].status # "done" /\ PastDue(S[i])} = Late
        /\ {i \in Mine : S[i].status = "done"} = Held({"done"})
    BY <1>1 DEF storyIsOverdue
  <2> HIDE DEF Mine, Held, Late, lateTasks
  <2> QED BY <2>1, Zenon DEF meWork, lateTasks
<1>6. meWorkSummary(d, S, T) = [pending |-> p, in_progress |-> b, overdue |-> o, done |-> f]
  <2>1. \A Q : Count(S, d, Q) = Cardinality(Held(Q)) BY <1>1, Zenon DEF Count
  <2>2. LateStories(S, d) = late BY <1>1, Zenon DEF LateStories
  <2> HIDE DEF Held, late, lateTasks
  <2> QED BY <2>1, <2>2, Zenon DEF meWorkSummary, lateTasks
<1> DEFINE r1 == Cardinality(Work)
           r2 == Cardinality(Led) + Cardinality(Helped)
           l0 == Cardinality({}) + Cardinality(TasksOf("pending")) + Cardinality(Held(Wait))
           l1 == Cardinality({}) + Cardinality(TasksOf("in_progress")) + Cardinality(Held(Busy))
           l2 == Cardinality({}) + Cardinality(TasksDue) + Cardinality(Due)
           l3 == Cardinality({}) + Cardinality(Tasks) + Cardinality(Work)
           load == developers(d, <<>>, T, S)
<1>7. roster(d, S) = [active_workload |-> r1, overdue_workload |-> r2] BY <1>1, Zenon DEF roster
<1>8. load = [pending |-> l0, in_progress |-> l1, overdue |-> l2, total_active |-> l3]
  <2> DEFINE K == <<>>
             Orphans == {i \in DOMAIN K : K[i].assignedTo = d /\ ~K[i].task /\ K[i].status \in {"open", "in_progress"}}
  <2>1. Orphans = {}
    <3>1. DOMAIN K = {} OBVIOUS
    <3> HIDE DEF K
    <3> QED BY <3>1
  <2>2. /\ {i \in Orphans : K[i].status = "open"} = {} /\ {i \in Orphans : K[i].status = "in_progress"} = {}
        /\ {i \in Orphans : PastDue(K[i])} = {}
    <3> HIDE DEF Orphans
    <3> QED BY <2>1
  <2>3. /\ {i \in DOMAIN T : T[i].assignee = d /\ T[i].status # "done"} = Tasks
        /\ {i \in DOMAIN S : S[i].status # "done" /\ AssignedTo(S[i], d)} = Work
    BY <1>1, Zenon
  <2>4. /\ {i \in Work : S[i].status \in {"backlog", "ready"}} = Held(Wait)
        /\ {i \in Work : S[i].status \notin {"backlog", "ready"}} = Held(Busy)
    BY <1>2 DEF UserStoryStatus
  <2> HIDE DEF Tasks, Work, Held, Orphans, K
  <2>5. developers(d, K, T, S) = [pending |-> l0, in_progress |-> l1, overdue |-> l2, total_active |-> l3]
    BY <2>1, <2>2, <2>3, <2>4, Zenon DEF developers, Orphans
  <2> QED BY <2>5, Zenon DEF K
\* The same units in parts.
<1>9. Cardinality({}) = 0 BY FS_EmptySet
<1>10. p \in Nat /\ b \in Nat /\ r1 = p + b
  <2>1. TwoParts(Work, Held(Wait), Held(Busy)) /\ Work \in SUBSET (1..n)
    BY <1>2 DEF UserStoryStatus, TwoParts
  <2> HIDE DEF Work, Held
  <2>2. IsFiniteSet(Work) BY <2>1, Rows
  <2> QED BY <2>1, <2>2, Parts
<1>11. late \in Nat /\ r2 = late
  <2>1. TwoParts(Late, Led, Helped) /\ Late \in SUBSET (1..n) BY <1>2 DEF AssignedTo, TwoParts
  <2> HIDE DEF Late, Led, Helped
  <2>2. IsFiniteSet(Late) BY <2>1, Rows
  <2>3. Cardinality(Late) \in Nat /\ Cardinality(Late) = Cardinality(Led) + Cardinality(Helped) BY <2>1, <2>2, Parts
  <2> QED BY <2>3
<1>12. Due = Late BY DEF storyIsOverdue
<1>13. /\ Cardinality(TasksOf("pending")) \in Nat /\ Cardinality(TasksOf("in_progress")) \in Nat
       /\ Cardinality(Tasks) = Cardinality(TasksOf("pending")) + Cardinality(TasksOf("in_progress"))
  <2>1. TwoParts(Tasks, TasksOf("pending"), TasksOf("in_progress")) /\ Tasks \in SUBSET (1..m) BY <1>3 DEF TwoParts
  <2> HIDE DEF Tasks, TasksOf
  <2>2. IsFiniteSet(Tasks) BY <2>1, Rows
  <2> QED BY <2>1, <2>2, Parts
<1>14. Cardinality(TasksDue) \in Nat
  <2>1. TasksDue \subseteq 1..m OBVIOUS
  <2> HIDE DEF TasksDue
  <2> QED BY <2>1, Counting
<1> DEFINE t1 == Cardinality(TasksOf("pending"))
           t2 == Cardinality(TasksOf("in_progress"))
           t == Cardinality(Tasks)
<1>15. l0 = t1 + p /\ l1 = t2 + b /\ l2 = lateTasks + late /\ l3 = t + r1
  <2>1. t \in Nat /\ t1 \in Nat /\ t2 \in Nat /\ lateTasks \in Nat /\ r1 \in Nat
    <3> HIDE DEF Tasks, TasksOf, TasksDue, Work
    <3> QED BY <1>4, <1>10, <1>13, <1>14
  <2>2. Cardinality(Due) = late BY <1>12, Zenon
  <2> HIDE DEF Tasks, TasksOf, TasksDue, Work, Held, Due, late, lateTasks
  <2> QED BY <1>4, <1>9, <1>10, <1>11, <2>1, <2>2
<1>16. t1 \in Nat /\ t2 \in Nat /\ t = t1 + t2 /\ lateTasks \in Nat
  <2> HIDE DEF Tasks, TasksOf, TasksDue, lateTasks
  <2> QED BY <1>4, <1>13, <1>14
<1> HIDE DEF t, t1, t2, l0, l1, l2, l3, r1, r2, p, b, f, late, lateTasks, own, load
<1>17. own.pending = p /\ own.in_progress = b /\ own.overdue = o BY <1>5
<1>18. load.pending = l0 /\ load.in_progress = l1 /\ load.overdue = l2 /\ load.total_active = l3 BY <1>8
<1>19. roster(d, S).active_workload = r1 /\ roster(d, S).overdue_workload = r2 BY <1>7
<1>20. own = meWorkSummary(d, S, T) BY <1>5, <1>6, Zenon
<1>21. /\ roster(d, S).active_workload = own.pending + own.in_progress
       /\ roster(d, S).overdue_workload = own.overdue - lateTasks
       /\ load.overdue = own.overdue
       /\ load.total_active = load.pending + load.in_progress
       /\ load.total_active = own.pending + own.in_progress + t
       /\ load.total_active \in Nat
  BY <1>10, <1>11, <1>15, <1>16, <1>17, <1>18, <1>19
<1> QED BY <1>20, <1>21, Zenon DEF own, load, t, lateTasks

\* What the workload page counts in all, whatever the sequences.
Orphans(K, d) == {i \in DOMAIN K : K[i].assignedTo = d /\ ~K[i].task /\ K[i].status \in {"open", "in_progress"}}
TasksHeld(T, d) == {i \in DOMAIN T : T[i].assignee = d /\ T[i].status # "done"}
StoriesHeld(S, d) == {i \in DOMAIN S : S[i].status # "done" /\ AssignedTo(S[i], d)}

\* The total of the workload page in its three parts.
LEMMA LoadInAll ==
  ASSUME NEW d, NEW K, NEW T, NEW S
  PROVE  developers(d, K, T, S).total_active
           = Cardinality(Orphans(K, d)) + Cardinality(TasksHeld(T, d)) + Cardinality(StoriesHeld(S, d))
<1> DEFINE orphans == {i \in DOMAIN K : K[i].assignedTo = d /\ ~K[i].task /\ K[i].status \in {"open", "in_progress"}}
           tasks == {i \in DOMAIN T : T[i].assignee = d /\ T[i].status # "done"}
           stories == {i \in DOMAIN S : S[i].status # "done" /\ AssignedTo(S[i], d)}
           l0 == Cardinality({i \in orphans : K[i].status = "open"})
                   + Cardinality({i \in tasks : T[i].status = "pending"})
                   + Cardinality({i \in stories : S[i].status \in {"backlog", "ready"}})
           l1 == Cardinality({i \in orphans : K[i].status = "in_progress"})
                   + Cardinality({i \in tasks : T[i].status = "in_progress"})
                   + Cardinality({i \in stories : S[i].status \notin {"backlog", "ready"}})
           l2 == Cardinality({i \in orphans : PastDue(K[i])}) + Cardinality({i \in tasks : PastDue(T[i])})
                   + Cardinality({i \in stories : PastDue(S[i])})
           l3 == Cardinality(orphans) + Cardinality(tasks) + Cardinality(stories)
<1>1. developers(d, K, T, S) = [pending |-> l0, in_progress |-> l1, overdue |-> l2, total_active |-> l3]
  BY Zenon DEF developers
<1> HIDE DEF l0, l1, l2, l3
<1>2. developers(d, K, T, S).total_active = l3 BY <1>1
<1> QED BY <1>2, Zenon DEF l3, Orphans, TasksHeld, StoriesHeld

\* The sequences of the property are short ones.
LEMMA ShortRows ==
  ASSUME NEW X, NEW s \in UpTo1(X) \cup {<<a, a>> : a \in X}
  PROVE  \E n \in Nat : s \in [1..n -> X]
<1>1. CASE s = <<>>
  <2>1. s \in [1..0 -> X] BY <1>1
  <2> QED BY <2>1
<1>2. ASSUME NEW x \in X, s = <<x>> PROVE s \in [1..1 -> X] BY <1>2
<1>3. ASSUME NEW x \in X, s = <<x, x>> PROVE s \in [1..2 -> X] BY <1>3
<1> QED BY <1>1, <1>2, <1>3 DEF UpTo1

\* The counts of the property are those of two sequences, and one more ticket adds itself.
LEMMA WorkAgrees == WorkCountsAgree
<1> SUFFICES ASSUME NEW d \in UserId, NEW S \in UpTo1(WorkStory) \cup {<<a, a>> : a \in WorkStory},
                    NEW T \in UpTo1(WorkTask)
             PROVE  LET own == meWork(d, S, T)
                        load == developers(d, <<>>, T, S) IN
                    /\ own = meWorkSummary(d, S, T)
                    /\ roster(d, S).active_workload = own.pending + own.in_progress
                    /\ roster(d, S).overdue_workload = own.overdue - LateTasks(T, d)
                    /\ load.overdue = own.overdue
                    /\ load.total_active = load.pending + load.in_progress
                    /\ load.total_active = own.pending + own.in_progress + developers(d, <<>>, T, <<>>).total_active
                    /\ \A k \in WorkTicket :
                         developers(d, <<k>>, T, S).total_active
                           = load.total_active
                             + (IF k.assignedTo = d /\ ~k.task /\ k.status \notin {"resolved", "closed"} THEN 1 ELSE 0)
  BY Zenon DEF WorkCountsAgree
<1>1. PICK n \in Nat : S \in [1..n -> WorkStory] BY ShortRows
<1>2. PICK m \in Nat : T \in [1..m -> WorkTask] BY ShortRows
<1> DEFINE own == meWork(d, S, T)
           load == developers(d, <<>>, T, S)
           t == Cardinality(TasksHeld(T, d))
           w == Cardinality(StoriesHeld(S, d))
<1>3. TasksHeld(T, d) = {i \in 1..m : T[i].assignee = d /\ T[i].status # "done"} BY <1>2 DEF TasksHeld
<1>4. /\ own = meWorkSummary(d, S, T)
      /\ roster(d, S).active_workload = own.pending + own.in_progress
      /\ roster(d, S).overdue_workload = own.overdue - LateTasks(T, d)
      /\ load.overdue = own.overdue
      /\ load.total_active = load.pending + load.in_progress
      /\ load.total_active = own.pending + own.in_progress + t
      /\ load.total_active \in Nat
  <2>1. LET tasks == {i \in 1..m : T[i].assignee = d /\ T[i].status # "done"} IN
        /\ own = meWorkSummary(d, S, T)
        /\ roster(d, S).active_workload = own.pending + own.in_progress
        /\ roster(d, S).overdue_workload = own.overdue - LateTasks(T, d)
        /\ load.overdue = own.overdue
        /\ load.total_active = load.pending + load.in_progress
        /\ load.total_active = own.pending + own.in_progress + Cardinality(tasks)
        /\ load.total_active \in Nat
    BY <1>1, <1>2, WorkCounted, Zenon
  <2> HIDE DEF own, load
  <2> QED BY <1>3, <2>1, Zenon
<1>5. Cardinality({}) = 0 /\ Cardinality({1}) = 1 BY FS_EmptySet, FS_Singleton
<1>6. Orphans(<<>>, d) = {} /\ StoriesHeld(<<>>, d) = {} BY DEF Orphans, StoriesHeld
<1>7. t \in Nat /\ w \in Nat
  <2>1. TasksHeld(T, d) \in SUBSET (1..m) /\ StoriesHeld(S, d) \in SUBSET (1..n) BY <1>1, <1>2 DEF TasksHeld, StoriesHeld
  <2>2. t \in Nat BY <2>1, Rows
  <2>3. w \in Nat BY <2>1, Rows
  <2> QED BY <2>2, <2>3
<1>8. developers(d, <<>>, T, <<>>).total_active = t
  <2>1. developers(d, <<>>, T, <<>>).total_active = Cardinality({}) + t + Cardinality({}) BY <1>6, LoadInAll
  <2> QED BY <1>5, <1>7, <2>1
<1>9. load.total_active = t + w
  <2>1. load.total_active = Cardinality({}) + t + w BY <1>6, LoadInAll
  <2> QED BY <1>5, <1>7, <2>1
<1>10. ASSUME NEW k \in WorkTicket
       PROVE  developers(d, <<k>>, T, S).total_active
                = load.total_active
                    + (IF k.assignedTo = d /\ ~k.task /\ k.status \notin {"resolved", "closed"} THEN 1 ELSE 0)
  <2> DEFINE mine == k.assignedTo = d /\ ~k.task /\ k.status \notin {"resolved", "closed"}
             c == Cardinality(Orphans(<<k>>, d))
  <2>1. developers(d, <<k>>, T, S).total_active = c + t + w BY LoadInAll
  <2>2. k.status \in {"open", "in_progress"} <=> k.status \notin {"resolved", "closed"}
    <3>1. k.status \in TicketStatus BY DEF WorkTicket
    <3> QED BY <3>1 DEF TicketStatus
  <2>3. \A i : i \in Orphans(<<k>>, d) <=> i = 1 /\ mine
    <3>1. DOMAIN <<k>> = {1} /\ <<k>>[1] = k OBVIOUS
    <3>2. \A i \in DOMAIN <<k>> : <<k>>[i] = k BY <3>1
    <3> QED BY <2>2, <3>1, <3>2 DEF Orphans
  <2>4. CASE mine
    <3>1. Orphans(<<k>>, d) = {1} BY <2>3, <2>4
    <3>2. c = 1 BY <1>5, <3>1, Zenon
    <3> HIDE DEF c, t, w, load, mine
    <3>3. developers(d, <<k>>, T, S).total_active = load.total_active + 1 BY <1>7, <1>9, <2>1, <3>2
    <3> QED BY <2>4, <3>3, Zenon DEF mine
  <2>5. CASE ~mine
    <3>1. Orphans(<<k>>, d) = {} BY <2>3, <2>5
    <3>2. c = 0 BY <1>5, <3>1, Zenon
    <3> HIDE DEF c, t, w, load, mine
    <3>3. developers(d, <<k>>, T, S).total_active = load.total_active + 0 BY <1>7, <1>9, <2>1, <3>2
    <3> QED BY <2>5, <3>3, Zenon DEF mine
  <2> QED BY <2>4, <2>5
<1> HIDE DEF own, load, t, w
<1>11. load.total_active = own.pending + own.in_progress + developers(d, <<>>, T, <<>>).total_active
  BY <1>4, <1>8
<1> QED BY <1>4, <1>10, <1>11 DEF own, load
-----------------------------------------------------------------------------
\* A story is in the group that shows it.
LEMMA StoryGroup1 ==
  ASSUME NEW status \in UserStoryStatus, NEW g \in StoryGroup
  PROVE  /\ g \in {"not_started", "active", "done", "blocked"}
         /\ status \in USER_STORY_STATUS_GROUP_STATUSES[g] <=> getUserStoryStatusGroup(status) = g
         /\ g = "not_started" <=> USER_STORY_STATUS_GROUP_STATUSES[g] = {"backlog", "ready"}
         /\ status \in {"backlog", "ready"} <=> getUserStoryStatusGroup(status) = "not_started"
         /\ status = "done" <=> getUserStoryStatusGroup(status) = "done"
<1>1. StoryGroup = {"not_started", "active", "done", "blocked"} BY DEF StoryGroup, USER_STORY_STATUS_GROUP_STATUSES
<1>2. /\ pageGroups["not_started"] = {"backlog", "ready"} /\ pageGroups["active"] = {"in_progress", "review"}
      /\ pageGroups["done"] = {"done"} /\ pageGroups["blocked"] = {"blocked"}
  BY DEF pageGroups
<1>3. \A h \in StoryGroup : USER_STORY_STATUS_GROUP_STATUSES[h] = pageGroups[h]
  BY <1>1 DEF USER_STORY_STATUS_GROUP_STATUSES, pageGroups
<1>4. \E h \in StoryGroup : status \in pageGroups[h] BY <1>1, <1>2 DEF UserStoryStatus
<1>5. \A h, k \in StoryGroup : status \in pageGroups[h] /\ status \in pageGroups[k] => h = k BY <1>1, <1>2
<1> DEFINE group == getUserStoryStatusGroup(status)
<1>6. group \in StoryGroup /\ status \in pageGroups[group]
  <2>1. group = CHOOSE h \in StoryGroup : status \in pageGroups[h] BY <1>4, Zenon DEF getUserStoryStatusGroup
  <2> HIDE DEF group
  <2> QED BY <1>4, <2>1
<1> HIDE DEF group
<1>7. \A h \in StoryGroup : status \in pageGroups[h] <=> group = h BY <1>5, <1>6
<1>8. "not_started" \in StoryGroup /\ "done" \in StoryGroup BY <1>1
<1> QED BY <1>1, <1>2, <1>3, <1>7, <1>8 DEF group

\* The filter by group, the group that is shown and the summary, story by story.
LEMMA GroupsAgree == StoryGroupsAgree
<1> SUFFICES ASSUME NEW s \in WorkStory, NEW g \in StoryGroup
             PROVE  LET ask == [status |-> Unset, status_group |-> g, developer |-> Unset, overdue |-> FALSE] IN
                    /\ buildFilters(s, ask) <=> getUserStoryStatusGroup(s.status) = g
                    /\ buildFilters(s, [ask EXCEPT !.status_group = Unset, !.overdue = TRUE]) <=> storyIsOverdue(s)
                    /\ \A d \in UserId :
                         buildFilters(s, [ask EXCEPT !.developer = d]) =>
                           /\ meWork(d, <<s>>, <<>>).pending = 1 <=> g = "not_started"
                           /\ meWork(d, <<s>>, <<>>).done = 1 <=> g = "done"
  BY Zenon DEF StoryGroupsAgree
<1> DEFINE ask == [status |-> Unset, status_group |-> g, developer |-> Unset, overdue |-> FALSE]
<1>1. s.status \in UserStoryStatus BY DEF WorkStory
<1>2. g # Unset /\ \A d \in UserId : d # Unset
  <2>1. g \in {"not_started", "active", "done", "blocked"} BY <1>1, StoryGroup1
  <2> QED BY <2>1, ReadersAssumption
<1>3. buildFilters(s, ask) <=> s.status \in USER_STORY_STATUS_GROUP_STATUSES[g]
  BY <1>2 DEF buildFilters
<1>4. buildFilters(s, [ask EXCEPT !.status_group = Unset, !.overdue = TRUE]) <=> storyIsOverdue(s)
  BY DEF buildFilters, storyIsOverdue
<1>5. ASSUME NEW d \in UserId, buildFilters(s, [ask EXCEPT !.developer = d])
      PROVE  /\ meWork(d, <<s>>, <<>>).pending = 1 <=> g = "not_started"
             /\ meWork(d, <<s>>, <<>>).done = 1 <=> g = "done"
  <2>1. AssignedTo(s, d) /\ s.status \in USER_STORY_STATUS_GROUP_STATUSES[g]
    BY <1>2, <1>5 DEF buildFilters
  <2> DEFINE own == meWork(d, <<s>>, <<>>)
             S == <<s>>
             mine == {i \in DOMAIN S : AssignedTo(S[i], d)}
             Wait == {i \in mine : S[i].status \in {"backlog", "ready"}}
             Done == {i \in mine : S[i].status = "done"}
             p == Cardinality(Wait)
             b == Cardinality({i \in mine : S[i].status \in {"in_progress", "review", "blocked"}})
             o == Cardinality({i \in mine : S[i].status # "done" /\ PastDue(S[i])}) + LateTasks(<<>>, d)
             f == Cardinality(Done)
  <2>2. own = [pending |-> p, in_progress |-> b, overdue |-> o, done |-> f] BY Zenon DEF meWork
  <2>3. own.pending = p /\ own.done = f
    <3> HIDE DEF own, p, b, o, f
    <3> QED BY <2>2
  <2>4. DOMAIN S = {1} /\ \A i \in {1} : S[i] = s OBVIOUS
  <2>5. Wait = (IF s.status \in {"backlog", "ready"} THEN {1} ELSE {}) /\ Done = (IF s.status = "done" THEN {1} ELSE {})
    <3> HIDE DEF S
    <3> QED BY <2>1, <2>4
  <2>6. Cardinality({}) = 0 /\ Cardinality({1}) = 1 BY FS_EmptySet, FS_Singleton
  <2>7. (p = 1 <=> s.status \in {"backlog", "ready"}) /\ (f = 1 <=> s.status = "done")
    <3> HIDE DEF Wait, Done
    <3>1. p = 1 <=> s.status \in {"backlog", "ready"} BY <2>5, <2>6
    <3>2. f = 1 <=> s.status = "done" BY <2>5, <2>6
    <3> QED BY <3>1, <3>2
  <2>8. (s.status \in {"backlog", "ready"} <=> g = "not_started") /\ (s.status = "done" <=> g = "done")
    BY <1>1, <2>1, StoryGroup1
  <2> HIDE DEF own, p, f
  <2>9. (own.pending = 1 <=> g = "not_started") /\ (own.done = 1 <=> g = "done") BY <2>3, <2>7, <2>8
  <2> QED BY <2>9 DEF own
<1>6. buildFilters(s, ask) <=> getUserStoryStatusGroup(s.status) = g BY <1>1, <1>3, StoryGroup1
<1> HIDE DEF ask
<1> QED BY <1>4, <1>5, <1>6 DEF ask

\* Filters that ask for some row, cards that count them.
LEMMA FiltersMatch == ProjectFiltersMatchCards
<1> SUFFICES ASSUME NEW row \in Project, NEW n \in 0..1, NEW taskLate \in BOOLEAN, NEW S \in UpTo1(WorkStory),
                    NEW K \in UpTo1(TicketStatus)
             PROVE  LET p == [row |-> row, sites |-> n, taskLate |-> taskLate, stories |-> S, tickets |-> K]
                        shown == toListDto(p) IN
                    /\ buildWhere(p, "missing_pic_web") <=> shown.pic_web = {}
                    /\ buildWhere(p, "missing_pic_developer") <=> shown.pic_developer = NoUser
                    /\ buildWhere(p, "missing_developer_team") <=> shown.developers = {}
                    /\ buildWhere(p, "has_active_tickets") <=> shown.active_tickets_count > 0
                    /\ shown.overdue_count > 0 => buildWhere(p, "has_overdue_work")
                    /\ buildWhere(p, "has_overdue_work") /\ ~taskLate => shown.overdue_count > 0
                    /\ shown.configuration_status = "ready" =>
                         ~(\A f \in {"missing_pic_web", "missing_pic_developer", "missing_developer_team"} :
                             buildWhere(p, f))
  BY Zenon DEF ProjectFiltersMatchCards
<1>1. PICK ns \in Nat : S \in [1..ns -> WorkStory] BY ShortRows
<1>2. PICK nk \in Nat : K \in [1..nk -> TicketStatus] BY ShortRows
<1> DEFINE p == [row |-> row, sites |-> n, taskLate |-> taskLate, stories |-> S, tickets |-> K]
           shown == toListDto(p)
           Open == {i \in 1..nk : K[i] \in {"open", "in_progress"}}
           Late == {i \in 1..ns : storyIsOverdue(S[i])}
           open == Cardinality(Open)
           late == Cardinality(Late)
           status == configurationStatus(p)
<1>3. /\ p.row = row /\ p.sites = n /\ (p.taskLate <=> taskLate) /\ p.stories = S /\ p.tickets = K OBVIOUS
<1>4. DOMAIN S = 1..ns /\ DOMAIN K = 1..nk BY <1>1, <1>2
<1> HIDE DEF p
<1>5. shown = [pic_web |-> row.picWeb, pic_developer |-> row.picDeveloperId, developers |-> row.developers,
               active_tickets_count |-> open, overdue_count |-> late, configuration_status |-> status]
  BY <1>3, <1>4, Zenon DEF toListDto
<1>6. /\ shown.pic_web = row.picWeb /\ shown.pic_developer = row.picDeveloperId /\ shown.developers = row.developers
      /\ shown.active_tickets_count = open /\ shown.overdue_count = late /\ shown.configuration_status = status
  <2> HIDE DEF shown, open, late, status
  <2> QED BY <1>5
<1>7. (open > 0 <=> Open # {}) /\ (late > 0 <=> Late # {})
  <2>1. Open \subseteq 1..nk /\ Late \subseteq 1..ns OBVIOUS
  <2> HIDE DEF Open, Late
  <2>2. open > 0 <=> Open # {} BY <2>1, Counting
  <2>3. late > 0 <=> Late # {} BY <2>1, Counting
  <2> QED BY <2>2, <2>3
<1>8. /\ buildWhere(p, "missing_pic_web") <=> row.picWeb = {}
      /\ buildWhere(p, "missing_pic_developer") <=> row.picDeveloperId = NoUser
      /\ buildWhere(p, "missing_developer_team") <=> row.developers = {}
      /\ buildWhere(p, "has_active_tickets") <=> Open # {}
      /\ buildWhere(p, "has_overdue_work") <=> Late # {} \/ taskLate
  <2>1. buildWhere(p, "missing_pic_web") <=> row.picWeb = {} BY <1>3 DEF buildWhere
  <2>2. buildWhere(p, "missing_pic_developer") <=> row.picDeveloperId = NoUser BY <1>3 DEF buildWhere
  <2>3. buildWhere(p, "missing_developer_team") <=> row.developers = {} BY <1>3 DEF buildWhere
  <2>4. buildWhere(p, "has_active_tickets") <=> Open # {} BY <1>3, <1>4 DEF buildWhere
  <2>5. buildWhere(p, "has_overdue_work") <=> Late # {} \/ taskLate BY <1>3, <1>4 DEF buildWhere, storyIsOverdue
  <2> QED BY <2>1, <2>2, <2>3, <2>4, <2>5
<1>9. status = "ready" => ~(row.picWeb = {} /\ row.picDeveloperId = NoUser /\ row.developers = {})
  BY <1>3 DEF configurationStatus
<1> HIDE DEF shown, Open, Late, open, late, status
<1>10. shown.configuration_status = "ready" =>
         ~(\A f \in {"missing_pic_web", "missing_pic_developer", "missing_developer_team"} : buildWhere(p, f))
  BY <1>6, <1>8, <1>9
<1>11. /\ buildWhere(p, "missing_pic_web") <=> shown.pic_web = {}
       /\ buildWhere(p, "missing_pic_developer") <=> shown.pic_developer = NoUser
       /\ buildWhere(p, "missing_developer_team") <=> shown.developers = {}
       /\ buildWhere(p, "has_active_tickets") <=> shown.active_tickets_count > 0
       /\ shown.overdue_count > 0 => buildWhere(p, "has_overdue_work")
       /\ buildWhere(p, "has_overdue_work") /\ ~taskLate => shown.overdue_count > 0
  BY <1>6, <1>7, <1>8
<1> QED BY <1>10, <1>11, Zenon DEF shown, p

\* Whatever a list shows is in the scope of what is opened, role by role.
LEMMA ListsAgree == ListsAndBadgesAgree
<1> SUFFICES ASSUME NEW u \in AuthUser
             PROVE  /\ \A i \in [site : Website, status : IncidentStatus], s \in {Unset, "closed"} :
                         /\ incidentCounted(u, i) <=> incidentListed(u, i, [status |-> s, active_only |-> TRUE])
                         /\ incidentListed(u, i, [status |-> s, active_only |-> FALSE]) => incidentGet(u, i.site)
                    /\ \A w \in Website : websiteListed(u, w) => websiteGet(u, w)
                    /\ \A w \in Website : dashboardDetail(u, w) => websiteListed(u, w) /\ resultList(u, w)
                    /\ \A r \in [submittedBy : UserId \cup {NoUser}] : requestListed(u, r) <=> requestGet(u, r)
  BY DEF ListsAndBadgesAgree
<1>1. u.role \in Role BY DEF AuthUser
<1>2. canOperateScopedResources(u) => u.role # "end_user"
  BY DEF canOperateScopedResources, canAccessAllMonitoredResources, roleCanAccessAllMonitoredResources,
         ALL_RESOURCE_ACCESS_ROLES
<1>3. \A w : u.role \in {"superadmin", "bos_it"} => websiteVisibilityScope(u, w) BY DEF websiteVisibilityScope
<1>4. ASSUME NEW i, NEW s
      PROVE  /\ incidentCounted(u, i) <=> incidentListed(u, i, [status |-> s, active_only |-> TRUE])
             /\ incidentListed(u, i, [status |-> s, active_only |-> FALSE]) => incidentGet(u, i.site)
  BY DEF incidentCounted, incidentListed, incidentGet
<1>5. ASSUME NEW w PROVE websiteListed(u, w) => websiteGet(u, w)
  <2>1. CASE u.role \in {"pic_web", "developer"} BY <2>1 DEF websiteListed, websiteGet
  <2>2. CASE u.role \in {"superadmin", "bos_it"} BY <1>3, <2>2 DEF websiteGet
  <2>3. CASE u.role = "end_user" BY <2>3 DEF websiteListed, websiteGet
  <2> QED BY <1>1, <2>1, <2>2, <2>3 DEF Role
<1>6. ASSUME NEW w, dashboardDetail(u, w) PROVE websiteListed(u, w) /\ resultList(u, w)
  <2>1. canOperateScopedResources(u) /\ websiteVisibilityScope(u, w) BY <1>6 DEF dashboardDetail, dashboardCard
  <2>2. websiteListed(u, w)
    <3>1. CASE u.role \in {"pic_web", "developer"} BY <2>1, <3>1 DEF websiteListed
    <3>2. CASE u.role \in {"superadmin", "bos_it"} BY <3>2 DEF websiteListed
    <3> QED BY <1>1, <1>2, <2>1, <3>1, <3>2 DEF Role
  <2> QED BY <2>1, <2>2 DEF resultList
<1>7. ASSUME NEW r PROVE requestListed(u, r) <=> requestGet(u, r) BY DEF requestListed, requestGet
<1> QED BY <1>4, <1>5, <1>6, <1>7

\* The bell, over any number of notifications.
BellNote == [userId : Person, channel : {"dashboard", "email"}, read : BOOLEAN]
Unread(N, u) == {i \in DOMAIN N : N[i].userId = u /\ N[i].channel = "dashboard" /\ ~N[i].read}

\* The unread rows of somebody after one, or all, of them are read.
LEMMA BellRows ==
  ASSUME NEW n \in Nat, NEW N \in [1..n -> BellNote],
         NEW u, NEW v
  PROVE  /\ unread_count(N, u) = Cardinality(Unread(N, u))
         /\ \A M : notificationsListed(M, u, [channel |-> Unset, unread_only |-> TRUE]) = Unread(M, u)
         /\ \A i \in 1..n : Unread(markRead(N, v, i), u) = IF u = v THEN Unread(N, u) \ {i} ELSE Unread(N, u)
         /\ Unread(readAll(N, v), u) = IF u = v THEN {} ELSE Unread(N, u)
<1>1. DOMAIN N = 1..n /\ \A j \in 1..n : N[j] \in BellNote OBVIOUS
<1>2. \A x \in BellNote : LET y == [x EXCEPT !.read = TRUE] IN y.userId = x.userId /\ y.channel = x.channel /\ y.read
  BY DEF BellNote
<1>3. unread_count(N, u) = Cardinality(Unread(N, u)) BY Zenon DEF unread_count, Unread
<1>4. \A M : notificationsListed(M, u, [channel |-> Unset, unread_only |-> TRUE]) = Unread(M, u)
  <2> DEFINE f == [channel |-> Unset, unread_only |-> TRUE]
  <2>1. f.channel = Unset /\ f.unread_only OBVIOUS
  <2> HIDE DEF f
  <2>2. \A M : notificationsListed(M, u, f) = Unread(M, u) BY <2>1 DEF notificationsListed, Unread
  <2> QED BY <2>2 DEF f
<1>5. ASSUME NEW i \in 1..n
      PROVE  Unread(markRead(N, v, i), u) = IF u = v THEN Unread(N, u) \ {i} ELSE Unread(N, u)
  <2>1. CASE N[i].userId = v
    <3> DEFINE M == [N EXCEPT ![i].read = TRUE]
    <3>1. markRead(N, v, i) = M BY <2>1 DEF markRead
    <3>2. DOMAIN M = 1..n BY <1>1
    <3>3. \A j \in 1..n : j # i => M[j] = N[j] BY <1>1
    <3>4. M[i].userId = N[i].userId /\ M[i].read BY <1>1, <1>2
    <3> HIDE DEF M
    <3>5. \A j : j \in Unread(M, u) <=> j \in Unread(N, u) /\ j # i BY <1>1, <3>2, <3>3, <3>4 DEF Unread
    <3>6. u # v => i \notin Unread(N, u) BY <2>1 DEF Unread
    <3>7. CASE u = v
      <4>1. Unread(M, u) = Unread(N, u) \ {i} BY <3>5
      <4> QED BY <3>1, <3>7, <4>1
    <3>8. CASE u # v
      <4>1. Unread(M, u) = Unread(N, u) BY <3>5, <3>6, <3>8
      <4> QED BY <3>1, <3>8, <4>1
    <3> QED BY <3>7, <3>8
  <2>2. CASE N[i].userId # v
    <3>1. markRead(N, v, i) = N BY <2>2 DEF markRead
    <3>2. u = v => i \notin Unread(N, u) BY <2>2 DEF Unread
    <3>3. u = v => Unread(N, u) \ {i} = Unread(N, u) BY <3>2
    <3> QED BY <3>1, <3>3
  <2> QED BY <2>1, <2>2
<1>6. Unread(readAll(N, v), u) = IF u = v THEN {} ELSE Unread(N, u)
  <2> DEFINE M == readAll(N, v)
  <2>1. /\ DOMAIN M = 1..n
        /\ \A j \in 1..n : M[j] = IF N[j].userId = v /\ N[j].channel = "dashboard" THEN [N[j] EXCEPT !.read = TRUE] ELSE N[j]
    BY <1>1 DEF readAll
  <2> HIDE DEF M
  <2>2. \A j \in 1..n : /\ M[j].userId = N[j].userId /\ M[j].channel = N[j].channel
                        /\ N[j].userId = v /\ N[j].channel = "dashboard" => M[j].read
                        /\ N[j].userId # v => (M[j].read <=> N[j].read)
    BY <1>1, <1>2, <2>1
  <2>3. CASE u = v
    <3>1. Unread(M, u) = {} BY <2>1, <2>2, <2>3 DEF Unread
    <3> QED BY <2>3, <3>1 DEF M
  <2>4. CASE u # v
    <3>1. Unread(M, u) = Unread(N, u) BY <1>1, <2>1, <2>2, <2>4 DEF Unread
    <3> QED BY <2>4, <3>1 DEF M
  <2> QED BY <2>3, <2>4
<1> QED BY <1>3, <1>4, <1>5, <1>6

BellAt(N, u, v) ==
  LET Shown(M, x) == notificationsListed(M, x, [channel |-> Unset, unread_only |-> TRUE]) IN
  /\ unread_count(N, u) = Cardinality(Shown(N, u))
  /\ \A i \in DOMAIN N : Shown(markRead(N, v, i), u) = IF u = v THEN Shown(N, u) \ {i} ELSE Shown(N, u)
  /\ Shown(readAll(N, v), u) = IF u = v THEN {} ELSE Shown(N, u)
  /\ unread_count(N, v) = Cardinality(Shown(N, v) \ Shown(readAll(N, v), v))

\* The bell over any number of notifications, and so over two.
LEMMA BellAgrees == BellAgreesWithList
<1> DEFINE Ask == [channel |-> Unset, unread_only |-> TRUE]
<1>1. ASSUME NEW n \in Nat, NEW N \in [1..n -> BellNote], NEW u, NEW v
      PROVE  BellAt(N, u, v)
  <2>1. DOMAIN N = 1..n OBVIOUS
  <2>2. \A M, x : notificationsListed(M, x, Ask) = Unread(M, x) BY <1>1, BellRows, Zenon
  <2>3. \A x : unread_count(N, x) = Cardinality(Unread(N, x)) BY <1>1, BellRows, Zenon
  <2>4. \A i \in 1..n : Unread(markRead(N, v, i), u) = IF u = v THEN Unread(N, u) \ {i} ELSE Unread(N, u)
    BY BellRows
  <2>5. Unread(readAll(N, v), u) = IF u = v THEN {} ELSE Unread(N, u) BY BellRows
  <2>6. Unread(readAll(N, v), v) = {}
    <3>1. Unread(readAll(N, v), v) = IF v = v THEN {} ELSE Unread(N, v) BY BellRows
    <3> QED BY <3>1
  <2>7. Unread(N, v) \ Unread(readAll(N, v), v) = Unread(N, v) BY <2>6
  <2> HIDE DEF Ask
  <2>8. /\ unread_count(N, u) = Cardinality(notificationsListed(N, u, Ask))
        /\ unread_count(N, v) = Cardinality(notificationsListed(N, v, Ask) \ notificationsListed(readAll(N, v), v, Ask))
    BY <2>2, <2>3, <2>7, Zenon
  <2>9. \A i \in DOMAIN N : notificationsListed(markRead(N, v, i), u, Ask)
              = IF u = v THEN notificationsListed(N, u, Ask) \ {i} ELSE notificationsListed(N, u, Ask)
    BY <2>1, <2>2, <2>4
  <2>10. notificationsListed(readAll(N, v), u, Ask) = IF u = v THEN {} ELSE notificationsListed(N, u, Ask)
    BY <2>1, <2>2, <2>5
  <2> QED BY <2>8, <2>9, <2>10, Zenon DEF BellAt, Ask
<1>2. \A N \in [1..2 -> BellNote], u, v \in Person : BellAt(N, u, v)
  <2>1. 2 \in Nat OBVIOUS
  <2> QED BY <1>1, <2>1, Zenon
<1> QED BY <1>2, Zenon DEF BellAgreesWithList, BellNote, BellAt

\* Whatever is counted, filtered or shown in two places is the same in both.
THEOREM ReadersMeet == Spec => []ReadersAgree
<1>1. ReadersAgree
  BY LatestIsOne, HealthShown, WorkAgrees, GroupsAgree, FiltersMatch, ListsAgree, BellAgrees DEF ReadersAgree
<1> QED BY <1>1, PTL
-----------------------------------------------------------------------------
(* Teams *)

\* A project that exists is not the missing one.
LEMMA JoinedExists ==
  ASSUME NEW p, p.picDeveloperId \in Person, p.picWeb \in SUBSET UserId, p.developers \in SUBSET UserId
  PROVE  JoinedProject(p) # NoProject
<1>1. JoinedProject(p) \in ProjectRow BY DEF JoinedProject, ProjectRow
<1> QED BY <1>1, RowsAssumption

\* The editor makes the team exactly those who are named and allowed.
LEMMA TeamReaches == TeamIsWhoReaches
<1> SUFFICES ASSUME NEW users \in UserTable, NEW p \in OldProject, NEW d \in Assignments, acceptAssignments(users, d),
                    NEW id \in UserId, users[id].role \in {"pic_web", "developer"}
             PROVE  projectVisibilityWhere(UserOf(users, id), JoinedProject(updateAssignments(p, d)))
                      <=> id \in d.picWeb \cup d.developers \cup {d.picDeveloperId}
  BY DEF TeamIsWhoReaches
<1> DEFINE u == UserOf(users, id)
           q == updateAssignments(p, d)
           j == JoinedProject(q)
<1>1. /\ q.picDeveloperId = d.picDeveloperId /\ q.picWeb = d.picWeb /\ q.developers = d.developers
      /\ d.picDeveloperId \in Person /\ d.picWeb \in SUBSET UserId /\ d.developers \in SUBSET UserId
  BY TeamsAssumption DEF updateAssignments, Assignments
<1>2. j # NoProject
  <2> HIDE DEF q
  <2> QED BY <1>1, JoinedExists
<1>3. j.picDeveloperId = d.picDeveloperId /\ j.picWeb = d.picWeb /\ j.developers = d.developers
  BY <1>1 DEF JoinedProject
<1>4. u.id = id /\ u.role = users[id].role BY DEF UserOf
<1> HIDE DEF u, q, j
<1>5. id # NoUser BY RowsAssumption
<1>6. ASSUME u.role = "pic_web" PROVE projectVisibilityWhere(u, j) <=> id \in d.picWeb \cup d.developers \cup {d.picDeveloperId}
  <2>1. id \notin d.developers /\ id # d.picDeveloperId BY <1>4, <1>5, <1>6 DEF acceptAssignments, Holds
  <2> QED BY <1>2, <1>3, <1>4, <1>6, <2>1 DEF projectVisibilityWhere, IsPicWebMember
<1>7. ASSUME u.role = "developer" PROVE projectVisibilityWhere(u, j) <=> id \in d.picWeb \cup d.developers \cup {d.picDeveloperId}
  <2>1. id \notin d.picWeb BY <1>4, <1>7 DEF acceptAssignments, Holds
  <2> QED BY <1>2, <1>3, <1>4, <1>7, <2>1 DEF projectVisibilityWhere, IsPicDeveloper, IsDeveloperMember
<1>8. projectVisibilityWhere(u, j) <=> id \in d.picWeb \cup d.developers \cup {d.picDeveloperId}
  BY <1>4, <1>6, <1>7
<1> QED BY <1>8 DEF u, q, j
-----------------------------------------------------------------------------
(* The backfill *)

\* The keys: a website's own one is that of no other website and of no old project.
LEMMA KeysApart ==
  /\ OldKey \notin Site /\ NoKey \notin Site /\ NoKey # OldKey
BY TeamsAssumption DEF Site, OldKey

\* What the tables of the backfill hold.
LEMMA DatabaseTypes ==
  ASSUME NEW db \in Database
  PROVE  /\ db.users \in UserTable /\ db.ticketSite \in Site /\ db.ticketProject \in {NoKey, OldKey}
         /\ DOMAIN db.projects = {OldKey} /\ db.projects[OldKey] \in OldProject
         /\ \A i \in Site :
              /\ db.link[i] \in {NoKey, OldKey}
              /\ db.row[i].ownerId \in Person /\ db.row[i].itPicId \in Person /\ db.row[i].backupItPicId \in Person
              /\ db.row[i].isActive \in BOOLEAN
<1>1. \A i \in Site : db.row[i] \in SiteColumns /\ db.link[i] \in {NoKey, OldKey} BY DEF Database
<1>2. \A c \in SiteColumns : c.ownerId \in Person /\ c.itPicId \in Person /\ c.backupItPicId \in Person
                                /\ c.isActive \in BOOLEAN
  BY TeamsAssumption
<1>3. /\ db.users \in UserTable /\ db.ticketSite \in Site /\ db.ticketProject \in {NoKey, OldKey}
      /\ DOMAIN db.projects = {OldKey} /\ db.projects[OldKey] \in OldProject
  BY DEF Database
<1> QED BY <1>1, <1>2, <1>3

\* What the backfill writes.
LEMMA Backfilled ==
  ASSUME NEW db \in Database
  PROVE  /\ backfill(db) = [users |-> db.users, row |-> db.row, link |-> [i \in Site |-> KeyOf(db, i)],
                            projects |-> [key \in {OldKey} \cup {KeyOf(db, i) : i \in Site} |-> WriteProjectOf(db, key)],
                            ticketSite |-> db.ticketSite, ticketProject |-> LinkTickets(db)]
         /\ \A i \in Site : KeyOf(db, i) = (IF db.link[i] = NoKey THEN i ELSE OldKey)
<1>1. \A i \in Site : KeyOf(db, i) = (IF db.link[i] = NoKey THEN i ELSE OldKey) BY DatabaseTypes DEF KeyOf
<1>2. DOMAIN db.projects = {OldKey} BY DatabaseTypes
<1> DEFINE L == [i \in Site |-> KeyOf(db, i)]
           P == [key \in DOMAIN db.projects \cup {KeyOf(db, i) : i \in Site} |-> WriteProjectOf(db, key)]
           T == LinkTickets(db)
<1>3. backfill(db) = [db EXCEPT !.link = L, !.projects = P, !.ticketProject = T] BY DEF backfill
<1>4. P = [key \in {OldKey} \cup {KeyOf(db, i) : i \in Site} |-> WriteProjectOf(db, key)] BY <1>2
<1> HIDE DEF L, P, T
<1>5. [db EXCEPT !.link = L, !.projects = P, !.ticketProject = T]
        = [users |-> db.users, row |-> db.row, link |-> L, projects |-> P, ticketSite |-> db.ticketSite,
           ticketProject |-> T]
  <2>1. db = [users |-> db.users, row |-> db.row, link |-> db.link, projects |-> db.projects,
              ticketSite |-> db.ticketSite, ticketProject |-> db.ticketProject]
    BY DEF Database
  <2> DEFINE U == db.users
             R == db.row
             S == db.ticketSite
  <2>2. \A k, p, y : [[users |-> U, row |-> R, link |-> k, projects |-> p, ticketSite |-> S, ticketProject |-> y]
                       EXCEPT !.link = L, !.projects = P, !.ticketProject = T]
          = [users |-> U, row |-> R, link |-> L, projects |-> P, ticketSite |-> S, ticketProject |-> T]
    <3> HIDE DEF U, R, S
    <3> TAKE k, p, y
    <3>1. [[users |-> U, row |-> R, link |-> k, projects |-> p, ticketSite |-> S, ticketProject |-> y] EXCEPT !.link = L]
            = [users |-> U, row |-> R, link |-> L, projects |-> p, ticketSite |-> S, ticketProject |-> y]
      OBVIOUS
    <3>2. [[users |-> U, row |-> R, link |-> L, projects |-> p, ticketSite |-> S, ticketProject |-> y]
             EXCEPT !.projects = P]
            = [users |-> U, row |-> R, link |-> L, projects |-> P, ticketSite |-> S, ticketProject |-> y]
      OBVIOUS
    <3>3. [[users |-> U, row |-> R, link |-> L, projects |-> P, ticketSite |-> S, ticketProject |-> y]
             EXCEPT !.ticketProject = T]
            = [users |-> U, row |-> R, link |-> L, projects |-> P, ticketSite |-> S, ticketProject |-> T]
      OBVIOUS
    <3> QED BY <3>1, <3>2, <3>3, Zenon
  <2> QED BY <2>1, <2>2, Zenon
<1> QED BY <1>1, <1>3, <1>4, <1>5 DEF L, T

\* What the backfill writes in a project.
LEMMA BackfilledFields ==
  ASSUME NEW db \in Database
  PROVE  /\ backfill(db).users = db.users /\ backfill(db).row = db.row /\ backfill(db).ticketSite = db.ticketSite
         /\ backfill(db).ticketProject = LinkTickets(db)
         /\ \A i \in Site :
              /\ backfill(db).link[i] = KeyOf(db, i)
              /\ backfill(db).projects[KeyOf(db, i)] = WriteProjectOf(db, KeyOf(db, i))
<1> DEFINE L == [i \in Site |-> KeyOf(db, i)]
           P == [key \in {OldKey} \cup {KeyOf(db, i) : i \in Site} |-> WriteProjectOf(db, key)]
           T == LinkTickets(db)
<1>1. backfill(db) = [users |-> db.users, row |-> db.row, link |-> L, projects |-> P,
                      ticketSite |-> db.ticketSite, ticketProject |-> T]
  BY Backfilled
<1>2. \A i \in Site : L[i] = KeyOf(db, i) /\ P[KeyOf(db, i)] = WriteProjectOf(db, KeyOf(db, i)) OBVIOUS
<1> HIDE DEF L, P, T
<1>3. /\ backfill(db).users = db.users /\ backfill(db).row = db.row /\ backfill(db).ticketSite = db.ticketSite
      /\ backfill(db).ticketProject = T /\ backfill(db).link = L /\ backfill(db).projects = P
  BY <1>1
<1> QED BY <1>2, <1>3 DEF T

\* A website in no project gets one of its own, made of its columns.
LEMMA OwnProject ==
  ASSUME NEW db \in Database, NEW i \in Site, db.link[i] = NoKey
  PROVE  /\ KeyOf(db, i) = i
         /\ WriteProjectOf(db, i)
              = [picDeveloperId |-> db.row[i].itPicId, picWeb |-> {db.row[i].ownerId} \ {NoUser},
                 developers |-> {db.row[i].backupItPicId} \ {NoUser, db.row[i].itPicId},
                 status |-> StatusFor(db.row[i])]
<1> DEFINE sites == {j \in Site : KeyOf(db, j) = i}
           last == CHOOSE k \in sites : \A j \in sites : j =< k
<1>1. KeyOf(db, i) = i BY DEF KeyOf
<1>2. \A j \in Site : KeyOf(db, j) = i => j = i BY KeysApart, Backfilled
<1>3. sites = {i} BY <1>1, <1>2
<1>4. i =< i BY DEF Site
<1>5. \E k \in sites : \A j \in sites : j =< k
  <2> HIDE DEF sites
  <2> QED BY <1>3, <1>4
<1>6. last \in sites
  <2> HIDE DEF sites
  <2> QED BY <1>5
<1>7. last = i /\ sites # {}
  <2> HIDE DEF last, sites
  <2> QED BY <1>3, <1>6
<1>8. i \notin DOMAIN db.projects BY KeysApart, DatabaseTypes
<1>9. WriteProjectOf(db, i)
        = [picDeveloperId |-> TeamOf(db.row[last]).picDeveloperId, picWeb |-> TeamOf(db.row[last]).picWeb,
           developers |-> TeamOf(db.row[last]).developers, status |-> StatusFor(db.row[last])]
  BY <1>7, <1>8, Zenon DEF WriteProjectOf
<1> HIDE DEF last
<1> QED BY <1>1, <1>7, <1>9 DEF TeamOf

\* Which tickets the backfill takes up.
LEMMA ReadyTickets ==
  ASSUME NEW db \in Ready
  PROVE  /\ db \in Database /\ preflight(db)
         /\ LinkTickets(db) = KeyOf(db, db.ticketSite)
<1>1. db \in Database /\ preflight(db) /\ db.ticketProject \in {NoKey, db.link[db.ticketSite]} BY DEF Ready
<1> QED BY <1>1 DEF LinkTickets, KeyOf

\* A ticket joins the project of its website.
LEMMA TicketsJoin == BackfillJoinsTickets
<1> SUFFICES ASSUME NEW db \in Ready PROVE backfill(db).ticketProject = backfill(db).link[db.ticketSite]
  BY DEF BackfillJoinsTickets
<1>1. db \in Database /\ LinkTickets(db) = KeyOf(db, db.ticketSite) BY ReadyTickets
<1>2. db.ticketSite \in Site BY <1>1, DatabaseTypes
<1> QED BY <1>1, <1>2, BackfilledFields

\* The website after the backfill, with the project made for it.
LEMMA JoinedAfter ==
  ASSUME NEW db \in Database, NEW i \in Site, db.link[i] = NoKey
  PROVE  LET p == ProjectAt(backfill(db), i)
             w == JoinedSite(backfill(db), i) IN
         /\ p # NoProject /\ p.picDeveloperId = db.row[i].itPicId /\ p.picWeb = {db.row[i].ownerId} \ {NoUser}
         /\ p.developers = {db.row[i].backupItPicId} \ {NoUser, db.row[i].itPicId}
         /\ p.archived = ~db.row[i].isActive
         /\ w.project = p /\ w.isActive = db.row[i].isActive
<1> DEFINE b == backfill(db)
           q == WriteProjectOf(db, i)
           p == ProjectAt(b, i)
<1>1. /\ q.picDeveloperId = db.row[i].itPicId /\ q.picWeb = {db.row[i].ownerId} \ {NoUser}
      /\ q.developers = {db.row[i].backupItPicId} \ {NoUser, db.row[i].itPicId}
      /\ q.status = StatusFor(db.row[i])
  <2>1. q = [picDeveloperId |-> db.row[i].itPicId, picWeb |-> {db.row[i].ownerId} \ {NoUser},
             developers |-> {db.row[i].backupItPicId} \ {NoUser, db.row[i].itPicId},
             status |-> StatusFor(db.row[i])]
    BY OwnProject
  <2> HIDE DEF q
  <2> QED BY <2>1
<1>2. b.projects[i] = q /\ b.link[i] = i /\ b.row = db.row BY BackfilledFields, OwnProject
<1>3. p = JoinedProject(q)
  <2>1. i # NoKey BY KeysApart
  <2> HIDE DEF b, q
  <2> QED BY <1>2, <2>1 DEF ProjectAt
<1> HIDE DEF b, q
<1>4. p # NoProject
  <2>1. /\ db.row[i].itPicId \in Person /\ db.row[i].ownerId \in Person /\ db.row[i].backupItPicId \in Person
    BY DatabaseTypes
  <2>2. q.picWeb \in SUBSET UserId /\ q.developers \in SUBSET UserId BY <1>1, <2>1 DEF Person
  <2>3. JoinedProject(q) # NoProject BY <1>1, <2>1, <2>2, JoinedExists
  <2> QED BY <1>3, <2>3
<1>5. db.row[i].isActive \in BOOLEAN BY DatabaseTypes
<1>6. (q.status = "archived") = ~db.row[i].isActive BY <1>1, <1>5 DEF StatusFor
<1>7. p.archived = ~db.row[i].isActive
  <2>1. p.archived = (q.status = "archived") BY <1>3 DEF JoinedProject
  <2> QED BY <1>6, <2>1
<1>8. p.picDeveloperId = q.picDeveloperId /\ p.picWeb = q.picWeb /\ p.developers = q.developers
  BY <1>3 DEF JoinedProject
<1>9. JoinedSite(b, i).project = ProjectAt(b, b.link[i]) /\ JoinedSite(b, i).isActive = b.row[i].isActive
  BY DEF JoinedSite
<1> HIDE DEF p
<1>10. JoinedSite(b, i).project = p /\ JoinedSite(b, i).isActive = db.row[i].isActive
  BY <1>2, <1>9 DEF p
<1> QED BY <1>1, <1>4, <1>7, <1>8, <1>10 DEF p, b

\* Nobody gains and nobody loses sight of a website by the backfill.
LEMMA SightKept == BackfillKeepsSight
<1> SUFFICES ASSUME NEW db \in Ready, NEW id \in UserId, NEW i \in Site, db.link[i] = NoKey
             PROVE  LET u == UserOf(db.users, id) IN
                    /\ websiteVisibilityScope(u, JoinedSite(db, i))
                         <=> websiteVisibilityScope(u, JoinedSite(backfill(db), i))
                    /\ dashboardCard(u, JoinedSite(db, i)) <=> dashboardCard(u, JoinedSite(backfill(db), i))
                    /\ i = db.ticketSite /\ websiteVisibilityScope(u, JoinedSite(db, i)) =>
                         \A a \in Person :
                           ticketGet(u, JoinedTicket(db, id, a)) => ticketGet(u, JoinedTicket(backfill(db), id, a))
  BY Zenon DEF BackfillKeepsSight
<1> DEFINE u == UserOf(db.users, id)
           w == JoinedSite(db, i)
           v == JoinedSite(backfill(db), i)
           p == ProjectAt(backfill(db), i)
<1>1. db \in Database BY ReadyTickets
<1>2. u.id = id /\ id # NoUser BY RowsAssumption DEF UserOf
<1>3. u.role \in Role BY <1>1, DatabaseTypes DEF UserOf, UserTable
<1>4. /\ w.project = NoProject /\ w.ownerId = db.row[i].ownerId /\ w.itPicId = db.row[i].itPicId
      /\ w.backupItPicId = db.row[i].backupItPicId /\ w.isActive = db.row[i].isActive
  BY DEF JoinedSite, ProjectAt
<1>5. /\ p # NoProject /\ p.picDeveloperId = db.row[i].itPicId /\ p.picWeb = {db.row[i].ownerId} \ {NoUser}
      /\ p.developers = {db.row[i].backupItPicId} \ {NoUser, db.row[i].itPicId}
      /\ p.archived = ~db.row[i].isActive
      /\ v.project = p /\ v.isActive = db.row[i].isActive
  BY <1>1, JoinedAfter
<1> HIDE DEF u, w, v, p
<1>6. websiteVisibilityScope(u, w) <=> websiteVisibilityScope(u, v)
  <2>1. CASE u.role = "pic_web"
    BY <1>2, <1>4, <1>5, <2>1 DEF websiteVisibilityScope, IsPicWebMember
  <2>2. CASE u.role = "developer"
    BY <1>2, <1>4, <1>5, <2>2 DEF websiteVisibilityScope, IsPicDeveloper, IsDeveloperMember
  <2>3. CASE u.role \in {"superadmin", "bos_it", "end_user"}
    BY <1>4, <1>5, <2>3 DEF websiteVisibilityScope
  <2> QED BY <1>3, <2>1, <2>2, <2>3 DEF Role
<1>7. dashboardCard(u, w) <=> dashboardCard(u, v)
  <2>1. nonArchivedProjectWebsiteScope(w) BY <1>4 DEF nonArchivedProjectWebsiteScope
  <2>2. db.row[i].isActive => nonArchivedProjectWebsiteScope(v) BY <1>5 DEF nonArchivedProjectWebsiteScope
  <2> QED BY <1>4, <1>5, <1>6, <2>1, <2>2 DEF dashboardCard
<1>8. ASSUME i = db.ticketSite, websiteVisibilityScope(u, w), NEW a \in Person, ticketGet(u, JoinedTicket(db, id, a))
      PROVE  ticketGet(u, JoinedTicket(backfill(db), id, a))
  <2> DEFINE s == JoinedTicket(db, id, a)
             t == JoinedTicket(backfill(db), id, a)
  <2>1. backfill(db).ticketProject = i BY <1>1, <1>8, ReadyTickets, BackfilledFields, OwnProject
  <2>2. t.project = p /\ t.assignedTo = a /\ t.userStory = {} /\ t.storyLinks = {}
    BY <2>1 DEF JoinedTicket, p
  <2>3. s.assignedTo = a /\ s.userStory = {} /\ s.storyLinks = {} BY DEF JoinedTicket
  <2>4. s.project = NoProject
    <3>1. db.ticketProject = NoKey BY <1>8 DEF Ready
    <3> QED BY <3>1 DEF JoinedTicket, ProjectAt
  <2> HIDE DEF s, t
  <2>5. canOperateScopedResources(u) BY <1>8 DEF ticketGet, s
  <2>6. ASSUME u.role = "pic_web" PROVE ticketReadScope(u, t)
    <3>1. db.row[i].ownerId = u.id BY <1>4, <1>8, <2>6 DEF websiteVisibilityScope, IsPicWebMember
    <3>2. IsPicWebMember(u, t.project) BY <1>2, <1>5, <2>2, <3>1 DEF IsPicWebMember
    <3> QED BY <2>6, <3>2 DEF ticketReadScope
  <2>7. ASSUME u.role = "developer" PROVE ticketReadScope(u, t)
    <3>1. ticketReadScope(u, s) BY <1>8 DEF ticketGet, s
    <3>2. u.id = a BY <2>3, <2>4, <2>7, <3>1 DEF ticketReadScope, IsPicDeveloper
    <3> QED BY <2>2, <2>7, <3>2 DEF ticketReadScope
  <2>8. ASSUME u.role \notin {"pic_web", "developer"} PROVE ticketReadScope(u, t)
    BY <2>8 DEF ticketReadScope
  <2>9. ticketGet(u, t) BY <2>5, <2>6, <2>7, <2>8 DEF ticketGet
  <2> QED BY <2>9 DEF t
<1> QED BY <1>6, <1>7, <1>8 DEF u, w, v

\* A second backfill changes nothing.
LEMMA BackfillAgain == BackfillIsRepeatable
<1> SUFFICES ASSUME NEW db \in Ready PROVE preflight(backfill(db)) /\ backfill(backfill(db)) = backfill(db)
  BY DEF BackfillIsRepeatable
<1> DEFINE b == backfill(db)
           keys == {OldKey} \cup {KeyOf(db, i) : i \in Site}
<1>1. db \in Database /\ preflight(db) BY ReadyTickets
<1>2. b = [users |-> db.users, row |-> db.row, link |-> [i \in Site |-> KeyOf(db, i)],
           projects |-> [key \in keys |-> WriteProjectOf(db, key)],
           ticketSite |-> db.ticketSite, ticketProject |-> LinkTickets(db)]
  BY <1>1, Backfilled
<1>3. /\ b.users = db.users /\ b.row = db.row /\ b.ticketSite = db.ticketSite
      /\ b.ticketProject = KeyOf(db, db.ticketSite)
      /\ DOMAIN b.projects = keys /\ \A key \in keys : b.projects[key] = WriteProjectOf(db, key)
      /\ \A i \in Site : b.link[i] = KeyOf(db, i)
  <2>1. LinkTickets(db) = KeyOf(db, db.ticketSite) BY ReadyTickets
  <2> HIDE DEF keys
  <2> QED BY <1>2, <2>1
<1> HIDE DEF b
<1>4. \A i \in Site : KeyOf(db, i) # NoKey /\ KeyOf(db, i) \in keys BY <1>1, Backfilled, KeysApart
<1>5. \A i \in Site : KeyOf(b, i) = KeyOf(db, i) BY <1>3, <1>4 DEF KeyOf
<1>6. db.ticketSite \in Site BY <1>1, DatabaseTypes
<1>7. preflight(b)
  <2>1. \A i \in Site : ~HasIssue(b, i) BY <1>1, <1>3 DEF preflight, HasIssue
  <2>2. ASSUME NEW i \in Site PROVE b.projects[b.link[i]].status = StatusFor(b.row[i])
    <3>1. b.projects[b.link[i]] = WriteProjectOf(db, KeyOf(db, i)) /\ b.row[i] = db.row[i] BY <1>3, <1>4
    <3>2. CASE db.link[i] = NoKey
      <4>1. KeyOf(db, i) = i /\ WriteProjectOf(db, i).status = StatusFor(db.row[i]) BY <1>1, <3>2, OwnProject
      <4> QED BY <3>1, <4>1
    <3>3. CASE db.link[i] # NoKey
      <4>1. KeyOf(db, i) = OldKey /\ db.link[i] = OldKey BY <1>1, <3>3, Backfilled, DatabaseTypes
      <4>2. db.projects[OldKey].status = StatusFor(db.row[i]) BY <1>1, <3>3, <4>1 DEF preflight
      <4>3. WriteProjectOf(db, OldKey).status = db.projects[OldKey].status
        <5>1. OldKey \in DOMAIN db.projects BY <1>1, DatabaseTypes
        <5>2. i \in {j \in Site : KeyOf(db, j) = OldKey} BY <4>1
        <5> QED BY <5>1, <5>2 DEF WriteProjectOf
      <4> QED BY <3>1, <4>1, <4>2, <4>3
    <3> QED BY <3>2, <3>3
  <2>3. \A i \in Site : b.link[i] # NoKey BY <1>3, <1>4
  <2>4. b.ticketProject = b.link[b.ticketSite] BY <1>3, <1>6
  <2> QED BY <2>1, <2>2, <2>3, <2>4 DEF preflight
<1>8. LinkTickets(b) = b.ticketProject BY <1>3, <1>4, <1>6 DEF LinkTickets
<1>9. {KeyOf(b, i) : i \in Site} = {KeyOf(db, i) : i \in Site} BY <1>5
<1>10. ASSUME NEW key \in keys PROVE WriteProjectOf(b, key) = WriteProjectOf(db, key)
  <2> DEFINE S(x) == {i \in Site : KeyOf(x, i) = key}
             L(x) == TeamOf(x.row[CHOOSE i \in S(x) : \A j \in S(x) : j =< i])
             St(x) == StatusFor(x.row[CHOOSE i \in S(x) : \A j \in S(x) : j =< i])
  <2>1. S(b) = S(db) BY <1>5
  <2>2. L(b) = L(db) BY <1>3, <2>1
  <2>3. WriteProjectOf(b, key)
          = IF S(b) = {} THEN b.projects[key]
            ELSE [picDeveloperId |-> L(b).picDeveloperId, picWeb |-> L(b).picWeb, developers |-> L(b).developers,
                  status |-> IF key \in DOMAIN b.projects THEN b.projects[key].status ELSE St(b)]
    BY Zenon DEF WriteProjectOf
  <2>4. WriteProjectOf(db, key)
          = IF S(db) = {} THEN db.projects[key]
            ELSE [picDeveloperId |-> L(db).picDeveloperId, picWeb |-> L(db).picWeb, developers |-> L(db).developers,
                  status |-> IF key \in DOMAIN db.projects THEN db.projects[key].status ELSE St(db)]
    BY Zenon DEF WriteProjectOf
  <2>5. key \in DOMAIN b.projects /\ b.projects[key] = WriteProjectOf(db, key) BY <1>3
  <2> HIDE DEF S, L, St
  <2>6. CASE S(b) = {} BY <2>3, <2>5, <2>6
  <2>7. CASE S(b) # {} BY <2>1, <2>2, <2>3, <2>4, <2>5, <2>7
  <2> QED BY <2>6, <2>7
<1>11. backfill(b)
         = [b EXCEPT !.link = [i \in Site |-> KeyOf(b, i)],
                     !.projects = [key \in DOMAIN b.projects \cup {KeyOf(b, i) : i \in Site} |-> WriteProjectOf(b, key)],
                     !.ticketProject = LinkTickets(b)]
  BY DEF backfill
<1>12. [i \in Site |-> KeyOf(b, i)] = b.link BY <1>2, <1>5
<1>13. [key \in DOMAIN b.projects \cup {KeyOf(b, i) : i \in Site} |-> WriteProjectOf(b, key)] = b.projects
  <2> DEFINE D == DOMAIN b.projects \cup {KeyOf(b, i) : i \in Site}
  <2>1. D = keys BY <1>3, <1>9
  <2>2. b.projects = [key \in keys |-> WriteProjectOf(db, key)] BY <1>2
  <2>3. [key \in keys |-> WriteProjectOf(b, key)] = [key \in keys |-> WriteProjectOf(db, key)] BY <1>10, Zenon
  <2>4. [key \in D |-> WriteProjectOf(b, key)] = [key \in keys |-> WriteProjectOf(b, key)]
    <3> HIDE DEF D, keys
    <3> QED BY <2>1, Zenon
  <2>5. [key \in D |-> WriteProjectOf(b, key)] = b.projects
    <3> HIDE DEF D, keys
    <3> QED BY <2>2, <2>3, <2>4, Zenon
  <2> QED BY <2>5
<1>14. backfill(b) = [b EXCEPT !.link = b.link, !.projects = b.projects, !.ticketProject = b.ticketProject]
  <2> DEFINE L == [i \in Site |-> KeyOf(b, i)]
             P == [key \in DOMAIN b.projects \cup {KeyOf(b, i) : i \in Site} |-> WriteProjectOf(b, key)]
             T == LinkTickets(b)
  <2>1. backfill(b) = [b EXCEPT !.link = L, !.projects = P, !.ticketProject = T] BY <1>11
  <2>2. L = b.link /\ P = b.projects /\ T = b.ticketProject BY <1>8, <1>12, <1>13
  <2> HIDE DEF L, P, T
  <2> QED BY <2>1, <2>2
<1>15. [b EXCEPT !.link = b.link, !.projects = b.projects, !.ticketProject = b.ticketProject] = b
  <2> DEFINE L == [i \in Site |-> KeyOf(db, i)]
             P == [key \in keys |-> WriteProjectOf(db, key)]
             T == LinkTickets(db)
  <2>1. b = [users |-> db.users, row |-> db.row, link |-> L, projects |-> P, ticketSite |-> db.ticketSite,
             ticketProject |-> T]
    BY <1>2
  <2> HIDE DEF L, P, T
  <2> QED BY <2>1
<1> QED BY <1>7, <1>14, <1>15 DEF b

\* A change of a team, by its editor or by the backfill, keeps the sight of everybody: for
\* any users, websites and projects.
THEOREM SightStays == Spec => []TeamsKeepSight
<1>1. TeamsKeepSight BY TeamReaches, SightKept, BackfillAgain, TicketsJoin DEF TeamsKeepSight
<1> QED BY <1>1, PTL
-----------------------------------------------------------------------------
(* Calls to the outside *)

SafeHop(hops, n) == assertSafeProbeUrl(hops[n].target, hops[n].records)
PassedOn(hops, n) == SafeHop(hops, n) /\ hops[n].answer = "moved"
\* What a chain comes to that ends at hop n.
EndsAt(hops, n) ==
  IF SafeHop(hops, n) THEN [ok |-> hops[n].answer \in {"success", "other3xx"}, asked |-> 0 .. n]
  ELSE [ok |-> FALSE, asked |-> 0 .. (n - 1)]
\* One hop, given what the chain comes to from the next one.
HopGives(hops, n, next) ==
  CASE ~assertSafeProbeUrl(hops[n].target, hops[n].records) -> [ok |-> FALSE, asked |-> 0 .. (n - 1)]
    [] OTHER ->
       IF hops[n].answer = "moved" /\ n < MaxRedirects THEN next
       ELSE [ok |-> hops[n].answer \in {"success", "other3xx"}, asked |-> 0 .. n]
Follows(hops, follow) == follow = [n \in 0 .. MaxRedirects |-> HopGives(hops, n, follow[n + 1])]

\* A hop passes on to the next one, or is the end of its chain.
LEMMA HopPassesOrEnds ==
  ASSUME NEW hops, NEW n \in 0 .. MaxRedirects, NEW next
  PROVE  HopGives(hops, n, next) = IF PassedOn(hops, n) /\ n < MaxRedirects THEN next ELSE EndsAt(hops, n)
<1>1. CASE ~SafeHop(hops, n)
  <2>1. HopGives(hops, n, next) = [ok |-> FALSE, asked |-> 0 .. (n - 1)] BY <1>1 DEF HopGives, SafeHop
  <2> QED BY <1>1, <2>1 DEF PassedOn, EndsAt
<1>2. CASE SafeHop(hops, n)
  <2>1. HopGives(hops, n, next)
          = IF hops[n].answer = "moved" /\ n < MaxRedirects THEN next
            ELSE [ok |-> hops[n].answer \in {"success", "other3xx"}, asked |-> 0 .. n]
    BY <1>2, Zenon DEF HopGives, SafeHop
  <2> QED BY <1>2, <2>1, Zenon DEF PassedOn, EndsAt
<1> QED BY <1>1, <1>2

\* The chain is worked off from its last hop: there is exactly what the recursion describes.
LEMMA FollowExists ==
  ASSUME NEW hops
  PROVE  \E follow : Follows(hops, follow)
<1> DEFINE R5 == HopGives(hops, 5, 0)
           R4 == HopGives(hops, 4, R5)
           R3 == HopGives(hops, 3, R4)
           R2 == HopGives(hops, 2, R3)
           R1 == HopGives(hops, 1, R2)
           R0 == HopGives(hops, 0, R1)
           F == [n \in 0 .. 5 |-> IF n = 5 THEN R5 ELSE IF n = 4 THEN R4 ELSE IF n = 3 THEN R3
                                  ELSE IF n = 2 THEN R2 ELSE IF n = 1 THEN R1 ELSE R0]
           G == [n \in 0 .. MaxRedirects |-> HopGives(hops, n, F[n + 1])]
<1>1. MaxRedirects = 5 BY DEF MaxRedirects
<1>2. \A x, y : HopGives(hops, 5, x) = HopGives(hops, 5, y) BY <1>1, HopPassesOrEnds
<1>3. F[5] = R5 /\ F[4] = R4 /\ F[3] = R3 /\ F[2] = R2 /\ F[1] = R1 /\ F[0] = R0
  <2> HIDE DEF R5, R4, R3, R2, R1, R0
  <2> QED OBVIOUS
<1>4. HopGives(hops, 5, F[6]) = R5 BY <1>2
<1>5. \A n \in 0 .. 5 : F[n] = HopGives(hops, n, F[n + 1])
  <2>1. SUFFICES ASSUME NEW n \in 0 .. 5 PROVE F[n] = HopGives(hops, n, F[n + 1]) OBVIOUS
  <2>2. n = 0 \/ n = 1 \/ n = 2 \/ n = 3 \/ n = 4 \/ n = 5 OBVIOUS
  <2>3. 0 + 1 = 1 /\ 1 + 1 = 2 /\ 2 + 1 = 3 /\ 3 + 1 = 4 /\ 4 + 1 = 5 /\ 5 + 1 = 6 OBVIOUS
  <2>4. R4 = HopGives(hops, 4, R5) /\ R3 = HopGives(hops, 3, R4) /\ R2 = HopGives(hops, 2, R3)
        /\ R1 = HopGives(hops, 1, R2) /\ R0 = HopGives(hops, 0, R1)
    OBVIOUS
  <2> HIDE DEF F, R5, R4, R3, R2, R1, R0
  <2> QED BY <1>3, <1>4, <2>2, <2>3, <2>4
<1>6. F = [n \in 0 .. 5 |-> F[n]]
  <2> HIDE DEF R5, R4, R3, R2, R1, R0
  <2> QED OBVIOUS
<1>7. G = [n \in 0 .. 5 |-> F[n]]
  <2> HIDE DEF F
  <2> QED BY <1>1, <1>5
<1>8. F = G BY <1>6, <1>7
<1> HIDE DEF F
<1> QED BY <1>8 DEF Follows

\* The probe is the function that follows the chain, hop by hop.
LEMMA ProbeFollows ==
  ASSUME NEW hops
  PROVE  \E follow : Follows(hops, follow) /\ runHttpHealthProbe(hops) = follow[0]
<1> DEFINE f == CHOOSE follow : Follows(hops, follow)
<1>1. runHttpHealthProbe(hops)
        = (CHOOSE follow : follow = [n \in 0 .. MaxRedirects |-> HopGives(hops, n, follow[n + 1])])[0]
  BY Zenon DEF runHttpHealthProbe, HopGives
<1>2. runHttpHealthProbe(hops) = f[0] BY <1>1, Zenon DEF Follows
<1>3. Follows(hops, f) BY FollowExists, Zenon
<1> QED BY <1>2, <1>3

\* A chain is passed on from hop to hop to the one at which it ends.
LEMMA ChainEnds ==
  ASSUME NEW hops
  PROVE  \E k \in 0 .. MaxRedirects :
           /\ \A j \in 0 .. k - 1 : PassedOn(hops, j)
           /\ k < MaxRedirects => ~PassedOn(hops, k)
           /\ runHttpHealthProbe(hops) = EndsAt(hops, k)
<1>1. PICK f : Follows(hops, f) /\ runHttpHealthProbe(hops) = f[0] BY ProbeFollows
<1>2. \A n \in 0 .. MaxRedirects : f[n] = HopGives(hops, n, f[n + 1]) BY <1>1 DEF Follows
<1>3. \A n \in 0 .. MaxRedirects :
        f[n] = IF PassedOn(hops, n) /\ n < MaxRedirects THEN f[n + 1] ELSE EndsAt(hops, n)
  BY <1>2, HopPassesOrEnds
<1> DEFINE Pass(j) == PassedOn(hops, j)
           End(j) == EndsAt(hops, j)
<1>4. \A n \in 0 .. 5 : f[n] = IF Pass(n) /\ n < 5 THEN f[n + 1] ELSE End(n) BY <1>3 DEF MaxRedirects
<1> HIDE DEF Pass, End
<1>5. f[5] = End(5) BY <1>4
<1>6. \A n \in 0 .. 4 : f[n] = IF Pass(n) THEN f[n + 1] ELSE End(n) BY <1>4
<1>7. \E k \in 0 .. 5 : (\A j \in 0 .. k - 1 : Pass(j)) /\ (k < 5 => ~Pass(k)) /\ f[0] = End(k)
  <2>1. f[0] = (IF Pass(0) THEN f[1] ELSE End(0)) /\ f[1] = (IF Pass(1) THEN f[2] ELSE End(1))
        /\ f[2] = (IF Pass(2) THEN f[3] ELSE End(2)) /\ f[3] = (IF Pass(3) THEN f[4] ELSE End(3))
        /\ f[4] = (IF Pass(4) THEN f[5] ELSE End(4))
    BY <1>6
  <2>2. CASE ~Pass(0) BY <2>1, <2>2
  <2>3. CASE Pass(0) /\ ~Pass(1)
    <3>1. f[0] = End(1) /\ \A j \in 0 .. 1 - 1 : Pass(j) BY <2>1, <2>3
    <3> QED BY <2>3, <3>1
  <2>4. CASE Pass(0) /\ Pass(1) /\ ~Pass(2)
    <3>1. f[0] = End(2) /\ \A j \in 0 .. 2 - 1 : Pass(j) BY <2>1, <2>4
    <3> QED BY <2>4, <3>1
  <2>5. CASE Pass(0) /\ Pass(1) /\ Pass(2) /\ ~Pass(3)
    <3>1. f[0] = End(3) /\ \A j \in 0 .. 3 - 1 : Pass(j)
      <4>1. \A j \in 0 .. 3 - 1 : j = 0 \/ j = 1 \/ j = 2 OBVIOUS
      <4> QED BY <2>1, <2>5, <4>1
    <3> QED BY <2>5, <3>1
  <2>6. CASE Pass(0) /\ Pass(1) /\ Pass(2) /\ Pass(3) /\ ~Pass(4)
    <3>1. f[0] = End(4) /\ \A j \in 0 .. 4 - 1 : Pass(j)
      <4>1. \A j \in 0 .. 4 - 1 : j = 0 \/ j = 1 \/ j = 2 \/ j = 3 OBVIOUS
      <4> QED BY <2>1, <2>6, <4>1
    <3> QED BY <2>6, <3>1
  <2>7. CASE Pass(0) /\ Pass(1) /\ Pass(2) /\ Pass(3) /\ Pass(4)
    <3>1. f[0] = End(5) /\ \A j \in 0 .. 5 - 1 : Pass(j)
      <4>1. \A j \in 0 .. 5 - 1 : j = 0 \/ j = 1 \/ j = 2 \/ j = 3 \/ j = 4 OBVIOUS
      <4> QED BY <1>5, <2>1, <2>7, <4>1
    <3> QED BY <3>1
  <2> QED BY <2>2, <2>3, <2>4, <2>5, <2>6, <2>7
<1> QED BY <1>1, <1>7 DEF Pass, End, MaxRedirects

\* What the end of a chain tells.
LEMMA EndFields ==
  ASSUME NEW hops, NEW k
  PROVE  /\ EndsAt(hops, k).ok <=> SafeHop(hops, k) /\ hops[k].answer \in {"success", "other3xx"}
         /\ EndsAt(hops, k).asked = IF SafeHop(hops, k) THEN 0 .. k ELSE 0 .. (k - 1)
<1> DEFINE good == hops[k].answer \in {"success", "other3xx"}
<1>2. CASE SafeHop(hops, k)
  <2>1. EndsAt(hops, k) = [ok |-> good, asked |-> 0 .. k] BY <1>2, Zenon DEF EndsAt
  <2>2. EndsAt(hops, k).ok = good /\ EndsAt(hops, k).asked = 0 .. k
    <3> HIDE DEF good
    <3> QED BY <2>1
  <2> QED BY <1>2, <2>2, Zenon
<1>3. CASE ~SafeHop(hops, k)
  <2>1. EndsAt(hops, k) = [ok |-> FALSE, asked |-> 0 .. (k - 1)] BY <1>3, Zenon DEF EndsAt
  <2>2. EndsAt(hops, k).ok = FALSE /\ EndsAt(hops, k).asked = 0 .. (k - 1) BY <2>1
  <2> QED BY <1>3, <2>2, Zenon
<1> QED BY <1>2, <1>3

\* Every probe follows its chain to its end.
LEMMA ProbesRun ==
  ASSUME NEW before, NEW hops, NEW ms
  PROVE  LET r == runProbes(before, hops, ms)
             safe == assertSafeProbeUrl(hops[0].target, before) IN
         /\ r.probeAborted <=> ~safe
         /\ ~r.infrastructureFailure
         /\ safe => (r.httpOk <=> runHttpHealthProbe(hops).ok)
         /\ safe => r.responseTimeMs = ms /\ r.asked = runHttpHealthProbe(hops).asked
         /\ ~safe => r.asked = {}
<1> DEFINE http == runHttpHealthProbe(hops)
           ok == http.ok
           asked == http.asked
<1>1. CASE assertSafeProbeUrl(hops[0].target, before)
  <2>1. runProbes(before, hops, ms)
          = [probeAborted |-> FALSE, infrastructureFailure |-> FALSE, httpOk |-> ok,
             responseTimeMs |-> ms, asked |-> asked]
    BY <1>1, Zenon DEF runProbes
  <2> HIDE DEF ok, asked
  <2>2. /\ runProbes(before, hops, ms).probeAborted = FALSE
        /\ runProbes(before, hops, ms).infrastructureFailure = FALSE
        /\ runProbes(before, hops, ms).httpOk = ok
        /\ runProbes(before, hops, ms).responseTimeMs = ms /\ runProbes(before, hops, ms).asked = asked
    BY <2>1
  <2> QED BY <1>1, <2>2, Zenon DEF ok, asked
<1>2. CASE ~assertSafeProbeUrl(hops[0].target, before)
  BY <1>2 DEF runProbes
<1> QED BY <1>1, <1>2

\* Every hop that is asked passed the check of its address first, whatever the chain.
LEMMA AskedIsSafe ==
  ASSUME NEW hops, NEW before, NEW n \in runProbes(before, hops, 0).asked
  PROVE  /\ SafeHop(hops, n) /\ (0 .. n) \subseteq runProbes(before, hops, 0).asked
         /\ n > 0 => hops[n - 1].answer = "moved"
<1>1. runProbes(before, hops, 0).asked = runHttpHealthProbe(hops).asked
  <2>1. runProbes(before, hops, 0).asked # {} OBVIOUS
  <2> QED BY <2>1, ProbesRun
<1>2. PICK k \in 0 .. MaxRedirects :
        /\ \A j \in 0 .. k - 1 : PassedOn(hops, j)
        /\ k < MaxRedirects => ~PassedOn(hops, k)
        /\ runHttpHealthProbe(hops) = EndsAt(hops, k)
  BY ChainEnds
<1>3. runHttpHealthProbe(hops).asked = IF SafeHop(hops, k) THEN 0 .. k ELSE 0 .. (k - 1) BY <1>2, EndFields
<1>4. k \in Nat BY <1>2
<1>5. \A j \in 0 .. k - 1 : SafeHop(hops, j) /\ hops[j].answer = "moved" BY <1>2 DEF PassedOn
<1>6. n \in 0 .. k /\ SafeHop(hops, n) /\ (0 .. n) \subseteq runHttpHealthProbe(hops).asked
  BY <1>1, <1>3, <1>4, <1>5
<1>7. n > 0 => n - 1 \in 0 .. k - 1 BY <1>4, <1>6
<1> QED BY <1>1, <1>5, <1>6, <1>7

\* So are the hops of the chains compared.
LEMMA SafeAsked == OnlySafeTargetsAsked
BY AskedIsSafe DEF OnlySafeTargetsAsked, SafeHop

\* What a status says of its probe.
LEMMA StatusDerived ==
  ASSUME NEW p, ~p.infrastructureFailure
  PROVE  /\ p.probeAborted <=> DeriveCheckStatus(p) = "unknown"
         /\ ~p.probeAborted => (DeriveCheckStatus(p) = "down" <=> ~p.httpOk)
         /\ DeriveCheckStatus(p) = "warning" => ~p.probeAborted /\ p.responseTimeMs >= SlowThresholdMs
BY DEF DeriveCheckStatus

\* The chain comes, over safe targets only, to an accepted answer.
Arrives(hops) ==
  \E n \in 0 .. MaxRedirects :
    /\ \A k \in 0 .. n : SafeHop(hops, k) /\ (k < n => hops[k].answer = "moved")
    /\ hops[n].answer \in {"success", "other3xx"}

\* A good status comes from a chain that arrives, whatever the chain and its time.
LEMMA StatusTellsArrival ==
  ASSUME NEW hops, NEW before, NEW ms
  PROVE  LET status == DeriveCheckStatus(runProbes(before, hops, ms)) IN
         /\ status = "unknown" <=> ~assertSafeProbeUrl(hops[0].target, before)
         /\ status # "unknown" => (status = "down" <=> ~Arrives(hops))
         /\ status = "warning" => ms >= SlowThresholdMs
<1> DEFINE r == runProbes(before, hops, ms)
           safe == assertSafeProbeUrl(hops[0].target, before)
           status == DeriveCheckStatus(r)
           arrives == Arrives(hops)
<1>1. /\ r.probeAborted <=> ~safe
      /\ ~r.infrastructureFailure
      /\ safe => (r.httpOk <=> runHttpHealthProbe(hops).ok)
      /\ safe => r.responseTimeMs = ms
  BY ProbesRun
<1>2. PICK k \in 0 .. MaxRedirects :
        /\ \A j \in 0 .. k - 1 : PassedOn(hops, j)
        /\ k < MaxRedirects => ~PassedOn(hops, k)
        /\ runHttpHealthProbe(hops) = EndsAt(hops, k)
  BY ChainEnds
<1>3. runHttpHealthProbe(hops).ok <=> SafeHop(hops, k) /\ hops[k].answer \in {"success", "other3xx"}
  BY <1>2, EndFields
<1>4. \A j \in 0 .. k - 1 : SafeHop(hops, j) /\ hops[j].answer = "moved" BY <1>2 DEF PassedOn
<1>5. MaxRedirects = 5 BY DEF MaxRedirects
<1>6. ASSUME SafeHop(hops, k), hops[k].answer \in {"success", "other3xx"} PROVE arrives
  <2>1. \A j \in 0 .. k : SafeHop(hops, j) /\ (j < k => hops[j].answer = "moved") BY <1>2, <1>4, <1>5, <1>6
  <2> QED BY <1>6, <2>1 DEF Arrives
<1>7. ASSUME arrives PROVE SafeHop(hops, k) /\ hops[k].answer \in {"success", "other3xx"}
  <2>1. PICK n \in 0 .. MaxRedirects :
          /\ \A j \in 0 .. n : SafeHop(hops, j) /\ (j < n => hops[j].answer = "moved")
          /\ hops[n].answer \in {"success", "other3xx"}
    BY <1>7 DEF Arrives
  <2>2. ~(n < k)
    <3>1. n < k => n \in 0 .. k - 1 BY <1>5
    <3>2. hops[n].answer # "moved" BY <2>1
    <3> QED BY <1>4, <3>1, <3>2
  <2>3. ~(k < n)
    <3>1. k < n => k \in 0 .. n /\ k < MaxRedirects BY <1>5
    <3>2. k < n => PassedOn(hops, k) BY <2>1, <3>1 DEF PassedOn
    <3> QED BY <1>2, <3>1, <3>2
  <2>4. n = k BY <1>5, <2>2, <2>3
  <2>5. n \in 0 .. n BY <1>5
  <2> QED BY <2>1, <2>4, <2>5
<1>8. safe => (r.httpOk <=> arrives) BY <1>1, <1>3, <1>6, <1>7
<1> HIDE DEF r, safe, arrives
<1>9. /\ r.probeAborted <=> status = "unknown"
      /\ ~r.probeAborted => (status = "down" <=> ~r.httpOk)
      /\ status = "warning" => ~r.probeAborted /\ r.responseTimeMs >= SlowThresholdMs
  BY <1>1, StatusDerived
<1> HIDE DEF status
<1>10. /\ status = "unknown" <=> ~safe
       /\ status # "unknown" => (status = "down" <=> ~arrives)
       /\ status = "warning" => ms >= SlowThresholdMs
  BY <1>1, <1>8, <1>9
<1> QED BY <1>10 DEF r, safe, status, arrives

\* So do the chains compared.
LEMMA StatusOfChain == StatusIsOfTheChain
BY StatusTellsArrival, Zenon DEF StatusIsOfTheChain, SafeHop, Arrives

\* An accepted target is one the worker asks.
LEMMA MeasuredIfAccepted == AcceptedIsMeasured
<1> SUFFICES ASSUME NEW target \in Target, NEW records \in Lookup, NEW answer \in HopAnswer
             PROVE  LET hops == [k \in 0 .. MaxRedirects |-> [target |-> target, records |-> records, answer |-> answer]] IN
                    assertSafeMonitoringUrl(target, records) <=> DeriveCheckStatus(runProbes(records, hops, 0)) # "unknown"
  BY Zenon DEF AcceptedIsMeasured
<1> DEFINE hops == [k \in 0 .. MaxRedirects |-> [target |-> target, records |-> records, answer |-> answer]]
<1>1. hops[0].target = target
  <2>1. hops[0] = [target |-> target, records |-> records, answer |-> answer] BY DEF MaxRedirects
  <2> QED BY <2>1
<1> HIDE DEF hops
<1>2. DeriveCheckStatus(runProbes(records, hops, 0)) = "unknown" <=> ~assertSafeProbeUrl(target, records)
  BY <1>1, ProbesRun, StatusDerived
<1>3. target.host \in {"name", "local", "public", "private"} BY DEF Target, Address
<1>4. records \subseteq {"public", "private"} BY DEF Lookup, Address
<1>5. assertSafeMonitoringUrl(target, records) <=> assertSafeProbeUrl(target, records)
  BY <1>3, <1>4 DEF assertSafeMonitoringUrl, assertSafeProbeUrl
<1> QED BY <1>2, <1>5 DEF hops
-----------------------------------------------------------------------------
(* Telegram *)

\* The attempts of one message: at most one is accepted.
LEMMA RetriesOnce == BackoffSendsOnce
<1> SUFFICES ASSUME NEW first \in TelegramAnswer, NEW second \in TelegramAnswer
             PROVE  LET call == sendTelegramWithBackoff(first, second)
                        out == {i \in DOMAIN call.posts : call.posts[i].accepted} IN
                    /\ Cardinality(out) =< 1 /\ Len(call.posts) =< 2
                    /\ Len(call.posts) = 2 => call.waited > 0 /\ call.waited =< 60
                    /\ Len(call.posts) = 2 /\ first.retry_after \in 1 .. 60 => call.waited = first.retry_after
                    /\ call.posts[Len(call.posts)].kind = "ok" => Cardinality(out) = 1
  BY Zenon DEF BackoffSendsOnce
<1> DEFINE call == sendTelegramWithBackoff(first, second)
           posts == call.posts
           out == {i \in DOMAIN posts : posts[i].accepted}
<1>1. /\ first.kind \in {"ok", "flood", "refused", "lost"} /\ first.retry_after \in {Absent, 0, 30, 90}
      /\ first.header \in {0, 10} /\ first.accepted \in BOOLEAN
      /\ first.kind = "ok" => first.accepted
      /\ first.kind \in {"flood", "refused"} => ~first.accepted
      /\ second.kind = "ok" => second.accepted
  BY DEF TelegramAnswer
<1>2. /\ retryAfterSec(first) \in Nat
      /\ retryAfterSec(first) # 0 => first.kind = "flood"
      /\ retryAfterSec(first) # 0 /\ first.retry_after \in 1 .. 60 => retryAfterSec(first) = first.retry_after
  BY <1>1 DEF retryAfterSec, Absent
<1>3. Cardinality({}) = 0 /\ Cardinality({1}) = 1 /\ Cardinality({2}) = 1 BY FS_EmptySet, FS_Singleton
<1>4. CASE retryAfterSec(first) = 0
  <2>1. posts = <<first>> /\ call.waited = 0 BY <1>4 DEF sendTelegramWithBackoff
  <2> HIDE DEF posts, call
  <2>2. Len(posts) = 1 /\ DOMAIN posts = {1} /\ posts[1] = first BY <2>1
  <2>3. out = IF first.accepted THEN {1} ELSE {} BY <2>2
  <2> HIDE DEF out
  <2> QED BY <1>1, <1>3, <2>2, <2>3 DEF posts, call, out
<1>5. CASE retryAfterSec(first) # 0
  <2>1. posts = <<first, second>>
        /\ call.waited = IF retryAfterSec(first) > 60 THEN 60 ELSE retryAfterSec(first)
    BY <1>5 DEF sendTelegramWithBackoff
  <2> HIDE DEF posts, call
  <2>2. Len(posts) = 2 /\ DOMAIN posts = {1, 2} /\ posts[1] = first /\ posts[2] = second BY <2>1
  <2>3. out = IF second.accepted THEN {2} ELSE {} BY <1>1, <1>2, <1>5, <2>2
  <2>4. call.waited > 0 /\ call.waited =< 60 /\ (first.retry_after \in 1 .. 60 => call.waited = first.retry_after)
    BY <1>2, <1>5, <2>1
  <2> HIDE DEF out
  <2> QED BY <1>1, <1>3, <2>2, <2>3, <2>4 DEF posts, call, out
<1> QED BY <1>4, <1>5

\* What the worker sends out goes to safe targets only, has the status the chain of answers
\* deserves, and no message goes out twice.
THEOREM CallsGoRight == Spec => []OutsideCallsHold
<1>1. OutsideCallsHold BY SafeAsked, StatusOfChain, MeasuredIfAccepted, RetriesOnce DEF OutsideCallsHold
<1> QED BY <1>1, PTL
=============================================================================
