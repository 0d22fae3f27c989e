------------------------------- MODULE Probes -------------------------------
(***************************************************************************)
(* How the worker asks a website: the redirects it follows by itself, the  *)
(* check of every target before it is asked, and what of all that becomes  *)
(* the status of the check; the API's own check of a URL that staff enter; *)
(* and the Telegram call with its one retry.  A host is a name, an address *)
(* or local; a name is looked up anew at every check.                      *)
(***************************************************************************)
EXTENDS MonitoringRules

MaxRedirects == 5
Address == {"public", "private"}
Target == [parses : BOOLEAN, http : BOOLEAN, credentials : BOOLEAN, host : {"name", "local"} \cup Address]
\* A lookup that fails is like an empty one: both are refused.
Lookup == SUBSET Address
\* "moved" is a 3xx with a Location, "other3xx" one without; "none" is no answer in time.
HopAnswer == {"success", "moved", "other3xx", "error", "none"}
Hop == [target : Target, records : Lookup, answer : HopAnswer]

\* A slip: one public address is enough.
AcceptsMixedRecords(target, records) ==
  /\ target.parses /\ target.http /\ ~target.credentials
  /\ target.host = "public" \/ (target.host = "name" /\ "public" \in records)
\* The check of the worker, and the API's copy of it.
assertSafeProbeUrl(target, records) ==
  /\ target.parses /\ target.http /\ ~target.credentials
  /\ target.host \in {"public", "name"}
  /\ target.host = "name" => records # {} /\ records \subseteq {"public"}
assertSafeMonitoringUrl(target, records) ==
  /\ target.parses /\ target.http /\ ~target.credentials
  /\ target.host # "local" /\ target.host # "private"
  /\ target.host = "name" => records # {} /\ "private" \notin records

\* hops[n] is the target after n redirects, with the lookup and the answer it gets; the
\* result says which hops were asked.  Slips: one redirect less; only the first is checked.
OneRedirectLess(hops) ==
  LET follow[n \in 0 .. MaxRedirects] ==
        CASE ~assertSafeProbeUrl(hops[n].target, hops[n].records) -> [ok |-> FALSE, asked |-> 0 .. (n - 1)]
          [] OTHER ->
             IF hops[n].answer = "moved" /\ n < MaxRedirects - 1 THEN follow[n + 1]
             ELSE [ok |-> hops[n].answer \in {"success", "other3xx"}, asked |-> 0 .. n]
  IN  follow[0]
ChecksFirstTarget(hops) ==
  LET follow[n \in 0 .. MaxRedirects] ==
        CASE n = 0 /\ ~assertSafeProbeUrl(hops[n].target, hops[n].records) -> [ok |-> FALSE, asked |-> {}]
          [] OTHER ->
             IF hops[n].answer = "moved" /\ n < MaxRedirects THEN follow[n + 1]
             ELSE [ok |-> hops[n].answer \in {"success", "other3xx"}, asked |-> 0 .. n]
  IN  follow[0]
runHttpHealthProbe(hops) ==
  LET follow[n \in 0 .. MaxRedirects] ==
        CASE ~assertSafeProbeUrl(hops[n].target, hops[n].records) -> [ok |-> FALSE, asked |-> 0 .. (n - 1)]
          [] OTHER ->
             IF hops[n].answer = "moved" /\ n < MaxRedirects THEN follow[n + 1]
             ELSE [ok |-> hops[n].answer \in {"success", "other3xx"}, asked |-> 0 .. n]
  IN  follow[0]

\* `before` is the lookup of the check that precedes the call, ms its whole time.
runProbes(before, hops, ms) ==
  IF ~assertSafeProbeUrl(hops[0].target, before)
    THEN [probeAborted |-> TRUE, infrastructureFailure |-> FALSE, httpOk |-> FALSE,
          responseTimeMs |-> NoResponseTime, asked |-> {}]
    ELSE LET http == runHttpHealthProbe(hops) IN
         [probeAborted |-> FALSE, infrastructureFailure |-> FALSE, httpOk |-> http.ok,
          responseTimeMs |-> ms, asked |-> http.asked]
-----------------------------------------------------------------------------
(* Telegram: one answer per POST.  `accepted` says whether the message went *)
(* out, which the code does not see: an answer may be lost or unreadable.   *)

Absent == -1
TelegramAnswer ==
  {a \in [kind : {"ok", "flood", "refused", "lost"}, retry_after : {Absent, 0, 30, 90}, header : {0, 10},
          accepted : BOOLEAN] :
     /\ a.kind = "ok" => a.accepted
     /\ a.kind \in {"flood", "refused"} => ~a.accepted
     /\ a.kind # "flood" => a.retry_after = Absent /\ a.header = 0}

\* The seconds a flooded call carries; 0 for any other outcome.
retryAfterSec(a) ==
  IF a.kind # "flood" THEN 0
  ELSE IF a.retry_after # Absent THEN a.retry_after
  ELSE IF a.header # 0 THEN a.header ELSE 5
\* A slip: whatever went wrong is sent again.
BackoffOnAnyError(first, second) ==
  IF first.kind = "ok" THEN [posts |-> <<first>>, waited |-> 0]
  ELSE [posts |-> <<first, second>>, waited |-> IF retryAfterSec(first) > 60 THEN 60 ELSE retryAfterSec(first)]
sendTelegramWithBackoff(first, second) ==
  IF retryAfterSec(first) = 0 THEN [posts |-> <<first>>, waited |-> 0]
  ELSE [posts |-> <<first, second>>, waited |-> IF retryAfterSec(first) > 60 THEN 60 ELSE retryAfterSec(first)]
-----------------------------------------------------------------------------
(* The chains compared: n redirects between good targets, then a hop of     *)
(* any kind, again and again.                                               *)
PublicName == [parses |-> TRUE, http |-> TRUE, credentials |-> FALSE, host |-> "name"]
Moved == [target |-> PublicName, records |-> {"public"}, answer |-> "moved"]
HopChain == {[k \in 0 .. MaxRedirects |-> IF k < n THEN Moved ELSE last] : n \in 0 .. MaxRedirects + 1, last \in Hop}

\* The worker never asks a target that it has not found safe in the same hop, and asks
\* the hops in order without a gap (target-safety.ts: every target, redirects included).
OnlySafeTargetsAsked ==
  \A hops \in HopChain, before \in Lookup :
    LET asked == runProbes(before, hops, 0).asked IN
    /\ \A n \in asked : assertSafeProbeUrl(hops[n].target, hops[n].records) /\ (0 .. n) \subseteq asked
    /\ \A n \in asked : n > 0 => hops[n - 1].answer = "moved"

\* A check is unknown only when the website's own URL is refused; it is down unless the
\* chain comes, within five redirects and over safe targets only, to an answer below 400:
\* a name that resolves before the call and not in it is a hard failure.
StatusIsOfTheChain ==
  \A hops \in HopChain, before \in Lookup, ms \in {0, SlowThresholdMs} :
    LET status == DeriveCheckStatus(runProbes(before, hops, ms))
        Safe(n) == assertSafeProbeUrl(hops[n].target, hops[n].records)
        arrives == \E n \in 0 .. MaxRedirects :
                     /\ \A k \in 0 .. n : Safe(k) /\ (k < n => hops[k].answer = "moved")
                     /\ hops[n].answer \in {"success", "other3xx"} IN
    /\ status = "unknown" <=> ~assertSafeProbeUrl(hops[0].target, before)
    /\ status # "unknown" => (status = "down" <=> ~arrives)
    /\ status = "warning" => ms >= SlowThresholdMs

\* What the API accepts the worker measures: a website that was saved is never checked as
\* "unknown" while its name resolves as it did; and nothing it refuses is measured.
AcceptedIsMeasured ==
  \A target \in Target, records \in Lookup, answer \in HopAnswer :
    LET hops == [k \in 0 .. MaxRedirects |-> [target |-> target, records |-> records, answer |-> answer]] IN
    assertSafeMonitoringUrl(target, records) <=> DeriveCheckStatus(runProbes(records, hops, 0)) # "unknown"

\* The retry after a flood answer never sends a message twice: it goes out at most once
\* per call, at most two POSTs are made, the wait is what Telegram asked for up to a
\* minute; and a call that ends well has sent exactly one message.
BackoffSendsOnce ==
  \A first, second \in TelegramAnswer :
    LET call == sendTelegramWithBackoff(first, second)
        out == {i \in DOMAIN call.posts : call.posts[i].accepted} IN
    /\ Cardinality(out) =< 1 /\ Len(call.posts) =< 2
    /\ Len(call.posts) = 2 => call.waited > 0 /\ call.waited =< 60
    /\ Len(call.posts) = 2 /\ first.retry_after \in 1 .. 60 => call.waited = first.retry_after
    /\ call.posts[Len(call.posts)].kind = "ok" => Cardinality(out) = 1
=============================================================================
