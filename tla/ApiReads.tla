------------------------------ MODULE ApiReads ------------------------------
(***************************************************************************)
(* GET and other requests of one tab through apiFetch: answers are kept in *)
(* memory under the access token and in sessionStorage under the path      *)
(* alone, requests for the same thing are shared, and every other request  *)
(* clears all of it.  There is one path, since nothing crosses paths; the  *)
(* server's data is the number of edits applied to it.  Access tokens are  *)
(* numbered as the tab stores them, 0 is "none".                           *)
(***************************************************************************)
EXTENDS Naturals, FiniteSets

CONSTANTS Account, Flight, \* users; slots for requests that are on their way
          NoFlight, NoEntry,
          MaxTokens, MaxCalls

ReadsAssumption ==
  /\ MaxTokens \in Nat \ {0} /\ MaxCalls \in Nat \ {0} /\ Flight # {}
  /\ NoFlight \notin Flight

VARIABLES
  token, given, owner, \* the tab's token, the tokens it was given so far, the account of each token
  memory, persisted,\* getCache, and the copy in sessionStorage
  pending,          \* getRequests: the flight of each token's GET
  flight,           \* GETs; current as long as cacheGeneration is the one they began with
  call,             \* requests that are not GETs
  data,             \* the number of edits the server has applied
  known,            \* history: that number when the last answer to an edit was sent
  raced,            \* history: a current GET was served before an edit that was on its way
  swapped,          \* history: a refresh brought the token of another account
  outdated          \* history: a page was given an answer older than what it counted on

vars == <<token, given, owner, memory, persisted, pending, flight, call, data, known, raced, swapped, outdated>>

Token == 1 .. MaxTokens
Calls == 1 .. MaxCalls
Entry == [version : 0 .. MaxCalls, of : Account, fresh : BOOLEAN]
Idle == [step |-> "none"]
FlightRecord ==
  [step : {"out", "back"}, attempt : {1, 2}, token : Token, current : BOOLEAN, asked : 0 .. MaxCalls,
   fallback : Entry \cup {NoEntry}, version : 0 .. MaxCalls, of : Account]
CallRecord ==
  [kind : {"none", "edit", "login", "logout"}, step : {"none", "out", "back", "done"}, version : 0 .. MaxCalls]

TypeOK ==
  /\ given \in Token /\ token \in 0 .. given /\ owner \in [Token -> Account]
  /\ memory \in [Token -> Entry \cup {NoEntry}] /\ persisted \in Entry \cup {NoEntry}
  /\ pending \in [Token -> Flight \cup {NoFlight}]
  /\ flight \in [Flight -> FlightRecord \cup {Idle}] /\ call \in [Calls -> CallRecord]
  /\ data \in 0 .. MaxCalls /\ known \in 0 .. data

Init ==
  /\ token = 1 /\ given = 1 /\ \E a \in Account : owner = [t \in Token |-> a]
  /\ memory = [t \in Token |-> NoEntry] /\ persisted = NoEntry
  /\ pending = [t \in Token |-> NoFlight] /\ flight = [f \in Flight |-> Idle]
  /\ call = [i \in Calls |-> [kind |-> "none", step |-> "none", version |-> 0]]
  /\ data = 0 /\ known = 0 /\ raced = FALSE /\ swapped = FALSE
  /\ outdated = FALSE
-----------------------------------------------------------------------------
(* The cache. *)

clearApiCache ==
  /\ flight' = [f \in Flight |-> IF flight[f] = Idle THEN Idle ELSE [flight[f] EXCEPT !.current = FALSE]]
  /\ raced' = FALSE
  /\ memory' = [t \in Token |-> NoEntry] /\ pending' = [t \in Token |-> NoFlight]
  /\ persisted' = NoEntry

\* The edits that a page counts on when it asks.
Confirmed == IF raced THEN 0 ELSE known
Answer(version, asked) == outdated' = (outdated \/ version < asked)
Fresh(e) == e # NoEntry /\ e.fresh

\* Time passes: entries expire, and 60 seconds later they are of no use at all.
Age(e) == IF Fresh(e) THEN [e EXCEPT !.fresh = FALSE] ELSE NoEntry
Expire ==
  /\ memory' = [t \in Token |-> Age(memory[t])] /\ persisted' = Age(persisted)
  /\ UNCHANGED <<token, given, owner, pending, flight, call, data, known, raced, swapped, outdated>>
-----------------------------------------------------------------------------
(* GET. *)

GetFromMemory ==
  /\ token # 0 /\ Fresh(memory[token]) /\ Answer(memory[token].version, Confirmed)
  /\ UNCHANGED <<token, given, owner, memory, persisted, pending, flight, call, data, known, raced, swapped>>

GetFromSession ==
  /\ token # 0 /\ ~Fresh(memory[token]) /\ Fresh(persisted) /\ Answer(persisted.version, Confirmed)
  /\ memory' = [memory EXCEPT ![token] = persisted]
  /\ UNCHANGED <<token, given, owner, persisted, pending, flight, call, data, known, raced, swapped>>

\* A GET that is answered neither by a cache nor by a request on its way.  (A page that
\* joins a request gets its answer; it is not modelled by itself.)
GetFromServer(f) ==
  /\ token # 0 /\ ~Fresh(memory[token]) /\ ~Fresh(persisted)
  /\ pending[token] = NoFlight /\ flight[f] = Idle
  /\ flight' = [flight EXCEPT ![f] =
       [step |-> "out", attempt |-> 1, token |-> token, current |-> TRUE, asked |-> Confirmed,
        fallback |-> IF memory[token] # NoEntry THEN memory[token] ELSE persisted,
        version |-> 0, of |-> owner[token]]]
  /\ pending' = [pending EXCEPT ![token] = f]
  /\ memory' = [memory EXCEPT ![token] = NoEntry] /\ persisted' = NoEntry
  /\ UNCHANGED <<token, given, owner, call, data, known, raced, swapped, outdated>>

\* The server answers with the data of the account whose token it saw: the one the
\* request left with or, after a 401 and a refresh, the tab's token of now.
ServeGet(f) ==
  /\ flight[f].step = "out"
  /\ \E t \in {flight[f].token, token} \ {0} :
       flight' = [flight EXCEPT ![f].step = "back", ![f].version = data, ![f].of = owner[t]]
  /\ raced' = (raced \/ (flight[f].current /\ \E i \in Calls : call[i].kind = "edit" /\ call[i].step = "out"))
  /\ UNCHANGED <<token, given, owner, memory, persisted, pending, call, data, known, swapped, outdated>>

DeleteAny(f) == pending' = [pending EXCEPT ![flight[f].token] = NoFlight] \* mutant
Forget(f) ==
  pending' = [pending EXCEPT ![flight[f].token] = IF @ = f THEN NoFlight ELSE @]

KeepAlways(f) == TRUE \* mutant: an answer from before a clear is kept
MayKeep(f) == flight[f].current

AnswerGet(f) ==
  LET entry == [version |-> flight[f].version, of |-> flight[f].of, fresh |-> TRUE] IN
  /\ flight[f].step = "back" /\ flight' = [flight EXCEPT ![f] = Idle]
  /\ IF MayKeep(f) THEN memory' = [memory EXCEPT ![flight[f].token] = entry] /\ persisted' = entry
     ELSE UNCHANGED <<memory, persisted>>
  /\ Forget(f) /\ Answer(flight[f].version, flight[f].asked)
  /\ UNCHANGED <<token, given, owner, call, data, known, raced, swapped>>

shouldRetryGet(f) == flight[f].attempt = 1

\* A timeout, a lost connection or a 5xx: a second attempt, then an old answer if
\* there is one.
FailGet(f) ==
  /\ flight[f].step # "none"
  /\ IF shouldRetryGet(f)
       THEN /\ flight' = [flight EXCEPT ![f].attempt = @ + 1, ![f].step = "out"] /\ UNCHANGED <<pending, outdated>>
       ELSE /\ flight' = [flight EXCEPT ![f] = Idle] /\ Forget(f)
            /\ IF flight[f].fallback # NoEntry THEN Answer(flight[f].fallback.version, flight[f].asked)
               ELSE UNCHANGED outdated
  /\ UNCHANGED <<token, given, owner, memory, persisted, call, data, known, raced, swapped>>
-----------------------------------------------------------------------------
(* Other requests: edits of the data, login and logout. *)

Begin(i, kind) ==
  /\ call[i].step = "none" /\ \A j \in 1 .. i - 1 : call[j].step # "none"
  /\ kind = "login" \/ token # 0
  /\ call' = [call EXCEPT ![i] = [kind |-> kind, step |-> "out", version |-> 0]]
  /\ clearApiCache
  /\ UNCHANGED <<token, given, owner, data, known, swapped, outdated>>

ServeCall(i) ==
  /\ call[i].step = "out"
  /\ data' = IF call[i].kind = "edit" THEN data + 1 ELSE data
  /\ call' = [call EXCEPT ![i].step = "back", ![i].version = data']
  /\ UNCHANGED <<token, given, owner, memory, persisted, pending, flight, known, raced, swapped, outdated>>

AnswerEdit(i) ==
  /\ call[i].step = "back" /\ call[i].kind = "edit"
  /\ call' = [call EXCEPT ![i].step = "done"]
  /\ known' = IF call[i].version > known THEN call[i].version ELSE known
  /\ UNCHANGED <<token, given, owner, memory, persisted, pending, flight, data, raced, swapped, outdated>>

\* Mutant: the answer of a login replaces the token only.
TokenOnly(i) ==
  /\ call[i].step = "back" /\ call[i].kind = "login" /\ given < MaxTokens
  /\ given' = given + 1 /\ token' = given' /\ \E a \in Account : owner' = [owner EXCEPT ![given'] = a]
  /\ call' = [call EXCEPT ![i].step = "done"]
  /\ UNCHANGED <<memory, persisted, pending, raced, flight, data, known, swapped, outdated>>

AnswerLogin(i) ==
  /\ call[i].step = "back" /\ call[i].kind = "login" /\ given < MaxTokens
  /\ given' = given + 1 /\ token' = given' /\ \E a \in Account : owner' = [owner EXCEPT ![given'] = a]
  /\ call' = [call EXCEPT ![i].step = "done"]
  /\ clearApiCache
  /\ UNCHANGED <<data, known, swapped, outdated>>

\* A logout that fails ends here as well.
EndLogout(i) ==
  /\ call[i].step \in {"out", "back"} /\ call[i].kind = "logout"
  /\ call' = [call EXCEPT ![i].step = "done"]
  /\ token' = 0 /\ clearApiCache
  /\ UNCHANGED <<given, owner, data, known, swapped, outdated>>

\* Mutant: other requests are tried twice as well.
TryAgain(i) ==
  /\ call[i].step \in {"out", "back"} /\ call[i].kind # "logout"
  /\ call' = [call EXCEPT ![i].step = IF call[i].step = "back" /\ data < MaxCalls THEN "out" ELSE "done"]
  /\ UNCHANGED <<token, given, owner, memory, persisted, pending, flight, data, known, raced, swapped, outdated>>

\* A request that is not a GET is never repeated; it may have been served.
FailCall(i) ==
  /\ call[i].step \in {"out", "back"} /\ call[i].kind # "logout"
  /\ call' = [call EXCEPT ![i].step = "done"]
  /\ UNCHANGED <<token, given, owner, memory, persisted, pending, flight, data, known, raced, swapped, outdated>>

\* A refresh, after a 401 of any request: the token of the cookie's account, which
\* another tab may have changed.  The request is sent again; an edit clears again.
Refresh ==
  /\ token # 0 /\ given < MaxTokens
  /\ given' = given + 1 /\ token' = given'
  /\ \E a \in Account :
       /\ owner' = [owner EXCEPT ![given'] = a]
       /\ swapped' = (swapped \/ a # owner[token])
  /\ \/ UNCHANGED <<memory, persisted, pending, flight, raced>>
     \/ (\E i \in Calls : call[i].kind = "edit" /\ call[i].step = "out") /\ clearApiCache
  /\ UNCHANGED <<call, data, known, outdated>>

\* A refresh that the server refuses.
EndSession ==
  /\ token # 0 /\ token' = 0 /\ clearApiCache
  /\ UNCHANGED <<given, owner, call, data, known, swapped, outdated>>
-----------------------------------------------------------------------------
Next ==
  \/ Expire \/ GetFromMemory \/ GetFromSession
  \/ \E f \in Flight : GetFromServer(f) \/ ServeGet(f) \/ AnswerGet(f) \/ FailGet(f)
  \/ \E i \in Calls :
       \/ \E kind \in {"edit", "login", "logout"} : Begin(i, kind)
       \/ ServeCall(i) \/ AnswerEdit(i) \/ AnswerLogin(i) \/ EndLogout(i) \/ FailCall(i)
  \/ Refresh \/ EndSession

Spec == Init /\ [][Next]_vars
-----------------------------------------------------------------------------
(* Properties. *)

\* An answer is never older than the last edit that was confirmed to this tab before
\* it asked -- not from a cache, not from a shared request, not as a fallback after
\* failures -- unless a GET was served while an edit was on its way: such an answer
\* is kept, and read after the edit.
ReadsSeeOwnEdits == ~outdated

\* Whatever the caches hold was read by the account they would be shown to, also
\* after logins and logouts with requests on their way.
CacheIsOwn ==
  swapped \/
    /\ \A t \in Token : memory[t] # NoEntry => memory[t].of = owner[t]
    /\ token # 0 /\ persisted # NoEntry => persisted.of = owner[token]

\* Pages that ask for the same thing at the same time cost one request, however
\* requests and clears overlap.
OneFlightPerToken ==
  \A f, g \in Flight :
    /\ flight[f].step # "none" /\ flight[g].step # "none"
    /\ flight[f].current /\ flight[g].current
    /\ flight[f].token = flight[g].token
    => f = g

\* However answers are lost, an edit is applied at most once.
EditsApplyOnce == data <= Cardinality({i \in Calls : call[i].kind = "edit"})
=============================================================================
