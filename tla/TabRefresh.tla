----------------------------- MODULE TabRefresh -----------------------------
(***************************************************************************)
(* The tabs of one browser sharing a sign-in: an HttpOnly cookie with the  *)
(* refresh token, localStorage, and a Web Lock or (without Web Locks) a    *)
(* lease in localStorage.  Tokens are numbered as they are issued: n is    *)
(* the n-th refresh token together with the access token that came with    *)
(* it, 0 is "none".  Each session has one refresh token that the server    *)
(* accepts (see AuthSessions).                                             *)
(***************************************************************************)
EXTENDS Naturals, FiniteSets

CONSTANTS Tab, NoTab, MaxToken, MaxFaults

TabsAssumption == MaxToken \in Nat \ {0} /\ MaxFaults \in Nat /\ IsFiniteSet(Tab) /\ NoTab \notin Tab

Token == 1 .. MaxToken
Stored == 0 .. MaxToken
Slot == Tab \X {"refresh", "act"} \* each tab: one refresh, one action of refreshUser or the user

VARIABLES
  live, expired, \* refresh tokens accepted, access tokens refused by the server
  issued, ghost, \* number of tokens; cookies of requests whose tab gave up
  cookie, shared, own, \* the cookie, the access token in localStorage and in each sessionStorage
  hasLocks,      \* whether the browser has Web Locks
  holder, lease, \* the tab inside the Web Lock, the owner of the lease
  at, initial,   \* position of each tab's refresh, its initialToken
  why,           \* who waits for it: a page, refreshUser ("identity") or logout
  mail,          \* events delivered to a waiting tab and not handled yet
  act,           \* what a tab does beside its refresh
  sent,          \* requests on the network
  faults,        \* lost requests and closed tabs so far
  broken,        \* history: the latest token of a session never arrived
  signedOut,     \* history: tabs that were told their session is over
  crossed,       \* history: a logout, or requests that met in a way no lock excludes
  over           \* history: a logout has met no other request

server == <<live, expired, issued, ghost>>
locking == <<hasLocks, holder, lease>>
history == <<broken, signedOut, crossed, over>>
vars == <<server, cookie, shared, own, locking, at, initial, why, mail, act, sent, faults, history>>

NotSent == [kind |-> "none", cookie |-> 0, step |-> "none", answer |-> 0]
Request ==
  [kind : {"none", "refresh", "login", "logout"}, cookie : Stored, step : {"none", "out", "back"}, answer : Stored]

TypeOK ==
  /\ live \subseteq Token /\ expired \subseteq Token /\ issued \in Stored /\ ghost \subseteq Token
  /\ cookie \in Stored /\ shared \in Stored /\ own \in [Tab -> Stored]
  /\ hasLocks \in BOOLEAN /\ holder \in Tab \cup {NoTab} /\ lease \in Tab \cup {NoTab}
  /\ at \in [Tab -> {"idle", "lease", "refresh", "missed", "waiting", "retry"}]
  /\ initial \in [Tab -> Stored] /\ why \in [Tab -> {"page", "identity", "logout"}]
  /\ mail \in [Tab -> SUBSET {"success", "unauthorized", "network", "token"}]
  /\ act \in [Tab -> {"idle", "bootstrap", "login", "logout"}]
  /\ sent \in [Slot -> Request]
  /\ faults \in 0 .. MaxFaults
  /\ signedOut \subseteq Tab /\ broken \in BOOLEAN /\ crossed \in BOOLEAN /\ over \in BOOLEAN

\* No session, or one sign-in that some tabs have a copy of.
Init ==
  /\ \E n \in {0, 1} :
       /\ live = 1 .. n /\ issued = n /\ cookie = n
       /\ shared \in {0, n} /\ own \in [Tab -> {0, shared}]
  /\ expired = {} /\ ghost = {}
  /\ hasLocks \in BOOLEAN /\ holder = NoTab /\ lease = NoTab
  /\ at = [t \in Tab |-> "idle"] /\ initial = [t \in Tab |-> 0] /\ why = [t \in Tab |-> "page"]
  /\ mail = [t \in Tab |-> {}] /\ act = [t \in Tab |-> "idle"]
  /\ sent = [k \in Slot |-> NotSent] /\ faults = 0
  /\ signedOut = {} /\ broken = FALSE /\ crossed = FALSE /\ over = FALSE
-----------------------------------------------------------------------------
(* Storage and network.                                                    *)

\* readStorage: a token in sessionStorage is copied over the shared one.
Access(t) == IF own[t] # 0 THEN own[t] ELSE shared
Refused(n) == n = 0 \/ n \in expired

\* What the tabs that listen hear of tab t: a message, and the storage event
\* if the shared token became another one.  Removals are not listened to.
Tell(t, value, message) ==
  mail' = [u \in Tab |->
    IF u # t /\ at[u] = "waiting"
      THEN mail[u] \cup message
             \cup (IF value # shared /\ value \notin {0, initial[u]} THEN {"token"} ELSE {})
      ELSE mail[u]]

SetTokens(t, n) == own' = [own EXCEPT ![t] = n] /\ shared' = n
clearAuthStorage(t) == SetTokens(t, 0)

\* The refresh of tab t is over and its locals are gone.
Return(t) ==
  /\ at' = [at EXCEPT ![t] = "idle"]
  /\ initial' = [initial EXCEPT ![t] = 0] /\ why' = [why EXCEPT ![t] = "page"]
\* navigator.locks with ifAvailable.
LockIgnored == TRUE \* mutant: refresh all the same
LockAvailable == holder = NoTab

\* withRefreshCookie.
KeptCookie(k) == cookie \* mutant: only the body carries the new token
NewCookie(k) == sent[k].answer

Busy(k) == sent[k].kind # "none"
Room == issued + Cardinality({ k \in Slot : sent[k].kind \in {"refresh", "login"} /\ sent[k].step = "out" }) < MaxToken
Send(k, kind) == sent' = [sent EXCEPT ![k] = [kind |-> kind, cookie |-> cookie, step |-> "out", answer |-> 0]]
Receive(k) == sent' = [sent EXCEPT ![k] = NotSent]

\* A refresh outside the lock while another one is on its way.
Crosses(slots) == crossed' = (crossed \/ \E k \in slots : sent[k].kind = "refresh")
-----------------------------------------------------------------------------
(* apiFetch, ensureRefresh, coordinateRefresh.                             *)

\* A request whose access token is good: localStorage gets a copy of it.
Touch(t) ==
  /\ own[t] \notin {0, shared} /\ ~Refused(own[t])
  /\ shared' = own[t] /\ Tell(t, own[t], {})
  /\ UNCHANGED <<server, cookie, own, locking, at, initial, why, act, sent, faults, history>>

\* The first 401 of a tab.  Since reading its own token has made the shared one
\* equal, the shortcut for a token that another tab refreshed is never taken.
Coordinate(t, purpose) ==
  /\ at[t] = "idle" /\ Refused(Access(t)) /\ Room
  /\ IF purpose = "logout" THEN act[t] = "idle" /\ act' = [act EXCEPT ![t] = "logout"]
     ELSE (purpose = "identity" => Access(t) # 0) /\ UNCHANGED act
  /\ why' = [why EXCEPT ![t] = purpose]
  /\ initial' = [initial EXCEPT ![t] = Access(t)]
  /\ shared' = Access(t) /\ Tell(t, Access(t), {})
  /\ IF hasLocks /\ LockAvailable
       THEN /\ holder' = t /\ at' = [at EXCEPT ![t] = "refresh"]
            /\ Send(<<t, "refresh">>, "refresh") /\ Crosses(Tab \X {"act"})
       ELSE /\ at' = [at EXCEPT ![t] = IF ~hasLocks /\ lease = NoTab THEN "lease" ELSE "missed"]
            /\ UNCHANGED <<holder, sent, crossed>>
  /\ UNCHANGED <<server, cookie, own, hasLocks, lease, faults, broken, signedOut, over>>

\* The lease was free when this tab read it; another tab may have read the same.
TakeLease(t) ==
  /\ at[t] = "lease" /\ Room
  /\ lease' = t /\ at' = [at EXCEPT ![t] = "refresh"]
  /\ Send(<<t, "refresh">>, "refresh")
  /\ IF \E u \in Tab \ {t} : at[u] = "lease" THEN crossed' = TRUE ELSE Crosses(Tab \X {"act"})
  /\ UNCHANGED <<server, cookie, shared, own, hasLocks, holder, initial, why, mail, act, faults, broken, signedOut, over>>

\* waitForSharedRefresh up to its listeners.
StartWait(t) ==
  /\ at[t] = "missed"
  /\ IF shared \notin {0, initial[t]}
       THEN /\ own' = [own EXCEPT ![t] = shared] /\ at' = [at EXCEPT ![t] = "retry"]
            /\ crossed' = (crossed \/ shared \in expired)
       ELSE at' = [at EXCEPT ![t] = "waiting"] /\ UNCHANGED <<own, crossed>>
  /\ UNCHANGED <<server, cookie, shared, locking, initial, why, mail, act, sent, faults, broken, signedOut, over>>

\* A failed refresh.  A token that another tab has stored meanwhile will do; a
\* logout does not mind and forgets the sign-in locally.
Forget(t, outcome) ==
  /\ Return(t)
  /\ act' = IF why[t] = "logout" THEN [act EXCEPT ![t] = "idle"] ELSE act
  /\ IF why[t] = "logout" \/ outcome = "unauthorized" THEN clearAuthStorage(t) ELSE UNCHANGED <<own, shared>>
  /\ signedOut' = IF outcome = "unauthorized" /\ initial[t] # 0 THEN signedOut \cup {t} ELSE signedOut
  /\ crossed' = (crossed \/ why[t] = "logout")
Adopt(t) ==
  /\ at' = [at EXCEPT ![t] = "retry"]
  /\ own' = [own EXCEPT ![t] = IF shared # 0 THEN shared ELSE @]
  /\ crossed' = (crossed \/ shared \in expired) \* the copy of a token, not a refreshed one
  /\ UNCHANGED <<shared, initial, why, act, signedOut>>
Settle(t, outcome) == IF shared \notin {0, initial[t]} THEN Adopt(t) ELSE Forget(t, outcome)

\* A waiting tab handles one event; a token that is gone again does not count.
Hear(t) ==
  /\ at[t] = "waiting"
  /\ \E m \in mail[t] :
       IF m = "token" /\ shared = 0
         THEN mail' = [mail EXCEPT ![t] = @ \ {m}] /\ UNCHANGED <<at, initial, why, own, shared, act, signedOut, crossed>>
         ELSE /\ mail' = [mail EXCEPT ![t] = {}]
              /\ IF m \in {"success", "token"} THEN Adopt(t) ELSE Settle(t, m)
  /\ UNCHANGED <<server, cookie, locking, sent, faults, broken, over>>

WaitTimeout(t) ==
  /\ at[t] = "waiting" /\ mail' = [mail EXCEPT ![t] = {}] /\ Settle(t, "network")
  /\ UNCHANGED <<server, cookie, locking, sent, faults, broken, over>>

\* The same request with skipRefresh.  refreshUser takes another 401 for the
\* end of the session.
Retry(t) ==
  /\ at[t] = "retry" /\ Return(t)
  /\ IF Refused(Access(t)) /\ why[t] # "page"
       THEN clearAuthStorage(t) /\ UNCHANGED mail
       ELSE shared' = Access(t) /\ Tell(t, Access(t), {}) /\ UNCHANGED own
  /\ signedOut' = IF Refused(Access(t)) /\ why[t] = "identity" THEN signedOut \cup {t} ELSE signedOut
  /\ IF why[t] # "logout" THEN UNCHANGED <<act, sent, crossed>>
     ELSE IF Refused(Access(t)) THEN act' = [act EXCEPT ![t] = "idle"] /\ crossed' = TRUE /\ UNCHANGED sent
     ELSE Send(<<t, "act">>, "logout") /\ UNCHANGED <<act, crossed>>
  /\ UNCHANGED <<server, cookie, locking, faults, broken, over>>

\* The answer of a refresh; the lock or the lease goes with it.
ReleaseNothing(t) == UNCHANGED <<holder, lease>> \* mutant: no finally
Release(t) ==
  /\ holder' = IF holder = t THEN NoTab ELSE holder
  /\ lease' = IF lease = t THEN NoTab ELSE lease
AnswerRefresh(t) ==
  LET k == <<t, "refresh">> IN
  /\ sent[k].step = "back" /\ Receive(k) /\ Release(t)
  /\ IF sent[k].answer # 0
       THEN /\ cookie' = NewCookie(k) /\ SetTokens(t, sent[k].answer)
            /\ Tell(t, sent[k].answer, {"success"})
            /\ at' = [at EXCEPT ![t] = "retry"] /\ UNCHANGED <<initial, why, act, signedOut, crossed>>
       ELSE Tell(t, shared, {"unauthorized"}) /\ Settle(t, "unauthorized") /\ UNCHANGED cookie
  /\ UNCHANGED <<server, hasLocks, faults, broken, over>>
-----------------------------------------------------------------------------
(* refreshUser, login and logout.                                          *)

Act(t, name, kind) ==
  /\ act[t] = "idle" /\ act' = [act EXCEPT ![t] = name]
  /\ Send(<<t, "act">>, kind)
  /\ UNCHANGED <<server, cookie, own, locking, at, initial, why, faults, broken, signedOut, over>>

\* A tab without token asks for a refresh outside the lock.
bootstrap(t) == Access(t) = 0 /\ Room /\ Act(t, "bootstrap", "refresh") /\ Crosses(Slot) /\ UNCHANGED <<shared, mail>>
login(t) == own[t] = 0 /\ Room /\ Act(t, "login", "login") /\ UNCHANGED <<shared, mail, crossed>>
logout(t) == /\ ~Refused(Access(t)) /\ Act(t, "logout", "logout")
             /\ shared' = Access(t) /\ Tell(t, Access(t), {}) /\ UNCHANGED crossed

AnswerAct(t) ==
  LET k == <<t, "act">> IN
  /\ sent[k].step = "back" /\ Receive(k) /\ act' = [act EXCEPT ![t] = "idle"]
  /\ IF sent[k].answer # 0
       THEN /\ cookie' = NewCookie(k) /\ SetTokens(t, sent[k].answer) /\ Tell(t, sent[k].answer, {})
            /\ UNCHANGED signedOut
       ELSE /\ cookie' = IF act[t] = "logout" THEN 0 ELSE cookie
            /\ clearAuthStorage(t) /\ UNCHANGED mail
            /\ signedOut' = IF act[t] = "bootstrap" /\ sent[k].cookie # 0 THEN signedOut \cup {t} ELSE signedOut
  /\ UNCHANGED <<server, locking, at, initial, why, faults, broken, crossed, over>>
-----------------------------------------------------------------------------
(* The server, each request at once.                                       *)

Issue(k, ended) ==
  /\ issued' = issued + 1
  /\ live' = (live \ ended) \cup {issued'}
  /\ sent' = [sent EXCEPT ![k].step = "back", ![k].answer = issued']
Refuse(k) == sent' = [sent EXCEPT ![k].step = "back"] /\ UNCHANGED <<issued, live>>

\* What logout ends on the server.
RevokeNothing(k) == {} \* mutant: only the cookie is cleared
Revoked(k) == {sent[k].cookie}

Serve(k) ==
  /\ sent[k].step = "out"
  /\ CASE sent[k].kind = "login" -> Issue(k, {})
       [] sent[k].kind = "refresh" -> IF sent[k].cookie \in live THEN Issue(k, {sent[k].cookie}) ELSE Refuse(k)
       [] OTHER -> /\ live' = live \ Revoked(k)
                   /\ sent' = [sent EXCEPT ![k].step = "back"] /\ UNCHANGED issued
  /\ over' = CASE sent[k].kind = "login" -> FALSE
               [] sent[k].kind = "logout" -> ghost = {} /\ sent[k].cookie = cookie /\ \A j \in Slot \ {k} : ~Busy(j)
               [] OTHER -> over
  /\ crossed' = (crossed \/ sent[k].kind = "logout")
  /\ UNCHANGED <<expired, ghost, cookie, shared, own, locking, at, initial, why, mail, act, faults, broken, signedOut>>

ServeGhost ==
  \E n \in ghost :
    /\ ghost' = ghost \ {n} /\ live' = live \ {n}
    /\ broken' = (broken \/ n \in live)
    /\ UNCHANGED <<expired, issued, cookie, shared, own, locking, at, initial, why, mail, act, sent, faults,
                    signedOut, crossed, over>>

\* Access tokens last 15 minutes, a refresh with all its waiters some seconds.
Expire ==
  /\ \A t \in Tab : at[t] = "idle" /\ act[t] = "idle"
  /\ \E n \in 1 .. issued : n \notin expired /\ expired' = expired \cup {n}
  /\ UNCHANGED <<live, issued, ghost, cookie, shared, own, locking, at, initial, why, mail, act, sent, faults, history>>
-----------------------------------------------------------------------------
(* Faults.                                                                 *)

Fault == faults < MaxFaults /\ faults' = faults + 1

\* The requests in slots are given up, save that the browser took `arrived` from
\* an answer as its cookie.  What is still on its way may reach the server.
Drop(slots, arrived) ==
  LET changes(k) == sent[k].kind # "login" /\ sent[k].cookie # 0 IN
  /\ ghost' = ghost \cup { sent[k].cookie : k \in { j \in slots : sent[j].step = "out" /\ changes(j) } }
  /\ broken' = (broken \/ \E k \in slots :
       /\ sent[k].step = "back" /\ changes(k) /\ sent[k].answer \notin arrived
       /\ sent[k].answer # 0 \/ sent[k].kind = "logout")

\* A network error or the timeout of 10 seconds.  The request may still reach the
\* server, the answer's cookie may have arrived without its body.
Lose(t, k) ==
  /\ Fault /\ Busy(k) /\ k[1] = t /\ Receive(k)
  /\ \/ cookie' = cookie /\ Drop({k}, {})
     \/ sent[k].answer # 0 /\ cookie' = sent[k].answer /\ Drop({k}, {cookie'})
  /\ IF k[2] = "refresh"
       THEN Tell(t, shared, {"network"}) /\ Release(t) /\ Settle(t, "network")
       ELSE /\ act' = [act EXCEPT ![t] = "idle"]
            /\ IF act[t] = "logout" THEN clearAuthStorage(t) ELSE UNCHANGED <<own, shared>>
            /\ crossed' = (crossed \/ act[t] = "logout")
            /\ UNCHANGED <<mail, holder, lease, at, initial, why, signedOut>>
  /\ UNCHANGED <<live, expired, issued, hasLocks, over>>

\* The browser frees a closed tab's Web Lock, but the lease must run out.
CloseTab(t) ==
  /\ Fault
  /\ sent' = [k \in Slot |-> IF k[1] = t THEN NotSent ELSE sent[k]]
  /\ Drop({t} \X {"refresh", "act"}, {})
  /\ own' = [own EXCEPT ![t] = 0] /\ Return(t) /\ act' = [act EXCEPT ![t] = "idle"]
  /\ mail' = [mail EXCEPT ![t] = {}] /\ holder' = IF holder = t THEN NoTab ELSE holder
  /\ UNCHANGED <<live, expired, issued, cookie, shared, hasLocks, lease, signedOut, crossed, over>>

ExpireLease ==
  /\ lease # NoTab /\ at[lease] # "refresh" /\ lease' = NoTab
  /\ UNCHANGED <<server, cookie, shared, own, hasLocks, holder, at, initial, why, mail, act, sent, faults, history>>
-----------------------------------------------------------------------------
Proceed(t) ==
  \/ TakeLease(t) \/ StartWait(t) \/ Hear(t) \/ WaitTimeout(t) \/ Retry(t)
  \/ AnswerRefresh(t) \/ AnswerAct(t)
  \/ \E k \in {t} \X {"refresh", "act"} : Serve(k)

Next ==
  \/ \E t \in Tab :
       \/ Proceed(t)
       \/ Touch(t) \/ \E purpose \in {"page", "identity", "logout"} : Coordinate(t, purpose)
       \/ bootstrap(t) \/ login(t) \/ logout(t)
       \/ \E k \in Slot : Lose(t, k)
       \/ CloseTab(t)
  \/ ServeGhost \/ Expire \/ ExpireLease

Spec == Init /\ [][Next]_vars
-----------------------------------------------------------------------------
\* Where behaviours are cut off: a broken session, a tab that was told of its end, and
\* more than one activity of a tab.
Followed ==
  /\ signedOut = {} /\ ~broken
  /\ \A t \in Tab : at[t] = "idle" \/ act[t] = "idle" \/ why[t] = "logout"
-----------------------------------------------------------------------------
(* Properties.                                                             *)

\* A tab is told that its session is over only if a new token never arrived, after
\* a logout, or when refreshes met outside the lock (a bootstrap, two tabs reading a free
\* lease, a tab that copied its old token to localStorage).  Lost requests and
\* closed tabs alone sign nobody out.
SignOutHasCause == signedOut # {} => broken \/ crossed

\* The browser never loses a session by its own races: as long as every new
\* token arrives, its cookie is accepted or the answer that replaces it is on
\* its way.
CookieIsCurrent ==
  ~broken => cookie \in live \cup {0} \cup { sent[k].cookie : k \in { j \in Slot : sent[j].step = "back" } }

\* No tab leaves the lock or the lease behind, save a closed one its lease.
NoLockLeftBehind ==
  /\ holder # NoTab => at[holder] = "refresh"
  /\ lease # NoTab => at[lease] = "refresh" \/ faults > 0

\* After a logout that met no other request nobody comes back without a login.
LogoutSticks == over => cookie \notin live

=============================================================================
