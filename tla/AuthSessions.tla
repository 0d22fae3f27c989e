---------------------------- MODULE AuthSessions ----------------------------
(***************************************************************************)
(* Sign-in sessions of one account.  A session is a row that stores the    *)
(* hash of its latest refresh token; token n of a session is the n-th that *)
(* was issued for it, so the row accepts exactly the token `current`.      *)
(* Handlers read, check and write in separate steps; the guarded updates   *)
(* (updateMany with the old value in the WHERE clause) are one step each.  *)
(***************************************************************************)
EXTENDS Naturals, FiniteSets

CONSTANTS Session, ResetToken, Handler,
          NoRequest,    \* what an idle handler holds
          MaxRotations, \* bound: refreshes of one session
          MaxResets,    \* bound: passwords set by reset
          ResetLimit    \* RESET_RATE_LIMIT_MAX_REQUESTS

ASSUME BoundsAssumption == MaxRotations \in Nat /\ MaxResets \in Nat /\ ResetLimit \in Nat
ASSUME FiniteAssumption == IsFiniteSet(ResetToken) /\ IsFiniteSet(Handler) /\ Handler # {}

Token == 0 .. MaxRotations

\* What a handler keeps between its read and its write.
Requests ==
  [op : {"issue"}, since : 0 .. MaxResets, crossed : BOOLEAN]
    \cup [op : {"rotate"}, session : Session, token : Token \ {MaxRotations}]
    \cup [op : {"forgot"}]
    \cup [op : {"claim", "commit"}, token : ResetToken]

ASSUME NamesAssumption == NoRequest \notin Requests

VARIABLES
  account, \* isActive, and the number of passwords set by reset so far
  session, \* rows of user_sessions
  reset,   \* rows of password_reset_tokens
  req,     \* the request each handler is in the middle of
  accepted, \* history: how often each token of a session was exchanged
  redeemed \* history: how often each reset token has set a password

vars == <<account, session, reset, req, accepted, redeemed>>

Live(s) == session[s].state = "live"
Idle(h) == req[h] = NoRequest
Begin(h, r) == Idle(h) /\ req' = [req EXCEPT ![h] = r]
Finish(h) == req' = [req EXCEPT ![h] = NoRequest]

Init ==
  /\ account = [active |-> TRUE, resets |-> 0]
  /\ session = [s \in Session |-> [state |-> "none", current |-> 0, since |-> 0, crossed |-> FALSE]]
  /\ reset = [k \in ResetToken |-> [state |-> "none", recent |-> FALSE]]
  /\ req = [h \in Handler |-> NoRequest]
  /\ accepted = [s \in Session |-> [n \in Token |-> 0]]
  /\ redeemed = [k \in ResetToken |-> 0]

TypeOK ==
  /\ account \in [active : BOOLEAN, resets : 0 .. MaxResets]
  /\ session \in [Session -> [state : {"none", "live", "ended"}, current : Token,
                              since : 0 .. MaxResets, crossed : BOOLEAN]]
  /\ reset \in [ResetToken -> [state : {"none", "open", "used", "expired"}, recent : BOOLEAN]]
  /\ req \in [Handler -> Requests \cup {NoRequest}]
  /\ accepted \in [Session -> [Token -> Nat]]
  /\ redeemed \in [ResetToken -> Nat]
-----------------------------------------------------------------------------
(* Sign-in.                                                                *)

\* The password typed is the one of the account at this moment; guest compares
\* the role instead.
login(h) == /\ account.active
            /\ Begin(h, [op |-> "issue", since |-> account.resets, crossed |-> FALSE])
            /\ UNCHANGED <<account, session, reset, accepted, redeemed>>

IssueIn(h, states, current) ==
  /\ ~Idle(h) /\ req[h].op = "issue"
  /\ \E s \in Session :
       /\ session[s].state \in states
       /\ session' = [session EXCEPT ![s] = [state |-> "live", current |-> current, since |-> req[h].since,
                                            crossed |-> req[h].crossed]]
  /\ Finish(h)
  /\ UNCHANGED <<account, reset, accepted, redeemed>>
ReuseSession(h) == IssueIn(h, {"none", "ended"}, 0) \* mutant: takes a revoked row
issueSession(h) == IssueIn(h, {"none"}, 0)

\* A refresh presents some token that was issued once and finds the row that
\* stores its hash.
FindSession(h) ==
  /\ account.active
  /\ \E s \in Session, n \in Token :
       /\ Live(s) /\ session[s].current = n /\ n < MaxRotations
       /\ Begin(h, [op |-> "rotate", session |-> s, token |-> n])
  /\ UNCHANGED <<account, session, reset, accepted, redeemed>>

\* The guarded update; losing it ends in the same 401 as finding no row.
RotateAs(h, matches(_)) ==
  /\ ~Idle(h) /\ req[h].op = "rotate"
  /\ LET s == req[h].session IN
       IF matches(s)
         THEN /\ session' = [session EXCEPT ![s].current = req[h].token + 1]
              /\ accepted' = [accepted EXCEPT ![s][req[h].token] = @ + 1]
         ELSE UNCHANGED <<session, accepted>>
  /\ Finish(h)
  /\ UNCHANGED <<account, reset, redeemed>>
RotateAnyToken(h) == RotateAs(h, Live) \* mutant: no hash in the WHERE clause
RotateRevoked(h) == LET SameToken(s) == session[s].current = req[h].token IN RotateAs(h, SameToken) \* mutant: no revokedAt
RotateSession(h) == LET Unchanged(s) == Live(s) /\ session[s].current = req[h].token IN RotateAs(h, Unchanged)

\* logout revokes the row that stores the presented token, if there is one.
logout(s, n) ==
  /\ Live(s) /\ session[s].current = n
  /\ session' = [session EXCEPT ![s].state = "ended"]
  /\ UNCHANGED <<account, reset, req, accepted, redeemed>>
-----------------------------------------------------------------------------
(* Forgotten passwords.                                                    *)

Recent == { k \in ResetToken : reset[k].recent }

CountUpTo(h, limit) ==
  /\ account.active /\ Cardinality(Recent) < limit
  /\ Begin(h, [op |-> "forgot"])
  /\ UNCHANGED <<account, session, reset, accepted, redeemed>>
CountPastLimit(h) == CountUpTo(h, ResetLimit + 1) \* mutant: > for >=
CountRecent(h) == CountUpTo(h, ResetLimit)

forgotPassword(h) ==
  /\ ~Idle(h) /\ req[h].op = "forgot"
  /\ \E k \in ResetToken :
       /\ reset[k].state = "none"
       /\ reset' = [reset EXCEPT ![k] = [state |-> "open", recent |-> TRUE]]
  /\ Finish(h)
  /\ UNCHANGED <<account, session, accepted, redeemed>>

FindResetToken(h) ==
  /\ \E k \in ResetToken : reset[k].state = "open" /\ Begin(h, [op |-> "claim", token |-> k])
  /\ UNCHANGED <<account, session, reset, accepted, redeemed>>

ClaimIf(h, states) ==
  /\ ~Idle(h) /\ req[h].op = "claim"
  /\ IF reset[req[h].token].state \in states
       THEN /\ reset' = [reset EXCEPT ![req[h].token].state = "used"]
            /\ req' = [req EXCEPT ![h].op = "commit"]
       ELSE Finish(h) /\ UNCHANGED reset
  /\ UNCHANGED <<account, session, accepted, redeemed>>
ClaimAgain(h) == ClaimIf(h, {"open", "expired", "used"}) \* mutant: no usedAt in the WHERE clause
ClaimResetToken(h) == ClaimIf(h, {"open", "expired"})

\* One transaction: the new password, and the end of every session.  Logins
\* that have already compared the old password are marked.
CommitReset(h, ended) ==
  /\ ~Idle(h) /\ req[h].op = "commit" /\ account.resets < MaxResets
  /\ account' = [account EXCEPT !.resets = @ + 1]
  /\ session' = [s \in Session |-> IF s \in ended THEN [session[s] EXCEPT !.state = "ended"] ELSE session[s]]
  /\ redeemed' = [redeemed EXCEPT ![req[h].token] = @ + 1]
  /\ req' = [g \in Handler |->
       IF g = h THEN NoRequest
       ELSE IF ~Idle(g) /\ req[g].op = "issue" THEN [req[g] EXCEPT !.crossed = TRUE] ELSE req[g]]
  /\ UNCHANGED <<reset, accepted>>
ResetPasswordOnly(h) == CommitReset(h, {}) \* mutant: sessions stay
resetPassword(h) == CommitReset(h, { s \in Session : Live(s) })
-----------------------------------------------------------------------------
(* The administrator, the clock and failures.                              *)

\* users.update: neither edit looks at sessions.
updateUser ==
  /\ account' \in [active : BOOLEAN, resets : {account.resets}]
  /\ UNCHANGED <<session, reset, req, accepted, redeemed>>

\* A reset link lasts longer than the window of the limit.
Expire ==
  /\ \/ /\ \E s \in Session : Live(s) /\ session' = [session EXCEPT ![s].state = "ended"]
        /\ UNCHANGED reset
     \/ /\ \E k \in ResetToken \ Recent : reset[k].state = "open" /\ reset' = [reset EXCEPT ![k].state = "expired"]
        /\ UNCHANGED session
     \/ /\ \E k \in Recent : reset' = [reset EXCEPT ![k].recent = FALSE]
        /\ UNCHANGED session
  /\ UNCHANGED <<account, req, accepted, redeemed>>

\* The process dies or the database refuses the next statement.
Fail(h) ==
  /\ ~Idle(h) /\ Finish(h)
  /\ UNCHANGED <<account, session, reset, accepted, redeemed>>

Handle(h) ==
  \/ login(h) \/ issueSession(h)
  \/ FindSession(h) \/ RotateSession(h)
  \/ CountRecent(h) \/ forgotPassword(h)
  \/ FindResetToken(h) \/ ClaimResetToken(h) \/ resetPassword(h)
  \/ Fail(h)

Next ==
  \/ \E h \in Handler : Handle(h)
  \/ \E s \in Session, n \in Token : logout(s, n)
  \/ updateUser \/ Expire

Spec == Init /\ [][Next]_vars
-----------------------------------------------------------------------------
(* Safety.                                                                 *)

\* Refreshes that race for one token (two tabs, a retry of a lost answer) are
\* answered once between them: every token the row has moved past was
\* exchanged exactly once, and no other was.
EachTokenExchangedOnce ==
  \A s \in Session, n \in Token : accepted[s][n] = IF n < session[s].current THEN 1 ELSE 0

\* One reset link sets one password, however many requests carry it.
LinkSetsOnePassword == \A k \in ResetToken : redeemed[k] <= 1

\* After a password reset nobody stays signed in from before it, save for
\* logins that had already compared the old password.
ResetEndsSessions ==
  \A s \in Session : Live(s) => session[s].since = account.resets \/ session[s].crossed

\* Requests for reset links that overlap exceed the limit by no more than
\* the overlap.
ForgotStaysLimited == Cardinality(Recent) <= ResetLimit + Cardinality(Handler) - 1

\* Whatever is handed out to be used once, a refresh token or a reset link, is used once,
\* and a reset outlives neither the sessions before it nor its limit.
UsedOnce ==
  TypeOK /\ EachTokenExchangedOnce /\ LinkSetsOnePassword /\ ResetEndsSessions /\ ForgotStaysLimited
-----------------------------------------------------------------------------
(* Sessions as the chains of tokens that they implement.                   *)

\* A row before it is issued, while it is live, and after.
ChainState(s) ==
  CASE session[s].state = "none" -> "none"
    [] session[s].state = "live" -> "open"
    [] OTHER -> "ended"

Chain == INSTANCE TokenChain WITH
  state <- [s \in Session |-> ChainState(s)],
  exchanged <- accepted

\* Every step of a handler opens, ends, or exchanges the next token of a session, or
\* leaves all sessions as they are.
ImplementsTokenChain == Chain!Spec
=============================================================================
