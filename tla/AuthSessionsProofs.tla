------------------------- MODULE AuthSessionsProofs -------------------------
(* For any sessions, links and handlers: whatever is handed out to be used  *)
(* once is used once.                                                       *)
EXTENDS AuthSessions, FiniteSetTheorems, TLAPS

Busy(h, op) == ~Idle(h) /\ req[h].op = op

SessionRow == [state : {"none", "live", "ended"}, current : Token, since : 0 .. MaxResets, crossed : BOOLEAN]
LinkRow == [state : {"none", "open", "used", "expired"}, recent : BOOLEAN]

\* A row that was never issued is blank, so that its first token is token 0.
FreshRows == \A s \in Session : session[s].state = "none" => session[s].current = 0

\* Sign-ins under way: what was typed is the password of now, or they are marked.
LoginsKnowReset == \A h \in Handler : Busy(h, "issue") => req[h].since = account.resets \/ req[h].crossed

\* A link that is not used has set no password; a used one sets one for whoever claimed it,
\* and one handler claimed it.
LinksClaimed ==
  /\ \A k \in ResetToken : reset[k].state # "used" => redeemed[k] = 0
  /\ \A h \in Handler : Busy(h, "commit") =>
       reset[req[h].token].state = "used" /\ redeemed[req[h].token] = 0
  /\ \A g, h \in Handler : Busy(g, "commit") /\ Busy(h, "commit") /\ g # h => req[g].token # req[h].token

\* The recent links, with those being made, exceed the limit by no more than the overlap.
Forgetting == { h \in Handler : Busy(h, "forgot") }
OverlapBounded ==
  Cardinality(Recent) + Cardinality(Forgetting) <= ResetLimit + Cardinality(Handler) - 1

SessionsKept == FreshRows /\ LoginsKnowReset /\ EachTokenExchangedOnce /\ ResetEndsSessions
LinksKept == LinksClaimed /\ LinkSetsOnePassword
AuthInvariant == TypeOK /\ SessionsKept /\ LinksKept /\ OverlapBounded
-----------------------------------------------------------------------------
(* What handlers hold.                                                      *)

LEMMA Holding ==
  ASSUME TypeOK, NEW h \in Handler, ~Idle(h)
  PROVE  /\ req[h].op \in {"issue", "rotate", "forgot", "claim", "commit"}
         /\ req[h].op = "issue" => req[h] \in [op : {"issue"}, since : 0 .. MaxResets, crossed : BOOLEAN]
         /\ req[h].op = "rotate" => req[h] \in [op : {"rotate"}, session : Session, token : Token \ {MaxRotations}]
         /\ req[h].op \in {"claim", "commit"} => req[h] \in [op : {"claim", "commit"}, token : ResetToken]
<1>1. req[h] \in Requests BY DEF TypeOK, Idle
<1> QED BY <1>1 DEF Requests

\* Beginning and finishing touch no other handler.
LEMMA Begun ==
  ASSUME TypeOK, NEW h \in Handler, NEW r \in Requests, Begin(h, r)
  PROVE  /\ req' \in [Handler -> Requests \cup {NoRequest}]
         /\ req'[h] = r /\ ~Idle(h)'
         /\ \A g \in Handler \ {h} : req'[g] = req[g]
BY NamesAssumption DEF Begin, TypeOK, Idle

LEMMA Finished ==
  ASSUME TypeOK, NEW h \in Handler, Finish(h)
  PROVE  /\ req' \in [Handler -> Requests \cup {NoRequest}]
         /\ Idle(h)'
         /\ \A g \in Handler \ {h} : req'[g] = req[g]
BY DEF Finish, TypeOK, Idle

\* The rotation, spelled out: it moves the row on when the row is live and still stores
\* the token that was presented, and changes nothing otherwise.
LEMMA Rotation ==
  ASSUME NEW h \in Handler, RotateSession(h)
  PROVE  /\ Busy(h, "rotate") /\ Finish(h) /\ UNCHANGED <<account, reset, redeemed>>
         /\ \/ UNCHANGED <<session, accepted>>
            \/ /\ Live(req[h].session) /\ session[req[h].session].current = req[h].token
               /\ session' = [session EXCEPT ![req[h].session].current = req[h].token + 1]
               /\ accepted' = [accepted EXCEPT ![req[h].session][req[h].token] = @ + 1]
BY DEF RotateSession, RotateAs, Busy

\* What a handler was doing it does still, or has finished, save for a claim.
Continues(g) == ~Idle(g)' => ~Idle(g) /\ req'[g].op = req[g].op

LEMMA Committed ==
  ASSUME TypeOK, NEW h \in Handler, resetPassword(h)
  PROVE  /\ req' \in [Handler -> Requests \cup {NoRequest}]
         /\ Busy(h, "commit") /\ Idle(h)'
         /\ \A g \in Handler : Busy(g, "issue")' => req'[g].crossed
         /\ \A g \in Handler : Continues(g)
         /\ \A g \in Handler \ {h} : ~Busy(g, "issue") => req'[g] = req[g]
<1>1. \A g \in Handler \ {h} : Busy(g, "issue") => req'[g] = [req[g] EXCEPT !.crossed = TRUE]
  BY DEF resetPassword, CommitReset, Busy
<1>2. \A g \in Handler \ {h} : ~Busy(g, "issue") => req'[g] = req[g]
  BY DEF resetPassword, CommitReset, Busy
<1>3. req'[h] = NoRequest BY DEF resetPassword, CommitReset
<1>4. ASSUME NEW g \in Handler \ {h}, Busy(g, "issue")
      PROVE req'[g] \in [op : {"issue"}, since : 0 .. MaxResets, crossed : BOOLEAN] /\ req'[g].crossed
  BY <1>1, <1>4, Holding DEF Busy
<1>5. ASSUME NEW g \in Handler PROVE req'[g] \in Requests \cup {NoRequest}
  <2>1. CASE g = h BY <1>3, <2>1
  <2>2. CASE g # h /\ Busy(g, "issue") BY <1>4, <2>2 DEF Requests
  <2>3. CASE g # h /\ ~Busy(g, "issue") BY <1>2, <2>3 DEF TypeOK
  <2> QED BY <2>1, <2>2, <2>3
<1>6. req' \in [Handler -> Requests \cup {NoRequest}]
  BY <1>5 DEF resetPassword, CommitReset
<1>7. Idle(h)' /\ Busy(h, "commit") BY <1>3 DEF Idle, resetPassword, CommitReset, Busy
<1>8. ASSUME NEW g \in Handler PROVE Continues(g) /\ (Busy(g, "issue")' => req'[g].crossed)
  <2>1. CASE g = h BY <1>7, <2>1 DEF Continues, Busy
  <2>2. CASE g # h /\ Busy(g, "issue") BY <1>4, <2>2 DEF Continues, Busy
  <2>3. CASE g # h /\ ~Busy(g, "issue") BY <1>2, <2>3 DEF Continues, Busy, Idle
  <2> QED BY <2>1, <2>2, <2>3
<1> QED BY <1>2, <1>6, <1>7, <1>8
-----------------------------------------------------------------------------
(* Types.                                                                   *)

LEMMA HandlersTyped ==
  ASSUME TypeOK, NEW h \in Handler, Handle(h)
  PROVE  TypeOK'
<1> USE BoundsAssumption
<1>1. CASE login(h)
  <2>1. [op |-> "issue", since |-> account.resets, crossed |-> FALSE] \in Requests BY DEF TypeOK, Requests
  <2> QED BY <1>1, <2>1, Begun DEF login, TypeOK
<1>2. CASE issueSession(h)
  <2>1. req[h].since \in 0 .. MaxResets /\ req[h].crossed \in BOOLEAN
    BY <1>2, Holding DEF issueSession, IssueIn
  <2>2. PICK s \in Session : session' = [session EXCEPT ![s] = [state |-> "live", current |-> 0, since |-> req[h].since,
                                                                crossed |-> req[h].crossed]]
    BY <1>2 DEF issueSession, IssueIn
  <2>3. session' \in [Session -> SessionRow]
    BY <2>1, <2>2 DEF TypeOK, SessionRow, Token
  <2> QED BY <1>2, <2>3, Finished DEF issueSession, IssueIn, TypeOK, SessionRow
<1>3. CASE FindSession(h)
  <2>1. PICK s \in Session, n \in Token : n < MaxRotations /\ Begin(h, [op |-> "rotate", session |-> s, token |-> n])
    BY <1>3 DEF FindSession
  <2>2. n # MaxRotations BY <2>1 DEF Token
  <2>3. [op |-> "rotate", session |-> s, token |-> n] \in Requests BY <2>2 DEF Requests
  <2> QED BY <1>3, <2>1, <2>3, Begun DEF FindSession, TypeOK
<1>4. CASE RotateSession(h)
  <2>1. Busy(h, "rotate") /\ Finish(h) /\ UNCHANGED <<account, reset, redeemed>> BY <1>4, Rotation
  <2>2. req[h].session \in Session /\ req[h].token \in Token /\ req[h].token + 1 \in Token
    BY <2>1, Holding DEF Busy, Token
  <2>3. CASE UNCHANGED <<session, accepted>> BY <2>1, <2>3, Finished DEF TypeOK
  <2>4. CASE /\ session' = [session EXCEPT ![req[h].session].current = req[h].token + 1]
             /\ accepted' = [accepted EXCEPT ![req[h].session][req[h].token] = @ + 1]
    <3> DEFINE s == req[h].session
               n == req[h].token
    <3>0. session[s] \in SessionRow /\ session \in [Session -> SessionRow] BY <2>2 DEF TypeOK, SessionRow
    <3>1. session' \in [Session -> SessionRow]
      <4>1. [session[s] EXCEPT !.current = n + 1] \in SessionRow BY <2>2, <3>0 DEF SessionRow
      <4>2. session' = [session EXCEPT ![s] = [session[s] EXCEPT !.current = n + 1]] BY <2>4
      <4> QED BY <3>0, <4>1, <4>2
    <3>2. accepted[s] \in [Token -> Nat] BY <2>2 DEF TypeOK
    <3>3. [accepted[s] EXCEPT ![n] = @ + 1] \in [Token -> Nat] BY <2>2, <3>2
    <3>4. accepted' = [accepted EXCEPT ![s] = [accepted[s] EXCEPT ![n] = @ + 1]] BY <2>4
    <3>5. accepted' \in [Session -> [Token -> Nat]] BY <3>3, <3>4 DEF TypeOK
    <3> QED BY <2>1, <3>1, <3>5, Finished DEF TypeOK, SessionRow
  <2> QED BY <1>4, <2>3, <2>4, Rotation
<1>5. CASE CountRecent(h)
  <2>1. [op |-> "forgot"] \in Requests BY DEF Requests
  <2> QED BY <1>5, <2>1, Begun DEF CountRecent, CountUpTo, TypeOK
<1>6. CASE forgotPassword(h)
  BY <1>6, Finished DEF forgotPassword, TypeOK
<1>7. CASE FindResetToken(h)
  <2>1. \A k \in ResetToken : [op |-> "claim", token |-> k] \in Requests BY DEF Requests
  <2> QED BY <1>7, <2>1, Begun DEF FindResetToken, TypeOK
<1>8. CASE ClaimResetToken(h)
  <2>1. req[h] \in [op : {"claim", "commit"}, token : ResetToken]
    BY <1>8, Holding DEF ClaimResetToken, ClaimIf
  <2>2. CASE Finish(h) /\ UNCHANGED reset
    BY <1>8, <2>2, Finished DEF ClaimResetToken, ClaimIf, TypeOK
  <2>3. CASE req' = [req EXCEPT ![h].op = "commit"] /\ reset' = [reset EXCEPT ![req[h].token].state = "used"]
    <3>1. [req[h] EXCEPT !.op = "commit"] \in Requests BY <2>1 DEF Requests
    <3>2. req' \in [Handler -> Requests \cup {NoRequest}] BY <2>3, <3>1 DEF TypeOK
    <3> QED BY <1>8, <2>1, <2>3, <3>2 DEF ClaimResetToken, ClaimIf, TypeOK
  <2> QED BY <1>8, <2>2, <2>3 DEF ClaimResetToken, ClaimIf
<1>9. CASE resetPassword(h)
  <2>1. req[h].token \in ResetToken BY <1>9, Committed, Holding DEF Busy
  <2>2. account' \in [active : BOOLEAN, resets : 0 .. MaxResets]
    BY <1>9 DEF resetPassword, CommitReset, TypeOK
  <2>3. session' \in [Session -> SessionRow]
    BY <1>9 DEF resetPassword, CommitReset, TypeOK, SessionRow
  <2>4. redeemed' \in [ResetToken -> Nat] BY <1>9, <2>1 DEF resetPassword, CommitReset, TypeOK
  <2> QED BY <1>9, <2>2, <2>3, <2>4, Committed DEF resetPassword, CommitReset, TypeOK, SessionRow
<1>10. CASE Fail(h) BY <1>10, Finished DEF Fail, TypeOK
<1> QED BY <1>1, <1>2, <1>3, <1>4, <1>5, <1>6, <1>7, <1>8, <1>9, <1>10 DEF Handle

\* What lapses: a session, a link, or the time for which a link counts.
LEMMA Expired ==
  ASSUME TypeOK, Expire
  PROVE  /\ UNCHANGED <<account, req, accepted, redeemed>>
         /\ session' \in [Session -> SessionRow]
         /\ reset' \in [ResetToken -> LinkRow]
         /\ \A s \in Session : session'[s] = session[s]
                               \/ (session'[s].current = session[s].current /\ session'[s].state = "ended")
         /\ \A k \in ResetToken : /\ reset'[k].state = reset[k].state \/ (reset[k].state = "open" /\ reset'[k].state = "expired")
                                  /\ reset'[k].recent => reset[k].recent
<1>0. session \in [Session -> SessionRow] /\ reset \in [ResetToken -> LinkRow] BY DEF TypeOK, SessionRow, LinkRow
<1>1. CASE \E s \in Session : Live(s) /\ session' = [session EXCEPT ![s].state = "ended"] /\ UNCHANGED reset
  <2>1. PICK s \in Session : session' = [session EXCEPT ![s].state = "ended"] BY <1>1
  <2>2. session[s] \in SessionRow BY <1>0
  <2>3. [session[s] EXCEPT !.state = "ended"] \in SessionRow BY <2>2 DEF SessionRow
  <2>4. session' \in [Session -> SessionRow] BY <1>0, <2>1, <2>3
  <2>5. session'[s].current = session[s].current /\ session'[s].state = "ended"
    BY <1>0, <2>1, <2>2 DEF SessionRow
  <2>6. \A x \in Session \ {s} : session'[x] = session[x] BY <1>0, <2>1
  <2>7. UNCHANGED <<account, req, accepted, redeemed, reset>> BY <1>1 DEF Expire
  <2>8. \A x \in Session : session'[x] = session[x]
                               \/ (session'[x].current = session[x].current /\ session'[x].state = "ended")
    BY <2>5, <2>6
  <2>9. \A j \in ResetToken : /\ reset'[j].state = reset[j].state \/ (reset[j].state = "open" /\ reset'[j].state = "expired")
                              /\ reset'[j].recent => reset[j].recent
    BY <2>7
  <2> QED BY <1>0, <2>4, <2>7, <2>8, <2>9
<1>2. CASE \E k \in ResetToken : reset[k].state = "open" /\ reset' = [reset EXCEPT ![k].state = "expired"] /\ UNCHANGED session
  <2>1. PICK k \in ResetToken : reset[k].state = "open" /\ reset' = [reset EXCEPT ![k].state = "expired"] BY <1>2
  <2>2. reset[k] \in LinkRow BY <1>0
  <2>3. [reset[k] EXCEPT !.state = "expired"] \in LinkRow BY <2>2 DEF LinkRow
  <2>4. reset' \in [ResetToken -> LinkRow] BY <1>0, <2>1, <2>3
  <2>5. reset'[k].recent = reset[k].recent /\ reset'[k].state = "expired" BY <1>0, <2>1, <2>2 DEF LinkRow
  <2>6. \A j \in ResetToken \ {k} : reset'[j] = reset[j] BY <1>0, <2>1
  <2>7. UNCHANGED <<account, req, accepted, redeemed, session>> BY <1>2 DEF Expire
  <2>8. reset[k].state = "open" BY <2>1
  <2>9. \A x \in Session : session'[x] = session[x]
                               \/ (session'[x].current = session[x].current /\ session'[x].state = "ended")
    BY <2>7
  <2>10. \A j \in ResetToken : /\ reset'[j].state = reset[j].state \/ (reset[j].state = "open" /\ reset'[j].state = "expired")
                               /\ reset'[j].recent => reset[j].recent
    BY <2>5, <2>6, <2>8
  <2> QED BY <1>0, <2>4, <2>7, <2>9, <2>10
<1>3. CASE \E k \in ResetToken : reset' = [reset EXCEPT ![k].recent = FALSE] /\ UNCHANGED session
  <2>1. PICK k \in ResetToken : reset' = [reset EXCEPT ![k].recent = FALSE] BY <1>3
  <2>2. reset[k] \in LinkRow BY <1>0
  <2>3. [reset[k] EXCEPT !.recent = FALSE] \in LinkRow BY <2>2 DEF LinkRow
  <2>4. reset' \in [ResetToken -> LinkRow] BY <1>0, <2>1, <2>3
  <2>5. reset'[k].recent = FALSE /\ reset'[k].state = reset[k].state BY <1>0, <2>1, <2>2 DEF LinkRow
  <2>6. \A j \in ResetToken \ {k} : reset'[j] = reset[j] BY <1>0, <2>1
  <2>7. UNCHANGED <<account, req, accepted, redeemed, session>> BY <1>3 DEF Expire
  <2>8. \A x \in Session : session'[x] = session[x]
                               \/ (session'[x].current = session[x].current /\ session'[x].state = "ended")
    BY <2>7
  <2>9. \A j \in ResetToken : /\ reset'[j].state = reset[j].state \/ (reset[j].state = "open" /\ reset'[j].state = "expired")
                              /\ reset'[j].recent => reset[j].recent
    BY <2>5, <2>6
  <2> QED BY <1>0, <2>4, <2>7, <2>8, <2>9
<1> QED BY <1>1, <1>2, <1>3 DEF Expire, Recent

LEMMA TypesKept == TypeOK /\ [Next]_vars => TypeOK'
<1> SUFFICES ASSUME TypeOK, [Next]_vars PROVE TypeOK' OBVIOUS
<1>1. ASSUME NEW s \in Session, NEW n \in Token, logout(s, n) PROVE TypeOK' BY <1>1 DEF logout, TypeOK
<1>2. CASE updateUser
  <2>1. account' \in [active : BOOLEAN, resets : 0 .. MaxResets] BY <1>2 DEF updateUser, TypeOK
  <2> QED BY <1>2, <2>1 DEF updateUser, TypeOK
<1>3. CASE Expire BY <1>3, Expired DEF TypeOK, SessionRow, LinkRow
<1>4. CASE UNCHANGED vars BY <1>4 DEF vars, TypeOK
<1> QED BY <1>1, <1>2, <1>3, <1>4, HandlersTyped DEF Next
-----------------------------------------------------------------------------
(* Sessions and their tokens.                                               *)

\* The sessions of a step that touches none of them, while the sign-ins under way go on.
LEMMA SessionsUntouched ==
  ASSUME SessionsKept, UNCHANGED <<session, accepted>>, account'.resets = account.resets,
         \A g \in Handler : Busy(g, "issue")' => Busy(g, "issue") /\ req'[g] = req[g]
  PROVE  SessionsKept'
BY DEF SessionsKept, FreshRows, LoginsKnowReset, EachTokenExchangedOnce, ResetEndsSessions, Live

\* The first step of a handler.
LEMMA Beginnings ==
  ASSUME TypeOK, NEW h \in Handler
  PROVE  /\ login(h) => \E r \in Requests : Begin(h, r) /\ r.op = "issue"
         /\ FindSession(h) => \E r \in Requests : Begin(h, r) /\ r.op = "rotate"
         /\ CountRecent(h) => \E r \in Requests : Begin(h, r) /\ r.op = "forgot"
         /\ FindResetToken(h) => \E r \in Requests : Begin(h, r) /\ r.op = "claim"
<1>1. ASSUME login(h) PROVE \E r \in Requests : Begin(h, r) /\ r.op = "issue"
  <2>1. [op |-> "issue", since |-> account.resets, crossed |-> FALSE] \in Requests BY DEF TypeOK, Requests
  <2> QED BY <1>1, <2>1 DEF login
<1>2. ASSUME FindSession(h) PROVE \E r \in Requests : Begin(h, r) /\ r.op = "rotate"
  <2>1. PICK s \in Session, n \in Token : n < MaxRotations /\ Begin(h, [op |-> "rotate", session |-> s, token |-> n])
    BY <1>2 DEF FindSession
  <2>2. n # MaxRotations BY <2>1, BoundsAssumption DEF Token
  <2>3. [op |-> "rotate", session |-> s, token |-> n] \in Requests BY <2>2 DEF Requests
  <2> QED BY <2>1, <2>3
<1>3. ASSUME CountRecent(h) PROVE \E r \in Requests : Begin(h, r) /\ r.op = "forgot"
  <2>1. [op |-> "forgot"] \in Requests BY DEF Requests
  <2> QED BY <1>3, <2>1 DEF CountRecent, CountUpTo
<1>4. ASSUME FindResetToken(h) PROVE \E r \in Requests : Begin(h, r) /\ r.op = "claim"
  <2>1. \A k \in ResetToken : [op |-> "claim", token |-> k] \in Requests BY DEF Requests
  <2> QED BY <1>4, <2>1 DEF FindResetToken
<1> QED BY <1>1, <1>2, <1>3, <1>4

\* Whoever is in the middle of an operation after the step of a handler that does not
\* begin one was in the middle of it before.
LEMMA OthersGoOn ==
  ASSUME TypeOK, NEW h \in Handler, NEW op,
         \/ Finish(h)
         \/ \E r \in Requests : Begin(h, r) /\ r.op # op
         \/ ClaimResetToken(h) /\ op # "commit"
  PROVE  \A g \in Handler : Busy(g, op)' => Busy(g, op) /\ req'[g] = req[g]
<1>1. CASE Finish(h) BY <1>1, Finished DEF Busy, Idle
<1>2. ASSUME NEW r \in Requests, Begin(h, r), r.op # op
      PROVE  \A g \in Handler : Busy(g, op)' => Busy(g, op) /\ req'[g] = req[g]
  BY <1>2, Begun DEF Busy, Idle
<1>3. CASE ClaimResetToken(h) /\ op # "commit"
  <2>1. CASE Finish(h) BY <1>1, <2>1
  <2>2. CASE req' = [req EXCEPT ![h].op = "commit"]
    <3>1. req[h] \in [op : {"claim", "commit"}, token : ResetToken]
      BY <1>3, Holding DEF ClaimResetToken, ClaimIf
    <3>2. req'[h].op = "commit" /\ \A g \in Handler \ {h} : req'[g] = req[g]
      BY <2>2, <3>1 DEF TypeOK
    <3> QED BY <1>3, <3>2 DEF Busy, Idle
  <2> QED BY <1>3, <2>1, <2>2 DEF ClaimResetToken, ClaimIf
<1> QED BY <1>1, <1>2, <1>3

\* A rotation exchanges the one token the row stores and moves the row to the next.
LEMMA RotationKeeps ==
  ASSUME TypeOK, SessionsKept, NEW h \in Handler, RotateSession(h)
  PROVE  SessionsKept'
<1>1. Busy(h, "rotate") /\ Finish(h) /\ UNCHANGED <<account, reset, redeemed>> BY Rotation
<1>2. \A g \in Handler : Busy(g, "issue")' => Busy(g, "issue") /\ req'[g] = req[g] BY <1>1, OthersGoOn
<1>3. CASE UNCHANGED <<session, accepted>> BY <1>1, <1>2, <1>3, SessionsUntouched
<1>4. CASE /\ Live(req[h].session) /\ session[req[h].session].current = req[h].token
           /\ session' = [session EXCEPT ![req[h].session].current = req[h].token + 1]
           /\ accepted' = [accepted EXCEPT ![req[h].session][req[h].token] = @ + 1]
  <2>1. PICK s \in Session, n \in Token : s = req[h].session /\ n = req[h].token
    BY <1>1, Holding DEF Busy
  <2>2. \A x \in Session \ {s} : session'[x] = session[x] /\ accepted'[x] = accepted[x]
    BY <1>4, <2>1 DEF TypeOK
  <2>3. /\ session[s].state = "live" /\ session[s].current = n
        /\ session'[s].state = "live" /\ session'[s].current = n + 1
        /\ session'[s].since = session[s].since /\ session'[s].crossed = session[s].crossed
    BY <1>4, <2>1 DEF TypeOK, Live
  <2>4. accepted'[s] = [accepted[s] EXCEPT ![n] = @ + 1] BY <1>4, <2>1 DEF TypeOK
  <2>5. EachTokenExchangedOnce'
    <3> SUFFICES ASSUME NEW x \in Session, NEW m \in Token
                 PROVE  accepted'[x][m] = IF m < session'[x].current THEN 1 ELSE 0
      BY DEF EachTokenExchangedOnce
    <3>1. CASE x # s BY <2>2, <3>1 DEF SessionsKept, EachTokenExchangedOnce
    <3>2. CASE x = s
      <4>1. accepted[s] \in [Token -> Nat] /\ n \in Nat /\ m \in Nat BY BoundsAssumption DEF TypeOK, Token
      <4>2. accepted[s][m] = IF m < n THEN 1 ELSE 0 BY <2>3 DEF SessionsKept, EachTokenExchangedOnce
      <4>3. accepted'[s][m] = IF m = n THEN accepted[s][n] + 1 ELSE accepted[s][m] BY <2>4, <4>1
      <4>4. m < n + 1 <=> m < n \/ m = n BY <4>1
      <4>5. accepted[s][n] = 0 BY <2>3, <4>1 DEF SessionsKept, EachTokenExchangedOnce
      <4> QED BY <2>3, <3>2, <4>1, <4>2, <4>3, <4>4, <4>5
    <3> QED BY <3>1, <3>2
  <2>6. FreshRows' /\ ResetEndsSessions'
    BY <1>1, <2>2, <2>3 DEF SessionsKept, FreshRows, ResetEndsSessions, Live
  <2>7. LoginsKnowReset' BY <1>1, <1>2 DEF SessionsKept, LoginsKnowReset
  <2> QED BY <2>5, <2>6, <2>7 DEF SessionsKept
<1> QED BY <1>3, <1>4, Rotation

\* Every other step: a session begins blank with what its sign-in knows, and ends.
LEMMA SessionsStayKept == TypeOK /\ SessionsKept /\ [Next]_vars => SessionsKept'
<1> SUFFICES ASSUME TypeOK, SessionsKept, [Next]_vars PROVE SessionsKept' OBVIOUS
<1> USE DEF SessionsKept
<1>1. ASSUME NEW h \in Handler, login(h) PROVE SessionsKept'
  <2>1. [op |-> "issue", since |-> account.resets, crossed |-> FALSE] \in Requests BY DEF TypeOK, Requests
  <2>2. \A g \in Handler : Busy(g, "issue")' => req'[g].since = account.resets \/ req'[g].crossed
    BY <1>1, <2>1, Begun DEF login, LoginsKnowReset, Busy, Idle
  <2> QED BY <1>1, <2>2 DEF login, FreshRows, LoginsKnowReset, EachTokenExchangedOnce, ResetEndsSessions, Live
<1>2. ASSUME NEW h \in Handler, issueSession(h) PROVE SessionsKept'
  <2>1. Busy(h, "issue") /\ Finish(h) /\ UNCHANGED <<account, accepted>> BY <1>2 DEF issueSession, IssueIn, Busy
  <2>2. PICK s \in Session : /\ session[s].state = "none"
                             /\ session' = [session EXCEPT ![s] = [state |-> "live", current |-> 0, since |-> req[h].since,
                                                                   crossed |-> req[h].crossed]]
    BY <1>2 DEF issueSession, IssueIn
  <2>3. /\ session'[s].state = "live" /\ session'[s].current = 0
        /\ session'[s].since = req[h].since /\ session'[s].crossed = req[h].crossed
        /\ \A x \in Session \ {s} : session'[x] = session[x]
    BY <2>2 DEF TypeOK
  <2>4. FreshRows' BY <2>3 DEF FreshRows
  <2>5. EachTokenExchangedOnce'
    <3>1. session[s].current = 0 BY <2>2 DEF FreshRows
    <3>2. \A x \in Session : session'[x].current = session[x].current BY <2>3, <3>1
    <3> QED BY <2>1, <3>2 DEF EachTokenExchangedOnce
  <2>6. ResetEndsSessions' BY <2>1, <2>3 DEF ResetEndsSessions, LoginsKnowReset, Live
  <2>7. LoginsKnowReset' BY <2>1, OthersGoOn DEF LoginsKnowReset
  <2> QED BY <2>4, <2>5, <2>6, <2>7
<1>3. ASSUME NEW h \in Handler, FindSession(h) \/ CountRecent(h) \/ FindResetToken(h) PROVE SessionsKept'
  <2>1. \E r \in Requests : Begin(h, r) /\ r.op # "issue" BY <1>3, Beginnings
  <2>2. \A g \in Handler : Busy(g, "issue")' => Busy(g, "issue") /\ req'[g] = req[g] BY <2>1, OthersGoOn
  <2>3. UNCHANGED <<account, session, accepted>>
    BY <1>3 DEF FindSession, CountRecent, CountUpTo, FindResetToken
  <2> QED BY <2>2, <2>3, SessionsUntouched
<1>4. ASSUME NEW h \in Handler, forgotPassword(h) \/ ClaimResetToken(h) \/ Fail(h) PROVE SessionsKept'
  <2>1. \A g \in Handler : Busy(g, "issue")' => Busy(g, "issue") /\ req'[g] = req[g]
    BY <1>4, OthersGoOn DEF forgotPassword, Fail
  <2>2. UNCHANGED <<account, session, accepted>>
    BY <1>4 DEF forgotPassword, ClaimResetToken, ClaimIf, Fail
  <2> QED BY <2>1, <2>2, SessionsUntouched
<1>5. ASSUME NEW h \in Handler, resetPassword(h) PROVE SessionsKept'
  <2>1. accepted' = accepted BY <1>5 DEF resetPassword, CommitReset
  <2>2. \A s \in Session : IF Live(s) THEN session'[s] = [session[s] EXCEPT !.state = "ended"] ELSE session'[s] = session[s]
    BY <1>5 DEF resetPassword, CommitReset
  <2>3. \A s \in Session : session'[s].current = session[s].current /\ session'[s].state # "live"
                           /\ (session'[s].state = "none" => session[s].state = "none")
    BY <2>2 DEF TypeOK, Live
  <2>4. LoginsKnowReset' BY <1>5, Committed DEF LoginsKnowReset
  <2> QED BY <2>1, <2>3, <2>4 DEF FreshRows, EachTokenExchangedOnce, ResetEndsSessions, Live
<1>6. ASSUME NEW s \in Session, NEW n \in Token, logout(s, n) PROVE SessionsKept'
  <2>1. /\ session'[s].current = session[s].current /\ session'[s].state = "ended"
        /\ \A x \in Session \ {s} : session'[x] = session[x]
    BY <1>6 DEF logout, TypeOK
  <2> QED BY <1>6, <2>1 DEF logout, FreshRows, LoginsKnowReset, EachTokenExchangedOnce, ResetEndsSessions, Live, Busy, Idle
<1>7. CASE updateUser
  <2>1. account'.resets = account.resets BY <1>7 DEF updateUser
  <2> QED BY <1>7, <2>1, SessionsUntouched DEF updateUser, Busy, Idle
<1>8. CASE Expire
  <2>1. \A s \in Session : session'[s] = session[s]
                           \/ (session'[s].current = session[s].current /\ session'[s].state = "ended")
    BY <1>8, Expired
  <2> QED BY <1>8, <2>1 DEF Expire, FreshRows, LoginsKnowReset, EachTokenExchangedOnce, ResetEndsSessions, Live, Busy, Idle
<1>9. CASE UNCHANGED vars BY <1>9, SessionsUntouched DEF vars, Busy, Idle
<1> QED BY <1>1, <1>2, <1>3, <1>4, <1>5, <1>6, <1>7, <1>8, <1>9, RotationKeeps DEF Next, Handle
-----------------------------------------------------------------------------
(* Reset links.                                                             *)

\* A step that leaves links, and who claimed them, as they are, or lets go of claims.
LEMMA LinksUntouched ==
  ASSUME LinksKept, redeemed' = redeemed,
         \A k \in ResetToken : (reset[k].state = "used") <=> (reset'[k].state = "used"),
         \A g \in Handler : Busy(g, "commit")' =>
           Busy(g, "commit") /\ req[g].token \in ResetToken /\ req'[g].token = req[g].token
  PROVE  LinksKept'
<1>1. \A k \in ResetToken : reset'[k].state # "used" => redeemed'[k] = 0 BY DEF LinksKept, LinksClaimed
<1>2. \A h \in Handler : Busy(h, "commit")' => reset'[req'[h].token].state = "used" /\ redeemed'[req'[h].token] = 0
  BY DEF LinksKept, LinksClaimed
<1>3. \A g, h \in Handler : Busy(g, "commit")' /\ Busy(h, "commit")' /\ g # h => req'[g].token # req'[h].token
  BY DEF LinksKept, LinksClaimed
<1>4. LinkSetsOnePassword' BY DEF LinksKept, LinkSetsOnePassword
<1> QED BY <1>1, <1>2, <1>3, <1>4 DEF LinksKept, LinksClaimed

\* The guarded claim: one handler gets a link that nobody claimed before.
LEMMA ClaimKeeps ==
  ASSUME TypeOK, LinksKept, NEW h \in Handler, ClaimResetToken(h)
  PROVE  LinksKept'
<1>1. req[h] \in [op : {"claim", "commit"}, token : ResetToken] /\ Busy(h, "claim")
  BY Holding DEF ClaimResetToken, ClaimIf, Busy
<1>2. redeemed' = redeemed BY DEF ClaimResetToken, ClaimIf
<1>3. CASE Finish(h) /\ UNCHANGED reset
  <2>1. \A g \in Handler : Busy(g, "commit")' => Busy(g, "commit") /\ req'[g].token = req[g].token
    BY <1>3, Finished DEF Busy, Idle
  <2>2. \A g \in Handler : Busy(g, "commit") => req[g].token \in ResetToken BY Holding DEF Busy
  <2> QED BY <1>2, <1>3, <2>1, <2>2, LinksUntouched
<1>4. CASE /\ reset[req[h].token].state \in {"open", "expired"}
           /\ reset' = [reset EXCEPT ![req[h].token].state = "used"]
           /\ req' = [req EXCEPT ![h].op = "commit"]
  <2>1. PICK k \in ResetToken : k = req[h].token BY <1>1
  <2>2. /\ reset[k].state # "used" /\ reset'[k].state = "used"
        /\ \A j \in ResetToken \ {k} : reset'[j] = reset[j]
    BY <1>4, <2>1 DEF TypeOK
  <2>3. req'[h].token = k /\ \A g \in Handler \ {h} : req'[g] = req[g] BY <1>1, <1>4, <2>1 DEF TypeOK
  <2>4. \A g \in Handler \ {h} : Busy(g, "commit")' => Busy(g, "commit") /\ req[g].token \in ResetToken
    BY <2>3, Holding DEF Busy, Idle
  <2>5. \A g \in Handler \ {h} : Busy(g, "commit") => req[g].token # k BY <2>2 DEF LinksKept, LinksClaimed
  <2>6. redeemed[k] = 0 BY <2>2 DEF LinksKept, LinksClaimed
  <2>7. \A j \in ResetToken : reset'[j].state # "used" => redeemed'[j] = 0
    BY <1>2, <2>2 DEF LinksKept, LinksClaimed
  <2>8. ASSUME NEW g \in Handler, Busy(g, "commit")'
        PROVE reset'[req'[g].token].state = "used" /\ redeemed'[req'[g].token] = 0
    <3>1. CASE g = h BY <1>2, <2>2, <2>3, <2>6, <3>1
    <3>2. CASE g # h BY <1>2, <2>2, <2>3, <2>4, <2>5, <2>8, <3>2 DEF LinksKept, LinksClaimed
    <3> QED BY <3>1, <3>2
  <2>9. \A f, g \in Handler : Busy(f, "commit")' /\ Busy(g, "commit")' /\ f # g => req'[f].token # req'[g].token
    BY <2>3, <2>4, <2>5 DEF LinksKept, LinksClaimed
  <2>10. LinkSetsOnePassword' BY <1>2 DEF LinksKept, LinkSetsOnePassword
  <2> QED BY <2>7, <2>8, <2>9, <2>10 DEF LinksKept, LinksClaimed
<1> QED BY <1>3, <1>4 DEF ClaimResetToken, ClaimIf

\* The one handler that claimed the link sets the one password.
LEMMA ResetKeeps ==
  ASSUME TypeOK, LinksKept, NEW h \in Handler, resetPassword(h)
  PROVE  LinksKept'
<1>1. Busy(h, "commit") /\ Idle(h)' BY Committed
<1>2. PICK k \in ResetToken : k = req[h].token BY <1>1, Holding DEF Busy
<1>3. reset' = reset /\ redeemed' = [redeemed EXCEPT ![k] = @ + 1] BY <1>2 DEF resetPassword, CommitReset
<1>4. redeemed[k] = 0 /\ reset[k].state = "used" BY <1>1, <1>2 DEF LinksKept, LinksClaimed
<1>5. redeemed'[k] = 1 /\ \A j \in ResetToken \ {k} : redeemed'[j] = redeemed[j]
  BY <1>3, <1>4 DEF TypeOK
<1>6. ASSUME NEW g \in Handler, Busy(g, "commit")'
      PROVE  g # h /\ Busy(g, "commit") /\ req'[g] = req[g] /\ req[g].token \in ResetToken \ {k}
  <2>1. g # h /\ Busy(g, "commit") BY <1>1, <1>6, Committed DEF Busy, Continues
  <2>2. req'[g] = req[g] BY <2>1, Committed DEF Busy
  <2>3. req[g].token \in ResetToken BY <2>1, Holding DEF Busy
  <2> QED BY <1>1, <1>2, <2>1, <2>2, <2>3 DEF LinksKept, LinksClaimed
<1>7. \A j \in ResetToken : reset'[j].state # "used" => redeemed'[j] = 0
  BY <1>3, <1>4, <1>5 DEF LinksKept, LinksClaimed
<1>8. \A g \in Handler : Busy(g, "commit")' => reset'[req'[g].token].state = "used" /\ redeemed'[req'[g].token] = 0
  BY <1>3, <1>5, <1>6 DEF LinksKept, LinksClaimed
<1>9. \A f, g \in Handler : Busy(f, "commit")' /\ Busy(g, "commit")' /\ f # g => req'[f].token # req'[g].token
  BY <1>6 DEF LinksKept, LinksClaimed
<1>10. LinkSetsOnePassword' BY <1>5 DEF LinksKept, LinkSetsOnePassword
<1> QED BY <1>7, <1>8, <1>9, <1>10 DEF LinksKept, LinksClaimed

LEMMA LinksStayKept == TypeOK /\ LinksKept /\ [Next]_vars => LinksKept'
<1> SUFFICES ASSUME TypeOK, LinksKept, [Next]_vars PROVE LinksKept' OBVIOUS
<1>0. \A g \in Handler : Busy(g, "commit") => req[g].token \in ResetToken BY Holding DEF Busy
<1>1. ASSUME NEW h \in Handler,
             \/ login(h) \/ issueSession(h) \/ FindSession(h) \/ RotateSession(h)
             \/ CountRecent(h) \/ FindResetToken(h) \/ Fail(h)
      PROVE  LinksKept'
  <2>1. Finish(h) \/ \E r \in Requests : Begin(h, r) /\ r.op # "commit"
    BY <1>1, Beginnings, Rotation DEF issueSession, IssueIn, Fail
  <2>2. \A g \in Handler : Busy(g, "commit")' => Busy(g, "commit") /\ req'[g] = req[g]
    BY <2>1, OthersGoOn
  <2>3. UNCHANGED <<reset, redeemed>>
    BY <1>1, Rotation DEF login, issueSession, IssueIn, FindSession, CountRecent, CountUpTo, FindResetToken, Fail
  <2> QED BY <1>0, <2>2, <2>3, LinksUntouched
<1>2. ASSUME NEW h \in Handler, forgotPassword(h) PROVE LinksKept'
  <2>1. PICK k \in ResetToken : /\ reset[k].state = "none"
                                /\ reset' = [reset EXCEPT ![k] = [state |-> "open", recent |-> TRUE]]
    BY <1>2 DEF forgotPassword
  <2>2. \A j \in ResetToken : (reset[j].state = "used") <=> (reset'[j].state = "used") BY <2>1 DEF TypeOK
  <2>3. \A g \in Handler : Busy(g, "commit")' => Busy(g, "commit") /\ req'[g] = req[g]
    BY <1>2, OthersGoOn DEF forgotPassword
  <2>4. redeemed' = redeemed BY <1>2 DEF forgotPassword
  <2> QED BY <1>0, <2>2, <2>3, <2>4, LinksUntouched
<1>3. CASE \/ \E s \in Session, n \in Token : logout(s, n)
           \/ updateUser \/ UNCHANGED vars
  <2>1. UNCHANGED <<req, reset, redeemed>> BY <1>3 DEF logout, updateUser, vars
  <2> QED BY <1>0, <2>1, LinksUntouched DEF Busy, Idle
<1>4. CASE Expire
  <2>1. \A k \in ResetToken : (reset[k].state = "used") <=> (reset'[k].state = "used") BY <1>4, Expired
  <2>2. UNCHANGED <<req, redeemed>> BY <1>4, Expired
  <2> QED BY <1>0, <2>1, <2>2, LinksUntouched DEF Busy, Idle
<1> QED BY <1>1, <1>2, <1>3, <1>4, ClaimKeeps, ResetKeeps DEF Next, Handle
-----------------------------------------------------------------------------
(* The limit of reset links.                                                *)

LEMMA Finite ==
  /\ IsFiniteSet(Recent) /\ Cardinality(Recent) \in Nat
  /\ IsFiniteSet(Forgetting) /\ Cardinality(Forgetting) \in Nat
  /\ Cardinality(Handler) \in Nat
<1>1. IsFiniteSet(Recent) BY FiniteAssumption, FS_Subset DEF Recent
<1>2. IsFiniteSet(Forgetting) BY FiniteAssumption, FS_Subset DEF Forgetting
<1> QED BY <1>1, <1>2, FiniteAssumption, FS_CardinalityType

\* As long as neither set grows the bound holds.
LEMMA OverlapUntouched ==
  ASSUME OverlapBounded, Recent' \subseteq Recent, Forgetting' \subseteq Forgetting
  PROVE  OverlapBounded'
<1>1. Cardinality(Recent') \in Nat /\ Cardinality(Recent') <= Cardinality(Recent)
  BY Finite, FS_Subset, FS_CardinalityType
<1>2. Cardinality(Forgetting') \in Nat /\ Cardinality(Forgetting') <= Cardinality(Forgetting)
  BY Finite, FS_Subset, FS_CardinalityType
<1>3. Cardinality(Recent) \in Nat /\ Cardinality(Forgetting) \in Nat /\ Cardinality(Handler) \in Nat BY Finite
<1>4. Cardinality(Recent') + Cardinality(Forgetting') <= Cardinality(Recent) + Cardinality(Forgetting)
  BY <1>1, <1>2, <1>3
<1> QED BY <1>1, <1>2, <1>3, <1>4, BoundsAssumption DEF OverlapBounded

LEMMA OverlapStaysBounded == TypeOK /\ OverlapBounded /\ [Next]_vars => OverlapBounded'
<1> SUFFICES ASSUME TypeOK, OverlapBounded, [Next]_vars PROVE OverlapBounded' OBVIOUS
<1>1. ASSUME NEW h \in Handler, CountRecent(h) PROVE OverlapBounded'
  <2>1. Recent' = Recent /\ Cardinality(Recent) < ResetLimit BY <1>1 DEF CountRecent, CountUpTo, Recent
  <2>2. Forgetting' \subseteq Handler BY DEF Forgetting
  <2>3. Cardinality(Forgetting') \in Nat /\ Cardinality(Forgetting') <= Cardinality(Handler)
    BY <2>2, FiniteAssumption, FS_Subset, FS_CardinalityType
  <2> QED BY <2>1, <2>3, Finite, BoundsAssumption DEF OverlapBounded
<1>2. ASSUME NEW h \in Handler, forgotPassword(h) PROVE OverlapBounded'
  <2>1. PICK k \in ResetToken : reset' = [reset EXCEPT ![k] = [state |-> "open", recent |-> TRUE]]
    BY <1>2 DEF forgotPassword
  <2>2. Recent' \subseteq Recent \cup {k} BY <2>1 DEF Recent, TypeOK
  <2>3. h \in Forgetting /\ Forgetting' \subseteq Forgetting \ {h}
    <3>1. Busy(h, "forgot") /\ Finish(h) BY <1>2 DEF forgotPassword, Busy
    <3>2. \A g \in Handler : Busy(g, "forgot")' => Busy(g, "forgot") BY <3>1, OthersGoOn
    <3>3. ~Busy(h, "forgot")' BY <3>1, Finished DEF Busy
    <3> QED BY <3>1, <3>2, <3>3 DEF Forgetting
  <2>4. IsFiniteSet(Recent \cup {k}) /\ Cardinality(Recent \cup {k}) <= Cardinality(Recent) + 1
    <3>1. Cardinality(Recent \cup {k}) = IF k \in Recent THEN Cardinality(Recent) ELSE Cardinality(Recent) + 1
      BY Finite, FS_AddElement
    <3>2. IsFiniteSet(Recent \cup {k}) BY Finite, FS_AddElement
    <3> QED BY <3>1, <3>2, Finite
  <2>5. IsFiniteSet(Forgetting \ {h}) /\ Cardinality(Forgetting \ {h}) = Cardinality(Forgetting) - 1
    BY <2>3, Finite, FS_RemoveElement
  <2>6. Cardinality(Recent') \in Nat /\ Cardinality(Recent') <= Cardinality(Recent \cup {k})
    BY <2>2, <2>4, FS_Subset, FS_CardinalityType
  <2>7. Cardinality(Forgetting') \in Nat /\ Cardinality(Forgetting') <= Cardinality(Forgetting \ {h})
    BY <2>3, <2>5, FS_Subset, FS_CardinalityType
  <2>8. Cardinality(Recent \cup {k}) \in Nat BY <2>4, FS_CardinalityType
  <2> QED BY <2>4, <2>5, <2>6, <2>7, <2>8, Finite, BoundsAssumption DEF OverlapBounded
<1>3. ASSUME NEW h \in Handler,
             \/ login(h) \/ issueSession(h) \/ FindSession(h) \/ RotateSession(h)
             \/ FindResetToken(h) \/ Fail(h)
      PROVE  OverlapBounded'
  <2>1. Finish(h) \/ \E r \in Requests : Begin(h, r) /\ r.op # "forgot"
    BY <1>3, Beginnings, Rotation DEF issueSession, IssueIn, Fail
  <2>2. Forgetting' \subseteq Forgetting BY <2>1, OthersGoOn DEF Forgetting
  <2>3. reset' = reset
    BY <1>3, Rotation DEF login, issueSession, IssueIn, FindSession, FindResetToken, Fail
  <2> QED BY <2>2, <2>3, OverlapUntouched DEF Recent
<1>4. ASSUME NEW h \in Handler, ClaimResetToken(h) PROVE OverlapBounded'
  <2>1. Forgetting' \subseteq Forgetting BY <1>4, OthersGoOn DEF Forgetting
  <2>2. reset' = reset \/ \E k \in ResetToken : reset' = [reset EXCEPT ![k].state = "used"]
    <3>1. req[h].token \in ResetToken BY <1>4, Holding DEF ClaimResetToken, ClaimIf
    <3> QED BY <1>4, <3>1 DEF ClaimResetToken, ClaimIf
  <2>3. \A k \in ResetToken : reset'[k].recent => reset[k].recent BY <2>2 DEF TypeOK
  <2> QED BY <2>1, <2>3, OverlapUntouched DEF Recent
<1>5. ASSUME NEW h \in Handler, resetPassword(h) PROVE OverlapBounded'
  <2>1. Forgetting' \subseteq Forgetting BY <1>5, Committed DEF Forgetting, Busy, Continues
  <2>2. reset' = reset BY <1>5 DEF resetPassword, CommitReset
  <2> QED BY <2>1, <2>2, OverlapUntouched DEF Recent
<1>6. CASE \/ \E s \in Session, n \in Token : logout(s, n)
           \/ updateUser \/ UNCHANGED vars
  <2>1. UNCHANGED <<req, reset>> BY <1>6 DEF logout, updateUser, vars
  <2> QED BY <2>1, OverlapUntouched DEF Recent, Forgetting, Busy, Idle
<1>7. CASE Expire
  <2>1. req' = req /\ Recent' \subseteq Recent BY <1>7, Expired DEF Recent
  <2> QED BY <2>1, OverlapUntouched DEF Forgetting, Busy, Idle
<1> QED BY <1>1, <1>2, <1>3, <1>4, <1>5, <1>6, <1>7 DEF Next, Handle
-----------------------------------------------------------------------------
\* Initially nobody is signed in and nothing was handed out, and no step breaks the invariant.
LEMMA Inductive == Spec => []AuthInvariant
<1>1. Init => AuthInvariant
  <2> SUFFICES ASSUME Init PROVE AuthInvariant OBVIOUS
  <2>1. TypeOK BY BoundsAssumption DEF Init, TypeOK, Token
  <2>2. \A h \in Handler : Idle(h) BY DEF Init, Idle
  <2>3. SessionsKept
    BY <2>2, BoundsAssumption DEF Init, SessionsKept, FreshRows, LoginsKnowReset, EachTokenExchangedOnce, ResetEndsSessions, Live, Busy, Token
  <2>4. LinksKept BY <2>2 DEF Init, LinksKept, LinksClaimed, LinkSetsOnePassword, Busy
  <2>5. OverlapBounded
    <3>1. Recent = {} /\ Forgetting = {} BY <2>2 DEF Init, Recent, Forgetting, Busy
    <3>2. Cardinality(Recent) = 0 /\ Cardinality(Forgetting) = 0 BY <3>1, FS_EmptySet
    <3>3. Cardinality(Handler) \in Nat \ {0} BY FiniteAssumption, FS_CardinalityType, FS_EmptySet
    <3> QED BY <3>2, <3>3, BoundsAssumption DEF OverlapBounded
  <2> QED BY <2>1, <2>3, <2>4, <2>5 DEF AuthInvariant
<1>2. AuthInvariant /\ [Next]_vars => AuthInvariant'
  BY TypesKept, SessionsStayKept, LinksStayKept, OverlapStaysBounded DEF AuthInvariant
<1> QED BY <1>1, <1>2, PTL DEF Spec

\* For any number of tabs, links and requests, and any limit: a refresh token is exchanged
\* once, a reset link sets one password, and a reset ends the sessions before it.
THEOREM TokensUsedOnce == Spec => []UsedOnce
<1>1. AuthInvariant => UsedOnce
  <2> SUFFICES ASSUME AuthInvariant PROVE UsedOnce OBVIOUS
  <2>1. ForgotStaysLimited
    BY Finite, BoundsAssumption DEF AuthInvariant, OverlapBounded, ForgotStaysLimited
  <2> QED BY <2>1 DEF AuthInvariant, SessionsKept, LinksKept, UsedOnce
<1> QED BY <1>1, Inductive, PTL
-----------------------------------------------------------------------------
(* Sessions implement chains of tokens.                                     *)

\* A step that leaves every row in its state, and exchanges nothing, is none of a chain.
LEMMA ChainStutters ==
  ASSUME accepted' = accepted, \A s \in Session : session'[s].state = session[s].state
  PROVE  Chain!Next \/ UNCHANGED <<[s \in Session |-> ChainState(s)], accepted>>
BY DEF ChainState

\* A step that ends some live rows, and touches no other, ends their chains.
LEMMA ChainEnds ==
  ASSUME NEW ended \in SUBSET Session, accepted' = accepted,
         \A s \in Session : IF s \in ended THEN session[s].state = "live" /\ session'[s].state = "ended"
                                           ELSE session'[s].state = session[s].state
  PROVE  Chain!Next
<1>1. \A s \in ended : [t \in Session |-> ChainState(t)][s] = "open" BY DEF ChainState
<1>2. [t \in Session |-> ChainState(t)]'
        = [t \in Session |-> IF t \in ended THEN "ended" ELSE [u \in Session |-> ChainState(u)][t]]
  BY DEF ChainState
<1>3. Chain!End(ended) BY <1>1, <1>2 DEF Chain!End
<1> QED BY <1>3 DEF Chain!Next

\* A sign-in opens the chain of a row that was never issued.
LEMMA ChainOpens ==
  ASSUME TypeOK, NEW h \in Handler, issueSession(h)
  PROVE  Chain!Next
<1>1. PICK s \in Session : /\ session[s].state = "none" /\ session'[s].state = "live"
                           /\ \A t \in Session \ {s} : session'[t] = session[t]
  BY DEF issueSession, IssueIn, TypeOK
<1>2. [t \in Session |-> ChainState(t)][s] = "none" BY <1>1 DEF ChainState
<1>3. [t \in Session |-> ChainState(t)]' = [[t \in Session |-> ChainState(t)] EXCEPT ![s] = "open"]
  BY <1>1 DEF ChainState
<1>4. Chain!Open(s) BY <1>2, <1>3 DEF Chain!Open, issueSession, IssueIn
<1> QED BY <1>4 DEF Chain!Next

\* A rotation exchanges the token that the row stores: those before it were exchanged.
LEMMA ChainExchanges ==
  ASSUME TypeOK, EachTokenExchangedOnce, NEW h \in Handler, RotateSession(h)
  PROVE  Chain!Next \/ UNCHANGED <<[s \in Session |-> ChainState(s)], accepted>>
<1>1. CASE UNCHANGED <<session, accepted>> BY <1>1, ChainStutters
<1>2. ASSUME ~UNCHANGED <<session, accepted>> PROVE Chain!Next
  <2>1. PICK s \in Session, n \in Token : s = req[h].session /\ n = req[h].token
    BY Rotation, Holding DEF Busy
  <2>2. /\ Live(s) /\ session[s].current = n
        /\ session' = [session EXCEPT ![s].current = n + 1]
        /\ accepted' = [accepted EXCEPT ![s][n] = @ + 1]
    BY <1>2, <2>1, Rotation
  <2>3. accepted[s] = [m \in Token |-> IF m < n THEN 1 ELSE 0]
    <3>1. accepted[s] = [m \in Token |-> accepted[s][m]] BY DEF TypeOK
    <3> QED BY <2>2, <3>1 DEF EachTokenExchangedOnce
  <2>4. accepted' = [accepted EXCEPT ![s][n] = 1]
    <3>1. accepted[s][n] = 0 BY <2>2 DEF EachTokenExchangedOnce, Token
    <3> QED BY <2>2, <3>1 DEF TypeOK
  <2>5. \A t \in Session : session'[t].state = session[t].state BY <2>2 DEF TypeOK
  <2>6. [t \in Session |-> ChainState(t)]' = [t \in Session |-> ChainState(t)] BY <2>5 DEF ChainState
  <2>7. [t \in Session |-> ChainState(t)][s] = "open" BY <2>2 DEF ChainState, Live
  <2>8. Chain!Exchange(s, n) BY <2>3, <2>4, <2>6, <2>7 DEF Chain!Exchange
  <2> QED BY <2>8 DEF Chain!Next
<1> QED BY <1>1, <1>2

LEMMA ChainStep ==
  AuthInvariant /\ [Next]_vars => Chain!Next \/ UNCHANGED <<[s \in Session |-> ChainState(s)], accepted>>
<1> DEFINE Step == Chain!Next \/ UNCHANGED <<[s \in Session |-> ChainState(s)], accepted>>
<1> SUFFICES ASSUME AuthInvariant, [Next]_vars PROVE Step OBVIOUS
<1>0. TypeOK /\ EachTokenExchangedOnce BY DEF AuthInvariant, SessionsKept
<1> HIDE DEF Step
<1>1. ASSUME NEW h \in Handler, issueSession(h) PROVE Step BY <1>0, <1>1, ChainOpens DEF Step
<1>2. ASSUME NEW h \in Handler, RotateSession(h) PROVE Step BY <1>0, <1>2, ChainExchanges DEF Step
<1>3. ASSUME NEW h \in Handler, resetPassword(h) PROVE Step
  <2> DEFINE ended == { s \in Session : Live(s) }
  <2>1. accepted' = accepted BY <1>3 DEF resetPassword, CommitReset
  <2>2. \A s \in Session : IF s \in ended THEN session[s].state = "live" /\ session'[s].state = "ended"
                                         ELSE session'[s].state = session[s].state
    BY <1>0, <1>3 DEF resetPassword, CommitReset, Live, TypeOK
  <2> QED BY <2>1, <2>2, ChainEnds DEF Step
<1>4. ASSUME NEW s \in Session, NEW n \in Token, logout(s, n) PROVE Step
  <2>1. \A t \in Session : IF t \in {s} THEN session[t].state = "live" /\ session'[t].state = "ended"
                                       ELSE session'[t].state = session[t].state
    BY <1>0, <1>4 DEF logout, Live, TypeOK
  <2>2. accepted' = accepted BY <1>4 DEF logout
  <2> QED BY <2>1, <2>2, ChainEnds DEF Step
<1>5. CASE Expire
  <2>1. accepted' = accepted BY <1>5 DEF Expire
  <2>2. CASE session' = session BY <2>1, <2>2, ChainStutters DEF Step
  <2>3. ASSUME NEW s \in Session, Live(s), session' = [session EXCEPT ![s].state = "ended"] PROVE Step
    <3>1. \A t \in Session : IF t \in {s} THEN session[t].state = "live" /\ session'[t].state = "ended"
                                         ELSE session'[t].state = session[t].state
      BY <1>0, <2>3 DEF Live, TypeOK
    <3> QED BY <2>1, <3>1, ChainEnds DEF Step
  <2> QED BY <1>5, <2>2, <2>3 DEF Expire
<1>6. ASSUME UNCHANGED <<session, accepted>> PROVE Step BY <1>6, ChainStutters DEF Step
<1>7. ASSUME NEW h \in Handler,
             \/ login(h) \/ FindSession(h) \/ CountRecent(h) \/ forgotPassword(h)
             \/ FindResetToken(h) \/ ClaimResetToken(h) \/ Fail(h)
      PROVE  Step
  BY <1>6, <1>7 DEF login, FindSession, CountRecent, CountUpTo, forgotPassword, FindResetToken,
                    ClaimResetToken, ClaimIf, Fail
<1>8. CASE updateUser \/ UNCHANGED vars BY <1>6, <1>8 DEF updateUser, vars
<1> QED BY <1>1, <1>2, <1>3, <1>4, <1>5, <1>7, <1>8 DEF Next, Handle

\* For any number of sessions, tabs and resets: a session is opened once, exchanges its tokens
\* in their order, each once, while it is open, and never reopens.
THEOREM TokenChainImplemented == Spec => ImplementsTokenChain
<1>1. Init => Chain!Init BY DEF Init, Chain!Init, ChainState
<1>2. AuthInvariant /\ [Next]_vars => [Chain!Next]_<<[s \in Session |-> ChainState(s)], accepted>>
  BY ChainStep
<1> QED BY <1>1, <1>2, Inductive, PTL DEF Spec, ImplementsTokenChain, Chain!Spec
=============================================================================
