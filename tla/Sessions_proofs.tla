--------------------------- MODULE Sessions_proofs ---------------------------
(***************************************************************************)
(* Theorems about Sessions, for any number of requests, logins and         *)
(* sessions.                                                               *)
(*                                                                         *)
(* A login has one claim to be continued, and it moves: it is the code     *)
(* while that has not been taken, then the request that has taken it, then *)
(* the session whose token a client was given and that has no heir yet,    *)
(* the request that has just made it an heir, and so on.  The invariant    *)
(* says that there are never two claims; a request or a server that dies   *)
(* only takes one away.                                                    *)
(***************************************************************************)
EXTENDS Sessions, TLAPS

\* A session a client has a token of and that nothing has replaced.
Tip(s) == session[s].sent /\ session[s].heir = NoSession

\* A request that will answer with a token, if nothing stops it.
Pending(w) == pc[w] = "answer" \/ (pc[w] = "issue" /\ req[w].old = NoSession)

\* A session replaced has been revoked, and one revoked had been given out.
RevokedKnown ==
  \A s \in Sessions :
    /\ session[s].heir # NoSession => session[s].st = "revoked"
    /\ session[s].sent \/ session[s].st = "revoked" => session[s].login \in Codes
    /\ session[s].st = "revoked" => session[s].sent

\* What a request in flight was given exists.
RequestOK(w) ==
  /\ pc[w] \in {"issue", "replace", "answer"} => req[w].login \in Codes
  /\ pc[w] \in {"replace", "logout"} => req[w].old \in Sessions
  /\ pc[w] \in {"replace", "answer"} =>
       req[w].new \in Sessions /\ session[req[w].new].login = req[w].login
  /\ req[w].old \in Sessions => session[req[w].old].sent
  /\ pc[w] \in {"issue", "replace"} /\ req[w].old \in Sessions =>
       session[req[w].old].login = req[w].login
  /\ pc[w] = "idle" => req[w].old = NoSession

RequestKnown == \A w \in Workers : RequestOK(w)

OneClaim ==
  /\ \A s, t \in Sessions :
       Tip(s) /\ Tip(t) /\ session[s].login = session[t].login => s = t
  /\ \A w \in Workers, s \in Sessions :
       Pending(w) /\ Tip(s) => req[w].login # session[s].login
  /\ \A v, w \in Workers :
       Pending(v) /\ Pending(w) /\ req[v].login = req[w].login => v = w
  /\ \A s \in Sessions, c \in Codes : Tip(s) /\ session[s].login = c => code[c] = "gone"
  /\ \A w \in Workers, c \in Codes : Pending(w) /\ req[w].login = c => code[c] = "gone"

IInv == TypeOK /\ RevokedKnown /\ RequestKnown /\ OneClaim

\* A session's type, as TypeOK states it.
SessionRow == [st : {"none", "live", "expired", "revoked"}, login : Codes \union {NoCode},
               from : Sessions \union {NoSession}, heir : Sessions \union {NoSession},
               sent : BOOLEAN]

\* Nothing has happened yet: nobody has a claim.
LEMMA InitInv == Init => IInv
<1> SUFFICES ASSUME Init PROVE IInv
  OBVIOUS
<1> USE NullAssumption DEF Init, NoRow, NoRequest
<1>1. TypeOK
  BY DEF TypeOK, Steps
<1>2. RevokedKnown /\ RequestKnown
  BY DEF RevokedKnown, RequestKnown, RequestOK
<1>3. OneClaim
  BY DEF OneClaim, Tip, Pending
<1> QED
  BY <1>1, <1>2, <1>3 DEF IInv

\* A request that ends takes its claim with it.
LEMMA EndKeeps ==
  ASSUME IInv, NEW w \in Workers, End(w), UNCHANGED <<code, session>>
  PROVE  IInv'
<1> USE NullAssumption DEF IInv, End, Goto, NoRequest
<1>1. pc' \in [Workers -> Steps] /\ req' \in [Workers -> [login : Codes \union {NoCode},
        old : Sessions \union {NoSession}, new : Sessions \union {NoSession}]]
  BY DEF TypeOK, Steps
<1>2. pc'[w] = "idle" /\ req'[w].old = NoSession
  BY DEF TypeOK
<1>3. \A v \in Workers : v # w => pc'[v] = pc[v] /\ req'[v] = req[v]
  BY DEF TypeOK
<1>4. TypeOK' /\ RevokedKnown'
  BY <1>1 DEF TypeOK, RevokedKnown
<1>5. RequestKnown'
  BY <1>2, <1>3 DEF RequestKnown, RequestOK
<1>6. OneClaim'
  BY <1>2, <1>3 DEF OneClaim, Tip, Pending
<1> QED
  BY <1>4, <1>5, <1>6

\* Codes being issued, expiring, or forgotten with the requests in flight.
LEMMA CodeSteps ==
  ASSUME IInv, IssueAuthCode \/ ExpireAuthCode \/ Restart
  PROVE  IInv'
<1> USE NullAssumption DEF IInv
<1>1. \A c \in Codes : code[c] = "gone" => code'[c] = "gone"
  BY DEF TypeOK, IssueAuthCode, ExpireAuthCode, Restart
<1>2. code' \in [Codes -> {"unissued", "issued", "gone"}] /\ session' = session
  BY DEF TypeOK, IssueAuthCode, ExpireAuthCode, Restart
<1>3. CASE IssueAuthCode \/ ExpireAuthCode
  <2>1. pc' = pc /\ req' = req
    BY <1>3 DEF IssueAuthCode, ExpireAuthCode
  <2> QED
    BY <1>1, <1>2, <2>1 DEF TypeOK, RevokedKnown, RequestKnown, RequestOK, OneClaim, Tip, Pending
<1>4. CASE Restart
  <2>1. \A w \in Workers : pc'[w] = "idle" /\ req'[w].old = NoSession
    BY <1>4 DEF Restart, NoRequest
  <2>2. TypeOK'
    BY <1>2, <1>4 DEF TypeOK, Restart, NoRequest, Steps
  <2>3. RevokedKnown' /\ RequestKnown'
    BY <1>2, <2>1 DEF RevokedKnown, RequestKnown, RequestOK
  <2>4. OneClaim'
    BY <1>1, <1>2, <2>1 DEF OneClaim, Tip, Pending
  <2> QED
    BY <2>2, <2>3, <2>4
<1> QED
  BY <1>3, <1>4

\* A code is taken from the store: the claim moves to the request.
LEMMA ConsumeStep ==
  ASSUME IInv, NEW w \in Workers, ConsumeAuthCode(w)
  PROVE  IInv'
<1> USE NullAssumption DEF IInv
<1>1. PICK c \in Codes :
        /\ pc[w] = "idle" /\ code[c] = "issued"
        /\ code' = [code EXCEPT ![c] = "gone"]
        /\ req' = [req EXCEPT ![w].login = c]
        /\ Goto(w, "issue") /\ session' = session
  BY DEF ConsumeAuthCode
<1>2. code'[c] = "gone" /\ \A d \in Codes : d # c => code'[d] = code[d]
  BY <1>1 DEF TypeOK
<1>3. pc'[w] = "issue" /\ req'[w].login = c /\ req'[w].old = NoSession
  BY <1>1 DEF TypeOK, Goto, RequestKnown, RequestOK
<1>4. \A v \in Workers : v # w => pc'[v] = pc[v] /\ req'[v] = req[v]
  BY <1>1 DEF TypeOK, Goto
<1>5. TypeOK'
  BY <1>1 DEF TypeOK, Goto, Steps
<1>6. RevokedKnown' /\ RequestKnown'
  BY <1>1, <1>3, <1>4 DEF RevokedKnown, RequestKnown, RequestOK
<1>7. OneClaim'
  BY <1>1, <1>2, <1>3, <1>4 DEF OneClaim, Tip, Pending
<1> QED
  BY <1>5, <1>6, <1>7

\* A token is read, to be rotated or logged out: no claim moves.
LEMMA ReadStep ==
  ASSUME IInv, NEW w \in Workers, ReadForRotation(w) \/ ReadForLogout(w)
  PROVE  IInv'
<1> USE NullAssumption DEF IInv
<1>1. PICK s \in Sessions :
        /\ pc[w] = "idle" /\ session[s].sent /\ session[s].st = "live"
        /\ code' = code /\ session' = session
        /\ \/ pc' = [pc EXCEPT ![w] = "issue"]
              /\ req' = [req EXCEPT ![w] = [login |-> session[s].login, old |-> s, new |-> NoSession]]
           \/ pc' = [pc EXCEPT ![w] = "logout"] /\ req' = [req EXCEPT ![w].old = s]
  BY DEF ReadForRotation, ReadForLogout, Known, Goto
<1>2. /\ pc'[w] \in {"issue", "logout"} /\ req'[w].old = s
      /\ pc'[w] = "issue" => req'[w].login = session[s].login
  BY <1>1 DEF TypeOK
<1>3. \A v \in Workers : v # w => pc'[v] = pc[v] /\ req'[v] = req[v]
  BY <1>1 DEF TypeOK
<1>4. TypeOK'
  <2>1. session[s].login \in Codes
    BY <1>1 DEF RevokedKnown
  <2>2. req' \in [Workers -> [login : Codes \union {NoCode}, old : Sessions \union {NoSession},
                             new : Sessions \union {NoSession}]]
    BY <1>1, <2>1 DEF TypeOK
  <2> QED
    BY <1>1, <2>2 DEF TypeOK, Steps
<1>5. RevokedKnown'
  BY <1>1 DEF RevokedKnown
<1>5a. RequestKnown'
  <2> SUFFICES ASSUME NEW v \in Workers PROVE RequestOK(v)'
    BY DEF RequestKnown
  <2>1. CASE v = w
    BY <1>1, <1>2, <2>1 DEF RevokedKnown, RequestKnown, RequestOK
  <2>2. CASE v # w
    BY <1>1, <1>3, <2>2 DEF RequestKnown, RequestOK
  <2> QED
    BY <2>1, <2>2
<1>6. OneClaim'
  BY <1>1, <1>2, <1>3 DEF OneClaim, Tip, Pending
<1> QED
  BY <1>4, <1>5, <1>5a, <1>6

\* A session inserted is nobody's claim: no client has its token.
LEMMA IssueStep ==
  ASSUME IInv, NEW w \in Workers, IssueSession(w)
  PROVE  IInv'
<1> USE NullAssumption DEF IInv
<1>1. PICK s \in Sessions :
        /\ pc[w] = "issue" /\ session[s].st = "none" /\ code' = code
        /\ session' = [session EXCEPT ![s] = NewRow(req[w].login, req[w].old)]
        /\ req' = [req EXCEPT ![w].new = s]
        /\ pc' = [pc EXCEPT ![w] = IF req[w].old = NoSession THEN "answer" ELSE "replace"]
  BY DEF IssueSession, Goto
<1> DEFINE row == NewRow(req[w].login, req[w].old)
<1>2. req[w].login \in Codes /\ req[w].old \in Sessions \union {NoSession}
  BY <1>1 DEF RequestKnown, RequestOK, TypeOK
<1>3. /\ row \in SessionRow /\ row.st = "live" /\ row.login = req[w].login
      /\ row.heir = NoSession /\ ~row.sent
  BY <1>2 DEF NewRow, NoRow, SessionRow
<1>4. session'[s] = row /\ \A t \in Sessions : t # s => session'[t] = session[t]
  BY <1>1 DEF TypeOK
<1>5. /\ pc'[w] = IF req[w].old = NoSession THEN "answer" ELSE "replace"
      /\ req'[w].login = req[w].login /\ req'[w].old = req[w].old /\ req'[w].new = s
  BY <1>1 DEF TypeOK
<1>6. \A v \in Workers : v # w => pc'[v] = pc[v] /\ req'[v] = req[v]
  BY <1>1 DEF TypeOK
<1>7. session[s].login = NoCode /\ ~session[s].sent
  BY <1>1, NullAssumption DEF TypeOK, RevokedKnown
<1>8. TypeOK'
  <2>1. session' \in [Sessions -> SessionRow]
    BY <1>1, <1>3 DEF TypeOK, SessionRow
  <2>2. \A t \in Sessions : (session'[t].st = "none") = (session'[t].login = NoCode)
    BY <1>2, <1>3, <1>4 DEF TypeOK
  <2> QED
    BY <1>1, <2>1, <2>2 DEF TypeOK, Steps, SessionRow
<1>9. RevokedKnown'
  BY <1>3, <1>4 DEF RevokedKnown
<1>10. RequestKnown'
  <2> SUFFICES ASSUME NEW v \in Workers PROVE RequestOK(v)'
    BY DEF RequestKnown
  <2>1. CASE v = w
    BY <1>1, <1>2, <1>3, <1>4, <1>5, <1>7, <2>1 DEF RequestKnown, RequestOK
  <2>2. CASE v # w
    BY <1>1, <1>3, <1>4, <1>6, <1>7, <2>2 DEF RequestKnown, RequestOK
  <2> QED
    BY <2>1, <2>2
<1>11. \A t \in Sessions : Tip(t)' => Tip(t) /\ session'[t].login = session[t].login
  BY <1>3, <1>4 DEF Tip
<1>12. \A v \in Workers : Pending(v)' => Pending(v) /\ req'[v].login = req[v].login
  BY <1>1, <1>5, <1>6 DEF Pending
<1>13. OneClaim'
  BY <1>1, <1>11, <1>12 DEF OneClaim
<1> QED
  BY <1>8, <1>9, <1>10, <1>13

\* What revoking a session changes of it.
LEMMA RevokedRow ==
  ASSUME NEW row \in SessionRow, NEW heir \in Sessions \union {NoSession}
  PROVE  /\ Revoked(row, heir) \in SessionRow
         /\ Revoked(row, heir).st = "revoked" /\ Revoked(row, heir).heir = heir
         /\ Revoked(row, heir).sent = row.sent /\ Revoked(row, heir).login = row.login
BY DEF SessionRow, Revoked

\* The tip of a login is replaced: the claim moves to the request.
LEMMA ReplaceStep ==
  ASSUME IInv, NEW w \in Workers, ReplaceSession(w)
  PROVE  IInv'
<1> USE NullAssumption DEF IInv
<1>1. CASE session[req[w].old].st = "revoked"
  BY <1>1, EndKeeps DEF ReplaceSession, Revoke
<1>2. CASE session[req[w].old].st # "revoked"
  <2>1. PICK s, n : s = req[w].old /\ n = req[w].new
    OBVIOUS
  <2>2. /\ pc[w] = "replace" /\ code' = code /\ req' = req
        /\ session' = [session EXCEPT ![s] = Revoked(@, n)]
        /\ pc' = [pc EXCEPT ![w] = "answer"]
    BY <1>2, <2>1 DEF ReplaceSession, Revoke, Goto
  <2>3. /\ s \in Sessions /\ n \in Sessions /\ req[w].login \in Codes
        /\ session[s].login = req[w].login /\ session[s].sent
        /\ session[n].login = req[w].login
    BY <2>1, <2>2 DEF RequestKnown, RequestOK
  <2>4. Tip(s)
    BY <1>2, <2>1, <2>3 DEF Tip, RevokedKnown, TypeOK
  <2>5. session \in [Sessions -> SessionRow] /\ session[s] \in SessionRow
    BY <2>3 DEF TypeOK, SessionRow
  <2>6. /\ session'[s] \in SessionRow
        /\ session'[s].st = "revoked" /\ session'[s].heir = n
        /\ session'[s].sent /\ session'[s].login = session[s].login
        /\ \A t \in Sessions : t # s => session'[t] = session[t]
    BY <2>2, <2>3, <2>5, RevokedRow
  <2>7. pc'[w] = "answer" /\ \A v \in Workers : v # w => pc'[v] = pc[v]
    BY <2>2 DEF TypeOK
  <2>8. TypeOK'
    <3>1. session' \in [Sessions -> SessionRow]
      BY <2>2, <2>5, <2>6
    <3>2. \A t \in Sessions : (session'[t].st = "none") = (session'[t].login = NoCode)
      BY <2>3, <2>6 DEF TypeOK
    <3> QED
      BY <2>2, <3>1, <3>2 DEF TypeOK, Steps, SessionRow
  <2>9. RevokedKnown'
    BY <2>3, <2>6 DEF RevokedKnown
  <2>10. RequestKnown'
    <3> SUFFICES ASSUME NEW v \in Workers PROVE RequestOK(v)'
      BY DEF RequestKnown
    <3>1. CASE v = w
      BY <2>1, <2>2, <2>3, <2>6, <2>7, <3>1 DEF RequestOK
    <3>2. CASE v # w
      BY <2>2, <2>6, <2>7, <3>2 DEF RequestKnown, RequestOK
    <3> QED
      BY <3>1, <3>2
  <2>11. \A t \in Sessions : Tip(t)' => t # s /\ Tip(t) /\ session'[t].login = session[t].login
    BY <2>3, <2>6 DEF Tip
  <2>12. \A v \in Workers : v # w /\ Pending(v)' => Pending(v)
    BY <2>2, <2>7 DEF Pending
  <2>13. OneClaim'
    BY <2>2, <2>3, <2>4, <2>11, <2>12 DEF OneClaim
  <2> QED
    BY <2>8, <2>9, <2>10, <2>13
<1> QED
  BY <1>1, <1>2

\* The answer arrives: the claim moves to the new session.
LEMMA AnswerStep ==
  ASSUME IInv, NEW w \in Workers, Answer(w)
  PROVE  IInv'
<1> USE NullAssumption DEF IInv
<1>1. PICK n : n = req[w].new
  OBVIOUS
<1>2. /\ pc[w] = "answer" /\ code' = code
      /\ session' = [session EXCEPT ![n].sent = TRUE]
      /\ pc' = [pc EXCEPT ![w] = "idle"]
      /\ req' = [req EXCEPT ![w] = NoRequest]
  BY <1>1 DEF Answer, End, Goto
<1>3. n \in Sessions /\ req[w].login \in Codes /\ session[n].login = req[w].login
  BY <1>1, <1>2 DEF RequestKnown, RequestOK
<1>4. session \in [Sessions -> SessionRow] /\ session[n] \in SessionRow
  BY <1>3 DEF TypeOK, SessionRow
<1>5. /\ session'[n] \in SessionRow
      /\ session'[n].st = session[n].st /\ session'[n].heir = session[n].heir
      /\ session'[n].sent /\ session'[n].login = session[n].login
      /\ \A t \in Sessions : t # n => session'[t] = session[t]
  BY <1>2, <1>3, <1>4 DEF SessionRow
<1>6. /\ pc'[w] = "idle" /\ req'[w].old = NoSession
      /\ \A v \in Workers : v # w => pc'[v] = pc[v] /\ req'[v] = req[v]
  BY <1>2 DEF TypeOK, NoRequest
<1>7. TypeOK'
  <2>1. session' \in [Sessions -> SessionRow]
    BY <1>2, <1>4, <1>5
  <2>2. \A t \in Sessions : (session'[t].st = "none") = (session'[t].login = NoCode)
    BY <1>5 DEF TypeOK
  <2> QED
    BY <1>2, <2>1, <2>2 DEF TypeOK, Steps, SessionRow, NoRequest
<1>8. RevokedKnown'
  BY <1>3, <1>5 DEF RevokedKnown
<1>9. RequestKnown'
  <2> SUFFICES ASSUME NEW v \in Workers PROVE RequestOK(v)'
    BY DEF RequestKnown
  <2>1. CASE v = w
    BY <1>6, <2>1 DEF RequestOK
  <2>2. CASE v # w
    BY <1>5, <1>6, <2>2 DEF RequestKnown, RequestOK
  <2> QED
    BY <2>1, <2>2
<1>10. \A t \in Sessions : /\ session'[t].login = session[t].login
                           /\ Tip(t)' => t = n \/ Tip(t)
  BY <1>5 DEF Tip
<1>11. Pending(w) /\ \A v \in Workers : Pending(v)' => v # w /\ Pending(v) /\ req'[v] = req[v]
  BY <1>2, <1>6 DEF Pending
<1>12. OneClaim'
  BY <1>2, <1>3, <1>10, <1>11 DEF OneClaim
<1> QED
  BY <1>7, <1>8, <1>9, <1>12

\* A tip that is logged out, or expires, stays the only one.
LEMMA TipStays ==
  ASSUME IInv, NEW s \in Sessions, NEW row \in SessionRow,
         session[s].st # "none", session[s].heir = NoSession,
         row.st \in {"expired", "revoked"}, row.heir = NoSession,
         row.st = "revoked" => row.sent,
         row.sent = session[s].sent, row.login = session[s].login,
         session' = [session EXCEPT ![s] = row], code' = code,
         \/ pc' = pc /\ req' = req
         \/ \E w \in Workers : End(w)
  PROVE  IInv'
<1> USE NullAssumption DEF IInv
<1>1. session'[s] = row /\ \A t \in Sessions : t # s => session'[t] = session[t]
  BY DEF TypeOK
<1>2. /\ pc' \in [Workers -> Steps]
      /\ req' \in [Workers -> [login : Codes \union {NoCode}, old : Sessions \union {NoSession},
                               new : Sessions \union {NoSession}]]
  <2>1. CASE pc' = pc /\ req' = req
    BY <2>1 DEF TypeOK
  <2>2. ASSUME NEW w \in Workers, End(w)
        PROVE  /\ pc' \in [Workers -> Steps]
               /\ req' \in [Workers -> [login : Codes \union {NoCode},
                    old : Sessions \union {NoSession}, new : Sessions \union {NoSession}]]
    BY <2>2 DEF TypeOK, End, Goto, NoRequest, Steps
  <2> QED
    BY <2>1, <2>2
<1>3. \A v \in Workers : \/ pc'[v] = pc[v] /\ req'[v] = req[v]
                         \/ pc'[v] = "idle" /\ req'[v].old = NoSession
  BY DEF TypeOK, End, Goto, NoRequest
<1>4. TypeOK'
  <2>1. session' \in [Sessions -> SessionRow]
    BY DEF TypeOK, SessionRow
  <2>2. \A t \in Sessions : (session'[t].st = "none") = (session'[t].login = NoCode)
    BY <1>1 DEF TypeOK
  <2> QED
    BY <1>2, <2>1, <2>2 DEF TypeOK, SessionRow
<1>5. RevokedKnown'
  BY <1>1 DEF RevokedKnown, TypeOK
<1>6. RequestKnown'
  <2> SUFFICES ASSUME NEW v \in Workers PROVE RequestOK(v)'
    BY DEF RequestKnown
  <2>1. CASE pc'[v] = pc[v] /\ req'[v] = req[v]
    BY <1>1, <2>1 DEF RequestKnown, RequestOK
  <2>2. CASE pc'[v] = "idle" /\ req'[v].old = NoSession
    BY <2>2 DEF RequestOK
  <2> QED
    BY <1>3, <2>1, <2>2
<1>7. \A t \in Sessions : Tip(t)' => Tip(t) /\ session'[t].login = session[t].login
  BY <1>1 DEF Tip
<1>8. \A v \in Workers : Pending(v)' => Pending(v) /\ req'[v] = req[v]
  BY <1>3 DEF Pending
<1>9. OneClaim'
  BY <1>7, <1>8 DEF OneClaim
<1> QED
  BY <1>4, <1>5, <1>6, <1>9

\* A logout, or a session's expiry.
LEMMA EndOfSession ==
  ASSUME IInv, ExpireSession \/ \E w \in Workers : RevokeSession(w)
  PROVE  IInv'
<1> USE NullAssumption DEF IInv
<1>1. CASE ExpireSession
  <2>1. PICK s \in Sessions :
          /\ session[s].st = "live" /\ code' = code /\ pc' = pc /\ req' = req
          /\ session' = [session EXCEPT ![s] = [@ EXCEPT !.st = "expired"]]
    BY <1>1 DEF ExpireSession, TypeOK
  <2>2. session[s] \in SessionRow
    BY DEF TypeOK, SessionRow
  <2>3. PICK row : row = [session[s] EXCEPT !.st = "expired"]
    OBVIOUS
  <2>4. /\ row \in SessionRow /\ row.st = "expired" /\ row.heir = session[s].heir
        /\ row.sent = session[s].sent /\ row.login = session[s].login
        /\ session' = [session EXCEPT ![s] = row]
    BY <2>1, <2>2, <2>3 DEF SessionRow, TypeOK
  <2>5. session[s].heir = NoSession
    BY <2>1 DEF RevokedKnown
  <2> QED
    BY <2>1, <2>4, <2>5, TipStays
<1>2. ASSUME NEW w \in Workers, RevokeSession(w) PROVE IInv'
  <2>1. CASE session[req[w].old].st = "revoked"
    BY <1>2, <2>1, EndKeeps DEF RevokeSession, Revoke
  <2>2. CASE session[req[w].old].st # "revoked"
    <3>1. PICK s, row : s = req[w].old /\ row = Revoked(session[s], NoSession)
      OBVIOUS
    <3>2. /\ s \in Sessions /\ session[s].sent /\ session[s].st # "revoked"
          /\ session' = [session EXCEPT ![s] = row] /\ code' = code /\ End(w)
      BY <1>2, <2>2, <3>1 DEF RevokeSession, Revoke, RequestKnown, RequestOK, TypeOK
    <3>3. session[s] \in SessionRow
      BY <3>2 DEF TypeOK, SessionRow
    <3>4. /\ row \in SessionRow /\ row.st = "revoked" /\ row.heir = NoSession
          /\ row.sent = session[s].sent /\ row.login = session[s].login
      BY <3>1, <3>3, RevokedRow
    <3>5. session[s].heir = NoSession /\ session[s].st # "none"
      BY <3>2 DEF RevokedKnown, TypeOK
    <3> QED
      BY <3>2, <3>4, <3>5, TipStays
  <2> QED
    BY <2>1, <2>2
<1> QED
  BY <1>1, <1>2

\* Every step keeps the invariant.
LEMMA NextInv == IInv /\ [Next]_vars => IInv'
<1> SUFFICES ASSUME IInv, [Next]_vars PROVE IInv'
  OBVIOUS
<1>1. CASE UNCHANGED vars
  BY <1>1 DEF vars, IInv, TypeOK, RevokedKnown, RequestKnown, RequestOK, OneClaim, Tip, Pending
<1>2. ASSUME NEW w \in Workers, Abort(w) PROVE IInv'
  BY <1>2, EndKeeps DEF Abort
<1> QED
  BY <1>1, <1>2, CodeSteps, ConsumeStep, ReadStep, IssueStep, ReplaceStep, AnswerStep,
     EndOfSession DEF Next

\* The invariant holds of every state of the system.
THEOREM InvHolds == Spec => []IInv
BY InitInv, NextInv, PTL DEF Spec

\* For any number of requests, logins and sessions: a login never has two
\* refresh tokens that work.
THEOREM OneTokenPerLoginHolds == Spec => []OneTokenPerLogin
<1>1. IInv => OneTokenPerLogin
  BY DEF IInv, OneClaim, RevokedKnown, OneTokenPerLogin, Usable, Tip
<1> QED
  BY <1>1, InvHolds, PTL

\* For any number of requests, logins and sessions: once a session of a login
\* has been logged out, none of the login's tokens works.
THEOREM LogoutEndsLoginHolds == Spec => []LogoutEndsLogin
<1>1. IInv => LogoutEndsLogin
  BY DEF IInv, OneClaim, RevokedKnown, LogoutEndsLogin, Usable, Tip
<1> QED
  BY <1>1, InvHolds, PTL

-----------------------------------------------------------------------------
(***************************************************************************)
(* The chain of a login.  A rotation that is about to answer has made its  *)
(* new session the old one's heir, and nothing revokes a session twice, so *)
(* the heir of a session that was replaced never changes.                  *)
(***************************************************************************)
Rotating(w) ==
  /\ pc[w] \in {"replace", "answer"} => session[req[w].new].from = req[w].old
  /\ pc[w] = "answer" /\ req[w].old \in Sessions =>
       session[req[w].old].st = "revoked" /\ session[req[w].old].heir = req[w].new

HeirInv == HeirIsSent /\ \A w \in Workers : Rotating(w)

\* Revoked sessions stay as they are, requests go no further, and no client
\* has got a token: the chain is what it was.
LEMMA ChainStays ==
  ASSUME IInv, HeirInv,
         \A s \in Sessions : /\ session[s].st = "revoked" => session'[s] = session[s]
                             /\ session'[s].sent => session[s].sent
                             /\ session[s].st # "none" => session'[s].from = session[s].from,
         \A v \in Workers : \/ pc'[v] \notin {"replace", "answer"}
                            \/ pc'[v] = pc[v] /\ req'[v] = req[v]
  PROVE  HeirInv'
<1> USE NullAssumption
<1>1. \A s \in Sessions : session[s].sent => session[s].st # "none"
  BY DEF IInv, RevokedKnown, TypeOK
<1>2. HeirIsSent'
  BY <1>1 DEF HeirInv, HeirIsSent
<1>3. ASSUME NEW v \in Workers PROVE Rotating(v)'
  <2>1. CASE pc'[v] \notin {"replace", "answer"}
    BY <2>1 DEF Rotating
  <2>2. CASE pc'[v] = pc[v] /\ req'[v] = req[v] /\ pc[v] \in {"replace", "answer"}
    <3>1. req[v].new \in Sessions /\ session[req[v].new].st # "none"
      BY <2>2 DEF IInv, RequestKnown, RequestOK, TypeOK
    <3>2. session'[req[v].new].from = session[req[v].new].from
      BY <3>1
    <3> QED
      BY <2>2, <3>2 DEF HeirInv, Rotating
  <2> QED
    BY <2>1, <2>2
<1> QED
  BY <1>2, <1>3 DEF HeirInv

\* Its steps.
LEMMA HeirNext ==
  ASSUME IInv, HeirInv, [Next]_vars
  PROVE  HeirInv'
<1> USE NullAssumption DEF End, Goto
<1>0. \A v \in Workers : pc[v] \in Steps
  BY DEF IInv, TypeOK
<1>1. CASE UNCHANGED vars
  BY <1>1, ChainStays DEF vars
<1>2. CASE IssueAuthCode \/ ExpireAuthCode \/ Restart
  BY <1>2, ChainStays DEF IssueAuthCode, ExpireAuthCode, Restart
<1>3. CASE ExpireSession
  <2>1. PICK s \in Sessions :
          /\ session[s].st = "live" /\ session' = [session EXCEPT ![s].st = "expired"]
          /\ pc' = pc /\ req' = req
    BY <1>3 DEF ExpireSession
  <2>2. session'[s] = [session[s] EXCEPT !.st = "expired"]
          /\ \A t \in Sessions \ {s} : session'[t] = session[t]
    BY <2>1 DEF IInv, TypeOK
  <2>3. session'[s].from = session[s].from /\ session'[s].sent = session[s].sent
    BY <2>2 DEF IInv, TypeOK
  <2> QED
    BY <2>1, <2>2, <2>3, ChainStays
<1>4. ASSUME NEW w \in Workers,
             ConsumeAuthCode(w) \/ ReadForRotation(w) \/ ReadForLogout(w) \/ Abort(w)
      PROVE  HeirInv'
  <2>1. session' = session /\ pc'[w] \in {"idle", "issue", "logout"}
          /\ \A v \in Workers \ {w} : pc'[v] = pc[v] /\ req'[v] = req[v]
    BY <1>4 DEF ConsumeAuthCode, ReadForRotation, ReadForLogout, Abort, IInv, TypeOK
  <2> QED
    BY <2>1, ChainStays
<1>5. ASSUME NEW w \in Workers, IssueSession(w) PROVE HeirInv'
  <2>1. PICK s \in Sessions :
          /\ pc[w] = "issue" /\ session[s].st = "none"
          /\ session' = [session EXCEPT ![s] = NewRow(req[w].login, req[w].old)]
          /\ req' = [req EXCEPT ![w].new = s]
          /\ pc' = [pc EXCEPT ![w] = IF req[w].old = NoSession THEN "answer" ELSE "replace"]
    BY <1>5 DEF IssueSession
  <2>2. PICK row : row = NewRow(req[w].login, req[w].old)
    OBVIOUS
  <2>3. row.from = req[w].old /\ ~row.sent
    BY <2>2 DEF NewRow, NoRow
  <2>4. session'[s] = row /\ \A t \in Sessions \ {s} : session'[t] = session[t]
    BY <2>1, <2>2 DEF IInv, TypeOK
  <2>5. /\ req'[w].new = s /\ req'[w].old = req[w].old
        /\ pc'[w] = IF req[w].old = NoSession THEN "answer" ELSE "replace"
        /\ \A v \in Workers \ {w} : pc'[v] = pc[v] /\ req'[v] = req[v]
    BY <2>1 DEF IInv, TypeOK
  <2>6. \A t \in Sessions : session[t].sent \/ session[t].st = "revoked" => t # s
    BY <2>1 DEF IInv, RevokedKnown, TypeOK
  <2>7. HeirIsSent'
    BY <2>3, <2>4, <2>6 DEF HeirInv, HeirIsSent
  <2>8. Rotating(w)'
    BY <2>3, <2>4, <2>5 DEF Rotating
  <2>9. ASSUME NEW v \in Workers \ {w} PROVE Rotating(v)'
    <3>1. pc[v] \in {"replace", "answer"} => req[v].new \in Sessions /\ req[v].new # s
      BY <2>1 DEF IInv, RequestKnown, RequestOK, TypeOK
    <3> QED
      BY <2>4, <2>5, <2>6, <3>1 DEF HeirInv, Rotating
  <2> QED
    BY <2>7, <2>8, <2>9 DEF HeirInv
<1>6. ASSUME NEW w \in Workers, NEW s \in Sessions, NEW heir,
             session[s].st # "revoked", session' = [session EXCEPT ![s] = Revoked(@, heir)]
      PROVE  /\ session'[s].st = "revoked" /\ session'[s].heir = heir
             /\ session'[s].sent = session[s].sent /\ session'[s].from = session[s].from
             /\ \A t \in Sessions \ {s} : session'[t] = session[t]
  <2>1. session[s] \in SessionRow
    BY DEF IInv, TypeOK, SessionRow
  <2>2. session'[s] = [session[s] EXCEPT !.st = "revoked", !.heir = heir]
          /\ \A t \in Sessions \ {s} : session'[t] = session[t]
    BY <1>6 DEF Revoked, IInv, TypeOK
  <2> QED
    BY <2>1, <2>2 DEF SessionRow
<1>7. ASSUME NEW w \in Workers, ReplaceSession(w) PROVE HeirInv'
  <2>1. PICK s, n : s = req[w].old /\ n = req[w].new
    OBVIOUS
  <2>2. s \in Sessions /\ pc[w] = "replace"
    BY <1>7, <2>1 DEF ReplaceSession, IInv, RequestKnown, RequestOK
  <2>3. CASE session[s].st = "revoked"
    <3>1. session' = session /\ pc' = [pc EXCEPT ![w] = "idle"] /\ req' = [req EXCEPT ![w] = NoRequest]
      BY <1>7, <2>1, <2>3 DEF ReplaceSession, Revoke
    <3>2. pc'[w] = "idle" /\ \A v \in Workers \ {w} : pc'[v] = pc[v] /\ req'[v] = req[v]
      BY <3>1 DEF IInv, TypeOK
    <3> QED
      BY <3>1, <3>2, ChainStays
  <2>4. CASE session[s].st # "revoked"
    <3>1. /\ session' = [session EXCEPT ![s] = Revoked(@, n)]
          /\ pc' = [pc EXCEPT ![w] = "answer"] /\ req' = req
      BY <1>7, <2>1, <2>4 DEF ReplaceSession, Revoke
    <3>2. /\ session'[s].st = "revoked" /\ session'[s].heir = n
          /\ session'[s].sent = session[s].sent /\ session'[s].from = session[s].from
          /\ \A t \in Sessions \ {s} : session'[t] = session[t]
      BY <1>6, <2>2, <2>4, <3>1
    <3>3. pc'[w] = "answer" /\ \A v \in Workers \ {w} : pc'[v] = pc[v]
      BY <3>1 DEF IInv, TypeOK
    <3>4. \A t \in Sessions : session'[t].from = session[t].from
      BY <3>2
    <3>5. HeirIsSent'
      BY <2>4, <3>2, <3>4 DEF HeirInv, HeirIsSent
    <3>6. \A v \in Workers : pc[v] \in {"replace", "answer"} => req[v].new \in Sessions
      BY DEF IInv, RequestKnown, RequestOK
    <3>7. \A v \in Workers \ {w} : Rotating(v)'
      BY <2>4, <3>1, <3>2, <3>3, <3>4, <3>6 DEF HeirInv, Rotating
    <3>8. Rotating(w)'
      BY <2>1, <2>2, <3>1, <3>2, <3>4, <3>6 DEF HeirInv, Rotating
    <3> QED
      BY <3>5, <3>7, <3>8 DEF HeirInv
  <2> QED
    BY <2>3, <2>4
<1>8. ASSUME NEW w \in Workers, RevokeSession(w) PROVE HeirInv'
  <2>1. PICK s : s = req[w].old
    OBVIOUS
  <2>2. s \in Sessions
    BY <1>8, <2>1 DEF RevokeSession, IInv, RequestKnown, RequestOK
  <2>3. pc'[w] = "idle" /\ \A v \in Workers \ {w} : pc'[v] = pc[v] /\ req'[v] = req[v]
    BY <1>8 DEF RevokeSession, Revoke, IInv, TypeOK
  <2>4. CASE session[s].st = "revoked"
    BY <1>8, <2>1, <2>3, <2>4, ChainStays DEF RevokeSession, Revoke
  <2>5. CASE session[s].st # "revoked"
    <3>1. session' = [session EXCEPT ![s] = Revoked(@, NoSession)]
      BY <1>8, <2>1, <2>5 DEF RevokeSession, Revoke
    <3>2. /\ session'[s].sent = session[s].sent /\ session'[s].from = session[s].from
          /\ \A t \in Sessions \ {s} : session'[t] = session[t]
      BY <1>6, <2>2, <2>5, <3>1
    <3> QED
      BY <2>3, <2>5, <3>2, ChainStays
  <2> QED
    BY <2>4, <2>5
<1>9. ASSUME NEW w \in Workers, Answer(w) PROVE HeirInv'
  <2>1. PICK n : n = req[w].new
    OBVIOUS
  <2>2. /\ pc[w] = "answer" /\ n \in Sessions
        /\ session' = [session EXCEPT ![n].sent = TRUE]
    BY <1>9, <2>1 DEF Answer, IInv, RequestKnown, RequestOK
  <2>3. pc'[w] = "idle" /\ \A v \in Workers \ {w} : pc'[v] = pc[v] /\ req'[v] = req[v]
    BY <1>9 DEF Answer, IInv, TypeOK
  <2>4. \A t \in Sessions : /\ session'[t].st = session[t].st /\ session'[t].from = session[t].from
                            /\ session'[t].heir = session[t].heir
                            /\ t # n => session'[t].sent = session[t].sent
    <3>1. session'[n] = [session[n] EXCEPT !.sent = TRUE]
            /\ \A t \in Sessions \ {n} : session'[t] = session[t]
      BY <2>2 DEF IInv, TypeOK
    <3>2. session[n] \in SessionRow
      BY <2>2 DEF IInv, TypeOK, SessionRow
    <3>3. /\ session'[n].st = session[n].st /\ session'[n].from = session[n].from
          /\ session'[n].heir = session[n].heir
      BY <3>1, <3>2 DEF SessionRow
    <3> QED
      BY <3>1, <3>3
  <2>5. HeirIsSent'
    <3>1. \A s \in Sessions : session[n].from = s => session[s].st = "revoked" /\ session[s].heir = n
      BY <2>1, <2>2 DEF HeirInv, Rotating
    <3> QED
      BY <2>4, <3>1 DEF HeirInv, HeirIsSent
  <2>6. ASSUME NEW v \in Workers PROVE Rotating(v)'
    <3>1. pc[v] \in {"replace", "answer"} => req[v].new \in Sessions
      BY DEF IInv, RequestKnown, RequestOK
    <3> QED
      BY <2>3, <2>4, <3>1 DEF HeirInv, Rotating
  <2> QED
    BY <2>5, <2>6 DEF HeirInv
<1> QED
  BY <1>1, <1>2, <1>3, <1>4, <1>5, <1>7, <1>8, <1>9 DEF Next

\* For any number of requests, logins and sessions: replaced_by_session_id
\* leads from every session a client has exchanged to the one it got for it,
\* whichever of the rotations that raced was answered.
THEOREM HeirIsSentHolds == Spec => []HeirIsSent
<1>1. Init => IInv /\ HeirInv
  BY InitInv DEF Init, NoRow, HeirInv, HeirIsSent, Rotating
<1>2. IInv /\ HeirInv /\ [Next]_vars => (IInv /\ HeirInv)'
  BY NextInv, HeirNext
<1>3. HeirInv => HeirIsSent
  BY DEF HeirInv
<1> QED
  BY <1>1, <1>2, <1>3, PTL DEF Spec
=============================================================================
