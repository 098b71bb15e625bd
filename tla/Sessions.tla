------------------------------ MODULE Sessions ------------------------------
(***************************************************************************)
(* Logins, refresh tokens and logouts.                                     *)
(*                                                                         *)
(* A finished login leaves a one-time code in the server's memory.  The    *)
(* command line client exchanges it for a session, a row of user_session,  *)
(* whose refresh token the server gives out once and does not keep.        *)
(* Refreshing inserts a new session and then revokes the old one; logging  *)
(* out revokes.  None of the three runs in a transaction: each statement   *)
(* commits on its own, a request may die after any of them, and a client   *)
(* may send the same token in several requests.  A restart of the server   *)
(* forgets the codes and ends the requests; the sessions stay.             *)
(***************************************************************************)
EXTENDS Naturals, FiniteSets

CONSTANTS
  Workers,     \* requests that may be in flight at the same time
  Codes,       \* BOUND: the one-time codes of the logins
  Sessions,    \* BOUND: ids of user_session rows
  NoCode, NoSession

ASSUME NullAssumption == NoCode \notin Codes /\ NoSession \notin Sessions

VARIABLES
  code,      \* authCodeStore, and which codes have not been issued yet
  session,   \* the user_session table
  pc,        \* what each request does next
  req        \* what each request was given and has read

vars == <<code, session, pc, req>>

\* login: the code whose exchange began the chain of sessions.  from: the
\* session it was inserted to replace.  heir: replaced_by_session_id.
\* sent: its token has been given to a client.
NoRow == [st |-> "none", login |-> NoCode, from |-> NoSession, heir |-> NoSession, sent |-> FALSE]
NewRow(login, from) == [NoRow EXCEPT !.st = "live", !.login = login, !.from = from]

Revoked(row, heir) == [row EXCEPT !.st = "revoked", !.heir = heir]

NoRequest == [login |-> NoCode, old |-> NoSession, new |-> NoSession]

Init ==
  /\ code = [c \in Codes |-> "unissued"]
  /\ session = [s \in Sessions |-> NoRow]
  /\ pc = [w \in Workers |-> "idle"]
  /\ req = [w \in Workers |-> NoRequest]

Goto(w, step) == pc' = [pc EXCEPT ![w] = step]

\* The request ends, with an answer or without.
End(w) == Goto(w, "idle") /\ req' = [req EXCEPT ![w] = NoRequest]

\* A token that a client may send: it was given out once.
Known(s) == session[s].sent

-----------------------------------------------------------------------------
\* The browser has finished the ceremony.
IssueAuthCode ==
  \E c \in Codes :
    /\ code[c] = "unissued"
    /\ code' = [code EXCEPT ![c] = "issued"]
    /\ UNCHANGED <<session, pc, req>>

\* A code not exchanged within authCodeTTL is as good as gone.
ExpireAuthCode ==
  \E c \in Codes :
    /\ code[c] = "issued"
    /\ code' = [code EXCEPT ![c] = "gone"]
    /\ UNCHANGED <<session, pc, req>>

\* ExchangeCode takes the code from the store under its mutex.  (variant: the
\* code is only deleted once the session is there)
ConsumeAuthCodeLater(w) ==
  \E c \in Codes :
    /\ pc[w] = "idle" /\ code[c] = "issued"
    /\ req' = [req EXCEPT ![w].login = c]
    /\ Goto(w, "issue")
    /\ UNCHANGED <<code, session>>
ConsumeAuthCode(w) ==
  \E c \in Codes :
    /\ pc[w] = "idle" /\ code[c] = "issued"
    /\ code' = [code EXCEPT ![c] = "gone"]
    /\ req' = [req EXCEPT ![w].login = c]
    /\ Goto(w, "issue")
    /\ UNCHANGED session

\* RefreshToken reads the session by its token.
ReadForRotation(w) ==
  \E s \in Sessions :
    /\ pc[w] = "idle" /\ Known(s) /\ session[s].st = "live"
    /\ req' = [req EXCEPT ![w] = [login |-> session[s].login, old |-> s, new |-> NoSession]]
    /\ Goto(w, "issue")
    /\ UNCHANGED <<code, session>>

\* IssueSession, for an exchange or a rotation.
IssueSession(w) ==
  \E s \in Sessions :
    /\ pc[w] = "issue" /\ session[s].st = "none"
    /\ session' = [session EXCEPT ![s] = NewRow(req[w].login, req[w].old)]
    /\ req' = [req EXCEPT ![w].new = s]
    /\ Goto(w, IF req[w].old = NoSession THEN "answer" ELSE "replace")
    /\ UNCHANGED code

\* RevokeUserSession, of a session nobody has revoked yet: otherwise no row
\* comes back and the request fails.  (variant: any session)
RevokeAny(w, heir, done) ==
  /\ session' = [session EXCEPT ![req[w].old] = Revoked(@, heir)]
  /\ done
Revoke(w, heir, done) ==
  IF session[req[w].old].st = "revoked" THEN End(w) /\ UNCHANGED session
  ELSE /\ session' = [session EXCEPT ![req[w].old] = Revoked(@, heir)]
       /\ done

\* RotateSession replaces the old session by the new one.
ReplaceSession(w) ==
  /\ pc[w] = "replace"
  /\ Revoke(w, req[w].new, Goto(w, "answer") /\ UNCHANGED req)
  /\ UNCHANGED code

\* The user has been read and the client gets the new token.
Answer(w) ==
  /\ pc[w] = "answer"
  /\ session' = [session EXCEPT ![req[w].new].sent = TRUE]
  /\ End(w)
  /\ UNCHANGED code

\* Logout reads the session; a token without a live one is no error.
ReadForLogout(w) ==
  \E s \in Sessions :
    /\ pc[w] = "idle" /\ Known(s) /\ session[s].st = "live"
    /\ req' = [req EXCEPT ![w].old = s]
    /\ Goto(w, "logout")
    /\ UNCHANGED <<code, session>>

RevokeSession(w) ==
  /\ pc[w] = "logout"
  /\ Revoke(w, NoSession, End(w))
  /\ UNCHANGED code

\* RefreshTokenTTL is over.  RevokeUserSession does not look at it.
ExpireSession ==
  \E s \in Sessions :
    /\ session[s].st = "live"
    /\ session' = [session EXCEPT ![s].st = "expired"]
    /\ UNCHANGED <<code, pc, req>>

\* A statement fails, the client goes away: what was written stays.
Abort(w) == pc[w] # "idle" /\ End(w) /\ UNCHANGED <<code, session>>

Restart ==
  /\ code' = [c \in Codes |-> IF code[c] = "issued" THEN "gone" ELSE code[c]]
  /\ pc' = [w \in Workers |-> "idle"]
  /\ req' = [w \in Workers |-> NoRequest]
  /\ UNCHANGED session

Next ==
  \/ IssueAuthCode \/ ExpireAuthCode \/ ExpireSession \/ Restart
  \/ \E w \in Workers : \/ ConsumeAuthCode(w) \/ ReadForRotation(w) \/ IssueSession(w)
                        \/ ReplaceSession(w) \/ Answer(w)
                        \/ ReadForLogout(w) \/ RevokeSession(w) \/ Abort(w)

Spec == Init /\ [][Next]_vars

-----------------------------------------------------------------------------
(***************************************************************************)
(* Properties.                                                             *)
(***************************************************************************)
Steps == {"idle", "issue", "replace", "answer", "logout"}

\* Rows and requests have their types, and every session has a login.
TypeOK ==
  /\ code \in [Codes -> {"unissued", "issued", "gone"}]
  /\ session \in [Sessions -> [st : {"none", "live", "expired", "revoked"},
                               login : Codes \union {NoCode},
                               from : Sessions \union {NoSession},
                               heir : Sessions \union {NoSession}, sent : BOOLEAN]]
  /\ \A s \in Sessions : (session[s].st = "none") = (session[s].login = NoCode)
  /\ pc \in [Workers -> Steps]
  /\ req \in [Workers -> [login : Codes \union {NoCode}, old : Sessions \union {NoSession},
                          new : Sessions \union {NoSession}]]

\* The tokens of a login that a client has and that still work.
Usable(c) == {s \in Sessions : session[s].login = c /\ session[s].sent /\ session[s].st = "live"}

\* However often a code or a token is sent, and wherever the requests or the
\* server die, one login has at most one token that works.
OneTokenPerLogin == \A c \in Codes : \A s, t \in Usable(c) : s = t

\* A session revoked without a successor was logged out: no token of its login
\* works any more, and no rotation still in flight brings one back.
LogoutEndsLogin ==
  \A s \in Sessions :
    session[s].st = "revoked" /\ session[s].heir = NoSession => Usable(session[s].login) = {}

\* replaced_by_session_id leads from a session to the one the client was given
\* for it.
HeirIsSent ==
  \A s, t \in Sessions : session[t].sent /\ session[t].from = s =>
    session[s].st = "revoked" /\ session[s].heir = t
=============================================================================
