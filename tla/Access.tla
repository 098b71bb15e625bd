------------------------------- MODULE Access -------------------------------
(***************************************************************************)
(* Who may sign in and who administers: the global admin, the bootstrap at *)
(* server start, invites to a business, and the registration of passkeys   *)
(* with an invite or an enrollment token.                                  *)
(*                                                                         *)
(* A registration is a request to begin and one to finish, joined by a     *)
(* ceremony in the server's memory; tokens are looked up on the pool       *)
(* before the transaction that uses them.  UPDATE and DELETE take the rows *)
(* their statement saw: they wait for a row another transaction holds and  *)
(* skip it if that transaction changed it out of their condition.  A crash *)
(* of the server undoes what has not committed and forgets the ceremonies. *)
(* A last statement and its COMMIT are one step: nobody sees between them. *)
(***************************************************************************)
EXTENDS Naturals, FiniteSets

CONSTANTS
  Workers,     \* requests that may be in flight at the same time
  Users,       \* accounts, made or not, by their email
  Boss,        \* DENARIX_BOOTSTRAP_ADMIN_EMAIL
  Invited,     \* BOUND: the emails that may be invited
  Invites,     \* BOUND: rows of business_invite, all to one business
  Passkeys,    \* BOUND: rows of webauthn_credential
  MaxRow,      \* BOUND: rows of credential_enrollment for one user
  NoUser, NoInvite, NoWorker

ASSUME BossAssumption == Boss \in Users /\ MaxRow \in Nat \ {0}
ASSUME InvitedAssumption == Invited \subseteq Users
ASSUME MemberAssumption == {"no", "yes", "owner"} \intersect Workers = {}
ASSUME NullAssumption == NoUser \notin Users /\ NoInvite \notin Invites /\ NoWorker \notin Workers

VARIABLES
  server,    \* how far the server has started, and its reset setting while it does
  users,     \* app_user: the accounts that exist
  admins,    \* app_user.is_global_admin, as committed
  cleared,   \* the transaction that has cleared an admin's flag and not ended
  passkey,   \* webauthn_credential
  enroll,    \* credential_enrollment: the newest row of each user
  invite,    \* business_invite
  member,    \* business_user: "no", a transaction inserting the row, "yes", or
             \* "owner" of whoever created the business
  pc, req    \* what each request does next, was given and has read

auth == <<admins, cleared>>
vars == <<server, users, auth, passkey, enroll, invite, member, pc, req>>

NoPasskey == [st |-> "none", user |-> NoUser, via |-> NoInvite, replaces |-> {}, by |-> NoWorker]
NoEnrollment == [st |-> "none", revoke |-> FALSE, row |-> 0]
NoRequest == [user |-> NoUser, rows |-> {}, invite |-> NoInvite, signedIn |-> FALSE,
              row |-> 0, old |-> {}]

Init ==
  /\ server = [at |-> "down", reset |-> FALSE]
  /\ users = {} /\ admins = {}
  /\ cleared = [u \in Users |-> NoWorker]
  /\ passkey = [k \in Passkeys |-> NoPasskey]
  /\ enroll = [u \in Users |-> NoEnrollment]
  /\ invite = [i \in Invites |-> [st |-> "none", user |-> NoUser, revoked |-> FALSE]]
  /\ member = [u \in Users |-> "no"]
  /\ pc = [w \in Workers |-> "idle"]
  /\ req = [w \in Workers |-> NoRequest]

Up == server.at = "up"
Idle(w) == Up /\ pc[w] = "idle"
Goto(w, step) == pc' = [pc EXCEPT ![w] = step]
End(w) == Goto(w, "idle") /\ req' = [req EXCEPT ![w] = NoRequest]

\* The passkeys of a user that a statement sees.
Of(u) == {k \in Passkeys : passkey[k].st = "live" /\ passkey[k].user = u}

\* ROLLBACK of the transactions of the requests in ws.
Rollback(ws) ==
  /\ passkey' = [k \in Passkeys |-> [passkey[k] EXCEPT !.by = IF @ \in ws THEN NoWorker ELSE @]]
  /\ member' = [u \in Users |-> IF member[u] \in ws THEN "no" ELSE member[u]]
  /\ cleared' = [u \in Users |-> IF cleared[u] \in ws THEN NoWorker ELSE cleared[u]]

Fail(w) == Rollback({w}) /\ End(w) /\ UNCHANGED <<server, users, admins, enroll, invite>>

\* A lost connection, an abandoned ceremony, a cancelled context.
Abort(w) == pc[w] # "idle" /\ Fail(w)

-----------------------------------------------------------------------------
(* Tokens.  A token opens the row that holds its hash.                     *)

Pending(u) == enroll[u].st = "pending"
Open(i) == invite[i].st = "pending" /\ ~invite[i].revoked

\* CreateCredentialEnrollment: a new token in the user's unconsumed row, or in
\* a new row when there is none.
Minted(old, revoke) ==
  [st |-> "pending", revoke |-> revoke,
   row |-> IF old.st \in {"pending", "expired"} THEN old.row ELSE old.row + 1]
MayMint(u) == enroll[u].st \in {"pending", "expired"} \/ enroll[u].row < MaxRow

\* ConsumeCredentialEnrollment, by the row the token was found in.
Consumed(old, row) == IF old.row = row THEN [old EXCEPT !.st = "consumed"] ELSE old

\* A global admin, or an owner or admin of the business, is there to ask.
Manager == admins # {} \/ \E u \in Users : member[u] \in {"yes", "owner"}

ResetUserCredentials ==
  \E u \in users, keep \in BOOLEAN :
    /\ Up /\ Manager /\ MayMint(u)
    /\ enroll' = [enroll EXCEPT ![u] = Minted(@, ~keep)]
    /\ UNCHANGED <<server, users, auth, passkey, invite, member, pc, req>>

\* By a global admin, who becomes the OWNER; a business keeps its members.
CreateBusiness ==
  \E u \in admins :
    /\ Up /\ \A v \in Users : member[v] = "no"
    /\ member' = [member EXCEPT ![u] = "owner"]
    /\ UNCHANGED <<server, users, auth, passkey, enroll, invite, pc, req>>

\* One open invite per email, expired or not: a second insert fails.  Anybody
\* may be invited, who is a member already too.
CreateBusinessInvite ==
  \E i \in Invites, u \in Invited :
    /\ Up /\ Manager /\ invite[i].st = "none"
    /\ \E v \in Users : member[v] = "owner"
    /\ \A j \in Invites : invite[j].user = u => invite[j].revoked \/ invite[j].st = "accepted"
    /\ invite' = [invite EXCEPT ![i] = [st |-> "pending", user |-> u, revoked |-> FALSE]]
    /\ UNCHANGED <<server, users, auth, passkey, enroll, member, pc, req>>

RevokeBusinessInvite ==
  \E i \in Invites :
    /\ Up /\ Manager /\ invite[i].st \in {"pending", "expired"} /\ ~invite[i].revoked
    /\ invite' = [invite EXCEPT ![i].revoked = TRUE]
    /\ UNCHANGED <<server, users, auth, passkey, enroll, member, pc, req>>

\* expires_at passes.
Expire ==
  /\ \/ \E i \in Invites : Open(i) /\ invite' = [invite EXCEPT ![i].st = "expired"] /\ UNCHANGED enroll
     \/ \E u \in Users : Pending(u) /\ enroll' = [enroll EXCEPT ![u].st = "expired"] /\ UNCHANGED invite
  /\ UNCHANGED <<server, users, auth, passkey, member, pc, req>>

-----------------------------------------------------------------------------
(* The global admin.                                                       *)

\* SetGlobalAdmin: the caller is the admin when the request begins.
AskAdmin(w) ==
  \E u \in users, step \in {"clear", "drop"} :
    /\ Idle(w) /\ admins # {}
    /\ req' = [req EXCEPT ![w].user = u]
    /\ Goto(w, step)
    /\ UNCHANGED <<server, users, auth, passkey, enroll, invite, member>>

\* ClearGlobalAdmin: what the statement sees ...
SeeAdmins(w) ==
  /\ pc[w] = "clear"
  /\ req' = [req EXCEPT ![w].rows = admins]
  /\ Goto(w, "clearing")
  /\ UNCHANGED <<server, users, auth, passkey, enroll, invite, member>>

\* ... and what it then clears.  (variant: the statement commits on its own)
ClearFlagsAtOnce(w) == admins' = admins \ req[w].rows /\ UNCHANGED cleared
ClearFlags(w) ==
  /\ cleared' = [u \in Users |-> IF u \in req[w].rows \intersect admins THEN w ELSE cleared[u]]
  /\ UNCHANGED admins

ClearGlobalAdmin(w) ==
  /\ pc[w] = "clearing" /\ \A u \in req[w].rows : cleared[u] = NoWorker
  /\ ClearFlags(w)
  /\ Goto(w, "set")
  /\ UNCHANGED <<server, users, passkey, enroll, invite, member, req>>

\* The single-admin index: who would be admin beside u once w commits.
OtherAdmins(w, u) == {v \in admins \ {u} : cleared[v] # w}

\* SetGlobalAdmin and COMMIT, once no open transaction can make way.
SetGlobalAdmin(w) ==
  LET u == req[w].user  others == OtherAdmins(w, u) IN
  /\ pc[w] = "set"
  /\ cleared[u] \in {NoWorker, w} /\ \A v \in others : cleared[v] = NoWorker
  /\ IF others # {} THEN Fail(w)
     ELSE /\ admins' = {v \in admins : cleared[v] # w} \union {u}
          /\ Rollback({w}) /\ End(w)
          /\ UNCHANGED <<server, users, enroll, invite>>

\* RevokeGlobalAdmin: one statement on the pool.
RevokeGlobalAdmin(w) ==
  /\ pc[w] = "drop" /\ cleared[req[w].user] = NoWorker
  /\ admins' = admins \ {req[w].user}
  /\ End(w)
  /\ UNCHANGED <<server, users, cleared, passkey, enroll, invite, member>>

-----------------------------------------------------------------------------
(* Registration and acceptance.                                            *)

\* resolveRegistrationTarget: an invite only ever opens an account without a
\* passkey.
Registers(i, u) == Open(i) /\ invite[i].user = u /\ Of(u) = {}

\* BeginRegistration makes the account an invite is for.
BeginRegistration(w) ==
  \E u \in Users :
    /\ Idle(w) /\ (Pending(u) \/ \E i \in Invites : Registers(i, u))
    /\ users' = users \union {u}
    /\ req' = [req EXCEPT ![w].user = u]
    /\ Goto(w, "ceremony")
    /\ UNCHANGED <<server, auth, passkey, enroll, invite, member>>

\* FinishRegistration resolves the token again, outside its transaction.
FinishWithEnrollment(w) ==
  LET u == req[w].user IN
  /\ pc[w] = "ceremony" /\ Pending(u)
  /\ req' = [req EXCEPT ![w].row = enroll[u].row, ![w].old = IF enroll[u].revoke THEN Of(u) ELSE {}]
  /\ Goto(w, IF enroll[u].revoke THEN "revoke" ELSE "register")
  /\ UNCHANGED <<server, users, auth, passkey, enroll, invite, member>>

FinishWithInvite(w) ==
  \E i \in Invites :
    /\ pc[w] = "ceremony" /\ Registers(i, req[w].user)
    /\ req' = [req EXCEPT ![w].invite = i]
    /\ Goto(w, "join")
    /\ UNCHANGED <<server, users, auth, passkey, enroll, invite, member>>

\* AcceptBusinessInvite, by the signed-in user it was sent to.
AcceptBusinessInvite(w) ==
  \E i \in Invites :
    /\ Idle(w) /\ Open(i) /\ Of(invite[i].user) # {}
    /\ req' = [req EXCEPT ![w].user = invite[i].user, ![w].invite = i, ![w].signedIn = TRUE]
    /\ Goto(w, "join")
    /\ UNCHANGED <<server, users, auth, passkey, enroll, invite, member>>

\* DeleteWebAuthnCredentialsForUser: what the statement sees ...
SeePasskeys(w) ==
  /\ pc[w] = "revoke"
  /\ req' = [req EXCEPT ![w].rows = Of(req[w].user)]
  /\ Goto(w, "revoking")
  /\ UNCHANGED <<server, users, auth, passkey, enroll, invite, member>>

\* ... and deletes: it waits for rows another transaction is deleting.
\* (variants: it skips them; it commits on its own)
DeletedSkippingLocked(w) ==
  passkey' = [k \in Passkeys |->
    IF k \in req[w].rows /\ passkey[k].by = NoWorker THEN [passkey[k] EXCEPT !.by = w] ELSE passkey[k]]
DeletedAtOnce(w) ==
  passkey' = [k \in Passkeys |->
    IF k \in req[w].rows THEN [passkey[k] EXCEPT !.st = "gone"] ELSE passkey[k]]
Deleted(w) ==
  /\ \A k \in req[w].rows : passkey[k].by = NoWorker
  /\ passkey' = [k \in Passkeys |->
       IF k \in req[w].rows /\ passkey[k].st = "live" THEN [passkey[k] EXCEPT !.by = w] ELSE passkey[k]]

DeletePasskeys(w) ==
  /\ pc[w] = "revoking" /\ Deleted(w)
  /\ Goto(w, "register")
  /\ UNCHANGED <<server, users, auth, enroll, invite, member, req>>

\* CreateWebAuthnCredential and the deletions of w, at COMMIT.
Registered(w, k) ==
  [o \in Passkeys |->
    IF o = k THEN [st |-> "live", user |-> req[w].user, via |-> req[w].invite,
                   replaces |-> req[w].old, by |-> NoWorker]
    ELSE IF passkey[o].by = w THEN [passkey[o] EXCEPT !.st = "gone", !.by = NoWorker]
    ELSE passkey[o]]

RegisterByEnrollment(w) ==
  \E k \in Passkeys :
    /\ pc[w] = "register" /\ passkey[k].st = "none"
    /\ passkey' = Registered(w, k)
    /\ enroll' = [enroll EXCEPT ![req[w].user] = Consumed(@, req[w].row)]
    /\ End(w)
    /\ UNCHANGED <<server, users, auth, invite, member>>

\* CreateBusinessUser waits for a transaction that inserts the same member and
\* fails when there is one.  (variant: the insert commits on its own)
MemberAtOnce(w, u) == member[u] = "no" /\ member' = [member EXCEPT ![u] = "yes"] /\ Goto(w, "accept")
CreateMember(w, u) == member[u] = "no" /\ member' = [member EXCEPT ![u] = w] /\ Goto(w, "accept")

Join(w) ==
  /\ pc[w] = "join"
  /\ \/ /\ CreateMember(w, req[w].user)
        /\ UNCHANGED <<server, users, auth, passkey, enroll, invite, req>>
     \/ member[req[w].user] \in {"yes", "owner"} /\ Fail(w)

\* AcceptBusinessInvite's UPDATE, whose WHERE names the row only, and COMMIT.
AcceptInvite(w) ==
  /\ pc[w] = "accept"
  /\ invite' = [invite EXCEPT ![req[w].invite].st = "accepted"]
  /\ member' = [member EXCEPT ![req[w].user] = "yes"]
  /\ IF req[w].signedIn THEN UNCHANGED passkey
     ELSE \E k \in Passkeys : passkey[k].st = "none" /\ passkey' = Registered(w, k)
  /\ End(w)
  /\ UNCHANGED <<server, users, auth, enroll>>

-----------------------------------------------------------------------------
(* The server's start: EnsureBootstrapAdmin, with no request in flight.    *)

Boot(step) == server' = [server EXCEPT !.at = step]
Settled(at) == server' = [at |-> at, reset |-> FALSE]

StartServer ==
  \E reset \in BOOLEAN :
    /\ server.at = "down"
    /\ server' = [at |-> "boot", reset |-> reset]
    /\ UNCHANGED <<users, auth, passkey, enroll, invite, member, pc, req>>

\* An admin and no reset: nothing to do.  Otherwise the account is made.
FindAdmin ==
  /\ server.at = "boot"
  /\ IF admins # {} /\ ~server.reset THEN Settled("up") /\ UNCHANGED users
     ELSE /\ users' = users \union {Boss}
          /\ Boot(IF admins = {Boss} THEN "mint" ELSE "grant")
  /\ UNCHANGED <<auth, passkey, enroll, invite, member, pc, req>>

GrantBoss ==
  /\ server.at = "grant"
  /\ admins' = {Boss}
  /\ Boot("mint")
  /\ UNCHANGED <<users, cleared, passkey, enroll, invite, member, pc, req>>

\* A token still pending is not replaced.
MintForBoss ==
  /\ server.at = "mint" /\ (Pending(Boss) \/ MayMint(Boss))
  /\ enroll' = [enroll EXCEPT ![Boss] = IF Pending(Boss) THEN @ ELSE Minted(@, server.reset)]
  /\ Settled("up")
  /\ UNCHANGED <<users, auth, passkey, invite, member, pc, req>>

Crash ==
  /\ server.at # "down"
  /\ Settled("down")
  /\ Rollback(Workers)
  /\ pc' = [w \in Workers |-> "idle"] /\ req' = [w \in Workers |-> NoRequest]
  /\ UNCHANGED <<users, admins, enroll, invite>>

Step(w) ==
  \/ AskAdmin(w) \/ SeeAdmins(w) \/ ClearGlobalAdmin(w) \/ SetGlobalAdmin(w) \/ RevokeGlobalAdmin(w)
  \/ BeginRegistration(w) \/ FinishWithEnrollment(w) \/ FinishWithInvite(w) \/ AcceptBusinessInvite(w)
  \/ SeePasskeys(w) \/ DeletePasskeys(w) \/ RegisterByEnrollment(w)
  \/ Join(w) \/ AcceptInvite(w) \/ Abort(w)

Next ==
  \/ \E w \in Workers : Step(w)
  \/ ResetUserCredentials \/ CreateBusiness \/ CreateBusinessInvite \/ RevokeBusinessInvite \/ Expire
  \/ StartServer \/ FindAdmin \/ GrantBoss \/ MintForBoss \/ Crash

Spec == Init /\ [][Next]_vars

-----------------------------------------------------------------------------
\* There is never more than one global admin, whatever transfers overlap, and
\* no transfer, failure or restart leaves none, at no instant: only revoking the
\* one there is does (admin.go GrantGlobalAdmin, RevokeGlobalAdmin).
OneAdmin ==
  [][/\ Cardinality(admins') <= 1
     /\ admins # {} /\ admins' = {} =>
          \E w \in Workers : pc[w] = "drop" /\ admins = {req[w].user}]_admins

\* An invite opens one account at most, and accounts do not exist without the
\* access they were invited for: the passkey it registered, the membership and
\* the acceptance come together (webauthn.go FinishRegistration), though two
\* ceremonies and a signed-in acceptance race for the same invite.
InviteHonoured ==
  /\ \A k, l \in Passkeys : passkey[k].via = passkey[l].via /\ passkey[k].via # NoInvite => k = l
  /\ \A k \in Passkeys : passkey[k].via # NoInvite => invite[passkey[k].via].st = "accepted"
  /\ \A u \in Users : member[u] = "yes" <=> \E i \in Invites : invite[i].user = u /\ invite[i].st = "accepted"

\* Redeeming a reset ends every passkey the account had when the token was
\* read, even while another reset is being redeemed or given up.
ResetRevokes ==
  \A k \in Passkeys : \A o \in passkey[k].replaces : passkey[o].st = "gone"

\* No reset, failure or restart takes away an account's last passkey
\* (bootstrap.go: "never locks the admin out").
NeverLockedOut == [][\A u \in Users : Of(u) # {} => Of(u)' # {}]_passkey
=============================================================================
