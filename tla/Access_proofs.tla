---------------------------- MODULE Access_proofs ----------------------------
(***************************************************************************)
(* Theorems about Access, for any number of requests, users, invites and   *)
(* passkeys.                                                               *)
(*                                                                         *)
(* Requests get at each other's rows in two places only: a transaction     *)
(* that has inserted a member keeps every other one from inserting it, and *)
(* one that has deleted passkeys keeps every other one from deleting them. *)
(* The invariant says which rows a request holds at which of its steps,    *)
(* and what the passkeys a reset has promised to end have come to.         *)
(***************************************************************************)
EXTENDS Access, FiniteSetTheorems, TLAPS

Steps == {"idle", "clear", "clearing", "set", "drop", "ceremony", "revoke", "revoking",
          "register", "join", "accept"}

PasskeyRow == [st : {"none", "live", "gone"}, user : Users \union {NoUser},
               via : Invites \union {NoInvite}, replaces : SUBSET Passkeys,
               by : Workers \union {NoWorker}]
EnrollmentRow == [st : {"none", "pending", "expired", "consumed"}, revoke : BOOLEAN, row : Nat]
InviteRow == [st : {"none", "pending", "expired", "accepted"}, user : Users \union {NoUser},
              revoked : BOOLEAN]
Request == [user : Users \union {NoUser}, rows : SUBSET (Users \union Passkeys),
            invite : Invites \union {NoInvite}, signedIn : BOOLEAN, row : Nat,
            old : SUBSET Passkeys]

TypeOK ==
  /\ users \subseteq Users /\ admins \subseteq Users
  /\ cleared \in [Users -> Workers \union {NoWorker}]
  /\ passkey \in [Passkeys -> PasskeyRow]
  /\ enroll \in [Users -> EnrollmentRow]
  /\ invite \in [Invites -> InviteRow]
  /\ member \in [Users -> {"no", "yes", "owner"} \union Workers]
  /\ pc \in [Workers -> Steps]
  /\ req \in [Workers -> Request]

\* What a request at step s with what it has read, r, relies on.
RequestOK(w, s, r) ==
  /\ s = "idle" => r = NoRequest
  /\ s \in {"join", "accept"} =>
       /\ r.user \in Users /\ r.invite \in Invites
       /\ invite[r.invite].user = r.user /\ invite[r.invite].st # "none"
  /\ s = "accept" => member[r.user] = w
  /\ s \in {"clear", "clearing", "set", "drop"} => r.user \in Users
  /\ s \in {"ceremony", "revoke", "revoking", "register"} => r.user \in Users /\ r.invite = NoInvite
  /\ s \notin {"revoke", "revoking", "register"} => r.old = {}
  /\ s = "revoke" => \A k \in r.old : passkey[k].st # "none" /\ passkey[k].user = r.user
  /\ s = "revoking" =>
       /\ r.rows \subseteq Passkeys
       /\ \A k \in r.rows : passkey[k].st # "none" /\ passkey[k].user = r.user
       /\ \A k \in r.old : passkey[k].st = "gone" \/ (passkey[k].st = "live" /\ k \in r.rows)
  /\ s = "register" =>
       \A k \in r.old : passkey[k].st = "gone" \/ (passkey[k].st = "live" /\ passkey[k].by = w)

RequestsOK == \A w \in Workers : RequestOK(w, pc[w], req[w])

\* An invite that was sent has a user it was sent to.
InvitesOK == \A i \in Invites : invite[i].st # "none" => invite[i].user \in Users

\* Who holds a row is at the step at which it is held.
HeldOK ==
  /\ \A u \in Users : member[u] \in Workers => pc[member[u]] = "accept" /\ req[member[u]].user = u
  /\ \A k \in Passkeys : passkey[k].by \in Workers =>
       /\ pc[passkey[k].by] = "register" /\ req[passkey[k].by].user = passkey[k].user
       /\ passkey[k].st = "live"

AdminOK == \A u, v \in admins : u = v

IInv == TypeOK /\ RequestsOK /\ InvitesOK /\ HeldOK /\ AdminOK /\ InviteHonoured /\ ResetRevokes

-----------------------------------------------------------------------------
\* Nobody has done anything yet.
LEMMA InitInv == Init => IInv
<1> SUFFICES ASSUME Init PROVE IInv
  OBVIOUS
<1> USE NullAssumption, MemberAssumption DEF Init, NoPasskey, NoEnrollment, NoRequest
<1>1. TypeOK
  BY DEF TypeOK, Steps, PasskeyRow, EnrollmentRow, InviteRow, Request
<1>2. RequestsOK
  BY DEF RequestsOK, RequestOK
<1>3. InvitesOK /\ HeldOK /\ AdminOK
  BY DEF InvitesOK, HeldOK, AdminOK
<1>4. InviteHonoured /\ ResetRevokes
  BY DEF InviteHonoured, ResetRevokes
<1> QED
  BY <1>1, <1>2, <1>3, <1>4 DEF IInv

\* A request that goes on to step s with the record r, and holds nothing.
LEMMA GoOn ==
  ASSUME IInv, NEW w \in Workers, NEW s \in Steps, NEW r \in Request,
         pc' = [pc EXCEPT ![w] = s], req' = [req EXCEPT ![w] = r],
         users' \subseteq Users, cleared' \in [Users -> Workers \union {NoWorker}],
         UNCHANGED <<admins, passkey, enroll, invite, member>>,
         pc[w] \notin {"accept", "register"},
         RequestOK(w, s, r)
  PROVE  IInv'
<1> USE NullAssumption, MemberAssumption DEF IInv
<1>1. TypeOK'
  BY DEF TypeOK
<1>2. pc'[w] = s /\ req'[w] = r /\ \A v \in Workers \ {w} : pc'[v] = pc[v] /\ req'[v] = req[v]
  BY DEF TypeOK
<1>3. RequestsOK'
  BY <1>2 DEF RequestsOK, RequestOK
<1>4. HeldOK'
  BY <1>2 DEF HeldOK
<1>5. InvitesOK' /\ AdminOK' /\ InviteHonoured' /\ ResetRevokes'
  BY DEF InvitesOK, AdminOK, InviteHonoured, ResetRevokes
<1> QED
  BY <1>1, <1>3, <1>4, <1>5

\* The rows of the requests in ws go back, and these requests end.
LEMMA GiveUp ==
  ASSUME IInv, NEW ws \in SUBSET Workers, Rollback(ws),
         pc' \in [Workers -> Steps], req' \in [Workers -> Request],
         \A v \in ws : pc'[v] = "idle" /\ req'[v] = NoRequest,
         \A v \in Workers \ ws : pc'[v] = pc[v] /\ req'[v] = req[v],
         admins' \subseteq Users, AdminOK',
         UNCHANGED <<users, enroll, invite>>
  PROVE  IInv'
<1> USE NullAssumption, MemberAssumption DEF IInv
<1>1. \A k \in Passkeys :
        /\ passkey'[k] \in PasskeyRow
        /\ passkey'[k].st = passkey[k].st /\ passkey'[k].user = passkey[k].user
        /\ passkey'[k].via = passkey[k].via /\ passkey'[k].replaces = passkey[k].replaces
        /\ passkey'[k].by = IF passkey[k].by \in ws THEN NoWorker ELSE passkey[k].by
  BY DEF TypeOK, PasskeyRow, Rollback
<1>2. \A u \in Users : member'[u] = IF member[u] \in ws THEN "no" ELSE member[u]
  BY DEF Rollback
<1>3. TypeOK'
  <2>1. passkey' \in [Passkeys -> PasskeyRow]
    BY <1>1 DEF Rollback
  <2>2. member' \in [Users -> {"no", "yes", "owner"} \union Workers]
    BY <1>2 DEF Rollback, TypeOK
  <2>3. cleared' \in [Users -> Workers \union {NoWorker}]
    BY DEF Rollback, TypeOK
  <2> QED
    BY <2>1, <2>2, <2>3 DEF TypeOK
<1>4. RequestsOK'
  <2> SUFFICES ASSUME NEW v \in Workers PROVE RequestOK(v, pc[v], req[v])'
    BY DEF RequestsOK
  <2>1. CASE v \in ws
    BY <2>1 DEF RequestOK, NoRequest
  <2>2. CASE v \notin ws
    <3>1. /\ pc'[v] = pc[v] /\ req'[v] = req[v] /\ req[v].old \subseteq Passkeys
          /\ RequestOK(v, pc[v], req[v])
      BY <2>2 DEF RequestsOK, TypeOK, Request
    <3>2. \A k \in Passkeys :
            /\ passkey'[k].st = passkey[k].st /\ passkey'[k].user = passkey[k].user
            /\ passkey[k].by = v => passkey'[k].by = v
      BY <2>2, <1>1
    <3>3. \A u \in Users : member[u] = v => member'[u] = v
      BY <2>2, <1>2
    <3> QED
      BY <3>1, <3>2, <3>3 DEF RequestOK
  <2> QED
    BY <2>1, <2>2
<1>5. HeldOK'
  BY <1>1, <1>2 DEF HeldOK, TypeOK, PasskeyRow
<1>6. InviteHonoured'
  BY <1>1, <1>2 DEF InviteHonoured
<1>7. ResetRevokes' /\ InvitesOK'
  BY <1>1 DEF ResetRevokes, InvitesOK, TypeOK, PasskeyRow
<1> QED
  BY <1>3, <1>4, <1>5, <1>6, <1>7

\* A request that fails, after any of its statements.
LEMMA FailInv == ASSUME IInv, NEW w \in Workers, Fail(w) PROVE IInv'
<1>1. NoRequest \in Request
  BY DEF NoRequest, Request
<1>2. /\ pc' = [pc EXCEPT ![w] = "idle"] /\ req' = [req EXCEPT ![w] = NoRequest]
      /\ Rollback({w}) /\ UNCHANGED <<users, admins, enroll, invite>>
  BY DEF Fail, End, Goto
<1>3. /\ pc' \in [Workers -> Steps] /\ req' \in [Workers -> Request]
      /\ pc'[w] = "idle" /\ req'[w] = NoRequest
      /\ \A v \in Workers \ {w} : pc'[v] = pc[v] /\ req'[v] = req[v]
  BY <1>1, <1>2 DEF IInv, TypeOK, Steps
<1>4. admins' \subseteq Users /\ AdminOK'
  BY <1>2 DEF IInv, TypeOK, AdminOK
<1> QED
  BY <1>2, <1>3, <1>4, GiveUp

\* The server dies with every transaction that is open.
LEMMA CrashInv == ASSUME IInv, Crash PROVE IInv'
<1>1. NoRequest \in Request
  BY DEF NoRequest, Request
<1>2. /\ pc' \in [Workers -> Steps] /\ req' \in [Workers -> Request]
      /\ \A v \in Workers : pc'[v] = "idle" /\ req'[v] = NoRequest
  BY <1>1 DEF Crash, Steps
<1>3. admins' \subseteq Users /\ AdminOK' /\ Rollback(Workers)
      /\ UNCHANGED <<users, admins, enroll, invite>>
  BY DEF Crash, IInv, TypeOK, AdminOK
<1> QED
  BY <1>2, <1>3, GiveUp

-----------------------------------------------------------------------------
\* Asking for a transfer, seeing the admins and taking their flags changes
\* nothing that the invariant is about.
LEMMA TransferSteps ==
  ASSUME IInv, NEW w \in Workers,
         AskAdmin(w) \/ SeeAdmins(w) \/ ClearGlobalAdmin(w)
  PROVE  IInv'
<1> USE NullAssumption DEF IInv
<1>1. pc[w] \in Steps /\ req[w] \in Request /\ RequestOK(w, pc[w], req[w])
  BY DEF TypeOK, RequestsOK
<1>2. CASE AskAdmin(w)
  <2>1. PICK u \in users, s \in {"clear", "drop"} :
          /\ pc[w] = "idle" /\ req' = [req EXCEPT ![w].user = u] /\ pc' = [pc EXCEPT ![w] = s]
          /\ UNCHANGED <<users, admins, cleared, passkey, enroll, invite, member>>
    BY <1>2 DEF AskAdmin, Idle, Goto, auth
  <2>2. PICK r : r = [req[w] EXCEPT !.user = u]
    OBVIOUS
  <2>3. u \in Users /\ req[w].old = {} /\ s \in Steps
    BY <1>1, <2>1 DEF TypeOK, RequestOK, NoRequest, Steps
  <2>4. r \in Request /\ r.old = {} /\ r.user = u
    BY <1>1, <2>2, <2>3 DEF Request
  <2>5. req' = [req EXCEPT ![w] = r]
    BY <2>1, <2>2
  <2>6. RequestOK(w, s, r)
    BY <2>1, <2>3, <2>4 DEF RequestOK
  <2> QED
    BY <2>1, <2>3, <2>4, <2>5, <2>6, GoOn DEF TypeOK
<1>3. CASE SeeAdmins(w)
  <2>1. /\ pc[w] = "clear" /\ req' = [req EXCEPT ![w].rows = admins]
        /\ pc' = [pc EXCEPT ![w] = "clearing"]
        /\ UNCHANGED <<users, admins, cleared, passkey, enroll, invite, member>>
    BY <1>3 DEF SeeAdmins, Goto, auth
  <2>2. PICK r : r = [req[w] EXCEPT !.rows = admins]
    OBVIOUS
  <2>3. r \in Request /\ r.old = req[w].old
    BY <1>1, <2>2 DEF TypeOK, Request
  <2>4. RequestOK(w, "clearing", r) /\ req' = [req EXCEPT ![w] = r]
    BY <1>1, <2>1, <2>2, <2>3 DEF RequestOK
  <2> QED
    BY <2>1, <2>3, <2>4, GoOn DEF TypeOK, Steps
<1>4. CASE ClearGlobalAdmin(w)
  <2>1. /\ pc[w] = "clearing" /\ req' = [req EXCEPT ![w] = req[w]]
        /\ pc' = [pc EXCEPT ![w] = "set"]
        /\ UNCHANGED <<users, admins, passkey, enroll, invite, member>>
    BY <1>4 DEF ClearGlobalAdmin, ClearFlags, Goto, TypeOK
  <2>2. cleared' \in [Users -> Workers \union {NoWorker}]
    BY <1>4 DEF ClearGlobalAdmin, ClearFlags, TypeOK
  <2>3. RequestOK(w, "set", req[w])
    BY <1>1, <2>1 DEF RequestOK
  <2> QED
    BY <1>1, <2>1, <2>2, <2>3, GoOn DEF TypeOK, Steps
<1> QED
  BY <1>2, <1>3, <1>4

\* The last step of a transfer, and a revocation.
LEMMA AdminSteps ==
  ASSUME IInv, NEW w \in Workers, SetGlobalAdmin(w) \/ RevokeGlobalAdmin(w)
  PROVE  IInv'
<1> USE NullAssumption DEF IInv
<1>0. /\ pc[w] \in Steps /\ req[w] \in Request /\ RequestOK(w, pc[w], req[w])
      /\ NoRequest \in Request
  BY DEF TypeOK, RequestsOK, NoRequest, Request
<1>1. CASE SetGlobalAdmin(w) /\ OtherAdmins(w, req[w].user) # {}
  BY <1>1, FailInv DEF SetGlobalAdmin
<1>2. CASE SetGlobalAdmin(w) /\ OtherAdmins(w, req[w].user) = {}
  <2>1. /\ pc[w] = "set" /\ Rollback({w}) /\ UNCHANGED <<users, enroll, invite>>
        /\ pc' = [pc EXCEPT ![w] = "idle"] /\ req' = [req EXCEPT ![w] = NoRequest]
        /\ admins' = {v \in admins : cleared[v] # w} \union {req[w].user}
    BY <1>2 DEF SetGlobalAdmin, End, Goto
  <2>2. /\ pc' \in [Workers -> Steps] /\ req' \in [Workers -> Request]
        /\ pc'[w] = "idle" /\ req'[w] = NoRequest
        /\ \A v \in Workers \ {w} : pc'[v] = pc[v] /\ req'[v] = req[v]
    BY <1>0, <2>1 DEF TypeOK, Steps
  <2>3. AdminOK'
    BY <1>2, <2>1 DEF AdminOK, OtherAdmins
  <2>4. req[w].user \in Users
    BY <1>0, <2>1 DEF RequestOK
  <2>5. admins' \subseteq Users
    BY <2>1, <2>4 DEF TypeOK
  <2> QED
    BY <2>1, <2>2, <2>3, <2>5, GiveUp
<1>3. CASE RevokeGlobalAdmin(w)
  <2>1. /\ pc[w] = "drop" /\ admins' = admins \ {req[w].user}
        /\ pc' = [pc EXCEPT ![w] = "idle"] /\ req' = [req EXCEPT ![w] = NoRequest]
        /\ UNCHANGED <<users, cleared, passkey, enroll, invite, member>>
    BY <1>3 DEF RevokeGlobalAdmin, End, Goto
  <2>2. pc'[w] = "idle" /\ req'[w] = NoRequest
        /\ \A v \in Workers \ {w} : pc'[v] = pc[v] /\ req'[v] = req[v]
    BY <2>1 DEF TypeOK
  <2>3. TypeOK' /\ AdminOK'
    BY <1>0, <2>1 DEF TypeOK, AdminOK, Steps
  <2>4. RequestsOK'
    <3> SUFFICES ASSUME NEW v \in Workers PROVE RequestOK(v, pc[v], req[v])'
      BY DEF RequestsOK
    <3>1. CASE v = w
      BY <3>1, <2>2 DEF RequestOK, NoRequest
    <3>2. CASE v # w
      BY <3>2, <2>1, <2>2 DEF RequestsOK, RequestOK
    <3> QED
      BY <3>1, <3>2
  <2>5. HeldOK'
    BY <2>1, <2>2 DEF HeldOK
  <2>6. InvitesOK' /\ InviteHonoured' /\ ResetRevokes'
    BY <2>1 DEF InvitesOK, InviteHonoured, ResetRevokes
  <2> QED
    BY <2>3, <2>4, <2>5, <2>6
<1> QED
  BY <1>1, <1>2, <1>3
-----------------------------------------------------------------------------
\* The steps of a registration that only read.
LEMMA BeginInv == ASSUME IInv, NEW w \in Workers, BeginRegistration(w) PROVE IInv'
<1> USE NullAssumption DEF IInv
<1>1. pc[w] \in Steps /\ req[w] \in Request /\ RequestOK(w, pc[w], req[w])
  BY DEF TypeOK, RequestsOK
<1>2. PICK u \in Users :
        /\ pc[w] = "idle" /\ req' = [req EXCEPT ![w].user = u] /\ pc' = [pc EXCEPT ![w] = "ceremony"]
        /\ users' = users \union {u}
        /\ UNCHANGED <<admins, cleared, passkey, enroll, invite, member>>
  BY DEF BeginRegistration, Idle, Goto, auth
<1>3. PICK r : r = [req[w] EXCEPT !.user = u]
  OBVIOUS
<1>4. req[w].old = {} /\ req[w].invite = NoInvite
  BY <1>1, <1>2 DEF RequestOK, NoRequest
<1>5. r \in Request /\ r.old = {} /\ r.user = u /\ r.invite = NoInvite
  BY <1>1, <1>3, <1>4 DEF Request
<1>6. req' = [req EXCEPT ![w] = r]
  BY <1>2, <1>3
<1>7. RequestOK(w, "ceremony", r)
  BY <1>5 DEF RequestOK
<1>8. users' \subseteq Users /\ cleared' \in [Users -> Workers \union {NoWorker}]
  BY <1>2 DEF TypeOK
<1> QED
  BY <1>2, <1>5, <1>6, <1>7, <1>8, GoOn DEF Steps

LEMMA FinishWithEnrollmentInv ==
  ASSUME IInv, NEW w \in Workers, FinishWithEnrollment(w) PROVE IInv'
<1> USE NullAssumption DEF IInv
<1> DEFINE u == req[w].user
           s == IF enroll[u].revoke THEN "revoke" ELSE "register"
           old == IF enroll[u].revoke THEN Of(u) ELSE {}
<1>1. /\ pc[w] \in Steps /\ req[w] \in Request /\ RequestOK(w, pc[w], req[w])
      /\ pc[w] = "ceremony"
  BY DEF TypeOK, RequestsOK, FinishWithEnrollment
<1>2. u \in Users /\ req[w].invite = NoInvite
  BY <1>1 DEF RequestOK
<1>3. /\ req' = [req EXCEPT ![w].row = enroll[u].row, ![w].old = old]
      /\ pc' = [pc EXCEPT ![w] = s]
      /\ UNCHANGED <<users, admins, cleared, passkey, enroll, invite, member>>
  BY DEF FinishWithEnrollment, Goto, auth
<1>4. PICK r : r = [req[w] EXCEPT !.row = enroll[u].row, !.old = old]
  OBVIOUS
<1>5. enroll[u].row \in Nat /\ old \subseteq Passkeys
  BY <1>2 DEF TypeOK, EnrollmentRow, Of
<1>6. r \in Request /\ r.old = old /\ r.user = u /\ r.invite = NoInvite
  <2> HIDE DEF u, old
  <2>1. req[w].user = u
    BY DEF u
  <2> QED
    BY <1>1, <1>2, <1>4, <1>5, <2>1 DEF Request
<1>7. req' = [req EXCEPT ![w] = r]
  BY <1>3, <1>4
<1>8. \A k \in old : passkey[k].st # "none" /\ passkey[k].user = u
  BY DEF Of
<1>9. RequestOK(w, s, r)
  <2> HIDE DEF u, old
  <2>1. CASE enroll[u].revoke
    BY <2>1, <1>2, <1>6, <1>8 DEF RequestOK
  <2>2. CASE ~enroll[u].revoke
    <3>1. old = {}
      BY <2>2 DEF old
    <3> QED
      BY <2>2, <3>1, <1>2, <1>6 DEF RequestOK
  <2> QED
    BY <2>1, <2>2
<1>10. users' \subseteq Users /\ cleared' \in [Users -> Workers \union {NoWorker}] /\ s \in Steps
  BY <1>3 DEF TypeOK, Steps
<1> HIDE DEF u, old, s
<1> QED
  BY <1>1, <1>3, <1>6, <1>7, <1>9, <1>10, GoOn

LEMMA FinishWithInviteInv ==
  ASSUME IInv, NEW w \in Workers, FinishWithInvite(w) PROVE IInv'
<1> USE NullAssumption DEF IInv
<1>1. /\ pc[w] \in Steps /\ req[w] \in Request /\ RequestOK(w, pc[w], req[w])
  BY DEF TypeOK, RequestsOK
<1>2. PICK i \in Invites :
        /\ pc[w] = "ceremony" /\ Registers(i, req[w].user)
        /\ req' = [req EXCEPT ![w].invite = i] /\ pc' = [pc EXCEPT ![w] = "join"]
        /\ UNCHANGED <<users, admins, cleared, passkey, enroll, invite, member>>
  BY DEF FinishWithInvite, Goto, auth
<1>3. PICK r : r = [req[w] EXCEPT !.invite = i]
  OBVIOUS
<1>4. req[w].old = {} /\ req[w].user \in Users
  BY <1>1, <1>2 DEF RequestOK
<1>5. r \in Request /\ r.old = {} /\ r.user = req[w].user /\ r.invite = i
  BY <1>1, <1>3, <1>4 DEF Request
<1>6. req' = [req EXCEPT ![w] = r]
  BY <1>2, <1>3
<1>7. RequestOK(w, "join", r)
  BY <1>2, <1>4, <1>5 DEF RequestOK, Registers, Open
<1>8. users' \subseteq Users /\ cleared' \in [Users -> Workers \union {NoWorker}]
  BY <1>2 DEF TypeOK
<1> QED
  BY <1>2, <1>5, <1>6, <1>7, <1>8, GoOn DEF Steps

\* An open invite has the user it was sent to.
LEMMA AcceptBusinessInviteInv ==
  ASSUME IInv, NEW w \in Workers, AcceptBusinessInvite(w) PROVE IInv'
<1> USE NullAssumption DEF IInv
<1>1. /\ pc[w] \in Steps /\ req[w] \in Request /\ RequestOK(w, pc[w], req[w])
  BY DEF TypeOK, RequestsOK
<1>2. PICK i \in Invites :
        /\ pc[w] = "idle" /\ Open(i)
        /\ req' = [req EXCEPT ![w].user = invite[i].user, ![w].invite = i, ![w].signedIn = TRUE]
        /\ pc' = [pc EXCEPT ![w] = "join"]
        /\ UNCHANGED <<users, admins, cleared, passkey, enroll, invite, member>>
  BY DEF AcceptBusinessInvite, Idle, Goto, auth
<1>3. PICK r : r = [req[w] EXCEPT !.user = invite[i].user, !.invite = i, !.signedIn = TRUE]
  OBVIOUS
<1>4. req[w].old = {} /\ invite[i].user \in Users
  BY <1>1, <1>2 DEF RequestOK, NoRequest, Open, InvitesOK
<1>5. r \in Request /\ r.old = {} /\ r.user = invite[i].user /\ r.invite = i
  BY <1>1, <1>3, <1>4 DEF Request
<1>6. req' = [req EXCEPT ![w] = r]
  BY <1>2, <1>3
<1>7. RequestOK(w, "join", r)
  BY <1>2, <1>4, <1>5 DEF RequestOK, Open
<1>8. users' \subseteq Users /\ cleared' \in [Users -> Workers \union {NoWorker}]
  BY <1>2 DEF TypeOK
<1> QED
  BY <1>2, <1>5, <1>6, <1>7, <1>8, GoOn DEF Steps

LEMMA SeePasskeysInv == ASSUME IInv, NEW w \in Workers, SeePasskeys(w) PROVE IInv'
<1> USE NullAssumption DEF IInv
<1>1. /\ pc[w] \in Steps /\ req[w] \in Request /\ RequestOK(w, pc[w], req[w])
  BY DEF TypeOK, RequestsOK
<1>2. /\ pc[w] = "revoke"
      /\ req' = [req EXCEPT ![w].rows = Of(req[w].user)] /\ pc' = [pc EXCEPT ![w] = "revoking"]
      /\ UNCHANGED <<users, admins, cleared, passkey, enroll, invite, member>>
  BY DEF SeePasskeys, Goto, auth
<1>3. PICK r : r = [req[w] EXCEPT !.rows = Of(req[w].user)]
  OBVIOUS
<1>4. /\ Of(req[w].user) \subseteq Passkeys
      /\ \A k \in Of(req[w].user) : passkey[k].st # "none" /\ passkey[k].user = req[w].user
  BY DEF Of
<1>5. /\ r \in Request /\ r.old = req[w].old /\ r.user = req[w].user /\ r.invite = req[w].invite
      /\ r.rows = Of(req[w].user)
  BY <1>1, <1>3, <1>4 DEF Request
<1>6. req' = [req EXCEPT ![w] = r]
  BY <1>2, <1>3
<1>7. \A k \in r.old : passkey[k].st = "gone" \/ (passkey[k].st = "live" /\ k \in r.rows)
  BY <1>1, <1>2, <1>5 DEF RequestOK, Of, TypeOK, PasskeyRow, Request
<1>8. RequestOK(w, "revoking", r)
  BY <1>1, <1>2, <1>4, <1>5, <1>7 DEF RequestOK
<1>9. users' \subseteq Users /\ cleared' \in [Users -> Workers \union {NoWorker}]
  BY <1>2 DEF TypeOK
<1> QED
  BY <1>2, <1>5, <1>6, <1>8, <1>9, GoOn DEF Steps
-----------------------------------------------------------------------------
\* Deleting waits for every row another request holds, so it takes none away.
LEMMA DeletePasskeysInv == ASSUME IInv, NEW w \in Workers, DeletePasskeys(w) PROVE IInv'
<1> USE NullAssumption, MemberAssumption DEF IInv
<1>1. /\ pc[w] = "revoking" /\ req[w] \in Request /\ RequestOK(w, "revoking", req[w])
      /\ pc' = [pc EXCEPT ![w] = "register"] /\ Deleted(w)
      /\ UNCHANGED <<users, admins, cleared, enroll, invite, member, req>>
  BY DEF TypeOK, RequestsOK, DeletePasskeys, Goto, auth
<1>2. \A k \in Passkeys :
        /\ passkey'[k] \in PasskeyRow
        /\ passkey'[k].st = passkey[k].st /\ passkey'[k].user = passkey[k].user
        /\ passkey'[k].via = passkey[k].via /\ passkey'[k].replaces = passkey[k].replaces
        /\ passkey'[k].by = IF k \in req[w].rows /\ passkey[k].st = "live" THEN w ELSE passkey[k].by
  BY <1>1 DEF Deleted, TypeOK, PasskeyRow
<1>3. \A k \in Passkeys : k \in req[w].rows => passkey[k].by = NoWorker
  BY <1>1 DEF Deleted
<1>4. pc'[w] = "register" /\ \A v \in Workers \ {w} : pc'[v] = pc[v]
  BY <1>1 DEF TypeOK
<1>5. TypeOK'
  <2>1. passkey' \in [Passkeys -> PasskeyRow]
    BY <1>1, <1>2 DEF Deleted
  <2> QED
    BY <1>1, <2>1 DEF TypeOK, Steps
<1>6. RequestsOK'
  <2> SUFFICES ASSUME NEW v \in Workers PROVE RequestOK(v, pc[v], req[v])'
    BY DEF RequestsOK
  <2>1. CASE v = w
    BY <2>1, <1>1, <1>2, <1>4 DEF RequestOK, Request
  <2>2. CASE v # w
    <3>1. /\ pc'[v] = pc[v] /\ req'[v] = req[v] /\ req[v] \in Request
          /\ RequestOK(v, pc[v], req[v])
      BY <2>2, <1>1, <1>4 DEF RequestsOK, TypeOK
    <3>2. \A k \in Passkeys :
            /\ passkey'[k].st = passkey[k].st /\ passkey'[k].user = passkey[k].user
            /\ passkey[k].by = v => passkey'[k].by = v
      BY <1>2, <1>3
    <3> QED
      BY <1>1, <3>1, <3>2 DEF RequestOK, Request
  <2> QED
    BY <2>1, <2>2
<1>7. HeldOK'
  <2>1. ASSUME NEW k \in Passkeys, passkey'[k].by \in Workers
        PROVE  /\ pc'[passkey'[k].by] = "register" /\ req'[passkey'[k].by].user = passkey'[k].user
               /\ passkey'[k].st = "live"
    BY <2>1, <1>1, <1>2, <1>3, <1>4 DEF HeldOK, RequestOK
  <2>2. ASSUME NEW u \in Users, member'[u] \in Workers
        PROVE  pc'[member'[u]] = "accept" /\ req'[member'[u]].user = u
    BY <2>2, <1>1, <1>4 DEF HeldOK
  <2> QED
    BY <2>1, <2>2 DEF HeldOK
<1>8. InviteHonoured' /\ InvitesOK' /\ AdminOK'
  BY <1>1, <1>2 DEF InviteHonoured, InvitesOK, AdminOK
<1>9. ResetRevokes'
  BY <1>2 DEF ResetRevokes, TypeOK, PasskeyRow
<1> QED
  BY <1>5, <1>6, <1>7, <1>8, <1>9

\* What COMMIT does to each passkey when a new one, k, is registered.
LEMMA RegisteredRows ==
  ASSUME IInv, NEW w \in Workers, NEW k \in Passkeys, passkey[k].st = "none",
         passkey' = Registered(w, k)
  PROVE  /\ passkey' \in [Passkeys -> PasskeyRow]
         /\ passkey'[k].st = "live" /\ passkey'[k].by = NoWorker
         /\ passkey'[k].user = req[w].user /\ passkey'[k].via = req[w].invite
         /\ passkey'[k].replaces = req[w].old
         /\ \A o \in Passkeys \ {k} :
              /\ passkey'[o].user = passkey[o].user /\ passkey'[o].via = passkey[o].via
              /\ passkey'[o].replaces = passkey[o].replaces
              /\ passkey'[o].st = IF passkey[o].by = w THEN "gone" ELSE passkey[o].st
              /\ passkey'[o].by = IF passkey[o].by = w THEN NoWorker ELSE passkey[o].by
<1> USE NullAssumption DEF IInv
<1>1. passkey \in [Passkeys -> PasskeyRow] /\ req[w] \in Request
  BY DEF TypeOK
<1>2. \A o \in Passkeys : passkey'[o] =
        IF o = k THEN [st |-> "live", user |-> req[w].user, via |-> req[w].invite,
                       replaces |-> req[w].old, by |-> NoWorker]
        ELSE IF passkey[o].by = w THEN [passkey[o] EXCEPT !.st = "gone", !.by = NoWorker]
        ELSE passkey[o]
  BY DEF Registered
<1>3. passkey'[k] = [st |-> "live", user |-> req[w].user, via |-> req[w].invite,
                     replaces |-> req[w].old, by |-> NoWorker]
  BY <1>2
<1>4. passkey'[k] \in PasskeyRow
  <2>1. /\ req[w].user \in Users \union {NoUser} /\ req[w].invite \in Invites \union {NoInvite}
        /\ req[w].old \in SUBSET Passkeys
    BY <1>1 DEF Request
  <2> QED
    BY <1>3, <2>1 DEF PasskeyRow
<1>5. ASSUME NEW o \in Passkeys \ {k}
      PROVE  /\ passkey'[o] \in PasskeyRow
             /\ passkey'[o].user = passkey[o].user /\ passkey'[o].via = passkey[o].via
             /\ passkey'[o].replaces = passkey[o].replaces
             /\ passkey'[o].st = IF passkey[o].by = w THEN "gone" ELSE passkey[o].st
             /\ passkey'[o].by = IF passkey[o].by = w THEN NoWorker ELSE passkey[o].by
  <2>1. passkey[o] \in PasskeyRow
    BY <1>1
  <2>2. CASE passkey[o].by = w
    <3>1. passkey'[o] = [passkey[o] EXCEPT !.st = "gone", !.by = NoWorker]
      BY <2>2, <1>2
    <3> QED
      BY <2>1, <2>2, <3>1 DEF PasskeyRow
  <2>3. CASE passkey[o].by # w
    BY <2>1, <2>3, <1>2
  <2> QED
    BY <2>2, <2>3
<1>6. passkey' \in [Passkeys -> PasskeyRow]
  BY <1>4, <1>5 DEF Registered
<1> QED
  BY <1>3, <1>5, <1>6

\* What the resets, and the requests other than w, rely on is kept.
PasskeysKept(w) ==
  /\ ResetRevokes'
  /\ \A o \in Passkeys : passkey'[o].by \in Workers =>
       /\ pc'[passkey'[o].by] = "register"
       /\ req'[passkey'[o].by].user = passkey'[o].user /\ passkey'[o].st = "live"
  /\ \A v \in Workers \ {w} :
       /\ pc[v] = "revoke" => \A o \in req[v].old :
            passkey'[o].st # "none" /\ passkey'[o].user = req[v].user
       /\ pc[v] = "revoking" =>
            /\ \A o \in req[v].rows : passkey'[o].st # "none" /\ passkey'[o].user = req[v].user
            /\ \A o \in req[v].old : passkey'[o].st = "gone"
                                     \/ (passkey'[o].st = "live" /\ o \in req[v].rows)
       /\ pc[v] = "register" => \A o \in req[v].old :
            passkey'[o].st = "gone" \/ (passkey'[o].st = "live" /\ passkey'[o].by = v)

\* Registering a passkey keeps all of it.
LEMMA RegisteredKeeps ==
  ASSUME IInv, NEW w \in Workers, NEW k \in Passkeys, passkey[k].st = "none",
         passkey' = Registered(w, k), pc[w] \in {"register", "accept"},
         pc' = [pc EXCEPT ![w] = "idle"], req' = [req EXCEPT ![w] = NoRequest]
  PROVE  PasskeysKept(w)
<1> USE NullAssumption DEF IInv
<1>0. /\ passkey' \in [Passkeys -> PasskeyRow]
      /\ passkey'[k].st = "live" /\ passkey'[k].by = NoWorker
      /\ passkey'[k].replaces = req[w].old
      /\ \A o \in Passkeys \ {k} :
           /\ passkey'[o].user = passkey[o].user /\ passkey'[o].via = passkey[o].via
           /\ passkey'[o].replaces = passkey[o].replaces
           /\ passkey'[o].st = IF passkey[o].by = w THEN "gone" ELSE passkey[o].st
           /\ passkey'[o].by = IF passkey[o].by = w THEN NoWorker ELSE passkey[o].by
  BY RegisteredRows
<1>1. passkey'[k].by = NoWorker /\ passkey'[k].replaces = req[w].old
  BY <1>0
<1>2. \A v \in Workers : req[v] \in Request /\ RequestOK(v, pc[v], req[v])
  BY DEF TypeOK, RequestsOK
<1>3. ASSUME NEW l \in Passkeys, NEW o \in passkey'[l].replaces PROVE passkey'[o].st = "gone"
  <2>1. CASE l = k
    <3>1. o \in req[w].old /\ req[w].old \subseteq Passkeys
      BY <2>1, <1>1, <1>2, <1>3 DEF Request
    <3>2. pc[w] = "register" /\ (passkey[o].st = "gone" \/ (passkey[o].st = "live" /\ passkey[o].by = w))
      BY <3>1, <1>2 DEF RequestOK
    <3> QED
      BY <3>1, <3>2, <1>0
  <2>2. CASE l # k
    <3>1. o \in passkey[l].replaces /\ passkey[l].replaces \subseteq Passkeys
      BY <2>2, <1>0, <1>3 DEF TypeOK, PasskeyRow
    <3>2. passkey[o].st = "gone" /\ o # k
      BY <3>1 DEF ResetRevokes
    <3> QED
      BY <3>1, <3>2, <1>0
  <2> QED
    BY <2>1, <2>2
<1>4. ASSUME NEW o \in Passkeys, passkey'[o].by \in Workers
      PROVE  /\ pc'[passkey'[o].by] = "register"
             /\ req'[passkey'[o].by].user = passkey'[o].user /\ passkey'[o].st = "live"
  <2>1. o # k
    BY <1>1, <1>4
  <2>2. /\ passkey[o].by \in Workers \ {w} /\ passkey'[o].by = passkey[o].by
        /\ passkey'[o].st = passkey[o].st /\ passkey'[o].user = passkey[o].user
    BY <2>1, <1>0, <1>4
  <2>3. pc'[passkey[o].by] = pc[passkey[o].by] /\ req'[passkey[o].by] = req[passkey[o].by]
    BY <2>2 DEF TypeOK
  <2> QED
    BY <2>2, <2>3 DEF HeldOK
<1>5. ASSUME NEW v \in Workers \ {w}, pc[v] = "revoke", NEW o \in req[v].old
      PROVE  passkey'[o].st # "none" /\ passkey'[o].user = req[v].user
  <2>1. o \in Passkeys /\ passkey[o].st # "none" /\ passkey[o].user = req[v].user
    BY <1>2, <1>5 DEF RequestOK, Request
  <2> QED
    BY <2>1, <1>0
<1>6. ASSUME NEW v \in Workers \ {w}, pc[v] = "revoking", NEW o \in req[v].rows
      PROVE  passkey'[o].st # "none" /\ passkey'[o].user = req[v].user
  <2>1. o \in Passkeys /\ passkey[o].st # "none" /\ passkey[o].user = req[v].user
    BY <1>2, <1>6 DEF RequestOK
  <2> QED
    BY <2>1, <1>0
<1>7. ASSUME NEW v \in Workers \ {w}, pc[v] = "revoking", NEW o \in req[v].old
      PROVE  passkey'[o].st = "gone" \/ (passkey'[o].st = "live" /\ o \in req[v].rows)
  <2>1. /\ o \in Passkeys
        /\ passkey[o].st = "gone" \/ (passkey[o].st = "live" /\ o \in req[v].rows)
    BY <1>2, <1>7 DEF RequestOK, Request
  <2> QED
    BY <2>1, <1>0
<1>8. ASSUME NEW v \in Workers \ {w}, pc[v] = "register", NEW o \in req[v].old
      PROVE  passkey'[o].st = "gone" \/ (passkey'[o].st = "live" /\ passkey'[o].by = v)
  <2>1. /\ o \in Passkeys
        /\ passkey[o].st = "gone" \/ (passkey[o].st = "live" /\ passkey[o].by = v)
    BY <1>2, <1>8 DEF RequestOK, Request
  <2> QED
    BY <2>1, <1>0
<1> QED
  BY <1>3, <1>4, <1>5, <1>6, <1>7, <1>8 DEF PasskeysKept, ResetRevokes
\* COMMIT of a registration with an enrollment token.
LEMMA RegisterByEnrollmentInv ==
  ASSUME IInv, NEW w \in Workers, RegisterByEnrollment(w) PROVE IInv'
<1> USE NullAssumption, MemberAssumption DEF IInv
<1>1. PICK k \in Passkeys :
        /\ pc[w] = "register" /\ passkey[k].st = "none" /\ passkey' = Registered(w, k)
        /\ enroll' = [enroll EXCEPT ![req[w].user] = Consumed(@, req[w].row)]
        /\ pc' = [pc EXCEPT ![w] = "idle"] /\ req' = [req EXCEPT ![w] = NoRequest]
        /\ UNCHANGED <<users, admins, cleared, invite, member>>
  BY DEF RegisterByEnrollment, End, Goto, auth
<1>2. /\ req[w] \in Request /\ req[w].user \in Users /\ req[w].invite = NoInvite
      /\ NoRequest \in Request
  BY <1>1 DEF TypeOK, RequestsOK, RequestOK, NoRequest, Request
<1>3. /\ pc'[w] = "idle" /\ req'[w] = NoRequest
      /\ \A v \in Workers \ {w} : pc'[v] = pc[v] /\ req'[v] = req[v]
  BY <1>1 DEF TypeOK
<1>4. PasskeysKept(w)
  BY <1>1, RegisteredKeeps
<1>5. TypeOK'
  <2>1. passkey' \in [Passkeys -> PasskeyRow]
    BY <1>1, RegisteredRows
  <2>2. enroll' \in [Users -> EnrollmentRow]
    BY <1>1, <1>2 DEF TypeOK, Consumed, EnrollmentRow
  <2> QED
    BY <1>1, <1>2, <2>1, <2>2 DEF TypeOK, Steps
<1>6. RequestsOK'
  <2> SUFFICES ASSUME NEW v \in Workers PROVE RequestOK(v, pc[v], req[v])'
    BY DEF RequestsOK
  <2>1. CASE v = w
    BY <2>1, <1>3 DEF RequestOK, NoRequest
  <2>2. CASE v # w
    BY <2>2, <1>1, <1>3, <1>4 DEF RequestsOK, RequestOK, PasskeysKept
  <2> QED
    BY <2>1, <2>2
<1>7. HeldOK'
  <2>1. ASSUME NEW u \in Users, member'[u] \in Workers
        PROVE  pc'[member'[u]] = "accept" /\ req'[member'[u]].user = u
    BY <2>1, <1>1, <1>3 DEF HeldOK
  <2> QED
    BY <2>1, <1>4 DEF HeldOK, PasskeysKept
<1>8. /\ passkey'[k].via = NoInvite
      /\ \A o \in Passkeys \ {k} : passkey'[o].via = passkey[o].via
  BY <1>1, <1>2, RegisteredRows
<1>9. InviteHonoured'
  BY <1>1, <1>8 DEF InviteHonoured
<1>10. ResetRevokes' /\ InvitesOK' /\ AdminOK'
  BY <1>1, <1>4 DEF PasskeysKept, InvitesOK, AdminOK
<1> QED
  BY <1>5, <1>6, <1>7, <1>9, <1>10

\* Of the requests that insert one member, one does and the others wait.
LEMMA JoinInv == ASSUME IInv, NEW w \in Workers, Join(w) PROVE IInv'
<1> USE NullAssumption, MemberAssumption DEF IInv
<1>1. CASE Fail(w)
  BY <1>1, FailInv
<1>2. CASE ~Fail(w)
  <2>1. /\ pc[w] = "join" /\ member[req[w].user] = "no"
        /\ member' = [member EXCEPT ![req[w].user] = w] /\ pc' = [pc EXCEPT ![w] = "accept"]
        /\ UNCHANGED <<users, admins, cleared, passkey, enroll, invite, req>>
    BY <1>2 DEF Join, CreateMember, Goto, auth
  <2>2. RequestOK(w, "join", req[w]) /\ req[w].user \in Users
    BY <2>1 DEF RequestsOK, RequestOK
  <2>3. pc'[w] = "accept" /\ \A v \in Workers \ {w} : pc'[v] = pc[v]
    BY <2>1 DEF TypeOK
  <2>4. /\ member'[req[w].user] = w
        /\ \A u \in Users \ {req[w].user} : member'[u] = member[u]
    BY <2>1, <2>2 DEF TypeOK
  <2>5. TypeOK'
    BY <2>1 DEF TypeOK, Steps
  <2>6. RequestsOK'
    <3> SUFFICES ASSUME NEW v \in Workers PROVE RequestOK(v, pc[v], req[v])'
      BY DEF RequestsOK
    <3>1. CASE v = w
      BY <3>1, <2>1, <2>2, <2>3, <2>4 DEF RequestOK
    <3>2. CASE v # w
      BY <3>2, <2>1, <2>3, <2>4 DEF RequestsOK, RequestOK
    <3> QED
      BY <3>1, <3>2
  <2>7. HeldOK'
    <3>1. ASSUME NEW u \in Users, member'[u] \in Workers
          PROVE  pc'[member'[u]] = "accept" /\ req'[member'[u]].user = u
      BY <3>1, <2>1, <2>3, <2>4 DEF HeldOK
    <3>2. ASSUME NEW k \in Passkeys, passkey'[k].by \in Workers
          PROVE  /\ pc'[passkey'[k].by] = "register"
                 /\ req'[passkey'[k].by].user = passkey'[k].user /\ passkey'[k].st = "live"
      BY <3>2, <2>1, <2>3 DEF HeldOK
    <3> QED
      BY <3>1, <3>2 DEF HeldOK
  <2>8. InviteHonoured'
    BY <2>1, <2>2, <2>4 DEF InviteHonoured
  <2>9. InvitesOK' /\ AdminOK' /\ ResetRevokes'
    BY <2>1 DEF InvitesOK, AdminOK, ResetRevokes
  <2> QED
    BY <2>5, <2>6, <2>7, <2>8, <2>9
<1> QED
  BY <1>1, <1>2

\* COMMIT of an acceptance: nobody else has accepted this invite, for whoever
\* did would have made its user a member.
LEMMA AcceptInviteInv == ASSUME IInv, NEW w \in Workers, AcceptInvite(w) PROVE IInv'
<1> USE NullAssumption, MemberAssumption DEF IInv
<1>1. PICK u, i : u = req[w].user /\ i = req[w].invite
  OBVIOUS
<1>2. /\ pc[w] = "accept" /\ invite' = [invite EXCEPT ![i].st = "accepted"]
      /\ member' = [member EXCEPT ![u] = "yes"]
      /\ pc' = [pc EXCEPT ![w] = "idle"] /\ req' = [req EXCEPT ![w] = NoRequest]
      /\ UNCHANGED <<users, admins, cleared, enroll>>
  BY <1>1 DEF AcceptInvite, End, Goto, auth
<1>3. /\ req[w] \in Request /\ u \in Users /\ i \in Invites /\ NoRequest \in Request
      /\ invite[i].user = u /\ member[u] = w
  BY <1>1, <1>2 DEF TypeOK, RequestsOK, RequestOK, NoRequest, Request
<1>4. /\ pc'[w] = "idle" /\ req'[w] = NoRequest
      /\ \A v \in Workers \ {w} : pc'[v] = pc[v] /\ req'[v] = req[v]
  BY <1>2 DEF TypeOK
<1>5. member'[u] = "yes" /\ \A v \in Users \ {u} : member'[v] = member[v]
  BY <1>2, <1>3 DEF TypeOK
<1>6. /\ invite'[i].st = "accepted"
      /\ \A j \in Invites : invite'[j] \in InviteRow /\ invite'[j].user = invite[j].user
      /\ \A j \in Invites \ {i} : invite'[j].st = invite[j].st
  BY <1>2, <1>3 DEF TypeOK, InviteRow
<1>7. /\ passkey' \in [Passkeys -> PasskeyRow] /\ PasskeysKept(w)
      /\ \A o, l \in Passkeys :
           /\ passkey'[o].via \in {passkey[o].via, i}
           /\ passkey'[o].via = passkey[o].via \/ passkey'[l].via = passkey[l].via \/ o = l
  <2>1. CASE UNCHANGED passkey
    <3>1. passkey' \in [Passkeys -> PasskeyRow] /\ ResetRevokes'
      BY <2>1 DEF TypeOK, ResetRevokes
    <3>2. ASSUME NEW o \in Passkeys, passkey'[o].by \in Workers
          PROVE  /\ pc'[passkey'[o].by] = "register"
                 /\ req'[passkey'[o].by].user = passkey'[o].user /\ passkey'[o].st = "live"
      BY <2>1, <3>2, <1>2, <1>4 DEF HeldOK
    <3>3. PasskeysKept(w)
      BY <2>1, <3>1, <3>2 DEF PasskeysKept, RequestsOK, RequestOK
    <3> QED
      BY <2>1, <3>1, <3>3
  <2>2. CASE \E k \in Passkeys : passkey[k].st = "none" /\ passkey' = Registered(w, k)
    <3>1. PICK k \in Passkeys : passkey[k].st = "none" /\ passkey' = Registered(w, k)
      BY <2>2
    <3>2. /\ passkey' \in [Passkeys -> PasskeyRow] /\ passkey'[k].via = i
          /\ \A o \in Passkeys \ {k} : passkey'[o].via = passkey[o].via
      BY <3>1, <1>1, RegisteredRows
    <3>3. PasskeysKept(w)
      BY <3>1, <1>2, RegisteredKeeps
    <3> QED
      BY <3>2, <3>3
  <2> QED
    BY <2>1, <2>2 DEF AcceptInvite
<1>8. TypeOK'
  <2>1. invite' \in [Invites -> InviteRow]
    BY <1>2, <1>6 DEF TypeOK
  <2>2. pc' \in [Workers -> Steps] /\ req' \in [Workers -> Request]
    BY <1>2, <1>3 DEF TypeOK, Steps
  <2>3. member' \in [Users -> {"no", "yes", "owner"} \union Workers]
    BY <1>2 DEF TypeOK
  <2> QED
    BY <1>2, <1>7, <2>1, <2>2, <2>3 DEF TypeOK
<1>9. RequestsOK'
  <2> SUFFICES ASSUME NEW v \in Workers PROVE RequestOK(v, pc[v], req[v])'
    BY DEF RequestsOK
  <2>1. CASE v = w
    BY <2>1, <1>4 DEF RequestOK, NoRequest
  <2>2. CASE v # w
    <3>1. pc'[v] = pc[v] /\ req'[v] = req[v] /\ RequestOK(v, pc[v], req[v])
      BY <2>2, <1>4 DEF RequestsOK
    <3>2. \A j \in Invites : invite'[j].user = invite[j].user
                            /\ (invite[j].st # "none" => invite'[j].st # "none")
      BY <1>6
    <3>3. \A x \in Users : member[x] = v => member'[x] = v
      BY <2>2, <1>3, <1>5
    <3> QED
      BY <2>2, <3>1, <3>2, <3>3, <1>7 DEF RequestOK, PasskeysKept
  <2> QED
    BY <2>1, <2>2
<1>10. HeldOK'
  <2>1. ASSUME NEW x \in Users, member'[x] \in Workers
        PROVE  pc'[member'[x]] = "accept" /\ req'[member'[x]].user = x
    BY <2>1, <1>1, <1>3, <1>4, <1>5 DEF HeldOK
  <2> QED
    BY <2>1, <1>7 DEF HeldOK, PasskeysKept
<1>11. InviteHonoured'
  <2>1. \A k \in Passkeys : passkey[k].via # i
    BY <1>3 DEF InviteHonoured
  <2>2. ASSUME NEW k \in Passkeys, NEW l \in Passkeys,
               passkey'[k].via = passkey'[l].via, passkey'[k].via # NoInvite
        PROVE  k = l
    BY <2>1, <2>2, <1>7 DEF InviteHonoured
  <2>3. ASSUME NEW k \in Passkeys, passkey'[k].via # NoInvite
        PROVE  invite'[passkey'[k].via].st = "accepted"
    <3>1. CASE passkey'[k].via = i
      BY <3>1, <1>6
    <3>2. CASE passkey'[k].via # i
      <4>1. passkey'[k].via = passkey[k].via /\ passkey[k].via \in Invites
        BY <3>2, <2>3, <1>7 DEF TypeOK, PasskeyRow
      <4> QED
        BY <4>1, <2>3, <3>2, <1>6 DEF InviteHonoured
    <3> QED
      BY <3>1, <3>2
  <2>4. ASSUME NEW x \in Users
        PROVE  member'[x] = "yes" <=> \E j \in Invites : invite'[j].user = x /\ invite'[j].st = "accepted"
    BY <1>3, <1>5, <1>6 DEF InviteHonoured
  <2> QED
    BY <2>2, <2>3, <2>4 DEF InviteHonoured
<1>12. ResetRevokes' /\ InvitesOK' /\ AdminOK'
  BY <1>2, <1>3, <1>6, <1>7 DEF PasskeysKept, InvitesOK, AdminOK
<1> QED
  BY <1>8, <1>9, <1>10, <1>11, <1>12
-----------------------------------------------------------------------------
\* Tokens and the start of the server change nothing a request relies on: an
\* invite keeps its user once it is sent, and only AcceptInvite accepts it.
LEMMA TokenSteps ==
  ASSUME IInv, users' \subseteq Users, admins' \subseteq Users, AdminOK',
         enroll' \in [Users -> EnrollmentRow], invite' \in [Invites -> InviteRow],
         \A i \in Invites :
           /\ invite'[i].st = "accepted" <=> invite[i].st = "accepted"
           /\ invite'[i].st # "none" => invite'[i].user \in Users
           /\ invite[i].st # "none" => invite'[i].st # "none" /\ invite'[i].user = invite[i].user,
         UNCHANGED <<cleared, passkey, member, pc, req>>
  PROVE  IInv'
<1> USE DEF IInv
<1>1. TypeOK'
  BY DEF TypeOK
<1>2. RequestsOK'
  BY DEF RequestsOK, RequestOK
<1>3. HeldOK'
  BY DEF HeldOK
<1>4. InvitesOK' /\ ResetRevokes'
  BY DEF InvitesOK, ResetRevokes
<1>5. InviteHonoured'
  <2>1. \A k \in Passkeys : passkey[k].via # NoInvite =>
          passkey[k].via \in Invites /\ invite[passkey[k].via].st = "accepted"
    BY DEF InviteHonoured, TypeOK, PasskeyRow
  <2>2. \A k \in Passkeys : passkey'[k].via # NoInvite => invite'[passkey'[k].via].st = "accepted"
    BY <2>1
  <2>3. ASSUME NEW u \in Users
        PROVE  member'[u] = "yes" <=> \E i \in Invites : invite'[i].user = u /\ invite'[i].st = "accepted"
    BY DEF InviteHonoured
  <2> QED
    BY <2>2, <2>3 DEF InviteHonoured
<1> QED
  BY <1>1, <1>2, <1>3, <1>4, <1>5

\* The reset setting the server was started with is on or off.
ServerOK == server \in [at : {"down", "boot", "grant", "mint", "up"}, reset : BOOLEAN]

LEMMA ServerNext == ASSUME ServerOK, [Next]_vars PROVE ServerOK'
<1>1. CASE UNCHANGED server
  BY <1>1 DEF ServerOK
<1>2. CASE StartServer
  BY <1>2 DEF StartServer, ServerOK
<1>3. CASE FindAdmin \/ GrantBoss \/ MintForBoss \/ Crash
  <2>1. PICK at \in {"down", "boot", "grant", "mint", "up"} : Boot(at) \/ Settled(at)
    BY <1>3 DEF FindAdmin, GrantBoss, MintForBoss, Crash
  <2>2. CASE Boot(at)
    BY <2>1, <2>2 DEF Boot, ServerOK
  <2>3. CASE Settled(at)
    BY <2>1, <2>3 DEF Settled, ServerOK
  <2> QED
    BY <2>1, <2>2, <2>3
<1>4. ASSUME NEW w \in Workers, Step(w) PROVE UNCHANGED server
  <2>1. CASE AskAdmin(w) \/ SeeAdmins(w) \/ ClearGlobalAdmin(w) \/ SetGlobalAdmin(w)
             \/ RevokeGlobalAdmin(w) \/ BeginRegistration(w) \/ FinishWithEnrollment(w)
    BY <2>1 DEF AskAdmin, SeeAdmins, ClearGlobalAdmin, SetGlobalAdmin, RevokeGlobalAdmin,
                BeginRegistration, FinishWithEnrollment, Fail
  <2>2. CASE FinishWithInvite(w) \/ AcceptBusinessInvite(w) \/ SeePasskeys(w) \/ DeletePasskeys(w)
             \/ RegisterByEnrollment(w) \/ Join(w) \/ AcceptInvite(w) \/ Abort(w)
    BY <2>2 DEF FinishWithInvite, AcceptBusinessInvite, SeePasskeys, DeletePasskeys,
                RegisterByEnrollment, Join, AcceptInvite, Abort, Fail
  <2> QED
    BY <1>4, <2>1, <2>2 DEF Step
<1> QED
  BY <1>1, <1>2, <1>3, <1>4 DEF Next, vars, ResetUserCredentials, CreateBusiness,
     CreateBusinessInvite, RevokeBusinessInvite, Expire

LEMMA ServerHolds == Spec => []ServerOK
<1>1. Init => ServerOK
  BY DEF Init, ServerOK
<1> QED
  BY <1>1, ServerNext, PTL DEF Spec

LEMMA MintedType ==
  ASSUME TypeOK, NEW u \in Users, NEW revoke \in BOOLEAN
  PROVE  Minted(enroll[u], revoke) \in EnrollmentRow
<1>1. enroll[u].row \in Nat
  BY DEF TypeOK, EnrollmentRow
<1>2. (IF enroll[u].st \in {"pending", "expired"} THEN enroll[u].row ELSE enroll[u].row + 1) \in Nat
  BY <1>1
<1> QED
  BY <1>2 DEF Minted, EnrollmentRow

LEMMA EnrollmentSteps ==
  ASSUME IInv, ServerOK, ResetUserCredentials \/ MintForBoss PROVE IInv'
<1> USE BossAssumption DEF IInv
<1>1. enroll' \in [Users -> EnrollmentRow]
  <2>1. CASE ResetUserCredentials
    <3>1. PICK u \in users, keep \in BOOLEAN : enroll' = [enroll EXCEPT ![u] = Minted(@, ~keep)]
      BY <2>1 DEF ResetUserCredentials
    <3>2. u \in Users
      BY <3>1 DEF TypeOK
    <3>3. PICK revoke \in BOOLEAN : revoke = ~keep
      OBVIOUS
    <3>4. Minted(enroll[u], revoke) \in EnrollmentRow
      BY <3>2, MintedType
    <3> QED
      BY <3>1, <3>3, <3>4 DEF TypeOK
  <2>2. CASE MintForBoss
    <3>1. enroll' = [enroll EXCEPT ![Boss] = IF Pending(Boss) THEN @ ELSE Minted(@, server.reset)]
      BY <2>2 DEF MintForBoss
    <3>2. Minted(enroll[Boss], server.reset) \in EnrollmentRow
      BY MintedType DEF ServerOK
    <3> QED
      BY <3>1, <3>2 DEF TypeOK
  <2> QED
    BY <2>1, <2>2
<1>2. UNCHANGED <<users, admins, cleared, passkey, invite, member, pc, req>>
  BY DEF ResetUserCredentials, MintForBoss, auth
<1>3. AdminOK' /\ users' \subseteq Users /\ admins' \subseteq Users /\ invite' \in [Invites -> InviteRow]
  BY <1>2 DEF TypeOK, AdminOK
<1> QED
  BY <1>1, <1>2, <1>3, TokenSteps DEF InvitesOK

LEMMA InviteSteps ==
  ASSUME IInv, CreateBusinessInvite \/ RevokeBusinessInvite \/ Expire PROVE IInv'
<1> USE DEF IInv
<1>1. UNCHANGED <<users, admins, cleared, passkey, member, pc, req>>
  BY DEF CreateBusinessInvite, RevokeBusinessInvite, Expire, auth
<1>2. enroll' \in [Users -> EnrollmentRow]
  BY DEF CreateBusinessInvite, RevokeBusinessInvite, Expire, TypeOK, EnrollmentRow
<1>3. /\ invite' \in [Invites -> InviteRow]
      /\ \A i \in Invites :
           /\ invite'[i].st = "accepted" <=> invite[i].st = "accepted"
           /\ invite'[i].st # "none" => invite'[i].user \in Users
           /\ invite[i].st # "none" => invite'[i].st # "none" /\ invite'[i].user = invite[i].user
  <2>1. CASE CreateBusinessInvite
    <3>1. PICK i \in Invites, u \in Users :
            /\ invite[i].st = "none"
            /\ invite' = [invite EXCEPT ![i] = [st |-> "pending", user |-> u, revoked |-> FALSE]]
      BY <2>1, InvitedAssumption DEF CreateBusinessInvite
    <3>2. invite'[i].st = "pending" /\ invite'[i].user = u
      BY <3>1 DEF TypeOK
    <3>3. \A j \in Invites \ {i} : invite'[j] = invite[j]
      BY <3>1 DEF TypeOK
    <3>4. invite' \in [Invites -> InviteRow]
      BY <3>1 DEF TypeOK, InviteRow
    <3> QED
      BY <3>1, <3>2, <3>3, <3>4 DEF InvitesOK
  <2>2. CASE RevokeBusinessInvite
    <3>1. PICK i \in Invites : invite' = [invite EXCEPT ![i].revoked = TRUE]
      BY <2>2 DEF RevokeBusinessInvite
    <3>2. \A j \in Invites :
            /\ invite'[j] \in InviteRow
            /\ invite'[j].st = invite[j].st /\ invite'[j].user = invite[j].user
      BY <3>1 DEF TypeOK, InviteRow
    <3> QED
      BY <3>1, <3>2 DEF TypeOK, InvitesOK
  <2>3. CASE Expire
    BY <2>3 DEF Expire, Open, TypeOK, InviteRow, InvitesOK
  <2> QED
    BY <2>1, <2>2, <2>3
<1>4. AdminOK' /\ users' \subseteq Users /\ admins' \subseteq Users
  BY <1>1 DEF TypeOK, AdminOK
<1> QED
  BY <1>1, <1>2, <1>3, <1>4, TokenSteps

\* The owner's row is nobody's acceptance, and nobody is inserting it.
LEMMA CreateBusinessInv == ASSUME IInv, CreateBusiness PROVE IInv'
<1> USE NullAssumption, MemberAssumption DEF IInv
<1>1. PICK u \in admins :
        /\ member[u] = "no"
        /\ member' = [member EXCEPT ![u] = "owner"]
        /\ UNCHANGED <<users, admins, cleared, passkey, enroll, invite, pc, req>>
  BY DEF CreateBusiness, auth, TypeOK
<1>2. u \in Users
  BY <1>1 DEF TypeOK
<1>3. member'[u] = "owner" /\ \A v \in Users \ {u} : member'[v] = member[v]
  BY <1>1, <1>2 DEF TypeOK
<1>4. TypeOK'
  BY <1>1, <1>2 DEF TypeOK
<1>5. RequestsOK'
  <2> SUFFICES ASSUME NEW w \in Workers PROVE RequestOK(w, pc[w], req[w])'
    BY DEF RequestsOK
  <2>1. RequestOK(w, pc[w], req[w])
    BY DEF RequestsOK
  <2>2. pc[w] = "accept" => req[w].user \in Users /\ member[req[w].user] = w /\ w # "no"
    BY <2>1 DEF RequestOK
  <2>3. pc[w] = "accept" => member'[req[w].user] = w
    BY <1>1, <1>3, <2>2
  <2> QED
    BY <1>1, <2>1, <2>3 DEF RequestOK
<1>6. InvitesOK' /\ AdminOK' /\ ResetRevokes'
  BY <1>1 DEF InvitesOK, AdminOK, ResetRevokes
<1>7. HeldOK'
  BY <1>1, <1>3 DEF HeldOK
<1>8. InviteHonoured'
  BY <1>1, <1>3 DEF InviteHonoured
<1> QED
  BY <1>4, <1>5, <1>6, <1>7, <1>8

LEMMA StartSteps ==
  ASSUME IInv, StartServer \/ FindAdmin \/ GrantBoss PROVE IInv'
<1> USE BossAssumption DEF IInv
<1>1. UNCHANGED <<cleared, passkey, enroll, invite, member, pc, req>>
  BY DEF StartServer, FindAdmin, GrantBoss, auth
<1>2. users' \subseteq Users /\ admins' \subseteq Users /\ AdminOK'
  BY DEF StartServer, FindAdmin, GrantBoss, auth, TypeOK, AdminOK
<1>3. enroll' \in [Users -> EnrollmentRow] /\ invite' \in [Invites -> InviteRow]
  BY <1>1 DEF TypeOK
<1> QED
  BY <1>1, <1>2, <1>3, TokenSteps DEF InvitesOK

\* Every step keeps the invariant.
LEMMA NextInv == ASSUME IInv, ServerOK, [Next]_vars PROVE IInv'
<1>1. CASE UNCHANGED vars
  BY <1>1 DEF vars, auth, IInv, TypeOK, RequestsOK, RequestOK, InvitesOK, HeldOK, AdminOK,
              InviteHonoured, ResetRevokes
<1>2. ASSUME NEW w \in Workers, Step(w) PROVE IInv'
  <2>1. CASE AskAdmin(w) \/ SeeAdmins(w) \/ ClearGlobalAdmin(w)
    BY <2>1, TransferSteps
  <2>2. CASE SetGlobalAdmin(w) \/ RevokeGlobalAdmin(w)
    BY <2>2, AdminSteps
  <2>3. CASE BeginRegistration(w)
    BY <2>3, BeginInv
  <2>4. CASE FinishWithEnrollment(w)
    BY <2>4, FinishWithEnrollmentInv
  <2>5. CASE FinishWithInvite(w)
    BY <2>5, FinishWithInviteInv
  <2>6. CASE AcceptBusinessInvite(w)
    BY <2>6, AcceptBusinessInviteInv
  <2>7. CASE SeePasskeys(w)
    BY <2>7, SeePasskeysInv
  <2>8. CASE DeletePasskeys(w)
    BY <2>8, DeletePasskeysInv
  <2>9. CASE RegisterByEnrollment(w)
    BY <2>9, RegisterByEnrollmentInv
  <2>10. CASE Join(w)
    BY <2>10, JoinInv
  <2>11. CASE AcceptInvite(w)
    BY <2>11, AcceptInviteInv
  <2>12. CASE Abort(w)
    BY <2>12, FailInv DEF Abort
  <2> QED
    BY <1>2, <2>1, <2>2, <2>3, <2>4, <2>5, <2>6, <2>7, <2>8, <2>9, <2>10, <2>11, <2>12 DEF Step
<1>3. CASE ResetUserCredentials \/ MintForBoss
  BY <1>3, EnrollmentSteps
<1>4. CASE CreateBusinessInvite \/ RevokeBusinessInvite \/ Expire
  BY <1>4, InviteSteps
<1>5. CASE StartServer \/ FindAdmin \/ GrantBoss
  BY <1>5, StartSteps
<1>6. CASE Crash
  BY <1>6, CrashInv
<1>7. CASE CreateBusiness
  BY <1>7, CreateBusinessInv
<1> QED
  BY <1>1, <1>2, <1>3, <1>4, <1>5, <1>6, <1>7 DEF Next

\* The invariant holds in every behaviour.
THEOREM InvHolds == Spec => []IInv
BY InitInv, NextInv, ServerHolds, PTL DEF Spec

-----------------------------------------------------------------------------
\* An invite opens one account at most, and a member, the acceptance and the
\* passkey of an invite come together (webauthn.go FinishRegistration,
\* business_service.go AcceptBusinessInvite).
THEOREM InviteHonouredHolds == Spec => []InviteHonoured
<1>1. IInv => InviteHonoured
  BY DEF IInv
<1> QED
  BY <1>1, InvHolds, PTL

\* What a redeemed reset read of the account's passkeys is gone (webauthn.go
\* FinishRegistration, DeleteWebAuthnCredentialsForUser).
THEOREM ResetRevokesHolds == Spec => []ResetRevokes
<1>1. IInv => ResetRevokes
  BY DEF IInv
<1> QED
  BY <1>1, InvHolds, PTL

LEMMA OneAtMost == ASSUME NEW S, \A u, v \in S : u = v PROVE Cardinality(S) <= 1
<1>1. CASE S = {}
  BY <1>1, FS_EmptySet
<1>2. CASE S # {}
  <2>1. PICK u : S = {u}
    <3>1. PICK u : u \in S
      BY <1>2
    <3>2. S = {u}
      BY <3>1
    <3> QED
      BY <3>2
  <2>2. Cardinality({u}) = 1
    BY FS_Singleton
  <2> QED
    BY <2>1, <2>2
<1> QED
  BY <1>1, <1>2

\* Only revoking the one global admin there is leaves none.
LEMMA AdminKept ==
  ASSUME IInv, [Next]_vars, admins # {}, admins' = {}
  PROVE  \E w \in Workers : pc[w] = "drop" /\ admins = {req[w].user}
<1>1. ~UNCHANGED admins
  OBVIOUS
<1>2. PICK w \in Workers : RevokeGlobalAdmin(w)
  <2>1. ASSUME NEW w \in Workers, Step(w) PROVE RevokeGlobalAdmin(w)
    <3>1. CASE SetGlobalAdmin(w)
      BY <3>1 DEF SetGlobalAdmin, Fail
    <3>2. CASE AskAdmin(w) \/ SeeAdmins(w) \/ ClearGlobalAdmin(w) \/ BeginRegistration(w)
               \/ FinishWithEnrollment(w) \/ FinishWithInvite(w) \/ AcceptBusinessInvite(w)
      BY <1>1, <3>2 DEF AskAdmin, SeeAdmins, ClearGlobalAdmin, ClearFlags, BeginRegistration,
                        FinishWithEnrollment, FinishWithInvite, AcceptBusinessInvite, auth
    <3>3. CASE SeePasskeys(w) \/ DeletePasskeys(w) \/ RegisterByEnrollment(w) \/ Join(w)
               \/ AcceptInvite(w) \/ Abort(w)
      BY <1>1, <3>3 DEF SeePasskeys, DeletePasskeys, RegisterByEnrollment, Join, AcceptInvite,
                        Abort, Fail, auth
    <3> QED
      BY <2>1, <3>1, <3>2, <3>3 DEF Step
  <2>2. ~GrantBoss
    BY DEF GrantBoss
  <2> QED
    BY <1>1, <2>1, <2>2 DEF Next, vars, auth, ResetUserCredentials, CreateBusiness,
       CreateBusinessInvite, RevokeBusinessInvite, Expire, StartServer, FindAdmin, MintForBoss, Crash
<1>3. pc[w] = "drop" /\ admins' = admins \ {req[w].user}
  BY <1>2 DEF RevokeGlobalAdmin
<1>4. admins = {req[w].user}
  BY <1>3
<1> QED
  BY <1>3, <1>4

\* One global admin at most at any time, and none is left only by revoking the
\* one there is (admin.go GrantGlobalAdmin, RevokeGlobalAdmin).
THEOREM OneAdminHolds == Spec => OneAdmin
<1>1. ASSUME IInv, ServerOK, [Next]_vars
      PROVE  /\ Cardinality(admins') <= 1
             /\ admins # {} /\ admins' = {} =>
                  \E w \in Workers : pc[w] = "drop" /\ admins = {req[w].user}
  <2>1. AdminOK'
    BY <1>1, NextInv DEF IInv
  <2>2. Cardinality(admins') <= 1
    BY <2>1, OneAtMost DEF AdminOK
  <2> QED
    BY <1>1, <2>2, AdminKept
<1> QED
  BY <1>1, InvHolds, ServerHolds, PTL DEF Spec, OneAdmin

\* A step that registers a passkey takes passkeys only from its user.
LEMMA StillSignsIn ==
  ASSUME IInv, NEW w \in Workers, NEW k \in Passkeys, passkey[k].st = "none",
         passkey' = Registered(w, k), pc[w] \in {"register", "accept"}, NEW u \in Users,
         Of(u) # {}
  PROVE  Of(u)' # {}
<1>1. /\ passkey'[k].st = "live" /\ passkey'[k].user = req[w].user
      /\ \A o \in Passkeys \ {k} :
           /\ passkey'[o].user = passkey[o].user
           /\ passkey'[o].st = IF passkey[o].by = w THEN "gone" ELSE passkey[o].st
  BY RegisteredRows
<1>2. CASE u = req[w].user
  BY <1>1, <1>2 DEF Of
<1>3. CASE u # req[w].user
  <2>1. PICK o \in Passkeys : passkey[o].st = "live" /\ passkey[o].user = u
    BY DEF Of
  <2>2. o # k /\ passkey[o].by # w
    BY <1>3, <2>1 DEF IInv, HeldOK
  <2> QED
    BY <1>1, <2>1, <2>2 DEF Of
<1> QED
  BY <1>2, <1>3

\* Giving up and deleting keep every passkey a passkey of its user.
LEMMA RowsKept ==
  ASSUME IInv, NEW u \in Users, Of(u) # {},
         \A k \in Passkeys : passkey'[k].st = passkey[k].st /\ passkey'[k].user = passkey[k].user
  PROVE  Of(u)' # {}
BY DEF Of

LEMMA RollbackKeeps ==
  ASSUME IInv, NEW ws, Rollback(ws)
  PROVE  \A k \in Passkeys : passkey'[k].st = passkey[k].st /\ passkey'[k].user = passkey[k].user
BY DEF IInv, TypeOK, PasskeyRow, Rollback

\* Nothing takes away an account's last passkey (bootstrap.go: "never locks the
\* admin out").
THEOREM NeverLockedOutHolds == Spec => NeverLockedOut
<1>1. ASSUME IInv, [Next]_vars, passkey' # passkey, NEW u \in Users, Of(u) # {}
      PROVE  Of(u)' # {}
  <2>1. ASSUME NEW w \in Workers, Step(w) PROVE Of(u)' # {}
    <3>1. CASE Fail(w)
      BY <1>1, <3>1, RollbackKeeps, RowsKept DEF Fail
    <3>2. CASE SetGlobalAdmin(w) /\ ~Fail(w)
      BY <1>1, <3>2, RollbackKeeps, RowsKept DEF SetGlobalAdmin
    <3>3. CASE DeletePasskeys(w)
      <4>1. \A k \in Passkeys : passkey'[k].st = passkey[k].st /\ passkey'[k].user = passkey[k].user
        BY <1>1, <3>3 DEF DeletePasskeys, Deleted, IInv, TypeOK, PasskeyRow
      <4> QED
        BY <1>1, <4>1, RowsKept
    <3>4. CASE RegisterByEnrollment(w) \/ AcceptInvite(w)
      <4>1. PICK k \in Passkeys : passkey[k].st = "none" /\ passkey' = Registered(w, k)
        BY <1>1, <3>4 DEF RegisterByEnrollment, AcceptInvite
      <4>2. pc[w] \in {"register", "accept"}
        BY <3>4 DEF RegisterByEnrollment, AcceptInvite
      <4> QED
        BY <1>1, <4>1, <4>2, StillSignsIn
    <3>5. CASE AskAdmin(w) \/ SeeAdmins(w) \/ ClearGlobalAdmin(w) \/ RevokeGlobalAdmin(w)
               \/ BeginRegistration(w) \/ FinishWithEnrollment(w) \/ FinishWithInvite(w)
      BY <1>1, <3>5 DEF AskAdmin, SeeAdmins, ClearGlobalAdmin, RevokeGlobalAdmin, BeginRegistration,
                        FinishWithEnrollment, FinishWithInvite
    <3>6. CASE AcceptBusinessInvite(w) \/ SeePasskeys(w) \/ (Join(w) /\ ~Fail(w))
      BY <1>1, <3>6 DEF AcceptBusinessInvite, SeePasskeys, Join
    <3> QED
      BY <2>1, <3>1, <3>2, <3>3, <3>4, <3>5, <3>6 DEF Step, Abort
  <2>2. CASE Crash
    BY <1>1, <2>2, RollbackKeeps, RowsKept DEF Crash
  <2> QED
    BY <1>1, <2>1, <2>2 DEF Next, vars, ResetUserCredentials, CreateBusiness,
       CreateBusinessInvite, RevokeBusinessInvite, Expire, StartServer, FindAdmin, GrantBoss, MintForBoss
<1>2. IInv /\ [Next]_vars => [\A u \in Users : Of(u) # {} => Of(u)' # {}]_passkey
  BY <1>1
<1> QED
  BY <1>2, InvHolds, PTL DEF Spec, NeverLockedOut
=====================================================
