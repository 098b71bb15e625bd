------------------------------ MODULE Business ------------------------------
(***************************************************************************)
(* One business and what its requests contend for: the business row, which *)
(* pins the accounts the system posts to and counts the documents, and the *)
(* unique indexes of the chart of accounts and of the document numbers.    *)
(*                                                                         *)
(* CreateContact and Close resolve the system accounts they need in their  *)
(* own READ COMMITTED transaction: read the business row, find the account *)
(* by its code or insert it, pin it.  CreateInvoice and CreateEstimate     *)
(* claim the next number in the transaction that inserts the document.  An *)
(* UPDATE of the business row locks it until the transaction ends.  An     *)
(* INSERT under a key that another transaction has inserted waits for that *)
(* transaction and fails if it commits.                                    *)
(***************************************************************************)
EXTENDS Naturals, Sequences, FiniteSets

CONSTANTS
  Workers,     \* requests that may be in flight at the same time
  Contacts,    \* BOUND: ids of contact rows
  Documents,   \* BOUND: ids of invoice and estimate rows
  Counters,    \* BOUND: which of the counters, SALES and ESTIMATE, are used
  First,       \* the first number of a business's own documents
  Asked,       \* BOUND: the roles each contact asks for, in their order
  ByHand,      \* BOUND: the system accounts whose codes users touch
  Typed,       \* numbers a vendor's invoice may come with
  NoWorker

ASSUME CountersAssumption == Counters \subseteq {"SALES", "ESTIMATE"}
ASSUME NumbersAssumption == First \in Nat /\ Typed \subseteq Nat
ASSUME NoWorkerAssumption == NoWorker \notin Workers

ASSUME AskedAssumption == Asked \in [Contacts -> {<<"AR">>, <<"AP">>, <<"AR", "AP">>}]

VARIABLES
  business,    \* the business row, as committed
  draft,       \* the row as its lock's holder has rewritten it
  lock,        \* who holds the row's lock
  account,     \* the ledger accounts at the system accounts' codes
  contact,     \* the contacts, each with its own sub-accounts
  document,    \* the invoices and estimates: their numbers
  pc,          \* what each request does next
  req          \* what each request was given

vars == <<business, draft, lock, account, contact, document, pc, req>>

\* A contact's own sub-account is under AR or AP.
Sides == {"AR", "AP"}
Roles == Sides \union {"IncomeSummary", "RetainedEarnings"}

\* A document's kind is the counter its number comes from, or PURCHASE: a
\* vendor's invoice, which shares the unique index of SALES.
SameIndex(k, l) == (k = "ESTIMATE") = (l = "ESTIMATE")

\* usable: the account has the type its role demands, is active, and is a
\* container for AR and AP and none for the others.
NoAccount == [st |-> "none", by |-> NoWorker, usable |-> FALSE, system |-> FALSE]
SystemAccount == [st |-> "live", by |-> NoWorker, usable |-> TRUE, system |-> TRUE]

NoContact == [st |-> "none", by |-> NoWorker, sides |-> {}, active |-> FALSE,
              sub |-> [s \in Sides |-> "none"]]

NoDocument == [st |-> "none", by |-> NoWorker, kind |-> "SALES", number |-> 0]

\* todo: the roles still to be resolved.
NoRequest == [kind |-> "none", number |-> 0, todo |-> <<>>]

NewBusiness(exists, pinned) ==
  [exists |-> exists, pin |-> [r \in Roles |-> pinned], next |-> [k \in Counters |-> First]]

\* No business yet, or one that predates the pinned accounts, with the
\* containers the migration gives to business 1 or with no account at all.
Init ==
  /\ \E exists, seeded \in BOOLEAN :
       /\ business = NewBusiness(exists, FALSE)
       /\ account = [r \in Roles |-> IF exists /\ seeded /\ r \in Sides
                                     THEN SystemAccount ELSE NoAccount]
  /\ draft = business
  /\ lock = NoWorker
  /\ contact = [c \in Contacts |-> NoContact]
  /\ document = [d \in Documents |-> NoDocument]
  /\ pc = [w \in Workers |-> "idle"]
  /\ req = [w \in Workers |-> NoRequest]

-----------------------------------------------------------------------------
Goto(w, step) == pc' = [pc EXCEPT ![w] = step]

\* The business row as w's next statement sees it.
Row(w) == IF lock = w THEN draft ELSE business

CanWrite(w) == lock \in {NoWorker, w}

\* An UPDATE of the business row: on the committed row, or on w's own.
Write(w, row) == draft' = row /\ lock' = w

Ended(w, rows, keep, none) ==
  [x \in DOMAIN rows |->
     IF rows[x].by # w THEN rows[x]
     ELSE IF keep THEN [rows[x] EXCEPT !.st = "live", !.by = NoWorker] ELSE none]

\* What w has inserted stays or goes, with everything else.
EndTx(w, keep) ==
  /\ account' = Ended(w, account, keep, NoAccount)
  /\ contact' = Ended(w, contact, keep, NoContact)
  /\ document' = Ended(w, document, keep, NoDocument)
  /\ lock' = IF lock = w THEN NoWorker ELSE lock
  /\ Goto(w, "idle")
  /\ req' = [req EXCEPT ![w] = NoRequest]

Commit(w) ==
  /\ pc[w] = "commit"
  /\ EndTx(w, TRUE)
  /\ business' = Row(w)
  /\ UNCHANGED draft

\* (variants: the claimed number is not part of the transaction; the handler
\* returns and leaves its transaction open)
RollbackKeepsClaim(w) ==
  /\ EndTx(w, FALSE)
  /\ draft' = IF lock = w THEN [business EXCEPT !.next = draft.next] ELSE draft
  /\ business' = IF lock = w THEN [business EXCEPT !.next = draft.next] ELSE business
RollbackForgotten(w) ==
  /\ Goto(w, "idle") /\ req' = [req EXCEPT ![w] = NoRequest]
  /\ UNCHANGED <<business, draft, lock, account, contact, document>>
Rollback(w) ==
  /\ EndTx(w, FALSE)
  /\ draft' = IF lock = w THEN business ELSE draft
  /\ UNCHANGED business

\* Another statement fails, the client goes away, the process dies.
Abort(w) == pc[w] # "idle" /\ Rollback(w)

-----------------------------------------------------------------------------
(***************************************************************************)
(* The system accounts.                                                    *)
(***************************************************************************)
\* CreateBusiness resolves all four before anybody can see the business.
CreateBusiness ==
  /\ ~business.exists
  /\ business' = NewBusiness(TRUE, TRUE)
  /\ draft' = business'
  /\ account' = [r \in Roles |-> SystemAccount]
  /\ UNCHANGED <<lock, contact, document, pc, req>>

\* A request of one transaction.
Begin(w, kind, number, todo, step) ==
  /\ pc[w] = "idle" /\ business.exists
  /\ req' = [req EXCEPT ![w] = [kind |-> kind, number |-> number, todo |-> todo]]
  /\ Goto(w, step)

\* Close, up to the two accounts it needs.
BeginClose(w) ==
  /\ Begin(w, "close", 0, <<"IncomeSummary", "RetainedEarnings">>, "resolve")
  /\ UNCHANGED <<business, draft, lock, account, contact, document>>

\* CreateContact, of a customer, a vendor, or both in this order.
CreateContact(w) ==
  \E c \in Contacts : LET todo == Asked[c] IN
    /\ contact[c].st = "none"
    /\ Begin(w, "contact", 0, todo, "resolve")
    /\ contact' = [contact EXCEPT ![c] = [NoContact EXCEPT
                     !.st = "open", !.by = w, !.active = TRUE,
                     !.sides = {todo[i] : i \in DOMAIN todo}]]
    /\ UNCHANGED <<business, draft, lock, account, document>>

\* The account of the first role left is known: a contact gets its sub-account
\* under it, in a row of its own code.
Resolved(w) ==
  LET r == Head(req[w].todo) IN
  /\ req' = [req EXCEPT ![w].todo = Tail(@)]
  /\ contact' = [c \in Contacts |-> IF contact[c].by = w
                                    THEN [contact[c] EXCEPT !.sub[r] = "active"]
                                    ELSE contact[c]]
  /\ Goto(w, "resolve")

\* resolveSystemAccount reads the business row.
ReadBusiness(w) ==
  /\ pc[w] = "resolve"
  /\ UNCHANGED <<business, draft, lock, account, document>>
  /\ \/ req[w].todo = <<>> /\ Goto(w, "commit") /\ UNCHANGED <<contact, req>>
     \/ req[w].todo # <<>> /\ Row(w).pin[Head(req[w].todo)] /\ Resolved(w)
     \/ /\ req[w].todo # <<>> /\ ~Row(w).pin[Head(req[w].todo)]
        /\ Goto(w, "find")
        /\ UNCHANGED <<contact, req>>

\* GetLedgerAccountByCode: a usable account is adopted, another one refused.
FindAccount(w) ==
  LET row == account[Head(req[w].todo)] IN
  /\ pc[w] = "find"
  /\ IF row.st = "live" /\ ~row.usable THEN Rollback(w)
     ELSE /\ Goto(w, IF row.st = "live" THEN "pin" ELSE "insert")
          /\ UNCHANGED <<business, draft, lock, account, contact, document, req>>

\* CreateLedgerAccount waits for whoever has inserted the code.
InsertAccount(w) ==
  LET r == Head(req[w].todo) IN
  /\ pc[w] = "insert" /\ account[r].st # "open"
  /\ IF account[r].st = "live" THEN Rollback(w)
     ELSE /\ account' = [account EXCEPT ![r] = [SystemAccount EXCEPT !.st = "open", !.by = w]]
          /\ Goto(w, "pin")
          /\ UNCHANGED <<business, draft, lock, contact, document, req>>

\* UPDATE business SET .. WHERE .. IS NULL: no row is no error.
\* (variant: a statement of its own)
PinAccountAtOnce(w) ==
  LET r == Head(req[w].todo) IN
  /\ pc[w] = "pin" /\ CanWrite(w)
  /\ business' = [business EXCEPT !.pin[r] = TRUE]
  /\ draft' = [draft EXCEPT !.pin[r] = TRUE]
  /\ Resolved(w)
  /\ UNCHANGED <<lock, account, document>>
PinAccount(w) ==
  LET r == Head(req[w].todo) IN
  /\ pc[w] = "pin" /\ (business.pin[r] \/ CanWrite(w))
  /\ IF Row(w).pin[r] THEN UNCHANGED <<draft, lock>>
     ELSE Write(w, [Row(w) EXCEPT !.pin[r] = TRUE])
  /\ Resolved(w)
  /\ UNCHANGED <<business, account, document>>

-----------------------------------------------------------------------------
(***************************************************************************)
(* Accounts and contacts by hand.                                          *)
(***************************************************************************)
\* A user may take a system account's code first.
CreateLedgerAccount ==
  /\ business.exists
  /\ \E r \in ByHand, usable \in BOOLEAN :
       /\ account[r].st = "none"
       /\ account' = [account EXCEPT ![r] = [SystemAccount EXCEPT !.usable = usable, !.system = FALSE]]
  /\ UNCHANGED <<business, draft, lock, contact, document, pc, req>>

\* is_container, of a system account too.
UpdateLedgerAccount ==
  /\ \E r \in ByHand :
       /\ account[r].st = "live"
       /\ account' = [account EXCEPT ![r].usable = ~@]
  /\ UNCHANGED <<business, draft, lock, contact, document, pc, req>>

\* DeactivateLedgerAccount, of a system account's code or of a sub-account,
\* which is a system account.
MayBeDeactivated(system) == ~system

DeactivateLedgerAccount ==
  /\ \/ /\ \E r \in ByHand :
             /\ account[r].st = "live" /\ MayBeDeactivated(account[r].system)
             /\ account' = [account EXCEPT ![r].usable = FALSE]
        /\ UNCHANGED contact
     \/ /\ MayBeDeactivated(TRUE)
        /\ \E c \in Contacts, s \in Sides :
             /\ contact[c].st = "live" /\ contact[c].sub[s] = "active"
             /\ contact' = [contact EXCEPT ![c].sub[s] = "inactive"]
        /\ UNCHANGED account
  /\ UNCHANGED <<business, draft, lock, document, pc, req>>

\* In one transaction: the contact, and each of its accounts with no balance.
DeactivateContact ==
  /\ \E c \in Contacts : \E zero \in SUBSET contact[c].sides :
       /\ contact[c].st = "live"
       /\ contact' = [contact EXCEPT ![c].active = FALSE,
                        ![c].sub = [s \in Sides |-> IF s \in zero THEN "inactive" ELSE @[s]]]
  /\ UNCHANGED <<business, draft, lock, account, document, pc, req>>

-----------------------------------------------------------------------------
(***************************************************************************)
(* Document numbers.                                                       *)
(***************************************************************************)
\* CreateInvoice of a sale, CreateEstimate.
BeginOwn(w) ==
  /\ \E kind \in Counters : Begin(w, kind, 0, <<>>, "claim")
  /\ UNCHANGED <<business, draft, lock, account, contact, document>>

\* CreateInvoice of a purchase: the number is the vendor's.
BeginPurchase(w) ==
  /\ \E n \in Typed : Begin(w, "PURCHASE", n, <<>>, "number")
  /\ UNCHANGED <<business, draft, lock, account, contact, document>>

\* ConsumeNextInvoiceNumber, ConsumeNextEstimateNumber.
ClaimNumber(w) ==
  LET k == req[w].kind IN
  /\ pc[w] = "claim" /\ CanWrite(w)
  /\ Write(w, [Row(w) EXCEPT !.next[k] = @ + 1])
  /\ req' = [req EXCEPT ![w].number = Row(w).next[k]]
  /\ Goto(w, "number")
  /\ UNCHANGED <<business, account, contact, document>>

\* The rows of the unique index that have w's number, but for w's own.
Clashes(w) ==
  {d \in Documents : /\ document[d].st # "none" /\ document[d].by # w
                     /\ SameIndex(document[d].kind, req[w].kind)
                     /\ document[d].number = req[w].number}

InsertDocument(w) ==
  /\ pc[w] = "number"
  /\ \A d \in Clashes(w) : document[d].st = "live"
  /\ IF Clashes(w) # {} THEN Rollback(w)
     ELSE /\ \E d \in Documents : document[d].st = "none"
          /\ document' = [document EXCEPT ![CHOOSE d \in Documents : document[d].st = "none"] =
                    [st |-> "open", by |-> w, kind |-> req[w].kind, number |-> req[w].number]]
          /\ Goto(w, "commit")
          /\ UNCHANGED <<business, draft, lock, account, contact, req>>

\* BOUND: no row is left for the document.
NoDocumentLeft(w) ==
  /\ pc[w] = "number" /\ \A d \in Documents : document[d].st # "none"
  /\ Rollback(w)

-----------------------------------------------------------------------------
\* v waits for w: for the business row's lock, or for a key w has inserted.
WaitsFor(v, w) ==
  /\ v # w
  /\ \/ pc[v] = "claim" /\ lock = w
     \/ pc[v] = "pin" /\ ~business.pin[Head(req[v].todo)] /\ lock = w
     \/ pc[v] = "insert" /\ account[Head(req[v].todo)].by = w
     \/ pc[v] = "number" /\ \E d \in Clashes(v) : document[d].by = w

\* PostgreSQL aborts a transaction that waits, directly or not, for itself.
InCycle(w) ==
  \E cycle \in SUBSET Workers :
    /\ w \in cycle
    /\ \A u \in cycle : \E v \in cycle : WaitsFor(u, v)
    /\ \A v \in cycle : \E u \in cycle : WaitsFor(u, v)

BreakDeadlock(w) == InCycle(w) /\ Rollback(w)

\* What a request in flight does next, when it neither waits nor fails.
Step(w) ==
  \/ ReadBusiness(w) \/ FindAccount(w) \/ InsertAccount(w) \/ PinAccount(w)
  \/ ClaimNumber(w) \/ InsertDocument(w) \/ NoDocumentLeft(w)
  \/ Commit(w) \/ BreakDeadlock(w)

Next ==
  \/ CreateBusiness \/ CreateLedgerAccount \/ UpdateLedgerAccount
  \/ DeactivateLedgerAccount \/ DeactivateContact
  \/ \E w \in Workers : \/ BeginClose(w) \/ CreateContact(w)
                        \/ BeginOwn(w) \/ BeginPurchase(w)
                        \/ Step(w) \/ Abort(w)

Spec == Init /\ [][Next]_vars

\* The statements that may have to wait for another transaction to end.
Waiting(w) == InsertAccount(w) \/ PinAccount(w) \/ ClaimNumber(w) \/ InsertDocument(w)

\* A request that has begun keeps executing statements (weak fairness), and a
\* waiting one gets the row or the key before requests that ask for it later
\* (strong fairness).
FairSpec ==
  Spec /\ \A w \in Workers : WF_vars(Step(w)) /\ SF_vars(Waiting(w))

-----------------------------------------------------------------------------
(***************************************************************************)
(* Properties.                                                             *)
(***************************************************************************)
Live(rows) == {x \in DOMAIN rows : rows[x].st = "live"}

\* Sales are numbered without a gap, each number once, in the order in which
\* they are committed, failed requests and deadlocks in between or not.
Numbers(k) ==
  [d \in {e \in Live(document) : document[e].kind = k} |-> document[d].number]
Sales == INSTANCE GaplessNumbers WITH number <- Numbers("SALES")
SalesGapless == Sales!Spec

\* Whoever creates contacts or closes together and whichever of them fails, a
\* pinned account exists (no rollback takes it from another request), and a
\* contact has a sub-account for each of its sides, under the pinned account.
ContactWhole ==
  /\ \A r \in Roles : business.pin[r] => account[r].st = "live"
  /\ \A c \in Live(contact) : \A s \in contact[c].sides :
       contact[c].sub[s] # "none" /\ business.pin[s]

\* Every request ends, those that resolve accounts in crossing orders included.
EveryRequestEnds == \A w \in Workers : pc[w] # "idle" ~> pc[w] = "idle"
=============================================================================
