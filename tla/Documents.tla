------------------------------ MODULE Documents ------------------------------
(***************************************************************************)
(* Invoices and the payments applied to them, at the granularity at which  *)
(* PostgreSQL interleaves the handlers of InvoiceService and               *)
(* PaymentService.                                                         *)
(*                                                                         *)
(* A handler reads the documents on the pool, decides, and then writes: a  *)
(* status change in one statement, everything else in one READ COMMITTED   *)
(* transaction.  An UPDATE of an invoice takes the row's lock until the    *)
(* transaction ends, waits for a holder, and evaluates its WHERE clause on *)
(* the row as it then is; what the handler read before is never read       *)
(* again.  A client may send the resource_version it has read, and its     *)
(* UPDATE then matches only a row nobody has written since.                *)
(*                                                                         *)
(* The ledger is reduced to what a document promises about it: the amount  *)
(* that an invoice's ledger_transaction posts to the contact's AR or AP    *)
(* account, and the amount its reversal takes back.  Both are only written *)
(* under the invoice's row lock.  A posting the ledger refuses (a locked   *)
(* period, an unusable account) rolls its transaction back like any other  *)
(* failing statement.                                                      *)
(***************************************************************************)
EXTENDS LedgerMath, Sequences, FiniteSetsExt

CONSTANTS
  Workers,      \* requests that may be in flight at the same time
  Invoices,     \* BOUND: ids of invoice rows
  Payments,     \* BOUND: ids of payment rows
  Totals,       \* what an invoice's lines may add up to
  Plans,        \* applications a payment may ask for: sequences of [inv, amt], ...
  CentParts,    \* ... each amt a number of 1/CentParts of a cent
  Versioned,    \* whether clients send resource_version: a set of BOOLEANs
  NoInvoice, NoPayment, NoWorker

ASSUME TotalsAssumption == Totals \subseteq Nat \ {0}
ASSUME PlansAssumption ==
  /\ CentParts \in Nat \ {0}
  /\ Plans \subseteq Seq([inv : Invoices, amt : Nat \ {0}])
  /\ <<>> \notin Plans
ASSUME VersionedAssumption == Versioned \subseteq BOOLEAN
ASSUME FiniteAssumption == IsFiniteSet(Payments)    \* a database holds finitely many rows
ASSUME NullAssumption == NoInvoice \notin Invoices /\ NoPayment \notin Payments
                           /\ NoWorker \notin Workers

VARIABLES
  invoice,   \* the invoice table, as committed
  draft,     \* each row as its lock's holder has rewritten it
  lock,      \* who holds each row's lock
  payment,   \* the payment table with its payment_application rows
  pc,        \* what each request does next
  req        \* what each request was given and has read

vars == <<invoice, draft, lock, payment, pc, req>>

Statuses == {"DRAFT", "SENT", "OVERDUE", "PAID", "CANCELLED"}

\* invoiceStatusTransitions.
Transitions == [DRAFT |-> {"SENT", "CANCELLED"},
                SENT |-> {"OVERDUE", "CANCELLED"},
                OVERDUE |-> {"SENT", "CANCELLED"},
                PAID |-> {}, CANCELLED |-> {}, NONE |-> {}]

\* A row of invoice with its line items (their total) and its posting: the
\* amount posted under ledger_transaction_id, and the amount of that
\* transaction's reversal, 0 while there is none.
NoRow == [status |-> "NONE", total |-> 0, lines |-> 0, paid |-> 0, due |-> 0,
          posted |-> 0, reversed |-> 0]
NewRow(total) == [NoRow EXCEPT !.status = "DRAFT", !.total = total, !.lines = total,
                               !.due = total, !.posted = total]

\* What a handler uses of the row it has read.
Seen(row) == [status |-> row.status, total |-> row.total, paid |-> row.paid]

NoRequest == [inv |-> NoInvoice, pay |-> NoPayment, seen |-> Seen(NoRow), status |-> "NONE",
              total |-> 0, todo |-> <<>>, checked |-> {},
              versioned |-> FALSE, stale |-> FALSE]

FreePayment == [st |-> "free", by |-> NoWorker, apps |-> <<>>]

Init ==
  /\ invoice = [i \in Invoices |-> NoRow]
  /\ draft = invoice
  /\ lock = [i \in Invoices |-> NoWorker]
  /\ payment = [p \in Payments |-> FreePayment]
  /\ pc = [w \in Workers |-> "idle"]
  /\ req = [w \in Workers |-> NoRequest]

-----------------------------------------------------------------------------
\* draft[i] is the committed row unless somebody else holds its lock, and an
\* UPDATE waits until nobody else does.
CanWrite(w, i) == lock[i] \in {NoWorker, w}

Write(w, i, row) ==
  /\ draft' = [draft EXCEPT ![i] = row]
  /\ lock' = [lock EXCEPT ![i] = w]

\* The from_status predicate of a status change.
StatusMatches(w, row) == row.status = req[w].seen.status

\* The resource_version precondition of request w's first UPDATE.
VersionIgnored(w) == TRUE              \* variant: no precondition
VersionMatches(w) == req[w].versioned => ~req[w].stale

Goto(w, step) == pc' = [pc EXCEPT ![w] = step]

\* w's request ends; every request that has read one of the rows in written
\* now holds an old version of it.
FinishUnnoticed(w, written) ==         \* variant: bump_resource_version is missing
  /\ Goto(w, "idle")
  /\ req' = [req EXCEPT ![w] = NoRequest]
Finish(w, written) ==
  /\ Goto(w, "idle")
  /\ req' = [v \in Workers |-> IF v = w THEN NoRequest
                               ELSE [req[v] EXCEPT !.stale = @ \/ (req[v].versioned /\ req[v].inv \in written)]]

Held(w) == {i \in Invoices : lock[i] = w}

Commit(w) ==
  /\ pc[w] = "commit"
  /\ invoice' = [i \in Invoices |-> IF i \in Held(w) THEN draft[i] ELSE invoice[i]]
  /\ lock' = [i \in Invoices |-> IF i \in Held(w) THEN NoWorker ELSE lock[i]]
  /\ payment' = [p \in Payments |->
       IF payment[p].by # w THEN payment[p]
       ELSE IF payment[p].st = "open" THEN [payment[p] EXCEPT !.st = "live", !.by = NoWorker]
       ELSE [FreePayment EXCEPT !.st = "void"]]
  /\ Finish(w, Held(w))
  /\ UNCHANGED draft

\* (variant: the handler returns and leaves its transaction open)
RollbackForgotten(w) == Finish(w, {}) /\ UNCHANGED <<invoice, draft, lock, payment>>
Rollback(w) ==
  /\ draft' = [i \in Invoices |-> IF i \in Held(w) THEN invoice[i] ELSE draft[i]]
  /\ lock' = [i \in Invoices |-> IF i \in Held(w) THEN NoWorker ELSE lock[i]]
  /\ payment' = [p \in Payments |->
       IF payment[p].by # w THEN payment[p]
       ELSE IF payment[p].st = "open" THEN FreePayment
       ELSE [payment[p] EXCEPT !.st = "live", !.by = NoWorker]]
  /\ Finish(w, {})
  /\ UNCHANGED invoice

\* The posting is refused, the client goes away, the process dies.
Abort(w) == pc[w] # "idle" /\ Rollback(w)

\* The row lock or payment a request waits for, if any, and who holds it.
Wanted(w) ==
  CASE pc[w] \in {"status", "cancel", "lines"} -> req[w].inv
    [] pc[w] \in {"apply", "unapply"} /\ req[w].todo # <<>> -> Head(req[w].todo).inv
    [] OTHER -> NoInvoice

WaitsFor(v, w) == v # w /\ Wanted(v) \in Invoices /\ lock[Wanted(v)] = w

\* PostgreSQL aborts a transaction that waits, directly or not, for itself.
InCycle(w) ==
  \E cycle \in SUBSET Workers :
    /\ w \in cycle
    /\ \A u \in cycle : \E v \in cycle : WaitsFor(u, v)
    /\ \A v \in cycle : \E u \in cycle : WaitsFor(u, v)

BreakDeadlock(w) == InCycle(w) /\ Rollback(w)

-----------------------------------------------------------------------------
(***************************************************************************)
(* InvoiceService.                                                         *)
(***************************************************************************)
\* The new row, its lines and its posting appear together with the commit.
CreateInvoice(w) ==
  /\ pc[w] = "idle"
  /\ \E i \in Invoices, total \in Totals :
       /\ invoice[i].status = "NONE"
       /\ invoice' = [invoice EXCEPT ![i] = NewRow(total)]
       /\ draft' = [draft EXCEPT ![i] = NewRow(total)]
  /\ UNCHANGED <<lock, payment, pc, req>>

\* The header's fields (notes, terms, due date) are not modelled; writing them
\* moves the row's version like any other UPDATE.
UpdateInvoice(w) ==
  /\ pc[w] = "idle"
  /\ \E i \in Invoices :
       /\ invoice[i].status \notin {"NONE", "CANCELLED"} /\ lock[i] = NoWorker
       /\ Finish(w, {i})
  /\ UNCHANGED <<invoice, draft, lock, payment>>

\* A request about one invoice, with the row it has read on the pool.
Load(w, i, status, total, step) ==
  /\ pc[w] = "idle"
  /\ \E versioned \in Versioned :
       req' = [req EXCEPT ![w] = [NoRequest EXCEPT !.inv = i, !.seen = Seen(invoice[i]),
                 !.status = status, !.total = total, !.versioned = versioned]]
  /\ Goto(w, step)
  /\ UNCHANGED <<invoice, draft, lock, payment>>

\* UpdateInvoiceStatus: to SENT or OVERDUE.
LoadForStatus(w) ==
  \E i \in Invoices : \E status \in Transitions[invoice[i].status] \ {"CANCELLED"} :
    Load(w, i, status, 0, "status")

\* UPDATE ... WHERE status = from_status, a transaction of its own.
UpdateInvoiceStatus(w) ==
  LET i == req[w].inv IN
  /\ pc[w] = "status" /\ lock[i] = NoWorker
  /\ IF StatusMatches(w, invoice[i]) /\ VersionMatches(w)
     THEN /\ invoice' = [invoice EXCEPT ![i].status = req[w].status]
          /\ draft' = [draft EXCEPT ![i].status = req[w].status]
          /\ Finish(w, {i})
     ELSE Finish(w, {}) /\ UNCHANGED <<invoice, draft>>
  /\ UNCHANGED <<lock, payment>>

\* payment_application rows, while committed and not deleted.
LivePayments == {p \in Payments : payment[p].st \in {"live", "voiding"}}
AppliesTo(p, i) == \E k \in DOMAIN payment[p].apps : payment[p].apps[k].inv = i

\* UpdateInvoiceStatus: to CANCELLED.  The row is read first, then the count
\* of its applications.
LoadForCancel(w) ==
  \E i \in Invoices :
    invoice[i].status # "NONE" /\ Load(w, i, "CANCELLED", 0, "count")

CountApplications(w) ==
  /\ pc[w] = "count"
  /\ IF /\ \A p \in LivePayments : ~AppliesTo(p, req[w].inv)
        /\ "CANCELLED" \in Transitions[req[w].seen.status]
     THEN Goto(w, "cancel") /\ UNCHANGED req
     ELSE Finish(w, {})
  /\ UNCHANGED <<invoice, draft, lock, payment>>

\* The cancelled row: the posting it has now is reversed, the total is the
\* one the handler read, nothing is due.
CancelledDueKept(row, seen) ==         \* variant: balance_due is left alone
  [row EXCEPT !.status = "CANCELLED", !.reversed = row.posted, !.total = seen.total]
Cancelled(row, seen) ==
  [row EXCEPT !.status = "CANCELLED", !.reversed = row.posted, !.total = seen.total, !.due = 0]

CancelInvoice(w) ==
  LET i == req[w].inv IN
  /\ pc[w] = "cancel" /\ CanWrite(w, i)
  /\ IF StatusMatches(w, draft[i]) /\ VersionMatches(w) /\ draft[i].reversed = 0
     THEN /\ Write(w, i, Cancelled(draft[i], req[w].seen))
          /\ Goto(w, "commit")
          /\ UNCHANGED <<invoice, payment, req>>
     ELSE Rollback(w)

LoadForLines(w) ==
  \E i \in Invoices, total \in Totals :
    /\ invoice[i].status \notin {"NONE", "CANCELLED", "PAID"}
    /\ Load(w, i, "NONE", total, "lines")

\* The row with new lines: what is due counts the paid_amount the handler
\* read; the posting is regenerated in place.
Relined(row, total, seen) ==
  [row EXCEPT !.total = total, !.lines = total, !.due = total - seen.paid, !.posted = total]

UpdateInvoiceLineItems(w) ==
  LET i == req[w].inv IN
  /\ pc[w] = "lines" /\ CanWrite(w, i)
  /\ IF req[w].total >= req[w].seen.paid /\ VersionMatches(w)
     THEN /\ Write(w, i, Relined(draft[i], req[w].total, req[w].seen))
          /\ Goto(w, "commit")
          /\ UNCHANGED <<invoice, payment, req>>
     ELSE Rollback(w)

-----------------------------------------------------------------------------
(***************************************************************************)
(* PaymentService.                                                         *)
(***************************************************************************)
\* Only an invoice that has been sent takes a payment, and only what is due.
PayableWhateverDue(row, amt) ==        \* variant: balance_due >= amount is missing
  row.status \in {"SENT", "OVERDUE", "PAID"}
PayableDraft(row, amt) ==              \* variant: any status but CANCELLED
  row.status \in {"DRAFT", "SENT", "OVERDUE", "PAID"} /\ CentParts * row.due >= amt
Payable(row, amt) ==
  row.status \in {"SENT", "OVERDUE", "PAID"} /\ CentParts * row.due >= amt

BeginPayment(w) ==
  /\ pc[w] = "idle"
  /\ \E plan \in Plans : req' = [req EXCEPT ![w] = [NoRequest EXCEPT !.todo = plan]]
  /\ Goto(w, "check")
  /\ UNCHANGED <<invoice, draft, lock, payment>>

\* What a sequence of applications gives invoice i.
AmountFor(apps, i) ==
  MapThenSumSet(LAMBDA k : IF apps[k].inv = i THEN apps[k].amt ELSE 0, DOMAIN apps)

\* CreatePayment's own look at the invoices, one after the other.
CheckInvoice(w) ==
  /\ pc[w] = "check"
  /\ \E i \in {req[w].todo[k].inv : k \in DOMAIN req[w].todo} \ req[w].checked :
       IF Payable(invoice[i], AmountFor(req[w].todo, i))
       THEN req' = [req EXCEPT ![w].checked = @ \union {i}] /\ UNCHANGED pc
       ELSE Finish(w, {})
  /\ UNCHANGED <<invoice, draft, lock, payment>>

\* Its transaction begins.  (Past the bound on ids the insert fails.)
InsertPayment(w) ==
  LET free == {p \in Payments : payment[p].st = "free"}
      next == CHOOSE p \in free : TRUE
  IN
  /\ pc[w] = "check"
  /\ \A k \in DOMAIN req[w].todo : req[w].todo[k].inv \in req[w].checked
  /\ IF free = {}
     THEN Finish(w, {}) /\ UNCHANGED payment
     ELSE /\ payment' = [payment EXCEPT ![next] = [FreePayment EXCEPT !.st = "open", !.by = w]]
          /\ req' = [req EXCEPT ![w].pay = next, ![w].checked = {}]
          /\ Goto(w, "apply")
  /\ UNCHANGED <<invoice, draft, lock>>

\* CreatePaymentApplication, which a second application to the same invoice
\* fails, and ApplyPaymentToInvoice, for the next one.
\* The row's arithmetic is exact, its columns keep cents.
AppliedOverwriting(row, amt) ==        \* variant: paid_amount is set, not added to
  [row EXCEPT !.paid = Stored(amt, CentParts),
              !.due = Stored(CentParts * @ - amt, CentParts),
              !.status = IF CentParts * row.due - amt <= 0 THEN "PAID" ELSE @]
Applied(row, amt) ==
  [row EXCEPT !.paid = Stored(CentParts * @ + amt, CentParts),
              !.due = Stored(CentParts * @ - amt, CentParts),
              !.status = IF CentParts * row.due - amt <= 0 THEN "PAID" ELSE @]

\* An application as its row keeps it; a CHECK refuses one kept as nothing.
Kept(app) == [app EXCEPT !.amt = Stored(@, CentParts)]

\* (variant: only the first application is made)
AfterApplyingFirst(todo) == "commit"
AfterApplying(todo) == IF todo = <<>> THEN "commit" ELSE "apply"

ApplyPaymentToInvoice(w) ==
  LET app == Head(req[w].todo) IN
  /\ pc[w] = "apply" /\ CanWrite(w, app.inv)
  /\ IF /\ Payable(draft[app.inv], app.amt)
        /\ ~AppliesTo(req[w].pay, app.inv) /\ Kept(app).amt > 0
     THEN /\ Write(w, app.inv, Applied(draft[app.inv], app.amt))
          /\ payment' = [payment EXCEPT ![req[w].pay].apps = Append(@, Kept(app))]
          /\ req' = [req EXCEPT ![w].todo = Tail(@)]
          /\ Goto(w, AfterApplying(Tail(req[w].todo)))
          /\ UNCHANGED invoice
     ELSE Rollback(w)

\* VoidPayment has read the payment and its applications.
LoadForVoid(w) ==
  /\ pc[w] = "idle"
  /\ \E p \in LivePayments :
       req' = [req EXCEPT ![w] = [NoRequest EXCEPT !.pay = p, !.todo = payment[p].apps]]
  /\ Goto(w, "unapply")
  /\ UNCHANGED <<invoice, draft, lock, payment>>

UnappliedStillPaid(row, amt) ==        \* variant: a PAID invoice stays PAID
  [row EXCEPT !.paid = @ - amt, !.due = @ + amt]
Unapplied(row, amt) ==
  [row EXCEPT !.paid = @ - amt, !.due = @ + amt,
              !.status = IF @ = "PAID" THEN "SENT" ELSE @]

UnapplyPaymentFromInvoice(w) ==
  LET app == Head(req[w].todo) IN
  /\ pc[w] = "unapply" /\ req[w].todo # <<>> /\ CanWrite(w, app.inv)
  /\ Write(w, app.inv, Unapplied(draft[app.inv], app.amt))
  /\ req' = [req EXCEPT ![w].todo = Tail(@)]
  /\ UNCHANGED <<invoice, payment, pc>>

\* The applications are deleted, the posting reversed and the payment row
\* soft-deleted; each waits for a void of the same payment in flight, and the
\* last two fail when one has committed.
VoidableAgain(p) == TRUE               \* variant: a voided payment is voided again
Voidable(p) == payment[p].st = "live"

SoftDeletePayment(w) ==
  LET p == req[w].pay IN
  /\ pc[w] = "unapply" /\ req[w].todo = <<>>
  /\ payment[p].st # "voiding"
  /\ IF Voidable(p)
     THEN /\ payment' = [payment EXCEPT ![p] = [@ EXCEPT !.st = "voiding", !.by = w]]
          /\ Goto(w, "commit")
          /\ UNCHANGED <<invoice, draft, lock, req>>
     ELSE Rollback(w)

-----------------------------------------------------------------------------
Begin(w) ==
  \/ CreateInvoice(w) \/ UpdateInvoice(w)
  \/ LoadForStatus(w) \/ LoadForCancel(w) \/ LoadForLines(w)
  \/ BeginPayment(w) \/ LoadForVoid(w)

Step(w) ==
  \/ UpdateInvoiceStatus(w)
  \/ CountApplications(w) \/ CancelInvoice(w)
  \/ UpdateInvoiceLineItems(w)
  \/ CheckInvoice(w) \/ InsertPayment(w) \/ ApplyPaymentToInvoice(w)
  \/ UnapplyPaymentFromInvoice(w) \/ SoftDeletePayment(w)
  \/ BreakDeadlock(w)
  \/ Commit(w)

Next == \E w \in Workers : Begin(w) \/ Step(w) \/ Abort(w)

Spec == Init /\ [][Next]_vars

\* The statements that may have to wait for another transaction to end.
Waiting(w) ==
  \/ UpdateInvoiceStatus(w) \/ CancelInvoice(w) \/ UpdateInvoiceLineItems(w)
  \/ ApplyPaymentToInvoice(w) \/ UnapplyPaymentFromInvoice(w) \/ SoftDeletePayment(w)

\* A request that has begun keeps executing statements (weak fairness), a
\* waiting one is granted the lock before requests that ask for it later
\* (strong fairness), and PostgreSQL's deadlock detector runs.
FairSpec ==
  Spec /\ \A w \in Workers : WF_vars(Step(w)) /\ SF_vars(Waiting(w))

-----------------------------------------------------------------------------
(***************************************************************************)
(* Properties.                                                             *)
(***************************************************************************)
Row == [status : Statuses \union {"NONE"}, total : Nat, lines : Nat, paid : Int, due : Int,
        posted : Nat, reversed : Nat]

\* Rows and requests have their types.  What is committed as paid is an amount;
\* a void that will be refused may take more off the row before it is.
TypeOK ==
  /\ invoice \in [Invoices -> Row] /\ draft \in [Invoices -> Row]
  /\ \A i \in Invoices : invoice[i].paid \in Nat
  /\ lock \in [Invoices -> Workers \union {NoWorker}]
  /\ \A p \in Payments :
       /\ payment[p].st \in {"free", "open", "live", "voiding", "void"}
       /\ IF payment[p].st \in {"open", "voiding"} THEN payment[p].by \in Workers
          ELSE payment[p].by = NoWorker
       /\ payment[p].apps \in Seq([inv : Invoices, amt : Nat \ {0}])
  /\ pc \in [Workers -> {"idle", "status", "count", "cancel", "lines", "check", "apply",
                         "unapply", "commit"}]

\* What the committed, undeleted applications give an invoice.
AppliedTo(i) == MapThenSumSet(LAMBDA p : AmountFor(payment[p].apps, i), LivePayments)

\* An invoice's paid_amount is the sum of the applications it has, whatever
\* payments are created, voided, voided twice or rolled back on it together.
PaidIsApplied == \A i \in Invoices : invoice[i].paid = AppliedTo(i)

\* balance_due never goes below zero, whatever requests commit in between
\* another's check and its write.
DueNeverNegative == \A i \in Invoices : invoice[i].due >= 0

\* A draft has never taken a payment, so a void can restore SENT: no order of
\* status changes, payments and voids ends in a DRAFT with money on it.
DraftUnpaid ==
  \A i \in Invoices : invoice[i].status = "DRAFT" =>
    invoice[i].paid = 0 /\ AppliedTo(i) = 0

\* A payment stands with every application it was created with.
PaymentWhole ==
  \A p \in LivePayments :
    \E plan \in Plans : payment[p].apps = [k \in DOMAIN plan |-> Kept(plan[k])]

\* Every request ends, those whose locks cross each other included.
EveryRequestEnds == \A w \in Workers : pc[w] # "idle" ~> pc[w] = "idle"

\* A cancelled invoice has no payment on it.
CancelledUnpaid ==
  \A i \in Invoices : invoice[i].status = "CANCELLED" => AppliedTo(i) = 0

\* A cancelled invoice's posting is mirrored by its reversal, its total is
\* that of its lines, and nothing is due on it.
CancelledFrozen ==
  \A i \in Invoices : invoice[i].status = "CANCELLED" =>
    /\ invoice[i].posted = invoice[i].reversed
    /\ invoice[i].total = invoice[i].lines
    /\ invoice[i].due = 0

\* What the ledger says the contact owes for an invoice is what the document
\* says: the posting stands unreversed, and due and paid add up to it.
LedgerAgrees ==
  \A i \in Invoices : invoice[i].status \notin {"NONE", "CANCELLED"} =>
    /\ invoice[i].posted = invoice[i].due + invoice[i].paid
    /\ invoice[i].reversed = 0

\* PAID says that nothing is due, and with lines worth something that it has
\* been paid.
PaidIsSettled ==
  \A i \in Invoices : invoice[i].status = "PAID" =>
    invoice[i].due = 0 /\ invoice[i].paid = invoice[i].total
=============================================================================
