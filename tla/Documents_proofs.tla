---------------------------- MODULE Documents_proofs ----------------------------
(***************************************************************************)
(* Theorems about Documents, for any number of requests, invoices and      *)
(* payments.                                                               *)
(*                                                                         *)
(* Nothing is ever due below zero, a payment stands whole and what is paid *)
(* is what is applied, whatever clients send.  When they send whole cents  *)
(* and the version they have read, an invoice and its posting agree as     *)
(* well: whoever writes a row by what it has read writes the row it has    *)
(* read.                                                                   *)
(***************************************************************************)
EXTENDS Documents, LedgerMath_proofs, SequenceTheorems

Steps == {"idle", "status", "count", "cancel", "lines", "check", "apply", "unapply", "commit"}
Reading == {"status", "count", "cancel", "lines"}
Sent == {"SENT", "OVERDUE", "PAID"}
Open == {"DRAFT", "SENT", "OVERDUE"}
Owners == Workers \union {NoWorker}
AnyStatus == Statuses \union {"NONE"}

App == [inv : Invoices, amt : Nat \ {0}]
PaymentRow == [st : {"free", "open", "live", "voiding", "void"}, by : Owners, apps : Seq(App)]
Request == [inv : Invoices \union {NoInvoice}, pay : Payments \union {NoPayment},
            seen : [status : AnyStatus, total : Nat, paid : Int], status : AnyStatus,
            total : Nat, todo : Seq(App), checked : SUBSET Invoices,
            versioned : BOOLEAN, stale : BOOLEAN]

Types ==
  /\ invoice \in [Invoices -> Row] /\ draft \in [Invoices -> Row]
  /\ lock \in [Invoices -> Owners] /\ payment \in [Payments -> PaymentRow]
  /\ pc \in [Workers -> Steps] /\ req \in [Workers -> Request]

\* All of a plan has been applied; a part has, and todo is the rest.
Whole(apps) == \E plan \in Plans : apps = [k \in DOMAIN plan |-> Kept(plan[k])]
Partly(apps, todo) ==
  \E plan \in Plans :
    /\ Len(plan) = Len(apps) + Len(todo)
    /\ \A k \in 1..Len(apps) : apps[k] = Kept(plan[k])
    /\ \A k \in 1..Len(todo) : todo[k] = plan[Len(apps) + k]

\* A payment in flight is its request's, and one that stands is whole.
PaymentsOK ==
  /\ \A p \in Payments : payment[p].by \in Workers <=> payment[p].st \in {"open", "voiding"}
  /\ \A p \in Payments : payment[p].by \in Workers =>
       req[payment[p].by].pay = p /\ pc[payment[p].by] \in {"apply", "commit"}
  /\ \A p \in Payments : payment[p].st = "voiding" => pc[payment[p].by] = "commit"
  /\ \A p \in Payments :
       \/ payment[p].st \in {"live", "voiding"}
       \/ payment[p].st = "open" /\ pc[payment[p].by] = "commit"
       => Whole(payment[p].apps)

RequestOK(w) ==
  /\ pc[w] \in Reading => req[w].inv \in Invoices
  /\ pc[w] = "check" => req[w].todo \in Plans
  /\ pc[w] = "apply" =>
       /\ req[w].pay \in Payments /\ req[w].todo # <<>>
       /\ payment[req[w].pay].st = "open" /\ payment[req[w].pay].by = w
       /\ Partly(payment[req[w].pay].apps, req[w].todo)
  /\ pc[w] = "unapply" =>
       req[w].pay \in Payments /\ payment[req[w].pay].st \in {"live", "voiding", "void"}

\* Who holds a row's lock is in a transaction, and a row nobody has rewritten is
\* the committed one.
LocksOK ==
  /\ \A i \in Invoices : lock[i] = NoWorker => draft[i] = invoice[i]
  /\ \A i \in Invoices : lock[i] \in Workers => pc[lock[i]] \in {"apply", "unapply", "commit"}

DueOK == \A i \in Invoices : invoice[i].due >= 0 /\ draft[i].due >= 0

Base == Types /\ PaymentsOK /\ (\A w \in Workers : RequestOK(w)) /\ LocksOK /\ DueOK

\* What holds when clients send versions and whole cents.
Exact == Versioned \subseteq {TRUE} /\ CentParts = 1

Agrees(row) ==
  /\ row.status # "NONE" => row.total = row.lines /\ row.posted = row.lines
  /\ row.status \notin {"NONE", "CANCELLED"} => row.reversed = 0 /\ row.posted = row.due + row.paid
  /\ row.status = "CANCELLED" => row.reversed = row.posted /\ row.due = 0
  /\ row.status = "PAID" => row.due = 0

\* A void whose payment another void has taken will be refused.
Sound(w) == pc[w] = "unapply" => payment[req[w].pay].st # "void"

RowsOK ==
  /\ \A i \in Invoices : Agrees(invoice[i])
  /\ \A i \in Invoices : lock[i] \in Workers /\ Sound(lock[i]) => Agrees(draft[i])
  /\ \A i \in Invoices : draft[i].status = "NONE" <=> invoice[i].status = "NONE"

\* What a request has read is so until its row's version moves.
ReadOK(w) ==
  pc[w] \in Reading =>
    /\ req[w].versioned /\ invoice[req[w].inv].status # "NONE"
    /\ ~req[w].stale => req[w].seen = Seen(invoice[req[w].inv])
    /\ pc[w] # "count" => req[w].seen.status \in Open
    /\ pc[w] = "status" => req[w].status \in {"SENT", "OVERDUE"}
    /\ pc[w] = "cancel" /\ ~req[w].stale => \A p \in LivePayments : ~AppliesTo(p, req[w].inv)

\* Payments are on invoices that have been sent; one in flight holds their locks.
AppsOK ==
  /\ \A p \in LivePayments, i \in Invoices : AppliesTo(p, i) =>
       invoice[i].status \in Sent /\ draft[i].status \in Sent
  /\ \A p \in Payments, i \in Invoices : payment[p].st = "open" /\ AppliesTo(p, i) =>
       lock[i] = payment[p].by /\ draft[i].status \in Sent
  /\ \A w \in Workers : pc[w] = "unapply" /\ payment[req[w].pay].st # "void" =>
       \A k \in 1..Len(req[w].todo) : AppliesTo(req[w].pay, req[w].todo[k].inv)

Sharp == RowsOK /\ (\A w \in Workers : ReadOK(w)) /\ AppsOK

IInv == Base /\ (Exact => Sharp)

-----------------------------------------------------------------------------
(* Amounts, rows and requests.                                             *)

\* Columns keep amounts as amounts.
LEMMA StoredType ==
  /\ \A a \in Int : Stored(a, CentParts) \in Int
  /\ \A a \in Nat : Stored(a, CentParts) \in Nat
<1> USE PlansAssumption
<1>1. \A x \in Int, y \in Nat \ {0} : x \div y \in Int
  OBVIOUS
<1>2. \A x \in Nat, y \in Nat \ {0} : x \div y \in Nat
  OBVIOUS
<1>3. 2 * CentParts \in Nat \ {0}
  OBVIOUS
<1>4. ASSUME NEW a \in Int PROVE Stored(a, CentParts) \in Int
  <2>1. CentParts - 2 * a \in Int /\ 2 * a + CentParts \in Int
    OBVIOUS
  <2>2. (CentParts - 2 * a) \div (2 * CentParts) \in Int /\ (2 * a + CentParts) \div (2 * CentParts) \in Int
    BY <2>1, <1>1, <1>3
  <2> QED
    BY <2>2 DEF Stored
<1>5. ASSUME NEW a \in Nat PROVE Stored(a, CentParts) \in Nat
  <2>1. 2 * a + CentParts \in Nat
    OBVIOUS
  <2>2. (2 * a + CentParts) \div (2 * CentParts) \in Nat
    BY <2>1, <1>2, <1>3
  <2> QED
    BY <2>2 DEF Stored
<1> QED
  BY <1>4, <1>5

LEMMA NewTypes ==
  /\ NoRequest \in Request /\ FreePayment \in PaymentRow /\ NoRow \in Row
  /\ \A total \in Totals : NewRow(total) \in Row
<1>1. <<>> \in Seq(App)
  BY EmptySeq
<1>2. NoRow \in Row
  BY DEF NoRow, Row, Statuses
<1>3. NoRequest \in Request
  <2>1. Seen(NoRow) \in [status : AnyStatus, total : Nat, paid : Int]
    BY DEF Seen, NoRow, AnyStatus
  <2> QED
    BY <1>1, <2>1 DEF NoRequest, Request, AnyStatus
<1>4. FreePayment \in PaymentRow
  BY <1>1 DEF FreePayment, PaymentRow, Owners
<1>5. ASSUME NEW total \in Totals PROVE NewRow(total) \in Row
  <2>1. total \in Nat /\ total \in Int
    BY TotalsAssumption
  <2>2. \A row \in Row : [row EXCEPT !.status = "DRAFT", !.total = total, !.lines = total,
                                       !.due = total, !.posted = total] \in Row
    BY <2>1 DEF Row, Statuses
  <2> QED
    BY <2>2, <1>2 DEF NewRow
<1> QED
  BY <1>2, <1>3, <1>4, <1>5

\* No request and no row.
LEMMA InitInv == Init => IInv
<1> SUFFICES ASSUME Init PROVE IInv
  OBVIOUS
<1> USE NullAssumption DEF Init
<1>1. Types
  BY NewTypes DEF Types, Owners, Steps
<1>2. PaymentsOK
  BY DEF PaymentsOK, FreePayment
<1>3. \A w \in Workers : RequestOK(w)
  BY DEF RequestOK, Reading
<1>4. LocksOK /\ DueOK
  BY DEF LocksOK, DueOK, NoRow
<1>5. RowsOK
  BY DEF RowsOK, Agrees, NoRow, Statuses
<1>6. \A w \in Workers : ReadOK(w)
  BY DEF ReadOK, Reading
<1>7. AppsOK
  BY DEF AppsOK, LivePayments, FreePayment
<1> QED
  BY <1>1, <1>2, <1>3, <1>4, <1>5, <1>6, <1>7 DEF IInv, Base, Sharp

\* Another request has got no further, and knows no more.
Unmoved(v) ==
  /\ pc'[v] = pc[v]
  /\ req'[v].inv = req[v].inv /\ req'[v].pay = req[v].pay /\ req'[v].seen = req[v].seen
  /\ req'[v].status = req[v].status /\ req'[v].total = req[v].total
  /\ req'[v].todo = req[v].todo /\ req'[v].checked = req[v].checked
  /\ req'[v].versioned = req[v].versioned /\ (~req'[v].stale => ~req[v].stale)

LEMMA FinishFacts ==
  ASSUME Types, NEW w \in Workers, NEW written, Finish(w, written)
  PROVE  /\ pc' \in [Workers -> Steps] /\ req' \in [Workers -> Request]
         /\ pc'[w] = "idle" /\ req'[w] = NoRequest
         /\ \A v \in Workers \ {w} : Unmoved(v)
         /\ \A v \in Workers \ {w} : req[v].versioned /\ ~req'[v].stale => req[v].inv \notin written
<1> USE DEF Types
<1>1. pc' = [pc EXCEPT ![w] = "idle"]
  BY DEF Finish, Goto
<1>2. req' = [v \in Workers |-> IF v = w THEN NoRequest
                ELSE [req[v] EXCEPT !.stale = req[v].stale \/ (req[v].versioned /\ req[v].inv \in written)]]
  BY DEF Finish
<1>3. ASSUME NEW v \in Workers \ {w}
      PROVE  /\ req'[v] \in Request /\ Unmoved(v)
             /\ req[v].versioned /\ ~req'[v].stale => req[v].inv \notin written
  <2>1. req[v] \in Request
    OBVIOUS
  <2>2. PICK stale \in BOOLEAN : stale = (req[v].stale \/ (req[v].versioned /\ req[v].inv \in written))
    OBVIOUS
  <2>3. PICK r : r = [req[v] EXCEPT !.stale = stale]
    OBVIOUS
  <2>4. /\ r \in Request /\ r.stale = stale
        /\ r.inv = req[v].inv /\ r.pay = req[v].pay /\ r.seen = req[v].seen
        /\ r.status = req[v].status /\ r.total = req[v].total
        /\ r.todo = req[v].todo /\ r.checked = req[v].checked
        /\ r.versioned = req[v].versioned
    BY <2>1, <2>3 DEF Request
  <2>5. req'[v] = r
    BY <1>2, <2>2, <2>3
  <2>6. pc'[v] = pc[v]
    BY <1>1
  <2> QED
    BY <2>2, <2>4, <2>5, <2>6 DEF Unmoved
<1>4. pc' \in [Workers -> Steps] /\ pc'[w] = "idle"
  BY <1>1 DEF Steps
<1>5. req'[w] = NoRequest
  BY <1>2
<1>6. req' \in [Workers -> Request]
  BY <1>2, <1>3, <1>5, NewTypes
<1> QED
  BY <1>3, <1>4, <1>5, <1>6

\* What w does to no payment of theirs is nothing to the others.
LEMMA OthersOK ==
  ASSUME Base, NEW w \in Workers, \A v \in Workers \ {w} : Unmoved(v),
         \A p \in Payments : payment[p].st = "open" /\ payment[p].by # w => payment'[p] = payment[p],
         \A p \in Payments : payment[p].st \in {"live", "voiding", "void"} =>
           payment'[p].st \in {"live", "voiding", "void"}
  PROVE  \A v \in Workers \ {w} : RequestOK(v)'
<1> SUFFICES ASSUME NEW v \in Workers \ {w} PROVE RequestOK(v)'
  OBVIOUS
<1>1. RequestOK(v) /\ Unmoved(v)
  BY DEF Base
<1>2. pc'[v] \in Reading => req'[v].inv \in Invoices
  BY <1>1 DEF RequestOK, Unmoved
<1>3. pc'[v] = "check" => req'[v].todo \in Plans
  BY <1>1 DEF RequestOK, Unmoved
<1>4. pc'[v] = "apply" =>
        /\ req'[v].pay \in Payments /\ req'[v].todo # <<>>
        /\ payment'[req'[v].pay].st = "open" /\ payment'[req'[v].pay].by = v
        /\ Partly(payment'[req'[v].pay].apps, req'[v].todo)
  <2> SUFFICES ASSUME pc'[v] = "apply"
               PROVE  /\ req'[v].pay \in Payments /\ req'[v].todo # <<>>
                      /\ payment'[req'[v].pay].st = "open" /\ payment'[req'[v].pay].by = v
                      /\ Partly(payment'[req'[v].pay].apps, req'[v].todo)
    OBVIOUS
  <2>1. /\ req[v].pay \in Payments /\ req[v].todo # <<>>
        /\ payment[req[v].pay].st = "open" /\ payment[req[v].pay].by = v
        /\ Partly(payment[req[v].pay].apps, req[v].todo)
    BY <1>1 DEF RequestOK, Unmoved
  <2>2. payment'[req[v].pay] = payment[req[v].pay]
    BY <2>1
  <2> QED
    BY <1>1, <2>1, <2>2 DEF Unmoved
<1>5. pc'[v] = "unapply" =>
        req'[v].pay \in Payments /\ payment'[req'[v].pay].st \in {"live", "voiding", "void"}
  BY <1>1 DEF RequestOK, Unmoved
<1> QED
  BY <1>2, <1>3, <1>4, <1>5 DEF RequestOK

-----------------------------------------------------------------------------
(* Steps that write no row.                                                *)

\* w, which holds nothing, goes on to something it may do.
LEMMA MovesInv ==
  ASSUME IInv, NEW w \in Workers, pc[w] \notin {"apply", "unapply", "commit"},
         UNCHANGED <<invoice, draft, lock, payment>>,
         pc' \in [Workers -> Steps], req' \in [Workers -> Request],
         pc'[w] \notin {"apply", "commit"}, \A v \in Workers \ {w} : Unmoved(v),
         RequestOK(w)', Exact => ReadOK(w)',
         pc'[w] = "unapply" => \A k \in 1..Len(req'[w].todo) : AppliesTo(req'[w].pay, req'[w].todo[k].inv)
  PROVE  IInv'
<1> USE NullAssumption DEF IInv, Base
<1>1. Types'
  BY DEF Types
<1>2. PaymentsOK'
  <2>1. \A p \in Payments : payment[p].by \in Workers => payment[p].by \in Workers \ {w}
    BY DEF PaymentsOK
  <2>2. \A p \in Payments : payment'[p].by \in Workers <=> payment'[p].st \in {"open", "voiding"}
    BY DEF PaymentsOK
  <2>3. \A p \in Payments : payment'[p].by \in Workers =>
          req'[payment'[p].by].pay = p /\ pc'[payment'[p].by] \in {"apply", "commit"}
    BY <2>1 DEF PaymentsOK, Unmoved
  <2>4. \A p \in Payments : payment'[p].st = "voiding" => pc'[payment'[p].by] = "commit"
    BY <2>1 DEF PaymentsOK, Unmoved
  <2>5. ASSUME NEW p \in Payments,
               \/ payment'[p].st \in {"live", "voiding"}
               \/ payment'[p].st = "open" /\ pc'[payment'[p].by] = "commit"
        PROVE  Whole(payment'[p].apps)
    BY <2>1, <2>5 DEF PaymentsOK, Unmoved
  <2> QED
    BY <2>2, <2>3, <2>4, <2>5 DEF PaymentsOK
<1>3. \A v \in Workers : RequestOK(v)'
  <2>1. \A v \in Workers \ {w} : RequestOK(v)'
    BY OthersOK
  <2> QED
    BY <2>1
<1>4. LocksOK'
  <2>1. \A i \in Invoices : lock[i] \in Workers => lock[i] \in Workers \ {w}
    BY DEF LocksOK
  <2> QED
    BY <2>1 DEF LocksOK, Unmoved
<1>5. DueOK'
  BY DEF DueOK
<1>6. ASSUME Exact PROVE Sharp'
  <2> USE <1>6 DEF Sharp
  <2>1. RowsOK'
    <3>1. ASSUME NEW i \in Invoices, lock'[i] \in Workers, Sound(lock[i])'
          PROVE  Agrees(draft'[i])
      <4>1. lock[i] \in Workers \ {w}
        BY <3>1 DEF LocksOK
      <4>2. Sound(lock[i])
        BY <3>1, <4>1 DEF Sound, Unmoved
      <4> QED
        BY <4>1, <4>2 DEF RowsOK
    <3>2. \A i \in Invoices : Agrees(invoice'[i])
      BY DEF RowsOK
    <3>3. \A i \in Invoices : draft'[i].status = "NONE" <=> invoice'[i].status = "NONE"
      BY DEF RowsOK
    <3> QED
      BY <3>1, <3>2, <3>3 DEF RowsOK
  <2>2. LivePayments' = LivePayments /\ \A p, i : AppliesTo(p, i)' = AppliesTo(p, i)
    BY DEF LivePayments, AppliesTo
  <2>3. ASSUME NEW v \in Workers \ {w} PROVE ReadOK(v)'
    <3>1. ReadOK(v) /\ Unmoved(v)
      OBVIOUS
    <3> QED
      BY <2>2, <3>1 DEF ReadOK, Unmoved
  <2>4. AppsOK'
    <3>1. ASSUME NEW v \in Workers, pc'[v] = "unapply", payment'[req'[v].pay].st # "void",
                 NEW k \in 1..Len(req'[v].todo)
          PROVE  AppliesTo(req[v].pay, req[v].todo[k].inv)'
      <4>1. CASE v = w
        BY <4>1, <3>1 DEF AppliesTo
      <4>2. CASE v # w
        <5>1. pc[v] = "unapply" /\ req'[v].pay = req[v].pay /\ req'[v].todo = req[v].todo
          BY <4>2, <3>1 DEF Unmoved
        <5>2. AppliesTo(req[v].pay, req[v].todo[k].inv)
          BY <3>1, <5>1 DEF AppsOK
        <5> QED
          BY <5>1, <5>2 DEF AppliesTo
      <4> QED
        BY <4>1, <4>2
    <3>2. \A p \in LivePayments', i \in Invoices : AppliesTo(p, i)' =>
            invoice'[i].status \in Sent /\ draft'[i].status \in Sent
      BY <2>2 DEF AppsOK
    <3>3. \A p \in Payments, i \in Invoices : payment'[p].st = "open" /\ AppliesTo(p, i)' =>
            lock'[i] = payment'[p].by /\ draft'[i].status \in Sent
      BY <2>2 DEF AppsOK
    <3> QED
      BY <3>1, <3>2, <3>3 DEF AppsOK
  <2> QED
    BY <2>1, <2>3, <2>4
<1> QED
  BY <1>1, <1>2, <1>3, <1>4, <1>5, <1>6

\* A request that holds nothing ends, whichever versions move.
LEMMA FinishInv ==
  ASSUME IInv, NEW w \in Workers, NEW written, Finish(w, written),
         pc[w] \notin {"apply", "unapply", "commit"},
         UNCHANGED <<invoice, draft, lock, payment>>
  PROVE  IInv'
<1>1. /\ pc' \in [Workers -> Steps] /\ req' \in [Workers -> Request]
      /\ pc'[w] = "idle" /\ \A v \in Workers \ {w} : Unmoved(v)
  BY FinishFacts DEF IInv, Base
<1>2. RequestOK(w)' /\ ReadOK(w)'
  BY <1>1 DEF RequestOK, ReadOK, Reading
<1> QED
  BY <1>1, <1>2, MovesInv

\* A request about one invoice that is there.
LEMMA LoadInv ==
  ASSUME IInv, NEW w \in Workers, NEW i \in Invoices, NEW status \in AnyStatus, NEW total \in Nat,
         NEW step \in {"status", "count", "lines"}, Load(w, i, status, total, step),
         invoice[i].status # "NONE",
         step # "count" => invoice[i].status \in Open,
         step = "status" => status \in {"SENT", "OVERDUE"}
  PROVE  IInv'
<1> USE DEF IInv, Base, Types
<1>1. PICK versioned \in Versioned :
        req' = [req EXCEPT ![w] = [NoRequest EXCEPT !.inv = i, !.seen = Seen(invoice[i]),
                 !.status = status, !.total = total, !.versioned = versioned]]
  BY DEF Load
<1>2. /\ pc[w] = "idle" /\ pc' = [pc EXCEPT ![w] = step]
      /\ UNCHANGED <<invoice, draft, lock, payment>>
  BY DEF Load, Goto
<1>3. versioned \in BOOLEAN /\ (Exact => versioned = TRUE)
  BY VersionedAssumption DEF Exact
<1>4. PICK seen : seen = Seen(invoice[i])
  OBVIOUS
<1>5. /\ seen \in [status : AnyStatus, total : Nat, paid : Int]
      /\ seen.status = invoice[i].status
  BY <1>4 DEF Seen, Row, AnyStatus
<1>6. \A q \in Request :
        LET r == [q EXCEPT !.inv = i, !.seen = seen, !.status = status, !.total = total,
                           !.versioned = versioned]
        IN /\ r \in Request /\ r.inv = i /\ r.seen = seen /\ r.status = status
           /\ r.versioned = versioned
  BY <1>3, <1>5 DEF Request
<1>7. PICK r : r = [NoRequest EXCEPT !.inv = i, !.seen = seen,
                 !.status = status, !.total = total, !.versioned = versioned]
  OBVIOUS
<1>8. r \in Request /\ r.inv = i /\ r.seen = seen /\ r.status = status /\ r.versioned = versioned
  BY <1>6, <1>7, NewTypes
<1>9. /\ req'[w] = r /\ pc'[w] = step
      /\ pc' \in [Workers -> Steps] /\ req' \in [Workers -> Request]
      /\ \A v \in Workers \ {w} : pc'[v] = pc[v] /\ req'[v] = req[v]
  BY <1>1, <1>2, <1>4, <1>7, <1>8 DEF Steps
<1>10. \A v \in Workers \ {w} : Unmoved(v)
  BY <1>9 DEF Unmoved
<1>11. RequestOK(w)'
  BY <1>8, <1>9 DEF RequestOK
<1>12. Exact => ReadOK(w)'
  BY <1>2, <1>3, <1>4, <1>5, <1>8, <1>9 DEF ReadOK
<1> HIDE DEF IInv, Base, Types
<1> QED
  BY <1>2, <1>9, <1>10, <1>11, <1>12, MovesInv

LEMMA ReadsInv ==
  ASSUME IInv, NEW w \in Workers, LoadForStatus(w) \/ LoadForCancel(w) \/ LoadForLines(w)
  PROVE  IInv'
<1>0. \A i \in Invoices : invoice[i].status \in AnyStatus
  BY DEF IInv, Base, Types, Row, AnyStatus
<1>1. CASE LoadForStatus(w)
  <2>1. PICK i \in Invoices : \E status \in Transitions[invoice[i].status] \ {"CANCELLED"} :
          Load(w, i, status, 0, "status")
    BY <1>1 DEF LoadForStatus
  <2>2. PICK status \in Transitions[invoice[i].status] \ {"CANCELLED"} : Load(w, i, status, 0, "status")
    BY <2>1
  <2>3. invoice[i].status \in Open /\ status \in {"SENT", "OVERDUE"}
    BY <1>0, <2>2 DEF Transitions, AnyStatus, Statuses, Open
  <2> QED
    BY <2>2, <2>3, LoadInv DEF Open, AnyStatus, Statuses
<1>2. CASE LoadForCancel(w)
  <2>1. PICK i \in Invoices : invoice[i].status # "NONE" /\ Load(w, i, "CANCELLED", 0, "count")
    BY <1>2 DEF LoadForCancel
  <2> QED
    BY <2>1, LoadInv DEF AnyStatus, Statuses
<1>3. CASE LoadForLines(w)
  <2>1. PICK i \in Invoices, total \in Totals :
          /\ invoice[i].status \notin {"NONE", "CANCELLED", "PAID"}
          /\ Load(w, i, "NONE", total, "lines")
    BY <1>3 DEF LoadForLines
  <2>2. invoice[i].status \in Open /\ total \in Nat
    BY <1>0, <2>1, TotalsAssumption DEF AnyStatus, Statuses, Open
  <2> QED
    BY <2>1, <2>2, LoadInv DEF AnyStatus, Statuses, Open
<1> QED
  BY <1>1, <1>2, <1>3

LEMMA CountApplicationsInv ==
  ASSUME IInv, NEW w \in Workers, CountApplications(w)
  PROVE  IInv'
<1> USE DEF IInv, Base, Types
<1>1. pc[w] = "count" /\ UNCHANGED <<invoice, draft, lock, payment>>
  BY DEF CountApplications
<1>2. CASE Finish(w, {})
  <2> HIDE DEF IInv, Base, Types
  <2> QED
    BY <1>1, <1>2, FinishInv
<1>3. CASE /\ \A p \in LivePayments : ~AppliesTo(p, req[w].inv)
           /\ "CANCELLED" \in Transitions[req[w].seen.status]
           /\ Goto(w, "cancel") /\ UNCHANGED req
  <2>1. /\ pc'[w] = "cancel" /\ pc' \in [Workers -> Steps] /\ req' \in [Workers -> Request]
        /\ \A v \in Workers \ {w} : Unmoved(v)
    BY <1>3 DEF Goto, Steps, Unmoved
  <2>2. req[w].seen.status \in Open
    <3>1. req[w].seen.status \in AnyStatus
      BY DEF Request
    <3> QED
      BY <1>3, <3>1 DEF AnyStatus, Statuses, Transitions, Open
  <2>3. RequestOK(w)'
    BY <1>1, <1>3, <2>1 DEF RequestOK, Reading
  <2>4. Exact => ReadOK(w)'
    <3>1. LivePayments' = LivePayments
      BY <1>1 DEF LivePayments
    <3>2. Exact => ReadOK(w)
      BY DEF Sharp
    <3>3. \A p : AppliesTo(p, req[w].inv)' = AppliesTo(p, req[w].inv)
      BY <1>1, <1>3 DEF AppliesTo
    <3> QED
      BY <1>1, <1>3, <2>1, <2>2, <3>1, <3>2, <3>3 DEF ReadOK, Reading
  <2> HIDE DEF IInv, Base, Types
  <2> QED
    BY <1>1, <2>1, <2>3, <2>4, MovesInv
<1> QED
  BY <1>2, <1>3 DEF CountApplications

LEMMA BeginPaymentInv ==
  ASSUME IInv, NEW w \in Workers, BeginPayment(w)
  PROVE  IInv'
<1> USE DEF IInv, Base, Types
<1>1. PICK plan \in Plans : req' = [req EXCEPT ![w] = [NoRequest EXCEPT !.todo = plan]]
  BY DEF BeginPayment
<1>2. /\ pc[w] = "idle" /\ pc' = [pc EXCEPT ![w] = "check"]
      /\ UNCHANGED <<invoice, draft, lock, payment>>
  BY DEF BeginPayment, Goto
<1>3. plan \in Seq(App)
  BY PlansAssumption DEF App
<1>4. PICK r : r = [NoRequest EXCEPT !.todo = plan]
  OBVIOUS
<1>5. r \in Request /\ r.todo = plan
  BY <1>3, <1>4, NewTypes DEF Request
<1>6. /\ req'[w] = r /\ pc'[w] = "check"
      /\ pc' \in [Workers -> Steps] /\ req' \in [Workers -> Request]
      /\ \A v \in Workers \ {w} : Unmoved(v)
  BY <1>1, <1>2, <1>4, <1>5 DEF Steps, Unmoved
<1>7. RequestOK(w)' /\ ReadOK(w)'
  BY <1>5, <1>6 DEF RequestOK, ReadOK, Reading
<1> HIDE DEF IInv, Base, Types
<1> QED
  BY <1>2, <1>6, <1>7, MovesInv

LEMMA CheckInvoiceInv ==
  ASSUME IInv, NEW w \in Workers, CheckInvoice(w)
  PROVE  IInv'
<1> USE DEF IInv, Base, Types
<1>1. pc[w] = "check" /\ UNCHANGED <<invoice, draft, lock, payment>>
  BY DEF CheckInvoice
<1>2. CASE Finish(w, {})
  <2> HIDE DEF IInv, Base, Types
  <2> QED
    BY <1>1, <1>2, FinishInv
<1>3. CASE UNCHANGED pc /\ \E i \in {req[w].todo[k].inv : k \in DOMAIN req[w].todo} :
             req' = [req EXCEPT ![w].checked = @ \union {i}]
  <2>1. RequestOK(w) /\ req[w] \in Request
    OBVIOUS
  <2>2. PICK i \in {req[w].todo[k].inv : k \in DOMAIN req[w].todo} :
          req' = [req EXCEPT ![w].checked = @ \union {i}]
    BY <1>3
  <2>3. i \in Invoices
    <3>1. req[w].todo \in Seq(App)
      BY <2>1 DEF Request
    <3>2. \A k \in DOMAIN req[w].todo : req[w].todo[k] \in App
      BY <3>1
    <3> QED
      BY <2>2, <3>2 DEF App
  <2>4. PICK r : r = [req[w] EXCEPT !.checked = @ \union {i}]
    OBVIOUS
  <2>5. r \in Request /\ r.todo = req[w].todo
    BY <2>1, <2>3, <2>4 DEF Request
  <2>6. /\ req'[w] = r /\ pc'[w] = "check"
        /\ pc' \in [Workers -> Steps] /\ req' \in [Workers -> Request]
        /\ \A v \in Workers \ {w} : Unmoved(v)
    BY <1>1, <1>3, <2>2, <2>4, <2>5 DEF Unmoved
  <2>7. RequestOK(w)' /\ ReadOK(w)'
    BY <1>1, <2>1, <2>5, <2>6 DEF RequestOK, ReadOK, Reading
  <2> HIDE DEF IInv, Base, Types
  <2> QED
    BY <1>1, <2>6, <2>7, MovesInv
<1> QED
  BY <1>1, <1>2, <1>3 DEF CheckInvoice

\* Whoever voids has read the payment's applications.
LEMMA LoadForVoidInv ==
  ASSUME IInv, NEW w \in Workers, LoadForVoid(w)
  PROVE  IInv'
<1> USE DEF IInv, Base, Types
<1>1. PICK p \in LivePayments :
        req' = [req EXCEPT ![w] = [NoRequest EXCEPT !.pay = p, !.todo = payment[p].apps]]
  BY DEF LoadForVoid
<1>2. /\ pc[w] = "idle" /\ pc' = [pc EXCEPT ![w] = "unapply"]
      /\ UNCHANGED <<invoice, draft, lock, payment>>
  BY DEF LoadForVoid, Goto
<1>3. p \in Payments /\ payment[p].st \in {"live", "voiding"} /\ payment[p].apps \in Seq(App)
  BY <1>1 DEF LivePayments, PaymentRow
<1>4. PICK r : r = [NoRequest EXCEPT !.pay = p, !.todo = payment[p].apps]
  OBVIOUS
<1>5. r \in Request /\ r.todo = payment[p].apps /\ r.pay = p
  BY <1>3, <1>4, NewTypes DEF Request
<1>6. /\ req'[w] = r /\ pc'[w] = "unapply"
      /\ pc' \in [Workers -> Steps] /\ req' \in [Workers -> Request]
      /\ \A v \in Workers \ {w} : Unmoved(v)
  BY <1>1, <1>2, <1>4, <1>5 DEF Steps, Unmoved
<1>7. RequestOK(w)' /\ ReadOK(w)'
  BY <1>2, <1>3, <1>5, <1>6 DEF RequestOK, ReadOK, Reading
<1>8. \A k \in 1..Len(r.todo) : AppliesTo(p, r.todo[k].inv)
  BY <1>3, <1>5 DEF AppliesTo
<1> HIDE DEF IInv, Base, Types
<1> QED
  BY <1>2, <1>5, <1>6, <1>7, <1>8, MovesInv

-----------------------------------------------------------------------------
(* Statements that are a transaction.                                      *)

\* A row is written and committed at once: it agrees, and who has read the old
\* one holds an old version.
LEMMA PublishInv ==
  ASSUME IInv, NEW w \in Workers, NEW i \in Invoices, NEW row \in Row, row.due >= 0,
         pc[w] \notin {"apply", "unapply", "commit"}, pc'[w] = "idle",
         invoice' = [invoice EXCEPT ![i] = row], draft' = [draft EXCEPT ![i] = row],
         UNCHANGED <<lock, payment>>,
         pc' \in [Workers -> Steps], req' \in [Workers -> Request],
         \A v \in Workers \ {w} : Unmoved(v),
         Exact => /\ Agrees(row) /\ row.status # "NONE"
                  /\ invoice[i].status \in Sent \/ draft[i].status \in Sent => row.status \in Sent
                  /\ \A v \in Workers \ {w} : pc[v] \in Reading /\ ~req'[v].stale => req[v].inv # i
  PROVE  IInv'
<1> USE NullAssumption DEF IInv, Base
<1>1. /\ invoice'[i] = row /\ draft'[i] = row
      /\ \A j \in Invoices \ {i} : invoice'[j] = invoice[j] /\ draft'[j] = draft[j]
  BY DEF Types
<1>2. Types'
  BY DEF Types
<1>3. PaymentsOK'
  <2>1. \A p \in Payments : payment[p].by \in Workers => payment[p].by \in Workers \ {w}
    BY DEF PaymentsOK
  <2>2. \A p \in Payments : payment'[p].by \in Workers <=> payment'[p].st \in {"open", "voiding"}
    BY DEF PaymentsOK
  <2>3. \A p \in Payments : payment'[p].by \in Workers =>
          req'[payment'[p].by].pay = p /\ pc'[payment'[p].by] \in {"apply", "commit"}
    BY <2>1 DEF PaymentsOK, Unmoved
  <2>4. \A p \in Payments : payment'[p].st = "voiding" => pc'[payment'[p].by] = "commit"
    BY <2>1 DEF PaymentsOK, Unmoved
  <2>5. ASSUME NEW p \in Payments,
               \/ payment'[p].st \in {"live", "voiding"}
               \/ payment'[p].st = "open" /\ pc'[payment'[p].by] = "commit"
        PROVE  Whole(payment'[p].apps)
    BY <2>1, <2>5 DEF PaymentsOK, Unmoved
  <2> QED
    BY <2>2, <2>3, <2>4, <2>5 DEF PaymentsOK
<1>4. \A v \in Workers : RequestOK(v)'
  <2>1. \A v \in Workers \ {w} : RequestOK(v)'
    BY OthersOK
  <2>2. RequestOK(w)'
    BY DEF RequestOK, Reading
  <2> QED
    BY <2>1, <2>2
<1>5. LocksOK'
  <2>1. \A j \in Invoices : lock[j] \in Workers => lock[j] \in Workers \ {w}
    BY DEF LocksOK
  <2>2. \A j \in Invoices : lock'[j] = NoWorker => draft'[j] = invoice'[j]
    BY <1>1 DEF LocksOK
  <2> QED
    BY <2>1, <2>2 DEF LocksOK, Unmoved
<1>6. DueOK'
  BY <1>1 DEF DueOK
<1>7. ASSUME Exact PROVE Sharp'
  <2> USE <1>7 DEF Sharp
  <2>1. RowsOK'
    <3>1. ASSUME NEW j \in Invoices, lock'[j] \in Workers, Sound(lock[j])'
          PROVE  Agrees(draft'[j])
      <4>1. lock[j] \in Workers \ {w}
        BY <3>1 DEF LocksOK
      <4>2. Sound(lock[j])
        BY <3>1, <4>1 DEF Sound, Unmoved
      <4> QED
        BY <1>1, <4>1, <4>2 DEF RowsOK
    <3>2. \A j \in Invoices : Agrees(invoice'[j])
      BY <1>1 DEF RowsOK
    <3>3. \A j \in Invoices : draft'[j].status = "NONE" <=> invoice'[j].status = "NONE"
      BY <1>1 DEF RowsOK
    <3> QED
      BY <3>1, <3>2, <3>3 DEF RowsOK
  <2>2. LivePayments' = LivePayments /\ \A p, j : AppliesTo(p, j)' = AppliesTo(p, j)
    BY DEF LivePayments, AppliesTo
  <2>3. ASSUME NEW v \in Workers \ {w} PROVE ReadOK(v)'
    <3>1. ReadOK(v) /\ Unmoved(v) /\ RequestOK(v)
      OBVIOUS
    <3> SUFFICES ASSUME pc'[v] \in Reading
                 PROVE  /\ req'[v].versioned /\ invoice'[req'[v].inv].status # "NONE"
                        /\ ~req'[v].stale => req'[v].seen = Seen(invoice'[req'[v].inv])
                        /\ pc'[v] # "count" => req'[v].seen.status \in Open
                        /\ pc'[v] = "status" => req'[v].status \in {"SENT", "OVERDUE"}
                        /\ pc'[v] = "cancel" /\ ~req'[v].stale =>
                             \A p \in LivePayments' : ~AppliesTo(p, req[v].inv)'
      BY <2>2, <3>1 DEF ReadOK, Unmoved, Seen
    <3>2. pc[v] \in Reading /\ req[v].inv \in Invoices /\ req'[v].inv = req[v].inv
      BY <3>1 DEF RequestOK, Unmoved
    <3>3. invoice'[req[v].inv].status # "NONE"
      BY <1>1, <3>1, <3>2 DEF ReadOK
    <3>4. ~req'[v].stale => req[v].inv # i /\ invoice'[req[v].inv] = invoice[req[v].inv]
      BY <1>1, <3>2
    <3> QED
      BY <2>2, <3>1, <3>2, <3>3, <3>4 DEF ReadOK, Unmoved
  <2>4. ReadOK(w)'
    BY DEF ReadOK, Reading
  <2>5. AppsOK'
    <3>1. ASSUME NEW v \in Workers, pc'[v] = "unapply", payment'[req'[v].pay].st # "void",
                 NEW k \in 1..Len(req'[v].todo)
          PROVE  AppliesTo(req[v].pay, req[v].todo[k].inv)'
      <4>1. v # w /\ pc[v] = "unapply" /\ req'[v].pay = req[v].pay /\ req'[v].todo = req[v].todo
        BY <3>1 DEF Unmoved
      <4>2. AppliesTo(req[v].pay, req[v].todo[k].inv)
        BY <3>1, <4>1 DEF AppsOK
      <4> QED
        BY <4>1, <4>2 DEF AppliesTo
    <3>2. \A p \in LivePayments', j \in Invoices : AppliesTo(p, j)' =>
            invoice'[j].status \in Sent /\ draft'[j].status \in Sent
      BY <1>1, <2>2 DEF AppsOK
    <3>3. \A p \in Payments, j \in Invoices : payment'[p].st = "open" /\ AppliesTo(p, j)' =>
            lock'[j] = payment'[p].by /\ draft'[j].status \in Sent
      BY <1>1, <2>2 DEF AppsOK
    <3> QED
      BY <3>1, <3>2, <3>3 DEF AppsOK
  <2> QED
    BY <2>1, <2>3, <2>4, <2>5
<1> QED
  BY <1>2, <1>3, <1>4, <1>5, <1>6, <1>7

LEMMA CreateInvoiceInv ==
  ASSUME IInv, NEW w \in Workers, CreateInvoice(w)
  PROVE  IInv'
<1> USE DEF IInv, Base, Types
<1>1. PICK i \in Invoices, total \in Totals :
        /\ invoice[i].status = "NONE"
        /\ invoice' = [invoice EXCEPT ![i] = NewRow(total)]
        /\ draft' = [draft EXCEPT ![i] = NewRow(total)]
  BY DEF CreateInvoice
<1>2. pc[w] = "idle" /\ UNCHANGED <<lock, payment, pc, req>>
  BY DEF CreateInvoice
<1>3. PICK row : row = NewRow(total)
  OBVIOUS
<1>4. total \in Nat
  BY TotalsAssumption
<1>5. \A q \in Row :
        LET r == [q EXCEPT !.status = "DRAFT", !.total = total, !.lines = total,
                           !.due = total, !.posted = total]
        IN /\ r \in Row /\ r.status = "DRAFT" /\ r.total = total /\ r.lines = total
           /\ r.due = total /\ r.posted = total /\ r.paid = q.paid /\ r.reversed = q.reversed
  <2> HIDE DEF IInv, Base, Types
  <2> SUFFICES ASSUME NEW q \in Row, NEW r,
                      r = [q EXCEPT !.status = "DRAFT", !.total = total, !.lines = total,
                                    !.due = total, !.posted = total]
               PROVE  /\ r \in Row /\ r.status = "DRAFT" /\ r.total = total /\ r.lines = total
                      /\ r.due = total /\ r.posted = total
                      /\ r.paid = q.paid /\ r.reversed = q.reversed
    OBVIOUS
  <2>1. r \in Row
    <3>1. total \in Nat /\ total \in Int
      BY <1>4
    <3> QED
      BY <3>1 DEF Row, Statuses
  <2>2. r.status = "DRAFT" /\ r.total = total /\ r.lines = total /\ r.due = total /\ r.posted = total
    BY DEF Row
  <2>3. r.paid = q.paid /\ r.reversed = q.reversed
    BY DEF Row
  <2> QED
    BY <2>1, <2>2, <2>3
<1>6. NoRow.paid = 0 /\ NoRow.reversed = 0
  BY DEF NoRow
<1>7. /\ row \in Row /\ row.status = "DRAFT" /\ row.total = total /\ row.lines = total
      /\ row.due = total /\ row.posted = total /\ row.paid = 0 /\ row.reversed = 0
  BY <1>3, <1>5, <1>6, NewTypes DEF NewRow
<1>8. row.due >= 0 /\ Agrees(row)
  BY <1>4, <1>7 DEF Agrees
<1>9. \A v \in Workers \ {w} : Unmoved(v)
  BY <1>2 DEF Unmoved
<1>10. Exact => \A v \in Workers \ {w} : pc[v] \in Reading => req[v].inv # i
  BY <1>1 DEF Sharp, ReadOK
<1>11. Exact => ~(invoice[i].status \in Sent \/ draft[i].status \in Sent)
  BY <1>1 DEF Sharp, RowsOK, Sent
<1>12. /\ invoice' = [invoice EXCEPT ![i] = row] /\ draft' = [draft EXCEPT ![i] = row]
       /\ pc' \in [Workers -> Steps] /\ req' \in [Workers -> Request] /\ pc'[w] = "idle"
  BY <1>1, <1>2, <1>3
<1> HIDE DEF IInv, Base, Types
<1> QED
  BY <1>2, <1>7, <1>8, <1>9, <1>10, <1>11, <1>12, PublishInv

LEMMA UpdateInvoiceInv ==
  ASSUME IInv, NEW w \in Workers, UpdateInvoice(w)
  PROVE  IInv'
<1>1. PICK i \in Invoices : Finish(w, {i})
  BY DEF UpdateInvoice
<1>2. pc[w] = "idle" /\ UNCHANGED <<invoice, draft, lock, payment>>
  BY DEF UpdateInvoice
<1> QED
  BY <1>1, <1>2, FinishInv

\* The row is the one the request has read, and its status one it may leave.
LEMMA UpdateInvoiceStatusInv ==
  ASSUME IInv, NEW w \in Workers, UpdateInvoiceStatus(w)
  PROVE  IInv'
<1> USE DEF IInv, Base, Types
<1>1. PICK i : i = req[w].inv
  OBVIOUS
<1>2. pc[w] = "status" /\ lock[i] = NoWorker /\ UNCHANGED <<lock, payment>>
  BY <1>1 DEF UpdateInvoiceStatus
<1>3. CASE Finish(w, {}) /\ UNCHANGED <<invoice, draft>>
  <2> HIDE DEF IInv, Base, Types
  <2> QED
    BY <1>2, <1>3, FinishInv
<1>4. CASE /\ StatusMatches(w, invoice[i]) /\ VersionMatches(w)
           /\ invoice' = [invoice EXCEPT ![i].status = req[w].status]
           /\ draft' = [draft EXCEPT ![i].status = req[w].status]
           /\ Finish(w, {i})
  <2>1. i \in Invoices /\ draft[i] = invoice[i] /\ invoice[i] \in Row
    BY <1>1, <1>2 DEF RequestOK, Reading, LocksOK
  <2>2. PICK row : row = [invoice[i] EXCEPT !.status = req[w].status]
    OBVIOUS
  <2>3. req[w].status \in AnyStatus
    BY DEF Request
  <2>4. \A q \in Row :
          LET r == [q EXCEPT !.status = req[w].status]
          IN /\ r \in Row /\ r.status = req[w].status /\ r.total = q.total /\ r.lines = q.lines
             /\ r.due = q.due /\ r.posted = q.posted /\ r.paid = q.paid /\ r.reversed = q.reversed
    BY <2>3 DEF Row, AnyStatus
  <2>5. /\ row \in Row /\ row.status = req[w].status /\ row.total = invoice[i].total
        /\ row.lines = invoice[i].lines /\ row.due = invoice[i].due
        /\ row.posted = invoice[i].posted /\ row.paid = invoice[i].paid
        /\ row.reversed = invoice[i].reversed
    BY <2>1, <2>2, <2>4
  <2>6. row.due >= 0
    BY <2>1, <2>5 DEF DueOK
  <2>7. /\ invoice' = [invoice EXCEPT ![i] = row] /\ draft' = [draft EXCEPT ![i] = row]
    BY <1>4, <2>1, <2>2
  <2>8. /\ pc' \in [Workers -> Steps] /\ req' \in [Workers -> Request] /\ pc'[w] = "idle"
        /\ \A v \in Workers \ {w} : Unmoved(v)
        /\ \A v \in Workers \ {w} : req[v].versioned /\ ~req'[v].stale => req[v].inv \notin {i}
    BY <1>4, FinishFacts
  <2>9. ASSUME Exact
        PROVE  /\ Agrees(row) /\ row.status # "NONE"
               /\ invoice[i].status \in Sent \/ draft[i].status \in Sent => row.status \in Sent
               /\ \A v \in Workers \ {w} : pc[v] \in Reading /\ ~req'[v].stale => req[v].inv # i
    <3>1. ReadOK(w) /\ Agrees(invoice[i])
      BY <2>1, <2>9 DEF Sharp, RowsOK
    <3>2. row.status \in {"SENT", "OVERDUE"} /\ invoice[i].status \in Open
      BY <1>2, <1>4, <2>5, <3>1 DEF ReadOK, Reading, StatusMatches
    <3>3. Agrees(row)
      BY <2>5, <3>1, <3>2 DEF Agrees, Open
    <3>4. \A v \in Workers \ {w} : pc[v] \in Reading /\ ~req'[v].stale => req[v].inv # i
      BY <2>8, <2>9 DEF Sharp, ReadOK
    <3> QED
      BY <3>2, <3>3, <3>4 DEF Sent
  <2> HIDE DEF IInv, Base, Types
  <2> QED
    BY <1>2, <2>1, <2>5, <2>6, <2>7, <2>8, <2>9, PublishInv
<1> QED
  BY <1>1, <1>2, <1>3, <1>4 DEF UpdateInvoiceStatus

LEMMA InsertPaymentInv ==
  ASSUME IInv, NEW w \in Workers, InsertPayment(w)
  PROVE  IInv'
<1> USE NullAssumption DEF IInv, Base
<1> DEFINE free == {p \in Payments : payment[p].st = "free"}
<1>1. pc[w] = "check" /\ UNCHANGED <<invoice, draft, lock>>
  BY DEF InsertPayment
<1>2. CASE Finish(w, {}) /\ UNCHANGED payment
  <2> HIDE DEF IInv, Base
  <2> QED
    BY <1>1, <1>2, FinishInv
<1>3. CASE \E next \in free :
             /\ payment' = [payment EXCEPT ![next] = [FreePayment EXCEPT !.st = "open", !.by = w]]
             /\ req' = [req EXCEPT ![w].pay = next, ![w].checked = {}]
             /\ Goto(w, "apply")
  <2>1. PICK next \in free :
             /\ payment' = [payment EXCEPT ![next] = [FreePayment EXCEPT !.st = "open", !.by = w]]
             /\ req' = [req EXCEPT ![w].pay = next, ![w].checked = {}]
             /\ Goto(w, "apply")
    BY <1>3
  <2>2. next \in Payments /\ payment[next].st = "free"
    OBVIOUS
  <2>3. PICK pm : pm = [FreePayment EXCEPT !.st = "open", !.by = w]
    OBVIOUS
  <2>4. pm \in PaymentRow /\ pm.st = "open" /\ pm.by = w /\ pm.apps = <<>>
    <3>1. <<>> \in Seq(App)
      BY EmptySeq
    <3> QED
      BY <2>3, <3>1 DEF FreePayment, PaymentRow, Owners
  <2>5. PICK r : r = [req[w] EXCEPT !.pay = next, !.checked = {}]
    OBVIOUS
  <2>6. r \in Request /\ r.pay = next /\ r.todo = req[w].todo
    <3>1. req[w] \in Request
      BY DEF Types
    <3> QED
      BY <2>2, <2>5, <3>1 DEF Request
  <2>7. /\ payment'[next] = pm /\ \A p \in Payments \ {next} : payment'[p] = payment[p]
        /\ payment' \in [Payments -> PaymentRow]
    BY <2>1, <2>2, <2>3, <2>4 DEF Types
  <2>8. /\ req'[w] = r /\ pc'[w] = "apply"
        /\ pc' \in [Workers -> Steps] /\ req' \in [Workers -> Request]
        /\ \A v \in Workers \ {w} : pc'[v] = pc[v] /\ req'[v] = req[v]
    BY <2>1, <2>5, <2>6 DEF Types, Goto, Steps
  <2>9. \A v \in Workers \ {w} : Unmoved(v)
    BY <2>8 DEF Unmoved
  <2>10. Types'
    BY <1>1, <2>7, <2>8 DEF Types
  <2>11. \A p \in Payments : payment[p].by \in Workers => payment[p].by \in Workers \ {w}
    BY <1>1 DEF PaymentsOK
  <2>12. PaymentsOK'
    <3>1. \A p \in Payments : payment'[p].by \in Workers <=> payment'[p].st \in {"open", "voiding"}
      BY <2>4, <2>7 DEF PaymentsOK
    <3>2. \A p \in Payments : payment'[p].by \in Workers =>
            req'[payment'[p].by].pay = p /\ pc'[payment'[p].by] \in {"apply", "commit"}
      BY <2>4, <2>6, <2>7, <2>8, <2>11 DEF PaymentsOK
    <3>3. \A p \in Payments : payment'[p].st = "voiding" => pc'[payment'[p].by] = "commit"
      BY <2>4, <2>7, <2>8, <2>11 DEF PaymentsOK
    <3>4. ASSUME NEW p \in Payments,
                 \/ payment'[p].st \in {"live", "voiding"}
                 \/ payment'[p].st = "open" /\ pc'[payment'[p].by] = "commit"
          PROVE  Whole(payment'[p].apps)
      <4>1. p # next
        BY <2>4, <2>7, <2>8, <3>4
      <4> QED
        BY <2>7, <2>8, <2>11, <3>4, <4>1 DEF PaymentsOK
    <3> QED
      BY <3>1, <3>2, <3>3, <3>4 DEF PaymentsOK
  <2>13. \A v \in Workers : RequestOK(v)'
    <3>1. \A v \in Workers \ {w} : RequestOK(v)'
      BY <2>2, <2>7, <2>9, OthersOK
    <3>2. req[w].todo \in Plans /\ req[w].todo # <<>> /\ req[w].todo \in Seq(App)
      BY <1>1, PlansAssumption DEF RequestOK, App
    <3>3. Partly(<<>>, req[w].todo)
      BY <3>2, EmptySeq DEF Partly
    <3>4. RequestOK(w)'
      BY <2>2, <2>4, <2>6, <2>7, <2>8, <3>2, <3>3 DEF RequestOK, Reading
    <3> QED
      BY <3>1, <3>4
  <2>14. \A j \in Invoices : lock[j] \in Workers => lock[j] \in Workers \ {w}
    BY <1>1 DEF LocksOK
  <2>15. LocksOK' /\ DueOK'
    BY <1>1, <2>8, <2>14 DEF LocksOK, DueOK
  <2>16. ASSUME Exact PROVE Sharp'
    <3> USE <2>16 DEF Sharp
    <3>1. \A v \in Workers : pc'[v] = "unapply" =>
            v # w /\ pc[v] = "unapply" /\ req'[v] = req[v] /\ payment'[req[v].pay] = payment[req[v].pay]
      BY <2>2, <2>7, <2>8 DEF RequestOK
    <3>2. RowsOK'
      <4>1. ASSUME NEW j \in Invoices, lock'[j] \in Workers, Sound(lock[j])'
            PROVE  Agrees(draft'[j])
        <5>1. Sound(lock[j])
          BY <1>1, <2>8, <2>14, <3>1, <4>1 DEF Sound
        <5> QED
          BY <1>1, <4>1, <5>1 DEF RowsOK
      <4>2. \A j \in Invoices : Agrees(invoice'[j])
        BY <1>1 DEF RowsOK
      <4>3. \A j \in Invoices : draft'[j].status = "NONE" <=> invoice'[j].status = "NONE"
        BY <1>1 DEF RowsOK
      <4> QED
        BY <1>1, <4>1, <4>2, <4>3 DEF RowsOK
    <3>3. LivePayments' = LivePayments
      BY <2>2, <2>4, <2>7 DEF LivePayments
    <3>4. \A j : \A p \in Payments \ {next} : AppliesTo(p, j)' = AppliesTo(p, j)
      BY <2>7 DEF AppliesTo
    <3>5. next \notin LivePayments /\ \A j : ~AppliesTo(next, j)'
      BY <2>2, <2>4, <2>7, EmptySeq DEF LivePayments, AppliesTo
    <3>6. \A v \in Workers : ReadOK(v)'
      <4>1. ASSUME NEW v \in Workers \ {w} PROVE ReadOK(v)'
        <5>1. ReadOK(v)
          OBVIOUS
        <5>2. \A j : \A p \in LivePayments : AppliesTo(p, j)' = AppliesTo(p, j)
          BY <3>4, <3>5 DEF LivePayments
        <5> QED
          BY <1>1, <2>8, <3>3, <5>1, <5>2 DEF ReadOK
      <4>2. ReadOK(w)'
        BY <2>8 DEF ReadOK, Reading
      <4> QED
        BY <4>1, <4>2
    <3>7. AppsOK'
      <4>1. \A p \in LivePayments', j \in Invoices : AppliesTo(p, j)' =>
              invoice'[j].status \in Sent /\ draft'[j].status \in Sent
        BY <1>1, <3>3, <3>4, <3>5 DEF AppsOK, LivePayments
      <4>2. \A p \in Payments, j \in Invoices : payment'[p].st = "open" /\ AppliesTo(p, j)' =>
              lock'[j] = payment'[p].by /\ draft'[j].status \in Sent
        BY <1>1, <2>7, <3>4, <3>5 DEF AppsOK
      <4>3. ASSUME NEW v \in Workers, pc'[v] = "unapply", payment'[req'[v].pay].st # "void",
                   NEW k \in 1..Len(req'[v].todo)
            PROVE  AppliesTo(req[v].pay, req[v].todo[k].inv)'
        <5>1. AppliesTo(req[v].pay, req[v].todo[k].inv)
          BY <3>1, <4>3 DEF AppsOK
        <5> QED
          BY <3>1, <4>3, <5>1 DEF AppliesTo
      <4> QED
        BY <4>1, <4>2, <4>3 DEF AppsOK
    <3> QED
      BY <3>2, <3>6, <3>7
  <2> QED
    BY <2>10, <2>12, <2>13, <2>15, <2>16
<1>4. free # {} => (CHOOSE p \in free : TRUE) \in free
  OBVIOUS
<1> QED
  BY <1>2, <1>3, <1>4 DEF InsertPayment

-----------------------------------------------------------------------------
(* Statements of a transaction.                                            *)

\* Whoever may write a row finds it as the books need it, unless a void that
\* will be refused has written it.
LEMMA DraftAgrees ==
  ASSUME IInv, Exact, NEW w \in Workers, NEW i \in Invoices, CanWrite(w, i), Sound(w)
  PROVE  Agrees(draft[i])
<1>1. CASE lock[i] = NoWorker
  BY <1>1 DEF IInv, Base, Sharp, RowsOK, LocksOK
<1>2. CASE lock[i] = w
  BY <1>2 DEF IInv, Sharp, RowsOK
<1> QED
  BY <1>1, <1>2 DEF CanWrite

\* w rewrites the row, and with it may add to the payment it is creating.
LEMMA WriteInv ==
  ASSUME IInv, NEW w \in Workers, NEW i \in Invoices, NEW row \in Row, row.due >= 0,
         CanWrite(w, i), Write(w, i, row), UNCHANGED invoice,
         pc' \in [Workers -> Steps], req' \in [Workers -> Request],
         payment' \in [Payments -> PaymentRow],
         \A v \in Workers \ {w} : Unmoved(v),
         pc[w] \in {"cancel", "lines", "apply", "unapply"},
         pc'[w] \in {"apply", "unapply", "commit"}, pc'[w] = "unapply" <=> pc[w] = "unapply",
         pc'[w] = "apply" => pc[w] = "apply",
         req'[w].pay = req[w].pay, RequestOK(w)',
         \A p \in Payments : payment'[p].st = payment[p].st /\ payment'[p].by = payment[p].by,
         \A p \in Payments : ~(pc[w] = "apply" /\ p = req[w].pay) => payment'[p] = payment[p],
         pc[w] = "apply" /\ pc'[w] = "commit" => Whole(payment'[req[w].pay].apps),
         Exact =>
           /\ Sound(w) => Agrees(row)
           /\ row.status = "NONE" <=> draft[i].status = "NONE"
           /\ \A p \in LivePayments : AppliesTo(p, i) => row.status \in Sent
           /\ pc[w] = "apply" =>
                /\ row.status \in Sent
                /\ \A j \in Invoices \ {i} : AppliesTo(req[w].pay, j)' => AppliesTo(req[w].pay, j)
           /\ pc[w] = "unapply" /\ payment[req[w].pay].st # "void" =>
                \A k \in 1..Len(req'[w].todo) : AppliesTo(req'[w].pay, req'[w].todo[k].inv)
  PROVE  IInv'
<1> USE NullAssumption DEF IInv, Base
<1>1. /\ draft'[i] = row /\ lock'[i] = w
      /\ \A j \in Invoices \ {i} : draft'[j] = draft[j] /\ lock'[j] = lock[j]
      /\ draft' \in [Invoices -> Row] /\ lock' \in [Invoices -> Owners]
  BY DEF Types, Write, Owners
<1>2. Types'
  BY <1>1 DEF Types
<1>3. \A p \in Payments : payment[p].by = w =>
        pc[w] = "apply" /\ req[w].pay = p /\ payment[p].st = "open"
  BY DEF PaymentsOK
<1>4. \A p \in LivePayments : payment'[p] = payment[p]
  BY DEF LivePayments, RequestOK
<1>5. PaymentsOK'
  <2>1. \A p \in Payments : payment'[p].by \in Workers <=> payment'[p].st \in {"open", "voiding"}
    BY DEF PaymentsOK
  <2>2. \A p \in Payments : payment'[p].by \in Workers =>
          req'[payment'[p].by].pay = p /\ pc'[payment'[p].by] \in {"apply", "commit"}
    BY <1>3 DEF PaymentsOK, Unmoved
  <2>3. \A p \in Payments : payment'[p].st = "voiding" => pc'[payment'[p].by] = "commit"
    BY <1>3 DEF PaymentsOK, Unmoved
  <2>4. ASSUME NEW p \in Payments,
               \/ payment'[p].st \in {"live", "voiding"}
               \/ payment'[p].st = "open" /\ pc'[payment'[p].by] = "commit"
        PROVE  Whole(payment'[p].apps)
    <3>1. CASE payment[p].st \in {"live", "voiding"}
      BY <1>4, <3>1 DEF PaymentsOK, LivePayments
    <3>2. CASE payment[p].st = "open" /\ payment[p].by = w
      BY <1>3, <2>4, <3>2
    <3>3. CASE payment[p].st = "open" /\ payment[p].by # w
      <4>1. payment[p].by \in Workers \ {w}
        BY <3>3 DEF PaymentsOK
      <4>2. pc[payment[p].by] = "commit"
        BY <2>4, <3>3, <4>1 DEF Unmoved
      <4>3. payment'[p] = payment[p]
        BY <3>3 DEF RequestOK
      <4> QED
        BY <3>3, <4>2, <4>3 DEF PaymentsOK
    <3> QED
      BY <2>4, <3>1, <3>2, <3>3
  <2> QED
    BY <2>1, <2>2, <2>3, <2>4 DEF PaymentsOK
<1>6. \A v \in Workers : RequestOK(v)'
  <2>1. \A p \in Payments : payment[p].st = "open" /\ payment[p].by # w => payment'[p] = payment[p]
    BY DEF RequestOK
  <2>2. \A v \in Workers \ {w} : RequestOK(v)'
    BY <2>1, OthersOK
  <2> QED
    BY <2>2
<1>7. LocksOK'
  <2>1. \A j \in Invoices : lock[j] \in Workers => pc'[lock[j]] \in {"apply", "unapply", "commit"}
    BY DEF LocksOK, Unmoved
  <2> QED
    BY <1>1, <2>1 DEF LocksOK
<1>8. DueOK'
  BY <1>1 DEF DueOK
<1>9. ASSUME Exact PROVE Sharp'
  <2> USE <1>9 DEF Sharp
  <2>1. \A v \in Workers : Sound(v)' => Sound(v)
    BY DEF Sound, Unmoved, RequestOK
  <2>2. RowsOK'
    <3>1. ASSUME NEW j \in Invoices, lock'[j] \in Workers, Sound(lock[j])'
          PROVE  Agrees(draft'[j])
      <4>1. PICK u \in Workers : u = lock'[j]
        BY <3>1
      <4>2. Sound(u)'
        BY <3>1, <4>1 DEF Sound
      <4>3. Sound(u)
        BY <2>1, <4>2
      <4>4. CASE j = i
        BY <1>1, <4>1, <4>3, <4>4
      <4>5. CASE j # i
        BY <1>1, <4>1, <4>3, <4>5 DEF RowsOK
      <4> QED
        BY <4>4, <4>5
    <3>2. \A j \in Invoices : Agrees(invoice'[j])
      BY DEF RowsOK
    <3>3. \A j \in Invoices : draft'[j].status = "NONE" <=> invoice'[j].status = "NONE"
      BY <1>1 DEF RowsOK
    <3> QED
      BY <3>1, <3>2, <3>3 DEF RowsOK
  <2>3. LivePayments' = LivePayments
    BY DEF LivePayments
  <2>4. \A j : \A p \in LivePayments : AppliesTo(p, j)' = AppliesTo(p, j)
    BY <1>4 DEF AppliesTo
  <2>5. \A v \in Workers : ReadOK(v)'
    <3>1. ASSUME NEW v \in Workers \ {w} PROVE ReadOK(v)'
      <4>1. ReadOK(v) /\ Unmoved(v)
        OBVIOUS
      <4> QED
        BY <2>3, <2>4, <4>1 DEF ReadOK, Unmoved
    <3>2. ReadOK(w)'
      BY DEF ReadOK, Reading
    <3> QED
      BY <3>1, <3>2
  <2>6. AppsOK'
    <3>1. ASSUME NEW p \in LivePayments', NEW j \in Invoices, AppliesTo(p, j)'
          PROVE  invoice'[j].status \in Sent /\ draft'[j].status \in Sent
      BY <1>1, <2>3, <2>4, <3>1 DEF AppsOK
    <3>2. ASSUME NEW p \in Payments, NEW j \in Invoices, payment'[p].st = "open", AppliesTo(p, j)'
          PROVE  lock'[j] = payment'[p].by /\ draft'[j].status \in Sent
      <4>1. CASE payment[p].by = w
        <5>1. pc[w] = "apply" /\ req[w].pay = p /\ payment[p].st = "open"
          BY <1>3, <4>1
        <5>2. j # i => AppliesTo(p, j)
          BY <3>2, <5>1
        <5> QED
          BY <1>1, <4>1, <5>1, <5>2 DEF AppsOK
      <4>2. CASE payment[p].by # w
        <5>1. payment'[p] = payment[p]
          BY <3>2, <4>2 DEF RequestOK
        <5>2. AppliesTo(p, j)
          BY <3>2, <5>1 DEF AppliesTo
        <5>3. lock[j] = payment[p].by /\ draft[j].status \in Sent
          BY <3>2, <5>2 DEF AppsOK
        <5>4. payment[p].by \in Workers
          BY <3>2 DEF PaymentsOK
        <5>5. j # i
          BY <4>2, <5>3, <5>4 DEF CanWrite
        <5> QED
          BY <1>1, <5>3, <5>5
      <4> QED
        BY <4>1, <4>2
    <3>3. ASSUME NEW v \in Workers, pc'[v] = "unapply", payment'[req'[v].pay].st # "void",
                 NEW k \in 1..Len(req'[v].todo)
          PROVE  AppliesTo(req[v].pay, req[v].todo[k].inv)'
      <4>1. pc[v] = "unapply" /\ req'[v].pay = req[v].pay
        BY <3>3 DEF Unmoved
      <4>2. req[v].pay \in Payments /\ payment[req[v].pay].st \in {"live", "voiding"}
        BY <3>3, <4>1 DEF RequestOK
      <4>3. payment'[req[v].pay] = payment[req[v].pay]
        BY <1>4, <4>2 DEF LivePayments
      <4>4. AppliesTo(req'[v].pay, req'[v].todo[k].inv)
        <5>1. CASE v = w
          BY <3>3, <4>1, <4>2, <5>1
        <5>2. CASE v # w
          BY <3>3, <4>1, <4>2, <5>2 DEF AppsOK, Unmoved
        <5> QED
          BY <5>1, <5>2
      <4> QED
        BY <4>1, <4>3, <4>4 DEF AppliesTo
    <3> QED
      BY <3>1, <3>2, <3>3 DEF AppsOK
  <2> QED
    BY <2>2, <2>5, <2>6
<1> QED
  BY <1>2, <1>5, <1>6, <1>7, <1>8, <1>9

\* A cancellation leaves an invoice nothing is paid on: the count it has read
\* still stands when the version does.
LEMMA CancelInvoiceInv ==
  ASSUME IInv, NEW w \in Workers, CancelInvoice(w), ~Rollback(w)
  PROVE  IInv'
<1> USE DEF IInv, Base, Types
<1>1. PICK i : i = req[w].inv
  OBVIOUS
<1>2. /\ pc[w] = "cancel" /\ CanWrite(w, i)
      /\ StatusMatches(w, draft[i]) /\ VersionMatches(w) /\ draft[i].reversed = 0
      /\ Write(w, i, Cancelled(draft[i], req[w].seen))
      /\ pc' = [pc EXCEPT ![w] = "commit"] /\ UNCHANGED <<invoice, payment, req>>
  BY <1>1 DEF CancelInvoice, Goto
<1>3. i \in Invoices /\ draft[i] \in Row /\ req[w] \in Request
  BY <1>1, <1>2 DEF RequestOK, Reading
<1>4. PICK seen : seen = req[w].seen
  OBVIOUS
<1>5. seen.total \in Nat
  BY <1>3, <1>4 DEF Request
<1>6. PICK row : row = Cancelled(draft[i], seen)
  OBVIOUS
<1>7. \A q \in Row :
        LET r == [q EXCEPT !.status = "CANCELLED", !.reversed = q.posted, !.total = seen.total, !.due = 0]
        IN /\ r \in Row /\ r.status = "CANCELLED" /\ r.total = seen.total /\ r.lines = q.lines
           /\ r.due = 0 /\ r.posted = q.posted /\ r.reversed = q.posted
  <2> HIDE DEF IInv, Base, Types
  <2> SUFFICES ASSUME NEW q \in Row, NEW total \in Nat, NEW r,
                      r = [q EXCEPT !.status = "CANCELLED", !.reversed = q.posted, !.total = total, !.due = 0]
               PROVE  /\ r \in Row /\ r.status = "CANCELLED" /\ r.total = total /\ r.lines = q.lines
                      /\ r.due = 0 /\ r.posted = q.posted /\ r.reversed = q.posted
    BY <1>5
  <2>1. PICK posted \in Nat : posted = q.posted
    BY DEF Row
  <2>2. PICK due \in Int : due = 0
    OBVIOUS
  <2>3. r \in Row
    <3>1. r = [q EXCEPT !.status = "CANCELLED", !.reversed = posted, !.total = total, !.due = due]
      BY <2>1, <2>2
    <3> QED
      BY <3>1 DEF Row, Statuses
  <2>4. /\ r.status = "CANCELLED" /\ r.total = total /\ r.lines = q.lines
        /\ r.due = 0 /\ r.posted = q.posted /\ r.reversed = q.posted
    BY DEF Row
  <2> QED
    BY <2>3, <2>4
<1>8. /\ row \in Row /\ row.status = "CANCELLED" /\ row.total = seen.total
      /\ row.lines = draft[i].lines /\ row.due = 0
      /\ row.posted = draft[i].posted /\ row.reversed = draft[i].posted
  BY <1>3, <1>6, <1>7 DEF Cancelled
<1>9. /\ pc'[w] = "commit" /\ pc' \in [Workers -> Steps] /\ req' \in [Workers -> Request]
      /\ \A v \in Workers \ {w} : Unmoved(v)
  BY <1>2 DEF Unmoved, Steps
<1>10. RequestOK(w)'
  BY <1>9 DEF RequestOK, Reading
<1>11. lock[i] = NoWorker /\ draft[i] = invoice[i]
  BY <1>2, <1>3, NullAssumption DEF CanWrite, LocksOK
<1>12. ASSUME Exact
       PROVE  /\ Agrees(row) /\ draft[i].status # "NONE"
              /\ \A p \in LivePayments : ~AppliesTo(p, i)
  <2>1. ReadOK(w) /\ Agrees(invoice[i])
    BY <1>3, <1>12 DEF Sharp, RowsOK
  <2>2. ~req[w].stale
    BY <1>2, <2>1 DEF ReadOK, Reading, VersionMatches
  <2>3. seen = Seen(draft[i]) /\ seen.status \in Open
    BY <1>1, <1>2, <1>4, <1>11, <2>1, <2>2 DEF ReadOK, Reading
  <2>4. seen.total = draft[i].total /\ seen.status = draft[i].status
    BY <2>3 DEF Seen
  <2>5. draft[i].total = draft[i].lines /\ draft[i].posted = draft[i].lines
    BY <1>11, <2>1, <2>3, <2>4 DEF Agrees, Open
  <2>6. Agrees(row)
    BY <1>8, <2>4, <2>5 DEF Agrees
  <2>7. \A p \in LivePayments : ~AppliesTo(p, i)
    BY <1>1, <1>2, <2>1, <2>2 DEF ReadOK, Reading
  <2> QED
    BY <2>3, <2>4, <2>6, <2>7 DEF Open
<1>13. row.due >= 0 /\ Write(w, i, row) /\ UNCHANGED invoice /\ payment' \in [Payments -> PaymentRow]
  BY <1>2, <1>4, <1>6, <1>8
<1>14. payment' = payment /\ req'[w].pay = req[w].pay
  BY <1>2
<1> HIDE DEF IInv, Base, Types
<1> QED
  BY <1>2, <1>3, <1>8, <1>9, <1>10, <1>12, <1>13, <1>14, WriteInv

\* What is due counts the paid_amount read, which the version vouches for.
LEMMA UpdateInvoiceLineItemsInv ==
  ASSUME IInv, NEW w \in Workers, UpdateInvoiceLineItems(w), ~Rollback(w)
  PROVE  IInv'
<1> USE DEF IInv, Base, Types
<1>1. PICK i : i = req[w].inv
  OBVIOUS
<1>2. /\ pc[w] = "lines" /\ CanWrite(w, i)
      /\ req[w].total >= req[w].seen.paid /\ VersionMatches(w)
      /\ Write(w, i, Relined(draft[i], req[w].total, req[w].seen))
      /\ pc' = [pc EXCEPT ![w] = "commit"] /\ UNCHANGED <<invoice, payment, req>>
  BY <1>1 DEF UpdateInvoiceLineItems, Goto
<1>3. i \in Invoices /\ draft[i] \in Row /\ req[w] \in Request
  BY <1>1, <1>2 DEF RequestOK, Reading
<1>4. PICK seen, total : seen = req[w].seen /\ total = req[w].total
  OBVIOUS
<1>5. total \in Nat /\ total \in Int /\ seen.paid \in Int
  BY <1>3, <1>4 DEF Request
<1>6. PICK due \in Int : due = total - seen.paid
  BY <1>5
<1>7. due >= 0
  BY <1>2, <1>4, <1>5, <1>6
<1>8. PICK row : row = Relined(draft[i], total, seen)
  OBVIOUS
<1>9. \A q \in Row :
        LET r == [q EXCEPT !.total = total, !.lines = total, !.due = due, !.posted = total]
        IN /\ r \in Row /\ r.status = q.status /\ r.total = total /\ r.lines = total
           /\ r.due = due /\ r.posted = total /\ r.reversed = q.reversed /\ r.paid = q.paid
  BY <1>5 DEF Row, Statuses
<1>10. /\ row \in Row /\ row.status = draft[i].status /\ row.total = total /\ row.lines = total
       /\ row.due = due /\ row.posted = total /\ row.reversed = draft[i].reversed
       /\ row.paid = draft[i].paid
  BY <1>3, <1>6, <1>8, <1>9 DEF Relined
<1>11. /\ pc'[w] = "commit" /\ pc' \in [Workers -> Steps] /\ req' \in [Workers -> Request]
       /\ \A v \in Workers \ {w} : Unmoved(v)
  BY <1>2 DEF Unmoved, Steps
<1>12. RequestOK(w)'
  BY <1>11 DEF RequestOK, Reading
<1>13. lock[i] = NoWorker /\ draft[i] = invoice[i]
  BY <1>2, <1>3, NullAssumption DEF CanWrite, LocksOK
<1>14. ASSUME Exact
       PROVE  /\ Agrees(row)
              /\ \A p \in LivePayments : AppliesTo(p, i) => row.status \in Sent
  <2>1. ReadOK(w) /\ Agrees(invoice[i])
    BY <1>3, <1>14 DEF Sharp, RowsOK
  <2>2. ~req[w].stale
    BY <1>2, <2>1 DEF ReadOK, Reading, VersionMatches
  <2>3. seen = Seen(draft[i]) /\ seen.status \in Open
    BY <1>1, <1>2, <1>4, <1>13, <2>1, <2>2 DEF ReadOK, Reading
  <2>4. seen.paid = draft[i].paid /\ draft[i].status \in Open
    BY <2>3 DEF Seen
  <2>5. row.posted = row.due + row.paid
    BY <1>5, <1>6, <1>10, <2>4
  <2>6. draft[i].reversed = 0
    BY <1>13, <2>1, <2>4 DEF Agrees, Open
  <2>7. Agrees(row)
    BY <1>10, <2>4, <2>5, <2>6 DEF Agrees, Open
  <2>8. \A p \in LivePayments : AppliesTo(p, i) => row.status \in Sent
    BY <1>3, <1>10, <1>14 DEF Sharp, AppsOK
  <2> QED
    BY <2>7, <2>8
<1>15. row.due >= 0 /\ Write(w, i, row) /\ UNCHANGED invoice /\ payment' \in [Payments -> PaymentRow]
  BY <1>2, <1>4, <1>7, <1>8, <1>10
<1>16. payment' = payment /\ req'[w].pay = req[w].pay
  BY <1>2
<1> HIDE DEF IInv, Base, Types
<1> QED
  BY <1>2, <1>3, <1>10, <1>11, <1>12, <1>14, <1>15, <1>16, WriteInv

\* One application further into the plan, and the last one.
LEMMA PartlyMoves ==
  ASSUME NEW apps \in Seq(App), NEW todo \in Seq(App), todo # <<>>, Partly(apps, todo)
  PROVE  Partly(Append(apps, Kept(Head(todo))), Tail(todo))
<1>1. PICK plan \in Plans :
        /\ Len(plan) = Len(apps) + Len(todo)
        /\ \A k \in 1..Len(apps) : apps[k] = Kept(plan[k])
        /\ \A k \in 1..Len(todo) : todo[k] = plan[Len(apps) + k]
  BY DEF Partly
<1>2. PICK m \in Nat, n \in Nat : m = Len(apps) /\ n = Len(todo)
  OBVIOUS
<1>3. n >= 1 /\ Head(todo) = todo[1]
  BY <1>2, EmptySeq
<1>4. /\ Len(Tail(todo)) = n - 1
      /\ \A k \in 1..(n - 1) : Tail(todo)[k] = todo[k + 1]
  BY <1>2, HeadTailProperties
<1>5. PICK new : new = Append(apps, Kept(Head(todo)))
  OBVIOUS
<1>6. /\ Len(new) = m + 1 /\ new[m + 1] = Kept(Head(todo))
      /\ \A k \in 1..m : new[k] = apps[k]
  <2>1. apps \in Seq(App \union {Kept(Head(todo))})
    OBVIOUS
  <2> QED
    BY <1>2, <1>5, <2>1, AppendProperties
<1>7. Len(plan) = Len(new) + Len(Tail(todo))
  BY <1>1, <1>2, <1>4, <1>6
<1>8. \A k \in 1..Len(new) : new[k] = Kept(plan[k])
  <2>1. new[m + 1] = Kept(plan[m + 1])
    BY <1>1, <1>2, <1>3, <1>6
  <2>2. \A k \in 1..(m + 1) : k \in 1..m \/ k = m + 1
    OBVIOUS
  <2> QED
    BY <1>1, <1>2, <1>6, <2>1, <2>2
<1>9. \A k \in 1..Len(Tail(todo)) : Tail(todo)[k] = plan[Len(new) + k]
  <2> SUFFICES ASSUME NEW k \in 1..(n - 1) PROVE Tail(todo)[k] = plan[m + 1 + k]
    BY <1>4, <1>6
  <2>1. k + 1 \in 1..n /\ m + (k + 1) = m + 1 + k
    OBVIOUS
  <2> QED
    BY <1>1, <1>2, <1>4, <2>1
<1> QED
  BY <1>5, <1>7, <1>8, <1>9 DEF Partly

LEMMA PartlyWhole ==
  ASSUME NEW apps \in Seq(App), Partly(apps, <<>>)
  PROVE  Whole(apps)
<1>1. PICK plan \in Plans :
        /\ Len(plan) = Len(apps) + Len(<<>>)
        /\ \A k \in 1..Len(apps) : apps[k] = Kept(plan[k])
  BY DEF Partly
<1>2. Len(plan) = Len(apps)
  BY <1>1, EmptySeq
<1>3. plan \in Seq(App)
  BY PlansAssumption DEF App
<1>4. DOMAIN plan = 1..Len(apps) /\ DOMAIN apps = 1..Len(apps) /\ apps = [k \in 1..Len(apps) |-> apps[k]]
  BY <1>2, <1>3, LenProperties
<1>5. apps = [k \in DOMAIN plan |-> Kept(plan[k])]
  BY <1>1, <1>4
<1> QED
  BY <1>5 DEF Whole

\* The row after an application, or after one is taken off.
LEMMA AppliedRow ==
  ASSUME NEW q \in Row, NEW amt \in Nat \ {0}, Payable(q, amt), NEW row, row = Applied(q, amt)
  PROVE  /\ row \in Row /\ row.due >= 0 /\ q.status \in Sent /\ row.status \in Sent
         /\ Exact /\ Agrees(q) => Agrees(row)
<1> USE PlansAssumption
<1>1. PICK due \in Int, paid \in Int : due = q.due /\ paid = q.paid
  BY DEF Row
<1>2. CentParts * due >= amt /\ q.status \in Sent
  BY <1>1 DEF Payable, Sent
<1>3. PICK d \in Int, p \in Int : d = CentParts * due - amt /\ p = CentParts * paid + amt
  BY <1>1
<1>4. d >= 0
  BY <1>2, <1>3
<1>5. PICK kept \in Nat : kept = Stored(d, CentParts)
  BY <1>3, <1>4, StoredType
<1>6. PICK taken \in Int : taken = Stored(p, CentParts)
  BY <1>3, StoredType
<1>7. PICK status : status = IF d <= 0 THEN "PAID" ELSE q.status
  OBVIOUS
<1>8. status \in Sent
  BY <1>2, <1>7 DEF Sent
<1>9. row = [q EXCEPT !.paid = taken, !.due = kept, !.status = status]
  BY <1>1, <1>3, <1>5, <1>6, <1>7 DEF Applied
<1>10. kept \in Int /\ kept >= 0
  BY <1>5
<1>11. row \in Row
  BY <1>8, <1>9, <1>10 DEF Row, Sent, Statuses
<1>12. /\ row.paid = taken /\ row.due = kept /\ row.status = status /\ row.total = q.total
       /\ row.lines = q.lines /\ row.posted = q.posted /\ row.reversed = q.reversed
  BY <1>9 DEF Row
<1>13. ASSUME Exact, Agrees(q) PROVE Agrees(row)
  <2>1. CentParts = 1 /\ d = due - amt /\ p = paid + amt
    BY <1>1, <1>3, <1>13 DEF Exact
  <2>2. kept = due - amt /\ taken = paid + amt
    BY <1>3, <1>5, <1>6, <2>1, WholeCentsKept
  <2>3. q.status = "PAID" => d <= 0
    BY <1>1, <1>13, <2>1 DEF Agrees
  <2>4. row.status = "PAID" => row.due = 0
    BY <1>2, <1>4, <1>7, <1>12, <2>1, <2>2, <2>3 DEF Sent
  <2>5. q.posted = q.due + q.paid /\ q.reversed = 0 /\ q.total = q.lines /\ q.posted = q.lines
    BY <1>2, <1>13 DEF Agrees, Sent
  <2>6. row.posted = row.due + row.paid
    BY <1>1, <1>12, <2>2, <2>5
  <2> QED
    BY <1>8, <1>12, <2>4, <2>5, <2>6 DEF Agrees, Sent
<1> QED
  BY <1>2, <1>8, <1>10, <1>11, <1>12, <1>13

LEMMA UnappliedRow ==
  ASSUME NEW q \in Row, q.due >= 0, NEW amt \in Nat \ {0}, NEW row, row = Unapplied(q, amt)
  PROVE  /\ row \in Row /\ row.due >= 0
         /\ q.status \in Sent => row.status \in Sent
         /\ row.status = "NONE" <=> q.status = "NONE"
         /\ Agrees(q) /\ q.status \in Sent => Agrees(row)
<1>1. PICK due \in Int, paid \in Int : due = q.due + amt /\ paid = q.paid - amt
  BY DEF Row
<1>2. PICK status : status = IF q.status = "PAID" THEN "SENT" ELSE q.status
  OBVIOUS
<1>3. status \in Statuses \union {"NONE"}
  BY <1>2 DEF Row, Statuses
<1>4. row = [q EXCEPT !.paid = paid, !.due = due, !.status = status]
  BY <1>1, <1>2 DEF Unapplied
<1>5. row \in Row
  BY <1>3, <1>4 DEF Row
<1>6. /\ row.paid = paid /\ row.due = due /\ row.status = status /\ row.total = q.total
      /\ row.lines = q.lines /\ row.posted = q.posted /\ row.reversed = q.reversed
  BY <1>4 DEF Row
<1>7. row.due >= 0
  BY <1>1, <1>6 DEF Row
<1>8. ASSUME Agrees(q), q.status \in Sent PROVE Agrees(row)
  <2>1. row.posted = row.due + row.paid
    BY <1>1, <1>6, <1>8 DEF Agrees, Sent, Row
  <2> QED
    BY <1>2, <1>6, <1>8, <2>1 DEF Agrees, Sent
<1> QED
  BY <1>2, <1>5, <1>6, <1>7, <1>8 DEF Sent

\* A payment gains its next application and the row what it pays, together.
LEMMA ApplyPaymentToInvoiceInv ==
  ASSUME IInv, NEW w \in Workers, ApplyPaymentToInvoice(w), ~Rollback(w)
  PROVE  IInv'
<1> USE DEF IInv, Base, Types
<1>1. PICK app, i, todo, p : app = Head(req[w].todo) /\ i = app.inv /\ todo = req[w].todo /\ p = req[w].pay
  OBVIOUS
<1>2. /\ pc[w] = "apply" /\ CanWrite(w, i)
      /\ Payable(draft[i], app.amt) /\ ~AppliesTo(p, i) /\ Kept(app).amt > 0
      /\ Write(w, i, Applied(draft[i], app.amt))
      /\ payment' = [payment EXCEPT ![p].apps = Append(@, Kept(app))]
      /\ req' = [req EXCEPT ![w].todo = Tail(@)]
      /\ Goto(w, AfterApplying(Tail(todo)))
      /\ UNCHANGED invoice
  BY <1>1 DEF ApplyPaymentToInvoice
<1>3. /\ p \in Payments /\ todo # <<>> /\ payment[p].st = "open" /\ payment[p].by = w
      /\ Partly(payment[p].apps, todo)
  BY <1>1, <1>2 DEF RequestOK
<1>4. todo \in Seq(App) /\ payment[p] \in PaymentRow /\ payment[p].apps \in Seq(App) /\ req[w] \in Request
  BY <1>1, <1>3 DEF Request, PaymentRow
<1>5. app \in App /\ i \in Invoices /\ app.amt \in Nat \ {0} /\ Tail(todo) \in Seq(App)
  <2>1. app \in App /\ Tail(todo) \in Seq(App)
    BY <1>1, <1>3, <1>4, HeadTailProperties
  <2> QED
    BY <1>1, <2>1 DEF App
<1>6. PICK kept : kept = Kept(app)
  OBVIOUS
<1>7. kept \in App /\ kept.inv = i
  <2>1. PICK amt \in Nat : amt = Stored(app.amt, CentParts)
    BY <1>5, StoredType
  <2>2. kept = [app EXCEPT !.amt = amt]
    BY <1>6, <2>1 DEF Kept
  <2>3. kept.amt = amt /\ kept.inv = app.inv
    BY <1>5, <2>2 DEF App
  <2>4. amt \in Nat \ {0}
    BY <1>2, <1>6, <2>1, <2>3
  <2> QED
    BY <1>1, <1>5, <2>2, <2>4 DEF App
<1>8. PICK apps : apps = Append(payment[p].apps, kept)
  OBVIOUS
<1>9. apps \in Seq(App) /\ Partly(apps, Tail(todo))
  <2>1. apps \in Seq(App)
    BY <1>4, <1>7, <1>8, AppendProperties
  <2> QED
    BY <1>1, <1>3, <1>4, <1>6, <1>8, <2>1, PartlyMoves
<1>10. PICK pm : pm = [payment[p] EXCEPT !.apps = apps]
  OBVIOUS
<1>11. pm \in PaymentRow /\ pm.st = "open" /\ pm.by = w /\ pm.apps = apps
  BY <1>3, <1>4, <1>9, <1>10 DEF PaymentRow
<1>12. /\ payment'[p] = pm /\ \A r \in Payments \ {p} : payment'[r] = payment[r]
       /\ payment' \in [Payments -> PaymentRow]
  BY <1>2, <1>3, <1>6, <1>8, <1>10, <1>11
<1>13. PICK r : r = [req[w] EXCEPT !.todo = Tail(todo)]
  OBVIOUS
<1>14. r \in Request /\ r.todo = Tail(todo) /\ r.pay = p
  BY <1>1, <1>4, <1>5, <1>13 DEF Request
<1>15. PICK step \in {"apply", "commit"} : step = AfterApplying(Tail(todo))
  BY DEF AfterApplying
<1>16. /\ req'[w] = r /\ pc'[w] = step
       /\ pc' \in [Workers -> Steps] /\ req' \in [Workers -> Request]
       /\ \A v \in Workers \ {w} : pc'[v] = pc[v] /\ req'[v] = req[v]
  BY <1>1, <1>2, <1>13, <1>14, <1>15 DEF Goto, Steps
<1>17. \A v \in Workers \ {w} : Unmoved(v)
  BY <1>16 DEF Unmoved
<1>18. RequestOK(w)'
  <2>1. step = "apply" => Tail(todo) # <<>>
    BY <1>15 DEF AfterApplying
  <2> QED
    BY <1>3, <1>9, <1>11, <1>12, <1>14, <1>16, <2>1 DEF RequestOK, Reading
<1>19. step = "commit" => Whole(payment'[p].apps)
  <2>1. step = "commit" => Tail(todo) = <<>>
    BY <1>15 DEF AfterApplying
  <2> QED
    BY <1>9, <1>11, <1>12, <2>1, PartlyWhole
<1>20. PICK row : row = Applied(draft[i], app.amt)
  OBVIOUS
<1>21. /\ row \in Row /\ row.due >= 0 /\ draft[i].status \in Sent /\ row.status \in Sent
       /\ Exact /\ Agrees(draft[i]) => Agrees(row)
  BY <1>2, <1>5, <1>20, AppliedRow
<1>22. \A j \in Invoices \ {i} : AppliesTo(p, j)' => AppliesTo(p, j)
  <2> SUFFICES ASSUME NEW j \in Invoices \ {i}, NEW k \in DOMAIN apps, apps[k].inv = j
               PROVE  AppliesTo(p, j)
    BY <1>11, <1>12 DEF AppliesTo
  <2>1. /\ Len(apps) = Len(payment[p].apps) + 1 /\ apps[Len(payment[p].apps) + 1] = kept
        /\ \A n \in 1..Len(payment[p].apps) : apps[n] = payment[p].apps[n]
    BY <1>4, <1>7, <1>8, AppendProperties
  <2>2. k \in 1..Len(payment[p].apps) \/ k = Len(payment[p].apps) + 1
    BY <1>4, <1>9, <2>1
  <2>3. k \in DOMAIN payment[p].apps /\ payment[p].apps[k].inv = j
    BY <1>4, <1>7, <2>1, <2>2
  <2> QED
    BY <2>3 DEF AppliesTo
<1>23. ASSUME Exact
       PROVE  /\ Agrees(row)
              /\ row.status = "NONE" <=> draft[i].status = "NONE"
  <2>1. Sound(w)
    BY <1>2 DEF Sound
  <2>2. Agrees(draft[i])
    <3> HIDE DEF IInv, Base, Types
    <3> QED
      BY <1>2, <1>5, <1>23, <2>1, DraftAgrees
  <2> QED
    BY <1>21, <1>23, <2>2 DEF Sent
<1>24. Write(w, i, row) /\ UNCHANGED invoice
  BY <1>2, <1>20
<1>25. \A n \in Payments : payment'[n].st = payment[n].st /\ payment'[n].by = payment[n].by
  BY <1>3, <1>11, <1>12
<1> HIDE DEF IInv, Base, Types
<1>26. \A n \in Payments : ~(pc[w] = "apply" /\ n = req[w].pay) => payment'[n] = payment[n]
  BY <1>1, <1>2, <1>12
<1>27. /\ req'[w].pay = req[w].pay /\ pc'[w] \in {"apply", "commit"}
       /\ pc'[w] = "commit" => Whole(payment'[req[w].pay].apps)
       /\ \A j \in Invoices \ {i} : AppliesTo(req[w].pay, j)' => AppliesTo(req[w].pay, j)
  <2>1. req'[w].pay = p /\ req[w].pay = p
    BY <1>1, <1>14, <1>16
  <2>2. \A j \in Invoices \ {i} : AppliesTo(req[w].pay, j)' => AppliesTo(req[w].pay, j)
    BY <1>22, <2>1 DEF AppliesTo
  <2> QED
    BY <1>15, <1>16, <1>19, <2>1, <2>2
<1> QED
  BY <1>2, <1>5, <1>12, <1>16, <1>17, <1>18, <1>21, <1>23, <1>24, <1>25, <1>26, <1>27, WriteInv

\* What is taken off a row was on it, unless the void will be refused.
LEMMA UnapplyPaymentFromInvoiceInv ==
  ASSUME IInv, NEW w \in Workers, UnapplyPaymentFromInvoice(w)
  PROVE  IInv'
<1> USE DEF IInv, Base, Types
<1>1. PICK app, i, todo : app = Head(req[w].todo) /\ i = app.inv /\ todo = req[w].todo
  OBVIOUS
<1>2. /\ pc[w] = "unapply" /\ todo # <<>> /\ CanWrite(w, i)
      /\ Write(w, i, Unapplied(draft[i], app.amt))
      /\ req' = [req EXCEPT ![w].todo = Tail(@)]
      /\ UNCHANGED <<invoice, payment, pc>>
  BY <1>1 DEF UnapplyPaymentFromInvoice
<1>3. todo \in Seq(App) /\ req[w] \in Request
  BY <1>1 DEF Request
<1>4. app \in App /\ app = todo[1] /\ Tail(todo) \in Seq(App) /\ Len(todo) \in Nat \ {0}
  BY <1>1, <1>2, <1>3, HeadTailProperties, EmptySeq
<1>5. i \in Invoices /\ app.amt \in Nat \ {0}
  BY <1>1, <1>4 DEF App
<1>6. PICK r : r = [req[w] EXCEPT !.todo = Tail(todo)]
  OBVIOUS
<1>7. r \in Request /\ r.todo = Tail(todo) /\ r.pay = req[w].pay
  BY <1>3, <1>4, <1>6 DEF Request
<1>8. /\ req'[w] = r /\ pc'[w] = "unapply" /\ pc' = pc /\ payment' = payment
      /\ pc' \in [Workers -> Steps] /\ req' \in [Workers -> Request]
      /\ \A v \in Workers \ {w} : req'[v] = req[v]
  BY <1>1, <1>2, <1>6, <1>7
<1>9. \A v \in Workers \ {w} : Unmoved(v)
  BY <1>8 DEF Unmoved
<1>10. RequestOK(w)'
  <2>1. RequestOK(w)
    OBVIOUS
  <2> QED
    BY <1>2, <1>7, <1>8, <2>1 DEF RequestOK, Reading
<1>11. PICK row : row = Unapplied(draft[i], app.amt)
  OBVIOUS
<1>12. /\ row \in Row /\ row.due >= 0
       /\ draft[i].status \in Sent => row.status \in Sent
       /\ row.status = "NONE" <=> draft[i].status = "NONE"
       /\ Agrees(draft[i]) /\ draft[i].status \in Sent => Agrees(row)
  <2>1. draft[i] \in Row /\ draft[i].due >= 0
    BY <1>5 DEF DueOK
  <2> QED
    BY <1>5, <1>11, <2>1, UnappliedRow
<1>13. ASSUME Exact
       PROVE  /\ Sound(w) => Agrees(row)
              /\ \A p \in LivePayments : AppliesTo(p, i) => row.status \in Sent
              /\ payment[req[w].pay].st # "void" =>
                   \A k \in 1..Len(req'[w].todo) : AppliesTo(req'[w].pay, req'[w].todo[k].inv)
  <2>1. payment[req[w].pay].st # "void" =>
          \A k \in 1..Len(todo) : AppliesTo(req[w].pay, todo[k].inv)
    BY <1>1, <1>2, <1>13 DEF Sharp, AppsOK
  <2>2. \A p \in LivePayments : AppliesTo(p, i) => draft[i].status \in Sent
    BY <1>5, <1>13 DEF Sharp, AppsOK
  <2>3. ASSUME Sound(w) PROVE Agrees(row)
    <3>1. payment[req[w].pay].st # "void"
      BY <1>2, <2>3 DEF Sound
    <3>2. req[w].pay \in LivePayments
      BY <1>2, <3>1 DEF RequestOK, LivePayments
    <3>3. AppliesTo(req[w].pay, i)
      BY <1>1, <1>4, <2>1, <3>1
    <3>4. Agrees(draft[i])
      <4> HIDE DEF IInv, Base, Types
      <4> QED
        BY <1>2, <1>5, <1>13, <2>3, DraftAgrees
    <3> QED
      BY <1>12, <2>2, <3>2, <3>3, <3>4
  <2>4. ASSUME payment[req[w].pay].st # "void", NEW k \in 1..Len(Tail(todo))
        PROVE  AppliesTo(req[w].pay, Tail(todo)[k].inv)
    <3>1. k + 1 \in 1..Len(todo) /\ Tail(todo)[k] = todo[k + 1]
      BY <1>2, <1>3, <1>4, <2>4, HeadTailProperties
    <3> QED
      BY <2>1, <2>4, <3>1
  <2> QED
    BY <1>7, <1>8, <1>12, <2>2, <2>3, <2>4
<1>14. Write(w, i, row) /\ UNCHANGED invoice /\ payment' \in [Payments -> PaymentRow]
  BY <1>2, <1>11
<1>15. req'[w].pay = req[w].pay
  BY <1>7, <1>8
<1> HIDE DEF IInv, Base, Types
<1> QED
  BY <1>2, <1>5, <1>8, <1>9, <1>10, <1>12, <1>13, <1>14, <1>15, WriteInv

\* Only one void gets the payment.
LEMMA SoftDeletePaymentInv ==
  ASSUME IInv, NEW w \in Workers, SoftDeletePayment(w), ~Rollback(w)
  PROVE  IInv'
<1> USE NullAssumption DEF IInv, Base
<1>1. PICK p : p = req[w].pay
  OBVIOUS
<1>2. /\ pc[w] = "unapply" /\ payment[p].st = "live"
      /\ payment' = [payment EXCEPT ![p] = [@ EXCEPT !.st = "voiding", !.by = w]]
      /\ pc' = [pc EXCEPT ![w] = "commit"]
      /\ UNCHANGED <<invoice, draft, lock, req>>
  BY <1>1 DEF SoftDeletePayment, Voidable, Goto
<1>3. p \in Payments /\ payment[p] \in PaymentRow
  BY <1>1, <1>2 DEF RequestOK, Types
<1>4. PICK pm : pm = [payment[p] EXCEPT !.st = "voiding", !.by = w]
  OBVIOUS
<1>5. pm \in PaymentRow /\ pm.st = "voiding" /\ pm.by = w /\ pm.apps = payment[p].apps
  BY <1>3, <1>4 DEF PaymentRow, Owners
<1>6. /\ payment'[p] = pm /\ \A r \in Payments \ {p} : payment'[r] = payment[r]
      /\ payment' \in [Payments -> PaymentRow]
  BY <1>2, <1>3, <1>4, <1>5 DEF Types
<1>7. /\ pc'[w] = "commit" /\ pc' \in [Workers -> Steps] /\ req' = req
      /\ \A v \in Workers \ {w} : pc'[v] = pc[v] /\ Unmoved(v)
  BY <1>2 DEF Unmoved, Types, Steps
<1>8. Types'
  BY <1>2, <1>6, <1>7 DEF Types
<1>9. \A r \in Payments : payment[r].by \in Workers => payment[r].by \in Workers \ {w}
  BY <1>2 DEF PaymentsOK
<1>10. PaymentsOK'
  <2>1. \A r \in Payments : payment'[r].by \in Workers <=> payment'[r].st \in {"open", "voiding"}
    BY <1>5, <1>6 DEF PaymentsOK
  <2>2. \A r \in Payments : payment'[r].by \in Workers =>
          req'[payment'[r].by].pay = r /\ pc'[payment'[r].by] \in {"apply", "commit"}
    BY <1>1, <1>5, <1>6, <1>7, <1>9 DEF PaymentsOK
  <2>3. \A r \in Payments : payment'[r].st = "voiding" => pc'[payment'[r].by] = "commit"
    BY <1>5, <1>6, <1>7, <1>9 DEF PaymentsOK
  <2>4. ASSUME NEW r \in Payments,
               \/ payment'[r].st \in {"live", "voiding"}
               \/ payment'[r].st = "open" /\ pc'[payment'[r].by] = "commit"
        PROVE  Whole(payment'[r].apps)
    <3>1. CASE r = p
      BY <1>2, <1>3, <1>5, <1>6, <3>1 DEF PaymentsOK
    <3>2. CASE r # p
      BY <1>6, <1>7, <1>9, <2>4, <3>2 DEF PaymentsOK
    <3> QED
      BY <3>1, <3>2
  <2> QED
    BY <2>1, <2>2, <2>3, <2>4 DEF PaymentsOK
<1>11. \A v \in Workers : RequestOK(v)'
  <2>1. \A v \in Workers \ {w} : RequestOK(v)'
    BY <1>2, <1>5, <1>6, <1>7, OthersOK
  <2>2. RequestOK(w)'
    BY <1>7 DEF RequestOK, Reading
  <2> QED
    BY <2>1, <2>2
<1>12. LocksOK' /\ DueOK'
  BY <1>2, <1>7 DEF LocksOK, DueOK
<1>13. ASSUME Exact PROVE Sharp'
  <2> USE <1>13 DEF Sharp
  <2>1. \A v \in Workers : Sound(v)' => Sound(v)
    BY <1>1, <1>2, <1>3, <1>5, <1>6, <1>7 DEF Sound, RequestOK
  <2>2. RowsOK'
    <3>1. ASSUME NEW j \in Invoices, lock'[j] \in Workers, Sound(lock[j])'
          PROVE  Agrees(draft'[j])
      <4>1. PICK u \in Workers : u = lock[j]
        BY <1>2, <3>1
      <4>2. Sound(u)'
        BY <1>2, <3>1, <4>1 DEF Sound
      <4> QED
        BY <1>2, <2>1, <4>1, <4>2 DEF RowsOK
    <3>2. \A j \in Invoices : Agrees(invoice'[j])
      BY <1>2 DEF RowsOK
    <3>3. \A j \in Invoices : draft'[j].status = "NONE" <=> invoice'[j].status = "NONE"
      BY <1>2 DEF RowsOK
    <3> QED
      BY <1>2, <3>1, <3>2, <3>3 DEF RowsOK
  <2>3. LivePayments' = LivePayments
    BY <1>2, <1>3, <1>5, <1>6 DEF LivePayments
  <2>4. \A j : \A r \in Payments : AppliesTo(r, j)' = AppliesTo(r, j)
    BY <1>5, <1>6 DEF AppliesTo
  <2>5. \A v \in Workers : ReadOK(v)'
    <3>1. ASSUME NEW v \in Workers \ {w} PROVE ReadOK(v)'
      <4>1. ReadOK(v) /\ pc'[v] = pc[v]
        BY <1>7
      <4>2. \A j : \A r \in LivePayments : AppliesTo(r, j)' = AppliesTo(r, j)
        BY <2>4 DEF LivePayments
      <4> QED
        BY <1>2, <2>3, <4>1, <4>2 DEF ReadOK
    <3>2. ReadOK(w)'
      BY <1>7 DEF ReadOK, Reading
    <3> QED
      BY <3>1, <3>2
  <2>6. AppsOK'
    <3>1. \A r \in LivePayments', j \in Invoices : AppliesTo(r, j)' =>
            invoice'[j].status \in Sent /\ draft'[j].status \in Sent
      BY <1>2, <2>3, <2>4 DEF AppsOK, LivePayments
    <3>2. \A r \in Payments, j \in Invoices : payment'[r].st = "open" /\ AppliesTo(r, j)' =>
            lock'[j] = payment'[r].by /\ draft'[j].status \in Sent
      BY <1>2, <1>5, <1>6, <2>4 DEF AppsOK
    <3>3. ASSUME NEW v \in Workers, pc'[v] = "unapply", payment'[req'[v].pay].st # "void",
                 NEW k \in 1..Len(req'[v].todo)
          PROVE  AppliesTo(req[v].pay, req[v].todo[k].inv)'
      <4>1. pc[v] = "unapply" /\ req'[v] = req[v]
        BY <1>7, <3>3
      <4>2. req[v].pay \in Payments /\ payment[req[v].pay].st # "void"
        BY <1>2, <1>5, <1>6, <3>3, <4>1 DEF RequestOK
      <4>3. AppliesTo(req[v].pay, req[v].todo[k].inv)
        BY <3>3, <4>1, <4>2 DEF AppsOK
      <4>4. payment'[req[v].pay].apps = payment[req[v].pay].apps
        BY <1>5, <1>6, <4>2
      <4> QED
        BY <4>1, <4>3, <4>4 DEF AppliesTo
    <3> QED
      BY <3>1, <3>2, <3>3 DEF AppsOK
  <2> QED
    BY <2>2, <2>5, <2>6
<1> QED
  BY <1>8, <1>10, <1>11, <1>12, <1>13

-----------------------------------------------------------------------------
(* A request ends.                                                         *)

\* What it has rewritten is the committed row again, what it was creating is
\* gone, and what it was voiding stands.
LEMMA RollbackInv ==
  ASSUME IInv, NEW w \in Workers, Rollback(w)
  PROVE  IInv'
<1> USE NullAssumption DEF IInv, Base
<1>1. /\ draft' = [i \in Invoices |-> IF i \in Held(w) THEN invoice[i] ELSE draft[i]]
      /\ lock' = [i \in Invoices |-> IF i \in Held(w) THEN NoWorker ELSE lock[i]]
      /\ payment' = [p \in Payments |->
           IF payment[p].by # w THEN payment[p]
           ELSE IF payment[p].st = "open" THEN FreePayment
           ELSE [payment[p] EXCEPT !.st = "live", !.by = NoWorker]]
      /\ Finish(w, {}) /\ UNCHANGED invoice
  BY DEF Rollback
<1>2. /\ pc' \in [Workers -> Steps] /\ req' \in [Workers -> Request] /\ pc'[w] = "idle"
      /\ \A v \in Workers \ {w} : Unmoved(v)
  BY <1>1, FinishFacts
<1>3. \A i \in Invoices :
        /\ lock[i] = w => draft'[i] = invoice[i] /\ lock'[i] = NoWorker
        /\ lock[i] # w => draft'[i] = draft[i] /\ lock'[i] = lock[i]
  BY <1>1 DEF Held
<1>4. ASSUME NEW p \in Payments
      PROVE  /\ payment[p].by # w => payment'[p] = payment[p]
             /\ payment[p].by = w /\ payment[p].st = "open" =>
                  payment'[p].st = "free" /\ payment'[p].by = NoWorker /\ payment'[p].apps = <<>>
             /\ payment[p].by = w /\ payment[p].st = "voiding" =>
                  /\ payment'[p].st = "live" /\ payment'[p].by = NoWorker
                  /\ payment'[p].apps = payment[p].apps
             /\ payment[p].by = w => payment[p].st \in {"open", "voiding"}
             /\ payment'[p] \in PaymentRow
  <2>1. payment[p] \in PaymentRow /\ (payment[p].by = w => payment[p].st \in {"open", "voiding"})
    BY DEF Types, PaymentsOK
  <2>2. CASE payment[p].by # w
    BY <1>1, <2>1, <2>2
  <2>3. CASE payment[p].by = w /\ payment[p].st = "open"
    <3>1. payment'[p] = FreePayment
      BY <1>1, <2>3
    <3> QED
      BY <2>3, <3>1, NewTypes DEF FreePayment
  <2>4. CASE payment[p].by = w /\ payment[p].st = "voiding"
    <3>1. payment'[p] = [payment[p] EXCEPT !.st = "live", !.by = NoWorker]
      BY <1>1, <2>4
    <3> QED
      BY <2>1, <2>4, <3>1 DEF PaymentRow, Owners
  <2> QED
    BY <2>1, <2>2, <2>3, <2>4
<1>5. Types'
  <2>1. draft' \in [Invoices -> Row] /\ lock' \in [Invoices -> Owners]
    BY <1>1 DEF Types, Owners
  <2>2. payment' \in [Payments -> PaymentRow]
    BY <1>1, <1>4
  <2> QED
    BY <1>1, <1>2, <2>1, <2>2 DEF Types
<1>6. PaymentsOK'
  <2>1. \A p \in Payments : payment'[p].by \in Workers <=> payment'[p].st \in {"open", "voiding"}
    BY <1>4 DEF PaymentsOK
  <2>2. \A p \in Payments : payment'[p].by \in Workers =>
          payment'[p] = payment[p] /\ payment[p].by \in Workers \ {w}
    BY <1>4
  <2>3. \A p \in Payments : payment'[p].by \in Workers =>
          req'[payment'[p].by].pay = p /\ pc'[payment'[p].by] \in {"apply", "commit"}
    BY <1>2, <2>2 DEF PaymentsOK, Unmoved
  <2>4. \A p \in Payments : payment'[p].st = "voiding" => pc'[payment'[p].by] = "commit"
    BY <1>2, <2>1, <2>2 DEF PaymentsOK, Unmoved
  <2>5. ASSUME NEW p \in Payments,
               \/ payment'[p].st \in {"live", "voiding"}
               \/ payment'[p].st = "open" /\ pc'[payment'[p].by] = "commit"
        PROVE  Whole(payment'[p].apps)
    <3>1. CASE payment[p].by = w
      BY <1>4, <2>5, <3>1 DEF PaymentsOK
    <3>2. CASE payment[p].by # w
      <4>1. payment'[p] = payment[p]
        BY <1>4, <3>2
      <4>2. payment[p].st = "open" => pc'[payment[p].by] = pc[payment[p].by]
        BY <1>2, <3>2 DEF PaymentsOK, Unmoved
      <4> QED
        BY <2>5, <4>1, <4>2 DEF PaymentsOK
    <3> QED
      BY <3>1, <3>2
  <2> QED
    BY <2>1, <2>3, <2>4, <2>5 DEF PaymentsOK
<1>7. \A v \in Workers : RequestOK(v)'
  <2>1. \A p \in Payments : payment[p].st = "open" /\ payment[p].by # w => payment'[p] = payment[p]
    BY <1>4
  <2>2. \A p \in Payments : payment[p].st \in {"live", "voiding", "void"} =>
          payment'[p].st \in {"live", "voiding", "void"}
    BY <1>4
  <2>3. \A v \in Workers \ {w} : RequestOK(v)'
    BY <1>2, <2>1, <2>2, OthersOK
  <2>4. RequestOK(w)'
    BY <1>2 DEF RequestOK, Reading
  <2> QED
    BY <2>3, <2>4
<1>8. LocksOK' /\ DueOK'
  <2>1. LocksOK'
    BY <1>1, <1>2, <1>3 DEF LocksOK, Unmoved
  <2> QED
    BY <1>1, <1>3, <2>1 DEF DueOK
<1>9. ASSUME Exact PROVE Sharp'
  <2> USE <1>9 DEF Sharp
  <2>1. \A v \in Workers \ {w} : Sound(v)' => Sound(v)
    BY <1>2, <1>4 DEF Sound, Unmoved, RequestOK
  <2>2. RowsOK'
    <3>1. ASSUME NEW j \in Invoices, lock'[j] \in Workers, Sound(lock[j])'
          PROVE  Agrees(draft'[j])
      <4>1. PICK u \in Workers \ {w} : u = lock'[j]
        BY <1>3, <3>1
      <4>2. Sound(u)'
        BY <3>1, <4>1 DEF Sound
      <4>3. lock[j] = u /\ draft'[j] = draft[j]
        BY <1>3, <4>1
      <4> QED
        BY <2>1, <4>1, <4>2, <4>3 DEF RowsOK
    <3>2. \A j \in Invoices : Agrees(invoice'[j])
      BY <1>1 DEF RowsOK
    <3>3. \A j \in Invoices : draft'[j].status = "NONE" <=> invoice'[j].status = "NONE"
      BY <1>1, <1>3 DEF RowsOK
    <3> QED
      BY <3>1, <3>2, <3>3 DEF RowsOK
  <2>3. LivePayments' = LivePayments
    BY <1>4 DEF LivePayments
  <2>4. \A p \in LivePayments : payment'[p].apps = payment[p].apps
    BY <1>4 DEF LivePayments
  <2>5. \A j : \A p \in LivePayments : AppliesTo(p, j)' = AppliesTo(p, j)
    BY <2>4 DEF AppliesTo
  <2>6. \A v \in Workers : ReadOK(v)'
    <3>1. ASSUME NEW v \in Workers \ {w} PROVE ReadOK(v)'
      <4>1. ReadOK(v) /\ Unmoved(v)
        BY <1>2
      <4> QED
        BY <1>1, <2>3, <2>5, <4>1 DEF ReadOK, Unmoved
    <3>2. ReadOK(w)'
      BY <1>2 DEF ReadOK, Reading
    <3> QED
      BY <3>1, <3>2
  <2>7. AppsOK'
    <3>1. \A p \in LivePayments', j \in Invoices : AppliesTo(p, j)' =>
            invoice'[j].status \in Sent /\ draft'[j].status \in Sent
      BY <1>1, <1>3, <2>3, <2>5 DEF AppsOK
    <3>2. ASSUME NEW p \in Payments, NEW j \in Invoices, payment'[p].st = "open", AppliesTo(p, j)'
          PROVE  lock'[j] = payment'[p].by /\ draft'[j].status \in Sent
      <4>1. payment[p].by # w /\ payment'[p] = payment[p]
        BY <1>4, <3>2
      <4>2. AppliesTo(p, j)
        BY <3>2, <4>1 DEF AppliesTo
      <4>3. lock[j] = payment[p].by /\ draft[j].status \in Sent
        BY <3>2, <4>1, <4>2 DEF AppsOK
      <4> QED
        BY <1>3, <4>1, <4>3
    <3>3. ASSUME NEW v \in Workers, pc'[v] = "unapply", payment'[req'[v].pay].st # "void",
                 NEW k \in 1..Len(req'[v].todo)
          PROVE  AppliesTo(req[v].pay, req[v].todo[k].inv)'
      <4>1. v # w /\ pc[v] = "unapply" /\ req'[v].pay = req[v].pay /\ req'[v].todo = req[v].todo
        BY <1>2, <3>3 DEF Unmoved
      <4>2. req[v].pay \in Payments /\ payment[req[v].pay].st \in {"live", "voiding"}
        BY <1>4, <3>3, <4>1 DEF RequestOK
      <4>3. AppliesTo(req[v].pay, req[v].todo[k].inv)
        BY <3>3, <4>1, <4>2 DEF AppsOK
      <4>4. payment'[req[v].pay].apps = payment[req[v].pay].apps
        BY <2>4, <4>2 DEF LivePayments
      <4> QED
        BY <4>1, <4>3, <4>4 DEF AppliesTo
    <3> QED
      BY <3>1, <3>2, <3>3 DEF AppsOK
  <2> QED
    BY <2>2, <2>6, <2>7
<1> QED
  BY <1>5, <1>6, <1>7, <1>8, <1>9

\* What it has rewritten is the committed row now, and whoever has read the one
\* before holds an old version.
LEMMA CommitInv ==
  ASSUME IInv, NEW w \in Workers, Commit(w)
  PROVE  IInv'
<1> USE NullAssumption DEF IInv, Base
<1>1. /\ pc[w] = "commit"
      /\ invoice' = [i \in Invoices |-> IF i \in Held(w) THEN draft[i] ELSE invoice[i]]
      /\ lock' = [i \in Invoices |-> IF i \in Held(w) THEN NoWorker ELSE lock[i]]
      /\ payment' = [p \in Payments |->
           IF payment[p].by # w THEN payment[p]
           ELSE IF payment[p].st = "open" THEN [payment[p] EXCEPT !.st = "live", !.by = NoWorker]
           ELSE [FreePayment EXCEPT !.st = "void"]]
      /\ Finish(w, Held(w)) /\ UNCHANGED draft
  BY DEF Commit
<1>2. /\ pc' \in [Workers -> Steps] /\ req' \in [Workers -> Request] /\ pc'[w] = "idle"
      /\ \A v \in Workers \ {w} : Unmoved(v)
      /\ \A v \in Workers \ {w} : req[v].versioned /\ ~req'[v].stale => req[v].inv \notin Held(w)
  BY <1>1, FinishFacts
<1>3. \A i \in Invoices :
        /\ lock[i] = w => invoice'[i] = draft[i] /\ lock'[i] = NoWorker
        /\ lock[i] # w => invoice'[i] = invoice[i] /\ lock'[i] = lock[i]
  BY <1>1 DEF Held
<1>4. ASSUME NEW p \in Payments
      PROVE  /\ payment[p].by # w => payment'[p] = payment[p]
             /\ payment[p].by = w /\ payment[p].st = "open" =>
                  /\ payment'[p].st = "live" /\ payment'[p].by = NoWorker
                  /\ payment'[p].apps = payment[p].apps
             /\ payment[p].by = w /\ payment[p].st = "voiding" =>
                  payment'[p].st = "void" /\ payment'[p].by = NoWorker
             /\ payment[p].by = w => payment[p].st \in {"open", "voiding"}
             /\ payment'[p] \in PaymentRow
  <2>1. payment[p] \in PaymentRow /\ (payment[p].by = w => payment[p].st \in {"open", "voiding"})
    BY DEF Types, PaymentsOK
  <2>2. CASE payment[p].by # w
    BY <1>1, <2>1, <2>2
  <2>3. CASE payment[p].by = w /\ payment[p].st = "open"
    <3>1. payment'[p] = [payment[p] EXCEPT !.st = "live", !.by = NoWorker]
      BY <1>1, <2>3
    <3> QED
      BY <2>1, <2>3, <3>1 DEF PaymentRow, Owners
  <2>4. CASE payment[p].by = w /\ payment[p].st = "voiding"
    <3>1. payment'[p] = [FreePayment EXCEPT !.st = "void"]
      BY <1>1, <2>4
    <3>2. \A q \in PaymentRow :
            LET r == [q EXCEPT !.st = "void"] IN r \in PaymentRow /\ r.st = "void" /\ r.by = q.by
      BY DEF PaymentRow
    <3>3. FreePayment.by = NoWorker
      BY DEF FreePayment
    <3> QED
      BY <2>4, <3>1, <3>2, <3>3, NewTypes
  <2> QED
    BY <2>1, <2>2, <2>3, <2>4
<1>5. Types'
  <2>1. invoice' \in [Invoices -> Row] /\ lock' \in [Invoices -> Owners]
    BY <1>1 DEF Types, Owners
  <2>2. payment' \in [Payments -> PaymentRow]
    BY <1>1, <1>4
  <2> QED
    BY <1>1, <1>2, <2>1, <2>2 DEF Types
<1>6. PaymentsOK'
  <2>1. \A p \in Payments : payment'[p].by \in Workers <=> payment'[p].st \in {"open", "voiding"}
    BY <1>4 DEF PaymentsOK
  <2>2. \A p \in Payments : payment'[p].by \in Workers =>
          payment'[p] = payment[p] /\ payment[p].by \in Workers \ {w}
    BY <1>4
  <2>3. \A p \in Payments : payment'[p].by \in Workers =>
          req'[payment'[p].by].pay = p /\ pc'[payment'[p].by] \in {"apply", "commit"}
    BY <1>2, <2>2 DEF PaymentsOK, Unmoved
  <2>4. \A p \in Payments : payment'[p].st = "voiding" => pc'[payment'[p].by] = "commit"
    BY <1>2, <2>1, <2>2 DEF PaymentsOK, Unmoved
  <2>5. ASSUME NEW p \in Payments,
               \/ payment'[p].st \in {"live", "voiding"}
               \/ payment'[p].st = "open" /\ pc'[payment'[p].by] = "commit"
        PROVE  Whole(payment'[p].apps)
    <3>1. CASE payment[p].by = w
      BY <1>1, <1>4, <2>5, <3>1 DEF PaymentsOK
    <3>2. CASE payment[p].by # w
      <4>1. payment'[p] = payment[p]
        BY <1>4, <3>2
      <4>2. payment[p].st = "open" => pc'[payment[p].by] = pc[payment[p].by]
        BY <1>2, <3>2 DEF PaymentsOK, Unmoved
      <4> QED
        BY <2>5, <4>1, <4>2 DEF PaymentsOK
    <3> QED
      BY <3>1, <3>2
  <2> QED
    BY <2>1, <2>3, <2>4, <2>5 DEF PaymentsOK
<1>7. \A v \in Workers : RequestOK(v)'
  <2>1. \A p \in Payments : payment[p].st = "open" /\ payment[p].by # w => payment'[p] = payment[p]
    BY <1>4
  <2>2. \A p \in Payments : payment[p].st \in {"live", "voiding", "void"} =>
          payment'[p].st \in {"live", "voiding", "void"}
    BY <1>4
  <2>3. \A v \in Workers \ {w} : RequestOK(v)'
    BY <1>2, <2>1, <2>2, OthersOK
  <2>4. RequestOK(w)'
    BY <1>2 DEF RequestOK, Reading
  <2> QED
    BY <2>3, <2>4
<1>8. LocksOK' /\ DueOK'
  <2>1. LocksOK'
    BY <1>1, <1>2, <1>3 DEF LocksOK, Unmoved
  <2> QED
    BY <1>1, <1>3, <2>1 DEF DueOK
<1>9. ASSUME Exact PROVE Sharp'
  <2> USE <1>9 DEF Sharp
  <2>1. \A v \in Workers \ {w} : Sound(v)' => Sound(v)
    BY <1>2, <1>4 DEF Sound, Unmoved, RequestOK
  <2>2. \A i \in Invoices : lock[i] = w => Agrees(draft[i])
    BY <1>1 DEF RowsOK, Sound
  <2>3. RowsOK'
    <3>1. ASSUME NEW j \in Invoices, lock'[j] \in Workers, Sound(lock[j])'
          PROVE  Agrees(draft'[j])
      <4>1. PICK u \in Workers \ {w} : u = lock'[j]
        BY <1>3, <3>1
      <4>2. Sound(u)'
        BY <3>1, <4>1 DEF Sound
      <4>3. lock[j] = u /\ draft'[j] = draft[j]
        BY <1>1, <1>3, <4>1
      <4> QED
        BY <2>1, <4>1, <4>2, <4>3 DEF RowsOK
    <3>2. \A j \in Invoices : Agrees(invoice'[j])
      BY <1>3, <2>2 DEF RowsOK
    <3>3. \A j \in Invoices : draft'[j].status = "NONE" <=> invoice'[j].status = "NONE"
      BY <1>1, <1>3 DEF RowsOK
    <3> QED
      BY <3>1, <3>2, <3>3 DEF RowsOK
  <2>4. ASSUME NEW p \in LivePayments'
        PROVE  /\ p \in Payments /\ payment'[p].apps = payment[p].apps
               /\ p \in LivePayments \/ (payment[p].st = "open" /\ payment[p].by = w)
    BY <1>4 DEF LivePayments
  <2>5. ASSUME NEW p \in LivePayments', NEW j \in Invoices, AppliesTo(p, j)'
        PROVE  /\ AppliesTo(p, j)
               /\ p \in LivePayments \/ lock[j] = w
               /\ draft[j].status \in Sent
    <3>1. AppliesTo(p, j)
      BY <2>4, <2>5 DEF AppliesTo
    <3> QED
      BY <2>4, <3>1 DEF AppsOK
  <2>6. \A v \in Workers : ReadOK(v)'
    <3>1. ASSUME NEW v \in Workers \ {w} PROVE ReadOK(v)'
      <4>1. ReadOK(v) /\ Unmoved(v) /\ RequestOK(v)
        BY <1>2
      <4> SUFFICES ASSUME pc'[v] \in Reading
                   PROVE  /\ req'[v].versioned /\ invoice'[req'[v].inv].status # "NONE"
                          /\ ~req'[v].stale => req'[v].seen = Seen(invoice'[req'[v].inv])
                          /\ pc'[v] # "count" => req'[v].seen.status \in Open
                          /\ pc'[v] = "status" => req'[v].status \in {"SENT", "OVERDUE"}
                          /\ pc'[v] = "cancel" /\ ~req'[v].stale =>
                               \A p \in LivePayments' : ~AppliesTo(p, req[v].inv)'
        BY <4>1 DEF ReadOK, Unmoved, Seen, AppliesTo
      <4>2. pc[v] \in Reading /\ req[v].inv \in Invoices /\ req'[v].inv = req[v].inv
        BY <4>1 DEF RequestOK, Unmoved
      <4>3. invoice'[req[v].inv].status # "NONE"
        BY <1>3, <4>1, <4>2 DEF ReadOK, RowsOK
      <4>4. ~req'[v].stale => lock[req[v].inv] # w /\ invoice'[req[v].inv] = invoice[req[v].inv]
        BY <1>2, <1>3, <4>1, <4>2 DEF ReadOK, Held
      <4>5. ASSUME pc'[v] = "cancel", ~req'[v].stale, NEW p \in LivePayments', AppliesTo(p, req[v].inv)'
            PROVE  FALSE
        <5>1. AppliesTo(p, req[v].inv) /\ p \in LivePayments
          <6>1. PICK j \in Invoices : j = req[v].inv
            BY <4>2
          <6>2. AppliesTo(p, j)'
            BY <4>2, <4>5, <6>1 DEF AppliesTo
          <6> QED
            BY <2>5, <4>4, <4>5, <6>1, <6>2
        <5> QED
          BY <4>1, <4>2, <4>5, <5>1 DEF ReadOK, Unmoved
      <4> QED
        BY <4>1, <4>2, <4>3, <4>4, <4>5 DEF ReadOK, Unmoved
    <3>2. ReadOK(w)'
      BY <1>2 DEF ReadOK, Reading
    <3> QED
      BY <3>1, <3>2
  <2>7. AppsOK'
    <3>1. ASSUME NEW p \in LivePayments', NEW j \in Invoices, AppliesTo(p, j)'
          PROVE  invoice'[j].status \in Sent /\ draft'[j].status \in Sent
      <4>1. AppliesTo(p, j) /\ (p \in LivePayments \/ lock[j] = w) /\ draft[j].status \in Sent
        BY <2>5, <3>1
      <4> QED
        BY <1>1, <1>3, <4>1 DEF AppsOK
    <3>2. ASSUME NEW p \in Payments, NEW j \in Invoices, payment'[p].st = "open", AppliesTo(p, j)'
          PROVE  lock'[j] = payment'[p].by /\ draft'[j].status \in Sent
      <4>1. payment[p].by # w /\ payment'[p] = payment[p]
        BY <1>4, <3>2
      <4>2. AppliesTo(p, j)
        BY <3>2, <4>1 DEF AppliesTo
      <4>3. lock[j] = payment[p].by /\ draft[j].status \in Sent
        BY <3>2, <4>1, <4>2 DEF AppsOK
      <4> QED
        BY <1>1, <1>3, <4>1, <4>3
    <3>3. ASSUME NEW v \in Workers, pc'[v] = "unapply", payment'[req'[v].pay].st # "void",
                 NEW k \in 1..Len(req'[v].todo)
          PROVE  AppliesTo(req[v].pay, req[v].todo[k].inv)'
      <4>1. v # w /\ pc[v] = "unapply" /\ req'[v].pay = req[v].pay /\ req'[v].todo = req[v].todo
        BY <1>2, <3>3 DEF Unmoved
      <4>2. req[v].pay \in Payments /\ payment[req[v].pay].st \in {"live", "voiding"}
        BY <1>4, <3>3, <4>1 DEF RequestOK
      <4>3. AppliesTo(req[v].pay, req[v].todo[k].inv)
        BY <3>3, <4>1, <4>2 DEF AppsOK
      <4>4. payment'[req[v].pay].apps = payment[req[v].pay].apps
        BY <1>4, <3>3, <4>1, <4>2
      <4> QED
        BY <4>1, <4>3, <4>4 DEF AppliesTo
    <3> QED
      BY <3>1, <3>2, <3>3 DEF AppsOK
  <2> QED
    BY <2>3, <2>6, <2>7
<1> QED
  BY <1>5, <1>6, <1>7, <1>8, <1>9

-----------------------------------------------------------------------------
(* The theorems.                                                           *)

\* Nothing changes but by a request's step.
LEMMA StutterInv == IInv /\ UNCHANGED vars => IInv'
BY DEF vars, IInv, Base, Sharp, Types, PaymentsOK, RequestOK, LocksOK, DueOK, RowsOK, ReadOK, AppsOK,
       Sound, LivePayments, AppliesTo

LEMMA NextInv == IInv /\ [Next]_vars => IInv'
<1> SUFFICES ASSUME IInv, [Next]_vars PROVE IInv'
  OBVIOUS
<1>1. CASE UNCHANGED vars
  BY <1>1, StutterInv
<1>2. ASSUME NEW w \in Workers, Begin(w) PROVE IInv'
  BY <1>2, CreateInvoiceInv, UpdateInvoiceInv, ReadsInv, BeginPaymentInv, LoadForVoidInv DEF Begin
<1>3. ASSUME NEW w \in Workers, Step(w) PROVE IInv'
  <2>1. CASE Rollback(w)
    BY <2>1, RollbackInv
  <2>2. CASE UpdateInvoiceStatus(w) \/ CountApplications(w) \/ CheckInvoice(w) \/ InsertPayment(w)
    BY <2>2, UpdateInvoiceStatusInv, CountApplicationsInv, CheckInvoiceInv, InsertPaymentInv
  <2>3. CASE ~Rollback(w) /\ (CancelInvoice(w) \/ UpdateInvoiceLineItems(w))
    BY <2>3, CancelInvoiceInv, UpdateInvoiceLineItemsInv
  <2>4. CASE ~Rollback(w) /\ (ApplyPaymentToInvoice(w) \/ SoftDeletePayment(w))
    BY <2>4, ApplyPaymentToInvoiceInv, SoftDeletePaymentInv
  <2>5. CASE UnapplyPaymentFromInvoice(w) \/ Commit(w)
    BY <2>5, UnapplyPaymentFromInvoiceInv, CommitInv
  <2>6. BreakDeadlock(w) => Rollback(w)
    BY DEF BreakDeadlock
  <2> QED
    BY <1>3, <2>1, <2>2, <2>3, <2>4, <2>5, <2>6 DEF Step
<1>4. ASSUME NEW w \in Workers, Abort(w) PROVE IInv'
  BY <1>4, RollbackInv DEF Abort
<1> QED
  BY <1>1, <1>2, <1>3, <1>4 DEF Next

LEMMA InvHolds == Spec => []IInv
BY InitInv, NextInv, PTL DEF Spec

\* balance_due never goes below zero, whatever requests do in between another's
\* check and its write, with and without versions, in cents and below them.
THEOREM DueNeverNegativeHolds == Spec => []DueNeverNegative
<1>1. IInv => DueNeverNegative
  BY DEF IInv, Base, DueOK, DueNeverNegative
<1> QED
  BY <1>1, InvHolds, PTL

\* A payment stands with every application it was created with, whatever is
\* voided, refused or rolled back next to it.
THEOREM PaymentWholeHolds == Spec => []PaymentWhole
<1>1. IInv => PaymentWhole
  BY DEF IInv, Base, PaymentsOK, LivePayments, Whole, PaymentWhole
<1> QED
  BY <1>1, InvHolds, PTL

\* With versions and whole cents the posting is what the document says is owed
\* and has been paid: a re-posting never counts a payment twice or not at all.
THEOREM LedgerAgreesHolds ==
  ASSUME Exact
  PROVE  Spec => []LedgerAgrees
<1>1. IInv => LedgerAgrees
  BY DEF IInv, Sharp, RowsOK, Agrees, LedgerAgrees
<1> QED
  BY <1>1, InvHolds, PTL

\* With versions a cancelled invoice's reversal mirrors its posting, and its
\* total is the one of its lines.
THEOREM CancelledFrozenHolds ==
  ASSUME Exact
  PROVE  Spec => []CancelledFrozen
<1>1. IInv => CancelledFrozen
  BY DEF IInv, Sharp, RowsOK, Agrees, CancelledFrozen
<1> QED
  BY <1>1, InvHolds, PTL

\* With versions and whole cents PAID means paid in full.
THEOREM PaidIsSettledHolds ==
  ASSUME Exact
  PROVE  Spec => []PaidIsSettled
<1>1. IInv => PaidIsSettled
  <2> SUFFICES ASSUME IInv, NEW i \in Invoices, invoice[i].status = "PAID"
               PROVE  invoice[i].due = 0 /\ invoice[i].paid = invoice[i].total
    BY DEF PaidIsSettled
  <2>1. Agrees(invoice[i]) /\ invoice[i] \in Row
    BY DEF IInv, Base, Types, Sharp, RowsOK
  <2> QED
    BY <2>1 DEF Agrees, Row
<1> QED
  BY <1>1, InvHolds, PTL

\* With versions a payment that stands is only ever on invoices that have been
\* sent: none is on a draft, which a void would make SENT, and none on a
\* cancelled one, whatever races the count of its applications.
THEOREM PaymentsAreOnSentInvoices ==
  ASSUME Exact
  PROVE  Spec => [](\A p \in LivePayments, i \in Invoices :
                      AppliesTo(p, i) => invoice[i].status \in {"SENT", "OVERDUE", "PAID"})
<1>1. IInv => \A p \in LivePayments, i \in Invoices :
                AppliesTo(p, i) => invoice[i].status \in {"SENT", "OVERDUE", "PAID"}
  BY DEF IInv, Sharp, AppsOK, Sent
<1> QED
  BY <1>1, InvHolds, PTL

-----------------------------------------------------------------------------
(* What applications add up to.                                            *)

\* A sequence of applications has one to the invoice.
Uses(apps, i) == \E k \in DOMAIN apps : apps[k].inv = i

\* It has at most one to each.
Distinct(apps) == \A k, l \in DOMAIN apps : apps[k].inv = apps[l].inv => k = l

\* What each application in it gives the invoice.
Parts(apps, i) == [k \in DOMAIN apps |-> IF apps[k].inv = i THEN apps[k].amt ELSE 0]

\* AmountFor is the sum of these parts.
LEMMA AmountIsSum ==
  ASSUME NEW apps \in Seq(App), NEW i
  PROVE  /\ AmountFor(apps, i) = SumOver(Parts(apps, i), DOMAIN apps)
         /\ IsFiniteSet(DOMAIN apps) /\ DOMAIN apps = 1..Len(apps)
         /\ \A k \in DOMAIN apps : apps[k] \in App /\ Parts(apps, i)[k] \in Nat
<1>1. AmountFor(apps, i) = SumOver(Parts(apps, i), DOMAIN apps)
  BY DEF AmountFor, SumOver, Parts, MapThenSumSet, MapThenFoldSet
<1>2. DOMAIN apps = 1..Len(apps) /\ Len(apps) \in Nat
  OBVIOUS
<1>3. IsFiniteSet(DOMAIN apps)
  BY <1>2, FS_Interval
<1>4. ASSUME NEW k \in DOMAIN apps PROVE apps[k] \in App /\ Parts(apps, i)[k] \in Nat
  <2>1. apps[k] \in App
    BY <1>2
  <2> QED
    BY <2>1 DEF Parts, App
<1> QED
  BY <1>1, <1>2, <1>3, <1>4

\* What is given is an amount, nothing to an invoice that is not there.
LEMMA AmountForType ==
  ASSUME NEW apps \in Seq(App), NEW i
  PROVE  /\ AmountFor(apps, i) \in Nat
         /\ ~Uses(apps, i) => AmountFor(apps, i) = 0
<1> DEFINE f == Parts(apps, i)
<1>1. /\ AmountFor(apps, i) = SumOver(f, DOMAIN apps) /\ IsFiniteSet(DOMAIN apps)
      /\ \A k \in DOMAIN apps : f[k] \in Nat
  BY AmountIsSum
<1>2. ~Uses(apps, i) => \A k \in DOMAIN apps : f[k] = 0
  BY DEF Uses, Parts
<1> HIDE DEF f
<1> QED
  BY <1>1, <1>2, SumNat, SumZero

\* The only application to an invoice gives all it is given.
LEMMA AmountForOnly ==
  ASSUME NEW apps \in Seq(App), Distinct(apps), NEW k \in DOMAIN apps
  PROVE  AmountFor(apps, apps[k].inv) = apps[k].amt
<1> DEFINE i == apps[k].inv
           f == Parts(apps, i)
<1>1. /\ AmountFor(apps, i) = SumOver(f, DOMAIN apps) /\ IsFiniteSet(DOMAIN apps)
      /\ f[k] \in Nat
  BY AmountIsSum
<1>2. f[k] = apps[k].amt /\ \A l \in DOMAIN apps \ {k} : f[l] = 0
  BY DEF Parts, Distinct
<1>3. f[k] \in Int
  BY <1>1
<1> HIDE DEF f, i
<1>4. SumOver(f, DOMAIN apps) = f[k]
  BY <1>1, <1>2, <1>3, SumOnly
<1> QED
  BY <1>1, <1>2, <1>4 DEF i

\* The next application adds its amount.
LEMMA AmountForAppend ==
  ASSUME NEW apps \in Seq(App), Distinct(apps), NEW app \in App, ~Uses(apps, app.inv), NEW i
  PROVE  LET new == Append(apps, app) IN
         /\ new \in Seq(App) /\ Distinct(new)
         /\ Uses(new, i) <=> Uses(apps, i) \/ i = app.inv
         /\ AmountFor(new, i) = AmountFor(apps, i) + (IF app.inv = i THEN app.amt ELSE 0)
<1> DEFINE new == Append(apps, app)
           n == Len(apps)
           f == Parts(apps, i)
           g == Parts(new, i)
<1>1. /\ n \in Nat /\ new \in Seq(App) /\ Len(new) = n + 1 /\ new[n + 1] = app
      /\ \A k \in 1..n : new[k] = apps[k]
  OBVIOUS
<1>2. /\ AmountFor(apps, i) = SumOver(f, DOMAIN apps) /\ IsFiniteSet(DOMAIN apps)
      /\ DOMAIN apps = 1..n /\ \A k \in DOMAIN apps : f[k] \in Nat
  BY AmountIsSum
<1>3. /\ AmountFor(new, i) = SumOver(g, DOMAIN new)
      /\ DOMAIN new = 1..Len(new) /\ \A k \in DOMAIN new : g[k] \in Nat
  BY <1>1, AmountIsSum
<1>4. DOMAIN new = DOMAIN apps \union {n + 1} /\ n + 1 \notin DOMAIN apps
  BY <1>1, <1>2, <1>3
<1>5. g[n + 1] = (IF app.inv = i THEN app.amt ELSE 0) /\ \A k \in DOMAIN apps : g[k] = f[k]
  BY <1>1, <1>2, <1>4 DEF Parts
<1>6. Uses(new, i) <=> Uses(apps, i) \/ i = app.inv
  BY <1>1, <1>2, <1>4 DEF Uses
<1>7. Distinct(new)
  BY <1>1, <1>2, <1>4 DEF Distinct, Uses
<1> HIDE DEF new, n, f, g
<1>0. /\ n + 1 \in DOMAIN new /\ \A k \in DOMAIN apps : k \in DOMAIN new
      /\ \A k \in Nat : k \in Int
  BY <1>4
<1>20. /\ g[n + 1] \in Int /\ \A k \in DOMAIN apps : g[k] \in Int
       /\ \A k \in DOMAIN apps : f[k] \in Int
  BY <1>2, <1>3, <1>0
<1>8. SumOver(g, DOMAIN apps \union {n + 1}) = g[n + 1] + SumOver(g, DOMAIN apps)
  BY <1>2, <1>4, <1>20, SumOneMore
<1>9. SumOver(g, DOMAIN apps) = SumOver(f, DOMAIN apps)
  BY <1>2, <1>5, SumSame
<1>10. PICK s \in Int : s = SumOver(f, DOMAIN apps)
  BY <1>2, <1>20, SumType
<1>11. PICK x \in Int : x = g[n + 1]
  BY <1>20
<1>12. AmountFor(new, i) = AmountFor(apps, i) + g[n + 1]
  BY <1>2, <1>3, <1>4, <1>8, <1>9, <1>10, <1>11
<1> QED
  BY <1>1, <1>5, <1>6, <1>7, <1>12 DEF new

\* What is paid is a whole number of cents, so that rounding the sum rounds
\* what is added to it.
LEMMA StoredAdds ==
  ASSUME NEW paid \in Nat, NEW amt \in Nat
  PROVE  Stored(CentParts * paid + amt, CentParts) = paid + Stored(amt, CentParts)
<1> USE PlansAssumption
<1>1. PICK d \in Nat \ {0} : d = 2 * CentParts
  OBVIOUS
<1>2. PICK x \in Nat : x = 2 * amt + CentParts
  OBVIOUS
<1>3. CentParts * paid \in Nat /\ CentParts * paid + amt >= 0
  OBVIOUS
<1>4. 2 * (CentParts * paid + amt) + CentParts = d * paid + x
  BY <1>1, <1>2
<1>5. (d * paid + x) \div d = paid + (x \div d)
  <2>1. PICK q \in Nat : q = x \div d /\ d * q <= x /\ x < d * q + d
    OBVIOUS
  <2>2. d * (paid + q) = d * paid + d * q
    OBVIOUS
  <2>3. PICK y \in Nat, r \in Nat : y = d * paid + x /\ r = paid + q
    OBVIOUS
  <2>4. d * r <= y /\ y < d * r + d
    BY <2>1, <2>2, <2>3
  <2>5. y \div d = r
    BY <2>4
  <2> QED
    BY <2>1, <2>3, <2>5
<1> QED
  BY <1>1, <1>2, <1>3, <1>4, <1>5 DEF Stored

-----------------------------------------------------------------------------
(***************************************************************************)
(* What is paid is what is applied.  A row that a request has rewritten    *)
(* differs from the committed one by what the request's own payment gives  *)
(* it, or by what its void has taken back so far; the locks of all the     *)
(* rows concerned are the request's until it commits both at once.         *)
(***************************************************************************)
Begun(row) == row.status \notin {"NONE", "DRAFT"}

\* What w's transaction has added to the amount paid on invoice i.
PaidBy(w, i) ==
  LET p == req[w].pay IN
  IF p = NoPayment THEN 0
  ELSE IF payment[p].st = "open" THEN AmountFor(payment[p].apps, i)
  ELSE IF pc[w] = "unapply" /\ Uses(req[w].todo, i) THEN 0
  ELSE -AmountFor(payment[p].apps, i)

\* What a void has yet to unapply is the rest of its payment's applications.
Rest(todo, apps) ==
  /\ Len(todo) <= Len(apps)
  /\ \A k \in 1..Len(todo) : todo[k] = apps[Len(apps) - Len(todo) + k]

RowsPaid ==
  /\ \A i \in Invoices : invoice[i].paid = AppliedTo(i)
  /\ \A i \in Invoices : lock[i] \in Workers =>
       invoice[i].status # "NONE" /\ draft[i].status # "NONE"
  /\ \A i \in Invoices : Begun(invoice[i]) => Begun(draft[i])

AppsPaid ==
  /\ \A p \in Payments, i \in Invoices : AppliesTo(p, i) =>
       /\ payment[p].st \in {"open", "live", "voiding"}
       /\ Begun(draft[i])
       /\ payment[p].st # "open" => Begun(invoice[i])
       /\ payment[p].by \in Workers => lock[i] = payment[p].by
  /\ \A p \in Payments : Distinct(payment[p].apps)

RequestPaid(w) ==
  /\ pc[w] \in Reading => invoice[req[w].inv].status # "NONE" /\ req[w].pay = NoPayment
  /\ pc[w] = "status" => req[w].status \in {"SENT", "OVERDUE"}
  /\ pc[w] = "unapply" => \A i \in Invoices : Uses(req[w].todo, i) => Begun(invoice[i])
  /\ pc[w] = "unapply" /\ Sound(w) =>
       /\ Rest(req[w].todo, payment[req[w].pay].apps)
       /\ \A i \in Invoices : AppliesTo(req[w].pay, i) /\ ~Uses(req[w].todo, i) => lock[i] = w
  /\ pc[w] = "commit" =>
       req[w].pay = NoPayment \/ (req[w].pay \in Payments /\ payment[req[w].pay].by = w)

HeldPaid(w) ==
  \A i \in Invoices : lock[i] = w /\ Sound(w) =>
    draft[i].paid = invoice[i].paid + PaidBy(w, i)

PaidInv == RowsPaid /\ AppsPaid /\ \A w \in Workers : RequestPaid(w) /\ HeldPaid(w)

\* The applications of a payment, before a step and after it.
LEMMA AppsType ==
  ASSUME Types
  PROVE  \A p \in Payments : payment[p].apps \in Seq(App)
BY DEF Types, PaymentRow

\* What is applied to an invoice is the sum over the payments that stand.
LEMMA AppliedIs ==
  ASSUME NEW i
  PROVE  /\ AppliedTo(i) = SumOver([p \in Payments |-> AmountFor(payment[p].apps, i)], LivePayments)
         /\ AppliedTo(i)' = SumOver([p \in Payments |-> AmountFor(payment'[p].apps, i)], LivePayments')
         /\ LivePayments \subseteq Payments /\ LivePayments' \subseteq Payments
         /\ IsFiniteSet(LivePayments) /\ IsFiniteSet(LivePayments')
<1>1. LivePayments \subseteq Payments /\ LivePayments' \subseteq Payments
  BY DEF LivePayments
<1>2. AppliedTo(i) = SumOver([p \in Payments |-> AmountFor(payment[p].apps, i)], LivePayments)
  BY <1>1 DEF AppliedTo, SumOver, MapThenSumSet, MapThenFoldSet
<1>3. AppliedTo(i)' = SumOver([p \in Payments |-> AmountFor(payment'[p].apps, i)], LivePayments')
  BY <1>1 DEF AppliedTo, SumOver, MapThenSumSet, MapThenFoldSet
<1>4. IsFiniteSet(LivePayments) /\ IsFiniteSet(LivePayments')
  BY <1>1, FiniteAssumption, FS_Subset
<1> QED
  BY <1>1, <1>2, <1>3, <1>4

\* It is an amount, and nothing when no payment that stands has the invoice.
LEMMA AppliedType ==
  ASSUME Types, NEW i
  PROVE  /\ AppliedTo(i) \in Nat
         /\ (\A p \in LivePayments : ~AppliesTo(p, i)) => AppliedTo(i) = 0
<1> DEFINE f == [p \in Payments |-> AmountFor(payment[p].apps, i)]
<1>1. AppliedTo(i) = SumOver(f, LivePayments) /\ IsFiniteSet(LivePayments)
  BY AppliedIs
<1>2. ASSUME NEW p \in LivePayments
      PROVE  f[p] \in Nat /\ (~AppliesTo(p, i) => f[p] = 0)
  <2>1. p \in Payments
    BY DEF LivePayments
  <2> QED
    BY <2>1, AppsType, AmountForType DEF AppliesTo, Uses
<1> HIDE DEF f
<1>3. SumOver(f, LivePayments) \in Nat
  BY <1>1, <1>2, SumNat
<1>4. ASSUME \A p \in LivePayments : ~AppliesTo(p, i) PROVE SumOver(f, LivePayments) = 0
  BY <1>1, <1>2, <1>4, SumZero
<1> QED
  BY <1>1, <1>3, <1>4

\* It stays so while the same payments stand ...
LEMMA AppliedKept ==
  ASSUME NEW i, LivePayments' = LivePayments,
         \A p \in LivePayments : payment'[p].apps = payment[p].apps
  PROVE  AppliedTo(i)' = AppliedTo(i)
<1> DEFINE f == [p \in Payments |-> AmountFor(payment[p].apps, i)]
           g == [p \in Payments |-> AmountFor(payment'[p].apps, i)]
<1>1. /\ AppliedTo(i) = SumOver(f, LivePayments) /\ IsFiniteSet(LivePayments)
      /\ AppliedTo(i)' = SumOver(g, LivePayments)
  BY AppliedIs
<1>2. \A p \in LivePayments : g[p] = f[p]
  BY DEF LivePayments
<1> HIDE DEF f, g
<1> QED
  BY <1>1, <1>2, SumSame

\* ... grows by what a new payment gives ...
LEMMA AppliedMore ==
  ASSUME Types, NEW i, NEW n \in Payments \ LivePayments, LivePayments' = LivePayments \union {n},
         \A p \in LivePayments \union {n} : payment'[p].apps = payment[p].apps
  PROVE  AppliedTo(i)' = AppliedTo(i) + AmountFor(payment[n].apps, i)
<1> DEFINE f == [p \in Payments |-> AmountFor(payment[p].apps, i)]
           g == [p \in Payments |-> AmountFor(payment'[p].apps, i)]
<1>1. /\ AppliedTo(i) = SumOver(f, LivePayments) /\ IsFiniteSet(LivePayments)
      /\ AppliedTo(i)' = SumOver(g, LivePayments \union {n}) /\ LivePayments \subseteq Payments
      /\ IsFiniteSet(LivePayments \union {n})
  BY AppliedIs
<1>2. \A p \in LivePayments \union {n} : g[p] = f[p]
  BY <1>1
<1>3. f[n] = AmountFor(payment[n].apps, i) /\ \A p \in Payments : f[p] \in Nat
  BY AppsType, AmountForType
<1> HIDE DEF f, g
<1>4. SumOver(g, LivePayments \union {n}) = SumOver(f, LivePayments \union {n})
  BY <1>1, <1>2, SumSame
<1>5. f[n] \in Int /\ \A p \in LivePayments : f[p] \in Int
  BY <1>1, <1>3
<1>6. SumOver(f, LivePayments \union {n}) = f[n] + SumOver(f, LivePayments)
  BY <1>1, <1>5, SumOneMore
<1>7. PICK s \in Int : s = SumOver(f, LivePayments)
  BY <1>1, <1>5, SumType
<1> QED
  BY <1>1, <1>3, <1>4, <1>5, <1>6, <1>7

\* ... and shrinks by what a voided one gave.
LEMMA AppliedLess ==
  ASSUME Types, NEW i, NEW n \in LivePayments, LivePayments' = LivePayments \ {n},
         \A p \in LivePayments \ {n} : payment'[p].apps = payment[p].apps
  PROVE  AppliedTo(i)' = AppliedTo(i) - AmountFor(payment[n].apps, i)
<1> DEFINE f == [p \in Payments |-> AmountFor(payment[p].apps, i)]
           g == [p \in Payments |-> AmountFor(payment'[p].apps, i)]
<1>1. /\ AppliedTo(i) = SumOver(f, LivePayments) /\ IsFiniteSet(LivePayments)
      /\ AppliedTo(i)' = SumOver(g, LivePayments \ {n}) /\ LivePayments \subseteq Payments
      /\ IsFiniteSet(LivePayments \ {n})
  BY AppliedIs
<1>2. \A p \in LivePayments \ {n} : g[p] = f[p]
  BY <1>1
<1>3. f[n] = AmountFor(payment[n].apps, i) /\ \A p \in Payments : f[p] \in Nat
  BY <1>1, AppsType, AmountForType
<1> HIDE DEF f, g
<1>4. SumOver(g, LivePayments \ {n}) = SumOver(f, LivePayments \ {n})
  BY <1>1, <1>2, SumSame
<1>5. f[n] \in Int /\ \A p \in LivePayments : f[p] \in Int
  BY <1>1, <1>3
<1>6. SumOver(f, LivePayments) = f[n] + SumOver(f, LivePayments \ {n})
  BY <1>1, <1>5, SumTakeOut
<1>7. PICK s \in Int : s = SumOver(f, LivePayments \ {n})
  <2>1. \A p \in LivePayments \ {n} : f[p] \in Int
    BY <1>5
  <2> QED
    BY <1>1, <2>1, SumType
<1> QED
  BY <1>1, <1>3, <1>4, <1>5, <1>6, <1>7

\* Nothing has been paid or applied.
LEMMA InitPaid == Init => PaidInv
<1> SUFFICES ASSUME Init PROVE PaidInv
  OBVIOUS
<1> USE NullAssumption DEF Init
<1>1. \A p \in Payments : payment[p].apps = <<>> /\ payment[p].st = "free" /\ payment[p].by = NoWorker
  BY DEF FreePayment
<1>2. \A i : \A p \in Payments : ~AppliesTo(p, i)
  BY <1>1 DEF AppliesTo
<1>3. Types /\ LivePayments = {}
  BY <1>1, InitInv DEF IInv, Base, LivePayments
<1>4. \A i \in Invoices : invoice[i].paid = 0
  BY DEF NoRow
<1>5. \A i \in Invoices : AppliedTo(i) = 0
  BY <1>3, AppliedType
<1>6. RowsPaid
  BY <1>4, <1>5 DEF RowsPaid
<1>7. AppsPaid
  BY <1>1, <1>2 DEF AppsPaid, Distinct
<1>8. \A w \in Workers : RequestPaid(w) /\ HeldPaid(w)
  BY DEF RequestPaid, HeldPaid, Reading
<1> QED
  BY <1>6, <1>7, <1>8 DEF PaidInv

\* The payment a request in flight is about.
LEMMA OwnPayment ==
  ASSUME IInv, PaidInv, NEW v \in Workers, pc[v] \in {"apply", "unapply", "commit"}
  PROVE  \/ pc[v] = "commit" /\ req[v].pay = NoPayment
         \/ pc[v] = "apply" /\ req[v].pay \in Payments
              /\ payment[req[v].pay].by = v /\ payment[req[v].pay].st = "open"
         \/ pc[v] = "commit" /\ req[v].pay \in Payments
              /\ payment[req[v].pay].by = v /\ payment[req[v].pay].st \in {"open", "voiding"}
         \/ pc[v] = "unapply" /\ req[v].pay \in Payments
              /\ payment[req[v].pay].st \in {"live", "voiding", "void"}
<1>1. RequestOK(v) /\ RequestPaid(v) /\ PaymentsOK
  BY DEF IInv, Base, PaidInv
<1> QED
  BY <1>1 DEF RequestOK, RequestPaid, PaymentsOK

\* What w does to no payment and no row of theirs is nothing to the others.
LEMMA OthersPaid ==
  ASSUME IInv, PaidInv, NEW w \in Workers, \A v \in Workers \ {w} : Unmoved(v),
         \A p \in Payments : payment[p].by \in Workers \ {w} => payment'[p] = payment[p],
         \A p \in Payments : payment[p].st \in {"live", "voiding"} =>
           payment'[p].st = "void" \/ (payment'[p].st \in {"live", "voiding"}
                                         /\ payment'[p].apps = payment[p].apps),
         \A p \in Payments : payment[p].st = "void" => payment'[p].st = "void",
         \A i \in Invoices : \A v \in Workers \ {w} :
           (lock'[i] = v <=> lock[i] = v)
             /\ (lock[i] = v => draft'[i] = draft[i] /\ invoice'[i] = invoice[i]),
         \A i \in Invoices : /\ invoice[i].status # "NONE" => invoice'[i].status # "NONE"
                             /\ Begun(invoice[i]) => Begun(invoice'[i])
  PROVE  \A v \in Workers \ {w} : RequestPaid(v)' /\ HeldPaid(v)'
<1> SUFFICES ASSUME NEW v \in Workers \ {w} PROVE RequestPaid(v)' /\ HeldPaid(v)'
  OBVIOUS
<1>1. RequestPaid(v) /\ HeldPaid(v) /\ RequestOK(v) /\ Unmoved(v) /\ PaymentsOK /\ LocksOK
  BY DEF PaidInv, IInv, Base
<1>2. /\ pc'[v] = pc[v] /\ req'[v].inv = req[v].inv /\ req'[v].pay = req[v].pay
      /\ req'[v].status = req[v].status /\ req'[v].todo = req[v].todo
  BY <1>1 DEF Unmoved
<1>3. pc[v] \in Reading => req[v].inv \in Invoices
  BY <1>1 DEF RequestOK
<1>4. \/ pc[v] \notin {"apply", "unapply", "commit"}
      \/ pc[v] = "commit" /\ req[v].pay = NoPayment
      \/ pc[v] \in {"apply", "commit"} /\ req[v].pay \in Payments
           /\ payment'[req[v].pay] = payment[req[v].pay] /\ payment[req[v].pay].by = v
      \/ pc[v] = "unapply" /\ req[v].pay \in Payments
           /\ payment[req[v].pay].st \in {"live", "voiding", "void"}
  BY OwnPayment
<1>5. ASSUME pc[v] = "unapply", Sound(v)'
      PROVE  /\ Sound(v) /\ payment'[req[v].pay].apps = payment[req[v].pay].apps
             /\ payment'[req[v].pay].st \in {"live", "voiding"}
             /\ payment[req[v].pay].st \in {"live", "voiding"}
             /\ req[v].pay \in Payments
  BY <1>2, <1>4, <1>5 DEF Sound
<1>6. RequestPaid(v)'
  <2>1. pc'[v] \in Reading => invoice'[req'[v].inv].status # "NONE" /\ req'[v].pay = NoPayment
    BY <1>1, <1>2, <1>3 DEF RequestPaid
  <2>2. pc'[v] = "status" => req'[v].status \in {"SENT", "OVERDUE"}
    BY <1>1, <1>2 DEF RequestPaid
  <2>3. pc'[v] = "unapply" => \A i \in Invoices : Uses(req'[v].todo, i) => Begun(invoice'[i])
    BY <1>1, <1>2 DEF RequestPaid
  <2>4. ASSUME pc'[v] = "unapply", Sound(v)'
        PROVE  /\ Rest(req'[v].todo, payment'[req'[v].pay].apps)
               /\ \A i \in Invoices : AppliesTo(req[v].pay, i)' /\ ~Uses(req'[v].todo, i) => lock'[i] = v
    <3>1. \A i \in Invoices : AppliesTo(req[v].pay, i)' <=> AppliesTo(req[v].pay, i)
      BY <1>2, <1>5, <2>4 DEF AppliesTo
    <3> QED
      BY <1>1, <1>2, <1>5, <2>4, <3>1 DEF RequestPaid
  <2>5. pc'[v] = "commit" =>
          req'[v].pay = NoPayment \/ (req'[v].pay \in Payments /\ payment'[req'[v].pay].by = v)
    BY <1>2, <1>4
  <2> QED
    BY <2>1, <2>2, <2>3, <2>4, <2>5 DEF RequestPaid
<1>7. HeldPaid(v)'
  <2> SUFFICES ASSUME NEW i \in Invoices, lock'[i] = v, Sound(v)'
               PROVE  draft'[i].paid = invoice'[i].paid + PaidBy(v, i)'
    BY DEF HeldPaid
  <2>1. lock[i] = v /\ draft'[i] = draft[i] /\ invoice'[i] = invoice[i]
    OBVIOUS
  <2>2. pc[v] \in {"apply", "unapply", "commit"}
    BY <1>1, <2>1 DEF LocksOK
  <2>3. Sound(v)
    BY <1>5 DEF Sound
  <2>4. PaidBy(v, i)' = PaidBy(v, i)
    <3>1. CASE req[v].pay = NoPayment
      BY <1>2, <3>1 DEF PaidBy
    <3>2. CASE pc[v] \in {"apply", "commit"} /\ req[v].pay \in Payments
      BY <1>2, <1>4, <2>2, <3>2, NullAssumption DEF PaidBy
    <3>3. CASE pc[v] = "unapply"
      BY <1>2, <1>5, <3>3 DEF PaidBy
    <3> QED
      BY <1>4, <2>2, <3>1, <3>2, <3>3
  <2>5. draft[i].paid = invoice[i].paid + PaidBy(v, i)
    BY <1>1, <2>1, <2>3 DEF HeldPaid
  <2> QED
    BY <2>1, <2>4, <2>5
<1> QED
  BY <1>6, <1>7

\* A request that holds nothing and writes nothing.
LEMMA MovesPaid ==
  ASSUME IInv, PaidInv, NEW w \in Workers, pc[w] \notin {"apply", "unapply", "commit"},
         UNCHANGED <<invoice, draft, lock, payment>>, \A v \in Workers \ {w} : Unmoved(v),
         RequestPaid(w)'
  PROVE  PaidInv'
<1>1. \A v \in Workers \ {w} : RequestPaid(v)' /\ HeldPaid(v)'
  BY OthersPaid
<1>2. HeldPaid(w)'
  <2>1. \A i \in Invoices : lock[i] # w
    BY DEF IInv, Base, LocksOK
  <2> QED
    BY <2>1 DEF HeldPaid
<1>3. \A i : AppliedTo(i)' = AppliedTo(i)
  BY AppliedKept DEF LivePayments
<1>4. RowsPaid'
  BY <1>3 DEF PaidInv, RowsPaid
<1>5. AppsPaid'
  BY DEF PaidInv, AppsPaid, AppliesTo
<1> QED
  BY <1>1, <1>2, <1>4, <1>5 DEF PaidInv

\* It ends.
LEMMA FinishPaid ==
  ASSUME IInv, PaidInv, NEW w \in Workers, NEW written, Finish(w, written),
         pc[w] \notin {"apply", "unapply", "commit"},
         UNCHANGED <<invoice, draft, lock, payment>>
  PROVE  PaidInv'
<1>1. pc'[w] = "idle" /\ \A v \in Workers \ {w} : Unmoved(v)
  BY FinishFacts DEF IInv, Base
<1>2. RequestPaid(w)'
  BY <1>1 DEF RequestPaid, Reading
<1> QED
  BY <1>1, <1>2, MovesPaid

\* A request about one invoice has read a row that is there.
LEMMA LoadPaid ==
  ASSUME IInv, PaidInv, NEW w \in Workers, NEW i \in Invoices, NEW status, NEW total,
         NEW step \in {"status", "count", "lines"}, Load(w, i, status, total, step),
         invoice[i].status # "NONE", step = "status" => status \in {"SENT", "OVERDUE"}
  PROVE  PaidInv'
<1>1. PICK versioned \in Versioned :
        req' = [req EXCEPT ![w] = [NoRequest EXCEPT !.inv = i, !.seen = Seen(invoice[i]),
                 !.status = status, !.total = total, !.versioned = versioned]]
  BY DEF Load
<1>2. /\ pc[w] = "idle" /\ pc' = [pc EXCEPT ![w] = step]
      /\ UNCHANGED <<invoice, draft, lock, payment>>
  BY DEF Load, Goto
<1>3. PICK seen : seen = Seen(invoice[i])
  OBVIOUS
<1>4. PICK r : r = [NoRequest EXCEPT !.inv = i, !.seen = seen,
                 !.status = status, !.total = total, !.versioned = versioned]
  OBVIOUS
<1>5. r.inv = i /\ r.status = status /\ r.pay = NoPayment
  BY <1>4 DEF NoRequest
<1>6. /\ req'[w] = r /\ pc'[w] = step
      /\ \A v \in Workers \ {w} : pc'[v] = pc[v] /\ req'[v] = req[v]
  BY <1>1, <1>2, <1>3, <1>4 DEF IInv, Base, Types
<1>7. RequestPaid(w)'
  BY <1>2, <1>5, <1>6 DEF RequestPaid
<1> QED
  BY <1>2, <1>6, <1>7, MovesPaid DEF Unmoved

\* So do the three that load one.
LEMMA ReadsPaid ==
  ASSUME IInv, PaidInv, NEW w \in Workers, LoadForStatus(w) \/ LoadForCancel(w) \/ LoadForLines(w)
  PROVE  PaidInv'
<1>0. \A i \in Invoices : invoice[i].status \in AnyStatus
  BY DEF IInv, Base, Types, Row, AnyStatus
<1>1. CASE LoadForStatus(w)
  <2>1. PICK i \in Invoices : \E status \in Transitions[invoice[i].status] \ {"CANCELLED"} :
          Load(w, i, status, 0, "status")
    BY <1>1 DEF LoadForStatus
  <2>2. PICK status \in Transitions[invoice[i].status] \ {"CANCELLED"} : Load(w, i, status, 0, "status")
    BY <2>1
  <2>3. invoice[i].status # "NONE" /\ status \in {"SENT", "OVERDUE"}
    BY <1>0, <2>2 DEF Transitions, AnyStatus, Statuses
  <2> QED
    BY <2>2, <2>3, LoadPaid
<1>2. CASE LoadForCancel(w)
  BY <1>2, LoadPaid DEF LoadForCancel
<1>3. CASE LoadForLines(w)
  BY <1>3, LoadPaid DEF LoadForLines
<1> QED
  BY <1>1, <1>2, <1>3

\* Counting an invoice's applications, beginning a payment and checking its
\* invoices change nothing that counts here.
LEMMA ChecksPaid ==
  ASSUME IInv, PaidInv, NEW w \in Workers,
         CountApplications(w) \/ BeginPayment(w) \/ CheckInvoice(w)
  PROVE  PaidInv'
<1>1. /\ pc[w] \in {"idle", "count", "check"} /\ UNCHANGED <<invoice, draft, lock, payment>>
  BY DEF CountApplications, BeginPayment, CheckInvoice
<1>2. CASE Finish(w, {})
  BY <1>1, <1>2, FinishPaid
<1>3. CASE pc[w] = "count" /\ Goto(w, "cancel") /\ UNCHANGED req
  <2>1. pc'[w] = "cancel" /\ \A v \in Workers \ {w} : Unmoved(v)
    BY <1>3 DEF Goto, Unmoved, IInv, Base, Types
  <2>2. RequestPaid(w)'
    BY <1>1, <1>3, <2>1 DEF PaidInv, RequestPaid, Reading
  <2> QED
    BY <1>1, <2>1, <2>2, MovesPaid
<1>4. ASSUME pc'[w] = "check", \A v \in Workers \ {w} : pc'[v] = pc[v] /\ req'[v] = req[v]
      PROVE  PaidInv'
  <2>1. RequestPaid(w)'
    BY <1>4 DEF RequestPaid, Reading
  <2> QED
    BY <1>1, <1>4, <2>1, MovesPaid DEF Unmoved
<1>5. CASE BeginPayment(w)
  BY <1>4, <1>5 DEF BeginPayment, Goto, IInv, Base, Types
<1>6. CASE CheckInvoice(w)
  BY <1>2, <1>4, <1>6 DEF CheckInvoice, IInv, Base, Types
<1> QED
  BY <1>2, <1>3, <1>5, <1>6 DEF CountApplications

\* Whoever voids has read all of the payment's applications.
LEMMA LoadForVoidPaid ==
  ASSUME IInv, PaidInv, NEW w \in Workers, LoadForVoid(w)
  PROVE  PaidInv'
<1>1. PICK p \in LivePayments :
        req' = [req EXCEPT ![w] = [NoRequest EXCEPT !.pay = p, !.todo = payment[p].apps]]
  BY DEF LoadForVoid
<1>2. /\ pc[w] = "idle" /\ pc' = [pc EXCEPT ![w] = "unapply"]
      /\ UNCHANGED <<invoice, draft, lock, payment>>
  BY DEF LoadForVoid, Goto
<1>3. p \in Payments /\ payment[p].st \in {"live", "voiding"} /\ payment[p].apps \in Seq(App)
  BY <1>1, AppsType DEF LivePayments, IInv, Base
<1>4. PICK r : r = [NoRequest EXCEPT !.pay = p, !.todo = payment[p].apps]
  OBVIOUS
<1>5. r.todo = payment[p].apps /\ r.pay = p
  BY <1>4 DEF NoRequest
<1>6. /\ req'[w] = r /\ pc'[w] = "unapply"
      /\ \A v \in Workers \ {w} : Unmoved(v)
  BY <1>1, <1>2, <1>4 DEF IInv, Base, Types, Unmoved
<1>7. Rest(r.todo, r.todo)
  <2>1. Len(r.todo) \in Nat
    BY <1>3, <1>5
  <2> QED
    BY <2>1 DEF Rest
<1>8. \A i \in Invoices : Uses(r.todo, i) => Begun(invoice[i])
  BY <1>3, <1>5 DEF PaidInv, AppsPaid, AppliesTo, Uses
<1>9. \A i \in Invoices : AppliesTo(p, i) => Uses(r.todo, i)
  BY <1>5 DEF AppliesTo, Uses
<1>10. RequestPaid(w)'
  BY <1>2, <1>5, <1>6, <1>7, <1>8, <1>9 DEF RequestPaid, Reading, AppliesTo
<1> QED
  BY <1>2, <1>6, <1>10, MovesPaid

\* A row that nobody else writes is replaced by one that has been paid as much
\* and got as far.
LEMMA PublishPaid ==
  ASSUME IInv, PaidInv, NEW w \in Workers, NEW i \in Invoices, NEW row,
         row.paid = invoice[i].paid, row.status # "NONE", Begun(invoice[i]) \/ Begun(draft[i]) => Begun(row),
         lock[i] \notin Workers, pc[w] \notin {"apply", "unapply", "commit"}, pc'[w] = "idle",
         invoice' = [invoice EXCEPT ![i] = row], draft' = [draft EXCEPT ![i] = row],
         UNCHANGED <<lock, payment>>, \A v \in Workers \ {w} : Unmoved(v)
  PROVE  PaidInv'
<1>1. /\ invoice'[i] = row /\ draft'[i] = row
      /\ \A j \in Invoices \ {i} : invoice'[j] = invoice[j] /\ draft'[j] = draft[j]
  BY DEF IInv, Base, Types
<1>2. \A j \in Invoices : /\ invoice[j].status # "NONE" => invoice'[j].status # "NONE"
                          /\ Begun(invoice[j]) => Begun(invoice'[j])
                          /\ Begun(draft[j]) => Begun(draft'[j])
  BY <1>1
<1>3. \A v \in Workers \ {w} : RequestPaid(v)' /\ HeldPaid(v)'
  BY <1>1, <1>2, OthersPaid
<1>4. RequestPaid(w)'
  BY DEF RequestPaid, Reading
<1>5. HeldPaid(w)'
  <2>1. \A j \in Invoices : lock[j] # w
    BY DEF IInv, Base, LocksOK
  <2> QED
    BY <2>1 DEF HeldPaid
<1>6. \A j : AppliedTo(j)' = AppliedTo(j)
  BY AppliedKept DEF LivePayments
<1>7. RowsPaid'
  <2>1. \A j \in Invoices : invoice'[j].paid = AppliedTo(j)'
    BY <1>1, <1>6 DEF PaidInv, RowsPaid
  <2>2. \A j \in Invoices : lock'[j] \in Workers =>
          invoice'[j].status # "NONE" /\ draft'[j].status # "NONE"
    BY <1>1, <1>2 DEF PaidInv, RowsPaid
  <2>3. \A j \in Invoices : Begun(invoice'[j]) => Begun(draft'[j])
    BY <1>1 DEF PaidInv, RowsPaid
  <2> QED
    BY <2>1, <2>2, <2>3 DEF RowsPaid
<1>8. AppsPaid'
  BY <1>2 DEF PaidInv, AppsPaid, AppliesTo
<1> QED
  BY <1>3, <1>4, <1>5, <1>7, <1>8 DEF PaidInv

\* A new invoice has nothing applied to it.
LEMMA CreateInvoicePaid ==
  ASSUME IInv, PaidInv, NEW w \in Workers, CreateInvoice(w)
  PROVE  PaidInv'
<1>1. PICK i \in Invoices, total \in Totals :
        /\ invoice[i].status = "NONE"
        /\ invoice' = [invoice EXCEPT ![i] = NewRow(total)]
        /\ draft' = [draft EXCEPT ![i] = NewRow(total)]
  BY DEF CreateInvoice
<1>2. pc[w] = "idle" /\ UNCHANGED <<lock, payment, pc, req>>
  BY DEF CreateInvoice
<1>3. PICK row : row = NewRow(total)
  OBVIOUS
<1>4. row.status = "DRAFT" /\ row.paid = 0
  BY <1>3 DEF NewRow, NoRow
<1>5. lock[i] \notin Workers
  BY <1>1 DEF PaidInv, RowsPaid
<1>6. draft[i] = invoice[i]
  BY <1>5 DEF IInv, Base, LocksOK, Types, Owners
<1>7. ~Begun(invoice[i]) /\ ~Begun(draft[i])
  BY <1>1, <1>6 DEF Begun
<1>8. \A p \in LivePayments : ~AppliesTo(p, i)
  BY <1>7 DEF PaidInv, AppsPaid, LivePayments
<1>9. invoice[i].paid = 0
  BY <1>8, AppliedType DEF PaidInv, RowsPaid, IInv, Base
<1> QED
  BY <1>1, <1>2, <1>3, <1>4, <1>5, <1>7, <1>9, PublishPaid DEF Unmoved

\* A status change leaves what is paid alone, and never makes a draft.
LEMMA UpdateInvoiceStatusPaid ==
  ASSUME IInv, PaidInv, NEW w \in Workers, UpdateInvoiceStatus(w)
  PROVE  PaidInv'
<1>1. PICK i : i = req[w].inv
  OBVIOUS
<1>2. pc[w] = "status" /\ lock[i] = NoWorker /\ UNCHANGED <<lock, payment>>
  BY <1>1 DEF UpdateInvoiceStatus
<1>3. CASE Finish(w, {}) /\ UNCHANGED <<invoice, draft>>
  BY <1>2, <1>3, FinishPaid
<1>4. CASE /\ invoice' = [invoice EXCEPT ![i].status = req[w].status]
           /\ draft' = [draft EXCEPT ![i].status = req[w].status]
           /\ Finish(w, {i})
  <2>1. i \in Invoices /\ draft[i] = invoice[i] /\ invoice[i] \in Row
    BY <1>1, <1>2 DEF RequestOK, Reading, LocksOK, IInv, Base, Types
  <2>2. PICK status : status = req[w].status /\ status \in {"SENT", "OVERDUE"}
    BY <1>2 DEF PaidInv, RequestPaid
  <2>3. PICK row : row = [invoice[i] EXCEPT !.status = status]
    OBVIOUS
  <2>4. row.status = status /\ row.paid = invoice[i].paid
    BY <2>1, <2>3 DEF Row
  <2>5. invoice' = [invoice EXCEPT ![i] = row] /\ draft' = [draft EXCEPT ![i] = row]
    BY <1>4, <2>1, <2>2, <2>3
  <2>6. pc'[w] = "idle" /\ \A v \in Workers \ {w} : Unmoved(v)
    BY <1>4, FinishFacts DEF IInv, Base
  <2>7. lock[i] \notin Workers
    BY <1>2, NullAssumption
  <2> QED
    BY <1>2, <2>1, <2>2, <2>4, <2>5, <2>6, <2>7, PublishPaid DEF Begun
<1> QED
  BY <1>1, <1>2, <1>3, <1>4 DEF UpdateInvoiceStatus

\* A new payment has no application yet.
LEMMA InsertPaymentPaid ==
  ASSUME IInv, PaidInv, NEW w \in Workers, InsertPayment(w)
  PROVE  PaidInv'
<1> DEFINE free == {p \in Payments : payment[p].st = "free"}
<1>1. pc[w] = "check" /\ UNCHANGED <<invoice, draft, lock>>
  BY DEF InsertPayment
<1>2. CASE Finish(w, {}) /\ UNCHANGED payment
  BY <1>1, <1>2, FinishPaid
<1>3. CASE \E next \in free :
             /\ payment' = [payment EXCEPT ![next] = [FreePayment EXCEPT !.st = "open", !.by = w]]
             /\ req' = [req EXCEPT ![w].pay = next, ![w].checked = {}]
             /\ Goto(w, "apply")
  <2>1. PICK n \in free :
             /\ payment' = [payment EXCEPT ![n] = [FreePayment EXCEPT !.st = "open", !.by = w]]
             /\ req' = [req EXCEPT ![w].pay = n, ![w].checked = {}]
             /\ Goto(w, "apply")
    BY <1>3
  <2>2. n \in Payments /\ payment[n].st = "free"
    OBVIOUS
  <2>3. PICK pm : pm = [FreePayment EXCEPT !.st = "open", !.by = w]
    OBVIOUS
  <2>4. pm.st = "open" /\ pm.by = w /\ pm.apps = <<>>
    BY <2>3 DEF FreePayment
  <2>5. payment'[n] = pm /\ \A p \in Payments \ {n} : payment'[p] = payment[p]
    BY <2>1, <2>2, <2>3 DEF IInv, Base, Types
  <2>6. /\ pc'[w] = "apply"
        /\ \A v \in Workers \ {w} : pc'[v] = pc[v] /\ req'[v] = req[v]
    BY <2>1 DEF IInv, Base, Types, Goto
  <2>7. \A j : /\ ~AppliesTo(n, j)' /\ ~AppliesTo(n, j)
               /\ \A p \in Payments \ {n} : AppliesTo(p, j)' <=> AppliesTo(p, j)
    <3>1. \A j : ~AppliesTo(n, j)'
      BY <2>4, <2>5, EmptySeq DEF AppliesTo
    <3>2. \A j : \A p \in Payments \ {n} : AppliesTo(p, j)' <=> AppliesTo(p, j)
      BY <2>5 DEF AppliesTo
    <3>3. \A k \in DOMAIN payment[n].apps : payment[n].apps[k].inv \in Invoices
      <4>1. payment[n].apps \in Seq(App)
        BY <2>2, AppsType DEF IInv, Base
      <4>2. \A k \in DOMAIN payment[n].apps : payment[n].apps[k] \in App
        BY <4>1
      <4> QED
        BY <4>2 DEF App
    <3>4. \A j : ~AppliesTo(n, j)
      BY <2>2, <3>3 DEF PaidInv, AppsPaid, AppliesTo
    <3> QED
      BY <3>1, <3>2, <3>4
  <2>8. payment[n].by \notin Workers
    BY <2>2 DEF IInv, Base, PaymentsOK
  <2>9. \A v \in Workers \ {w} : RequestPaid(v)' /\ HeldPaid(v)'
    <3>1. \A v \in Workers \ {w} : Unmoved(v)
      BY <2>6 DEF Unmoved
    <3> QED
      BY <1>1, <2>2, <2>5, <2>8, <3>1, OthersPaid
  <2>10. RequestPaid(w)' /\ HeldPaid(w)'
    <3>1. \A j \in Invoices : lock[j] # w
      BY <1>1 DEF IInv, Base, LocksOK
    <3> QED
      BY <1>1, <2>6, <3>1 DEF RequestPaid, HeldPaid, Reading
  <2>11. LivePayments' = LivePayments /\ n \notin LivePayments
    BY <2>2, <2>4, <2>5 DEF LivePayments
  <2>12. \A j : AppliedTo(j)' = AppliedTo(j)
    BY <2>5, <2>11, AppliedKept DEF LivePayments
  <2>13. RowsPaid'
    BY <1>1, <2>12 DEF PaidInv, RowsPaid
  <2>14. AppsPaid'
    <3>1. Distinct(pm.apps)
      BY <2>4, EmptySeq DEF Distinct
    <3> QED
      BY <1>1, <2>5, <2>7, <3>1 DEF PaidInv, AppsPaid
  <2> QED
    BY <2>9, <2>10, <2>13, <2>14 DEF PaidInv
<1>4. free # {} => (CHOOSE p \in free : TRUE) \in free
  OBVIOUS
<1> QED
  BY <1>2, <1>3, <1>4 DEF InsertPayment

\* A row is taken and rewritten without touching what is paid on it.
LEMMA RewritePaid ==
  ASSUME IInv, PaidInv, NEW w \in Workers, NEW i \in Invoices, NEW row,
         pc[w] \in Reading, i = req[w].inv, CanWrite(w, i), Write(w, i, row),
         row.paid = draft[i].paid, Begun(draft[i]) => Begun(row),
         row.status \in {"CANCELLED", draft[i].status},
         pc' = [pc EXCEPT ![w] = "commit"], UNCHANGED <<invoice, payment, req>>
  PROVE  PaidInv'
<1>1. \A j \in Invoices : lock[j] # w
  BY DEF IInv, Base, LocksOK, Reading
<1>2. lock[i] = NoWorker /\ draft[i] = invoice[i]
  BY <1>1 DEF CanWrite, IInv, Base, LocksOK
<1>3. /\ draft'[i] = row /\ lock'[i] = w
      /\ \A j \in Invoices \ {i} : draft'[j] = draft[j] /\ lock'[j] = lock[j]
  BY DEF Write, IInv, Base, Types
<1>4. invoice[i].status # "NONE" /\ req[w].pay = NoPayment
  BY DEF PaidInv, RequestPaid
<1>5. pc'[w] = "commit" /\ \A v \in Workers \ {w} : Unmoved(v)
  BY DEF Unmoved, IInv, Base, Types
<1>6. \A v \in Workers \ {w} : RequestPaid(v)' /\ HeldPaid(v)'
  <2>1. \A j \in Invoices : \A v \in Workers \ {w} :
          (lock'[j] = v <=> lock[j] = v) /\ (lock[j] = v => draft'[j] = draft[j] /\ invoice'[j] = invoice[j])
    BY <1>2, <1>3, NullAssumption
  <2> QED
    BY <1>5, <2>1, OthersPaid
<1>7. RequestPaid(w)'
  BY <1>4, <1>5 DEF RequestPaid, Reading
<1>8. HeldPaid(w)'
  <2>1. PaidBy(w, i)' = 0
    BY <1>4 DEF PaidBy
  <2>2. draft'[i].paid = invoice[i].paid /\ invoice[i].paid \in Int
    BY <1>2, <1>3 DEF IInv, Base, Types, Row
  <2>3. \A j \in Invoices : lock'[j] = w => j = i
    BY <1>1, <1>3
  <2> QED
    BY <2>1, <2>2, <2>3 DEF HeldPaid
<1>9. \A j : AppliedTo(j)' = AppliedTo(j)
  BY AppliedKept DEF LivePayments
<1>10. \A j \in Invoices : Begun(draft[j]) => Begun(draft'[j])
  BY <1>3
<1>11. RowsPaid'
  BY <1>2, <1>3, <1>4, <1>9, <1>10 DEF PaidInv, RowsPaid
<1>12. AppsPaid'
  <2>1. \A j \in Invoices : lock[j] \in Workers => lock'[j] = lock[j]
    BY <1>2, <1>3, NullAssumption
  <2> QED
    BY <1>10, <2>1 DEF PaidInv, AppsPaid, AppliesTo
<1> QED
  BY <1>6, <1>7, <1>8, <1>11, <1>12 DEF PaidInv

\* So do a cancellation and new lines.
LEMMA RewritesPaid ==
  ASSUME IInv, PaidInv, NEW w \in Workers, CancelInvoice(w) \/ UpdateInvoiceLineItems(w), ~Rollback(w)
  PROVE  PaidInv'
<1>1. PICK i, seen, total : i = req[w].inv /\ seen = req[w].seen /\ total = req[w].total
  OBVIOUS
<1>2. CASE CancelInvoice(w)
  <2>1. PICK row : row = Cancelled(draft[i], seen)
    OBVIOUS
  <2>2. /\ pc[w] = "cancel" /\ CanWrite(w, i) /\ Write(w, i, row)
        /\ pc' = [pc EXCEPT ![w] = "commit"] /\ UNCHANGED <<invoice, payment, req>>
    BY <1>1, <1>2, <2>1 DEF CancelInvoice, Goto
  <2>3. i \in Invoices /\ draft[i] \in Row
    BY <1>1, <2>2 DEF RequestOK, Reading, IInv, Base, Types
  <2>4. row.paid = draft[i].paid /\ row.status = "CANCELLED"
    BY <2>1, <2>3 DEF Cancelled, Row
  <2>5. pc[w] \in Reading /\ Begun(row)
    BY <2>2, <2>4 DEF Reading, Begun
  <2> QED
    BY <1>1, <2>2, <2>3, <2>4, <2>5, RewritePaid
<1>3. CASE UpdateInvoiceLineItems(w)
  <2>1. PICK row : row = Relined(draft[i], total, seen)
    OBVIOUS
  <2>2. /\ pc[w] = "lines" /\ CanWrite(w, i) /\ Write(w, i, row)
        /\ pc' = [pc EXCEPT ![w] = "commit"] /\ UNCHANGED <<invoice, payment, req>>
    BY <1>1, <1>3, <2>1 DEF UpdateInvoiceLineItems, Goto
  <2>3. i \in Invoices /\ draft[i] \in Row
    BY <1>1, <2>2 DEF RequestOK, Reading, IInv, Base, Types
  <2>4. row.paid = draft[i].paid /\ row.status = draft[i].status
    BY <2>1, <2>3 DEF Relined, Row
  <2>5. pc[w] \in Reading /\ (Begun(draft[i]) => Begun(row))
    BY <2>2, <2>4 DEF Reading, Begun
  <2> QED
    BY <1>1, <2>2, <2>3, <2>4, <2>5, RewritePaid
<1> QED
  BY <1>2, <1>3

\* An application adds to the row what it adds to the payment, rounded once.
LEMMA ApplyPaymentToInvoicePaid ==
  ASSUME IInv, PaidInv, NEW w \in Workers, ApplyPaymentToInvoice(w), ~Rollback(w)
  PROVE  PaidInv'
<1>1. PICK app, i, todo, p : app = Head(req[w].todo) /\ i = app.inv /\ todo = req[w].todo /\ p = req[w].pay
  OBVIOUS
<1>2. /\ pc[w] = "apply" /\ CanWrite(w, i)
      /\ Payable(draft[i], app.amt) /\ ~AppliesTo(p, i) /\ Kept(app).amt > 0
      /\ Write(w, i, Applied(draft[i], app.amt))
      /\ payment' = [payment EXCEPT ![p].apps = Append(@, Kept(app))]
      /\ req' = [req EXCEPT ![w].todo = Tail(@)]
      /\ Goto(w, AfterApplying(Tail(todo)))
      /\ UNCHANGED invoice
  BY <1>1 DEF ApplyPaymentToInvoice
<1>3. p \in Payments /\ todo # <<>> /\ payment[p].st = "open" /\ payment[p].by = w
  BY <1>1, <1>2 DEF RequestOK, IInv, Base
<1>4. todo \in Seq(App) /\ payment[p] \in PaymentRow /\ payment[p].apps \in Seq(App) /\ req[w] \in Request
  BY <1>1, <1>3 DEF Request, PaymentRow, IInv, Base, Types
<1>5. app \in App /\ i \in Invoices /\ app.amt \in Nat \ {0}
  <2>1. app \in App
    BY <1>1, <1>3, <1>4, HeadTailProperties
  <2> QED
    BY <1>1, <2>1 DEF App
<1>6. PICK kept, amt : kept = Kept(app) /\ amt = Stored(app.amt, CentParts)
  OBVIOUS
<1>7. kept \in App /\ kept.inv = i /\ kept.amt = amt /\ amt \in Nat
  <2>1. amt \in Nat
    BY <1>5, <1>6, StoredType
  <2>2. kept = [app EXCEPT !.amt = amt]
    BY <1>6 DEF Kept
  <2>3. kept.amt = amt /\ kept.inv = app.inv
    BY <1>5, <2>2 DEF App
  <2>4. amt \in Nat \ {0}
    BY <1>2, <1>6, <2>1, <2>3
  <2> QED
    BY <1>1, <1>5, <2>2, <2>3, <2>4 DEF App
<1>8. PICK apps, new : apps = payment[p].apps /\ new = Append(apps, kept)
  OBVIOUS
<1>9. apps \in Seq(App) /\ Distinct(apps) /\ ~Uses(apps, i)
  BY <1>2, <1>3, <1>4, <1>8 DEF PaidInv, AppsPaid, AppliesTo, Uses
<1>10. /\ Distinct(new)
       /\ \A j : Uses(new, j) <=> Uses(apps, j) \/ j = i
       /\ \A j : AmountFor(new, j) = AmountFor(apps, j) + (IF i = j THEN amt ELSE 0)
  BY <1>7, <1>8, <1>9, AmountForAppend
<1>11. \A j : AmountFor(apps, j) \in Nat /\ AmountFor(apps, i) = 0
  BY <1>9, AmountForType
<1>12. /\ payment'[p].st = "open" /\ payment'[p].by = w /\ payment'[p].apps = new
       /\ \A q \in Payments \ {p} : payment'[q] = payment[q]
  <2>1. payment'[p] = [payment[p] EXCEPT !.apps = new]
    BY <1>2, <1>3, <1>6, <1>8 DEF IInv, Base, Types
  <2> QED
    BY <1>2, <1>3, <1>4, <2>1 DEF PaymentRow, IInv, Base, Types
<1>13. PICK row : row = Applied(draft[i], app.amt)
  OBVIOUS
<1>14. /\ draft'[i] = row /\ lock'[i] = w
       /\ \A j \in Invoices \ {i} : draft'[j] = draft[j] /\ lock'[j] = lock[j]
  BY <1>2, <1>5, <1>13 DEF Write, IInv, Base, Types
<1>15. /\ req'[w].pay = p /\ pc'[w] \in {"apply", "commit"}
       /\ \A v \in Workers \ {w} : Unmoved(v)
  <2>1. pc'[w] \in {"apply", "commit"} /\ \A v \in Workers \ {w} : pc'[v] = pc[v] /\ req'[v] = req[v]
    BY <1>2 DEF Goto, AfterApplying, IInv, Base, Types
  <2>2. PICK rest : rest = Tail(req[w].todo)
    OBVIOUS
  <2>3. req'[w] = [req[w] EXCEPT !.todo = rest]
    BY <1>2, <2>2 DEF IInv, Base, Types
  <2>4. req'[w].pay = p
    BY <1>1, <1>4, <2>3 DEF Request
  <2> QED
    BY <2>1, <2>4 DEF Unmoved
<1>16. draft[i] \in Row /\ Begun(draft[i]) /\ Begun(row)
  <2>1. draft[i] \in Row
    BY <1>5 DEF IInv, Base, Types
  <2>2. row.status \in Sent /\ draft[i].status \in Sent
    BY <1>2, <1>5, <1>13, <2>1, AppliedRow
  <2> QED
    BY <2>1, <2>2 DEF Begun, Sent
<1>17. invoice[i].status # "NONE" /\ draft[i].paid = invoice[i].paid /\ invoice[i].paid \in Nat
  <2>1. invoice[i].paid \in Nat
    BY <1>5, AppliedType DEF PaidInv, RowsPaid, IInv, Base
  <2>2. CASE lock[i] = NoWorker
    BY <1>5, <1>16, <2>1, <2>2 DEF IInv, Base, LocksOK, Begun
  <2>3. CASE lock[i] = w
    <3>1. draft[i].paid = invoice[i].paid + PaidBy(w, i)
      BY <1>2, <1>5, <2>3 DEF PaidInv, HeldPaid, Sound
    <3>2. PaidBy(w, i) = 0
      BY <1>1, <1>3, <1>8, <1>11, NullAssumption DEF PaidBy
    <3> QED
      BY <1>5, <2>1, <2>3, <3>1, <3>2 DEF PaidInv, RowsPaid
  <2> QED
    BY <1>2, <2>2, <2>3 DEF CanWrite
<1>18. row.paid = invoice[i].paid + amt
  <2>1. row.paid = Stored(CentParts * draft[i].paid + app.amt, CentParts)
    BY <1>13, <1>16 DEF Applied, Row
  <2> QED
    BY <1>5, <1>6, <1>17, <2>1, StoredAdds
<1>19. \A v \in Workers \ {w} : RequestPaid(v)' /\ HeldPaid(v)'
  <2>1. \A j \in Invoices : \A v \in Workers \ {w} :
          (lock'[j] = v <=> lock[j] = v) /\ (lock[j] = v => draft'[j] = draft[j] /\ invoice'[j] = invoice[j])
    BY <1>2, <1>5, <1>14, NullAssumption DEF CanWrite
  <2>2. \A q \in Payments : payment[q].by \in Workers \ {w} => payment'[q] = payment[q]
    BY <1>3, <1>12
  <2>3. \A q \in Payments : payment[q].st # "open" => payment'[q] = payment[q]
    BY <1>3, <1>12
  <2>4. UNCHANGED invoice
    BY <1>2
  <2> QED
    BY <1>15, <2>1, <2>2, <2>3, <2>4, OthersPaid
<1>20. RequestPaid(w)'
  BY <1>3, <1>12, <1>15 DEF RequestPaid, Reading
<1>21. HeldPaid(w)'
  <2> SUFFICES ASSUME NEW j \in Invoices, lock'[j] = w
               PROVE  draft'[j].paid = invoice'[j].paid + PaidBy(w, j)'
    BY DEF HeldPaid
  <2>1. PaidBy(w, j)' = AmountFor(apps, j) + (IF i = j THEN amt ELSE 0)
    BY <1>3, <1>10, <1>12, <1>15, NullAssumption DEF PaidBy
  <2>2. CASE j = i
    BY <1>2, <1>7, <1>11, <1>14, <1>17, <1>18, <2>1, <2>2
  <2>3. CASE j # i
    <3>1. draft[j].paid = invoice[j].paid + PaidBy(w, j)
      BY <1>2, <1>14, <2>3 DEF PaidInv, HeldPaid, Sound
    <3>2. PaidBy(w, j) = AmountFor(apps, j)
      BY <1>1, <1>3, <1>8, NullAssumption DEF PaidBy
    <3>3. PaidBy(w, j)' = AmountFor(apps, j)
      BY <1>11, <2>1, <2>3
    <3> QED
      BY <1>2, <1>14, <2>3, <3>1, <3>2, <3>3
  <2> QED
    BY <2>2, <2>3
<1>22. LivePayments' = LivePayments /\ p \notin LivePayments
  BY <1>3, <1>12 DEF LivePayments
<1>23. \A j : AppliedTo(j)' = AppliedTo(j)
  BY <1>12, <1>22, AppliedKept DEF LivePayments
<1>24. \A j \in Invoices : Begun(draft[j]) => Begun(draft'[j])
  BY <1>14, <1>16
<1>25. RowsPaid'
  <2>1. row.status # "NONE"
    BY <1>16 DEF Begun
  <2> QED
    BY <1>2, <1>14, <1>17, <1>23, <1>24, <2>1 DEF PaidInv, RowsPaid
<1>26. AppsPaid'
  <2>1. ASSUME NEW q \in Payments, NEW j \in Invoices, AppliesTo(q, j)'
        PROVE  /\ payment'[q].st \in {"open", "live", "voiding"}
               /\ Begun(draft'[j])
               /\ payment'[q].st # "open" => Begun(invoice'[j])
               /\ payment'[q].by \in Workers => lock'[j] = payment'[q].by
    <3>1. CASE q = p /\ j = i
      BY <1>12, <1>14, <1>16, <3>1
    <3>2. CASE ~(q = p /\ j = i)
      <4>1. AppliesTo(q, j)
        <5>1. CASE q = p
          <6>1. Uses(new, j)
            BY <1>12, <2>1, <5>1 DEF AppliesTo, Uses
          <6>2. Uses(apps, j)
            BY <1>10, <3>2, <5>1, <6>1
          <6> QED
            BY <1>8, <5>1, <6>2 DEF AppliesTo, Uses
        <5>2. CASE q # p
          BY <1>12, <2>1, <5>2 DEF AppliesTo
        <5> QED
          BY <5>1, <5>2
      <4>2. payment'[q].st = payment[q].st /\ payment'[q].by = payment[q].by
        BY <1>3, <1>12
      <4>3. lock[j] = payment[q].by /\ payment[q].by \in Workers => lock'[j] = lock[j]
        BY <1>2, <1>14, NullAssumption DEF CanWrite
      <4> QED
        BY <1>2, <1>24, <4>1, <4>2, <4>3 DEF PaidInv, AppsPaid
    <3> QED
      BY <3>1, <3>2
  <2>2. \A q \in Payments : Distinct(payment'[q].apps)
    BY <1>10, <1>12 DEF PaidInv, AppsPaid
  <2> QED
    BY <2>1, <2>2 DEF AppsPaid
<1> QED
  BY <1>19, <1>20, <1>21, <1>25, <1>26 DEF PaidInv

\* A void takes off the next application, which is its payment's only one to
\* the invoice, and has the others left.
LEMMA RestHead ==
  ASSUME NEW apps \in Seq(App), NEW todo \in Seq(App), todo # <<>>, Rest(todo, apps), Distinct(apps)
  PROVE  LET app == Head(todo) IN
         /\ app \in App /\ Rest(Tail(todo), apps) /\ AmountFor(apps, app.inv) = app.amt
         /\ \A j : Uses(todo, j) <=> Uses(Tail(todo), j) \/ j = app.inv
         /\ ~Uses(Tail(todo), app.inv)
<1> DEFINE app == Head(todo)
<1>1. PICK m \in Nat, n \in Nat : m = Len(apps) /\ n = Len(todo)
  OBVIOUS
<1>2. n >= 1 /\ app = todo[1] /\ app \in App
  BY <1>1, EmptySeq, HeadTailProperties
<1>3. PICK tail : tail = Tail(todo)
  OBVIOUS
<1>4. /\ tail \in Seq(App) /\ Len(tail) = n - 1
      /\ \A k \in 1..(n - 1) : tail[k] = todo[k + 1]
  BY <1>1, <1>3, HeadTailProperties
<1>5. n <= m /\ \A k \in 1..n : todo[k] = apps[m - n + k]
  BY <1>1 DEF Rest
<1>6. /\ DOMAIN tail = 1..(n - 1) /\ DOMAIN todo = 1..n /\ DOMAIN apps = 1..m
  BY <1>1, <1>4
<1>7. Rest(tail, apps)
  <2> SUFFICES ASSUME NEW k \in 1..(n - 1) PROVE tail[k] = apps[m - (n - 1) + k]
    BY <1>1, <1>2, <1>4, <1>5 DEF Rest
  <2>1. k + 1 \in 1..n /\ m - (n - 1) + k = m - n + (k + 1)
    OBVIOUS
  <2> QED
    BY <1>4, <1>5, <2>1
<1>8. PICK h \in 1..m : h = m - n + 1
  BY <1>2, <1>5
<1>9. app = apps[h]
  <2>1. 1 \in 1..n
    BY <1>2
  <2> QED
    BY <1>2, <1>5, <1>8, <2>1
<1>10. AmountFor(apps, app.inv) = app.amt
  BY <1>6, <1>9, AmountForOnly
<1>11. ~Uses(tail, app.inv)
  <2> SUFFICES ASSUME NEW k \in 1..(n - 1), tail[k].inv = app.inv PROVE FALSE
    BY <1>6 DEF Uses
  <2>1. k + 1 \in 1..n /\ m - n + (k + 1) \in 1..m /\ m - n + (k + 1) # h
    BY <1>5, <1>8
  <2>2. apps[m - n + (k + 1)].inv = apps[h].inv
    BY <1>4, <1>5, <1>9, <2>1
  <2> QED
    BY <1>6, <2>1, <2>2 DEF Distinct
<1>12. ASSUME NEW j PROVE Uses(todo, j) <=> Uses(tail, j) \/ j = app.inv
  <2>1. ASSUME NEW k \in 1..n, todo[k].inv = j PROVE Uses(tail, j) \/ j = app.inv
    <3>1. CASE k = 1
      BY <1>2, <2>1, <3>1
    <3>2. CASE k # 1
      <4>1. k - 1 \in 1..(n - 1) /\ (k - 1) + 1 = k
        BY <3>2
      <4> QED
        BY <1>4, <1>6, <2>1, <4>1 DEF Uses
    <3> QED
      BY <3>1, <3>2
  <2>2. ASSUME NEW k \in 1..(n - 1), tail[k].inv = j PROVE Uses(todo, j)
    <3>1. k + 1 \in 1..n
      OBVIOUS
    <3> QED
      BY <1>4, <1>6, <2>2, <3>1 DEF Uses
  <2>3. 1 \in 1..n
    BY <1>2
  <2> QED
    BY <1>2, <1>6, <2>1, <2>2, <2>3 DEF Uses
<1> QED
  BY <1>2, <1>3, <1>7, <1>10, <1>11, <1>12

\* What a void takes off the row is what its payment gave.
LEMMA UnapplyPaymentFromInvoicePaid ==
  ASSUME IInv, PaidInv, NEW w \in Workers, UnapplyPaymentFromInvoice(w)
  PROVE  PaidInv'
<1>1. PICK app, i, todo, p : app = Head(req[w].todo) /\ i = app.inv /\ todo = req[w].todo /\ p = req[w].pay
  OBVIOUS
<1>2. PICK row : row = Unapplied(draft[i], app.amt)
  OBVIOUS
<1>3. /\ pc[w] = "unapply" /\ todo # <<>> /\ CanWrite(w, i) /\ Write(w, i, row)
      /\ req' = [req EXCEPT ![w].todo = Tail(@)] /\ UNCHANGED <<invoice, payment, pc>>
  BY <1>1, <1>2 DEF UnapplyPaymentFromInvoice
<1>4. /\ p \in Payments /\ payment[p].st \in {"live", "voiding", "void"}
      /\ todo \in Seq(App) /\ req[w] \in Request
  BY <1>1, <1>3 DEF RequestOK, IInv, Base, Types, Request
<1>5. app \in App /\ i \in Invoices /\ app.amt \in Nat /\ Uses(todo, i)
      /\ \A j : Uses(Tail(todo), j) => Uses(todo, j)
  <2>1. app \in App
    BY <1>1, <1>3, <1>4, HeadTailProperties
  <2>2. /\ 1 \in DOMAIN todo /\ app = todo[1]
        /\ \A k \in DOMAIN Tail(todo) : k + 1 \in DOMAIN todo /\ Tail(todo)[k] = todo[k + 1]
    BY <1>1, <1>3, <1>4, EmptySeq, HeadTailProperties
  <2> QED
    BY <1>1, <2>1, <2>2 DEF App, Uses
<1>6. PICK apps, tail : apps = payment[p].apps /\ tail = Tail(todo)
  OBVIOUS
<1>7. apps \in Seq(App) /\ Distinct(apps)
  BY <1>4, <1>6, AppsType DEF PaidInv, AppsPaid, IInv, Base
<1>8. /\ draft'[i] = row /\ lock'[i] = w
      /\ \A j \in Invoices \ {i} : draft'[j] = draft[j] /\ lock'[j] = lock[j]
  BY <1>3, <1>5 DEF Write, IInv, Base, Types
<1>9. /\ req'[w].pay = p /\ req'[w].todo = tail /\ pc'[w] = "unapply"
      /\ \A v \in Workers \ {w} : Unmoved(v)
  <2>1. req'[w] = [req[w] EXCEPT !.todo = tail]
    BY <1>1, <1>3, <1>6 DEF IInv, Base, Types
  <2>2. \A v \in Workers \ {w} : req'[v] = req[v]
    BY <1>3 DEF IInv, Base, Types
  <2> QED
    BY <1>1, <1>3, <1>4, <2>1, <2>2 DEF Unmoved, Request
<1>10. Begun(invoice[i]) /\ Begun(draft[i]) /\ draft[i] \in Row /\ invoice[i] \in Row
  BY <1>1, <1>3, <1>5 DEF PaidInv, RowsPaid, RequestPaid, IInv, Base, Types
<1>11. row.paid = draft[i].paid - app.amt /\ Begun(row)
  BY <1>2, <1>10 DEF Unapplied, Row, Begun
<1>12. \A v \in Workers \ {w} : RequestPaid(v)' /\ HeldPaid(v)'
  <2>1. \A j \in Invoices : \A v \in Workers \ {w} :
          (lock'[j] = v <=> lock[j] = v) /\ (lock[j] = v => draft'[j] = draft[j] /\ invoice'[j] = invoice[j])
    BY <1>3, <1>5, <1>8, NullAssumption DEF CanWrite
  <2>2. UNCHANGED <<invoice, payment>>
    BY <1>3
  <2> QED
    BY <1>9, <2>1, <2>2, OthersPaid
<1>13. ASSUME Sound(w)'
       PROVE  /\ Rest(tail, apps) /\ AmountFor(apps, i) = app.amt /\ ~Uses(tail, i)
              /\ \A j : Uses(todo, j) <=> Uses(tail, j) \/ j = i
              /\ Sound(w)
              /\ \A j \in Invoices : AppliesTo(p, j) /\ ~Uses(todo, j) => lock[j] = w
              /\ payment[p].st \in {"live", "voiding"}
  <2>1. Sound(w) /\ payment[p].st \in {"live", "voiding"}
    BY <1>1, <1>3, <1>4, <1>9, <1>13 DEF Sound
  <2>2. Rest(todo, apps) /\ \A j \in Invoices : AppliesTo(p, j) /\ ~Uses(todo, j) => lock[j] = w
    BY <1>1, <1>3, <1>6, <2>1 DEF PaidInv, RequestPaid
  <2>3. /\ Rest(tail, apps) /\ AmountFor(apps, i) = app.amt /\ ~Uses(tail, i)
        /\ \A j : Uses(todo, j) <=> Uses(tail, j) \/ j = i
    BY <1>1, <1>3, <1>4, <1>6, <1>7, <2>2, RestHead
  <2> QED
    BY <2>1, <2>2, <2>3
<1>14. RequestPaid(w)'
  <2>1. ASSUME NEW j \in Invoices, Uses(tail, j) PROVE Begun(invoice'[j])
    BY <1>1, <1>3, <1>5, <1>6, <2>1 DEF PaidInv, RequestPaid
  <2>2. ASSUME Sound(w)'
        PROVE  /\ Rest(tail, payment'[p].apps)
               /\ \A j \in Invoices : AppliesTo(p, j)' /\ ~Uses(tail, j) => lock'[j] = w
    <3>1. \A j \in Invoices : AppliesTo(p, j)' <=> AppliesTo(p, j)
      BY <1>3 DEF AppliesTo
    <3> QED
      BY <1>3, <1>6, <1>8, <1>13, <2>2, <3>1
  <2>3. \A j \in Invoices : AppliesTo(req[w].pay, j)' <=> AppliesTo(p, j)'
    BY <1>1, <1>9 DEF AppliesTo
  <2> QED
    BY <1>1, <1>9, <2>1, <2>2, <2>3 DEF RequestPaid, Reading
<1>15. HeldPaid(w)'
  <2> SUFFICES ASSUME NEW j \in Invoices, lock'[j] = w, Sound(w)'
               PROVE  draft'[j].paid = invoice'[j].paid + PaidBy(w, j)'
    BY DEF HeldPaid
  <2>1. /\ p # NoPayment /\ payment[p].st # "open" /\ AmountFor(apps, j) \in Nat
        /\ invoice[j].paid \in Int
    BY <1>4, <1>7, <1>13, AmountForType, NullAssumption DEF IInv, Base, Types, Row
  <2>2. PaidBy(w, j)' = (IF Uses(tail, j) THEN 0 ELSE -AmountFor(apps, j))
    <3>1. payment'[p].apps = apps /\ payment'[p].st # "open"
      BY <1>3, <1>6, <2>1
    <3> QED
      BY <1>9, <2>1, <3>1 DEF PaidBy
  <2>3. PaidBy(w, j) = (IF Uses(todo, j) THEN 0 ELSE -AmountFor(apps, j))
    BY <1>1, <1>3, <1>6, <2>1 DEF PaidBy
  <2>4. CASE j = i
    <3>1. draft[i].paid = invoice[i].paid
      <4>1. CASE lock[i] = w
        BY <1>5, <1>13, <2>1, <2>3, <2>4, <4>1 DEF PaidInv, HeldPaid
      <4>2. CASE lock[i] = NoWorker
        BY <1>5, <4>2 DEF IInv, Base, LocksOK
      <4> QED
        BY <1>3, <4>1, <4>2 DEF CanWrite
    <3>2. PICK a \in Int, b \in Int : a = app.amt /\ b = invoice[i].paid
      BY <1>5, <2>1, <2>4
    <3>3. PaidBy(w, i)' = -a
      BY <1>13, <2>2, <2>4, <3>2
    <3>4. draft'[i].paid = b - a
      BY <1>8, <1>11, <3>1, <3>2
    <3>5. b - a = b + (-a)
      BY <3>2
    <3>6. invoice'[i].paid = b
      BY <1>3, <3>2
    <3> QED
      BY <2>4, <3>3, <3>4, <3>5, <3>6
  <2>5. CASE j # i
    <3>1. PaidBy(w, j)' = PaidBy(w, j)
      BY <1>13, <2>2, <2>3, <2>5
    <3>2. lock[j] = w /\ draft'[j] = draft[j]
      BY <1>8, <2>5
    <3> QED
      BY <1>3, <1>13, <3>1, <3>2 DEF PaidInv, HeldPaid
  <2> QED
    BY <2>4, <2>5
<1>16. \A j : AppliedTo(j)' = AppliedTo(j)
  BY <1>3, AppliedKept DEF LivePayments
<1>17. \A j \in Invoices : Begun(draft[j]) => Begun(draft'[j])
  BY <1>8, <1>11
<1>18. RowsPaid'
  <2>1. row.status # "NONE" /\ invoice[i].status # "NONE"
    BY <1>10, <1>11 DEF Begun
  <2> QED
    BY <1>3, <1>8, <1>16, <1>17, <2>1 DEF PaidInv, RowsPaid
<1>19. AppsPaid'
  <2>1. \A j \in Invoices : lock[j] \in Workers => lock'[j] = lock[j]
    BY <1>3, <1>8, NullAssumption DEF CanWrite
  <2> QED
    BY <1>3, <1>17, <2>1 DEF PaidInv, AppsPaid, AppliesTo
<1> QED
  BY <1>12, <1>14, <1>15, <1>18, <1>19 DEF PaidInv

\* Once it has taken everything off, the payment is the void's.
LEMMA SoftDeletePaymentPaid ==
  ASSUME IInv, PaidInv, NEW w \in Workers, SoftDeletePayment(w), ~Rollback(w)
  PROVE  PaidInv'
<1>1. PICK p : p = req[w].pay
  OBVIOUS
<1>2. /\ pc[w] = "unapply" /\ req[w].todo = <<>> /\ payment[p].st = "live"
      /\ payment' = [payment EXCEPT ![p] = [@ EXCEPT !.st = "voiding", !.by = w]]
      /\ pc' = [pc EXCEPT ![w] = "commit"]
      /\ UNCHANGED <<invoice, draft, lock, req>>
  BY <1>1 DEF SoftDeletePayment, Goto, Voidable
<1>3. p \in Payments /\ payment[p] \in PaymentRow
  BY <1>1, <1>2 DEF RequestOK, IInv, Base, Types
<1>4. /\ payment'[p].st = "voiding" /\ payment'[p].by = w /\ payment'[p].apps = payment[p].apps
      /\ \A q \in Payments \ {p} : payment'[q] = payment[q]
  <2>1. payment'[p] = [payment[p] EXCEPT !.st = "voiding", !.by = w]
    BY <1>2, <1>3 DEF IInv, Base, Types
  <2> QED
    BY <1>2, <1>3, <2>1 DEF PaymentRow, IInv, Base, Types
<1>5. pc'[w] = "commit" /\ \A v \in Workers \ {w} : Unmoved(v)
  BY <1>2 DEF Unmoved, IInv, Base, Types
<1>6. payment[p].by \notin Workers
  BY <1>2, <1>3 DEF IInv, Base, PaymentsOK
<1>7. \A j : ~Uses(req[w].todo, j)
  BY <1>2, EmptySeq DEF Uses
<1>8. Sound(w) /\ \A j \in Invoices : AppliesTo(p, j) => lock[j] = w
  <2>1. Sound(w)
    BY <1>1, <1>2 DEF Sound
  <2> QED
    BY <1>1, <1>2, <1>7, <2>1 DEF PaidInv, RequestPaid
<1>9. \A v \in Workers \ {w} : RequestPaid(v)' /\ HeldPaid(v)'
  BY <1>2, <1>3, <1>4, <1>5, <1>6, OthersPaid
<1>10. RequestPaid(w)'
  BY <1>1, <1>2, <1>3, <1>4, <1>5 DEF RequestPaid, Reading
<1>11. HeldPaid(w)'
  <2> SUFFICES ASSUME NEW j \in Invoices, lock'[j] = w
               PROVE  draft'[j].paid = invoice'[j].paid + PaidBy(w, j)'
    BY DEF HeldPaid
  <2>1. PaidBy(w, j)' = -AmountFor(payment[p].apps, j)
    BY <1>1, <1>2, <1>3, <1>4, <1>5, NullAssumption DEF PaidBy
  <2>2. PaidBy(w, j) = -AmountFor(payment[p].apps, j)
    BY <1>1, <1>2, <1>3, <1>7, NullAssumption DEF PaidBy
  <2> QED
    BY <1>2, <1>8, <2>1, <2>2 DEF PaidInv, HeldPaid
<1>12. LivePayments' = LivePayments
  BY <1>2, <1>3, <1>4 DEF LivePayments
<1>13. \A j : AppliedTo(j)' = AppliedTo(j)
  BY <1>4, <1>12, AppliedKept DEF LivePayments
<1>14. RowsPaid'
  BY <1>2, <1>13 DEF PaidInv, RowsPaid
<1>15. AppsPaid'
  <2>1. \A q \in Payments : \A j \in Invoices : AppliesTo(q, j)' => AppliesTo(q, j)
    BY <1>4 DEF AppliesTo
  <2>2. \A q \in Payments : Distinct(payment'[q].apps)
    BY <1>4 DEF PaidInv, AppsPaid
  <2> QED
    BY <1>2, <1>4, <1>8, <2>1, <2>2 DEF PaidInv, AppsPaid
<1> QED
  BY <1>9, <1>10, <1>11, <1>14, <1>15 DEF PaidInv

\* A rollback leaves the committed rows, and the payments that stood.
LEMMA RollbackPaid ==
  ASSUME IInv, PaidInv, NEW w \in Workers, Rollback(w)
  PROVE  PaidInv'
<1>1. /\ draft' = [i \in Invoices |-> IF i \in Held(w) THEN invoice[i] ELSE draft[i]]
      /\ lock' = [i \in Invoices |-> IF i \in Held(w) THEN NoWorker ELSE lock[i]]
      /\ payment' = [p \in Payments |->
           IF payment[p].by # w THEN payment[p]
           ELSE IF payment[p].st = "open" THEN FreePayment
           ELSE [payment[p] EXCEPT !.st = "live", !.by = NoWorker]]
      /\ Finish(w, {}) /\ UNCHANGED invoice
  BY DEF Rollback
<1>2. pc'[w] = "idle" /\ \A v \in Workers \ {w} : Unmoved(v)
  BY <1>1, FinishFacts DEF IInv, Base
<1>3. \A i \in Invoices :
        /\ lock[i] = w => draft'[i] = invoice[i] /\ lock'[i] = NoWorker
        /\ lock[i] # w => draft'[i] = draft[i] /\ lock'[i] = lock[i]
  BY <1>1 DEF Held
<1>4. ASSUME NEW p \in Payments
      PROVE  /\ payment[p].by # w => payment'[p] = payment[p]
             /\ payment[p].by = w /\ payment[p].st = "open" => payment'[p] = FreePayment
             /\ payment[p].by = w /\ payment[p].st = "voiding" =>
                  /\ payment'[p].st = "live" /\ payment'[p].by = NoWorker
                  /\ payment'[p].apps = payment[p].apps
             /\ payment[p].by = w => payment[p].st \in {"open", "voiding"}
  <2>1. payment[p] \in PaymentRow /\ (payment[p].by = w => payment[p].st \in {"open", "voiding"})
    BY DEF IInv, Base, Types, PaymentsOK
  <2>2. CASE payment[p].by # w
    BY <1>1, <2>1, <2>2
  <2>3. CASE payment[p].by = w /\ payment[p].st = "open"
    BY <1>1, <2>1, <2>3
  <2>4. CASE payment[p].by = w /\ payment[p].st = "voiding"
    <3>1. payment'[p] = [payment[p] EXCEPT !.st = "live", !.by = NoWorker]
      BY <1>1, <2>4
    <3> QED
      BY <2>1, <2>4, <3>1 DEF PaymentRow
  <2> QED
    BY <2>1, <2>2, <2>3, <2>4
<1>5. FreePayment.st = "free" /\ FreePayment.by = NoWorker /\ FreePayment.apps = <<>>
  BY DEF FreePayment
<1>6. \A v \in Workers \ {w} : RequestPaid(v)' /\ HeldPaid(v)'
  <2>1. \A p \in Payments : payment[p].by \in Workers \ {w} => payment'[p] = payment[p]
    BY <1>4
  <2>2. \A p \in Payments : payment[p].st \in {"live", "voiding"} =>
          payment'[p].st \in {"live", "voiding"} /\ payment'[p].apps = payment[p].apps
    BY <1>4
  <2>3. \A p \in Payments : payment[p].st = "void" => payment'[p].st = "void"
    BY <1>4
  <2>4. \A i \in Invoices : \A v \in Workers \ {w} :
          (lock'[i] = v <=> lock[i] = v) /\ (lock[i] = v => draft'[i] = draft[i] /\ invoice'[i] = invoice[i])
    BY <1>1, <1>3, NullAssumption
  <2>5. UNCHANGED invoice
    BY <1>1
  <2> QED
    BY <1>2, <2>1, <2>2, <2>3, <2>4, <2>5, OthersPaid
<1>7. RequestPaid(w)' /\ HeldPaid(w)'
  <2>1. \A i \in Invoices : lock'[i] # w
    BY <1>3, NullAssumption
  <2> QED
    BY <1>2, <2>1 DEF RequestPaid, HeldPaid, Reading
<1>8. LivePayments' = LivePayments /\ \A p \in LivePayments : payment'[p].apps = payment[p].apps
  BY <1>4, <1>5 DEF LivePayments
<1>9. \A j : AppliedTo(j)' = AppliedTo(j)
  BY <1>8, AppliedKept
<1>10. RowsPaid'
  <2>1. \A i \in Invoices : lock'[i] \in Workers => lock[i] \in Workers /\ draft'[i] = draft[i]
    BY <1>3, NullAssumption
  <2>2. \A i \in Invoices : Begun(invoice[i]) => Begun(draft'[i])
    BY <1>3 DEF PaidInv, RowsPaid
  <2> QED
    BY <1>1, <1>9, <2>1, <2>2 DEF PaidInv, RowsPaid
<1>11. AppsPaid'
  <2>1. ASSUME NEW q \in Payments, NEW j \in Invoices, AppliesTo(q, j)'
        PROVE  /\ payment'[q].st \in {"open", "live", "voiding"}
               /\ Begun(draft'[j])
               /\ payment'[q].st # "open" => Begun(invoice'[j])
               /\ payment'[q].by \in Workers => lock'[j] = payment'[q].by
    <3>1. payment'[q].apps = payment[q].apps
            /\ ~(payment[q].by = w /\ payment[q].st = "open")
      BY <1>4, <1>5, <2>1, EmptySeq DEF AppliesTo
    <3>2. AppliesTo(q, j)
      BY <2>1, <3>1 DEF AppliesTo
    <3>3. /\ payment[q].st \in {"open", "live", "voiding"} /\ Begun(draft[j])
          /\ payment[q].st # "open" => Begun(invoice[j])
          /\ payment[q].by \in Workers => lock[j] = payment[q].by
      BY <3>2 DEF PaidInv, AppsPaid
    <3>4. payment[q].st = "open" => payment[q].by \in Workers /\ lock[j] # w
      BY <3>1, <3>3 DEF IInv, Base, PaymentsOK
    <3>5. Begun(draft'[j])
      BY <1>3, <3>3, <3>4
    <3> QED
      BY <1>1, <1>3, <1>4, <3>1, <3>3, <3>5, NullAssumption
  <2>2. \A q \in Payments : Distinct(payment'[q].apps)
    <3>1. Distinct(<<>>)
      BY EmptySeq DEF Distinct
    <3>2. \A q \in Payments : payment'[q].apps \in {payment[q].apps, <<>>}
      BY <1>4, <1>5
    <3> QED
      BY <3>1, <3>2 DEF PaidInv, AppsPaid
  <2> QED
    BY <2>1, <2>2 DEF AppsPaid
<1> QED
  BY <1>6, <1>7, <1>10, <1>11 DEF PaidInv

\* What commits with the rows is what they differ by.
LEMMA CommitPaid ==
  ASSUME IInv, PaidInv, NEW w \in Workers, Commit(w)
  PROVE  PaidInv'
<1>1. /\ pc[w] = "commit"
      /\ invoice' = [i \in Invoices |-> IF i \in Held(w) THEN draft[i] ELSE invoice[i]]
      /\ lock' = [i \in Invoices |-> IF i \in Held(w) THEN NoWorker ELSE lock[i]]
      /\ payment' = [p \in Payments |->
           IF payment[p].by # w THEN payment[p]
           ELSE IF payment[p].st = "open" THEN [payment[p] EXCEPT !.st = "live", !.by = NoWorker]
           ELSE [FreePayment EXCEPT !.st = "void"]]
      /\ Finish(w, Held(w)) /\ UNCHANGED draft
  BY DEF Commit
<1>2. pc'[w] = "idle" /\ \A v \in Workers \ {w} : Unmoved(v)
  BY <1>1, FinishFacts DEF IInv, Base
<1>3. \A i \in Invoices :
        /\ lock[i] = w => invoice'[i] = draft[i] /\ lock'[i] = NoWorker
        /\ lock[i] # w => invoice'[i] = invoice[i] /\ lock'[i] = lock[i]
  BY <1>1 DEF Held
<1>4. ASSUME NEW p \in Payments
      PROVE  /\ payment[p].by # w => payment'[p] = payment[p]
             /\ payment[p].by = w /\ payment[p].st = "open" =>
                  /\ payment'[p].st = "live" /\ payment'[p].by = NoWorker
                  /\ payment'[p].apps = payment[p].apps
             /\ payment[p].by = w /\ payment[p].st = "voiding" =>
                  payment'[p].st = "void" /\ payment'[p].by = NoWorker /\ payment'[p].apps = <<>>
             /\ payment[p].by = w => payment[p].st \in {"open", "voiding"} /\ p = req[w].pay
  <2>1. payment[p] \in PaymentRow
    BY DEF IInv, Base, Types
  <2>2. payment[p].by = w => payment[p].st \in {"open", "voiding"} /\ p = req[w].pay
    BY DEF IInv, Base, PaymentsOK
  <2>3. CASE payment[p].by # w
    BY <1>1, <2>3
  <2>4. CASE payment[p].by = w /\ payment[p].st = "open"
    <3>1. payment'[p] = [payment[p] EXCEPT !.st = "live", !.by = NoWorker]
      BY <1>1, <2>4
    <3> QED
      BY <2>1, <2>2, <2>4, <3>1 DEF PaymentRow
  <2>5. CASE payment[p].by = w /\ payment[p].st = "voiding"
    <3>1. payment'[p] = [FreePayment EXCEPT !.st = "void"]
      BY <1>1, <2>5
    <3>2. payment'[p].st = "void" /\ payment'[p].by = NoWorker /\ payment'[p].apps = <<>>
      BY <3>1 DEF FreePayment
    <3> QED
      BY <2>2, <2>5, <3>2
  <2> QED
    BY <2>2, <2>3, <2>4, <2>5
<1>5. /\ \A i \in Invoices : lock[i] = w => draft[i].paid = invoice[i].paid + PaidBy(w, i)
      /\ \A i \in Invoices : lock[i] = w => draft[i].status # "NONE"
  BY <1>1 DEF PaidInv, HeldPaid, RowsPaid, Sound
<1>6. \A v \in Workers \ {w} : RequestPaid(v)' /\ HeldPaid(v)'
  <2>1. \A p \in Payments : payment[p].by \in Workers \ {w} => payment'[p] = payment[p]
    BY <1>4
  <2>2. \A p \in Payments : payment[p].st \in {"live", "voiding"} =>
          payment'[p].st = "void" \/ (payment'[p].st \in {"live", "voiding"}
                                        /\ payment'[p].apps = payment[p].apps)
    BY <1>4
  <2>3. \A p \in Payments : payment[p].st = "void" => payment'[p].st = "void"
    BY <1>4
  <2>4. \A i \in Invoices : \A v \in Workers \ {w} :
          (lock'[i] = v <=> lock[i] = v) /\ (lock[i] = v => draft'[i] = draft[i] /\ invoice'[i] = invoice[i])
    BY <1>1, <1>3, NullAssumption
  <2>5. \A i \in Invoices : /\ invoice[i].status # "NONE" => invoice'[i].status # "NONE"
                            /\ Begun(invoice[i]) => Begun(invoice'[i])
    BY <1>3, <1>5 DEF PaidInv, RowsPaid
  <2> QED
    BY <1>2, <2>1, <2>2, <2>3, <2>4, <2>5, OthersPaid
<1>7. RequestPaid(w)' /\ HeldPaid(w)'
  <2>1. \A i \in Invoices : lock'[i] # w
    BY <1>3, NullAssumption
  <2> QED
    BY <1>2, <2>1 DEF RequestPaid, HeldPaid, Reading
<1>8. ASSUME NEW i \in Invoices PROVE invoice'[i].paid = AppliedTo(i)'
  <2>1. invoice[i].paid = AppliedTo(i) /\ AppliedTo(i) \in Nat
    BY AppliedType DEF PaidInv, RowsPaid, IInv, Base
  <2>2. PICK p : p = req[w].pay
    OBVIOUS
  <2>3. p = NoPayment \/ (p \in Payments /\ payment[p].by = w /\ payment[p].st \in {"open", "voiding"})
    BY <1>1, <2>2, OwnPayment
  <2>4. CASE p = NoPayment
    <3>1. \A q \in Payments : payment'[q] = payment[q]
      BY <1>4, <2>2, <2>4, NullAssumption
    <3>2. AppliedTo(i)' = AppliedTo(i)
      BY <3>1, AppliedKept DEF LivePayments
    <3>3. PaidBy(w, i) = 0
      BY <2>2, <2>4 DEF PaidBy
    <3> QED
      BY <1>3, <1>5, <2>1, <3>2, <3>3
  <2>5. ASSUME p \in Payments, payment[p].by = w
        PROVE  /\ AmountFor(payment[p].apps, i) \in Nat
               /\ lock[i] # w => AmountFor(payment[p].apps, i) = 0
    <3>1. payment[p].apps \in Seq(App)
      BY <2>5, AppsType DEF IInv, Base
    <3>2. lock[i] # w => ~Uses(payment[p].apps, i)
      BY <2>5 DEF PaidInv, AppsPaid, AppliesTo, Uses
    <3> QED
      BY <3>1, <3>2, AmountForType
  <2>6. CASE p \in Payments /\ payment[p].by = w /\ payment[p].st = "open"
    <3>1. /\ p \in Payments \ LivePayments /\ LivePayments' = LivePayments \union {p}
          /\ \A q \in LivePayments \union {p} : payment'[q].apps = payment[q].apps
      BY <1>4, <2>2, <2>6 DEF LivePayments
    <3>2. AppliedTo(i)' = AppliedTo(i) + AmountFor(payment[p].apps, i)
      BY <3>1, AppliedMore DEF IInv, Base
    <3>3. PaidBy(w, i) = AmountFor(payment[p].apps, i)
      BY <2>2, <2>6, NullAssumption DEF PaidBy
    <3> QED
      BY <1>3, <1>5, <2>1, <2>5, <2>6, <3>2, <3>3
  <2>7. CASE p \in Payments /\ payment[p].by = w /\ payment[p].st = "voiding"
    <3>1. /\ p \in LivePayments /\ LivePayments' = LivePayments \ {p}
          /\ \A q \in LivePayments \ {p} : payment'[q].apps = payment[q].apps
      BY <1>4, <2>2, <2>7 DEF LivePayments
    <3>2. AppliedTo(i)' = AppliedTo(i) - AmountFor(payment[p].apps, i)
      BY <3>1, AppliedLess DEF IInv, Base
    <3>3. PaidBy(w, i) = -AmountFor(payment[p].apps, i)
      BY <1>1, <2>2, <2>7, NullAssumption DEF PaidBy
    <3>4. PICK a \in Int, b \in Int : a = AmountFor(payment[p].apps, i) /\ b = AppliedTo(i)
      BY <2>1, <2>5, <2>7
    <3>5. b + (-a) = b - a
      BY <3>4
    <3>6. AppliedTo(i)' = b - a /\ PaidBy(w, i) = -a /\ invoice[i].paid = b
      BY <2>1, <3>2, <3>3, <3>4
    <3>7. CASE lock[i] = w
      BY <1>3, <1>5, <3>5, <3>6, <3>7
    <3>8. CASE lock[i] # w
      <4>1. a = 0 /\ b - a = b
        BY <2>5, <2>7, <3>4, <3>8
      <4> QED
        BY <1>3, <3>6, <3>8, <4>1
    <3> QED
      BY <3>7, <3>8
  <2> QED
    BY <2>3, <2>4, <2>6, <2>7
<1>9. RowsPaid'
  <2>1. \A i \in Invoices : lock'[i] \in Workers => lock[i] \in Workers /\ invoice'[i] = invoice[i]
    BY <1>3, NullAssumption
  <2>2. \A i \in Invoices : Begun(invoice'[i]) => Begun(draft[i])
    BY <1>3 DEF PaidInv, RowsPaid
  <2> QED
    BY <1>1, <1>8, <2>1, <2>2 DEF PaidInv, RowsPaid
<1>10. AppsPaid'
  <2>1. ASSUME NEW q \in Payments, NEW j \in Invoices, AppliesTo(q, j)'
        PROVE  /\ payment'[q].st \in {"open", "live", "voiding"}
               /\ Begun(draft'[j])
               /\ payment'[q].st # "open" => Begun(invoice'[j])
               /\ payment'[q].by \in Workers => lock'[j] = payment'[q].by
    <3>1. payment'[q].apps = payment[q].apps
            /\ ~(payment[q].by = w /\ payment[q].st = "voiding")
      BY <1>4, <2>1, EmptySeq DEF AppliesTo
    <3>2. AppliesTo(q, j)
      BY <2>1, <3>1 DEF AppliesTo
    <3>3. /\ payment[q].st \in {"open", "live", "voiding"} /\ Begun(draft[j])
          /\ payment[q].st # "open" => Begun(invoice[j])
          /\ payment[q].by \in Workers => lock[j] = payment[q].by
      BY <3>2 DEF PaidInv, AppsPaid
    <3>4. Begun(invoice[j]) \/ lock[j] = w => Begun(invoice'[j])
      BY <1>3, <3>3
    <3> QED
      BY <1>1, <1>3, <1>4, <3>1, <3>3, <3>4, NullAssumption
  <2>2. \A q \in Payments : Distinct(payment'[q].apps)
    <3>1. Distinct(<<>>)
      BY EmptySeq DEF Distinct
    <3>2. \A q \in Payments : payment'[q].apps \in {payment[q].apps, <<>>}
      BY <1>4
    <3> QED
      BY <3>1, <3>2 DEF PaidInv, AppsPaid
  <2> QED
    BY <2>1, <2>2 DEF AppsPaid
<1> QED
  BY <1>6, <1>7, <1>9, <1>10 DEF PaidInv

\* Nothing is paid but by a request's step.
LEMMA StutterPaid == PaidInv /\ UNCHANGED vars => PaidInv'
<1> SUFFICES ASSUME PaidInv, UNCHANGED vars PROVE PaidInv'
  OBVIOUS
<1>1. UNCHANGED <<invoice, draft, lock, payment, pc, req>>
  BY DEF vars
<1>2. \A j : AppliedTo(j)' = AppliedTo(j)
  BY <1>1, AppliedKept DEF LivePayments
<1>3. RowsPaid'
  BY <1>1, <1>2 DEF PaidInv, RowsPaid
<1>4. AppsPaid'
  BY <1>1 DEF PaidInv, AppsPaid, AppliesTo
<1>5. ASSUME NEW w \in Workers PROVE RequestPaid(w)' /\ HeldPaid(w)'
  <2>1. RequestPaid(w) /\ HeldPaid(w)
    BY DEF PaidInv
  <2>2. RequestPaid(w)'
    BY <1>1, <2>1 DEF RequestPaid, AppliesTo, Sound
  <2>3. HeldPaid(w)'
    BY <1>1, <2>1 DEF HeldPaid, PaidBy, Sound
  <2> QED
    BY <2>2, <2>3
<1> QED
  BY <1>3, <1>4, <1>5 DEF PaidInv

\* So does every step.
LEMMA NextPaid == IInv /\ PaidInv /\ [Next]_vars => PaidInv'
<1> SUFFICES ASSUME IInv, PaidInv, [Next]_vars PROVE PaidInv'
  OBVIOUS
<1>1. CASE UNCHANGED vars
  BY <1>1, StutterPaid
<1>2. ASSUME NEW w \in Workers, Begin(w) PROVE PaidInv'
  <2>1. CASE UpdateInvoice(w)
    BY <2>1, FinishPaid DEF UpdateInvoice
  <2> QED
    BY <1>2, <2>1, CreateInvoicePaid, ReadsPaid, ChecksPaid, LoadForVoidPaid DEF Begin
<1>3. ASSUME NEW w \in Workers, Step(w) PROVE PaidInv'
  <2>1. CASE Rollback(w)
    BY <2>1, RollbackPaid
  <2>2. CASE UpdateInvoiceStatus(w) \/ CountApplications(w) \/ CheckInvoice(w) \/ InsertPayment(w)
    BY <2>2, UpdateInvoiceStatusPaid, ChecksPaid, InsertPaymentPaid
  <2>3. CASE ~Rollback(w) /\ (CancelInvoice(w) \/ UpdateInvoiceLineItems(w))
    BY <2>3, RewritesPaid
  <2>4. CASE ~Rollback(w) /\ (ApplyPaymentToInvoice(w) \/ SoftDeletePayment(w))
    BY <2>4, ApplyPaymentToInvoicePaid, SoftDeletePaymentPaid
  <2>5. CASE UnapplyPaymentFromInvoice(w) \/ Commit(w)
    BY <2>5, UnapplyPaymentFromInvoicePaid, CommitPaid
  <2>6. BreakDeadlock(w) => Rollback(w)
    BY DEF BreakDeadlock
  <2> QED
    BY <1>3, <2>1, <2>2, <2>3, <2>4, <2>5, <2>6 DEF Step
<1>4. ASSUME NEW w \in Workers, Abort(w) PROVE PaidInv'
  BY <1>4, RollbackPaid DEF Abort
<1> QED
  BY <1>1, <1>2, <1>3, <1>4 DEF Next

\* It is so always.
LEMMA PaidHolds == Spec => [](IInv /\ PaidInv)
<1>1. Init => IInv /\ PaidInv
  BY InitInv, InitPaid
<1>2. IInv /\ PaidInv /\ [Next]_vars => (IInv /\ PaidInv)'
  BY NextInv, NextPaid
<1> QED
  BY <1>1, <1>2, PTL DEF Spec

\* Rows and requests have their types, and what is committed as paid is an
\* amount: no order of payments and voids takes off a row what was never put
\* on it.
THEOREM TypeOKHolds == Spec => []TypeOK
<1>1. IInv /\ PaidInv => TypeOK
  <2> SUFFICES ASSUME IInv, PaidInv PROVE TypeOK
    OBVIOUS
  <2>1. Types /\ PaymentsOK
    BY DEF IInv, Base
  <2>2. \A i \in Invoices : invoice[i].paid \in Nat
    BY <2>1, AppliedType DEF PaidInv, RowsPaid
  <2>3. ASSUME NEW p \in Payments
        PROVE  /\ payment[p].st \in {"free", "open", "live", "voiding", "void"}
               /\ IF payment[p].st \in {"open", "voiding"} THEN payment[p].by \in Workers
                  ELSE payment[p].by = NoWorker
               /\ payment[p].apps \in Seq([inv : Invoices, amt : Nat \ {0}])
    <3>1. payment[p] \in PaymentRow
      BY <2>1 DEF Types
    <3> QED
      BY <2>1, <3>1 DEF PaymentRow, PaymentsOK, Owners, App
  <2> QED
    BY <2>1, <2>2, <2>3 DEF TypeOK, Types, Steps, Owners
<1> QED
  BY <1>1, PaidHolds, PTL

\* An invoice's paid_amount is the sum of the applications it has, for any
\* number of payments created, voided, voided twice and rolled back on it
\* together, in cents and below them.
THEOREM PaidIsAppliedHolds == Spec => []PaidIsApplied
<1>1. PaidInv => PaidIsApplied
  BY DEF PaidInv, RowsPaid, PaidIsApplied
<1> QED
  BY <1>1, PaidHolds, PTL

\* A draft has no money on it, so the SENT that a void restores was there.
THEOREM DraftUnpaidHolds == Spec => []DraftUnpaid
<1>1. IInv /\ PaidInv => DraftUnpaid
  <2> SUFFICES ASSUME IInv, PaidInv, NEW i \in Invoices, invoice[i].status = "DRAFT"
               PROVE  invoice[i].paid = 0 /\ AppliedTo(i) = 0
    BY DEF DraftUnpaid
  <2>1. \A p \in LivePayments : ~AppliesTo(p, i)
    BY DEF PaidInv, AppsPaid, LivePayments, Begun
  <2> QED
    BY <2>1, AppliedType DEF PaidInv, RowsPaid, IInv, Base
<1> QED
  BY <1>1, PaidHolds, PTL

\* With versions a cancelled invoice has no payment on it: who counts its
\* applications and finds none cancels the row it counted for.
THEOREM CancelledUnpaidHolds ==
  ASSUME Exact
  PROVE  Spec => []CancelledUnpaid
<1>1. IInv => CancelledUnpaid
  <2> SUFFICES ASSUME IInv, NEW i \in Invoices, invoice[i].status = "CANCELLED"
               PROVE  AppliedTo(i) = 0
    BY DEF CancelledUnpaid
  <2>1. \A p \in LivePayments : ~AppliesTo(p, i)
    BY DEF IInv, Sharp, AppsOK, Sent
  <2> QED
    BY <2>1, AppliedType DEF IInv, Base
<1> QED
  BY <1>1, InvHolds, PTL
=============================================================================
