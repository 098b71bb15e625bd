# Denarix in TLA+

Denarix is a bookkeeping server: a Go program that serves a Connect/gRPC API
over one PostgreSQL database. A business posts double-entry transactions,
invoices its customers, records its vendors' bills, takes and makes payments,
and closes its periods; a closed period is locked. This directory holds a TLA+
model of the parts of that program whose correctness depends on the order in
which requests, statements and commits happen, the TLC configurations that
check the model on small instances, and theorems about it that TLAPS proves
for every instance.

Paths below are relative to the repository: `src/` is dropped from those of
Go, SQL and documentation files.

## 1. The system

### How a request runs

Every handler of `internal/server` follows one pattern, and the models are
built on it:

1. it authorizes the caller and reads what it needs *on the pool*, one
   autocommitted SELECT after the other;
2. it decides, and refuses what it can refuse;
3. it writes: either by one UPDATE/INSERT, or in one `Store.ExecTx`
   (`internal/db/store.go:46-69`), a READ COMMITTED transaction that commits
   when the callback returns nil and rolls back on any error or panic.

Between (1) and (3), and between two statements of (3), every other request may
run. What protects the data is therefore not the reads but what the writing
statements themselves check: row locks, the `WHERE` clauses of guarded UPDATEs
(`status = from_status`, `balance_due >= amount`, `resource_version`), the
partial unique indexes, the CHECK constraints and the trigger
`enforce_period_lock`. There is no background job, no queue, no retry loop and
no cache; a client may send any request again, and the process may die at any
point, which PostgreSQL turns into a rollback.

### Components

| component | state it keeps | operations | what makes it correct |
|---|---|---|---|
| ledger arithmetic (`internal/ledgermath`, `internal/ledgerpost/entries.go`) | none | NetBalance, EntryForNormalDelta, DebitCreditFor, VerifyBalanced | a posting for a change of d moves the balance by exactly d; entries satisfy the table's CHECK; debits equal credits |
| ledger (`ledger_transaction_service.go`, `ledgerpost/reverse.go`) | ledger_transaction, ledger_entry | CreateLedgerTransaction, ReverseLedgerTransaction | append-only and balanced; reversed at most once, exactly; nothing in a locked period |
| period close (`internal/periodclose`, `period_close_service.go`) | period_close, period_close_entry, postings | TriggerClose, ReverseClose | all or nothing; periods tile the calendar; the income of a closed period stays zero; a reversal restores the books |
| system accounts (`periodclose/provision.go`, `server/system_accounts.go`) | ledger_account rows with is_system | provision, adopt, deactivate | one Income Summary, one Retained Earnings, one AR and one AP container per business |
| invoices (`invoice_service.go`, `sql/queries/trading.sql`) | invoice, invoice_line_item, its posting | Create, Update, UpdateStatus (incl. cancel), UpdateLineItems | the document and the ledger say the same; a cancelled invoice is final and unpaid |
| payments (`payment_service.go`) | payment, payment_application, paid_amount/balance_due/status of invoices | CreatePayment, VoidPayment | paid_amount is the sum of the applications; never more than is due; a void restores |
| invoice posting, document lines (`invoice_posting.go`, `document_lines.go`) | ledger_entry of documents | post, repost, cancel | the legs of an invoice balance after per-line rounding |
| optimistic concurrency (`resource_version.go`) | resource_version of every row | precondition on UPDATE | a client that sends the version it read never overwrites a change it has not seen |
| estimates, contacts, items, tax rates, accounts, reference data | their rows | CRUD under resource_version | single-row updates |
| numbering and businesses (`business_service.go`) | business (next numbers, pinned accounts), business_invite | create, claim a number, invite, accept, revoke | sales are numbered without a gap; an invite is used once |
| sessions and tokens (`internal/auth/session.go`, `jwt.go`, `authcode.go`) | user_session | create, rotate, revoke | a login has one working token, and a logout ends it |
| registration and credentials (`webauthn.go`, `bootstrap.go`, `user_service.go`, `httpauth.go`) | credential_enrollment, credential, user | enroll, register, re-issue | redeeming a reset ends the old passkeys and never locks the account out |
| authorization, global admin (`authz.go`, `admin.go`) | business_user, app_user.is_global_admin | role checks, transfer, bootstrap | one global admin, and none is lost on the way |
| bank statements (`banking_service.go`) | bank_statement, bank_statement_line | create, reconcile, deactivate | (section 7) |
| attachments and notes (`attachment_service.go`, `internal/storage`, `entity_context_service.go`) | attachment rows and stored objects, entity_context | upload, read, delete; note, supersede, delete | a row's object exists; a note is only hidden behind one that can be seen |
| reporting (`internal/reporting`) | none | trial balance, statements | reports agree with the entries |
| PDF rendering, `dxctl` client, start-up, migration, generated code | none of their own | | |

Interactions: invoices and payments post to the ledger inside their own
transactions; every insert or update there fires the period lock's trigger; the
period close reads the ledger's entries and writes postings, then the row the
trigger reads; invoices and payments share rows of `invoice` under row locks.

### What is hard

* Postings, closes and reversals of closes in flight together: each sees only
  what is committed.
* Statements that wait: an INSERT on an index key somebody else's open
  transaction holds, an UPDATE on a locked row, in several rows in different
  orders (deadlock).
* Decisions on rows read on the pool before the transaction.
* Long legal sequences: close, reverse by hand, reverse the close, close again.
* Two statements that are not a transaction: a new session and the revocation
  of the old one, an object and its row, the grant of the admin and its token.
* Cents: `DECIMAL(15,2)` columns round what the handlers compare unrounded.

`PROJECT.json` lists each of these as a hazard at its line, with the properties
that watch it.

## 2. Modules

| module | what it is |
|---|---|
| `LedgerMath` | the sign conventions, entry constructors and column rounding, as operators |
| `LedgerMath_proofs` | theorems about them, and about sums over finite sets |
| `PeriodClose` | the ledger, its reversals, the period close and the lock, per statement |
| `PeriodCloseInv`, `PeriodClose_proofs` | its inductive invariant, and the theorems |
| `Books`, `PeriodCloseBooks` | the abstract books (balances per date and the closed periods, atomic), and the refinement mapping from the tables |
| `Reporting` | the balance sheet and net income, read from the ledger of `PeriodClose` (its theorem is in `PeriodClose_proofs`, as the refinement's is) |
| `Documents`, `Documents_proofs` | invoices and payments, per statement; its invariant and theorems |
| `Posting`, `Posting_proofs` | what a document's lines compute and post: one request after the other, cent by cent; its invariant and theorems |
| `Business`, `GaplessNumbers`, `Business_proofs` | system accounts, contacts' accounts and document numbers, per statement; what the numbers promise; its invariant and theorems |
| `Sessions`, `Sessions_proofs` | codes, sessions, rotation and logout, per statement; its invariant and theorems |
| `Access`, `Access_proofs` | the global admin, the server's start, invites and enrollments, per statement; its invariant and theorems |
| `Context`, `Context_proofs` | notes and attachments, per statement; its invariant and theorems |
| `MC*` | the small instances TLC checks |

The modules share the pattern of `internal/db/store.go`, not variables: what two
of them have in common (the invoice in `Documents` and `Posting`, the transaction
a close posts in `PeriodClose` and the accounts it resolves in `Business`) is
cut where the code commits or where nothing else reads in between. `Reporting`
extends `PeriodClose`; `PeriodClose`, `Documents` and `Posting` compute with
`LedgerMath`.

In all of them a row that is inserted and not committed names the request whose
transaction holds it, reads see what is committed and their own writes, an
INSERT under a key held by an open transaction waits, an UPDATE of a locked row
waits, and `Abort` lets any request fail between any two statements.

### PeriodClose and the code

State. `txn`, `entry` and `close` are the tables, with a row's transaction
state in the row: a `ledger_transaction` is `free` (not inserted), `open`
(inserted by the transaction of the worker `by`) or `live` (committed); a
`period_close` is also `reversing` (marked reversed by `by`, uncommitted) and
`reversed`. `entry[t]` gives each account's debit minus credit in transaction
`t`; `close[c].entries` are the `period_close_entry` rows. `pc`, `req` and `net`
are what the goroutine of a request remembers: where it is, what it was asked
for or has read, and the balances it sweeps.

Visibility is explicit. `VisibleTxn`, `ActiveClose`, `Locked`, `LastClose`,
`PeriodStart` and `BalanceBetween` say what one statement of one request sees:
everything committed plus its own writes. The two partial unique indexes are
`Reversed`/`ReversalInFlight` and `EndTaken`/`EndInFlight`: the first of each
pair makes the insert fail, the second makes it wait.

| action | code |
|---|---|
| CreateLedgerTransaction | `LedgerTransactionService.CreateLedgerTransaction` |
| CheckReversible, InsertReversal | `ReverseLedgerTransaction`: the checks on the pool, then the transaction |
| BeginClose, ReadBalances, PostZeroing, PostSweep, CreatePeriodClose | `TriggerClose`, `periodclose.Close`, `postZeroingTransaction`, `postSweepTransaction` |
| CheckReverse, BeginReverse, MarkReversed, PostReversal | `ReverseClose`, `periodclose.Reverse`, `ledgerpost.ReverseTransaction` |
| Commit, Rollback, Abort | `Store.ExecTx` |

One `ledger_transaction` and its entries are one step. The rows are invisible
to others until the commit, so the only thing others can change in between is
the trigger's answer; each statement asks the trigger again, and if a close
commits between two of them the transaction fails as if it had asked at the
last one. Abstractions: the business, its two system accounts and their
existence are fixed; dates are `1..LastDate` and a period's start is inception
or the day after the last close; amounts are integers of `1/CentParts` of a
cent; ids are names, and the id of a rolled-back row may be used again; entries
of a committed transaction do not change (`repostInvoiceLedger`, which rewrites
a document's entries, is not composed with the close yet), and the refusal to
reverse a document's transaction by hand is absent because the model's
transactions belong to no document. Actor, currency, description and audit
columns are left out.

### Documents and the code

State. `invoice` is the committed row, `draft` the row as the holder of its
`lock` has rewritten it, `payment` the payments with their applications, `pc`
and `req` the requests: `req.seen` is what the handler read on the pool and
`req.stale` says that the row has been written since, which is all that
comparing `resource_version` can find out.

| action | code |
|---|---|
| CreateInvoice, UpdateInvoice | the handlers of those names |
| LoadForStatus, UpdateInvoiceStatus | `UpdateInvoiceStatus` to SENT or OVERDUE: one guarded UPDATE |
| LoadForCancel, CountApplications, CancelInvoice | `UpdateInvoiceStatus` to CANCELLED: read, count on the pool, then the transaction |
| LoadForLines, UpdateInvoiceLineItems | `UpdateInvoiceLineItems` |
| BeginPayment, CheckInvoice, InsertPayment, ApplyPaymentToInvoice | `CreatePayment`, one application at a time |
| LoadForVoid, UnapplyPaymentFromInvoice, SoftDeletePayment | `VoidPayment`, one application at a time |
| BreakDeadlock | PostgreSQL's deadlock detector (external) |
| Commit, Rollback, Abort | `Store.ExecTx` |

Abstractions: the ledger is reduced to the amount an invoice's transaction
posts to the contact's account and the amount its reversal takes back; the
posting of a payment is part of its row's state, as both appear and disappear
in one transaction; a posting the ledger refuses, and a payment number already
taken, are `Abort`; a client's `resource_version` is the one the handler would
load; the header edit changes nothing but the version, so its read and its
UPDATE are one step. Left out: invoices that total zero, invoices from before
postings existed, payments without applications, numbering, the arithmetic of
lines.

### Posting and the code

State. `item`, `active` and `rate` are the catalog, `estimate` an estimate's
stored lines, `invoice` an invoice with its lines and total, `entries` the
entries of its transaction and of that transaction's reversal. A handler reads
items and rates and writes its document in one transaction and reads nothing
twice, so each is one action.

| action | code |
|---|---|
| CreateInvoice, UpdateInvoiceLineItems | `resolveLine`, `computeLines` (`document_lines.go`), `writeInvoiceLedgerEntries`, `repostInvoiceLedger` (`invoice_posting.go`), `VerifyBalanced` |
| CreateInvoiceFromEstimate | `newDocumentLineItemsFromEstimate`, then as above |
| CancelInvoice | `cancelInvoice` with `ledgerpost.ReverseTransaction` |
| WriteEstimate | `CreateEstimate`, `UpdateEstimateLineItems` |
| UpdateTaxRate, UpdateItem, DeactivateItem | the handlers of those names |

`TaxBreakdown` is `taxBreakdown` of the printed invoice. Rows are functions of
what identifies them: a document's lines of their number; the legs of an invoice
of what each is for, the contact, a line, or the tax gathered for a liability
account (the map `taxByLiabilityAccount`); the rows of the breakdown of the line
where their rate first appears. Abstractions: one invoice and one estimate,
followed one at a time; quantities, prices and rates are integers of `QtyParts`,
`PriceParts`, `RateParts`; `Stored` rounds as the columns do. A refused posting sets `refused`, which `NeverRefused` forbids.

### Business and the code

State. `business` is the committed row (pinned accounts, next numbers), `draft`
the row as the holder of `lock` has rewritten it, `account` the account at each
system account's code, `contact` the contacts with their sub-accounts,
`document` the rows of the number indexes.

| action | code |
|---|---|
| CreateBusiness | `CreateBusiness`, with its four accounts, in one transaction nobody sees into |
| BeginClose, CreateContact | `ProvisionSystemAccounts` of a close, `CreateContact` |
| ReadBusiness, FindAccount, InsertAccount, PinAccount | `resolveSystemAccount`, `getOrCreateContainerAccount`, and their like in `periodclose/provision.go` |
| CreateLedgerAccount, UpdateLedgerAccount, DeactivateLedgerAccount, DeactivateContact | the handlers of those names |
| BeginOwn, BeginPurchase, ClaimNumber, InsertDocument | `CreateInvoice`, `CreateEstimate` up to their row |
| BreakDeadlock | PostgreSQL's deadlock detector (external) |

Abstractions: an account is *usable* when it has the type and the container flag
its role demands and is active; a sub-account's own code is fresh; vendors'
numbers are typed in from `Typed`. A business may predate the pinned columns,
with the containers the migration seeds for business 1 or with none.
`GaplessNumbers` is implemented by the committed sales. `NoDocumentLeft` is a
bound.

### Sessions and the code

State. `code` is `authCodeStore` (memory), `session` the table `user_session`;
`sent` says that a client was given the row's token. No transaction: each
statement commits.

| action | code |
|---|---|
| IssueAuthCode, ExpireAuthCode, ConsumeAuthCode | `authcode.go` |
| ReadForRotation, IssueSession, ReplaceSession, Answer | `RefreshToken`, `RotateSession`, `IssueSession`; `ExchangeCode` |
| ReadForLogout, RevokeSession | `Logout`, `RevokeSession` |
| ExpireSession, Restart, Abort | `RefreshTokenTTL`, the process, a lost request |

Access tokens are signed and never stored; they are left out.

### Access and the code

State. `server` is how far start-up has come, `users`, `admins`, `passkey`,
`enroll`, `invite` and `member` the tables, `cleared` the transaction that has
cleared an admin's flag and not ended. An UPDATE or DELETE of several rows is
two steps, what its statement sees (`SeeAdmins`, `SeePasskeys`) and what it then
takes, since it may wait in between.

| action | code |
|---|---|
| AskAdmin, SeeAdmins, ClearGlobalAdmin, SetGlobalAdmin, RevokeGlobalAdmin | `SetGlobalAdmin`, `GrantGlobalAdmin`, `RevokeGlobalAdmin` |
| CreateBusiness | `CreateBusiness`: a global admin becomes its OWNER (its accounts are in `Business`) |
| ResetUserCredentials, CreateBusinessInvite, RevokeBusinessInvite, Expire | the handlers of those names, `expires_at` |
| BeginRegistration, FinishWithEnrollment, FinishWithInvite | `resolveRegistrationTarget`, `BeginRegistration`, `FinishRegistration` up to its transaction |
| SeePasskeys, DeletePasskeys, RegisterByEnrollment, Join, AcceptInvite | the transaction of `FinishRegistration` |
| AcceptBusinessInvite, Join, AcceptInvite | `AcceptBusinessInvite` by a signed-in user |
| StartServer, FindAdmin, GrantBoss, MintForBoss, Crash | `EnsureBootstrapAdmin` at start-up |

Abstractions: a token opens the newest row that holds its hash; who may ask is
`Manager`, read at the request's start; there is one business. `Invited` bounds
whose email may be invited; the theorems are of any. The ceremony itself always
succeeds or is abandoned.

### Context and the code

State. `note` and `attachment` are the tables, `object` the object store;
`req.write` are the rows a request's transaction has written and locked.

| action | code |
|---|---|
| CreateEntityContext, CheckSuperseded, SupersedeEntityContext, CommitNote | `CreateEntityContext` |
| AskDelete, DeleteEntityContext, SeeHidden, ClearSupersededBy | `DeleteEntityContext` |
| StartUpload, UploadAttachment | `UploadAttachment`: the object, then the row |
| AskAttachment, DownloadAttachment, DeleteAttachment | the handlers of those names; deletion keeps the object |

All notes hang on one entity.

### Reporting and the code

`SheetBalances` compares the two columns of `BalanceSheet`: balances per
account, rolled up to the printed roots (`rollUpAccountBalance`), with the line of
current earnings since the latest close. The report is one state: no commit falls
between its statements. `ChartAssumption` says of the chart what the code ensures:
a parent is an account of the business, and no account is above itself, since the
parent of a new account exists and `UpdateLedgerAccount` does not change it.
`CreateLedgerAccount` does not compare the types of the two: `Misplaced` are the
accounts under a parent of the other side, or under income or expenses, and
`SheetBalances` compares the columns while none of them shows an amount. In
`close_books` Income Summary is such an account (adopted by its code, whose parent
`provision.go` does not look at), and it has an amount after a closing posting
was reversed by hand.

## 3. The runs

| run | instance | shows |
|---|---|---|
| close_race | 2 requests, 5 transactions, 2 closes, 1 date | once-only reversal, distinct ends, complete closes and reversals, swept summary, balance, under every interleaving and abort |
| close_live | 2 requests, 4 transactions, 2 closes, 1 date, fair | every request ends |
| close_books | 1 request, 5 transactions, 3 closes, 2 dates, cash below the bank, Income Summary misplaced there | when requests do not overlap, periods tile and are cleared, the lock holds, the balance sheet balances, and the tables implement `Books` |
| find_posting_into_closed | 2 requests, 5 transactions, 2 closes, 2 dates | section 5 |
| doc_race | 2 requests, 1 invoice, 2 payments, half cents, no versions sent | paid_amount is the applications' sum, balance_due never negative, drafts unpaid |
| doc_versioned | 3 requests, 1 invoice, 2 payments, versions sent | document and ledger agree, a cancelled invoice is unpaid and mirrored, PAID is settled |
| doc_live | 2 requests, 2 invoices, 2 payments, fair | payments that cross end, and stand whole |
| posting | 1 invoice, 1 estimate, 2 items, 2 rates, documents of up to 3 lines, rates of 25, 75 and -100 %, 2 edits of the catalog | postings are never refused, follow the document through edits and cancellation, the breakdown adds up, quotations are honoured |
| business | 2 requests, 2 contacts, 2 documents, 1 typed number, fair | pinned accounts exist, contacts have their accounts, sales are numbered without a gap, every request ends |
| sessions | 3 requests, 2 logins, 4 sessions, restarts | one working token per login, logout ends it, the chain leads to what was sent |
| access | 2 requests, the boss and a user, 2 invites, 2 passkeys, 1 enrollment each, crashes | one admin, invites honoured once, resets revoke and never lock out |
| context | 2 requests, 4 notes, 1 attachment, up to 2 notes rolled up | notes hidden only behind live ones, attachments readable, deletions bring back only what they hid |

Why these bounds are enough. The hazards are about two requests: one that acts
between two steps of another. Two workers give every such pair of handlers, at
every pair of steps. `close_race` has one date because its properties do not
compare dates beyond equality; one date makes every request meet on the same
keys. With five transactions a close posts one or two zeroing transactions and
a sweep beside the posting it sweeps, and a small close can be reversed in
full while another request runs (the mutants of `ReversalUndoesClose` and
`CloseStandsWhole` show that this happens). Periods need two dates to have two
of them, and three closes to close, reverse and close again. In `Documents`
one invoice of 1 or 2 with payments of 1 or 2 has the partial payment, the full
payment, the second payment that must be refused, and the void after each; a
third request lets a payment and a void both come between another's read and
its write; two invoices are needed only for crossing locks. A statement that
would exceed a bound on ids fails like any other statement. `doc_race` lets
clients apply half cents (`CentParts = 2`); the other runs of `PeriodClose` and
`Documents` have clients that send whole cents, without which `LedgerBalanced`
and `LedgerAgrees` do not hold (section 7).

`posting` sends half cents and half units, so that each line is rounded before
the sum; its lines have a discount that takes off all or part, a free line, an
explicit rate, the item's rate, and a rate without tax; three lines are the
least with two of one rate around one of another. A rate of -100 % is the
one at which a purchase's tax takes off its whole subtotal. `business` needs two contacts
for crossing orders of AR and AP and a typed number equal to the first number
claimed; the unused counter of estimates behaves as that of sales, and only AP's
code is touched by hand, as the roles are treated alike. `sessions` needs three
requests to rotate one token twice while a logout is in flight. `access` needs
the boss and one more user to transfer between, two invites to that user (who may
have become the OWNER or the admin by then) for a second one after a revocation,
and two passkeys for a reset that replaces one. In `context` four notes
make a chain with one to bring back and one rolled up elsewhere.

Deadlock is checked in every run but two: in `posting` an invoice's life ends
with its cancellation and the catalog's edits are bounded, in `context` rows run
out.

Fairness. `FairSpec` (of `PeriodClose`, `Documents`, `Business`) asks weak
fairness of the steps of a request that has begun: its goroutine and its
database session keep running. It asks strong fairness of the statements that
may wait for another transaction to end: PostgreSQL wakes a waiter when the
holder ends, and a request that arrives later has earlier statements to run
before it can take the key or lock again. In `Documents` and `Business` the
deadlock detector is part of `Step`: it runs `deadlock_timeout` after a wait
began. Nothing is assumed of `Begin` (clients need not send requests) or of
`Abort`.

Refinement. `Books` is what a user expects: a posting changes one open date,
`CloseThrough` moves the income of the dates since the last close to Retained
Earnings, `Reopen` takes exactly that back. Served one at a time, the requests
of `PeriodClose` do that, through their rows, reversal postings and all, which
`close_books` checks and `KeepsBooks` proves. Served
concurrently they do not: `find_posting_into_closed` and the overlap of section 7
are the reasons. `GaplessNumbers` is implemented by `Business` under every
interleaving.

Each property of a passing run has a mutant in `PROJECT.json`: a changed
definition, like a dropped guard or a swapped sign, under which TLC reports the
property violated. The changed forms stand in the modules before the definition
they replace, marked "variant".

## 4. The theorems

`PeriodClose_proofs`, for every set of workers and ids, every number of dates,
every choice of accounts and drafts, from the assumptions named in `PeriodClose`
(`DatesAssumption`, `NullAssumption`, `AccountAssumption`, `DraftAssumption`, and
`FiniteAssumption`: finitely many accounts, transactions and closes, so that
balances are sums):

| theorem | says |
|---|---|
| Invariance | `Spec => []IInv` |
| RowTypes | rows and requests keep their types |
| ReversesOnce | `Spec => []ReversedOnce` |
| EndsDistinct | `Spec => []ActiveEndsDistinct` |
| ReversalComplete | `Spec => []ReversalUndoesClose` |
| CloseWhole | `Spec => []CloseStandsWhole` |
| SweepsSummary | `Spec => []CloseSweepsSummary` |
| Balanced | whole cents (`CentParts = 1`): `Spec => []LedgerBalanced` |
| Tile | `Alone`: `Spec => []PeriodsTile` |
| Cleared | `Alone`: `Spec => []PeriodsCleared` |
| Locks | `Alone`: `Spec => LockHolds` |
| SheetAgrees | `Alone`, whole cents, for every chart of `ChartAssumption`: `Spec => []SheetBalances` |
| KeepsBooks | `Alone`, whole cents: `Spec => ImplementsBooks` |

The argument. None of the four properties is inductive. `ReversedOnce` speaks
of committed rows, and a commit could make two of them equal: `KeysUnique` adds
the in-flight rows, and an insert preserves it because it neither found a
committed holder of its key (it would have failed) nor another transaction's
(it would have waited), while `ReopensOK` says that the transaction itself has
not used the key yet. `CloseStandsWhole` needs `EntriesOK`: before its row is
inserted a close's postings are in flight with its own transaction and dated
its end, so that one commit publishes all. `ReversalUndoesClose` needs `UndoOK`:
while the close is marked, each of its postings is either still pending in the
request or has an in-flight mirror in the same transaction. `OwnersOK` ties
rows to the steps of their owners, so that a rollback or commit of one request
touches no row of another. `IInv` is their conjunction with the types of the
rows. `PeriodClose_proofs` shows it of the initial state and of each action:
`RollbackRows` and `CommitRows` first say what the two do row by row,
`InsertInv` covers every action that posts a transaction and `QuietInv` every
action that writes no row, and the rest have a lemma each.

The next two are about amounts. `SumsInv` says that a close has left nothing in
Income Summary, and that one about to insert its row has swept what its own
postings put there: the sweep is computed from what the transaction itself has
posted, so no other request's posting enters it. `BalancedOK` adds up every
transaction, visible or not; it needs whole cents, as drafts balance before they
are rounded (section 7).

The last five are true of requests that do not overlap: `Alone` says that there
is one worker, of whom any number of requests come, fail and abort one after the
other. With two workers they are false, which `find_posting_into_closed` shows of
`PeriodsCleared` and section 7 of the others. `AloneInv` is their invariant.
`TilesOK` says where each period in force begins; `RequestsOK` that what a
close or the reversal of one has read of the periods is still so, the fact
another worker's commit would break; `LockOK` that what is about to become
visible is dated after every close in force, and that a close's row lists all its
transaction has posted; `ClearedOK` follows the balances: what a
close has read is what the period's postings add up to, what it has still to
post takes the rest away, and a reversal puts exactly that back.

`SheetAgrees` adds two facts to it. All balances through a date cancel, as every
transaction does (`BalancesCancel`), and the income before the latest close is
zero (`SweptThrough`), so that what is left of it is the earnings line. And the
report counts every account once: as no account is above itself there is a
balance rolled up (`RollsUpExists`: take from the smallest set of accounts, closed
under children, for which there is none an account whose parent is outside it),
and the printed roots add up to all accounts of their side (`ColumnSumsOnce`: a
column's lines add up to its accounts' own balances plus the lines of all that
have a parent in it, so what is left without those is the own balances; the lines
that cross from one column into the other, or out of both, are those of `Misplaced`
accounts and show nothing).

`KeepsBooks` maps the rows to `Books` step by step (`NextRefines`). A step that
commits nothing stutters (`BooksStutter`); `PostsBooks`, `ClosesBooks` and
`ReopensBooks` are the commits of a posting, a close and the undoing of one, and
say that each is the whole of the abstract step. Beyond the invariants above the
refinement needs `BooksInv`, checked with TLC on the instances of `close_books` and
`close_race` before it was proved, for any number of workers: a transaction that
writes no close inserts one row (`OneRowOK`), a close posts to no account that
is not income, Income Summary or Retained Earnings (`QuietOK`), and undoing a
close reverses its postings only (`UndoesOnlyOK`); with `UndoOK`, that each
posting has its opposite, the two cancel on every account (`UndoneTotals`). A
close's move is minus what is on an account for the open dates
(`CloseEffectIs`): that is `ClearedOK` before it commits, and since its postings
balance and leave nothing in Income Summary, the rest of them is in Retained
Earnings.

`LedgerMath_proofs`, for every amount: `ZeroingIsExact` (the posting built for
minus a balance brings the account to zero, whatever its normal side),
`EntryAcceptedUnlessZero` (constructors return entries the CHECK accepts,
except for zero), `SwapCancels` (a swapped entry undoes the original) and
`WholeCentsKept` (rounding keeps whole cents and treats debits and credits
alike). It also proves what the other modules need of rounding (`StoredSide`: a
rounded amount is never on the other side; `StoredScales`: a common factor of
amount and divisor does not matter) and of sums. The sum over a
finite set is a fold that chooses its elements in some order; `SumType` to
`SumRenamed` say that the order does not matter (`SumTakeOut`), and how a sum
changes with one value (`SumUpdate`), over a union (`SumUnion`), by classes
(`SumClasses`), when zeros are left out (`SumSupport`) or elements are renamed. The
induction they rest on takes the smallest finite set that would be an exception
(`SmallestSubset`), which needs no induction rule with an operator for parameter.

`Sessions_proofs`, for every set of requests, codes and session ids, from
`NullAssumption`:

| theorem | says |
|---|---|
| OneTokenPerLoginHolds | `Spec => []OneTokenPerLogin` |
| LogoutEndsLoginHolds | `Spec => []LogoutEndsLogin` |
| HeirIsSentHolds | `Spec => []HeirIsSent` |

Without transactions the argument is about who may still produce a token. A
login's *claim* is held by its code in the store, by the exchange that took it
(`Pending`, until it answers), by the session a client was given and nothing has
replaced (`Tip`), or by the rotation that has replaced that session and is about
to answer: `OneClaim` says that never two hold it, and every step moves it or
lets it go. `RevokedKnown` and `RequestKnown` say that the sessions and requests
concerned exist and are of one login. The invariant includes the module's
`TypeOK`; a session's successor is set by the statement that revokes it, if
that row is still unrevoked, which is what makes a second rotation lose.
`HeirInv` adds that a rotation about to answer has made its new session the heir
of the old one; as nothing ever changes a revoked row, it still is when the
client is given the token.

`Access_proofs`, for every set of requests, users, invites and passkeys, from
`NullAssumption`, `BossAssumption`, `InvitedAssumption` and `MemberAssumption`:

| theorem | says |
|---|---|
| InviteHonouredHolds | `Spec => []InviteHonoured` |
| ResetRevokesHolds | `Spec => []ResetRevokes` |
| OneAdminHolds | `Spec => OneAdmin` |
| NeverLockedOutHolds | `Spec => NeverLockedOut` |

Requests get at each other's rows in two places. A member is inserted before its
invite is accepted, and `HeldOK` says that whoever holds a member's row is at
the step that accepts: so of all who race for an invite one commits, and since a
committed member is the mark of an accepted invite the others find the row and
fail. Deleting passkeys waits for the rows others hold; `RequestOK` says that
what a reset has promised to end is, at each of its steps, among the rows it will
delete, deleted by itself, or gone. `AdminOK`, that two admins are the same, is
inductive because `SetGlobalAdmin` fails beside an admin its transaction has not
cleared.

`Business_proofs`, for every set of requests, contacts and documents, any first
number and any choice of roles, from `CountersAssumption`, `NumbersAssumption`,
`NoWorkerAssumption` and `AskedAssumption`:

| theorem | says |
|---|---|
| ContactWholeHolds | `Spec => []ContactWhole` |
| SalesGaplessHolds | `Spec => SalesGapless`, the refinement of `GaplessNumbers` |

The business row's lock carries both. `NextOK` says that a request that has
claimed a sale's number holds the lock until it ends and that its number is the
committed counter, `DocumentsOK` that it has one document in flight when it
commits, and `CountOK` that the committed counter is one past the committed
sales: a commit then maps to `Issue` and every other step, rollbacks of claimed
numbers included, to a stutter. `PinsOK` says that what the lock's holder has
pinned exists or is its own insert, so that pin and account appear and vanish
together, and `ContactsOK` that each side of a contact in flight is still to be
resolved or has its sub-account under a pin its transaction sees. `ByHandInv`
covers the changes users make to accounts and contacts, `RollbackInv` every
failure, and `GoOn` the steps that end nothing and claim no number.

`Context_proofs`, for every set of requests and attachments and every finite set
of notes, from `NullAssumption` and `RolledUpAssumption`:

| theorem | says |
|---|---|
| HiddenByLiveHolds | `Spec => []HiddenByLive` |
| AttachmentReadableHolds | `Spec => []AttachmentReadable` |
| BroughtBackByDeletionHolds | `Spec => BroughtBackByDeletion` |

Notes change at a COMMIT only. `Creating` and `Deleting` say what an open
transaction has written and how it relates to what is committed, and `Disjoint`
that no two have written the same row; a COMMIT then changes nothing another
transaction has built on, except the set of notes behind the one it deletes,
which can only shrink: nobody can supersede behind a note that is not its own.

`Documents_proofs`, for every set of requests, invoices and payments, any totals
and any plans, from `TotalsAssumption`, `PlansAssumption`, `VersionedAssumption`,
`NullAssumption` and `FiniteAssumption` (finitely many payments); those marked
`Exact` also assume that clients send the version they have read and whole cents:

| theorem | says |
|---|---|
| DueNeverNegativeHolds | `Spec => []DueNeverNegative` |
| PaymentWholeHolds | `Spec => []PaymentWhole` |
| TypeOKHolds | `Spec => []TypeOK` |
| PaidIsAppliedHolds | `Spec => []PaidIsApplied` |
| DraftUnpaidHolds | `Spec => []DraftUnpaid` |
| CancelledUnpaidHolds | `Exact`: `Spec => []CancelledUnpaid` |
| LedgerAgreesHolds | `Exact`: `Spec => []LedgerAgrees` |
| CancelledFrozenHolds | `Exact`: `Spec => []CancelledFrozen` |
| PaidIsSettledHolds | `Exact`: `Spec => []PaidIsSettled` |
| PaymentsAreOnSentInvoices | `Exact`: a payment that stands is on no draft and no cancelled invoice |

The invariant has a part that needs nothing of the clients, `Base`, and one that
holds under `Exact`, `Sharp`. `Base` ties locks and payments in flight to the
steps of their requests, and `Partly` says that what a request has applied and
what it has left to apply is a plan: at its commit the payment is `Whole`.
`Sharp` says that every row agrees with its posting (`Agrees`), the rewritten ones
included. That rests on `ReadOK`: what a request has read is still so, and for a
cancellation the count of applications as well, until its row's version moves;
with the version in the WHERE clause it writes by what it has read or not at all.
The exception is a void of a payment that another void takes meanwhile: it
takes amounts off rows it should not, and is refused before it commits. `Sound`
excludes what it has rewritten, and `AppsOK` says that everybody else's
applications are on rows that have been sent. `WriteInv` covers the statements
that rewrite a row under its lock, `PublishInv` those that write and commit at
once, `MovesInv` those that write nothing; `CommitInv` and `RollbackInv` end a
request.

`PaidInv` is the invariant of what is paid, and asks nothing of the clients. It
counts in two places at once: a committed row's `paid` is the sum of the
applications of the payments that stand, and the row as a request has rewritten it
differs from that by what its payment has given so far, or by what its void has
taken back. The rows concerned are locked until the request ends, so both
differences are settled by one commit or one rollback, and rounding
an application into its column adds exactly, as `paid` is whole cents. That two voids of
one payment both take back is allowed for: the second cannot commit. Since an
amount that stands is positive, a draft or a cancelled invoice without
applications (`PaymentsAreOnSentInvoices` for the latter) has nothing paid, and
`TypeOK`'s claim that what is paid is an amount follows as well.

`Posting_proofs`, for every catalog and documents of any length, from
`PartsAssumption`, `RateAssumption`, `RequestsAssumption` and `CatalogAssumption`:

| theorem | says |
|---|---|
| NeverRefusedHolds | `Spec => []NeverRefused` |
| LedgerFollowsInvoiceHolds | `SeparateAccounts`: `Spec => []LedgerFollowsInvoice` |
| OnlyCostlessIsStuckHolds | `Spec => []OnlyCostlessIsStuck`, at rates of either sign |
| BreakdownAddsUpHolds | `Spec => []BreakdownAddsUp` |
| EstimateHonouredHolds | `Spec => EstimateHonoured` |

The invariant `PostingInv` keeps what the catalog may not change later: every
stored line agrees with the rate it was charged at (`RowOK`), a document's total is
that of its lines, and the entries are those of the document as it is now. The
rest is arithmetic. The legs of a sale are the total against subtotals and the
taxes owed; the latter are gathered by account, which adds up to the same
(`SumClasses`), so the legs cancel; legs of zero, a bucket in which taxes cancelled
out among them, may be left out (`SumSupport`); and a signed leg becomes a debit
or a credit that says the same (`LegIsSigned`). An invoice without entries has
only zero legs: a sale's line without subtotal bears no tax, and a purchase's line
has no cost; at a rate that is not negative its tax is on its subtotal's side, so
that neither cancels the other (`StoredSide`). A line
taken over from an estimate has its price in whole cents, so that computing its
subtotal again rounds the same amount (`StoredScales`). `SeparateAccounts` says that
no item posts to a contact's account or to one that tax is owed to; it is what makes
the balance of such an account one leg's, and no request checks it (section 7).

Only model-checked: the liveness properties (`EveryRequestEnds` in three runs), which
need fairness and ENABLED. Every other property of a passing run is proved.

## 5. Where code and documentation disagree

`find_posting_into_closed`, a finding in `PROJECT.json` with the sentences it
contradicts: a close reads balances; a posting dated in the period commits; the
close commits. The posting is in the locked period and unswept. A line edit that
re-posts an invoice (`invoice_posting.go:92`) meets the same window.

Smaller disagreements and limits, with no run of their own, are in section 7.

## 6. Not modelled

* `Documents` composed with the period lock: line edits, cancellations and
  payments against a close in flight. What `PeriodClose` shows of a posting is
  all there is to it, as each is one or more inserts under the same trigger.
* Bank statements: two tables whose rows no statement relates, see section 7.
* The trial balance, the general ledger, the customer statement and its aging:
  they list rows.
* PDF rendering, the `dxctl` client, reading the configuration and migrating;
  generated messages (`gen/`). The generated statements
  (`internal/db/sqlcgen`) are modelled where their handlers are.
* The cryptography of WebAuthn and JWT, which are libraries.
* Single-row updates under `resource_version`: headers of contacts, businesses,
  estimates, accounts, and reference data.

## 7. Known limits of the code, without a run

Met while modelling. The models exclude each by an assumption or a bound, or do
not claim what it would break.

Ledger and closes

* Two closes with different ends in flight read the same last close, so their
  periods overlap; a close that builds on a close whose reversal commits first
  leaves locked dates that belong to no period.
* A closing posting reversed by hand makes its close irreversible: the reversal
  of that posting exists. Income Summary is then left holding an amount no later
  close takes out, as each sweeps only what its own postings put there.
* Amounts with parts of a cent are compared before they are rounded: two debits
  of half a cent against a credit of one are stored as two cents against one.
* The income statement of a closed period shows zero, since the closing
  postings are dated its end (`income_statement.go:20-21`; `architecture.md:94-95`
  says otherwise), and a balance sheet inside a closed period omits that period's
  earnings.
* The balance sheet reads accounts, last close and earnings in three statements;
  a commit in between counts in one only (`balance_sheet.go:137`).
* `CreateLedgerAccount` does not compare the parent's type
  (`ledger_account_service.go:61-64`): while an account under such a parent shows an
  amount, the sheet prints it with the wrong sign or not at all. A pinned system
  account may be turned into a container, or out of one, and one that was made by
  hand and adopted may be deactivated: that it stays usable is claimed by no
  property. A contact's account may be deactivated at zero while
  a posting to it is in flight.

Documents

* Without `resource_version`, a partial payment may commit between the count of
  applications and the cancellation, and a line edit that read the invoice
  before its cancellation re-posts it afterwards; `doc_versioned` shows that with
  it neither happens. `invoice_service.go:222-225` and `trading.sql:209-213` say
  without that condition that payments never drift from a cancelled invoice:
  checked with `Versioned = {FALSE}`, `CancelledUnpaid` fails as described.
* An invoice whose every line is free has a posting without entries, and cannot
  be cancelled. `CreateTaxRate` and `UpdateTaxRate` accept negative rates
  (`tax_rate_service.go:66`, `:89`; the column has no CHECK), so a purchase may also
  be costless without being free: at -100 % each line's tax takes off its subtotal,
  and it cannot be cancelled either. `OnlyCostlessIsStuck` says that no other is.
* An invoice made from an estimate after a rate has changed charges the new rate.
* An item may post to any postable account (`item_service.go:190`), a contact's or
  one of a tax included: the balance of that account then mixes the two.
* A price with parts of a cent is stored rounded in an estimate, beside a
  subtotal that was not computed from it: the invoice made from it may differ by
  that. A taxable line without a rate takes the rate its item has by then
  (`document_lines.go:259-262`).

Businesses, sessions, access

* A second resolver that finds no account and is overtaken fails on the code's
  unique index rather than adopting what it finds (`system_accounts.go:86-87`).
* A number a vendor's invoice was given, prefix and all, may be the next one a
  sale would claim: that sale and every later one then fail, as no request edits
  either number and the claim is rolled back with the sale
  (`invoice_service.go:119`). `SalesGapless` holds because nothing is claimed.
* A logout overtaken by a rotation or another logout fails, though it is called
  idempotent (`session.go:75-76`).
* Two ceremonies finished with one enrollment token both register, and a token
  in flight consumes the row it was re-issued in.
* An invite revoked while it is being accepted carries both marks; an expired one
  still stands in the way of another until it is revoked.
* A crash between granting the bootstrap admin and minting its token leaves an
  admin without one, and the next start mints none unless told to reset
  (`bootstrap.go:74`).

Bank statements

* A statement is deactivated on a count of lines taken before while a
  reconciliation adds one (`banking_service.go:210`), and one transaction may be
  reconciled on two statements (`:249`): the unique constraint is on the pair of
  statement and transaction, though `schema.md:625-627` has it so that "nothing
  reconciles twice".
