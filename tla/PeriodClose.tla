----------------------------- MODULE PeriodClose -----------------------------
(***************************************************************************)
(* The ledger of one business and the period close that locks it, at the   *)
(* granularity at which PostgreSQL interleaves the requests that touch     *)
(* them.                                                                   *)
(*                                                                         *)
(* A request handler reads on the pool, outside any transaction, and then  *)
(* runs its writes in one READ COMMITTED transaction (db.Store.ExecTx).    *)
(* Every statement sees what was committed when the statement began, plus  *)
(* the transaction's own writes; an INSERT into a unique index waits for   *)
(* an in-flight transaction that holds the same key; an UPDATE waits for   *)
(* the row's lock; any error rolls the whole transaction back.             *)
(*                                                                         *)
(* A ledger_transaction and its entries are inserted by consecutive        *)
(* statements of one transaction.  Nobody else sees the rows before the    *)
(* commit, so what others can change between two of the statements is only *)
(* the answer of the lock trigger, and a model that asks it once, when the *)
(* last entry goes in, has the same outcomes.  The four requests are:      *)
(*   CreateLedgerTransaction    a posting by a user or a document          *)
(*   ReverseLedgerTransaction   CheckReversible, InsertReversal            *)
(*   TriggerClose               BeginClose, ReadBalances, PostZeroing,     *)
(*                              PostSweep, CreatePeriodClose               *)
(*   ReverseClose               CheckReverse, BeginReverse, MarkReversed,  *)
(*                              PostReversal                               *)
(* and each ends with Commit, or with Rollback.                            *)
(***************************************************************************)
EXTENDS LedgerMath, FiniteSetsExt

CONSTANTS
  Workers,           \* requests that may be in flight at the same time
  TxnIds,            \* BOUND: ids of ledger_transaction rows
  CloseIds,          \* BOUND: ids of period_close rows
  LastDate,          \* BOUND: dates are 1..LastDate, InceptionDate is 1
  Revenue,           \* accounts of type REVENUE, CREDIT-normal
  Expenses,          \* accounts of type EXPENSES, DEBIT-normal
  Permanent,         \* accounts of the other types
  IncomeSummary,     \* the business's two is_system EQUITY accounts
  RetainedEarnings,
  Drafts,            \* entries a posting may carry, signed, per account, ...
  CentParts,         \* ... each amount a number of 1/CentParts of a cent
  NoTxn, NoClose, NoWorker

Accounts == Revenue \union Expenses \union Permanent
              \union {IncomeSummary, RetainedEarnings}
Temporary == Revenue \union Expenses
Dates == 1 .. LastDate

ASSUME DatesAssumption == LastDate \in Nat \ {0}
ASSUME NullAssumption == NoTxn \notin TxnIds /\ NoClose \notin CloseIds
                           /\ NoWorker \notin Workers
ASSUME AccountAssumption ==
  /\ Revenue \intersect Expenses = {}
  /\ IncomeSummary # RetainedEarnings
  /\ {IncomeSummary, RetainedEarnings} \intersect (Temporary \union Permanent) = {}
  /\ Temporary \intersect Permanent = {}
ASSUME FiniteAssumption ==              \* a database holds finitely many rows
  /\ IsFiniteSet(TxnIds)
  /\ IsFiniteSet(Revenue) /\ IsFiniteSet(Expenses) /\ IsFiniteSet(Permanent)
ASSUME DraftAssumption ==
  Drafts \subseteq [Accounts -> Int] /\ CentParts \in Nat \ {0}

\* The two legs of a mirrored posting: e on account a, its swap on account b.
Legs(a, b, e) ==
  [x \in Accounts |-> IF x = a THEN Signed(e) ELSE IF x = b THEN Signed(Swap(e)) ELSE 0]

NoEntries == [a \in Accounts |-> 0]
NegatedNot(amounts) == amounts          \* variant: entries copied, not swapped
Negated(amounts) == [a \in Accounts |-> -amounts[a]]
NormalBalance(a) == IF a \in Expenses THEN "DEBIT" ELSE "CREDIT"

\* validateEntriesBalance: a posting's debits equal its credits.
BalancesUnchecked(amounts) == TRUE      \* variant: the check is skipped
Balances(amounts) == MapThenSumSet(LAMBDA a : amounts[a], Accounts) = 0

\* The entries as the table keeps them.  ledger_entry's CHECK refuses a draft
\* one of whose amounts is kept as nothing.
Kept(amounts) == [a \in Accounts |-> Stored(amounts[a], CentParts)]
Keepable(amounts) == \A a \in Accounts : amounts[a] # 0 => Kept(amounts)[a] # 0

VARIABLES
  txn,    \* the ledger_transaction table: [TxnIds -> row]
  entry,  \* the ledger_entry table: signed amount per transaction and account
  close,  \* the period_close table with its period_close_entry rows
  pc,     \* what each request does next
  req,    \* what each request has read or been given
  net     \* the balances a close has read

vars == <<txn, entry, close, pc, req, net>>

(***************************************************************************)
(* Rows carry their transaction state: a row is "open" while the           *)
(* transaction of the worker in its field "by" is in flight.  A free id is *)
(* taken with CHOOSE: ids are names, and the id of a rolled-back row may   *)
(* be used again, which nothing can observe.                               *)
(***************************************************************************)
TxnRow == [st : {"free", "open", "live"}, by : Workers \union {NoWorker},
           date : Dates, rev : TxnIds \union {NoTxn}]

CloseRow == [st : {"free", "open", "active", "reversing", "reversed"},
             by : Workers \union {NoWorker},
             start : Dates, end : Dates, entries : SUBSET TxnIds]

Request == [date : Dates, start : Dates, target : TxnIds \union {NoTxn},
            close : CloseIds \union {NoClose}, todo : SUBSET Accounts,
            pend : SUBSET TxnIds]

FreeTxn   == [st |-> "free", by |-> NoWorker, date |-> 1, rev |-> NoTxn]
FreeClose == [st |-> "free", by |-> NoWorker, start |-> 1, end |-> 1, entries |-> {}]
NoRequest == [date |-> 1, start |-> 1, target |-> NoTxn, close |-> NoClose,
              todo |-> {}, pend |-> {}]
ReversalRequest(t, date) == [NoRequest EXCEPT !.target = t, !.date = date]
CloseRequest(start, end) == [NoRequest EXCEPT !.start = start, !.date = end]

\* pc values of the steps that run inside ExecTx.
InTx == {"balances", "zero", "close", "mark", "undo", "commit"}
Steps == {"idle", "reversal", "reopen"} \union InTx

Init ==
  /\ txn = [t \in TxnIds |-> FreeTxn]
  /\ entry = [t \in TxnIds |-> NoEntries]
  /\ close = [c \in CloseIds |-> FreeClose]
  /\ pc = [w \in Workers |-> "idle"]
  /\ req = [w \in Workers |-> NoRequest]
  /\ net = [w \in Workers |-> NoEntries]

-----------------------------------------------------------------------------
(***************************************************************************)
(* What a statement of worker w sees.                                      *)
(***************************************************************************)
VisibleTxn(w, t) == txn[t].st = "live" \/ (txn[t].st = "open" /\ txn[t].by = w)

Committed(c) == close[c].st \in {"active", "reversing", "reversed"}

\* The unreversed closes w sees: committed ones, unless w has marked them
\* reversed itself, and one w has inserted itself.
ActiveClose(w, c) ==
  \/ close[c].st = "active"
  \/ close[c].st = "reversing" /\ close[c].by # w
  \/ close[c].st = "open" /\ close[c].by = w

\* enforce_period_lock: the date is on or before MAX(period_end).
\* (variant: the end date itself is left open)
LockedBefore(w, date) == \E c \in CloseIds : ActiveClose(w, c) /\ date < close[c].end
Locked(w, date) == \E c \in CloseIds : ActiveClose(w, c) /\ date <= close[c].end

\* GetLastPeriodClose: the unreversed close with the latest period_end.
LastCloseAny(w, c) == ActiveClose(w, c) \* variant: any unreversed close
LastClose(w, c) ==
  /\ ActiveClose(w, c)
  /\ \A d \in CloseIds : ActiveClose(w, d) => close[d].end <= close[c].end

\* resolvePeriodStart: the day after the last close, or business inception.
\* (variant: the last close's own end date)
PeriodStartSameDay(w, start) ==
  \/ (\A c \in CloseIds : ~ActiveClose(w, c)) /\ start = 1
  \/ \E c \in CloseIds : LastClose(w, c) /\ start = close[c].end
PeriodStart(w, start) ==
  \/ (\A c \in CloseIds : ~ActiveClose(w, c)) /\ start = 1
  \/ \E c \in CloseIds : LastClose(w, c) /\ start = close[c].end + 1

\* AccountBalancesAsOf, as total debit minus total credit.
\* (variant: the range leaves its last day out)
BalanceUntil(w, a, from, to) ==
  MapThenSumSet(LAMBDA t : entry[t][a],
                {t \in TxnIds : VisibleTxn(w, t) /\ txn[t].date \in from .. to - 1})
BalanceBetween(w, a, from, to) ==
  MapThenSumSet(LAMBDA t : entry[t][a],
                {t \in TxnIds : VisibleTxn(w, t) /\ txn[t].date \in from .. to})

\* The partial unique index on reverses_ledger_transaction_id.  A committed
\* holder of the key fails the insert, an in-flight one makes it wait.
Reversed(t) == \E r \in TxnIds : txn[r].st = "live" /\ txn[r].rev = t
ReversalInFlightIgnored(w, t) == FALSE  \* variant: only committed rows are checked
ReversalWaitedFor(w, t) ==              \* variant: also waits for committed rows
  \E r \in TxnIds : txn[r].st # "free" /\ txn[r].rev = t /\ txn[r].by # w
ReversalInFlight(w, t) ==
  \E r \in TxnIds : txn[r].st = "open" /\ txn[r].rev = t /\ txn[r].by # w

\* The partial unique index on (business_id, period_end) of unreversed closes.
EndTaken(end) == \E c \in CloseIds : close[c].st = "active" /\ close[c].end = end
EndInFlightIgnored(w, end) == FALSE     \* variant: only committed rows are checked
EndInFlight(w, end) ==
  \E c \in CloseIds : close[c].st \in {"open", "reversing"}
                        /\ close[c].by # w /\ close[c].end = end

\* The id the identity column hands out next.  Past the bound a statement
\* fails like any other failing statement and rolls its transaction back.
FreshTxn == CHOOSE t \in TxnIds : txn[t].st = "free"
NoTxnLeft == \A t \in TxnIds : txn[t].st # "free"
FreshClose == CHOOSE c \in CloseIds : close[c].st = "free"
NoCloseLeft == \A c \in CloseIds : close[c].st # "free"

\* (variant: every in-flight row)
OwnAny(w) == {t \in TxnIds : txn[t].st = "open"}
Own(w) == {t \in TxnIds : txn[t].st = "open" /\ txn[t].by = w}

-----------------------------------------------------------------------------
(***************************************************************************)
(* Ends of a transaction.                                                  *)
(***************************************************************************)
\* The row in another transaction state.
Owned(row, st, by) == [row EXCEPT !.st = st, !.by = by]

Goto(w, step) == pc' = [pc EXCEPT ![w] = step]

Finish(w) ==
  /\ Goto(w, "idle")
  /\ req' = [req EXCEPT ![w] = NoRequest]
  /\ net' = [net EXCEPT ![w] = NoEntries]

\* ExecTx commits: everything the transaction wrote becomes visible at once.
Commit(w) ==
  /\ pc[w] = "commit"
  /\ txn' = [t \in TxnIds |-> IF t \in Own(w)
                              THEN Owned(txn[t], "live", NoWorker)
                              ELSE txn[t]]
  /\ close' = [c \in CloseIds |->
                 IF close[c].by # w THEN close[c]
                 ELSE Owned(close[c], IF close[c].st = "open" THEN "active" ELSE "reversed",
                            NoWorker)]
  /\ Finish(w)
  /\ UNCHANGED entry

\* A statement failed, or the connection, the request's context or the
\* process went away: nothing the transaction wrote remains.
Rollback(w) ==
  /\ txn' = [t \in TxnIds |-> IF t \in Own(w) THEN FreeTxn ELSE txn[t]]
  /\ entry' = [t \in TxnIds |-> IF t \in Own(w) THEN NoEntries ELSE entry[t]]
  /\ close' = [c \in CloseIds |->
                 IF close[c].by # w THEN close[c]
                 ELSE IF close[c].st = "open" THEN FreeClose
                 ELSE Owned(close[c], "active", NoWorker)]
  /\ Finish(w)

Abort(w) == pc[w] # "idle" /\ Rollback(w)

\* Insert one ledger_transaction with its entries.
Insert(w, date, rev, amounts) ==
  /\ txn' = [txn EXCEPT ![FreshTxn] =
               [st |-> "open", by |-> w, date |-> date, rev |-> rev]]
  /\ entry' = [entry EXCEPT ![FreshTxn] = amounts]
  /\ UNCHANGED <<close, net>>

-----------------------------------------------------------------------------
(***************************************************************************)
(* LedgerTransactionService.                                               *)
(***************************************************************************)
CreateLedgerTransaction(w) ==
  /\ pc[w] = "idle"
  /\ \E date \in Dates, amounts \in Drafts :
       /\ Balances(amounts) /\ Keepable(amounts)
       /\ ~Locked(w, date) /\ ~NoTxnLeft
       /\ Insert(w, date, NoTxn, Kept(amounts))
  /\ Goto(w, "commit")
  /\ UNCHANGED req

\* The handler's checks, made before its transaction begins: the target is
\* not itself a reversal and has not been reversed; the reversal is dated on
\* or after it (resolveReversalDate).
CheckReversible(w) ==
  /\ pc[w] = "idle"
  /\ \E t \in TxnIds, date \in Dates :
       /\ txn[t].st = "live" /\ txn[t].rev = NoTxn
       /\ ~Reversed(t)
       /\ date >= txn[t].date
       /\ req' = [req EXCEPT ![w] = ReversalRequest(t, date)]
  /\ Goto(w, "reversal")
  /\ UNCHANGED <<txn, entry, close, net>>

InsertReversal(w) ==
  LET t == req[w].target IN
  /\ pc[w] = "reversal"
  /\ ~ReversalInFlight(w, t)
  /\ IF Locked(w, req[w].date) \/ Reversed(t) \/ NoTxnLeft
     THEN Rollback(w)
     ELSE /\ Insert(w, req[w].date, t, Negated(entry[t]))
          /\ Goto(w, "commit")
          /\ UNCHANGED req

-----------------------------------------------------------------------------
(***************************************************************************)
(* PeriodCloseService.TriggerClose and periodclose.Close.                  *)
(***************************************************************************)
BeginClose(w) ==
  /\ pc[w] = "idle"
  /\ \E start, end \in Dates :
       /\ ~Locked(w, end)
       /\ PeriodStart(w, start)
       /\ req' = [req EXCEPT ![w] = CloseRequest(start, end)]
  /\ Goto(w, "balances")
  /\ UNCHANGED <<txn, entry, close, net>>

ReadBalances(w) ==
  LET balance(a) == NetBalance(NormalBalance(a),
                      BalanceBetween(w, a, req[w].start, req[w].date), 0)
  IN
  /\ pc[w] = "balances"
  /\ net' = [net EXCEPT ![w] =
               [a \in Accounts |-> IF a \in Temporary THEN balance(a) ELSE 0]]
  /\ req' = [req EXCEPT ![w].todo = {a \in Temporary : net'[w][a] # 0}]
  /\ Goto(w, "zero")
  /\ UNCHANGED <<txn, entry, close>>

\* postZeroingTransaction, for one account with a balance.
PostZeroing(w) ==
  /\ pc[w] = "zero" /\ req[w].todo # {}
  /\ IF Locked(w, req[w].date) \/ NoTxnLeft
     THEN Rollback(w)
     ELSE \E a \in req[w].todo :
            /\ Insert(w, req[w].date, NoTxn,
                 Legs(a, IncomeSummary,
                      EntryForNormalDelta(NormalBalance(a), -net[w][a])))
            /\ req' = [req EXCEPT ![w].todo = @ \ {a}]
            /\ UNCHANGED pc

\* Income Summary's change in its own CREDIT-normal direction.
\* (variant: the sign of the source account's entry)
IncomeSummaryDeltaFlipped(w) ==
  MapThenSumSet(LAMBDA t : entry[t][IncomeSummary], Own(w))
IncomeSummaryDelta(w) ==
  MapThenSumSet(LAMBDA t : -entry[t][IncomeSummary], Own(w))

\* postSweepTransaction, skipped when the zeroing postings cancel out.
PostSweep(w) ==
  /\ pc[w] = "zero" /\ req[w].todo = {}
  /\ \/ /\ IncomeSummaryDelta(w) = 0
        /\ Goto(w, "close")
        /\ UNCHANGED <<txn, entry, close, req, net>>
     \/ /\ IncomeSummaryDelta(w) # 0
        /\ IF Locked(w, req[w].date) \/ NoTxnLeft
           THEN Rollback(w)
           ELSE /\ Insert(w, req[w].date, NoTxn,
                     Legs(IncomeSummary, RetainedEarnings,
                          EntryForNormalDelta("CREDIT", -IncomeSummaryDelta(w))))
                /\ Goto(w, "close")
                /\ UNCHANGED req

\* ledgerpost.VerifyBalanced over everything this close posted.
VerifyBalanced(w) ==
  MapThenSumSet(LAMBDA t : MapThenSumSet(LAMBDA a : entry[t][a], Accounts), Own(w)) = 0

CreatePeriodClose(w) ==
  /\ pc[w] = "close"
  /\ ~EndInFlight(w, req[w].date)
  /\ IF ~VerifyBalanced(w) \/ EndTaken(req[w].date) \/ NoCloseLeft
     THEN Rollback(w)
     ELSE /\ close' = [close EXCEPT ![FreshClose] =
               [st |-> "open", by |-> w, start |-> req[w].start,
                end |-> req[w].date, entries |-> Own(w)]]
          /\ Goto(w, "commit")
          /\ UNCHANGED <<txn, entry, req, net>>

-----------------------------------------------------------------------------
(***************************************************************************)
(* PeriodCloseService.ReverseClose and periodclose.Reverse.                *)
(***************************************************************************)

\* The handler's checks on the pool: the close is the latest unreversed one.
\* (It reads the row first and the latest close after it; a close that is the
\* latest unreversed one at the second read was unreversed at the first.)
CheckReverse(w) ==
  /\ pc[w] = "idle"
  /\ \E c \in CloseIds :
       /\ LastClose(w, c)
       /\ req' = [req EXCEPT ![w].close = c]
  /\ Goto(w, "reopen")
  /\ UNCHANGED <<txn, entry, close, net>>

\* periodclose.Reverse repeats the checks inside the transaction.
BeginReverse(w) ==
  /\ pc[w] = "reopen"
  /\ IF LastClose(w, req[w].close)
     THEN Goto(w, "mark") /\ UNCHANGED <<txn, entry, close, req, net>>
     ELSE Rollback(w)

\* UPDATE ... WHERE reversed_at IS NULL: waits for the row's lock, and fails
\* when it then matches no row.
MarkReversed(w) ==
  LET c == req[w].close IN
  /\ pc[w] = "mark"
  /\ close[c].st # "reversing"
  /\ IF close[c].st # "active"
     THEN Rollback(w)
     ELSE /\ close' = [close EXCEPT ![c] = Owned(@, "reversing", w)]
          /\ req' = [req EXCEPT ![w].pend = close[c].entries]
          /\ Goto(w, IF close[c].entries = {} THEN "commit" ELSE "undo")
          /\ UNCHANGED <<txn, entry, net>>

ReversalDate(c) == close[c].end

\* ledgerpost.ReverseTransaction of one posting the close made, dated its
\* period_end.
PostReversal(w) ==
  LET date == ReversalDate(req[w].close) IN
  /\ pc[w] = "undo"
  /\ \E t \in req[w].pend :
       /\ ~ReversalInFlight(w, t)
       /\ IF Locked(w, date) \/ Reversed(t) \/ NoTxnLeft
          THEN Rollback(w)
          ELSE /\ Insert(w, date, t, Negated(entry[t]))
               /\ req' = [req EXCEPT ![w].pend = @ \ {t}]
               /\ Goto(w, IF req[w].pend = {t} THEN "commit" ELSE "undo")

-----------------------------------------------------------------------------
Step(w) ==
  \/ InsertReversal(w)
  \/ ReadBalances(w) \/ PostZeroing(w) \/ PostSweep(w) \/ CreatePeriodClose(w)
  \/ BeginReverse(w) \/ MarkReversed(w) \/ PostReversal(w)
  \/ Commit(w)

Begin(w) ==
  \/ CreateLedgerTransaction(w) \/ CheckReversible(w)
  \/ BeginClose(w) \/ CheckReverse(w)

Next == \E w \in Workers : Begin(w) \/ Step(w) \/ Abort(w)

Spec == Init /\ [][Next]_vars

\* The statements that may have to wait for another transaction to end.
Waiting(w) ==
  InsertReversal(w) \/ CreatePeriodClose(w) \/ MarkReversed(w) \/ PostReversal(w)

\* A handler's goroutine and its database session keep running, so a statement
\* that can proceed does (weak fairness).  A waiting statement is woken when
\* the holder of its key ends, ahead of any later request, which has earlier
\* statements of its own to run before it can take the key again: woken again
\* and again, it proceeds (strong fairness).  Nobody has to send a request,
\* and nothing has to fail.
FairSpec ==
  Spec /\ \A w \in Workers : WF_vars(Step(w)) /\ SF_vars(Waiting(w))

-----------------------------------------------------------------------------
(***************************************************************************)
(* Properties.                                                             *)
(***************************************************************************)

\* The rows, and what each request remembers, have their types.
RowsOK ==
  /\ txn \in [TxnIds -> TxnRow]
  /\ close \in [CloseIds -> CloseRow]
  /\ pc \in [Workers -> Steps]
  /\ req \in [Workers -> Request]

\* A transaction is reversed at most once (ledgerpost.ReverseTransaction,
\* called from two handlers and from Reverse, relies on the unique index).
ReversedOnce ==
  \A r1, r2 \in TxnIds :
    /\ txn[r1].st = "live" /\ txn[r2].st = "live"
    /\ txn[r1].rev = txn[r2].rev /\ txn[r1].rev # NoTxn
    => r1 = r2

\* Two unreversed closes of the business never end on the same date, even
\* though a reversed close's date may be closed again.
ActiveEndsDistinct ==
  \A c1, c2 \in CloseIds :
    /\ close[c1].st \in {"active", "reversing"} /\ close[c2].st \in {"active", "reversing"}
    /\ close[c1].end = close[c2].end
    => c1 = c2

\* A close that is marked reversed has been undone completely: each posting
\* it made has a committed reversal with exactly the opposite amounts, dated
\* the period's end.  Whoever commits between Reverse's statements, the mark
\* and the reversing postings appear together.
ReversalUndoesClose ==
  \A c \in CloseIds : close[c].st = "reversed" =>
    \A t \in close[c].entries : \E r \in TxnIds :
      /\ txn[r].st = "live" /\ txn[r].rev = t /\ txn[r].date = close[c].end
      /\ \A a \in Accounts : entry[r][a] = -entry[t][a]

\* A committed close stands with all of its postings, each committed and dated
\* its end, whatever other requests committed or rolled back meanwhile.
CloseStandsWhole ==
  \A c \in CloseIds : Committed(c) =>
    \A t \in close[c].entries : txn[t].st = "live" /\ txn[t].date = close[c].end

\* The postings of a close leave Income Summary where it was: what the zeroing
\* postings put in, the sweep took out.
CloseSweepsSummary ==
  \A c \in CloseIds : Committed(c) =>
    MapThenSumSet(LAMBDA t : entry[t][IncomeSummary], close[c].entries) = 0

\* Every transaction another request can see balances, closing and reversing
\* ones included (no schema constraint enforces it).  True of clients that
\* send whole cents.
LedgerBalanced ==
  \A t \in TxnIds : txn[t].st = "live" =>
    MapThenSumSet(LAMBDA a : entry[t][a], Accounts) = 0

\* Every request ends: no wait for a lock or an index key is part of a cycle.
EveryRequestEnds == \A w \in Workers : pc[w] # "idle" ~> pc[w] = "idle"

Active == {c \in CloseIds : close[c].st \in {"active", "reversing"}}

\* A posting on a committed ledger, seen by nobody in particular.
CommittedBalance(a, from, to) ==
  MapThenSumSet(LAMBDA t : entry[t][a],
                {t \in TxnIds : txn[t].st = "live" /\ txn[t].date \in from .. to})

\* Closing sweeps every REVENUE and EXPENSES account of the period to zero,
\* and the lock keeps it there.
PeriodsCleared ==
  \A c \in Active, a \in Temporary :
    CommittedBalance(a, close[c].start, close[c].end) = 0

\* Unreversed closes do not overlap ...
PeriodsDisjoint ==
  \A c1, c2 \in Active :
    c1 # c2 => (close[c1].start .. close[c1].end) \intersect
               (close[c2].start .. close[c2].end) = {}

\* ... and leave no locked date uncovered.
PeriodsGapless ==
  \A c \in Active : \A date \in 1 .. close[c].end :
    \E d \in Active : date \in close[d].start .. close[d].end

\* The periods of the unreversed closes tile the locked dates: every one belongs to
\* exactly one of them (close.go resolvePeriodStart).
PeriodsTile == PeriodsDisjoint /\ PeriodsGapless

\* Nothing becomes visible in a period that is locked when it commits, except
\* the postings of the very close that locks it.
LockHolds ==
  [][\A t \in TxnIds : txn[t].st # "live" /\ txn'[t].st = "live" =>
       \A c \in CloseIds :
         close'[c].st \in {"active", "reversing"} /\ txn'[t].date <= close'[c].end
         => t \in close'[c].entries /\ close[c].st = "open"]_vars
=============================================================================
