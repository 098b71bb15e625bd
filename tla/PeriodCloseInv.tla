--------------------------- MODULE PeriodCloseInv ---------------------------
(***************************************************************************)
(* The inductive invariant behind the safety properties of PeriodClose.    *)
(***************************************************************************)
EXTENDS PeriodClose

\* A row has an owner exactly while the owner's transaction is in flight, and
\* the owner is at a step at which it may have written such a row.
OwnersOK ==
  /\ \A t \in TxnIds : /\ txn[t].st = "open" <=> txn[t].by # NoWorker
                       /\ txn[t].st = "open" => pc[txn[t].by] \in {"zero", "close", "undo", "commit"}
                       /\ txn[t].st = "free" => txn[t].rev = NoTxn
  /\ \A c \in CloseIds :
       /\ close[c].st \in {"open", "reversing"} <=> close[c].by # NoWorker
       /\ close[c].st = "open" => pc[close[c].by] = "commit"
       /\ close[c].st = "reversing" =>
            /\ pc[close[c].by] \in {"undo", "commit"}
            /\ req[close[c].by].close = c

\* What a request that reverses a close holds on to; what it has yet to
\* reverse, it has not reversed.
ReopensOK ==
  \A w \in Workers :
    /\ pc[w] = "reversal" => req[w].target \in TxnIds
    /\ pc[w] \in {"reopen", "mark", "undo"} => req[w].close \in CloseIds
    /\ pc[w] = "undo" => /\ close[req[w].close].st = "reversing"
                         /\ close[req[w].close].by = w
                         /\ \A r \in TxnIds :
                              txn[r].st = "open" /\ txn[r].by = w => txn[r].rev \notin req[w].pend

\* A close's postings are written before its row, in the same transaction,
\* and dated its end.
EntriesOK ==
  /\ DOMAIN entry = TxnIds
  /\ \A t \in TxnIds : txn[t].st = "open" /\ pc[txn[t].by] \in {"zero", "close"} =>
       txn[t].date = req[txn[t].by].date
  /\ \A c \in CloseIds : \A t \in close[c].entries :
       /\ txn[t].date = close[c].end
       /\ IF close[c].st = "open" THEN txn[t].st = "open" /\ txn[t].by = close[c].by
          ELSE txn[t].st = "live"

\* The two unique indexes, in-flight rows included.
KeysUnique ==
  /\ \A r1, r2 \in TxnIds :
       txn[r1].rev = txn[r2].rev /\ txn[r1].rev # NoTxn => r1 = r2
  /\ \A c1, c2 \in CloseIds :
       /\ close[c1].st \in {"open", "active", "reversing"}
       /\ close[c2].st \in {"open", "active", "reversing"}
       /\ close[c1].end = close[c2].end
       => c1 = c2

\* r is the reversal of t that undoing the close c posts.
Undoes(r, t, c) ==
  /\ txn[r].rev = t /\ txn[r].date = close[c].end
  /\ entry[r] = Negated(entry[t])

\* How far undoing a close has come: what is no longer pending has an
\* in-flight reversal of the same transaction; once the mark is committed,
\* every posting has a committed one.
UndoOK ==
  \A c \in CloseIds :
    /\ close[c].st = "reversing" =>
         /\ pc[close[c].by] = "commit" => req[close[c].by].pend = {}
         /\ \A t \in close[c].entries \ req[close[c].by].pend : \E r \in TxnIds :
              txn[r].st = "open" /\ txn[r].by = close[c].by /\ Undoes(r, t, c)
    /\ close[c].st = "reversed" =>
         \A t \in close[c].entries : \E r \in TxnIds :
           txn[r].st = "live" /\ Undoes(r, t, c)

IInv ==
  /\ RowsOK /\ OwnersOK /\ ReopensOK /\ EntriesOK /\ KeysUnique /\ UndoOK

-----------------------------------------------------------------------------
(***************************************************************************)
(* What the amounts add up to.                                             *)
(***************************************************************************)
AmountsOK ==
  /\ entry \in [TxnIds -> [Accounts -> Int]]
  /\ net \in [Workers -> [Accounts -> Int]]
  /\ \A w \in Workers : req[w].todo \subseteq Temporary

\* An account's part of a set of transactions.
Total(a, S) == MapThenSumSet(LAMBDA t : entry[t][a], S)

\* Every transaction balances, visible or not.
BalancedOK == \A t \in TxnIds : MapThenSumSet(LAMBDA a : entry[t][a], Accounts) = 0

\* A close's postings leave Income Summary alone once the sweep is posted.
SummaryOK ==
  /\ \A c \in CloseIds : Total(IncomeSummary, close[c].entries) = 0
  /\ \A w \in Workers : pc[w] = "close" => Total(IncomeSummary, Own(w)) = 0

SumsInv == AmountsOK /\ SummaryOK

-----------------------------------------------------------------------------
(***************************************************************************)
(* One request at a time: what holds of the periods when no other request  *)
(* comes between the checks of a handler and its commit.                   *)
(***************************************************************************)
Alone == \A v, w \in Workers : v = w

InForce == {c \in CloseIds : close[c].st \in {"open", "active", "reversing"}}

\* start is where the period after the closes in force begins.
StartsAfter(start, C) == start = 1 \/ \E d \in C : close[d].end + 1 = start

\* The closes in force follow each other, and one being written or being
\* reversed is the last of them.
TilesOK ==
  /\ \A c \in InForce : /\ close[c].start <= close[c].end
                        /\ StartsAfter(close[c].start, InForce \ {c})
  /\ \A c, d \in InForce : close[c].end < close[d].end => close[c].end < close[d].start
  /\ \A c, d \in InForce : close[c].st # "active" => close[d].end <= close[c].end

\* What a request in flight knows of the closes in force.
RequestsOK ==
  \A w \in Workers :
    /\ pc[w] \in {"balances", "zero", "close"} =>
         /\ req[w].start <= req[w].date /\ StartsAfter(req[w].start, Active)
         /\ \A c \in Active : close[c].end < req[w].start
    /\ pc[w] = "mark" => LastClose(w, req[w].close)

\* A row not yet visible is dated after every close that stays in force, and a
\* close's row lists all that its transaction has written.
LockOK ==
  /\ \A t \in TxnIds, c \in CloseIds :
       txn[t].st = "open" /\ close[c].st = "active" => txn[t].date > close[c].end
  /\ \A c \in CloseIds : close[c].st = "open" => close[c].entries = Own(close[c].by)

\* The periods in force are swept, and a close in flight has swept what its
\* request no longer has to do.
ClearedOK ==
  \A a \in Temporary :
    /\ \A c \in Active : CommittedBalance(a, close[c].start, close[c].end) = 0
    /\ \A c \in CloseIds : close[c].st = "open" =>
         CommittedBalance(a, close[c].start, close[c].end) + Total(a, close[c].entries) = 0
    /\ \A w \in Workers : pc[w] \in {"zero", "close"} =>
         LET balance == CommittedBalance(a, req[w].start, req[w].date) IN
         /\ pc[w] = "zero" => net[w][a] = NetBalance(NormalBalance(a), balance, 0)
         /\ pc[w] = "close" => req[w].todo = {}
         /\ Total(a, Own(w)) = IF a \in req[w].todo THEN 0 ELSE -balance

AloneInv == TilesOK /\ RequestsOK /\ LockOK /\ ClearedOK
-----------------------------------------------------------------------------
(***************************************************************************)
(* What a transaction writes, all of it together, when it commits.         *)
(***************************************************************************)

\* A transaction that writes no period_close row writes one ledger_transaction.
OneRowOK ==
  \A w \in Workers : pc[w] = "commit" /\ (\A c \in CloseIds : close[c].by # w) =>
    \E t \in TxnIds : Own(w) = {t}

\* A close posts to no account of the business's other types.
QuietOK ==
  \A a \in Permanent :
    /\ \A c \in CloseIds : \A t \in close[c].entries : entry[t][a] = 0
    /\ \A w \in Workers : pc[w] \in {"zero", "close"} => \A t \in Own(w) : entry[t][a] = 0

\* Undoing a close reverses postings of that close, and nothing else.
UndoesOnlyOK ==
  \A c \in CloseIds : close[c].st = "reversing" =>
    /\ pc[close[c].by] = "undo" => req[close[c].by].pend \subseteq close[c].entries
    /\ \A r \in Own(close[c].by) : txn[r].rev \in close[c].entries

BooksInv == OneRowOK /\ QuietOK /\ UndoesOnlyOK
=============================================================================
