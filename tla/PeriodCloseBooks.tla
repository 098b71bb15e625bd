-------------------------- MODULE PeriodCloseBooks --------------------------
(***************************************************************************)
(* The refinement of Books by PeriodClose when requests are served one at  *)
(* a time: the rows of ledger_transaction, ledger_entry and period_close   *)
(* are the books' balances and closed periods, and every commit is one     *)
(* step of Books.                                                          *)
(***************************************************************************)
EXTENDS PeriodClose

\* The committed balance of each account on each date.
BookOf ==
  [d \in Dates |-> [a \in Accounts |-> CommittedBalance(a, d, d)]]

\* The net effect of one close's postings.
EffectOf(c) ==
  [a \in Accounts |-> MapThenSumSet(LAMBDA t : entry[t][a], close[c].entries)]

\* The closes in force.
PeriodsOf == {[end |-> close[c].end, effect |-> EffectOf(c)] : c \in Active}

B == INSTANCE Books WITH book <- BookOf, periods <- PeriodsOf

\* The rows implement the books: postings land in the open period only and
\* balance, a close moves exactly the income of its own period to Retained
\* Earnings and touches nothing else, and reversing the latest close restores
\* the books as they were, the reversals posted in between included.
ImplementsBooks == B!Spec
=============================================================================
