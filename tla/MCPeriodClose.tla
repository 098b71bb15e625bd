--------------------------- MODULE MCPeriodClose ---------------------------
(***************************************************************************)
(* Small ledgers for TLC: one business, at most one revenue, one expense   *)
(* and one asset account besides the two system accounts.                  *)
(***************************************************************************)
EXTENDS PeriodCloseBooks, PeriodCloseInv, TLC

CONSTANTS Sales, Rent, Cash

\* A posting of `amount` from account `from` to account `to`.
Transfer(from, to, amount) ==
  [a \in Accounts |-> IF a = to THEN amount ELSE IF a = from THEN -amount ELSE 0]

\* A cash sale.
SaleDrafts == {Transfer(Sales, Cash, 2)}

\* Entries that do not balance.
OneSided == [a \in Accounts |-> IF a = Cash THEN 1 ELSE 0]

\* A cash sale, rent paid for half of it, and entries that do not balance.
TradingDrafts ==
  {Transfer(Sales, Cash, 2), Transfer(Cash, Rent, 1), OneSided}

WorkerSymmetry == Permutations(Workers)
=============================================================================
