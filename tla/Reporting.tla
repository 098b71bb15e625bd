------------------------------ MODULE Reporting ------------------------------
(***************************************************************************)
(* The balance sheet and the income statement, read from the ledger of     *)
(* PeriodClose.  A report changes nothing.  Its queries are separate       *)
(* statements on the pool; here they see one committed state, so what is   *)
(* shown holds of a report no commit falls into.                           *)
(***************************************************************************)
EXTENDS PeriodClose

CONSTANTS
  Assets,   \* the DEBIT-normal balance-sheet accounts
  Parent,   \* ledger_account.parent_account_id
  NoParent

SheetAccounts == Permanent \union {IncomeSummary, RetainedEarnings}

\* CreateLedgerAccount only asks that the parent be in the business.  Nothing is
\* above itself: a parent exists before its child, and no request changes it.
ASSUME ChartAssumption ==
  /\ Assets \subseteq Permanent
  /\ NoParent \notin Accounts
  /\ Parent \in [SheetAccounts -> Accounts \union {NoParent}]
  /\ \A S \in SUBSET SheetAccounts : S # {} => \E a \in S : Parent[a] \notin S

\* Under a parent of the other side a balance is printed with the wrong sign;
\* under a revenue or expense account it is not printed at all.
Misplaced ==
  {a \in SheetAccounts : /\ Parent[a] # NoParent
                         /\ Parent[a] \in SheetAccounts => (a \in Assets) # (Parent[a] \in Assets)}

\* indexBalanceSheetRows: an account's balance on its own side.
OwnNet(a, asOf) ==
  NetBalance(IF a \in Assets THEN "DEBIT" ELSE "CREDIT", CommittedBalance(a, 1, asOf), 0)

\* rollUpAccountBalance: with everything below it.
Below(a) == {b \in SheetAccounts : Parent[b] = a}
RolledUp(asOf) ==
  LET rolled[a \in SheetAccounts] ==
        OwnNet(a, asOf) + MapThenSumSet(LAMBDA b : rolled[b], Below(a))
  IN  rolled

\* The lines printed in a column: the roots.
Printed(column) == {a \in column : Parent[a] = NoParent}

ColumnTotal(column, asOf) == LET rolled == RolledUp(asOf) IN
  MapThenSumSet(LAMBDA a : rolled[a], Printed(column))

\* IncomeStatement's bottom line, and currentPeriodEarnings.
NetIncome(start, end) ==
  MapThenSumSet(LAMBDA a : -CommittedBalance(a, start, end), Temporary)

\* The earnings line: the income since the latest close, on a date after it.
\* (variant: no line once a period has been closed)
EarningsUntilFirstClose(asOf) == IF Active = {} THEN NetIncome(1, asOf) ELSE 0
Earnings(asOf) ==
  LET closedThrough == Max({0} \union {close[c].end : c \in Active}) IN
  IF asOf > closedThrough THEN NetIncome(closedThrough + 1, asOf) ELSE 0

TotalAssets(asOf) == ColumnTotal(Assets, asOf)
TotalLiabilities(asOf) == ColumnTotal(SheetAccounts \ Assets, asOf) + Earnings(asOf)

-----------------------------------------------------------------------------
\* The two columns agree on every date that is not inside a closed period,
\* however often periods were closed and reopened: income is either in Retained
\* Earnings or in the earnings line, once.  (Inside a closed period it is in
\* neither: the sweep is dated the period's end.)  An account at the wrong place
\* in the chart upsets them only while it, or what is below it, has an amount.
SheetBalances ==
  \A asOf \in Dates :
    /\ \A c \in Active : asOf \notin close[c].start .. close[c].end - 1
    /\ \A a \in Misplaced : RolledUp(asOf)[a] = 0
    => TotalAssets(asOf) = TotalLiabilities(asOf)
=============================================================================
