-------------------------------- MODULE Books --------------------------------
(***************************************************************************)
(* What a set of books with a period close promises its business, with     *)
(* every request atomic and no transaction identities: an account balance  *)
(* per date, and the periods that are closed.                              *)
(*                                                                         *)
(* A posting changes one open date and balances.  Closing through a date   *)
(* moves the income of the dates since the previous close into retained    *)
(* earnings.  Reopening undoes the latest close, and only that one.        *)
(***************************************************************************)
EXTENDS Integers, FiniteSetsExt

CONSTANTS
  Accounts,
  Temporary,         \* the REVENUE and EXPENSES accounts
  RetainedEarnings,
  LastDate

VARIABLES
  book,    \* [1..LastDate -> [Accounts -> Int]], debit minus credit per date
  periods  \* the closes in force: the date each ends, and what it did there

Dates == 1 .. LastDate

ClosedThrough == Max({0} \union {p.end : p \in periods})

Added(xs, ys) == [a \in Accounts |-> xs[a] + ys[a]]
Less(xs, ys) == [a \in Accounts |-> xs[a] - ys[a]]
Total(xs, S) == MapThenSumSet(LAMBDA a : xs[a], S)

Init ==
  /\ book = [d \in Dates |-> [a \in Accounts |-> 0]]
  /\ periods = {}

Post ==
  /\ \E d \in Dates :
       /\ d > ClosedThrough
       /\ \A e \in Dates \ {d} : book'[e] = book[e]
       /\ Total(book'[d], Accounts) = Total(book[d], Accounts)
  /\ UNCHANGED periods

\* What is on an account for the dates since the previous close.
Income(a, end) == MapThenSumSet(LAMBDA d : book[d][a], ClosedThrough + 1 .. end)

\* What closing through `end` does to the books of that date.
CloseEffect(end) ==
  [a \in Accounts |->
     IF a \in Temporary THEN -Income(a, end)
     ELSE IF a = RetainedEarnings THEN MapThenSumSet(LAMBDA b : Income(b, end), Temporary)
     ELSE 0]

CloseThrough(end) ==
  /\ end > ClosedThrough
  /\ book' = [book EXCEPT ![end] = Added(book[end], CloseEffect(end))]
  /\ periods' = periods \union {[end |-> end, effect |-> CloseEffect(end)]}

Reopen ==
  \E p \in periods :
    /\ p.end = ClosedThrough
    /\ book' = [book EXCEPT ![p.end] = Less(book[p.end], p.effect)]
    /\ periods' = periods \ {p}

Next == Post \/ (\E end \in Dates : CloseThrough(end)) \/ Reopen

Spec == Init /\ [][Next]_<<book, periods>>
=============================================================================
