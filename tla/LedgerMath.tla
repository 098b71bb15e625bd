----------------------------- MODULE LedgerMath -----------------------------
(***************************************************************************)
(* The sign conventions of double-entry bookkeeping, as                    *)
(* internal/ledgermath and internal/ledgerpost define them.  An entry is   *)
(* the record [debit, credit] of two non-negative amounts, at most one of  *)
(* them positive; "signed" always means debit minus credit.                *)
(*                                                                         *)
(* Amounts are integers.  The code computes with exact decimals, of any    *)
(* precision a client sends, and stores DECIMAL(15,2): a stored amount is  *)
(* a whole number of cents, and an amount before it is stored counts equal *)
(* parts of a cent.                                                        *)
(***************************************************************************)
EXTENDS Integers

NormalSide == {"DEBIT", "CREDIT"}

Entry == [debit : Nat, credit : Nat]

Magnitude(x) == IF x < 0 THEN -x ELSE x

Signed(e) == e.debit - e.credit

\* What was a debit becomes a credit, and vice versa.
Swap(e) == [debit |-> e.credit, credit |-> e.debit]

\* What a DECIMAL(15,2) column keeps of an amount counted in 1/parts of a cent:
\* the nearest cent, halves away from zero.
Stored(amount, parts) ==
  IF amount < 0 THEN -((parts - 2 * amount) \div (2 * parts))
  ELSE (2 * amount + parts) \div (2 * parts)

\* The balance of an account in its own normal direction.
NetBalance(normal, debit, credit) ==
  IF normal = "DEBIT" THEN debit - credit ELSE credit - debit

\* The entry that moves an account by delta in its normal direction.
EntryForNormalDelta(normal, delta) ==
  IF (normal = "DEBIT") # (delta < 0)
  THEN [debit |-> Magnitude(delta), credit |-> 0]
  ELSE [debit |-> 0, credit |-> Magnitude(delta)]

\* A leg of a document posting: a positive amount on its natural side, a
\* negative one (a discount) on the other side as its absolute value.
DebitCreditFor(amount, naturalDebit) ==
  IF naturalDebit # (amount < 0)
  THEN [debit |-> Magnitude(amount), credit |-> 0]
  ELSE [debit |-> 0, credit |-> Magnitude(amount)]

\* The CHECK ledger_entry_debit_or_credit on the table.
DebitOrCredit(e) ==
  \/ e.debit > 0 /\ e.credit = 0
  \/ e.credit > 0 /\ e.debit = 0
=============================================================================
