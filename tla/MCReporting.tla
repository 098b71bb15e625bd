---------------------------- MODULE MCReporting ----------------------------
(***************************************************************************)
(* The small ledger, with its cash in an account below another, and an     *)
(* Income Summary that a business from before its provisioning had opened  *)
(* by hand, below an asset account, and that was adopted by its code.      *)
(***************************************************************************)
EXTENDS MCPeriodClose, Reporting

CONSTANT Bank

BankAbove == [a \in SheetAccounts |-> IF a \in {Cash, IncomeSummary} THEN Bank ELSE NoParent]
=============================================================================
