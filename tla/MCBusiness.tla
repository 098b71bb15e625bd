----------------------------- MODULE MCBusiness -----------------------------
(***************************************************************************)
(* A small business for TLC.                                               *)
(***************************************************************************)
EXTENDS Business

CONSTANTS c1, c2

\* A customer that is a vendor too, and a vendor.
BothAndVendor == [c \in {c1, c2} |-> IF c = c1 THEN <<"AR", "AP">> ELSE <<"AP">>]
=============================================================================
