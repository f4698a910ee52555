---------------------------- MODULE MCFeePayments ----------------------------
(***************************************************************************)
(* Instances of FeePayments for TLC.  A total of two cents leaves room for *)
(* two payments that together overpay, for an exact settlement and for a   *)
(* sub-cent amount that rounds up to the total; one amount is negative.    *)
(***************************************************************************)
EXTENDS FeePayments, TLC

MCTotal == [i \in Invoices |-> 2]
MCDueDate == [i \in Invoices |-> 1]
MCAmounts == {-10, 10, 15, 20}
MCSymmetry == Permutations(Sessions)
=============================================================================
