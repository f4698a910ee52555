-------------------------- MODULE MCPaynowCheckout --------------------------
(***************************************************************************)
(* Instances of PaynowCheckout for TLC.  A transaction is its own key, so  *)
(* that transactions are interchangeable.                                  *)
(***************************************************************************)
EXTENDS PaynowCheckout, TLC

MCTotal == [i \in Invoices |-> 2]
MCDueDate == [i \in Invoices |-> 1]
MCTxnKey == [t \in Txns |-> t]
MCSymmetry == Permutations(Txns) \cup Permutations(Hooks)
=============================================================================
