------------------------------ MODULE FeeLedger ------------------------------
(***************************************************************************)
(* What the finance service promises about money, without saying how: each *)
(* invoice is credited by whole payments, a payment is accepted at most    *)
(* once under its idempotency key, and no invoice is ever credited beyond  *)
(* its total.  Sessions, row locks, snapshots, crashes and the defaulters  *)
(* sweep are all below this level; FeePayments is shown to implement it.   *)
(***************************************************************************)
EXTENDS Integers

CONSTANTS
    Invoices,   \* invoices of one school
    Total,      \* Total[i]: the amount due on invoice i, in cents
    Keys,       \* idempotency keys a caller may send
    NoKey       \* the caller sent no key

VARIABLES
    credited,   \* credited[i]: cents credited to invoice i so far
    issued,     \* how many payments have been accepted, each with a receipt
    receipts    \* receipts[k]: the receipts issued under key k

ledgerVars == <<credited, issued, receipts>>

LedgerInit ==
    /\ credited = [i \in Invoices |-> 0]
    /\ issued = 0
    /\ receipts = [k \in Keys \cup {NoKey} |-> {}]

\* One payment of c cents is accepted for invoice i under key k, at once.
Post(i, c, k) ==
    /\ k # NoKey => receipts[k] = {}
    /\ credited[i] + c <= Total[i]
    /\ credited' = [credited EXCEPT ![i] = @ + c]
    /\ issued' = issued + 1
    /\ receipts' = [receipts EXCEPT ![k] = @ \cup {issued + 1}]

LedgerNext ==
    \E i \in Invoices : \E c \in 0..Total[i], k \in Keys \cup {NoKey} : Post(i, c, k)

LedgerSpec == LedgerInit /\ [][LedgerNext]_ledgerVars

=============================================================================
