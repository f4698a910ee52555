----------------------------- MODULE FeePayments -----------------------------
(***************************************************************************)
(* The payment ledger of the finance service                               *)
(* (services/finance/app/services/fees_service.py): record_payment, run by *)
(* any number of database sessions at once, and get_defaulters, which      *)
(* reads invoices without a lock and then writes their status.             *)
(*                                                                         *)
(* A session is one request with its own database transaction.  A step of  *)
(* the model ends where another session can see or block the next one: the *)
(* idempotency lookup, the locking read, and the commit of the             *)
(* compare-and-swap UPDATE together with the Payment INSERT.               *)
(*                                                                         *)
(* Stored amounts are cents (Numeric(12, 2)); the amount a caller sends is *)
(* in mills, tenths of a cent, because the service compares the amount as  *)
(* sent and the column rounds it when it is stored.                        *)
(***************************************************************************)
EXTENDS Integers, Sequences

CONSTANTS
    Invoices,       \* invoices of the school, all created before the run
    UnknownInvoice, \* an invoice id the school has no row for
    Total,          \* Total[i]: total_amount of invoice i, in cents
    DueDate,        \* DueDate[i]: due_date of invoice i
    Dates,          \* the as_of dates a defaulters query may name
    Keys,           \* idempotency keys
    NoKey,          \* no idempotency key was sent (NULL)
    Amounts,        \* amounts a caller may send, in mills
    Sessions,       \* database sessions running record_payment
    Sweepers,       \* database sessions running get_defaulters
    NoSession,      \* nobody holds the row lock
    RowLockModes,   \* {TRUE}: Postgres; FALSE: FOR UPDATE is a no-op (SQLite)
    MaxPayments     \* bound: no new request once this many rows exist

ASSUME TotalAssumption == Total \in [Invoices -> Nat \ {0}]
ASSUME DatesAssumption == Dates \subseteq Int /\ DueDate \in [Invoices -> Int]
ASSUME AmountsAssumption == Amounts \subseteq Int
ASSUME KeyAssumption == NoKey \notin Keys
ASSUME UnknownInvoiceAssumption == UnknownInvoice \notin Invoices
ASSUME NoSessionAssumption == NoSession \notin Sessions
ASSUME RowLockAssumption == RowLockModes \subseteq BOOLEAN
ASSUME BoundAssumption == MaxPayments \in Nat

VARIABLES
    rowLocks,   \* whether SELECT ... FOR UPDATE really locks the row
    paid,       \* paid[i]: paid_amount of invoice i, in cents
    status,     \* status[i]: the status column of invoice i
    payments,   \* the payments table, in commit order
    rowLock,    \* rowLock[i]: the session holding the lock on invoice i
    pc,         \* pc[s]: how far session s is in record_payment
    ask,        \* ask[s]: the arguments session s was called with
    seen,       \* seen[s]: observed_paid, the snapshot session s swaps against
    sweepPc,    \* sweepPc[w]: how far sweeper w is in get_defaulters
    sweepRows   \* sweepRows[w]: the invoices sweeper w will mark OVERDUE

invoiceVars == <<paid, status>>
sessionVars == <<pc, ask, seen>>
sweepVars == <<sweepPc, sweepRows>>
vars == <<rowLocks, paid, status, payments, rowLock, pc, ask, seen,
          sweepPc, sweepRows>>

-----------------------------------------------------------------------------

Status == {"PENDING", "PARTIAL", "PAID", "OVERDUE"}

\* A row of the payments table; amount is what the column stores, in cents.
Payment == [invoice : Invoices, key : Keys \cup {NoKey}, amount : Nat]

\* The arguments of one call of record_payment.
Request == [invoice : Invoices \cup {UnknownInvoice},
            key : Keys \cup {NoKey},
            amount : Amounts \cup {0}]

NoRequest == [invoice |-> UnknownInvoice, key |-> NoKey, amount |-> 0]

PcValues == {"idle", "checked", "loaded", "rejected", "aborted",
             "recorded", "replayed"}

TypeOK ==
    /\ rowLocks \in BOOLEAN
    /\ paid \in [Invoices -> Nat]
    /\ status \in [Invoices -> Status]
    /\ payments \in Seq(Payment)
    /\ rowLock \in [Invoices -> Sessions \cup {NoSession}]
    /\ pc \in [Sessions -> PcValues]
    /\ ask \in [Sessions -> Request]
    /\ seen \in [Sessions -> Nat]
    /\ sweepPc \in [Sweepers -> {"idle", "marking"}]
    /\ sweepRows \in [Sweepers -> SUBSET Invoices]

\* Numeric(12, 2) rounds half a cent up.
Cents(mills) == (mills + 5) \div 10

\* Slip: no payment is ever found by its key, nor refused by the index.
KeyForgotten(k) == FALSE

\* A key already in the payments table; NULL keys never match.
KeyUsed(k) == k # NoKey /\ \E n \in 1..Len(payments) : payments[n].key = k

\* Slip: the locking read does not wait.
NeverWaits(i) == TRUE

\* Slip: idempotency_key has no unique index.
NoIndex(k) == FALSE

\* The unique index on idempotency_key refuses an INSERT under key k.
IndexRefuses(k) == KeyUsed(k)

\* The row lock of invoice i can be taken.
Unlocked(i) == rowLocks => rowLock[i] = NoSession

\* Slip: the sign of the amount is not checked.
PayableAnySign(i, amount) ==
    /\ status[i] # "PAID"
    /\ amount <= 10 * (Total[i] - paid[i])

\* Slip: the amount is compared with the total, not with what remains.
PayableUpToTotal(i, amount) ==
    /\ status[i] # "PAID"
    /\ amount > 0
    /\ amount <= 10 * Total[i]

\* The three early returns that look at the locked invoice.
Payable(i, amount) ==
    /\ status[i] # "PAID"
    /\ amount > 0
    /\ amount <= 10 * (Total[i] - paid[i])

\* Slip: a first partial payment leaves the status as it was.
StatusUntouchedUntilPaid(i, observed, amount) ==
    IF 10 * observed + amount >= 10 * Total[i] THEN "PAID" ELSE status[i]

\* The status the service computes from the amount as sent, before rounding.
NewStatus(i, observed, amount) ==
    IF 10 * observed + amount >= 10 * Total[i] THEN "PAID" ELSE "PARTIAL"

\* What payment row p adds to invoice i.
Credit(p, i) == IF p.invoice = i THEN p.amount ELSE 0

\* RunningCredit(log, i)[n]: what the first n rows of log add to invoice i.
RunningCredit(log, i) ==
    LET upTo[n \in 0..Len(log)] ==
            IF n = 0 THEN 0 ELSE upTo[n - 1] + Credit(log[n], i)
    IN  upTo

\* The sum of the payment rows of invoice i.
Credited(log, i) == RunningCredit(log, i)[Len(log)]

\* Slip: the UPDATE has no compare-and-swap predicate.
SwapsBlindly(s) == TRUE

\* The UPDATE of session s still finds the paid_amount it read.
SwapMatches(s) == paid[ask[s].invoice] = seen[s]

\* Slip: the stale ORM instance is not expired, so its commit writes the old
\* paid_amount back.
StalePaid(s) == seen[s]

\* The paid_amount the UPDATE of session s writes.
NewPaid(s) == Cents(10 * seen[s] + ask[s].amount)

\* The row locks once session s has taken the one on invoice i.
Taken(s, i) == IF rowLocks THEN [rowLock EXCEPT ![i] = s] ELSE rowLock

\* Every row lock session s holds, given back.
Release(s) ==
    [i \in Invoices |-> IF rowLock[i] = s THEN NoSession ELSE rowLock[i]]

-----------------------------------------------------------------------------

Init ==
    /\ rowLocks \in RowLockModes
    /\ paid = [i \in Invoices |-> 0]
    /\ status = [i \in Invoices |-> "PENDING"]
    /\ payments = <<>>
    /\ rowLock = [i \in Invoices |-> NoSession]
    /\ pc = [s \in Sessions |-> "idle"]
    /\ ask = [s \in Sessions |-> NoRequest]
    /\ seen = [s \in Sessions |-> 0]
    /\ sweepPc = [w \in Sweepers |-> "idle"]
    /\ sweepRows = [w \in Sweepers |-> {}]

\* record_payment is called; it looks its idempotency key up, without a lock.
CheckKey(s, i, amount, k) ==
    /\ pc[s] = "idle"
    /\ Len(payments) < MaxPayments
    /\ ask' = [ask EXCEPT ![s] = [invoice |-> i, key |-> k, amount |-> amount]]
    /\ pc' = [pc EXCEPT ![s] = IF KeyUsed(k) THEN "replayed" ELSE "checked"]
    /\ UNCHANGED <<rowLocks, invoiceVars, payments, rowLock, seen, sweepVars>>

\* NOT_FOUND: no row, so nothing is locked.
InvoiceMissing(s) ==
    /\ pc[s] = "checked"
    /\ ask[s].invoice \notin Invoices
    /\ pc' = [pc EXCEPT ![s] = "rejected"]
    /\ UNCHANGED <<rowLocks, invoiceVars, payments, rowLock, ask, seen, sweepVars>>

\* SELECT ... FOR UPDATE, the snapshot of paid_amount, and the early returns.
\* A rejected call keeps its lock: it returns without commit or rollback.
LoadInvoice(s) ==
    /\ pc[s] = "checked"
    /\ ask[s].invoice \in Invoices
    /\ Unlocked(ask[s].invoice)
    /\ rowLock' = Taken(s, ask[s].invoice)
    /\ seen' = [seen EXCEPT ![s] = paid[ask[s].invoice]]
    /\ pc' = [pc EXCEPT ![s] = IF Payable(ask[s].invoice, ask[s].amount)
                               THEN "loaded" ELSE "rejected"]
    /\ UNCHANGED <<rowLocks, invoiceVars, payments, ask, sweepVars>>

\* The compare-and-swap matches the row and the commit goes through: invoice
\* and Payment row change together.
RecordPayment(s) ==
    LET i == ask[s].invoice
        amount == ask[s].amount
    IN  /\ pc[s] = "loaded"
        /\ SwapMatches(s)
        /\ ~IndexRefuses(ask[s].key)
        /\ paid' = [paid EXCEPT ![i] = NewPaid(s)]
        /\ status' = [status EXCEPT ![i] = NewStatus(i, seen[s], amount)]
        /\ payments' = Append(payments,
                              [invoice |-> i, key |-> ask[s].key,
                               amount |-> Cents(amount)])
        /\ pc' = [pc EXCEPT ![s] = "recorded"]
        /\ rowLock' = Release(s)
        /\ UNCHANGED <<rowLocks, ask, seen, sweepVars>>

\* CONCURRENT_WRITE_LOST: another commit moved paid_amount; roll back.
LoseRace(s) ==
    /\ pc[s] = "loaded"
    /\ ~SwapMatches(s)
    /\ pc' = [pc EXCEPT ![s] = "rejected"]
    /\ rowLock' = Release(s)
    /\ UNCHANGED <<rowLocks, invoiceVars, payments, ask, seen, sweepVars>>

\* The unique index on idempotency_key refuses the INSERT at commit: the
\* whole transaction, the UPDATE of the invoice included, is rolled back and
\* the exception leaves the service.
KeyCollision(s) ==
    /\ pc[s] = "loaded"
    /\ SwapMatches(s)
    /\ IndexRefuses(ask[s].key)
    /\ pc' = [pc EXCEPT ![s] = "aborted"]
    /\ rowLock' = Release(s)
    /\ UNCHANGED <<rowLocks, invoiceVars, payments, ask, seen, sweepVars>>

\* The request is over: get_db closes the session, which ends whatever
\* transaction is still open and gives its row lock back.
CloseSession(s) ==
    /\ pc[s] \in {"rejected", "aborted", "recorded", "replayed"}
    /\ pc' = [pc EXCEPT ![s] = "idle"]
    /\ ask' = [ask EXCEPT ![s] = NoRequest]
    /\ seen' = [seen EXCEPT ![s] = 0]
    /\ rowLock' = Release(s)
    /\ UNCHANGED <<rowLocks, invoiceVars, payments, sweepVars>>

-----------------------------------------------------------------------------

\* get_defaulters reads the unpaid invoices due before asOf, without a lock,
\* and decides which to mark from what it read.
ReadOverdue(w, asOf) ==
    /\ sweepPc[w] = "idle"
    /\ sweepPc' = [sweepPc EXCEPT ![w] = "marking"]
    /\ sweepRows' = [sweepRows EXCEPT ![w] =
           {i \in Invoices : status[i] \in {"PENDING", "PARTIAL"}
                             /\ DueDate[i] < asOf}]
    /\ UNCHANGED <<rowLocks, invoiceVars, payments, rowLock, sessionVars>>

\* The commit writes OVERDUE by primary key, whatever the row says by now.
\* Each UPDATE waits for the row lock.
MarkOverdue(w) ==
    /\ sweepPc[w] = "marking"
    /\ \A i \in sweepRows[w] : Unlocked(i)
    /\ status' = [i \in Invoices |-> IF i \in sweepRows[w] THEN "OVERDUE"
                                     ELSE status[i]]
    /\ sweepPc' = [sweepPc EXCEPT ![w] = "idle"]
    /\ sweepRows' = [sweepRows EXCEPT ![w] = {}]
    /\ UNCHANGED <<rowLocks, paid, payments, rowLock, sessionVars>>

\* The process dies with the sessions S and the sweepers W in it: their
\* uncommitted work is rolled back, what they committed stays.
Crash(S, W) ==
    /\ pc' = [s \in Sessions |-> IF s \in S THEN "idle" ELSE pc[s]]
    /\ ask' = [s \in Sessions |-> IF s \in S THEN NoRequest ELSE ask[s]]
    /\ seen' = [s \in Sessions |-> IF s \in S THEN 0 ELSE seen[s]]
    /\ rowLock' = [i \in Invoices |-> IF rowLock[i] \in S THEN NoSession
                                      ELSE rowLock[i]]
    /\ sweepPc' = [w \in Sweepers |-> IF w \in W THEN "idle" ELSE sweepPc[w]]
    /\ sweepRows' = [w \in Sweepers |-> IF w \in W THEN {} ELSE sweepRows[w]]
    /\ UNCHANGED <<rowLocks, invoiceVars, payments>>

SessionStep(s) ==
    \/ InvoiceMissing(s)
    \/ LoadInvoice(s)
    \/ RecordPayment(s)
    \/ LoseRace(s)
    \/ KeyCollision(s)
    \/ CloseSession(s)

Next ==
    \/ \E s \in Sessions, i \in Invoices \cup {UnknownInvoice},
          amount \in Amounts, k \in Keys \cup {NoKey} :
             CheckKey(s, i, amount, k)
    \/ \E s \in Sessions : SessionStep(s)
    \/ \E w \in Sweepers, asOf \in Dates : ReadOverdue(w, asOf)
    \/ \E w \in Sweepers : MarkOverdue(w)
    \/ \E S \in SUBSET Sessions, W \in SUBSET Sweepers : Crash(S, W)

Spec == Init /\ [][Next]_vars

-----------------------------------------------------------------------------

\* The invariant the service's concurrency tests state: for every invoice the
\* payment rows add up to paid_amount.  Two sessions that both read before
\* either writes, or half of a transaction surviving, would break it.
LedgerBalanced == \A i \in Invoices : paid[i] = Credited(payments, i)

\* No interleaving credits an invoice beyond its total, although the check
\* of the remaining balance and the write are separate steps.
NeverOverpaid == \A i \in Invoices : paid[i] <= Total[i]

\* A key sent twice, even by two sessions that both missed it in the lookup,
\* leaves one payment row.
OneRowPerKey ==
    \A m, n \in 1..Len(payments) :
        payments[m].key = payments[n].key /\ payments[m].key # NoKey => m = n

\* The status column never overstates and never forgets: PAID means nothing
\* is left to pay, PENDING means no payment was ever recorded.
StatusHonest ==
    \A i \in Invoices :
        /\ status[i] = "PAID" => paid[i] = Total[i]
        /\ status[i] = "PENDING" =>
               \A n \in 1..Len(payments) : payments[n].invoice # i

\* With real row locks a session past its checks has a current snapshot, so
\* the compare-and-swap never loses: CONCURRENT_WRITE_LOST is for SQLite only.
LockKeepsSnapshot ==
    rowLocks => \A s \in Sessions :
                    pc[s] = "loaded" => paid[ask[s].invoice] = seen[s]

\* What a session past its checks relies on: its arguments still fit its own
\* snapshot, and with real row locks it still holds the lock it waited for.
LoadedIsPayable ==
    \A s \in Sessions : pc[s] = "loaded" =>
        /\ ask[s].invoice \in Invoices
        /\ ask[s].amount > 0
        /\ ask[s].amount <= 10 * (Total[ask[s].invoice] - seen[s])

LoadedHoldsLock ==
    rowLocks => \A s \in Sessions :
                    pc[s] = "loaded" => rowLock[ask[s].invoice] = s

\* The inductive invariant: what the ledger promises, and what the sessions
\* in flight must be known to satisfy for the next step to keep it.
IInv ==
    /\ TypeOK
    /\ LoadedIsPayable
    /\ LoadedHoldsLock
    /\ LockKeepsSnapshot
    /\ LedgerBalanced
    /\ NeverOverpaid
    /\ OneRowPerKey
    /\ StatusHonest

\* Recorded money stays recorded: payment rows are only ever appended and
\* no paid_amount ever falls, through rejections, collisions and crashes.
LedgerOnlyGrows ==
    [][/\ Len(payments') >= Len(payments)
       /\ SubSeq(payments', 1, Len(payments)) = payments
       /\ \A i \in Invoices : paid'[i] >= paid[i]]_vars

\* The payment rows recorded under key k.
RowsUnder(log, k) == {n \in 1..Len(log) : log[n].key = k}

\* The promise of FeeLedger, with the sums of the payments table as the
\* credited amounts and the row numbers as the receipts.
Ledger == INSTANCE FeeLedger WITH
    credited <- [i \in Invoices |-> Credited(payments, i)],
    issued <- Len(payments),
    receipts <- [k \in Keys \cup {NoKey} |-> RowsUnder(payments, k)]

\* The sessions, locks and crashes below implement that promise: no step
\* credits without a receipt, twice under one key, or beyond a total.
ImplementsLedger == Ledger!LedgerSpec

=============================================================================
