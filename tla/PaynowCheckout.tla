--------------------------- MODULE PaynowCheckout ---------------------------
(***************************************************************************)
(* Mobile-money checkout (services/finance/app/api/payments.py) on top of  *)
(* the payment ledger: initiate, the Paynow webhook and the status poll,   *)
(* next to the till (POST /fees/payments of api/routes.py), all served by  *)
(* one uvicorn process.                                                    *)
(*                                                                         *)
(* The webhook is an "async def" handler whose database calls block: from  *)
(* its first statement to its return it occupies the event loop.  Every    *)
(* other handler runs in a thread, but a request is dispatched, and its    *)
(* database session closed, only while the loop is free.                   *)
(*                                                                         *)
(* The gateway is external: it repeats a notice until it reads Ok, and     *)
(* notices may arrive late, again, or out of order.  A PAID notice names   *)
(* the amount the payer was charged, which need not be the one asked for;  *)
(* one that names none the code can parse stands for the amount of the     *)
(* row.  Amounts are in mills, as in FeePayments.                          *)
(***************************************************************************)
EXTENDS FeePayments

CONSTANTS
    Txns,            \* payment_transactions rows, by merchant reference
    TxnKey,          \* TxnKey[t]: the key paynow:{reference}:{paynow_reference}
    TxnAmounts,      \* amounts a checkout may be started with
    NoAmount,        \* a notice's amount is absent or does not parse
    NoticeAmounts,   \* what PAID notices may name, NoAmount included
    TillKeys,        \* idempotency keys the school office sends
    Hooks,           \* sessions of webhook requests
    Tills,           \* sessions of cash payment requests
    MaxCrashes       \* bound: how often the process may die

ASSUME SessionsAssumption == Sessions = Hooks \cup Tills /\ Hooks \cap Tills = {}
ASSUME TxnKeyAssumption ==
    /\ TxnKey \in [Txns -> Keys \ TillKeys]
    /\ \A t, u \in Txns : TxnKey[t] = TxnKey[u] => t = u
ASSUME TillKeysAssumption == TillKeys \subseteq Keys
ASSUME TxnAmountsAssumption ==
    TxnAmounts \subseteq Amounts /\ \A m \in TxnAmounts : m > 0 /\ m % 10 = 0
ASSUME NoticeAmountsAssumption ==
    NoAmount \notin Amounts /\ NoticeAmounts \subseteq Amounts \cup {NoAmount}
ASSUME CrashBoundAssumption == MaxCrashes \in Nat

VARIABLES
    txn,        \* txn[t]: the row of transaction t
    call,       \* call[t]: the initiate request of t and its gateway call
    poll,       \* poll[t]: the status request of t and the gateway's answer
    gateway,    \* gateway[t]: how the gateway classifies t ("NONE": unknown)
    reported,   \* reported[t]: the classes the gateway has sent a notice for
    named,      \* named[t]: the amounts PAID notices for t have named
    acked,      \* <<t, a>>: a PAID notice for t naming a was answered Ok
    hook,       \* hook[h]: what the webhook request in session h works on
    loop,       \* the session whose handler occupies the event loop
    crashes     \* how often the process has died

gatewayVars == <<gateway, reported, named>>
threadVars == <<call, poll>>
checkoutVars == <<txn, call, poll, gateway, reported, named, acked, hook, loop,
                  crashes>>
allVars == <<vars, checkoutVars>>

-----------------------------------------------------------------------------

\* Statuses of a payment_transactions row; "NONE": the row does not exist.
\* The code never writes EXPIRED.
TxnStatus == {"NONE", "INITIATED", "SENT", "PAID", "CANCELLED", "FAILED"}
Terminal == {"PAID", "CANCELLED", "FAILED"}

\* The classes _classify_paynow_status sorts the gateway's statuses into.
Class == {"SENT", "PAID", "CANCELLED", "FAILED"}

\* payment is the id of the linked Payment row, 0 for NULL; polled tells
\* whether poll_url was stored.
Txn == [status : TxnStatus, invoice : Invoices \cup {UnknownInvoice},
        amount : TxnAmounts \cup {0}, payment : Nat, polled : BOOLEAN]

NoTxn == [status |-> "NONE", invoice |-> UnknownInvoice, amount |-> 0,
          payment |-> 0, polled |-> FALSE]

\* The transaction a webhook request loaded, what its notice names, and the
\* status it found; "NONE" once a commit or rollback has expired the row.
Hook == [txn : Txns, notice : NoticeAmounts, loaded : TxnStatus]

CheckoutTypeOK ==
    /\ txn \in [Txns -> Txn]
    /\ call \in [Txns -> {"none", "calling", "over"}]
    /\ poll \in [Txns -> {"none", "asking"} \cup Class]
    /\ gateway \in [Txns -> {"NONE"} \cup Class]
    /\ reported \in [Txns -> SUBSET Class]
    /\ named \in [Txns -> SUBSET NoticeAmounts]
    /\ acked \in SUBSET (Txns \X NoticeAmounts)
    /\ \A h \in Hooks : pc[h] # "idle" => hook[h] \in Hook
    /\ loop \in Hooks \cup {NoSession}
    /\ crashes \in 0..MaxCrashes

\* Slip: the webhook is a plain "def" handler and runs in a thread.
LoopNeverNeeded == TRUE

\* The event loop can take the next piece of work.
LoopFree == loop = NoSession

\* Slip: any notice for the transaction counts as paid.
AnyNotice(t, a) == reported[t] # {} /\ a \in NoticeAmounts

\* Slip: the webhook skips transactions that are terminal already.
PaidUnlessTerminal(t, a) == a \in named[t] /\ txn[t].status \notin Terminal

\* The gateway has sent a notice that classifies as PAID and names a.
NoticePaid(t, a) == a \in named[t]

\* Slip: what is booked is the amount the checkout was started with.
BooksWhatWasAsked(t, a) == txn[t].amount

\* The amount the webhook books: the notice's own, the row's if it names none.
Booked(t, a) == IF a = NoAmount THEN txn[t].amount ELSE a

\* The Payment row recorded for transaction t, 0 if there is none.
PaymentOf(t) ==
    IF KeyUsed(TxnKey[t])
    THEN CHOOSE n \in 1..Len(payments) : payments[n].key = TxnKey[t]
    ELSE 0

\* What a commit leaves in the status column: the ORM writes the column only
\* if the new value differs from the one the request loaded.
Flushed(current, loaded, new) == IF new = loaded THEN current ELSE new

CheckoutInit ==
    /\ Init
    /\ txn = [t \in Txns |-> NoTxn]
    /\ call = [t \in Txns |-> "none"]
    /\ poll = [t \in Txns |-> "none"]
    /\ gateway = [t \in Txns |-> "NONE"]
    /\ reported = [t \in Txns |-> {}]
    /\ named = [t \in Txns |-> {}]
    /\ acked = {}
    /\ hook = [h \in Hooks |-> <<>>]
    /\ loop = NoSession
    /\ crashes = 0

-----------------------------------------------------------------------------

\* initiate_payment up to the gateway call: the balance is checked without a
\* lock, and the row is committed before the gateway is asked.
Initiate(t, i, amount) ==
    /\ LoopFree
    /\ txn[t].status = "NONE"
    /\ amount <= 10 * (Total[i] - paid[i])
    /\ txn' = [txn EXCEPT ![t] = [NoTxn EXCEPT !.status = "INITIATED",
                                               !.invoice = i, !.amount = amount]]
    /\ call' = [call EXCEPT ![t] = "calling"]
    /\ UNCHANGED <<vars, poll, gatewayVars, acked, hook, loop, crashes>>

\* The gateway answered Ok: the thread stores poll_url and writes SENT over
\* whatever the row says by now.
InitiateAccepted(t) ==
    /\ call[t] = "calling"
    /\ gateway[t] # "NONE"
    /\ txn' = [txn EXCEPT ![t].status = "SENT", ![t].polled = TRUE]
    /\ call' = [call EXCEPT ![t] = "over"]
    /\ UNCHANGED <<vars, poll, gatewayVars, acked, hook, loop, crashes>>

\* The gateway refused, or the call timed out, in which case the gateway may
\* have accepted it all the same: the thread writes FAILED.
InitiateFailed(t) ==
    /\ call[t] = "calling"
    /\ txn' = [txn EXCEPT ![t].status = "FAILED"]
    /\ call' = [call EXCEPT ![t] = "over"]
    /\ UNCHANGED <<vars, poll, gatewayVars, acked, hook, loop, crashes>>

-----------------------------------------------------------------------------

\* The gateway moves transaction t to class c and sends a notice for it, a
\* PAID one naming the amounts given.
GatewayReports(t, c, amounts) ==
    /\ gateway' = [gateway EXCEPT ![t] = c]
    /\ reported' = [reported EXCEPT ![t] = @ \cup {c}]
    /\ named' = [named EXCEPT ![t] = @ \cup amounts]
    /\ UNCHANGED <<vars, txn, threadVars, acked, hook, loop, crashes>>

\* The request reaches the gateway, perhaps after the caller gave up on it.
GatewayAccepts(t) ==
    /\ call[t] # "none"
    /\ gateway[t] = "NONE"
    /\ GatewayReports(t, "SENT", {})

\* The payer declines, or lets the request fail.
PayerDeclines(t) ==
    /\ gateway[t] = "SENT"
    /\ \E c \in {"CANCELLED", "FAILED"} : GatewayReports(t, c, {})

\* The payer pays; further notices of the classes the code takes for paid
\* ("awaiting delivery", "delivered") may follow, naming another amount.
PayerPays(t) ==
    /\ gateway[t] \in {"SENT", "PAID"}
    /\ \E a \in NoticeAmounts \ named[t] : GatewayReports(t, "PAID", {a})

\* A payment is disputed or refunded.
PaymentReversed(t) ==
    /\ gateway[t] = "PAID"
    /\ GatewayReports(t, "FAILED", {})

-----------------------------------------------------------------------------

\* The webhook for any class but PAID: the row takes the class, whatever it
\* said before.  Read and commit are one step: with the same class loaded
\* and written the column stays as it is.
WebhookOther(h, t, c) ==
    /\ LoopFree
    /\ pc[h] = "idle"
    /\ c \in reported[t] \ {"PAID"}
    /\ txn' = [txn EXCEPT ![t].status = c]
    /\ UNCHANGED <<vars, threadVars, gatewayVars, acked, hook, loop, crashes>>

\* The webhook for PAID loads the row and enters record_payment, from here on
\* occupying the loop.  Loading the row is one step with the key lookup: only
\* webhooks write payments under a transaction's key, and they take turns.
WebhookPaid(h, t, a) ==
    /\ LoopFree
    /\ NoticePaid(t, a)
    /\ CheckKey(h, txn[t].invoice, Booked(t, a), TxnKey[t])
    /\ hook' = [hook EXCEPT ![h] = [txn |-> t, notice |-> a,
                                    loaded |-> txn[t].status]]
    /\ loop' = h
    /\ UNCHANGED <<txn, threadVars, gatewayVars, acked, crashes>>

\* The locking read.  The loop stays occupied while it waits.
WebhookLoads(h) ==
    /\ LoadInvoice(h)
    /\ UNCHANGED checkoutVars

\* record_payment's commit flushes the pending PAID status with it.
WebhookRecords(h) ==
    LET t == hook[h].txn
    IN  /\ RecordPayment(h)
        /\ txn' = [txn EXCEPT ![t].status = Flushed(@, hook[h].loaded, "PAID")]
        /\ hook' = [hook EXCEPT ![h].loaded = "NONE"]
        /\ UNCHANGED <<threadVars, gatewayVars, acked, loop, crashes>>

\* record_payment rolls back: the pending PAID is lost with it.
WebhookLosesRace(h) ==
    /\ LoseRace(h)
    /\ hook' = [hook EXCEPT ![h].loaded = "NONE"]
    /\ UNCHANGED <<txn, threadVars, gatewayVars, acked, loop, crashes>>

\* The handler's own commit, the answer Ok, and the end of the request.
\* A recorded or replayed payment is linked; a rejected one marks the
\* transaction FAILED although the payer was charged.
WebhookAnswersOk(h) ==
    LET t == hook[h].txn
        row == txn[t]
        linked == [row EXCEPT !.payment = PaymentOf(t)]
    IN  /\ pc[h] \in {"recorded", "replayed", "rejected"}
        /\ txn' = [txn EXCEPT ![t] =
                     CASE pc[h] = "recorded" -> linked
                       [] pc[h] = "replayed" ->
                            [linked EXCEPT !.status =
                                Flushed(row.status, hook[h].loaded, "PAID")]
                       [] pc[h] = "rejected" ->
                            [row EXCEPT !.status =
                                Flushed(row.status, hook[h].loaded, "FAILED")]]
        /\ CloseSession(h)
        /\ acked' = acked \cup {<<t, hook[h].notice>>}
        /\ loop' = NoSession
        /\ hook' = [hook EXCEPT ![h] = <<>>]
        /\ UNCHANGED <<threadVars, gatewayVars, crashes>>

\* No step for a key collision: WebhookKeyIsFree shows it cannot happen here.
WebhookStep(h) ==
    \/ WebhookLoads(h)
    \/ WebhookRecords(h)
    \/ WebhookLosesRace(h)
    \/ WebhookAnswersOk(h)

-----------------------------------------------------------------------------

\* A status request finds the transaction not terminal and asks the gateway.
PollReads(t) ==
    /\ LoopFree
    /\ poll[t] = "none"
    /\ txn[t].status \notin Terminal
    /\ txn[t].polled
    /\ poll' = [poll EXCEPT ![t] = "asking"]
    /\ UNCHANGED <<vars, txn, call, gatewayVars, acked, hook, loop, crashes>>

\* Slip: an error is stored as it is, not classified.
PollUnclassified(t) ==
    /\ poll[t] = "asking"
    /\ \E c \in {gateway[t], "ERROR"} : poll' = [poll EXCEPT ![t] = c]
    /\ UNCHANGED <<vars, txn, call, gatewayVars, acked, hook, loop, crashes>>

\* The gateway answers with its class; an error is classified as SENT.
PollAnswered(t) ==
    /\ poll[t] = "asking"
    /\ \E c \in {gateway[t], "SENT"} : poll' = [poll EXCEPT ![t] = c]
    /\ UNCHANGED <<vars, txn, call, gatewayVars, acked, hook, loop, crashes>>

\* Slip: a poll that learns PAID settles the invoice as well.
PollSettles(t) ==
    /\ poll[t] \in Class
    /\ txn' = [txn EXCEPT ![t].status = Flushed(@, "SENT", poll[t])]
    /\ status' = IF poll[t] = "PAID" THEN [status EXCEPT ![txn[t].invoice] = "PAID"]
                                     ELSE status
    /\ poll' = [poll EXCEPT ![t] = "none"]
    /\ UNCHANGED <<rowLocks, paid, payments, rowLock, sessionVars, sweepVars,
                   call, gatewayVars, acked, hook, loop, crashes>>

\* The thread compares the answer with the SENT it read, and writes it over
\* whatever the row says by now.  No payment is recorded.
PollWrites(t) ==
    /\ poll[t] \in Class
    /\ txn' = [txn EXCEPT ![t].status = Flushed(@, "SENT", poll[t])]
    /\ poll' = [poll EXCEPT ![t] = "none"]
    /\ UNCHANGED <<vars, call, gatewayVars, acked, hook, loop, crashes>>

-----------------------------------------------------------------------------

\* A cash payment request is dispatched to a thread.
TillAsks(s, i, amount, k) ==
    /\ LoopFree
    /\ CheckKey(s, i, amount, k)
    /\ UNCHANGED checkoutVars

\* The steps of record_payment in the thread; the loop is not needed.
TillStep(s) ==
    /\ InvoiceMissing(s) \/ LoadInvoice(s) \/ RecordPayment(s) \/ LoseRace(s)
       \/ KeyCollision(s)
    /\ UNCHANGED checkoutVars

\* The loop sends the answer, and only then closes the database session.
TillAnswers(s) ==
    /\ LoopFree
    /\ CloseSession(s)
    /\ UNCHANGED checkoutVars

\* The process dies and restarts: requests, gateway calls and the sessions in
\* them are gone, rows and notices stay.
ProcessDies ==
    /\ crashes < MaxCrashes
    /\ crashes' = crashes + 1
    /\ Crash(Sessions, Sweepers)
    /\ call' = [t \in Txns |-> IF call[t] = "calling" THEN "over" ELSE call[t]]
    /\ poll' = [t \in Txns |-> "none"]
    /\ hook' = [h \in Hooks |-> <<>>]
    /\ loop' = NoSession
    /\ UNCHANGED <<txn, gatewayVars, acked>>

CheckoutNext ==
    \/ \E t \in Txns :
          \/ \E i \in Invoices, amount \in TxnAmounts : Initiate(t, i, amount)
          \/ InitiateAccepted(t)
          \/ InitiateFailed(t)
          \/ GatewayAccepts(t)
          \/ PayerDeclines(t)
          \/ PayerPays(t)
          \/ PaymentReversed(t)
          \/ PollReads(t)
          \/ PollAnswered(t)
          \/ PollWrites(t)
    \/ \E h \in Hooks :
          \/ \E t \in Txns, c \in Class : WebhookOther(h, t, c)
          \/ \E t \in Txns, a \in NoticeAmounts : WebhookPaid(h, t, a)
          \/ WebhookStep(h)
    \/ \E s \in Tills :
          \/ \E i \in Invoices \cup {UnknownInvoice}, amount \in Amounts,
                k \in TillKeys \cup {NoKey} : TillAsks(s, i, amount, k)
          \/ TillStep(s)
          \/ TillAnswers(s)
    \/ ProcessDies

CheckoutSpec == CheckoutInit /\ [][CheckoutNext]_allVars

\* Threads and the handler on the loop run on; the gateway repeats a PAID
\* notice until it is answered Ok.  Nothing says the payer ever pays, that
\* the gateway ever answers, or that the process does not die.
Fairness ==
    /\ \A h \in Hooks : WF_allVars(WebhookStep(h))
    /\ \A s \in Tills : WF_allVars(TillStep(s)) /\ SF_allVars(TillAnswers(s))
    /\ \A t \in Txns, a \in NoticeAmounts :
          SF_allVars(<<t, a>> \notin acked /\ \E h \in Hooks : WebhookPaid(h, t, a))

FairCheckoutSpec == CheckoutSpec /\ Fairness

-----------------------------------------------------------------------------

\* What a PAID notice for t that names a tells of the money: the amount named,
\* or else the amount the checkout was started with.
Charged(t, a) == IF a = NoAmount THEN txn[t].amount ELSE a

\* Every payment row under a transaction's key is money the gateway reported
\* paid: of the amount one of its PAID notices names, on the invoice the
\* transaction was started for; a transaction is linked to its own row only.
\* Every variable keeps its type.
MoneyIsReal ==
    /\ CheckoutTypeOK
    /\ \A t \in Txns :
        /\ KeyUsed(TxnKey[t]) =>
              /\ payments[PaymentOf(t)].invoice = txn[t].invoice
              /\ \E a \in named[t] :
                    payments[PaymentOf(t)].amount = Cents(Charged(t, a))
        /\ txn[t].payment # 0 => txn[t].payment = PaymentOf(t)

\* What transaction t itself has credited to its invoice.
OwnCredit(t) ==
    IF KeyUsed(TxnKey[t]) THEN payments[PaymentOf(t)].amount ELSE 0

\* The invoice of t has no room for the amount, were the payment of t itself
\* taken back; zero or less is refused anyway.
Unpayable(t, amount) ==
    \/ amount <= 0
    \/ amount > 10 * (Total[txn[t].invoice] - paid[txn[t].invoice] + OwnCredit(t))

\* Ok tells the gateway to stop repeating a notice.  With real row locks it is
\* only said once the payment is recorded and linked, or when the amount the
\* notice names cannot be booked (and never can): through crashes between the
\* two commits, repeated notices, notices that name different amounts, polls
\* and cash payments racing for the same balance.
OkMeansSettled ==
    rowLocks => \A t \in Txns, a \in NoticeAmounts : <<t, a>> \in acked =>
        \/ KeyUsed(TxnKey[t]) /\ txn[t].payment = PaymentOf(t)
        \/ Unpayable(t, Charged(t, a))

\* A webhook past its key lookup never finds its key taken at commit, because
\* webhooks take turns on the loop and nobody else uses their keys.
WebhookKeyIsFree ==
    \A h \in Hooks :
        pc[h] \in {"checked", "loaded"} => ~KeyUsed(ask[h].key)

\* The checkout only ever moves the ledger by steps of FeePayments.
ImplementsPayments == Spec

\* Every webhook request is answered.  It is not when it waits, on the loop,
\* for a row lock whose owner waits for the loop to close its session.
WebhookAnswered == \A h \in Hooks : (loop = h) ~> (loop # h)

\* A payment the gateway reports ends up recorded and linked, or answered Ok
\* unrecorded because its amount does not fit the invoice; a crash between the
\* commits only delays it.
PaidIsSettled ==
    \A t \in Txns, a \in NoticeAmounts :
        (a \in named[t])
            ~> (txn[t].payment # 0 \/ (<<t, a>> \in acked /\ ~KeyUsed(TxnKey[t])))

=============================================================================
