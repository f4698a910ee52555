----------------------------- MODULE PaymentProofs -----------------------------
(***************************************************************************)
(* Proofs about FeePayments, for any numbers of invoices, sessions,        *)
(* sweepers, keys and amounts, and with or without real row locks; and     *)
(* about PaynowCheckout, for any number of transactions, webhooks and      *)
(* tills beside them.                                                      *)
(*                                                                         *)
(* First the arithmetic: the sum of the payment rows is a recursive        *)
(* function, and what it does when a row is appended is shown by minimal   *)
(* counterexample.  Then IInv is inductive, one lemma per action, and the  *)
(* theorems about the ledger follow from it.                               *)
(*                                                                         *)
(* The checkout moves the ledger by steps of FeePayments only, so all of   *)
(* that holds of the service as a whole.  The step that needs an argument  *)
(* is the webhook's call of record_payment: invoice and amount come from   *)
(* the transaction row, so a row the gateway knows about must have been    *)
(* filled in by initiate.                                                  *)
(*                                                                         *)
(* The last part is about money: what is recorded was paid, and a notice   *)
(* is answered Ok only when its payment is recorded or can never be.       *)
(***************************************************************************)
EXTENDS PaynowCheckout, FiniteSetTheorems, TLAPS

\* A nonempty set of naturals has a least element.  It follows from the
\* well-foundedness of strict inclusion on finite sets, read on the intervals
\* 1..n.
LEMMA LeastNumber ==
  ASSUME NEW S, S \subseteq Nat, S # {}
  PROVE  \E n \in S : \A m \in S : n <= m
<1> DEFINE R == StrictSubsetOrdering(Nat)
           F == FiniteSubsetsOf(Nat)
           T == {1..n : n \in S}
<1>1. T \subseteq F
  <2> SUFFICES ASSUME NEW n \in S PROVE 1..n \in F
    OBVIOUS
  <2>1. IsFiniteSet(1..n)
    BY FS_Interval
  <2>2. QED
    BY <2>1 DEF FiniteSubsetsOf
<1>2. T # {}
  OBVIOUS
<1>3. PICK x \in T : \A y \in T : ~ (<<y, x>> \in R)
  <2>1. IsWellFoundedOn(R, F)
    BY FS_StrictSubsetOrderingWellFounded
  <2> HIDE DEF R, F, T
  <2>2. QED
    BY <1>1, <1>2, <2>1, WFMin
<1>4. PICK n \in S : x = 1..n
  OBVIOUS
<1>5. ASSUME NEW m \in S, m < n PROVE FALSE
  <2>1. 1..m \subseteq 1..n /\ n \in 1..n /\ n \notin 1..m
    BY <1>5
  <2>2. <<1..m, 1..n>> \in R
    BY <2>1 DEF StrictSubsetOrdering
  <2>3. QED
    BY <1>3, <1>4, <2>2
<1>6. QED
  BY <1>5

\* t is the running total of g, up to index n.
Running(t, g, n) == t[0] = 0 /\ \A k \in 1..n : t[k] = t[k - 1] + g[k]

\* Every finite list of naturals has a running total.
LEMMA RunningExists ==
  ASSUME NEW N \in Nat, NEW g, \A k \in 1..N : g[k] \in Nat
  PROVE  \E t \in [0..N -> Nat] : Running(t, g, N)
<1> DEFINE Bad == {m \in 0..N : \A t \in [0..m -> Nat] : ~Running(t, g, m)}
<1>1. SUFFICES ASSUME Bad # {} PROVE FALSE
  <2>1. N \in 0..N
    OBVIOUS
  <2>2. QED
    BY <2>1
<1>2. PICK m \in Bad : \A k \in Bad : m <= k
  <2> Bad \subseteq Nat
    OBVIOUS
  <2> HIDE DEF Bad
  <2> QED
    BY <1>1, LeastNumber
<1>3. m \in Nat /\ m <= N /\ \A t \in [0..m -> Nat] : ~Running(t, g, m)
  OBVIOUS
<1>4. CASE m = 0
  <2> DEFINE t == [n \in 0..0 |-> 0]
  <2>1. t \in [0..m -> Nat]
    BY <1>4
  <2>2. Running(t, g, m)
    BY <1>4 DEF Running
  <2>3. QED
    BY <1>3, <2>1, <2>2
<1>5. CASE m # 0
  <2>1. m - 1 \in 0..N /\ ~(m <= m - 1)
    BY <1>3, <1>5
  <2>2. m - 1 \notin Bad
    <3> HIDE DEF Bad
    <3> QED
      BY <1>2, <2>1
  <2>3. PICK u \in [0..(m - 1) -> Nat] : Running(u, g, m - 1)
    BY <2>1, <2>2
  <2> DEFINE t == [n \in 0..m |-> IF n = m THEN u[m - 1] + g[m] ELSE u[n]]
  <2>4. t \in [0..m -> Nat]
    BY <1>3, <1>5
  <2>5. Running(t, g, m)
    <3>1. t[0] = 0
      BY <1>3, <1>5, <2>3 DEF Running
    <3>2. ASSUME NEW k \in 1..m PROVE t[k] = t[k - 1] + g[k]
      <4>1. CASE k = m
        BY <1>3, <4>1
      <4>2. CASE k # m
        <5>1. k \in 1..(m - 1) /\ k \in 0..m /\ k - 1 \in 0..m /\ k - 1 # m
          BY <1>3, <4>2
        <5>2. u[k] = u[k - 1] + g[k]
          BY <2>3, <5>1 DEF Running
        <5>3. QED
          BY <4>2, <5>1, <5>2
      <4>3. QED
        BY <4>1, <4>2
    <3>3. QED
      BY <3>1, <3>2 DEF Running
  <2>6. QED
    BY <1>3, <2>4, <2>5
<1>6. QED
  BY <1>4, <1>5

\* Two running totals of lists that agree, agree.
LEMMA RunningUnique ==
  ASSUME NEW N \in Nat, NEW g, NEW h, \A k \in 1..N : g[k] = h[k],
         NEW t, Running(t, g, N), NEW u, Running(u, h, N)
  PROVE  \A n \in 0..N : t[n] = u[n]
<1> DEFINE Bad == {n \in 0..N : t[n] # u[n]}
<1>1. SUFFICES ASSUME Bad # {} PROVE FALSE
  OBVIOUS
<1>2. PICK m \in Bad : \A k \in Bad : m <= k
  <2> Bad \subseteq Nat
    OBVIOUS
  <2> HIDE DEF Bad
  <2> QED
    BY <1>1, LeastNumber
<1>3. m \in 0..N /\ t[m] # u[m]
  OBVIOUS
<1>4. m # 0
  BY <1>3 DEF Running
<1>5. m - 1 \in 0..N /\ m \in 1..N /\ ~(m <= m - 1)
  BY <1>3, <1>4
<1>6. t[m - 1] = u[m - 1]
  BY <1>2, <1>5
<1>7. t[m] = t[m - 1] + g[m] /\ u[m] = u[m - 1] + h[m]
  BY <1>5 DEF Running
<1>8. QED
  BY <1>3, <1>5, <1>6, <1>7

\* What rows add to an invoice, row by row.
Credits(log, i) == [n \in 1..Len(log) |-> Credit(log[n], i)]

\* Every payment row of the table adds a natural number of cents.
LEMMA CreditsAreNat ==
  ASSUME NEW log \in Seq(Payment), NEW i
  PROVE  Len(log) \in Nat /\ \A k \in 1..Len(log) : Credits(log, i)[k] \in Nat
<1>1. \A k \in 1..Len(log) : log[k] \in Payment
  OBVIOUS
<1>2. \A k \in 1..Len(log) : Credit(log[k], i) \in Nat
  BY <1>1 DEF Credit, Payment
<1>3. QED
  BY <1>2 DEF Credits

\* The recursive function RunningCredit is the running total of the rows.
LEMMA RunningCreditIs ==
  ASSUME NEW log \in Seq(Payment), NEW i
  PROVE  /\ RunningCredit(log, i) \in [0..Len(log) -> Nat]
         /\ Running(RunningCredit(log, i), Credits(log, i), Len(log))
<1> DEFINE N == Len(log)
           P(t) == t = [n \in 0..N |->
                          IF n = 0 THEN 0 ELSE t[n - 1] + Credit(log[n], i)]
           c == RunningCredit(log, i)
<1>1. N \in Nat
  OBVIOUS
<1>2. PICK t \in [0..N -> Nat] : Running(t, Credits(log, i), N)
  BY CreditsAreNat, RunningExists
<1>3. P(t)
  <2>1. ASSUME NEW n \in 0..N
        PROVE  t[n] = IF n = 0 THEN 0 ELSE t[n - 1] + Credit(log[n], i)
    <3>1. n = 0 \/ n \in 1..N
      OBVIOUS
    <3>2. QED
      BY <1>2, <3>1 DEF Running, Credits
  <2>2. QED
    BY <2>1
<1>4. c = CHOOSE u : P(u)
  BY DEF RunningCredit
<1>5. P(c)
  <2> HIDE DEF P, c
  <2> QED
    BY <1>3, <1>4
<1>6. Running(c, Credits(log, i), N)
  <2> HIDE DEF c
  <2>1. c[0] = 0
    BY <1>1, <1>5
  <2>2. \A k \in 1..N : c[k] = c[k - 1] + Credits(log, i)[k]
    BY <1>1, <1>5 DEF Credits
  <2>3. QED
    BY <2>1, <2>2 DEF Running
<1>7. \A n \in 0..N : t[n] = c[n]
  <2> DEFINE g == Credits(log, i)
  <2>1. Running(t, g, N) /\ Running(c, g, N) /\ N \in Nat
    BY <1>1, <1>2, <1>6
  <2> HIDE DEF c, g, N, P
  <2>2. \A k \in 1..N : g[k] = g[k]
    OBVIOUS
  <2>3. QED
    BY <2>1, <2>2, RunningUnique
<1>8. c \in [0..N -> Nat]
  <2>1. c = [n \in 0..N |-> c[n]]
    <3> HIDE DEF c
    <3> QED
      BY <1>5
  <2> HIDE DEF c
  <2>2. QED
    BY <1>2, <1>7, <2>1
<1>9. QED
  BY <1>6, <1>8

\* A committed payment adds its amount to its invoice and to no other.
LEMMA CreditedAppend ==
  ASSUME NEW log \in Seq(Payment), NEW p \in Payment, NEW i
  PROVE  /\ Credited(log, i) \in Nat
         /\ Credited(Append(log, p), i) = Credited(log, i) + Credit(p, i)
<1> DEFINE N == Len(log)
           ext == Append(log, p)
           t == RunningCredit(log, i)
           u == RunningCredit(ext, i)
<1>1. /\ ext \in Seq(Payment) /\ N \in Nat /\ Len(ext) = N + 1
      /\ ext[N + 1] = p /\ \A n \in 1..N : ext[n] = log[n]
  OBVIOUS
<1>2. t \in [0..N -> Nat] /\ Running(t, Credits(log, i), N)
  BY RunningCreditIs
<1>3. Running(u, Credits(ext, i), N + 1)
  <2> HIDE DEF ext
  <2> QED
    BY <1>1, RunningCreditIs
<1>4. Running(u, Credits(ext, i), N) /\ u[N + 1] = u[N] + Credits(ext, i)[N + 1]
  <2> HIDE DEF u, ext, N
  <2> QED
    BY <1>1, <1>3 DEF Running
<1>5. \A k \in 1..N : Credits(log, i)[k] = Credits(ext, i)[k]
  BY <1>1 DEF Credits
<1>6. t[N] = u[N]
  <2> DEFINE g == Credits(log, i)
             h == Credits(ext, i)
  <2>1. N \in Nat /\ (\A k \in 1..N : g[k] = h[k]) /\ Running(t, g, N) /\ Running(u, h, N)
    BY <1>1, <1>2, <1>4, <1>5
  <2> HIDE DEF t, u, ext, N, g, h
  <2>2. \A n \in 0..N : t[n] = u[n]
    BY <2>1, RunningUnique
  <2>3. QED
    BY <2>1, <2>2
<1>7. Credits(ext, i)[N + 1] = Credit(p, i)
  <2> HIDE DEF ext
  <2> QED
    BY <1>1 DEF Credits
<1>8. Credited(log, i) = t[N] /\ Credited(ext, i) = u[N + 1]
  <2>1. Credited(log, i) = t[N]
    BY DEF Credited
  <2>2. Credited(ext, i) = u[Len(ext)]
    BY DEF Credited
  <2> HIDE DEF u, ext
  <2>3. QED
    BY <1>1, <2>1, <2>2
<1>9. t[N] \in Nat
  <2> HIDE DEF t
  <2> QED
    BY <1>1, <1>2
<1>10. QED
  <2> HIDE DEF t, u
  <2> QED
    BY <1>4, <1>6, <1>7, <1>8, <1>9

\* An empty payments table credits nothing.
LEMMA CreditedEmpty ==
  ASSUME NEW i PROVE Credited(<<>>, i) = 0
<1>1. <<>> \in Seq(Payment) /\ Len(<<>>) = 0
  OBVIOUS
<1>2. Running(RunningCredit(<<>>, i), Credits(<<>>, i), Len(<<>>))
  BY <1>1, RunningCreditIs
<1>3. RunningCredit(<<>>, i)[0] = 0
  BY <1>2 DEF Running
<1>4. QED
  BY <1>1, <1>3 DEF Credited

-----------------------------------------------------------------------------

\* Rounding to cents commutes with adding whole cents, and rounds neither
\* below zero nor past a bound in whole cents.
LEMMA CentsRounds ==
  ASSUME NEW c \in Nat, NEW d \in Nat, NEW mills \in Int, mills > 0
  PROVE  /\ Cents(mills) \in Nat
         /\ Cents(10 * c + mills) = c + Cents(mills)
         /\ mills <= 10 * d => Cents(mills) <= d
         /\ mills = 10 * d => Cents(mills) = d
BY DEF Cents

\* The fresh invoices, with no payment and no session, satisfy the invariant.
LEMMA InitInv == Init => IInv
<1> SUFFICES ASSUME Init PROVE IInv
  OBVIOUS
<1>1. TypeOK
  BY RowLockAssumption DEF Init, TypeOK, Status, PcValues, Request, NoRequest
<1>2. LedgerBalanced
  BY CreditedEmpty DEF Init, LedgerBalanced
<1>3. LoadedIsPayable /\ LoadedHoldsLock /\ LockKeepsSnapshot
  BY DEF Init, LoadedIsPayable, LoadedHoldsLock, LockKeepsSnapshot
<1>4. NeverOverpaid /\ OneRowPerKey /\ StatusHonest
  BY TotalAssumption DEF Init, NeverOverpaid, OneRowPerKey, StatusHonest
<1>5. QED
  BY <1>1, <1>2, <1>3, <1>4 DEF IInv

\* The conjuncts about the books depend only on the books.
LEMMA BooksKept ==
  ASSUME IInv, UNCHANGED <<paid, status, payments>>
  PROVE  LedgerBalanced' /\ NeverOverpaid' /\ OneRowPerKey' /\ StatusHonest'
BY DEF IInv, LedgerBalanced, NeverOverpaid, OneRowPerKey, StatusHonest

\* The unlocked key lookup touches one session that holds nothing yet.
LEMMA CheckKeyInv ==
  ASSUME IInv, NEW s \in Sessions, NEW i \in Invoices \cup {UnknownInvoice},
         NEW amount \in Amounts, NEW k \in Keys \cup {NoKey},
         CheckKey(s, i, amount, k)
  PROVE  IInv'
<1>1. TypeOK'
  BY DEF IInv, TypeOK, CheckKey, Request, PcValues, invoiceVars, sweepVars
<1>2. LedgerBalanced' /\ NeverOverpaid' /\ OneRowPerKey' /\ StatusHonest'
  BY BooksKept DEF CheckKey, invoiceVars
<1>3. \A t \in Sessions : pc'[t] = "loaded" => pc[t] = "loaded" /\ ask'[t] = ask[t]
  BY DEF IInv, TypeOK, CheckKey
<1>4. LoadedIsPayable' /\ LoadedHoldsLock' /\ LockKeepsSnapshot'
  BY <1>3 DEF IInv, CheckKey, LoadedIsPayable, LoadedHoldsLock, LockKeepsSnapshot,
              invoiceVars
<1>5. QED
  BY <1>1, <1>2, <1>4 DEF IInv

\* A call for an invoice that does not exist changes only its own session.
LEMMA InvoiceMissingInv ==
  ASSUME IInv, NEW s \in Sessions, InvoiceMissing(s)
  PROVE  IInv'
<1>1. TypeOK'
  BY DEF IInv, TypeOK, InvoiceMissing, PcValues, invoiceVars, sweepVars
<1>2. LedgerBalanced' /\ NeverOverpaid' /\ OneRowPerKey' /\ StatusHonest'
  BY BooksKept DEF InvoiceMissing, invoiceVars
<1>3. \A t \in Sessions : pc'[t] = "loaded" => pc[t] = "loaded"
  BY DEF IInv, TypeOK, InvoiceMissing
<1>4. LoadedIsPayable' /\ LoadedHoldsLock' /\ LockKeepsSnapshot'
  BY <1>3 DEF IInv, InvoiceMissing, LoadedIsPayable, LoadedHoldsLock,
              LockKeepsSnapshot, invoiceVars
<1>5. QED
  BY <1>1, <1>2, <1>4 DEF IInv

\* Taking the lock does not take it from a session that relies on it.
LEMMA LoadInvoiceInv ==
  ASSUME IInv, NEW s \in Sessions, LoadInvoice(s)
  PROVE  IInv'
<1>1. TypeOK'
  BY DEF IInv, TypeOK, LoadInvoice, Taken, PcValues, invoiceVars, sweepVars
<1>2. LedgerBalanced' /\ NeverOverpaid' /\ OneRowPerKey' /\ StatusHonest'
  BY BooksKept DEF LoadInvoice, invoiceVars
<1>3. \A t \in Sessions \ {s} : pc'[t] = pc[t] /\ seen'[t] = seen[t]
  BY DEF IInv, TypeOK, LoadInvoice
<1>4. pc'[s] = "loaded" => Payable(ask[s].invoice, ask[s].amount)
  BY DEF IInv, TypeOK, LoadInvoice
<1>5. seen'[s] = paid[ask[s].invoice]
  BY DEF IInv, TypeOK, LoadInvoice
<1>6. LoadedIsPayable'
  BY <1>3, <1>4, <1>5 DEF IInv, LoadedIsPayable, LoadInvoice, Payable
<1>7. LockKeepsSnapshot'
  BY <1>3, <1>5 DEF IInv, LockKeepsSnapshot, LoadInvoice, invoiceVars
<1>8. LoadedHoldsLock'
  <2> SUFFICES ASSUME rowLocks, NEW t \in Sessions, pc'[t] = "loaded"
               PROVE  rowLock'[ask[t].invoice] = t
    BY DEF LoadedHoldsLock, LoadInvoice
  <2>1. rowLock[ask[s].invoice] = NoSession
    BY DEF LoadInvoice, Unlocked
  <2>2. rowLock' = [rowLock EXCEPT ![ask[s].invoice] = s]
    BY DEF LoadInvoice, Taken
  <2>3. CASE t = s
    BY <2>2, <2>3 DEF IInv, TypeOK, LoadInvoice
  <2>4. CASE t # s
    <3>1. rowLock[ask[t].invoice] = t /\ ask[t].invoice \in Invoices
      BY <1>3, <2>4 DEF IInv, LoadedHoldsLock, LoadedIsPayable
    <3>2. ask[t].invoice # ask[s].invoice
      BY <2>1, <3>1, NoSessionAssumption
    <3>3. QED
      BY <2>2, <3>1, <3>2 DEF IInv, TypeOK
  <2>5. QED
    BY <2>3, <2>4
<1>9. QED
  BY <1>1, <1>2, <1>6, <1>7, <1>8 DEF IInv

\* Giving locks back takes none from a session that relies on its own.
LEMMA ReleaseKeepsOthers ==
  ASSUME IInv, NEW s \in Sessions, NEW t \in Sessions, t # s,
         rowLocks, pc[t] = "loaded"
  PROVE  Release(s)[ask[t].invoice] = t
BY DEF IInv, LoadedHoldsLock, LoadedIsPayable, Release

\* The commit: the books move together, by the same amount, and every other
\* session's snapshot is of another invoice or is about to lose its swap.
LEMMA RecordPaymentInv ==
  ASSUME IInv, NEW s \in Sessions, RecordPayment(s)
  PROVE  IInv'
<1> DEFINE i == ask[s].invoice
           m == ask[s].amount
           row == [invoice |-> i, key |-> ask[s].key, amount |-> Cents(m)]
<1>1. /\ i \in Invoices /\ m \in Int /\ m > 0 /\ m <= 10 * (Total[i] - paid[i])
      /\ seen[s] = paid[i] /\ paid[i] \in Nat /\ Total[i] \in Nat
  <2>1. m \in Int
    <3>1. ask[s] \in Request
      BY DEF IInv, TypeOK
    <3>2. m \in Amounts \cup {0}
      BY <3>1 DEF Request
    <3> HIDE DEF m
    <3>3. QED
      BY <3>2, AmountsAssumption
  <2>2. /\ i \in Invoices /\ m > 0 /\ m <= 10 * (Total[i] - seen[s])
        /\ seen[s] = paid[i]
    BY DEF IInv, LoadedIsPayable, RecordPayment, SwapMatches
  <2>3. paid[i] \in Nat /\ Total[i] \in Nat
    BY <2>2, TotalAssumption DEF IInv, TypeOK
  <2>4. QED
    BY <2>1, <2>2, <2>3
<1>2. Total[i] - paid[i] \in Nat
  BY <1>1 DEF IInv, NeverOverpaid
<1>3. /\ Cents(m) \in Nat
      /\ Cents(10 * seen[s] + m) = paid[i] + Cents(m)
      /\ Cents(m) <= Total[i] - paid[i]
      /\ m = 10 * (Total[i] - paid[i]) => Cents(m) = Total[i] - paid[i]
  <2> DEFINE c == paid[i]
             d == Total[i] - paid[i]
  <2>1. c \in Nat /\ d \in Nat /\ m \in Int /\ m > 0 /\ m <= 10 * d
    BY <1>1, <1>2
  <2> HIDE DEF c, d, m
  <2>2. /\ Cents(m) \in Nat /\ Cents(10 * c + m) = c + Cents(m)
        /\ Cents(m) <= d /\ (m = 10 * d => Cents(m) = d)
    BY <2>1, CentsRounds
  <2>3. QED
    BY <1>1, <2>2 DEF c, d
<1>4. row \in Payment
  BY <1>1, <1>3 DEF IInv, TypeOK, Request, Payment
<1>5. /\ paid' = [paid EXCEPT ![i] = paid[i] + Cents(m)]
      /\ payments' = Append(payments, row)
      /\ rowLock' = Release(s)
      /\ pc' = [pc EXCEPT ![s] = "recorded"]
      /\ status' = [status EXCEPT ![i] = NewStatus(i, seen[s], m)]
      /\ UNCHANGED <<rowLocks, ask, seen, sweepVars>>
      /\ ~KeyUsed(ask[s].key)
  BY <1>3 DEF RecordPayment, IndexRefuses, NewPaid
<1> HIDE DEF i, m, row
<1>6. TypeOK'
  <2>1. payments' \in Seq(Payment)
    BY <1>4, <1>5 DEF IInv, TypeOK
  <2>2. paid' \in [Invoices -> Nat]
    BY <1>1, <1>3, <1>5 DEF IInv, TypeOK
  <2>3. status' \in [Invoices -> Status]
    BY <1>5 DEF IInv, TypeOK, NewStatus, Status
  <2>4. rowLock' \in [Invoices -> Sessions \cup {NoSession}]
    BY <1>5 DEF IInv, TypeOK, Release
  <2>5. pc' \in [Sessions -> PcValues]
    BY <1>5 DEF IInv, TypeOK, PcValues
  <2>6. QED
    BY <1>5, <2>1, <2>2, <2>3, <2>4, <2>5 DEF IInv, TypeOK, sweepVars
<1>7. LedgerBalanced'
  <2> SUFFICES ASSUME NEW j \in Invoices
               PROVE  paid'[j] = Credited(payments', j)
    BY DEF LedgerBalanced
  <2>1. /\ Credited(payments', j) = Credited(payments, j) + Credit(row, j)
        /\ Credited(payments, j) = paid[j]
    BY <1>4, <1>5, CreditedAppend DEF IInv, TypeOK, LedgerBalanced
  <2>2. Credit(row, j) = IF i = j THEN Cents(m) ELSE 0
    BY DEF Credit, row
  <2>3. paid'[j] = IF i = j THEN paid[i] + Cents(m) ELSE paid[j]
    BY <1>1, <1>5 DEF IInv, TypeOK
  <2>4. paid[j] \in Nat
    BY DEF IInv, TypeOK
  <2>5. QED
    BY <1>3, <2>1, <2>2, <2>3, <2>4
<1>8. NeverOverpaid'
  <2>1. \A j \in Invoices : paid'[j] = IF j = i THEN paid[i] + Cents(m) ELSE paid[j]
    BY <1>5 DEF IInv, TypeOK
  <2>2. paid[i] + Cents(m) <= Total[i]
    BY <1>1, <1>3
  <2>3. QED
    BY <2>1, <2>2 DEF IInv, NeverOverpaid
<1>9. OneRowPerKey'
  <2>1. /\ Len(payments') = Len(payments) + 1 /\ Len(payments) \in Nat
        /\ payments'[Len(payments) + 1] = row
        /\ \A n \in 1..Len(payments) : payments'[n] = payments[n]
    BY <1>4, <1>5 DEF IInv, TypeOK
  <2>2. ~(row.key # NoKey /\ \E n \in 1..Len(payments) : payments[n].key = row.key)
    BY <1>5 DEF KeyUsed, row
  <2> SUFFICES ASSUME NEW a \in 1..Len(payments'), NEW b \in 1..Len(payments'),
                      payments'[a].key = payments'[b].key, payments'[a].key # NoKey
               PROVE  a = b
    BY DEF OneRowPerKey
  <2>3. CASE a \in 1..Len(payments) /\ b \in 1..Len(payments)
    BY <2>1, <2>3 DEF IInv, OneRowPerKey
  <2>4. CASE a \notin 1..Len(payments) \/ b \notin 1..Len(payments)
    BY <2>1, <2>2, <2>4
  <2>5. QED
    BY <2>3, <2>4
<1>10. StatusHonest'
  <2> SUFFICES ASSUME NEW j \in Invoices
               PROVE  /\ status'[j] = "PAID" => paid'[j] = Total[j]
                      /\ status'[j] = "PENDING" =>
                            \A n \in 1..Len(payments') : payments'[n].invoice # j
    BY DEF StatusHonest
  <2>1. /\ Len(payments') = Len(payments) + 1 /\ Len(payments) \in Nat
        /\ payments'[Len(payments) + 1].invoice = i
        /\ \A n \in 1..Len(payments) : payments'[n] = payments[n]
    BY <1>4, <1>5 DEF IInv, TypeOK, row
  <2>2. CASE j # i
    BY <1>5, <2>1, <2>2 DEF IInv, TypeOK, StatusHonest
  <2>3. CASE j = i
    <3>1. status'[i] = NewStatus(i, seen[s], m) /\ paid'[i] = paid[i] + Cents(m)
      BY <1>1, <1>5 DEF IInv, TypeOK
    <3>2. status'[i] = "PAID" => m = 10 * (Total[i] - paid[i])
      BY <1>1, <3>1 DEF NewStatus
    <3>3. status'[i] # "PENDING"
      BY <3>1 DEF NewStatus
    <3>4. QED
      BY <1>1, <1>3, <2>3, <3>1, <3>2, <3>3
  <2>4. QED
    BY <2>2, <2>3
<1>11. \A t \in Sessions : pc'[t] = "loaded" => t # s /\ pc[t] = "loaded"
  BY <1>5 DEF IInv, TypeOK
<1>12. LoadedIsPayable'
  BY <1>5, <1>11 DEF IInv, LoadedIsPayable
<1>13. LoadedHoldsLock'
  BY <1>5, <1>11, ReleaseKeepsOthers DEF LoadedHoldsLock
<1>14. LockKeepsSnapshot'
  <2> SUFFICES ASSUME rowLocks, NEW t \in Sessions, pc'[t] = "loaded"
               PROVE  paid'[ask[t].invoice] = seen[t]
    BY <1>5 DEF LockKeepsSnapshot
  <2>1. rowLock[ask[t].invoice] = t /\ rowLock[i] = s /\ t # s
    BY <1>11 DEF IInv, LoadedHoldsLock, RecordPayment, i
  <2>2. ask[t].invoice # i
    BY <2>1
  <2>3. paid[ask[t].invoice] = seen[t] /\ ask[t].invoice \in Invoices
    BY <1>11 DEF IInv, LockKeepsSnapshot, LoadedIsPayable
  <2>4. QED
    BY <1>5, <2>2, <2>3 DEF IInv, TypeOK
<1>15. QED
  BY <1>6, <1>7, <1>8, <1>9, <1>10, <1>12, <1>13, <1>14 DEF IInv

\* A session that rolls back changes no book and leaves its snapshot behind.
LEMMA RollbackInv ==
  ASSUME IInv, NEW s \in Sessions, LoseRace(s) \/ KeyCollision(s)
  PROVE  IInv'
<1>1. /\ \E p \in {"rejected", "aborted"} : pc' = [pc EXCEPT ![s] = p]
      /\ rowLock' = Release(s)
      /\ UNCHANGED <<rowLocks, paid, status, payments, ask, seen, sweepVars>>
  BY DEF LoseRace, KeyCollision, invoiceVars
<1>2. TypeOK'
  <2>1. rowLock' \in [Invoices -> Sessions \cup {NoSession}]
    BY <1>1 DEF IInv, TypeOK, Release
  <2>2. pc' \in [Sessions -> PcValues]
    BY <1>1 DEF IInv, TypeOK, PcValues
  <2>3. QED
    BY <1>1, <2>1, <2>2 DEF IInv, TypeOK, sweepVars
<1>3. LedgerBalanced' /\ NeverOverpaid' /\ OneRowPerKey' /\ StatusHonest'
  BY <1>1, BooksKept
<1>4. \A t \in Sessions : pc'[t] = "loaded" => t # s /\ pc[t] = "loaded"
  BY <1>1 DEF IInv, TypeOK
<1>5. LoadedIsPayable' /\ LockKeepsSnapshot'
  BY <1>1, <1>4 DEF IInv, LoadedIsPayable, LockKeepsSnapshot
<1>6. LoadedHoldsLock'
  BY <1>1, <1>4, ReleaseKeepsOthers DEF LoadedHoldsLock
<1>7. QED
  BY <1>2, <1>3, <1>5, <1>6 DEF IInv

\* Closing a session gives back its own locks only.
LEMMA CloseSessionInv ==
  ASSUME IInv, NEW s \in Sessions, CloseSession(s)
  PROVE  IInv'
<1>1. /\ pc' = [pc EXCEPT ![s] = "idle"]
      /\ ask' = [ask EXCEPT ![s] = NoRequest]
      /\ seen' = [seen EXCEPT ![s] = 0]
      /\ rowLock' = Release(s)
      /\ UNCHANGED <<rowLocks, paid, status, payments, sweepVars>>
  BY DEF CloseSession, invoiceVars
<1>2. TypeOK'
  <2>1. rowLock' \in [Invoices -> Sessions \cup {NoSession}]
    BY <1>1 DEF IInv, TypeOK, Release
  <2>2. pc' \in [Sessions -> PcValues] /\ seen' \in [Sessions -> Nat]
    BY <1>1 DEF IInv, TypeOK, PcValues
  <2>3. NoRequest \in Request
    BY DEF NoRequest, Request
  <2>4. ask' \in [Sessions -> Request]
    BY <1>1, <2>3 DEF IInv, TypeOK
  <2>5. QED
    BY <1>1, <2>1, <2>2, <2>4 DEF IInv, TypeOK, sweepVars
<1>3. LedgerBalanced' /\ NeverOverpaid' /\ OneRowPerKey' /\ StatusHonest'
  BY <1>1, BooksKept
<1>4. \A t \in Sessions : pc'[t] = "loaded" =>
         t # s /\ pc[t] = "loaded" /\ ask'[t] = ask[t] /\ seen'[t] = seen[t]
  BY <1>1 DEF IInv, TypeOK
<1>5. LoadedIsPayable' /\ LockKeepsSnapshot'
  BY <1>1, <1>4 DEF IInv, LoadedIsPayable, LockKeepsSnapshot
<1>6. LoadedHoldsLock'
  BY <1>1, <1>4, ReleaseKeepsOthers DEF LoadedHoldsLock
<1>7. QED
  BY <1>2, <1>3, <1>5, <1>6 DEF IInv

\* The sweep's unlocked read changes nothing a payment relies on.
LEMMA ReadOverdueInv ==
  ASSUME IInv, NEW w \in Sweepers, NEW asOf \in Dates, ReadOverdue(w, asOf)
  PROVE  IInv'
<1>1. UNCHANGED <<rowLocks, paid, status, payments, rowLock, pc, ask, seen>>
  BY DEF ReadOverdue, invoiceVars, sessionVars
<1>2. TypeOK'
  BY <1>1 DEF IInv, TypeOK, ReadOverdue
<1>3. LedgerBalanced' /\ NeverOverpaid' /\ OneRowPerKey' /\ StatusHonest'
  BY <1>1, BooksKept
<1>4. LoadedIsPayable' /\ LoadedHoldsLock' /\ LockKeepsSnapshot'
  BY <1>1 DEF IInv, LoadedIsPayable, LoadedHoldsLock, LockKeepsSnapshot
<1>5. QED
  BY <1>2, <1>3, <1>4 DEF IInv

\* The sweep may write OVERDUE over a PAID status, but never moves money.
LEMMA MarkOverdueInv ==
  ASSUME IInv, NEW w \in Sweepers, MarkOverdue(w)
  PROVE  IInv'
<1>1. UNCHANGED <<rowLocks, paid, payments, rowLock, pc, ask, seen>>
  BY DEF MarkOverdue, sessionVars
<1>2. \A i \in Invoices : status'[i] = status[i] \/ status'[i] = "OVERDUE"
  BY DEF MarkOverdue
<1>3. TypeOK'
  <2>1. status' \in [Invoices -> Status]
    BY DEF IInv, TypeOK, MarkOverdue, Status
  <2>2. QED
    BY <1>1, <2>1 DEF IInv, TypeOK, MarkOverdue
<1>4. LedgerBalanced' /\ NeverOverpaid' /\ OneRowPerKey'
  BY <1>1 DEF IInv, LedgerBalanced, NeverOverpaid, OneRowPerKey
<1>5. StatusHonest'
  BY <1>1, <1>2 DEF IInv, StatusHonest
<1>6. LoadedIsPayable' /\ LoadedHoldsLock' /\ LockKeepsSnapshot'
  BY <1>1 DEF IInv, LoadedIsPayable, LoadedHoldsLock, LockKeepsSnapshot
<1>7. QED
  BY <1>3, <1>4, <1>5, <1>6 DEF IInv

\* A crash rolls back and releases only what the dead sessions held.
LEMMA CrashInv ==
  ASSUME IInv, NEW S \in SUBSET Sessions, NEW W \in SUBSET Sweepers, Crash(S, W)
  PROVE  IInv'
<1>1. UNCHANGED <<rowLocks, paid, status, payments>>
  BY DEF Crash, invoiceVars
<1>2. TypeOK'
  <2>1. NoRequest \in Request
    BY DEF NoRequest, Request
  <2>2. ask' \in [Sessions -> Request]
    BY <2>1 DEF IInv, TypeOK, Crash
  <2>3. pc' \in [Sessions -> PcValues] /\ seen' \in [Sessions -> Nat]
    BY DEF IInv, TypeOK, Crash, PcValues
  <2>4. rowLock' \in [Invoices -> Sessions \cup {NoSession}]
    BY DEF IInv, TypeOK, Crash
  <2>5. /\ sweepPc' \in [Sweepers -> {"idle", "marking"}]
        /\ sweepRows' \in [Sweepers -> SUBSET Invoices]
    BY DEF IInv, TypeOK, Crash
  <2>6. QED
    BY <1>1, <2>2, <2>3, <2>4, <2>5 DEF IInv, TypeOK
<1>3. LedgerBalanced' /\ NeverOverpaid' /\ OneRowPerKey' /\ StatusHonest'
  BY <1>1, BooksKept
<1>4. \A t \in Sessions : pc'[t] = "loaded" =>
         t \notin S /\ pc[t] = "loaded" /\ ask'[t] = ask[t] /\ seen'[t] = seen[t]
  BY DEF Crash
<1>5. LoadedIsPayable' /\ LockKeepsSnapshot'
  BY <1>1, <1>4 DEF IInv, LoadedIsPayable, LockKeepsSnapshot
<1>6. LoadedHoldsLock'
  <2> SUFFICES ASSUME rowLocks, NEW t \in Sessions, pc'[t] = "loaded"
               PROVE  rowLock'[ask'[t].invoice] = t
    BY <1>1 DEF LoadedHoldsLock
  <2>1. rowLock[ask[t].invoice] = t /\ ask[t].invoice \in Invoices /\ t \notin S
    BY <1>4 DEF IInv, LoadedHoldsLock, LoadedIsPayable
  <2>2. QED
    BY <1>4, <2>1 DEF Crash
<1>7. QED
  BY <1>2, <1>3, <1>5, <1>6 DEF IInv

\* Every step of the service keeps the invariant.
LEMMA StepInv == IInv /\ [Next]_vars => IInv'
<1> SUFFICES ASSUME IInv, [Next]_vars PROVE IInv'
  OBVIOUS
<1>1. ASSUME NEW s \in Sessions, NEW i \in Invoices \cup {UnknownInvoice},
             NEW amount \in Amounts, NEW k \in Keys \cup {NoKey},
             CheckKey(s, i, amount, k)
      PROVE  IInv'
  BY <1>1, CheckKeyInv
<1>2. ASSUME NEW s \in Sessions, SessionStep(s) PROVE IInv'
  BY <1>2, InvoiceMissingInv, LoadInvoiceInv, RecordPaymentInv, RollbackInv,
     CloseSessionInv DEF SessionStep
<1>3. ASSUME NEW w \in Sweepers, NEW asOf \in Dates, ReadOverdue(w, asOf)
      PROVE  IInv'
  BY <1>3, ReadOverdueInv
<1>4. ASSUME NEW w \in Sweepers, MarkOverdue(w) PROVE IInv'
  BY <1>4, MarkOverdueInv
<1>5. ASSUME NEW S \in SUBSET Sessions, NEW W \in SUBSET Sweepers, Crash(S, W)
      PROVE  IInv'
  BY <1>5, CrashInv
<1>6. CASE UNCHANGED vars
  <2>1. TypeOK'
    BY <1>6 DEF IInv, TypeOK, vars
  <2>2. LedgerBalanced' /\ NeverOverpaid' /\ OneRowPerKey' /\ StatusHonest'
    BY <1>6, BooksKept DEF vars
  <2>3. LoadedIsPayable' /\ LoadedHoldsLock' /\ LockKeepsSnapshot'
    BY <1>6 DEF IInv, LoadedIsPayable, LoadedHoldsLock, LockKeepsSnapshot, vars
  <2>4. QED
    BY <2>1, <2>2, <2>3 DEF IInv
<1>7. QED
  BY <1>1, <1>2, <1>3, <1>4, <1>5, <1>6 DEF Next

\* The inductive invariant holds in every reachable state.
THEOREM InductiveInvariant == Spec => []IInv
BY InitInv, StepInv, PTL DEF Spec

\* Every variable keeps its type, for any numbers of sessions and invoices.
THEOREM TypeCorrect == Spec => []TypeOK
<1>1. IInv => TypeOK
  BY DEF IInv
<1>2. QED
  BY <1>1, InductiveInvariant, PTL

\* The payment rows of every invoice add up to its paid_amount: two sessions
\* racing on a stale read cannot lose one of two payments, with or without
\* real row locks.
THEOREM PaymentsBalance == Spec => []LedgerBalanced
<1>1. IInv => LedgerBalanced
  BY DEF IInv
<1>2. QED
  BY <1>1, InductiveInvariant, PTL

\* No interleaving of checks, commits, sweeps and crashes overpays an invoice.
THEOREM NoOverpayment == Spec => []NeverOverpaid
<1>1. IInv => NeverOverpaid
  BY DEF IInv
<1>2. QED
  BY <1>1, InductiveInvariant, PTL

\* An idempotency key never has two payment rows.
THEOREM KeysRecordOnce == Spec => []OneRowPerKey
<1>1. IInv => OneRowPerKey
  BY DEF IInv
<1>2. QED
  BY <1>1, InductiveInvariant, PTL

\* PAID means settled and PENDING means untouched.
THEOREM StatusIsHonest == Spec => []StatusHonest
<1>1. IInv => StatusHonest
  BY DEF IInv
<1>2. QED
  BY <1>1, InductiveInvariant, PTL

\* On Postgres the compare-and-swap of a session past its checks never loses.
THEOREM LockProtectsSnapshot == Spec => []LockKeepsSnapshot
<1>1. IInv => LockKeepsSnapshot
  BY DEF IInv
<1>2. QED
  BY <1>1, InductiveInvariant, PTL

-----------------------------------------------------------------------------

\* Only the commit of a payment touches paid_amount or the payments table.
LEMMA OnlyRecordMovesMoney ==
  ASSUME [Next]_vars
  PROVE  UNCHANGED <<paid, payments>> \/ \E s \in Sessions : RecordPayment(s)
BY DEF Next, SessionStep, CheckKey, InvoiceMissing, LoadInvoice, LoseRace,
       KeyCollision, CloseSession, ReadOverdue, MarkOverdue, Crash, invoiceVars, vars

\* What the commit does to the books, from the invariant: one well-formed row
\* of a fresh key is appended, its amount is added to its invoice, and the
\* invoice has room for it.
LEMMA RecordPosts ==
  ASSUME IInv, NEW s \in Sessions, RecordPayment(s)
  PROVE  \E row \in Payment :
           /\ payments' = Append(payments, row)
           /\ paid' = [paid EXCEPT ![row.invoice] = @ + row.amount]
           /\ paid[row.invoice] + row.amount <= Total[row.invoice]
           /\ ~KeyUsed(row.key)
<1> DEFINE i == ask[s].invoice
           m == ask[s].amount
           row == [invoice |-> i, key |-> ask[s].key, amount |-> Cents(m)]
<1>1. m \in Int
  <2>1. ask[s] \in Request
    BY DEF IInv, TypeOK
  <2>2. m \in Amounts \cup {0}
    BY <2>1 DEF Request
  <2> HIDE DEF m
  <2>3. QED
    BY <2>2, AmountsAssumption
<1>2. /\ i \in Invoices /\ m > 0 /\ m <= 10 * (Total[i] - seen[s])
      /\ seen[s] = paid[i] /\ paid[i] \in Nat /\ Total[i] \in Nat
  BY TotalAssumption DEF IInv, TypeOK, LoadedIsPayable, RecordPayment, SwapMatches
<1>3. Total[i] - paid[i] \in Nat
  BY <1>2 DEF IInv, NeverOverpaid
<1>4. /\ Cents(m) \in Nat
      /\ Cents(10 * paid[i] + m) = paid[i] + Cents(m)
      /\ Cents(m) <= Total[i] - paid[i]
  <2> DEFINE c == paid[i]
             d == Total[i] - paid[i]
  <2>1. c \in Nat /\ d \in Nat /\ m \in Int /\ m > 0 /\ m <= 10 * d
    BY <1>1, <1>2, <1>3
  <2> HIDE DEF c, d, m
  <2>2. Cents(m) \in Nat /\ Cents(10 * c + m) = c + Cents(m) /\ Cents(m) <= d
    BY <2>1, CentsRounds
  <2>3. QED
    BY <2>2 DEF c, d
<1>5. row \in Payment
  BY <1>2, <1>4 DEF IInv, TypeOK, Request, Payment
<1>6. /\ payments' = Append(payments, row)
      /\ paid' = [paid EXCEPT ![i] = paid[i] + Cents(m)]
      /\ ~KeyUsed(row.key)
  BY <1>2, <1>4 DEF RecordPayment, IndexRefuses, NewPaid
<1>7. paid[i] + Cents(m) <= Total[i]
  BY <1>2, <1>4
<1>8. QED
  BY <1>5, <1>6, <1>7

\* Payment rows are only appended and no paid_amount falls, whatever is
\* rejected, rolled back, swept or crashes.
THEOREM RecordedMoneyStays == Spec => LedgerOnlyGrows
<1> DEFINE Grows == /\ Len(payments') >= Len(payments)
                    /\ SubSeq(payments', 1, Len(payments)) = payments
                    /\ \A i \in Invoices : paid'[i] >= paid[i]
<1>1. ASSUME IInv, [Next]_vars PROVE Grows
  <2>1. /\ payments \in Seq(Payment) /\ Len(payments) \in Nat
        /\ paid \in [Invoices -> Nat]
    BY <1>1 DEF IInv, TypeOK
  <2>2. CASE UNCHANGED <<paid, payments>>
    BY <2>1, <2>2
  <2>3. ASSUME NEW s \in Sessions, RecordPayment(s) PROVE Grows
    <3>1. PICK row \in Payment :
             /\ payments' = Append(payments, row)
             /\ paid' = [paid EXCEPT ![row.invoice] = @ + row.amount]
      BY <1>1, <2>3, RecordPosts
    <3>2. row.amount \in Nat
      BY DEF Payment
    <3>3. \A i \in Invoices : paid'[i] >= paid[i]
      BY <2>1, <3>1, <3>2
    <3>4. /\ Len(payments') = Len(payments) + 1
          /\ \A n \in 1..Len(payments) : payments'[n] = payments[n]
          /\ payments' \in Seq(Payment)
      BY <2>1, <3>1
    <3>5. SubSeq(payments', 1, Len(payments)) = payments
      BY <2>1, <3>4
    <3>6. QED
      BY <2>1, <3>3, <3>4, <3>5
  <2>4. QED
    BY <1>1, <2>2, <2>3, OnlyRecordMovesMoney
<1>2. IInv /\ [Next]_vars => [Grows]_vars
  BY <1>1
<1>3. QED
  BY <1>2, InductiveInvariant, PTL DEF Spec, LedgerOnlyGrows

\* FeePayments implements FeeLedger: a commit is one Post, every other step
\* of sessions, sweepers and crashes leaves credits and receipts alone.
THEOREM LedgerRefined == Spec => ImplementsLedger
<1> DEFINE cr == [i \in Invoices |-> Credited(payments, i)]
           rc == [k \in Keys \cup {NoKey} |-> RowsUnder(payments, k)]
<1>1. Init => Ledger!LedgerInit
  BY CreditedEmpty DEF Init, RowsUnder, Ledger!LedgerInit
<1>2. ASSUME IInv, [Next]_vars
      PROVE  Ledger!LedgerNext \/ UNCHANGED <<cr, Len(payments), rc>>
  <2>1. CASE UNCHANGED <<paid, payments>>
    BY <2>1
  <2>2. ASSUME NEW s \in Sessions, RecordPayment(s) PROVE Ledger!LedgerNext
    <3>1. PICK row \in Payment :
             /\ payments' = Append(payments, row)
             /\ paid' = [paid EXCEPT ![row.invoice] = @ + row.amount]
             /\ paid[row.invoice] + row.amount <= Total[row.invoice]
             /\ ~KeyUsed(row.key)
      BY <1>2, <2>2, RecordPosts
    <3> DEFINE i == row.invoice
               k == row.key
    <3>2. i \in Invoices /\ k \in Keys \cup {NoKey} /\ row.amount \in Nat
      BY DEF Payment
    <3>3. /\ payments \in Seq(Payment) /\ Len(payments) \in Nat
          /\ paid[i] \in Nat /\ Total[i] \in Nat
          /\ \A j \in Invoices : paid[j] = Credited(payments, j)
      BY <1>2, <3>2, TotalAssumption DEF IInv, TypeOK, LedgerBalanced
    <3>4. row.amount \in 0..Total[i] /\ cr[i] + row.amount <= Total[i]
      BY <3>1, <3>2, <3>3
    <3>5. cr' = [cr EXCEPT ![i] = @ + row.amount]
      <4>1. \A j \in Invoices : Credited(payments', j)
                  = IF j = i THEN Credited(payments, j) + row.amount
                             ELSE Credited(payments, j)
        <5> SUFFICES ASSUME NEW j \in Invoices
                     PROVE  Credited(payments', j)
                              = IF j = i THEN Credited(payments, j) + row.amount
                                         ELSE Credited(payments, j)
          OBVIOUS
        <5>1. /\ Credited(payments', j) = Credited(payments, j) + Credit(row, j)
              /\ Credited(payments, j) \in Nat
          BY <3>1, <3>3, CreditedAppend
        <5>2. Credit(row, j) = IF j = i THEN row.amount ELSE 0
          BY DEF Credit
        <5>3. QED
          BY <5>1, <5>2
      <4>2. QED
        BY <4>1
    <3>6. /\ Len(payments') = Len(payments) + 1
          /\ \A n \in 1..Len(payments) : payments'[n] = payments[n]
          /\ payments'[Len(payments) + 1] = row
      BY <3>1, <3>3
    <3>7. rc' = [rc EXCEPT ![k] = @ \cup {Len(payments) + 1}]
      <4>1. \A l \in Keys \cup {NoKey} : RowsUnder(payments', l)
                  = IF l = k THEN RowsUnder(payments, l) \cup {Len(payments) + 1}
                             ELSE RowsUnder(payments, l)
        BY <3>3, <3>6 DEF RowsUnder
      <4>2. QED
        BY <3>2, <4>1
    <3>8. k # NoKey => rc[k] = {}
      BY <3>1, <3>2 DEF KeyUsed, RowsUnder
    <3>9. Ledger!Post(i, row.amount, k)
      BY <3>4, <3>5, <3>6, <3>7, <3>8 DEF Ledger!Post
    <3>10. QED
      BY <3>2, <3>4, <3>9 DEF Ledger!LedgerNext
  <2>3. QED
    BY <1>2, <2>1, <2>2, OnlyRecordMovesMoney
<1>3. IInv /\ [Next]_vars => [Ledger!LedgerNext]_(Ledger!ledgerVars)
  BY <1>2 DEF Ledger!ledgerVars
<1>4. QED
  BY <1>1, <1>3, InductiveInvariant, PTL DEF Spec, ImplementsLedger, Ledger!LedgerSpec

-----------------------------------------------------------------------------
\* The checkout.

\* A transaction the gateway has been asked about carries its amount, and the
\* gateway has been asked before it reports anything.
Started ==
    \A t \in Txns :
        /\ call[t] # "none" => txn[t].amount \in TxnAmounts
        /\ gateway[t] # "NONE" => call[t] # "none"
        /\ named[t] # {} => call[t] # "none"

\* What the checkout must keep for its calls into the ledger to be proper.
CheckoutInv ==
    /\ txn \in [Txns -> Txn]
    /\ call \in [Txns -> {"none", "calling", "over"}]
    /\ gateway \in [Txns -> {"NONE"} \cup Class]
    /\ reported \in [Txns -> SUBSET Class]
    /\ named \in [Txns -> SUBSET NoticeAmounts]
    /\ Started

\* The fresh service, with no transaction, satisfies the invariant.
LEMMA CheckoutInitInv == CheckoutInit => CheckoutInv
BY DEF CheckoutInit, CheckoutInv, Started, NoTxn, Txn, TxnStatus, Class

\* The id of a linked row is a number.
LEMMA PaymentOfIsNat ==
  ASSUME NEW t PROVE PaymentOf(t) \in Nat
<1>1. CASE KeyUsed(TxnKey[t])
  <2>1. \E n \in 1..Len(payments) : payments[n].key = TxnKey[t]
    BY <1>1 DEF KeyUsed
  <2>2. PaymentOf(t) \in 1..Len(payments)
    BY <1>1, <2>1 DEF PaymentOf
  <2>3. QED
    BY <2>2
<1>2. CASE ~KeyUsed(TxnKey[t])
  BY <1>2 DEF PaymentOf
<1>3. QED
  BY <1>1, <1>2

\* A step that asks the gateway nothing keeps the invariant if it keeps the
\* amounts of the rows.
LEMMA RowsKept ==
  ASSUME CheckoutInv, UNCHANGED <<gateway, reported, named>>,
         \A t \in Txns : call'[t] # "none" => call[t] # "none",
         call' \in [Txns -> {"none", "calling", "over"}],
         \A t \in Txns : call[t] # "none" => call'[t] # "none",
         txn' \in [Txns -> Txn],
         \A t \in Txns : txn'[t].amount = txn[t].amount
  PROVE  CheckoutInv'
BY DEF CheckoutInv, Started

\* Writing the status of a row keeps its type and every amount.
LEMMA StatusWritten ==
  ASSUME CheckoutInv, NEW t, NEW st \in TxnStatus,
         txn' = [txn EXCEPT ![t].status = st]
  PROVE  txn' \in [Txns -> Txn] /\ \A u \in Txns : txn'[u].amount = txn[u].amount
BY DEF CheckoutInv, Txn

\* initiate_payment and its gateway call.
LEMMA InitiateInv ==
  ASSUME CheckoutInv, NEW t \in Txns,
         \/ \E i \in Invoices, amount \in TxnAmounts : Initiate(t, i, amount)
         \/ InitiateAccepted(t)
         \/ InitiateFailed(t)
  PROVE  CheckoutInv' /\ UNCHANGED vars
<1>1. ASSUME NEW i \in Invoices, NEW amount \in TxnAmounts, Initiate(t, i, amount)
      PROVE  CheckoutInv' /\ UNCHANGED vars
  <2> DEFINE row == [NoTxn EXCEPT !.status = "INITIATED",
                                  !.invoice = i, !.amount = amount]
  <2>1. row \in Txn /\ row.amount = amount
    BY DEF NoTxn, Txn, TxnStatus
  <2>2. /\ txn' = [txn EXCEPT ![t] = row]
        /\ call' = [call EXCEPT ![t] = "calling"]
        /\ UNCHANGED <<vars, gateway, reported, named>>
    BY <1>1 DEF Initiate, gatewayVars
  <2> HIDE DEF row
  <2>3. QED
    BY <2>1, <2>2 DEF CheckoutInv, Started
<1>2. CASE InitiateAccepted(t)
  <2>1. /\ txn' = [txn EXCEPT ![t].status = "SENT", ![t].polled = TRUE]
        /\ call' = [call EXCEPT ![t] = "over"]
        /\ call[t] = "calling"
        /\ UNCHANGED <<vars, gateway, reported, named>>
    BY <1>2 DEF InitiateAccepted, gatewayVars
  <2>2. txn' \in [Txns -> Txn] /\ \A u \in Txns : txn'[u].amount = txn[u].amount
    <3> DEFINE row == [txn[t] EXCEPT !.status = "SENT", !.polled = TRUE]
    <3>1. txn \in [Txns -> Txn] /\ txn' = [txn EXCEPT ![t] = row]
      BY <2>1 DEF CheckoutInv
    <3>2. row \in Txn /\ row.amount = txn[t].amount
      BY <3>1 DEF Txn, TxnStatus
    <3> HIDE DEF row
    <3>3. QED
      BY <3>1, <3>2
  <2>3. QED
    BY <2>1, <2>2, RowsKept DEF CheckoutInv
<1>3. CASE InitiateFailed(t)
  <2>1. /\ txn' = [txn EXCEPT ![t].status = "FAILED"]
        /\ call' = [call EXCEPT ![t] = "over"]
        /\ call[t] = "calling"
        /\ UNCHANGED <<vars, gateway, reported, named>>
    BY <1>3 DEF InitiateFailed, gatewayVars
  <2>2. QED
    BY <2>1, RowsKept, StatusWritten DEF CheckoutInv, TxnStatus
<1>4. QED
  BY <1>1, <1>2, <1>3

\* The gateway only reports what it has been asked about.
LEMMA GatewayInv ==
  ASSUME CheckoutInv, NEW t \in Txns,
         \/ GatewayAccepts(t) \/ PayerDeclines(t)
         \/ PayerPays(t) \/ PaymentReversed(t)
  PROVE  CheckoutInv' /\ UNCHANGED vars
<1>1. /\ call[t] # "none"
      /\ \E c \in Class, A \in SUBSET NoticeAmounts : GatewayReports(t, c, A)
  BY DEF GatewayAccepts, PayerDeclines, PayerPays, PaymentReversed, CheckoutInv,
         Started, Class
<1>2. PICK c \in Class, A \in SUBSET NoticeAmounts : GatewayReports(t, c, A)
  BY <1>1
<1>3. QED
  BY <1>1, <1>2 DEF GatewayReports, CheckoutInv, Started, threadVars

\* The status poll.
LEMMA PollInv ==
  ASSUME CheckoutInv, NEW t \in Txns,
         PollReads(t) \/ PollAnswered(t) \/ PollWrites(t)
  PROVE  CheckoutInv' /\ UNCHANGED vars
<1>1. CASE PollReads(t) \/ PollAnswered(t)
  BY <1>1 DEF PollReads, PollAnswered, gatewayVars, CheckoutInv, Started
<1>2. CASE PollWrites(t)
  <2> DEFINE st == Flushed(txn[t].status, "SENT", poll[t])
  <2>1. /\ txn' = [txn EXCEPT ![t].status = st]
        /\ UNCHANGED <<vars, call, gateway, reported, named>>
        /\ poll[t] \in Class
    BY <1>2 DEF PollWrites, gatewayVars
  <2>2. st \in TxnStatus
    BY <2>1 DEF CheckoutInv, Flushed, Txn, TxnStatus, Class
  <2> HIDE DEF st
  <2>3. QED
    BY <2>1, <2>2, RowsKept, StatusWritten DEF CheckoutInv
<1>3. QED
  BY <1>1, <1>2

\* The webhook for a class other than PAID.
LEMMA WebhookOtherInv ==
  ASSUME CheckoutInv, NEW h \in Hooks, NEW t \in Txns, NEW c \in Class,
         WebhookOther(h, t, c)
  PROVE  CheckoutInv' /\ UNCHANGED vars
<1>1. /\ txn' = [txn EXCEPT ![t].status = c]
      /\ UNCHANGED <<vars, call, gateway, reported, named>>
  BY DEF WebhookOther, threadVars, gatewayVars
<1>2. c \in TxnStatus
  BY DEF Class, TxnStatus
<1>3. QED
  BY <1>1, <1>2, RowsKept, StatusWritten DEF CheckoutInv

\* What the webhook books is an amount record_payment may be called with.
LEMMA BookedIsAmount ==
  ASSUME CheckoutInv, NEW t \in Txns, NEW a \in named[t]
  PROVE  Booked(t, a) \in Amounts /\ Booked(t, a) \in Int
<1>1. call[t] # "none" /\ a \in NoticeAmounts
  BY DEF CheckoutInv, Started
<1>2. Booked(t, a) \in Amounts
  BY <1>1, TxnAmountsAssumption, NoticeAmountsAssumption
     DEF Booked, CheckoutInv, Started
<1>3. QED
  BY <1>2, AmountsAssumption

\* The webhook for PAID calls record_payment with a proper request.
LEMMA WebhookPaidInv ==
  ASSUME CheckoutInv, NEW h \in Hooks, NEW t \in Txns, NEW a \in NoticeAmounts,
         WebhookPaid(h, t, a)
  PROVE  CheckoutInv' /\ Next
<1>1. UNCHANGED <<txn, call, gateway, reported, named>>
  BY DEF WebhookPaid, threadVars, gatewayVars
<1>2. CheckoutInv'
  BY <1>1 DEF CheckoutInv, Started
<1>3. /\ h \in Sessions
      /\ txn[t].invoice \in Invoices \cup {UnknownInvoice}
      /\ TxnKey[t] \in Keys \cup {NoKey}
  BY SessionsAssumption, TxnKeyAssumption DEF CheckoutInv, Txn
<1>4. Booked(t, a) \in Amounts
  BY BookedIsAmount DEF WebhookPaid, NoticePaid
<1>5. CheckKey(h, txn[t].invoice, Booked(t, a), TxnKey[t])
  BY DEF WebhookPaid
<1>6. QED
  BY <1>2, <1>3, <1>4, <1>5 DEF Next

\* The rest of the webhook for PAID, up to its answer.
LEMMA WebhookStepInv ==
  ASSUME CheckoutInv, NEW h \in Hooks, WebhookStep(h)
  PROVE  CheckoutInv' /\ Next
<1>1. h \in Sessions
  BY SessionsAssumption
<1>2. CASE WebhookLoads(h) \/ WebhookLosesRace(h)
  <2>1. UNCHANGED <<txn, call, gateway, reported, named>>
    BY <1>2 DEF WebhookLoads, WebhookLosesRace, checkoutVars, threadVars, gatewayVars
  <2>2. QED
    BY <1>1, <1>2, <2>1
       DEF WebhookLoads, WebhookLosesRace, CheckoutInv, Started, Next, SessionStep
<1>3. CASE WebhookRecords(h)
  <2> DEFINE t == hook[h].txn
             st == Flushed(txn[t].status, hook[h].loaded, "PAID")
  <2>1. /\ txn' = [txn EXCEPT ![t].status = st]
        /\ UNCHANGED <<call, gateway, reported, named>>
        /\ RecordPayment(h)
    BY <1>3 DEF WebhookRecords, threadVars, gatewayVars
  <2>2. CASE t \in Txns
    <3>1. st \in TxnStatus
      BY <2>2 DEF CheckoutInv, Flushed, Txn, TxnStatus
    <3> HIDE DEF st, t
    <3>2. QED
      BY <1>1, <2>1, <3>1, RowsKept, StatusWritten DEF CheckoutInv, Next, SessionStep
  <2>3. CASE t \notin Txns
    <3>1. txn' = txn
      BY <2>1, <2>3 DEF CheckoutInv
    <3>2. QED
      BY <1>1, <2>1, <3>1 DEF CheckoutInv, Started, Next, SessionStep
  <2>4. QED
    BY <2>2, <2>3
<1>4. CASE WebhookAnswersOk(h)
  <2> DEFINE t == hook[h].txn
  <2>1. /\ UNCHANGED <<call, gateway, reported, named>>
        /\ CloseSession(h)
    BY <1>4 DEF WebhookAnswersOk, threadVars, gatewayVars
  <2>2. \E row : /\ txn' = [txn EXCEPT ![t] = row]
                 /\ t \in Txns => row \in Txn /\ row.amount = txn[t].amount
    <3> DEFINE linked == [txn[t] EXCEPT !.payment = PaymentOf(t)]
               paidRow == [linked EXCEPT !.status =
                             Flushed(txn[t].status, hook[h].loaded, "PAID")]
               failedRow == [txn[t] EXCEPT !.status =
                             Flushed(txn[t].status, hook[h].loaded, "FAILED")]
    <3>1. \/ txn' = [txn EXCEPT ![t] = linked]
          \/ txn' = [txn EXCEPT ![t] = paidRow]
          \/ txn' = [txn EXCEPT ![t] = failedRow]
      BY <1>4 DEF WebhookAnswersOk
    <3>2. ASSUME t \in Txns
          PROVE  /\ linked \in Txn /\ linked.amount = txn[t].amount
                 /\ paidRow \in Txn /\ paidRow.amount = txn[t].amount
                 /\ failedRow \in Txn /\ failedRow.amount = txn[t].amount
      <4>1. txn[t] \in Txn /\ PaymentOf(t) \in Nat
        BY <3>2, PaymentOfIsNat DEF CheckoutInv
      <4>2. linked \in Txn /\ linked.amount = txn[t].amount
        BY <4>1 DEF Txn
      <4>3. /\ Flushed(txn[t].status, hook[h].loaded, "PAID") \in TxnStatus
            /\ Flushed(txn[t].status, hook[h].loaded, "FAILED") \in TxnStatus
        BY <4>1 DEF Flushed, Txn, TxnStatus
      <4>4. paidRow \in Txn /\ paidRow.amount = txn[t].amount
        <5> HIDE DEF linked
        <5> QED
          BY <4>2, <4>3 DEF Txn
      <4>5. failedRow \in Txn /\ failedRow.amount = txn[t].amount
        BY <4>1, <4>3 DEF Txn
      <4>6. QED
        BY <4>2, <4>4, <4>5
    <3> HIDE DEF linked, paidRow, failedRow, t
    <3>3. QED
      BY <3>1, <3>2
  <2>3. txn' \in [Txns -> Txn] /\ \A u \in Txns : txn'[u].amount = txn[u].amount
    <3> HIDE DEF t
    <3> QED
      BY <2>2 DEF CheckoutInv
  <2>4. QED
    BY <1>1, <2>1, <2>3, RowsKept DEF CheckoutInv, Next, SessionStep
<1>5. QED
  BY <1>2, <1>3, <1>4 DEF WebhookStep

\* The till's requests are record_payment and nothing else.
LEMMA TillInv ==
  ASSUME CheckoutInv, NEW s \in Tills,
         \/ \E i \in Invoices \cup {UnknownInvoice}, amount \in Amounts,
               k \in TillKeys \cup {NoKey} : TillAsks(s, i, amount, k)
         \/ TillStep(s)
         \/ TillAnswers(s)
  PROVE  CheckoutInv' /\ Next
<1>1. s \in Sessions /\ TillKeys \subseteq Keys
  BY SessionsAssumption, TillKeysAssumption
<1>2. UNCHANGED checkoutVars
  BY DEF TillAsks, TillStep, TillAnswers
<1>3. CheckoutInv'
  BY <1>2 DEF checkoutVars, CheckoutInv, Started
<1>4. Next
  BY <1>1 DEF TillAsks, TillStep, TillAnswers, Next, SessionStep
<1>5. QED
  BY <1>3, <1>4

\* The death of the process is a crash of all its sessions.
LEMMA ProcessDiesInv ==
  ASSUME CheckoutInv, ProcessDies
  PROVE  CheckoutInv' /\ Next
<1>1. UNCHANGED <<txn, gateway, reported, named>>
  BY DEF ProcessDies, gatewayVars
<1>2. call' = [t \in Txns |-> IF call[t] = "calling" THEN "over" ELSE call[t]]
  BY DEF ProcessDies
<1>3. CheckoutInv'
  BY <1>1, <1>2 DEF CheckoutInv, Started
<1>4. Next
  BY DEF ProcessDies, Next
<1>5. QED
  BY <1>3, <1>4

\* Every step of the service keeps the invariant and is a step of the ledger
\* or leaves the ledger alone.
LEMMA CheckoutStep ==
  ASSUME CheckoutInv, [CheckoutNext]_allVars
  PROVE  CheckoutInv' /\ [Next]_vars
<1>1. CASE UNCHANGED allVars
  BY <1>1 DEF allVars, checkoutVars, CheckoutInv, Started
<1>2. CASE CheckoutNext
  BY <1>2, InitiateInv, GatewayInv, PollInv, WebhookOtherInv, WebhookPaidInv,
     WebhookStepInv, TillInv, ProcessDiesInv DEF CheckoutNext
<1>3. QED
  BY <1>1, <1>2

-----------------------------------------------------------------------------

\* The checkout implements FeePayments: initiate, polls and the gateway leave
\* the ledger alone, webhooks and tills use it properly.
THEOREM CheckoutRefinesPayments == CheckoutSpec => ImplementsPayments
<1>1. CheckoutInit => CheckoutInv /\ Init
  BY CheckoutInitInv DEF CheckoutInit
<1>2. CheckoutInv /\ [CheckoutNext]_allVars => CheckoutInv' /\ [Next]_vars
  BY CheckoutStep
<1>3. QED
  BY <1>1, <1>2, PTL DEF CheckoutSpec, ImplementsPayments, Spec

\* With webhooks, polls and crashes of the process around it, the ledger still
\* never loses or invents money: rows and paid_amount agree, no invoice is
\* overpaid, and a gateway notice repeated any number of times pays once.
THEOREM CheckoutKeepsTheBooks ==
  CheckoutSpec => [](LedgerBalanced /\ NeverOverpaid /\ OneRowPerKey)
<1>1. IInv => LedgerBalanced /\ NeverOverpaid /\ OneRowPerKey
  BY DEF IInv
<1>2. QED
  BY <1>1, CheckoutRefinesPayments, InductiveInvariant, PTL DEF ImplementsPayments

-----------------------------------------------------------------------------
(***************************************************************************)
(* What the gateway is told.  Webhooks take turns on the event loop, so at *)
(* most one of them is inside record_payment, and nobody else uses their   *)
(* keys: the row it looked for stays missing until it records it itself.   *)
(* With real row locks it is rejected only when the invoice has no room,   *)
(* and as paid_amount never falls, it never will have.                     *)
(***************************************************************************)

\* A request the gateway has been asked about has its row and its invoice, and
\* only what the gateway accepted can be polled.
RowsStarted ==
    \A t \in Txns :
        /\ call[t] # "none" => txn[t].status # "NONE" /\ txn[t].invoice \in Invoices
        /\ txn[t].polled \/ poll[t] # "none" => gateway[t] # "NONE"

\* The webhook in progress holds the loop, and works on a transaction the
\* gateway reported paid.
HooksTakeTurns ==
    /\ hook = [h \in Hooks |-> hook[h]]
    /\ \A h \in Hooks :
        /\ pc[h] # "idle" <=> loop = h
        /\ pc[h] # "aborted"
        /\ pc[h] # "idle" =>
              /\ hook[h].notice \in named[hook[h].txn]
              /\ ask[h] = [invoice |-> txn[hook[h].txn].invoice,
                           key |-> TxnKey[hook[h].txn],
                           amount |-> Booked(hook[h].txn, hook[h].notice)]

\* Cash payments do not use the keys of transactions.
TillsApart == \A s \in Tills : ask[s].key \in TillKeys \cup {NoKey}

\* What a webhook past record_payment tells of its key, and a rejection of the
\* room left on the invoice.
OutcomeIsTrue ==
    \A h \in Hooks :
        /\ pc[h] \in {"recorded", "replayed"} => KeyUsed(ask[h].key)
        /\ pc[h] = "rejected" /\ rowLocks =>
              /\ ~KeyUsed(ask[h].key)
              /\ \/ ask[h].amount <= 0
                 \/ ask[h].amount > 10 * (Total[ask[h].invoice] - paid[ask[h].invoice])

\* A payment under a transaction's key is the payment of that transaction.
RowsAreReal ==
    \A n \in 1..Len(payments), t \in Txns : payments[n].key = TxnKey[t] =>
        /\ payments[n].invoice = txn[t].invoice
        /\ \E a \in named[t] : payments[n].amount = Cents(Booked(t, a))

LinksAreOwn ==
    \A t \in Txns : txn[t].payment # 0 =>
        KeyUsed(TxnKey[t]) /\ txn[t].payment = PaymentOf(t)

AckedWasReported ==
    \A t \in Txns, a \in NoticeAmounts : <<t, a>> \in acked => a \in named[t]

\* The inductive invariant of the checkout, with the ledger's own.
SettledInv ==
    /\ IInv
    /\ CheckoutInv
    /\ CheckoutTypeOK
    /\ RowsStarted
    /\ HooksTakeTurns
    /\ TillsApart
    /\ WebhookKeyIsFree
    /\ OutcomeIsTrue
    /\ RowsAreReal
    /\ LinksAreOwn
    /\ AckedWasReported
    /\ OkMeansSettled

\* The fresh service satisfies it.
LEMMA SettledInitInv == CheckoutInit => SettledInv
<1> SUFFICES ASSUME CheckoutInit PROVE SettledInv
  OBVIOUS
<1>1. IInv /\ CheckoutInv
  BY InitInv, CheckoutInitInv DEF CheckoutInit
<1>2. /\ \A s \in Sessions : pc[s] = "idle" /\ ask[s] = NoRequest
      /\ payments = <<>>
      /\ \A t \in Txns : txn[t] = NoTxn /\ call[t] = "none"
      /\ acked = {} /\ loop = NoSession /\ crashes = 0
      /\ poll = [t \in Txns |-> "none"]
  BY DEF CheckoutInit, Init
<1>3. \A k : ~KeyUsed(k)
  BY <1>2 DEF KeyUsed
<1>4. CheckoutTypeOK
  BY <1>1, <1>2, SessionsAssumption, CrashBoundAssumption
     DEF CheckoutTypeOK, CheckoutInv
<1>5. RowsStarted /\ TillsApart
  BY <1>2, SessionsAssumption DEF RowsStarted, TillsApart, NoRequest, NoTxn
<1>6. HooksTakeTurns /\ WebhookKeyIsFree /\ OutcomeIsTrue
  BY <1>2, SessionsAssumption, NoSessionAssumption
     DEF HooksTakeTurns, WebhookKeyIsFree, OutcomeIsTrue, CheckoutInit
<1>7. RowsAreReal /\ LinksAreOwn /\ AckedWasReported /\ OkMeansSettled
  BY <1>2 DEF RowsAreReal, LinksAreOwn, AckedWasReported, OkMeansSettled, NoTxn
<1>8. QED
  BY <1>1, <1>4, <1>5, <1>6, <1>7 DEF SettledInv

\* The row a unique key finds.
LEMMA TheRow ==
  ASSUME NEW log, NEW k, NEW n \in 1..Len(log), log[n].key = k,
         \A m \in 1..Len(log) : log[m].key = k => m = n
  PROVE  (CHOOSE m \in 1..Len(log) : log[m].key = k) = n
OBVIOUS

\* A transaction's key is a key, and no key of the till.
LEMMA TxnKeysApart ==
  ASSUME NEW t \in Txns
  PROVE  /\ TxnKey[t] \in Keys /\ TxnKey[t] # NoKey
         /\ TxnKey[t] \notin TillKeys \cup {NoKey}
         /\ \A u \in Txns : TxnKey[t] = TxnKey[u] => t = u
BY TxnKeyAssumption, KeyAssumption

\* Recorded rows keep their place.
RowsStand ==
    \A n \in 1..Len(payments) :
        n \in 1..Len(payments') /\ payments'[n] = payments[n]

\* The payment of a transaction stays its payment as the table grows.
LEMMA PaymentOfStays ==
  ASSUME OneRowPerKey, OneRowPerKey', RowsStand,
         NEW t \in Txns, KeyUsed(TxnKey[t])
  PROVE  KeyUsed(TxnKey[t])' /\ PaymentOf(t)' = PaymentOf(t)
<1> DEFINE k == TxnKey[t]
<1>1. k # NoKey
  BY TxnKeysApart
<1>2. PICK n \in 1..Len(payments) : payments[n].key = k
  BY DEF KeyUsed
<1>3. n \in 1..Len(payments') /\ payments'[n].key = k
  BY <1>2 DEF RowsStand
<1>4. KeyUsed(k)'
  BY <1>1, <1>3 DEF KeyUsed
<1>5. (CHOOSE m \in 1..Len(payments) : payments[m].key = k) = n
  <2>1. \A m \in 1..Len(payments) : payments[m].key = k => m = n
    BY <1>1, <1>2 DEF OneRowPerKey
  <2> HIDE DEF k
  <2>2. QED
    BY <1>2, <2>1, TheRow
<1>6. (CHOOSE m \in 1..Len(payments') : payments'[m].key = k) = n
  <2>1. \A m \in 1..Len(payments') : payments'[m].key = k => m = n
    BY <1>1, <1>3 DEF OneRowPerKey
  <2> HIDE DEF k
  <2>2. QED
    BY <1>3, <2>1, TheRow
<1>7. QED
  BY <1>4, <1>5, <1>6 DEF PaymentOf

\* Requests and answers that move no money leave what was recorded, linked
\* and answered as it was.
LEMMA NothingRecorded ==
  ASSUME SettledInv, UNCHANGED <<rowLocks, paid, payments, txn, named, acked>>
  PROVE  RowsAreReal' /\ LinksAreOwn' /\ AckedWasReported' /\ OkMeansSettled'
<1>1. \A k : KeyUsed(k)' <=> KeyUsed(k)
  BY DEF KeyUsed
<1>2. \A t : PaymentOf(t)' = PaymentOf(t)
  BY <1>1 DEF PaymentOf
<1>3. RowsAreReal' /\ AckedWasReported'
  BY DEF SettledInv, RowsAreReal, AckedWasReported, Booked
<1>4. LinksAreOwn'
  BY <1>1, <1>2 DEF SettledInv, LinksAreOwn
<1>5. OkMeansSettled'
  BY <1>1, <1>2 DEF SettledInv, OkMeansSettled, Unpayable, OwnCredit, Charged
<1>6. QED
  BY <1>3, <1>4, <1>5

\* What the gateway reported paid was asked for, so its row was filled in.
LEMMA ReportedIsStarted ==
  ASSUME SettledInv, NEW t \in Txns
  PROVE  /\ txn[t].status = "NONE" => call[t] = "none"
         /\ named[t] # {} => call[t] # "none"
         /\ txn[t].payment # 0 => named[t] # {}
<1>1. txn[t].payment # 0 => named[t] # {}
  BY DEF SettledInv, LinksAreOwn, KeyUsed, RowsAreReal
<1>2. QED
  BY <1>1 DEF SettledInv, RowsStarted, CheckoutInv, Started

\* Steps that only touch rows, notices and requests to the gateway: what is
\* recorded, in progress or answered is not disturbed, for a row the gateway
\* reported paid keeps its invoice, amount and link.
LEMMA RowsMove ==
  ASSUME SettledInv, UNCHANGED <<vars, hook, loop, acked>>,
         \A t \in Txns : /\ named[t] \subseteq named'[t]
                         /\ txn'[t].payment \in {0, txn[t].payment}
                         /\ named[t] # {} =>
                               /\ txn'[t].invoice = txn[t].invoice
                               /\ txn'[t].amount = txn[t].amount
                               /\ txn'[t].payment = txn[t].payment
  PROVE  /\ HooksTakeTurns' /\ TillsApart' /\ WebhookKeyIsFree' /\ OutcomeIsTrue'
         /\ RowsAreReal' /\ LinksAreOwn' /\ AckedWasReported' /\ OkMeansSettled'
<1> USE DEF SettledInv
<1>1. UNCHANGED <<rowLocks, paid, payments, pc, ask>>
  BY DEF vars
<1>2. \A k : KeyUsed(k)' <=> KeyUsed(k)
  BY <1>1 DEF KeyUsed
<1>3. \A t : PaymentOf(t)' = PaymentOf(t)
  BY <1>1, <1>2 DEF PaymentOf
<1>B. \A t \in Txns : \A a \in named[t] : Booked(t, a)' = Booked(t, a)
  BY DEF Booked
<1>4. HooksTakeTurns'
  <2>1. \A h \in Hooks : pc[h] # "idle" => hook[h].txn \in Txns
    BY DEF CheckoutTypeOK, Hook
  <2>2. SUFFICES ASSUME NEW h \in Hooks, pc[h] # "idle"
        PROVE  /\ hook[h].notice \in named'[hook[h].txn]
               /\ ask[h] = [invoice |-> txn'[hook[h].txn].invoice,
                            key |-> TxnKey[hook[h].txn],
                            amount |-> Booked(hook[h].txn, hook[h].notice)']
    BY <1>1 DEF HooksTakeTurns
  <2>3. /\ hook[h].txn \in Txns
        /\ hook[h].notice \in named[hook[h].txn]
        /\ ask[h] = [invoice |-> txn[hook[h].txn].invoice,
                     key |-> TxnKey[hook[h].txn],
                     amount |-> Booked(hook[h].txn, hook[h].notice)]
    BY <2>1, <2>2 DEF HooksTakeTurns
  <2>4. QED
    BY <1>B, <2>3
<1>5. TillsApart'
  BY <1>1 DEF TillsApart
<1>6. WebhookKeyIsFree' /\ OutcomeIsTrue'
  BY <1>1, <1>2 DEF WebhookKeyIsFree, OutcomeIsTrue
<1>7. RowsAreReal'
  BY <1>1, <1>B DEF RowsAreReal
<1>8. LinksAreOwn'
  BY <1>2, <1>3, ReportedIsStarted DEF LinksAreOwn
<1>10. AckedWasReported'
  BY DEF AckedWasReported
<1>11. OkMeansSettled'
  <2>1. SUFFICES ASSUME rowLocks, NEW t \in Txns, NEW a \in NoticeAmounts,
                        <<t, a>> \in acked
        PROVE  \/ KeyUsed(TxnKey[t])' /\ txn'[t].payment = PaymentOf(t)'
               \/ Unpayable(t, Charged(t, a))'
    BY <1>1 DEF OkMeansSettled
  <2>2. /\ txn'[t].invoice = txn[t].invoice
        /\ txn'[t].amount = txn[t].amount
        /\ txn'[t].payment = txn[t].payment
    BY <2>1 DEF AckedWasReported
  <2>3. Unpayable(t, Charged(t, a)) => Unpayable(t, Charged(t, a))'
    BY <1>1, <1>2, <1>3, <2>2 DEF Unpayable, OwnCredit, Charged
  <2>4. QED
    BY <1>2, <1>3, <2>1, <2>2, <2>3 DEF OkMeansSettled
<1>12. QED
  BY <1>4, <1>5, <1>6, <1>7, <1>8, <1>10, <1>11

\* initiate_payment, its gateway call, the gateway and the status poll: none
\* of them touches what is recorded.
LEMMA RowsInv ==
  ASSUME SettledInv, IInv', CheckoutInv', NEW t \in Txns,
         \/ \E i \in Invoices, amount \in TxnAmounts : Initiate(t, i, amount)
         \/ InitiateAccepted(t) \/ InitiateFailed(t)
         \/ GatewayAccepts(t) \/ PayerDeclines(t) \/ PayerPays(t) \/ PaymentReversed(t)
         \/ PollReads(t) \/ PollAnswered(t) \/ PollWrites(t)
         \/ \E h \in Hooks, c \in Class : WebhookOther(h, t, c)
  PROVE  SettledInv'
<1>1. UNCHANGED <<vars, hook, loop, acked, crashes>>
  BY DEF Initiate, InitiateAccepted, InitiateFailed, GatewayAccepts, PayerDeclines, PayerPays,
         PaymentReversed, GatewayReports, PollReads, PollAnswered, PollWrites,
         WebhookOther, threadVars, gatewayVars
<1>2. txn \in [Txns -> Txn] /\ RowsStarted
  BY DEF SettledInv, CheckoutInv
<1>3. poll' \in [Txns -> {"none", "asking"} \cup Class]
  <2>1. poll \in [Txns -> {"none", "asking"} \cup Class]
    BY DEF SettledInv, CheckoutTypeOK
  <2>2. CASE PollReads(t)
    BY <2>1, <2>2 DEF PollReads
  <2>3. CASE PollAnswered(t)
    <3>1. PICK c \in {gateway[t], "SENT"} : poll' = [poll EXCEPT ![t] = c]
      BY <2>3 DEF PollAnswered
    <3>2. c \in Class
      BY <1>2, <3>1, <2>3 DEF SettledInv, CheckoutInv, RowsStarted, Class, PollAnswered
    <3>3. QED
      BY <2>1, <3>1, <3>2
  <2>4. CASE PollWrites(t)
    BY <2>1, <2>4 DEF PollWrites
  <2>5. CASE UNCHANGED poll
    BY <2>1, <2>5
  <2>6. QED
    BY <2>2, <2>3, <2>4, <2>5
       DEF Initiate, InitiateAccepted, InitiateFailed, GatewayAccepts, PayerDeclines, PayerPays,
           PaymentReversed, GatewayReports, WebhookOther, threadVars
<1>4. CheckoutTypeOK'
  BY <1>1, <1>3 DEF SettledInv, CheckoutTypeOK, CheckoutInv, vars
<1>5. CASE \E i \in Invoices, amount \in TxnAmounts : Initiate(t, i, amount)
  <2>1. PICK i \in Invoices, amount \in TxnAmounts : Initiate(t, i, amount)
    BY <1>5
  <2> DEFINE row == [NoTxn EXCEPT !.status = "INITIATED",
                                  !.invoice = i, !.amount = amount]
  <2>2. /\ row.status = "INITIATED" /\ row.invoice = i
        /\ row.payment = 0 /\ row.polled = FALSE
    BY DEF NoTxn
  <2>3. /\ txn' = [txn EXCEPT ![t] = row]
        /\ call' = [call EXCEPT ![t] = "calling"]
        /\ txn[t].status = "NONE"
        /\ UNCHANGED <<poll, gateway, reported, named>>
    BY <2>1 DEF Initiate, gatewayVars
  <2> HIDE DEF row
  <2>4. named[t] = {}
    BY <2>3, ReportedIsStarted
  <2>5. RowsStarted'
    BY <1>2, <2>2, <2>3 DEF RowsStarted, SettledInv, CheckoutInv
  <2>6. /\ HooksTakeTurns' /\ TillsApart' /\ WebhookKeyIsFree' /\ OutcomeIsTrue'
        /\ RowsAreReal' /\ LinksAreOwn' /\ AckedWasReported' /\ OkMeansSettled'
    <3>1. \A u \in Txns : u # t => txn'[u] = txn[u]
      BY <1>2, <2>3
    <3>2. txn'[t] = row
      BY <1>2, <2>3
    <3>3. QED
      BY <1>1, <2>2, <2>3, <2>4, <3>1, <3>2, RowsMove
  <2>7. QED
    BY <1>4, <2>5, <2>6 DEF SettledInv
<1>6. CASE ~\E i \in Invoices, amount \in TxnAmounts : Initiate(t, i, amount)
  <2>1. \A u \in Txns : /\ txn'[u].invoice = txn[u].invoice
                        /\ txn'[u].amount = txn[u].amount
                        /\ txn'[u].payment = txn[u].payment
    <3>1. CASE UNCHANGED txn
      BY <3>1
    <3>2. CASE InitiateAccepted(t)
      BY <1>2, <3>2 DEF InitiateAccepted, Txn
    <3>3. CASE \E st : txn' = [txn EXCEPT ![t].status = st]
      BY <1>2, <3>3 DEF Txn
    <3>4. QED
      BY <1>6, <3>1, <3>2, <3>3
         DEF InitiateFailed, GatewayAccepts, PayerDeclines, PayerPays, PaymentReversed,
             GatewayReports, PollReads, PollAnswered, PollWrites, WebhookOther
  <2>2. \A u \in Txns : txn[u].status # "NONE" => txn'[u].status # "NONE"
    <3>1. CASE UNCHANGED txn
      BY <3>1
    <3>2. CASE InitiateAccepted(t)
      BY <1>2, <3>2 DEF InitiateAccepted, Txn
    <3>3. CASE InitiateFailed(t)
      BY <1>2, <3>3 DEF InitiateFailed, Txn
    <3>4. CASE PollWrites(t)
      <4>1. Flushed(txn[t].status, "SENT", poll[t])
              \in {txn[t].status, "SENT", "PAID", "CANCELLED", "FAILED"}
        BY <3>4 DEF PollWrites, Flushed, Class
      <4>2. QED
        BY <1>2, <3>4, <4>1 DEF PollWrites, Txn
    <3>5. CASE \E h \in Hooks, c \in Class : WebhookOther(h, t, c)
      BY <1>2, <3>5 DEF WebhookOther, Txn, Class
    <3>6. QED
      BY <1>6, <3>1, <3>2, <3>3, <3>4, <3>5
         DEF GatewayAccepts, PayerDeclines, PayerPays, PaymentReversed, GatewayReports,
             PollReads, PollAnswered
  <2>3. \A u \in Txns : call'[u] # "none" => call[u] # "none"
    BY <1>6 DEF InitiateAccepted, InitiateFailed, GatewayAccepts, PayerDeclines, PayerPays,
       PaymentReversed, GatewayReports, PollReads, PollAnswered, PollWrites,
       WebhookOther, threadVars, SettledInv, CheckoutInv
  <2>4. \A u \in Txns : named[u] \subseteq named'[u]
    <3>1. CASE UNCHANGED named
      BY <3>1
    <3>2. CASE \E c, A : GatewayReports(t, c, A)
      BY <3>2 DEF GatewayReports, SettledInv, CheckoutInv
    <3>3. QED
      BY <1>6, <3>1, <3>2
         DEF InitiateAccepted, InitiateFailed, GatewayAccepts, PayerDeclines, PayerPays,
             PaymentReversed, PollReads, PollAnswered, PollWrites, WebhookOther,
             gatewayVars
  <2>5. RowsStarted'
    <3>1. \A u \in Txns : txn'[u].polled \/ poll'[u] # "none" =>
             \/ txn[u].polled \/ poll[u] # "none"
             \/ u = t /\ gateway[u] # "NONE" /\ UNCHANGED gateway
      <4>1. CASE UNCHANGED <<txn, poll>>
        BY <4>1
      <4>2. CASE InitiateAccepted(t)
        BY <1>2, <4>2 DEF InitiateAccepted, Txn, gatewayVars
      <4>3. CASE UNCHANGED poll /\ \E st : txn' = [txn EXCEPT ![t].status = st]
        BY <1>2, <4>3 DEF Txn
      <4>4. CASE PollReads(t) \/ PollAnswered(t) \/ PollWrites(t)
        <5>1. /\ txn[t].polled \/ poll[t] # "none"
              /\ \A u \in Txns \ {t} : poll'[u] = poll[u]
          BY <4>4 DEF PollReads, PollAnswered, PollWrites, Class, SettledInv,
             CheckoutTypeOK
        <5>2. \A u \in Txns : txn'[u].polled = txn[u].polled
          BY <1>2, <4>4 DEF PollReads, PollAnswered, PollWrites, Txn
        <5>3. QED
          BY <5>1, <5>2
      <4>5. QED
        BY <1>6, <4>1, <4>2, <4>3, <4>4
           DEF InitiateFailed, GatewayAccepts, PayerDeclines, PayerPays, PaymentReversed,
               GatewayReports, WebhookOther, threadVars
    <3>2. \A u \in Txns : gateway[u] # "NONE" => gateway'[u] # "NONE"
      <4>1. CASE UNCHANGED gateway
        BY <4>1
      <4>2. CASE \E c \in Class : \E A : GatewayReports(t, c, A)
        BY <4>2 DEF GatewayReports, Class, SettledInv, CheckoutInv
      <4>3. QED
        BY <1>6, <4>1, <4>2
           DEF InitiateAccepted, InitiateFailed, GatewayAccepts, PayerDeclines, PayerPays,
               PaymentReversed, PollReads, PollAnswered, PollWrites, WebhookOther,
               gatewayVars, Class
    <3>3. QED
      BY <1>2, <2>1, <2>2, <2>3, <3>1, <3>2 DEF RowsStarted
  <2>6. /\ HooksTakeTurns' /\ TillsApart' /\ WebhookKeyIsFree' /\ OutcomeIsTrue'
        /\ RowsAreReal' /\ LinksAreOwn' /\ AckedWasReported' /\ OkMeansSettled'
    BY <1>1, <2>1, <2>4, RowsMove
  <2>7. QED
    BY <1>4, <2>5, <2>6 DEF SettledInv
<1>7. QED
  BY <1>5, <1>6

\* The webhook for PAID takes the loop, its key looked up: nobody else can
\* record under it until it is done.
LEMMA WebhookPaidSettles ==
  ASSUME SettledInv, IInv', CheckoutInv', NEW h \in Hooks, NEW t \in Txns,
         NEW a \in NoticeAmounts, WebhookPaid(h, t, a)
  PROVE  SettledInv'
<1> DEFINE request == [invoice |-> txn[t].invoice, key |-> TxnKey[t],
                       amount |-> Booked(t, a)]
           entry == [txn |-> t, notice |-> a, loaded |-> txn[t].status]
<1>1. /\ loop = NoSession /\ a \in named[t] /\ pc[h] = "idle"
      /\ pc' = [pc EXCEPT ![h] = IF KeyUsed(TxnKey[t]) THEN "replayed" ELSE "checked"]
      /\ ask' = [ask EXCEPT ![h] = request]
      /\ hook' = [hook EXCEPT ![h] = entry]
      /\ loop' = h
      /\ UNCHANGED <<rowLocks, paid, payments, txn, call, poll, gateway, reported, named>>
      /\ UNCHANGED <<acked, crashes>>
  BY DEF WebhookPaid, CheckKey, LoopFree, NoticePaid, invoiceVars, threadVars,
         gatewayVars
<1>2. /\ pc \in [Sessions -> PcValues] /\ ask \in [Sessions -> Request]
      /\ h \in Sessions /\ Hooks \subseteq Sessions /\ NoSession \notin Hooks
      /\ txn[t].status \in TxnStatus
  BY SessionsAssumption, NoSessionAssumption
     DEF SettledInv, IInv, TypeOK, CheckoutInv, Txn
<1>3. \A g \in Hooks : pc[g] = "idle"
  BY <1>1, <1>2 DEF SettledInv, HooksTakeTurns
<1>4. /\ \A g \in Hooks \ {h} : pc'[g] = "idle" /\ g # h
      /\ ask'[h] = request
      /\ pc'[h] = IF KeyUsed(TxnKey[t]) THEN "replayed" ELSE "checked"
  BY <1>1, <1>2, <1>3
<1>5. \A k : KeyUsed(k)' <=> KeyUsed(k)
  BY <1>1 DEF KeyUsed
<1>6. hook'[h] = entry /\ hook'[h] \in Hook
  BY <1>1, <1>2 DEF SettledInv, HooksTakeTurns, Hook
<1>7. CheckoutTypeOK'
  BY <1>1, <1>4, <1>6 DEF SettledInv, CheckoutTypeOK, CheckoutInv
<1>8. HooksTakeTurns'
  <2>1. hook' = [g \in Hooks |-> hook'[g]]
    BY <1>1 DEF SettledInv, HooksTakeTurns
  <2>2. \A g \in Hooks \ {h} : pc'[g] = "idle" /\ loop' # g
    BY <1>1, <1>4
  <2>3. /\ pc'[h] \in {"replayed", "checked"} /\ loop' = h
        /\ hook'[h].txn = t /\ hook'[h].notice = a /\ a \in named'[t]
        /\ ask'[h] = [invoice |-> txn'[t].invoice, key |-> TxnKey[t],
                      amount |-> Booked(t, a)']
    BY <1>1, <1>4, <1>6 DEF Booked
  <2>4. QED
    BY <2>1, <2>2, <2>3 DEF HooksTakeTurns
<1>9. TillsApart'
  <2>1. \A s \in Tills : ask'[s] = ask[s]
    BY <1>1, <1>2, SessionsAssumption
  <2>2. QED
    BY <2>1 DEF SettledInv, TillsApart
<1>10. WebhookKeyIsFree' /\ OutcomeIsTrue'
  BY <1>4, <1>5 DEF WebhookKeyIsFree, OutcomeIsTrue
<1>11. RowsStarted'
  BY <1>1 DEF SettledInv, RowsStarted
<1>12. RowsAreReal' /\ LinksAreOwn' /\ AckedWasReported' /\ OkMeansSettled'
  BY <1>1, NothingRecorded
<1>13. QED
  BY <1>7, <1>8, <1>9, <1>10, <1>11, <1>12 DEF SettledInv

\* What is known of a webhook in progress: it is the only one, it works on a
\* row initiate filled in, and it asks for exactly that row's payment.
LEMMA WebhookFacts ==
  ASSUME SettledInv, NEW h \in Hooks, pc[h] # "idle"
  PROVE  /\ hook[h].txn \in Txns /\ hook[h] \in Hook
         /\ h \in Sessions /\ loop = h /\ \A g \in Hooks \ {h} : pc[g] = "idle"
         /\ hook[h].notice \in named[hook[h].txn]
         /\ txn[hook[h].txn] \in Txn
         /\ txn[hook[h].txn].status # "NONE"
         /\ txn[hook[h].txn].invoice \in Invoices
         /\ ask[h].invoice = txn[hook[h].txn].invoice
         /\ ask[h].amount = Booked(hook[h].txn, hook[h].notice)
         /\ ask[h].amount \in Int
         /\ ask[h].key = TxnKey[hook[h].txn]
<1>1. hook[h] \in Hook /\ hook[h].txn \in Txns
  BY DEF SettledInv, CheckoutTypeOK, Hook
<1>2. loop = h /\ \A g \in Hooks \ {h} : pc[g] = "idle"
  BY DEF SettledInv, HooksTakeTurns
<1>3. call[hook[h].txn] # "none" /\ hook[h].notice \in named[hook[h].txn]
  BY <1>1 DEF SettledInv, HooksTakeTurns, CheckoutInv, Started
<1>4. /\ txn[hook[h].txn] \in Txn
      /\ txn[hook[h].txn].status # "NONE"
      /\ txn[hook[h].txn].invoice \in Invoices
  BY <1>1, <1>3 DEF SettledInv, CheckoutInv, Started, RowsStarted
<1>5. /\ ask[h].invoice = txn[hook[h].txn].invoice
      /\ ask[h].amount = Booked(hook[h].txn, hook[h].notice)
      /\ ask[h].key = TxnKey[hook[h].txn]
      /\ ask[h].amount \in Int
  <2>1. ask[h] = [invoice |-> txn[hook[h].txn].invoice, key |-> TxnKey[hook[h].txn],
                  amount |-> Booked(hook[h].txn, hook[h].notice)]
    BY DEF SettledInv, HooksTakeTurns
  <2>2. Booked(hook[h].txn, hook[h].notice) \in Int
    BY <1>1, <1>3, BookedIsAmount DEF SettledInv
  <2>3. QED
    BY <2>1, <2>2
<1>6. QED
  BY <1>1, <1>2, <1>3, <1>4, <1>5, SessionsAssumption

\* A webhook that goes on, its request and row as they were, keeps its turn.
LEMMA KeepsTurn ==
  ASSUME SettledInv, NEW h \in Hooks, pc[h] # "idle",
         NEW at \in {"loaded", "recorded", "rejected"},
         pc' = [pc EXCEPT ![h] = at],
         hook' = hook \/ hook' = [hook EXCEPT ![h].loaded = "NONE"],
         UNCHANGED <<ask, loop, named, poll, acked, crashes>>, CheckoutInv',
         \A t \in Txns : /\ txn'[t].invoice = txn[t].invoice
                         /\ txn'[t].amount = txn[t].amount
  PROVE  /\ CheckoutTypeOK' /\ HooksTakeTurns' /\ TillsApart'
         /\ pc'[h] = at /\ \A g \in Hooks \ {h} : pc'[g] = "idle"
<1>1. pc \in [Sessions -> PcValues]
  BY DEF SettledInv, IInv, TypeOK
<1>2. pc'[h] = at /\ \A g \in Hooks \ {h} : pc'[g] = "idle"
  BY <1>1, WebhookFacts
<1>3. hook' = [g \in Hooks |-> hook'[g]] /\ \A g \in Hooks \ {h} : hook'[g] = hook[g]
  BY DEF SettledInv, HooksTakeTurns
<1>4. /\ hook'[h] \in Hook /\ hook'[h].txn = hook[h].txn
      /\ hook'[h].notice = hook[h].notice
  <2>1. hook[h] \in Hook
    BY WebhookFacts
  <2>2. CASE hook' = hook
    BY <2>1, <2>2
  <2>3. CASE hook' = [hook EXCEPT ![h].loaded = "NONE"]
    <3>1. hook'[h] = [hook[h] EXCEPT !.loaded = "NONE"]
      BY <2>3 DEF SettledInv, HooksTakeTurns
    <3>2. QED
      BY <2>1, <3>1 DEF Hook, TxnStatus
  <2>4. QED
    BY <2>2, <2>3
<1>5. CheckoutTypeOK'
  BY <1>2, <1>4 DEF SettledInv, CheckoutTypeOK, CheckoutInv
<1>6. HooksTakeTurns'
  <2>1. loop' = h /\ \A g \in Hooks \ {h} : loop' # g
    BY WebhookFacts
  <2>2. /\ hook'[h].notice \in named'[hook'[h].txn]
        /\ ask'[h] = [invoice |-> txn'[hook'[h].txn].invoice,
                      key |-> TxnKey[hook'[h].txn],
                      amount |-> Booked(hook[h].txn, hook[h].notice)']
    <3>1. /\ hook[h].notice \in named[hook[h].txn] /\ hook[h].txn \in Txns
          /\ ask[h] = [invoice |-> txn[hook[h].txn].invoice,
                       key |-> TxnKey[hook[h].txn],
                       amount |-> Booked(hook[h].txn, hook[h].notice)]
      BY WebhookFacts DEF SettledInv, HooksTakeTurns
    <3>2. Booked(hook[h].txn, hook[h].notice)' = Booked(hook[h].txn, hook[h].notice)
      BY <1>4, <3>1 DEF Booked
    <3>3. QED
      BY <1>4, <3>1, <3>2
  <2>3. \A g \in Hooks : /\ pc'[g] # "idle" <=> loop' = g
                         /\ pc'[g] # "aborted"
                         /\ pc'[g] # "idle" => g = h
    BY <1>2, <2>1
  <2>4. QED
    BY <1>3, <2>2, <2>3 DEF HooksTakeTurns
<1>7. TillsApart'
  BY DEF SettledInv, TillsApart
<1>8. QED
  BY <1>2, <1>5, <1>6, <1>7

\* The locking read of the webhook: with the invoice as honest as the ledger
\* keeps it, a rejection means that what remains is too little.
LEMMA WebhookLoadsSettles ==
  ASSUME SettledInv, IInv', CheckoutInv', NEW h \in Hooks, WebhookLoads(h)
  PROVE  SettledInv'
<1> DEFINE i == ask[h].invoice
           m == ask[h].amount
<1>1. /\ pc[h] = "checked"
      /\ pc' = [pc EXCEPT ![h] = IF Payable(i, m) THEN "loaded" ELSE "rejected"]
      /\ UNCHANGED <<rowLocks, paid, status, payments, ask>>
      /\ UNCHANGED checkoutVars
  BY DEF WebhookLoads, LoadInvoice, invoiceVars
<1>2. UNCHANGED <<txn, call, poll, gateway, reported, named, acked, hook, loop, crashes>>
  BY <1>1 DEF checkoutVars
<1>3. /\ CheckoutTypeOK' /\ HooksTakeTurns' /\ TillsApart'
      /\ pc'[h] = IF Payable(i, m) THEN "loaded" ELSE "rejected"
      /\ \A g \in Hooks \ {h} : pc'[g] = "idle"
  BY <1>1, <1>2, KeepsTurn
<1>4. \A k : KeyUsed(k)' <=> KeyUsed(k)
  BY <1>1 DEF KeyUsed
<1>5. ~KeyUsed(ask[h].key)
  BY <1>1 DEF SettledInv, WebhookKeyIsFree
<1>6. ~Payable(i, m) => m <= 0 \/ m > 10 * (Total[i] - paid[i])
  <2>1. i \in Invoices /\ m \in Int
    BY <1>1, WebhookFacts
  <2>2. paid[i] \in Int /\ Total[i] \in Int
    BY <2>1, TotalAssumption DEF SettledInv, IInv, TypeOK
  <2>3. status[i] = "PAID" => paid[i] = Total[i]
    BY <2>1 DEF SettledInv, IInv, StatusHonest
  <2> HIDE DEF i, m
  <2>4. QED
    BY <2>1, <2>2, <2>3 DEF Payable
<1>7. WebhookKeyIsFree'
  BY <1>1, <1>3, <1>4, <1>5 DEF WebhookKeyIsFree
<1>8. OutcomeIsTrue'
  <2>1. \A g \in Hooks : pc'[g] \in {"recorded", "replayed"} => FALSE
    BY <1>3
  <2>2. \A g \in Hooks : pc'[g] = "rejected" => g = h /\ ~Payable(i, m)
    BY <1>3
  <2>3. QED
    BY <1>1, <1>4, <1>5, <1>6, <2>1, <2>2 DEF OutcomeIsTrue
<1>9. RowsStarted'
  BY <1>2 DEF SettledInv, RowsStarted
<1>10. RowsAreReal' /\ LinksAreOwn' /\ AckedWasReported' /\ OkMeansSettled'
  BY <1>1, <1>2, NothingRecorded
<1>11. QED
  BY <1>3, <1>7, <1>8, <1>9, <1>10 DEF SettledInv

\* With real row locks the webhook does not lose its swap, so a lost swap
\* says nothing of the room on the invoice.
LEMMA WebhookLosesRaceSettles ==
  ASSUME SettledInv, IInv', CheckoutInv', NEW h \in Hooks, WebhookLosesRace(h)
  PROVE  SettledInv'
<1>1. /\ pc[h] = "loaded" /\ ~SwapMatches(h)
      /\ pc' = [pc EXCEPT ![h] = "rejected"]
      /\ hook' = [hook EXCEPT ![h].loaded = "NONE"]
      /\ UNCHANGED <<rowLocks, paid, status, payments, ask>>
      /\ UNCHANGED <<txn, call, poll, gateway, reported, named, acked, loop, crashes>>
  BY DEF WebhookLosesRace, LoseRace, invoiceVars, threadVars, gatewayVars
<1>2. ~rowLocks
  BY <1>1, SessionsAssumption DEF SettledInv, IInv, LockKeepsSnapshot, SwapMatches
<1>3. /\ CheckoutTypeOK' /\ HooksTakeTurns' /\ TillsApart'
      /\ pc'[h] = "rejected" /\ \A g \in Hooks \ {h} : pc'[g] = "idle"
  BY <1>1, KeepsTurn
<1>4. WebhookKeyIsFree' /\ OutcomeIsTrue'
  BY <1>1, <1>2, <1>3 DEF WebhookKeyIsFree, OutcomeIsTrue
<1>5. RowsStarted'
  BY <1>1 DEF SettledInv, RowsStarted
<1>6. RowsAreReal' /\ LinksAreOwn' /\ AckedWasReported' /\ OkMeansSettled'
  BY <1>1, NothingRecorded
<1>7. QED
  BY <1>3, <1>4, <1>5, <1>6 DEF SettledInv

\* A payment is recorded, by a webhook or at the till: the rows before it
\* stand, at most its key becomes used, and no balance falls.
LEMMA OneMoreRow ==
  ASSUME SettledInv, IInv', NEW s \in Sessions, RecordPayment(s)
  PROVE  /\ RowsStand
         /\ \A k : KeyUsed(k) => KeyUsed(k)'
         /\ \A k : KeyUsed(k)' => KeyUsed(k) \/ k = ask[s].key
         /\ ask[s].key # NoKey => KeyUsed(ask[s].key)'
         /\ \A n \in 1..Len(payments') :
               \/ n \in 1..Len(payments) /\ payments'[n] = payments[n]
               \/ payments'[n] = [invoice |-> ask[s].invoice, key |-> ask[s].key,
                                  amount |-> Cents(ask[s].amount)]
         /\ \A i \in Invoices : /\ paid[i] \in Nat /\ paid'[i] \in Nat
                                /\ paid'[i] >= paid[i]
         /\ ask[s].invoice \in Invoices /\ Cents(ask[s].amount) \in Nat
         /\ paid'[ask[s].invoice] = paid[ask[s].invoice] + Cents(ask[s].amount)
<1> DEFINE row == [invoice |-> ask[s].invoice, key |-> ask[s].key,
                   amount |-> Cents(ask[s].amount)]
<1>1. payments' = Append(payments, row) /\ row.key = ask[s].key
  BY DEF RecordPayment
<1>2. payments \in Seq(Payment)
  BY DEF SettledInv, IInv, TypeOK
<1> HIDE DEF row
<1>3. /\ Len(payments) \in Nat /\ Len(payments') = Len(payments) + 1
      /\ \A n \in 1..Len(payments) : payments'[n] = payments[n]
      /\ payments'[Len(payments) + 1] = row
  BY <1>1, <1>2
<1>4. RowsStand
  BY <1>3 DEF RowsStand
<1>5. \A n \in 1..Len(payments') :
         \/ n \in 1..Len(payments) /\ payments'[n] = payments[n]
         \/ payments'[n] = row
  BY <1>3
<1>6. /\ \A k : KeyUsed(k) => KeyUsed(k)'
      /\ \A k : KeyUsed(k)' => KeyUsed(k) \/ k = ask[s].key
  BY <1>1, <1>4, <1>5 DEF RowsStand, KeyUsed
<1>7. ask[s].key # NoKey => KeyUsed(ask[s].key)'
  <2>1. Len(payments) + 1 \in 1..Len(payments')
    BY <1>3
  <2>2. payments'[Len(payments) + 1].key = ask[s].key
    BY <1>1, <1>3
  <2>3. \E n \in 1..Len(payments') : payments'[n].key = ask[s].key
    BY <2>1, <2>2
  <2>4. ask' = ask
    BY DEF RecordPayment
  <2>5. QED
    BY <2>3, <2>4 DEF KeyUsed
<1>8. \A i \in Invoices : /\ paid[i] \in Nat /\ paid'[i] \in Nat
                          /\ paid'[i] >= paid[i]
  <2>1. /\ paid \in [Invoices -> Nat]
        /\ \E p \in Payment : paid' = [paid EXCEPT ![p.invoice] = @ + p.amount]
    BY RecordPosts DEF SettledInv, IInv, TypeOK
  <2>2. QED
    BY <2>1 DEF Payment
<1>9. /\ ask[s].invoice \in Invoices /\ Cents(ask[s].amount) \in Nat
      /\ paid'[ask[s].invoice] = paid[ask[s].invoice] + Cents(ask[s].amount)
  <2>1. PICK p \in Payment : /\ payments' = Append(payments, p)
                             /\ paid' = [paid EXCEPT ![p.invoice] = @ + p.amount]
    BY RecordPosts DEF SettledInv
  <2>2. p = row
    BY <1>1, <1>2, <1>3, <2>1
  <2>3. p.invoice = ask[s].invoice /\ p.amount = Cents(ask[s].amount)
    BY <2>2 DEF row
  <2>4. p.invoice \in Invoices /\ p.amount \in Nat /\ paid \in [Invoices -> Nat]
    BY DEF Payment, SettledInv, IInv, TypeOK
  <2>5. QED
    BY <2>1, <2>3, <2>4
<1>10. QED
  BY <1>4, <1>5, <1>6, <1>7, <1>8, <1>9 DEF row

\* What a recorded payment means for the transactions.  The room an invoice has
\* without the payment of a transaction itself never grows, so an amount that
\* did not fit once never does.
LEMMA RecordingSettles ==
  ASSUME SettledInv, IInv', NEW s \in Sessions, RecordPayment(s),
         UNCHANGED <<rowLocks, named, acked>>,
         \A t \in Txns : /\ txn'[t].invoice = txn[t].invoice
                         /\ txn'[t].amount = txn[t].amount
                         /\ txn'[t].payment = txn[t].payment,
         \A t \in Txns : ask[s].key = TxnKey[t] =>
             /\ ask[s].invoice = txn[t].invoice
             /\ \E a \in named[t] : ask[s].amount = Booked(t, a)
  PROVE  RowsAreReal' /\ LinksAreOwn' /\ AckedWasReported' /\ OkMeansSettled'
<1>1. RowsAreReal'
  <2>1. SUFFICES ASSUME NEW n \in 1..Len(payments'), NEW t \in Txns,
                        payments'[n].key = TxnKey[t]
        PROVE  /\ payments'[n].invoice = txn[t].invoice
               /\ \E a \in named[t] : payments'[n].amount = Cents(Booked(t, a))
    BY DEF RowsAreReal, Booked
  <2>2. CASE n \in 1..Len(payments) /\ payments'[n] = payments[n]
    BY <2>1, <2>2 DEF SettledInv, RowsAreReal
  <2>3. CASE payments'[n] = [invoice |-> ask[s].invoice, key |-> ask[s].key,
                             amount |-> Cents(ask[s].amount)]
    <3>1. ask[s].key = TxnKey[t]
      BY <2>1, <2>3
    <3>2. PICK a \in named[t] : ask[s].amount = Booked(t, a)
      BY <3>1
    <3>3. ask[s].invoice = txn[t].invoice
      BY <3>1
    <3>4. payments'[n].invoice = txn[t].invoice
          /\ payments'[n].amount = Cents(Booked(t, a))
      BY <2>3, <3>2, <3>3
    <3>5. QED
      BY <3>4
  <2>4. QED
    BY <2>2, <2>3, OneMoreRow
<1>2. \A t \in Txns : KeyUsed(TxnKey[t]) =>
         KeyUsed(TxnKey[t])' /\ PaymentOf(t)' = PaymentOf(t)
  BY OneMoreRow, PaymentOfStays DEF SettledInv, IInv
<1>3. LinksAreOwn'
  BY <1>2 DEF SettledInv, LinksAreOwn
<1>4. AckedWasReported'
  BY DEF SettledInv, AckedWasReported
<1>5. payments \in Seq(Payment) /\ payments' \in Seq(Payment)
  BY DEF SettledInv, IInv, TypeOK
<1>6. ASSUME NEW t \in Txns, txn[t].invoice \in Invoices
      PROVE  /\ OwnCredit(t) \in Nat /\ OwnCredit(t)' \in Nat
             /\ paid'[txn[t].invoice] - OwnCredit(t)'
                  >= paid[txn[t].invoice] - OwnCredit(t)
  <2> DEFINE i == txn[t].invoice
             k == TxnKey[t]
  <2>1. paid[i] \in Nat /\ paid'[i] \in Nat /\ paid'[i] >= paid[i]
    BY <1>6, OneMoreRow
  <2>2. CASE KeyUsed(k)
    <3> DEFINE n == PaymentOf(t)
    <3>0. \E x \in 1..Len(payments) : payments[x].key = TxnKey[t]
      BY <2>2 DEF KeyUsed
    <3>1. n \in 1..Len(payments)
      BY <2>2, <3>0 DEF PaymentOf
    <3>2. payments'[n] = payments[n] /\ payments[n].amount \in Nat
      <4>1. RowsStand
        BY OneMoreRow
      <4> HIDE DEF n
      <4>2. payments'[n] = payments[n] /\ payments[n] \in Payment
        BY <1>5, <3>1, <4>1 DEF RowsStand
      <4>3. QED
        BY <4>2 DEF Payment
    <3>3. OwnCredit(t) = payments[n].amount /\ OwnCredit(t)' = payments[n].amount
      BY <1>2, <2>2, <3>2 DEF OwnCredit
    <3> HIDE DEF n, i, k
    <3>4. QED
      BY <2>1, <3>2, <3>3 DEF i
  <2>3. CASE ~KeyUsed(k) /\ ask[s].key # k
    <3>1. ~KeyUsed(k)'
      BY <2>3, OneMoreRow
    <3>2. OwnCredit(t) = 0 /\ OwnCredit(t)' = 0
      BY <2>3, <3>1 DEF OwnCredit
    <3> HIDE DEF i, k
    <3>3. QED
      BY <2>1, <3>2 DEF i
  <2>4. CASE ~KeyUsed(k) /\ ask[s].key = k
    <3> DEFINE m == Cents(ask[s].amount)
               n == PaymentOf(t)'
    <3>1. KeyUsed(k)'
      <4>1. ask' = ask
        BY DEF RecordPayment
      <4>2. KeyUsed(ask[s].key)'
        BY <2>4, OneMoreRow, TxnKeysApart
      <4>3. QED
        BY <2>4, <4>1, <4>2 DEF KeyUsed
    <3>2. n \in 1..Len(payments') /\ payments'[n].key = k
      <4>1. \E x \in 1..Len(payments') : payments'[x].key = TxnKey[t]
        BY <3>1 DEF KeyUsed
      <4>2. QED
        BY <3>1, <4>1 DEF PaymentOf
    <3>3. ~(n \in 1..Len(payments) /\ payments'[n] = payments[n])
      BY <2>4, <3>2, TxnKeysApart DEF KeyUsed
    <3>4. payments'[n].amount = m
      <4>1. \A x \in 1..Len(payments') :
               \/ x \in 1..Len(payments) /\ payments'[x] = payments[x]
               \/ payments'[x] = [invoice |-> ask[s].invoice, key |-> ask[s].key,
                                  amount |-> Cents(ask[s].amount)]
        BY OneMoreRow
      <4> HIDE DEF n
      <4>2. payments'[n] = [invoice |-> ask[s].invoice, key |-> ask[s].key,
                            amount |-> Cents(ask[s].amount)]
        BY <3>2, <3>3, <4>1
      <4>3. QED
        BY <4>2
    <3>5. OwnCredit(t) = 0 /\ OwnCredit(t)' = m
      BY <2>4, <3>1, <3>4 DEF OwnCredit
    <3>6. m \in Nat /\ paid'[i] = paid[i] + m
      BY <2>4, OneMoreRow
    <3> HIDE DEF i, k, m, n
    <3>7. QED
      BY <2>1, <3>5, <3>6 DEF i
  <2>5. QED
    BY <2>2, <2>3, <2>4
<1>7. OkMeansSettled'
  <2>1. SUFFICES ASSUME rowLocks, NEW t \in Txns, NEW a \in NoticeAmounts,
                        <<t, a>> \in acked
        PROVE  \/ KeyUsed(TxnKey[t])' /\ txn'[t].payment = PaymentOf(t)'
               \/ Unpayable(t, Charged(t, a))'
    BY DEF OkMeansSettled
  <2>2. a \in named[t]
    BY <2>1 DEF SettledInv, AckedWasReported
  <2>3. txn[t].invoice \in Invoices
    BY <2>2, ReportedIsStarted DEF SettledInv, RowsStarted
  <2>4. Charged(t, a) \in Int /\ Charged(t, a)' = Charged(t, a)
    BY <2>2, BookedIsAmount DEF SettledInv, Booked, Charged
  <2>5. Unpayable(t, Charged(t, a)) => Unpayable(t, Charged(t, a))'
    <3> DEFINE i == txn[t].invoice
               m == Charged(t, a)
               own == OwnCredit(t)
               owned == OwnCredit(t)'
    <3>1. /\ own \in Nat /\ owned \in Nat /\ Total[i] \in Nat
          /\ paid[i] \in Nat /\ paid'[i] \in Nat
          /\ paid'[i] - owned >= paid[i] - own
      BY <1>6, <2>3, OneMoreRow, TotalAssumption
    <3>2. m <= 0 \/ m > 10 * (Total[i] - paid[i] + own)
             => m <= 0 \/ m > 10 * (Total[i] - paid'[i] + owned)
      <4> HIDE DEF i, m, own, owned
      <4> QED
        BY <2>4, <3>1 DEF m
    <3>3. QED
      BY <2>4, <3>2 DEF Unpayable
  <2>6. CASE KeyUsed(TxnKey[t]) /\ txn[t].payment = PaymentOf(t)
    BY <1>2, <2>6
  <2>7. QED
    BY <2>1, <2>5, <2>6 DEF SettledInv, OkMeansSettled
<1>8. QED
  BY <1>1, <1>3, <1>4, <1>7

\* The webhook records its transaction's payment, and only that one.
LEMMA WebhookRecordsSettles ==
  ASSUME SettledInv, IInv', CheckoutInv', NEW h \in Hooks, WebhookRecords(h)
  PROVE  SettledInv'
<1> DEFINE t == hook[h].txn
           st == Flushed(txn[t].status, hook[h].loaded, "PAID")
<1>1. /\ RecordPayment(h) /\ pc[h] = "loaded"
      /\ pc' = [pc EXCEPT ![h] = "recorded"]
      /\ txn' = [txn EXCEPT ![t].status = st]
      /\ hook' = [hook EXCEPT ![h].loaded = "NONE"]
      /\ UNCHANGED <<rowLocks, ask>>
      /\ UNCHANGED <<call, poll, gateway, reported, named, acked, loop, crashes>>
  BY DEF WebhookRecords, RecordPayment, threadVars, gatewayVars
<1>2. /\ h \in Sessions /\ t \in Txns /\ txn[t].status # "NONE"
      /\ hook[h].notice \in named[t] /\ ask[h].key = TxnKey[t]
      /\ ask[h].invoice = txn[t].invoice
      /\ ask[h].amount = Booked(t, hook[h].notice)
      /\ txn \in [Txns -> Txn]
  BY <1>1, WebhookFacts DEF SettledInv, CheckoutInv
<1>3. st # "NONE"
  BY <1>2 DEF Flushed
<1> HIDE DEF st, t
<1>4. \A u \in Txns : /\ txn'[u].invoice = txn[u].invoice
                      /\ txn'[u].amount = txn[u].amount
                      /\ txn'[u].payment = txn[u].payment
                      /\ txn'[u].polled = txn[u].polled
                      /\ txn[u].status # "NONE" => txn'[u].status # "NONE"
  BY <1>1, <1>2, <1>3 DEF Txn
<1>5. /\ CheckoutTypeOK' /\ HooksTakeTurns' /\ TillsApart'
      /\ pc'[h] = "recorded" /\ \A g \in Hooks \ {h} : pc'[g] = "idle"
  BY <1>1, <1>4, KeepsTurn
<1>6. WebhookKeyIsFree'
  BY <1>5 DEF WebhookKeyIsFree
<1>7. OutcomeIsTrue'
  <2>1. KeyUsed(ask[h].key)'
    BY <1>1, <1>2, OneMoreRow, TxnKeysApart
  <2>2. QED
    BY <1>1, <1>5, <2>1 DEF OutcomeIsTrue
<1>8. RowsStarted'
  BY <1>1, <1>4 DEF SettledInv, RowsStarted
<1>9. RowsAreReal' /\ LinksAreOwn' /\ AckedWasReported' /\ OkMeansSettled'
  <2>1. \A u \in Txns : ask[h].key = TxnKey[u] => u = t
    BY <1>2, TxnKeysApart
  <2>2. QED
    BY <1>1, <1>2, <1>4, <2>1, RecordingSettles
<1>10. QED
  BY <1>5, <1>6, <1>7, <1>8, <1>9 DEF SettledInv

\* The webhook answers Ok: what it recorded or found recorded is linked, and a
\* rejection says that the invoice has no room.
LEMMA WebhookAnswersSettles ==
  ASSUME SettledInv, IInv', CheckoutInv', NEW h \in Hooks, WebhookAnswersOk(h)
  PROVE  SettledInv'
<1> DEFINE t == hook[h].txn
           a == hook[h].notice
<1>1. /\ pc[h] \in {"recorded", "replayed", "rejected"}
      /\ pc' = [pc EXCEPT ![h] = "idle"]
      /\ ask' = [ask EXCEPT ![h] = NoRequest]
      /\ hook' = [hook EXCEPT ![h] = <<>>]
      /\ loop' = NoSession /\ acked' = acked \cup {<<t, a>>}
      /\ UNCHANGED <<rowLocks, paid, payments>>
      /\ UNCHANGED <<call, poll, gateway, reported, named, crashes>>
  BY DEF WebhookAnswersOk, CloseSession, invoiceVars, threadVars, gatewayVars
<1>2. /\ h \in Sessions /\ t \in Txns /\ txn[t].status # "NONE"
      /\ a \in named[t] /\ a \in NoticeAmounts /\ ask[h].key = TxnKey[t]
      /\ ask[h].invoice = txn[t].invoice /\ ask[h].amount = Booked(t, a)
      /\ Booked(t, a) = Charged(t, a)
      /\ txn \in [Txns -> Txn] /\ txn[t] \in Txn
      /\ \A g \in Hooks \ {h} : pc[g] = "idle"
  BY <1>1, WebhookFacts DEF SettledInv, CheckoutInv, Hook, Booked, Charged
<1>3. \A k : KeyUsed(k)' <=> KeyUsed(k)
  BY <1>1 DEF KeyUsed
<1>4. \A u : PaymentOf(u)' = PaymentOf(u)
  BY <1>1, <1>3 DEF PaymentOf
<1>5. /\ pc[h] \in {"recorded", "replayed"} => KeyUsed(TxnKey[t])
      /\ pc[h] = "rejected" /\ rowLocks => Unpayable(t, Charged(t, a))
  <2>1. pc[h] \in {"recorded", "replayed"} => KeyUsed(TxnKey[t])
    BY <1>2 DEF SettledInv, OutcomeIsTrue
  <2>2. ASSUME pc[h] = "rejected", rowLocks PROVE Unpayable(t, Charged(t, a))
    <3> DEFINE i == txn[t].invoice
    <3>1. /\ OwnCredit(t) = 0 /\ Total[i] \in Nat /\ paid[i] \in Nat
      BY <1>1, <1>2, <2>2, WebhookFacts, TotalAssumption
         DEF SettledInv, OutcomeIsTrue, OwnCredit, IInv, TypeOK
    <3>2. Total[i] - paid[i] + OwnCredit(t) = Total[i] - paid[i]
      BY <3>1
    <3>3. \/ Charged(t, a) <= 0
          \/ Charged(t, a) > 10 * (Total[i] - paid[i])
      BY <1>2, <2>2 DEF SettledInv, OutcomeIsTrue
    <3>4. QED
      BY <3>2, <3>3 DEF Unpayable
  <2>3. QED
    BY <2>1, <2>2
<1>6. /\ \A u \in Txns : /\ txn'[u].polled = txn[u].polled
                         /\ txn'[u].invoice = txn[u].invoice
                         /\ txn'[u].amount = txn[u].amount
                         /\ txn[u].status # "NONE" => txn'[u].status # "NONE"
      /\ \A u \in Txns \ {t} : txn'[u].payment = txn[u].payment
      /\ txn'[t].payment = IF pc[h] \in {"recorded", "replayed"}
                           THEN PaymentOf(t) ELSE txn[t].payment
  <2> DEFINE linked == [txn[t] EXCEPT !.payment = PaymentOf(t)]
             paidRow == [linked EXCEPT !.status =
                           Flushed(txn[t].status, hook[h].loaded, "PAID")]
             failedRow == [txn[t] EXCEPT !.status =
                           Flushed(txn[t].status, hook[h].loaded, "FAILED")]
  <2>1. \/ pc[h] = "recorded" /\ txn' = [txn EXCEPT ![t] = linked]
        \/ pc[h] = "replayed" /\ txn' = [txn EXCEPT ![t] = paidRow]
        \/ pc[h] = "rejected" /\ txn' = [txn EXCEPT ![t] = failedRow]
    BY <1>1 DEF WebhookAnswersOk
  <2>2. /\ linked.polled = txn[t].polled /\ linked.invoice = txn[t].invoice
        /\ linked.amount = txn[t].amount /\ linked.status = txn[t].status
        /\ linked.payment = PaymentOf(t)
    BY <1>2 DEF Txn
  <2>3. /\ paidRow.polled = linked.polled /\ paidRow.invoice = linked.invoice
        /\ paidRow.amount = linked.amount /\ paidRow.status # "NONE"
        /\ paidRow.payment = linked.payment
    <3>1. /\ Flushed(txn[t].status, hook[h].loaded, "PAID") # "NONE"
          /\ linked \in Txn
      BY <1>2, PaymentOfIsNat DEF Flushed, Txn
    <3> HIDE DEF linked
    <3>2. QED
      BY <3>1 DEF Txn
  <2>4. /\ failedRow.polled = txn[t].polled /\ failedRow.invoice = txn[t].invoice
        /\ failedRow.amount = txn[t].amount /\ failedRow.status # "NONE"
        /\ failedRow.payment = txn[t].payment
    <3>1. Flushed(txn[t].status, hook[h].loaded, "FAILED") # "NONE"
      BY <1>2 DEF Flushed
    <3>2. QED
      BY <1>2, <3>1 DEF Txn
  <2> HIDE DEF linked, paidRow, failedRow, t
  <2>5. QED
    BY <1>2, <2>1, <2>2, <2>3, <2>4
<1> HIDE DEF t, a
<1>7. \A g \in Hooks : pc'[g] = "idle"
  BY <1>1, <1>2 DEF SettledInv, IInv, TypeOK
<1>8. CheckoutTypeOK'
  BY <1>1, <1>2, <1>7 DEF SettledInv, CheckoutTypeOK, CheckoutInv
<1>9. HooksTakeTurns'
  BY <1>1, <1>7, NoSessionAssumption, SessionsAssumption DEF SettledInv, HooksTakeTurns
<1>10. TillsApart'
  <2>1. \A s \in Tills : ask'[s] = ask[s]
    BY <1>1, SessionsAssumption DEF SettledInv, IInv, TypeOK
  <2>2. QED
    BY <2>1 DEF SettledInv, TillsApart
<1>11. WebhookKeyIsFree' /\ OutcomeIsTrue'
  BY <1>7 DEF WebhookKeyIsFree, OutcomeIsTrue
<1>12. RowsStarted'
  <2>1. UNCHANGED <<call, poll, gateway>>
    BY <1>1
  <2>2. \A u \in Txns : /\ txn'[u].polled = txn[u].polled
                        /\ txn'[u].invoice = txn[u].invoice
                        /\ txn[u].status # "NONE" => txn'[u].status # "NONE"
    BY <1>6
  <2>3. QED
    BY <2>1, <2>2 DEF SettledInv, RowsStarted
<1>13. RowsAreReal'
  <2>1. UNCHANGED <<payments, named>>
    BY <1>1
  <2>2. \A u \in Txns : /\ txn'[u].invoice = txn[u].invoice
                        /\ txn'[u].amount = txn[u].amount
    BY <1>6
  <2>3. QED
    BY <2>1, <2>2 DEF SettledInv, RowsAreReal, Booked
<1>14. LinksAreOwn'
  BY <1>3, <1>4, <1>5, <1>6 DEF SettledInv, LinksAreOwn
<1>15. AckedWasReported'
  BY <1>1, <1>2 DEF SettledInv, AckedWasReported
<1>16. OkMeansSettled'
  <2>1. acked' = acked \cup {<<t, a>>} /\ rowLocks' = rowLocks
    BY <1>1
  <2>2. ASSUME rowLocks, NEW u \in Txns, NEW b \in NoticeAmounts, <<u, b>> \in acked'
        PROVE  \/ KeyUsed(TxnKey[u])' /\ txn'[u].payment = PaymentOf(u)'
               \/ Unpayable(u, Charged(u, b))'
    <3>1. /\ paid' = paid /\ payments' = payments
          /\ KeyUsed(TxnKey[u])' <=> KeyUsed(TxnKey[u])
          /\ PaymentOf(u)' = PaymentOf(u)
          /\ txn'[u].invoice = txn[u].invoice /\ txn'[u].amount = txn[u].amount
      BY <1>1, <1>2, <1>3, <1>4, <1>6, <2>1, <2>2
    <3>2. Unpayable(u, Charged(u, b)) => Unpayable(u, Charged(u, b))'
      BY <3>1 DEF Unpayable, OwnCredit, Charged
    <3>3. CASE u = t /\ pc[h] \in {"recorded", "replayed"}
      BY <1>5, <1>6, <3>1, <3>3
    <3>4. CASE u = t /\ pc[h] = "rejected"
      <4>1. CASE b = a
        BY <1>5, <2>2, <3>2, <3>4, <4>1
      <4>2. CASE b # a
        <5>1. <<u, b>> \in acked
          BY <2>1, <2>2, <4>2
        <5>2. txn'[u].payment = txn[u].payment
          BY <1>6, <3>4
        <5>3. QED
          BY <2>2, <3>1, <3>2, <5>1, <5>2 DEF SettledInv, OkMeansSettled
      <4>3. QED
        BY <4>1, <4>2
    <3>5. CASE u # t
      <4>1. <<u, b>> \in acked /\ txn'[u].payment = txn[u].payment
        BY <1>6, <2>1, <2>2, <3>5
      <4>2. QED
        BY <2>2, <3>1, <3>2, <4>1 DEF SettledInv, OkMeansSettled
    <3>6. QED
      BY <1>1, <3>3, <3>4, <3>5
  <2>3. QED
    BY <2>1, <2>2 DEF OkMeansSettled
<1>17. QED
  BY <1>8, <1>9, <1>10, <1>11, <1>12, <1>13, <1>14, <1>15, <1>16 DEF SettledInv

\* The till works beside the webhook: it never uses a transaction's key, and
\* it only takes room away from an invoice.
LEMMA TillSettles ==
  ASSUME SettledInv, IInv', CheckoutInv', NEW s \in Tills,
         \/ \E i \in Invoices \cup {UnknownInvoice}, amount \in Amounts,
               k \in TillKeys \cup {NoKey} : TillAsks(s, i, amount, k)
         \/ TillStep(s)
         \/ TillAnswers(s)
  PROVE  SettledInv'
<1>1. UNCHANGED <<txn, call, poll, gateway, reported, named, acked, hook, loop, crashes>>
  BY DEF TillAsks, TillStep, TillAnswers, checkoutVars
<1>2. s \in Sessions /\ \A h \in Hooks : h \in Sessions /\ h # s
  BY SessionsAssumption
<1>3. /\ pc \in [Sessions -> PcValues] /\ ask \in [Sessions -> Request]
  BY DEF SettledInv, IInv, TypeOK
<1>4. rowLocks' = rowLocks /\ \A u \in Sessions \ {s} : pc'[u] = pc[u] /\ ask'[u] = ask[u]
  BY <1>3 DEF TillAsks, TillStep, TillAnswers, CheckKey, InvoiceMissing, LoadInvoice,
     RecordPayment, LoseRace, KeyCollision, CloseSession
<1>5. ask'[s].key \in {ask[s].key} \cup TillKeys \cup {NoKey}
  BY <1>2, <1>3 DEF TillAsks, TillStep, TillAnswers, CheckKey, InvoiceMissing,
     LoadInvoice, RecordPayment, LoseRace, KeyCollision, CloseSession, NoRequest
<1>6. CheckoutTypeOK'
  BY <1>1, <1>2, <1>4 DEF SettledInv, CheckoutTypeOK, CheckoutInv
<1>7. HooksTakeTurns'
  BY <1>1, <1>2, <1>4 DEF SettledInv, HooksTakeTurns, Booked
<1>8. TillsApart'
  BY <1>4, <1>5, SessionsAssumption DEF SettledInv, TillsApart
<1>9. RowsStarted'
  BY <1>1 DEF SettledInv, RowsStarted
<1>10. ask[s].key \in TillKeys \cup {NoKey}
  BY DEF SettledInv, TillsApart
<1>11. CASE RecordPayment(s)
  <2>1. RowsAreReal' /\ LinksAreOwn' /\ AckedWasReported' /\ OkMeansSettled'
    <3>1. \A t \in Txns : ask[s].key # TxnKey[t]
      BY <1>10, TxnKeysApart
    <3>2. QED
      BY <1>1, <1>2, <1>4, <1>11, <3>1, RecordingSettles
  <2>2. \A h \in Hooks : pc[h] # "idle" =>
           /\ ask[h].key # ask[s].key /\ ask[h].invoice \in Invoices
           /\ ask[h].amount \in Int
    <3>1. SUFFICES ASSUME NEW h \in Hooks, pc[h] # "idle"
          PROVE  /\ ask[h].key # ask[s].key /\ ask[h].invoice \in Invoices
                 /\ ask[h].amount \in Int
      OBVIOUS
    <3>2. /\ hook[h].txn \in Txns /\ ask[h].key = TxnKey[hook[h].txn]
          /\ ask[h].invoice \in Invoices /\ ask[h].amount \in Int
      BY <3>1, WebhookFacts
    <3>3. QED
      BY <1>10, <3>2, TxnKeysApart
  <2>3. \A h \in Hooks : /\ pc'[h] = pc[h] /\ ask'[h] = ask[h]
                         /\ pc[h] # "idle" =>
                              (KeyUsed(ask[h].key)' <=> KeyUsed(ask[h].key))
    <3>1. SUFFICES ASSUME NEW h \in Hooks
          PROVE  /\ pc'[h] = pc[h] /\ ask'[h] = ask[h]
                 /\ pc[h] # "idle" => (KeyUsed(ask[h].key)' <=> KeyUsed(ask[h].key))
      OBVIOUS
    <3>2. pc'[h] = pc[h] /\ ask'[h] = ask[h]
      BY <1>2, <1>4
    <3> DEFINE k == ask[h].key
    <3>3. pc[h] # "idle" =>
            ((\E n \in 1..Len(payments') : payments'[n].key = k) <=>
             (\E n \in 1..Len(payments) : payments[n].key = k))
      <4>1. /\ RowsStand
            /\ \A n \in 1..Len(payments') :
                  \/ n \in 1..Len(payments) /\ payments'[n] = payments[n]
                  \/ payments'[n].key = ask[s].key
        <5> DEFINE row == [invoice |-> ask[s].invoice, key |-> ask[s].key,
                           amount |-> Cents(ask[s].amount)]
        <5>1. /\ RowsStand
              /\ \A n \in 1..Len(payments') :
                    \/ n \in 1..Len(payments) /\ payments'[n] = payments[n]
                    \/ payments'[n] = row
          BY <1>2, <1>11, OneMoreRow
        <5>2. row.key = ask[s].key
          OBVIOUS
        <5> HIDE DEF row
        <5>3. QED
          BY <5>1, <5>2
      <4>2. pc[h] # "idle" => k # ask[s].key
        BY <2>2
      <4> HIDE DEF k
      <4>3. QED
        BY <4>1, <4>2 DEF RowsStand
    <3>4. QED
      BY <3>2, <3>3 DEF KeyUsed
  <2>4. WebhookKeyIsFree'
    BY <2>3 DEF SettledInv, WebhookKeyIsFree
  <2>5. OutcomeIsTrue'
    <3>1. ASSUME NEW h \in Hooks, pc[h] = "rejected", rowLocks
          PROVE  \/ ask[h].amount <= 0
                 \/ ask[h].amount > 10 * (Total[ask[h].invoice] - paid'[ask[h].invoice])
      <4> DEFINE i == ask[h].invoice
                 m == ask[h].amount
      <4>1. m <= 0 \/ m > 10 * (Total[i] - paid[i])
        BY <3>1 DEF SettledInv, OutcomeIsTrue
      <4>2. i \in Invoices /\ m \in Int
        BY <2>2, <3>1
      <4>3. paid[i] \in Nat /\ paid'[i] \in Nat /\ paid'[i] >= paid[i]
        BY <1>2, <1>11, <4>2, OneMoreRow
      <4>4. Total[i] \in Nat
        BY <4>2, TotalAssumption
      <4> HIDE DEF i, m
      <4>5. m <= 0 \/ m > 10 * (Total[i] - paid'[i])
        BY <4>1, <4>2, <4>3, <4>4
      <4>6. QED
        BY <4>5 DEF i, m
    <3>2. QED
      BY <1>4, <2>3, <3>1 DEF SettledInv, OutcomeIsTrue
  <2>6. QED
    BY <1>6, <1>7, <1>8, <1>9, <2>1, <2>4, <2>5 DEF SettledInv
<1>12. CASE ~RecordPayment(s)
  <2>1. UNCHANGED <<paid, payments>>
    BY <1>12 DEF TillAsks, TillStep, TillAnswers, CheckKey, InvoiceMissing, LoadInvoice,
       LoseRace, KeyCollision, CloseSession, invoiceVars
  <2>2. \A h \in Hooks : KeyUsed(ask[h].key)' <=> KeyUsed(ask[h].key)
    BY <1>2, <1>4, <2>1 DEF KeyUsed
  <2>3. WebhookKeyIsFree' /\ OutcomeIsTrue'
    BY <1>2, <1>4, <2>1, <2>2 DEF SettledInv, WebhookKeyIsFree, OutcomeIsTrue
  <2>4. RowsAreReal' /\ LinksAreOwn' /\ AckedWasReported' /\ OkMeansSettled'
    BY <1>1, <1>4, <2>1, NothingRecorded
  <2>5. QED
    BY <1>6, <1>7, <1>8, <1>9, <2>3, <2>4 DEF SettledInv
<1>13. QED
  BY <1>11, <1>12

\* The death of the process drops the requests; what they committed stays.
LEMMA ProcessDiesSettles ==
  ASSUME SettledInv, IInv', CheckoutInv', ProcessDies
  PROVE  SettledInv'
<1>1. /\ \A s \in Sessions : pc'[s] = "idle" /\ ask'[s] = NoRequest
      /\ hook' = [h \in Hooks |-> <<>>] /\ loop' = NoSession
      /\ poll' = [t \in Txns |-> "none"]
      /\ crashes < MaxCrashes /\ crashes' = crashes + 1
      /\ UNCHANGED <<rowLocks, paid, payments, txn, gateway, reported, named, acked>>
      /\ call' = [t \in Txns |-> IF call[t] = "calling" THEN "over" ELSE call[t]]
  BY DEF ProcessDies, Crash, invoiceVars, gatewayVars
<1>2. \A h \in Hooks : pc'[h] = "idle" /\ h # NoSession
  BY <1>1, SessionsAssumption, NoSessionAssumption
<1>3. crashes' \in 0..MaxCrashes
  BY <1>1, CrashBoundAssumption DEF SettledInv, CheckoutTypeOK
<1>4. CheckoutTypeOK'
  BY <1>1, <1>2, <1>3 DEF SettledInv, CheckoutTypeOK, CheckoutInv
<1>5. RowsStarted'
  BY <1>1 DEF SettledInv, RowsStarted
<1>6. HooksTakeTurns' /\ WebhookKeyIsFree' /\ OutcomeIsTrue'
  BY <1>1, <1>2 DEF HooksTakeTurns, WebhookKeyIsFree, OutcomeIsTrue
<1>7. TillsApart'
  BY <1>1, SessionsAssumption DEF TillsApart, NoRequest
<1>8. RowsAreReal' /\ LinksAreOwn' /\ AckedWasReported' /\ OkMeansSettled'
  BY <1>1, NothingRecorded
<1>9. QED
  BY <1>4, <1>5, <1>6, <1>7, <1>8 DEF SettledInv

\* Every step of the service keeps the invariant.
LEMMA SettledStep ==
  ASSUME SettledInv, [CheckoutNext]_allVars
  PROVE  SettledInv'
<1>1. CheckoutInv' /\ IInv'
  BY CheckoutStep, StepInv DEF SettledInv
<1>2. CASE UNCHANGED allVars
  <2>1. UNCHANGED <<vars, hook, loop, acked>> /\ UNCHANGED <<txn, named>>
    BY <1>2 DEF allVars, checkoutVars
  <2>2. /\ HooksTakeTurns' /\ TillsApart' /\ WebhookKeyIsFree' /\ OutcomeIsTrue'
        /\ RowsAreReal' /\ LinksAreOwn' /\ AckedWasReported' /\ OkMeansSettled'
    BY <2>1, RowsMove
  <2>3. CheckoutTypeOK' /\ RowsStarted'
    BY <1>1, <1>2 DEF allVars, vars, checkoutVars, SettledInv, CheckoutTypeOK, RowsStarted
  <2>4. QED
    BY <1>1, <2>2, <2>3 DEF SettledInv
<1>3. CASE CheckoutNext
  <2>1. ASSUME NEW h \in Hooks, WebhookStep(h) PROVE SettledInv'
    BY <1>1, <2>1, WebhookLoadsSettles, WebhookRecordsSettles,
       WebhookLosesRaceSettles, WebhookAnswersSettles DEF WebhookStep
  <2>2. QED
    BY <1>1, <1>3, <2>1, RowsInv, WebhookPaidSettles, TillSettles,
       ProcessDiesSettles DEF CheckoutNext
<1>4. QED
  BY <1>2, <1>3

\* The invariant holds of every behaviour of the service.
LEMMA AlwaysSettled == CheckoutSpec => []SettledInv
BY SettledInitInv, SettledStep, PTL DEF CheckoutSpec

-----------------------------------------------------------------------------

\* Whatever the gateway repeats and wherever the process dies, a payment under
\* a transaction's key is money the gateway reported paid, booked on the
\* invoice the checkout was started for and with the amount a PAID notice for
\* it names, and a transaction is linked to its own payment only.
THEOREM BookedMoneyIsReal == CheckoutSpec => []MoneyIsReal
<1>1. ASSUME SettledInv PROVE MoneyIsReal
  <2>1. CheckoutTypeOK
    BY <1>1 DEF SettledInv
  <2>2. ASSUME NEW t \in Txns, KeyUsed(TxnKey[t])
        PROVE  /\ payments[PaymentOf(t)].invoice = txn[t].invoice
               /\ \E a \in named[t] :
                     payments[PaymentOf(t)].amount = Cents(Charged(t, a))
    <3>1. /\ PaymentOf(t) \in 1..Len(payments)
          /\ payments[PaymentOf(t)].key = TxnKey[t]
      BY <2>2 DEF PaymentOf, KeyUsed
    <3>2. QED
      BY <1>1, <3>1 DEF SettledInv, RowsAreReal, Booked, Charged
  <2>3. \A t \in Txns : txn[t].payment # 0 => txn[t].payment = PaymentOf(t)
    BY <1>1 DEF SettledInv, LinksAreOwn
  <2>4. QED
    BY <2>1, <2>2, <2>3 DEF MoneyIsReal
<1>2. QED
  BY <1>1, AlwaysSettled, PTL

\* With real row locks the gateway is told Ok, and stops, only when the payment
\* is recorded and linked or the amount named does not, and never will, fit the
\* invoice, through notices that name different amounts, crashes between the two commits and cash payments racing for the
\* same balance.
THEOREM OkIsFinal == CheckoutSpec => []OkMeansSettled
BY AlwaysSettled, PTL DEF SettledInv

\* The unique index never refuses a webhook: the key it looked up stays free
\* until it records under it, so the handler needs no path for that error.
THEOREM WebhookNeverCollides == CheckoutSpec => []WebhookKeyIsFree
BY AlwaysSettled, PTL DEF SettledInv
===============================================================================
