--------------------------------- MODULE FeeDesk ---------------------------------
(* Fee structures and invoices of the finance service: the CSV import that    *)
(* replaces the items of a structure, and create_invoice, which bills a       *)
(* student once per structure at what its items add up to.  A structure's     *)
(* items are modelled by their sum, 0 when there are none.                    *)
EXTENDS Integers, FiniteSets, Handlers
CONSTANTS Structures, Payers, Invoices, InvoiceKeys, NoInvoiceKey, MaxPrice

InvoiceRow == [pupil : Payers, structure : Structures, key : InvoiceKeys \cup {NoInvoiceKey},
               total : Nat]
ASSUME FeeDeskAssumption ==
    MaxPrice \in Nat /\ NoInvoiceKey \notin InvoiceKeys /\ NoRow \notin InvoiceRow

VARIABLES price,      \* structure -> sum of its items
          priced,     \* history: the sums a structure has had
          invoice,    \* the rows of invoices
          answers     \* history: key -> invoices answered to requests with it
billing == <<price, priced, invoice, answers>>

FeeDeskInit ==
    /\ price = [s \in Structures |-> NoRow] /\ priced = [s \in Structures |-> {}]
    /\ invoice = [v \in Invoices |-> NoRow] /\ answers = [k \in InvoiceKeys |-> {}]

\* A file or a form commits a structure with all its items at once.
ImportStructure(s, n) ==
    /\ price' = [price EXCEPT ![s] = n] /\ priced' = [priced EXCEPT ![s] = @ \cup {n}]
    /\ UNCHANGED <<invoice, answers, callers>>

Under(k) == {v \in Created(invoice) : k # NoInvoiceKey /\ invoice[v].key = k}
BilledFor(p, s) == {v \in Created(invoice) : invoice[v].pupil = p /\ invoice[v].structure = s}
Answered(k, v) == IF k = NoInvoiceKey THEN answers ELSE [answers EXCEPT ![k] = @ \cup {v}]

\* A key that is known is answered with its invoice, whatever else is asked.
ReplayInvoice(k, v) ==
    /\ v \in Under(k)
    /\ answers' = Answered(k, v)
    /\ UNCHANGED <<price, priced, invoice, callers>>
ReadForInvoice(c, p, s, k) ==
    /\ Under(k) = {} /\ BilledFor(p, s) = {}
    /\ price[s] # NoRow /\ price[s] > 0
    /\ Reads(c, [op |-> "invoice", on |-> {}, pupil |-> p, structure |-> s, key |-> k,
                  total |-> price[s]])
    /\ UNCHANGED billing

\* Slips: one of the two unique keys is missing.
OnlyPupil(p, s, k) == BilledFor(p, s) = {}
OnlyKey(p, s, k) == Under(k) = {}
Unbilled(p, s, k) == BilledFor(p, s) = {} /\ Under(k) = {}

CreateInvoice(c, v) ==
    LET r == request[c]
    IN /\ r.op = "invoice" /\ invoice[v] = NoRow /\ Unbilled(r.pupil, r.structure, r.key)
       /\ invoice' = [invoice EXCEPT ![v] = [pupil |-> r.pupil, structure |-> r.structure,
                                              key |-> r.key, total |-> r.total]]
       /\ answers' = Answered(r.key, v)
       /\ UNCHANGED <<price, priced>> /\ Ends(c)

FeeDeskNext ==
    \/ \E s \in Structures, n \in 0..MaxPrice : ImportStructure(s, n)
    \/ \E k \in InvoiceKeys, v \in Invoices : ReplayInvoice(k, v)
    \/ \E c \in Callers :
          \/ \E p \in Payers, s \in Structures, k \in InvoiceKeys \cup {NoInvoiceKey} :
                ReadForInvoice(c, p, s, k)
          \/ \E v \in Invoices : CreateInvoice(c, v)
          \/ GivesUp(c) /\ UNCHANGED billing

------------------------------------------------------------------------------
\* However requests and imports overlap: a student is billed once per structure, a key
\* always answers one invoice, and an invoice asks what the structure as a whole cost at
\* some moment, never half an import and never nothing.
InvoicesAgree ==
    /\ \A p \in Payers, s \in Structures : Cardinality(BilledFor(p, s)) <= 1
    /\ \A k \in InvoiceKeys : Cardinality(answers[k]) <= 1 /\ answers[k] \subseteq Under(k)
    /\ \A v \in Created(invoice) :
          invoice[v].total > 0 /\ invoice[v].total \in priced[invoice[v].structure]
===============================================================================
