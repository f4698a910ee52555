------------------------------- MODULE Deliveries -------------------------------
(* The outbox of announcements and those who work it off: the communication   *)
(* service's own delivery engine, the notification worker with its database   *)
(* connection, the reports that WhatsApp sends about its messages, and the    *)
(* administrator who has a failed entry tried again.  Whoever works off the   *)
(* outbox reads what is pending, hands it out entry by entry and commits what *)
(* became of all of it at the end: a batch that dies is rolled back, what it  *)
(* handed out is not.  The service and the worker share one table and write   *)
(* no lock into it.                                                           *)
EXTENDS Integers, FiniteSets
CONSTANTS Outbox, Messages, Workers, Admins, Missing,
          MaxRetries,    \* of the service
          MaxTries       \* of the worker, which is the more patient

Channels == {"IN_APP", "SMS", "WHATSAPP", "EMAIL"}
Reports == {"delivered", "read", "failed", "warning"}
OutboxRow ==
    [channel : Channels, status : {"PENDING", "SENT", "DELIVERED", "FAILED"}, retries : Nat]
\* A retry an administrator asked for: its entry, and the count it read.
Retry == [of : Outbox, count : Nat]
MessageRow == [of : Outbox, by : Workers \cup {Missing}, last : Reports \cup {"none"}]

ASSUME DeliveryAssumption ==
    /\ MaxRetries \in Nat \ {0} /\ MaxTries \in Nat /\ MaxRetries <= MaxTries
    /\ Missing \notin Workers \cup OutboxRow \cup MessageRow \cup Retry

VARIABLES row,        \* entry of the outbox -> its row
          batch,      \* worker -> the batch in flight
          message,    \* WhatsApp message -> its entry, and whose commit its row waits for
          retry,      \* administrator -> the retry in flight
          handed,     \* history: how often an entry was handed out with success
          again,      \* history: entries that were handed out in a batch that died, in two
                      \* at once, or by an administrator's wish
          stale       \* history: entries whose last retry found no count to reset, though
                      \* there was one when it wrote
delivery == <<row, batch, message, retry, handed, again, stale>>

NoBatch == [by |-> "nobody", todo |-> {}, result |-> << >>]

DeliveryInit ==
    /\ row = [o \in Outbox |-> Missing] /\ batch = [w \in Workers |-> NoBatch]
    /\ message = [m \in Messages |-> Missing]
    /\ retry = [a \in Admins |-> Missing]
    /\ handed = [o \in Outbox |-> 0] /\ again = {} /\ stale = {}

Known == {o \in Outbox : row[o] # Missing}
InFlight(w) == DOMAIN batch[w].result \cup batch[w].todo

\* An announcement comes with the entries of all its recipients and channels.
CreateAnnouncement(channelOf) ==
    /\ \A o \in DOMAIN channelOf : row[o] = Missing
    /\ row' = [o \in Outbox |-> IF o \in DOMAIN channelOf
                                THEN [channel |-> channelOf[o], status |-> "PENDING", retries |-> 0]
                                ELSE row[o]]
    /\ UNCHANGED <<batch, message, retry, handed, again, stale>>

\* The worker does not look at what it gave up; the service takes everything that is pending.
Pending(by) ==
    {o \in Known : row[o].status = "PENDING" /\ (by = "worker" => row[o].retries < MaxTries)}
ReadPending(w, by) ==
    /\ batch[w] = NoBatch /\ Pending(by) # {}
    /\ batch' = [batch EXCEPT ![w] = [by |-> by, todo |-> Pending(by), result |-> << >>,
                                      seen |-> [o \in Pending(by) |-> row[o]]]]
    /\ again' = again \cup (Pending(by) \cap UNION {InFlight(v) : v \in Workers})
    /\ UNCHANGED <<row, message, retry, handed, stale>>

\* What may become of one entry: it is handed out, it is not, or there is nobody to have it,
\* which the worker asks of every channel and the service of none.
Outcomes(by, channel) ==
    CASE channel = "IN_APP" -> IF by = "worker" THEN {"out", "gone"} ELSE {"out"}
      [] channel = "EMAIL"  -> IF by = "worker" THEN {"out", "not", "gone"} ELSE {"not"}
      [] channel \in {"SMS", "WHATSAPP"} ->
            IF by = "worker" THEN {"not", "gone"} ELSE {"out", "not"}
\* A WhatsApp message has an id of the provider's, and its row waits for the commit.
AttemptDelivery(w, o, result, m) ==
    LET b == batch[w]
        whatsapp == b.seen[o].channel = "WHATSAPP" /\ result = "out"
    IN /\ b # NoBatch /\ o \in b.todo /\ result \in Outcomes(b.by, b.seen[o].channel)
       /\ batch' = [batch EXCEPT ![w] =
              [by |-> b.by, seen |-> b.seen, todo |-> b.todo \ {o},
               result |-> [x \in DOMAIN b.result \cup {o} |->
                               IF x = o THEN result ELSE b.result[x]]]]
       /\ handed' = [handed EXCEPT ![o] = IF result = "out" THEN @ + 1 ELSE @]
       /\ IF whatsapp
          THEN /\ message[m] = Missing
               /\ message' = [message EXCEPT ![m] = [of |-> o, by |-> w, last |-> "none"]]
          ELSE UNCHANGED message
       /\ UNCHANGED <<row, retry, again, stale>>

\* Slip: the service counts a try although it has given up already.
TriedForever(seen) == [status |-> "PENDING", retries |-> seen.retries + 1]
\* The service gives up an entry after MaxRetries tries.
TriedByService(seen) ==
    [status |-> IF seen.retries + 1 >= MaxRetries THEN "FAILED" ELSE "PENDING",
     retries |-> seen.retries + 1]
\* The worker counts further, and does not count when there is nobody.
TriedByWorker(seen, result) ==
    CASE result = "gone" -> [status |-> "FAILED", retries |-> seen.retries]
      [] OTHER -> [status |-> IF seen.retries + 1 >= MaxTries THEN "FAILED" ELSE "PENDING",
                   retries |-> seen.retries + 1]
\* The service writes the columns that differ from what it read, the worker writes what its
\* statements say: an entry that is delivered, or has nobody, keeps its count.
AfterBatch(now, seen, by, result) ==
    CASE by = "service" /\ result = "out" -> [now EXCEPT !.status = "SENT"]
      [] by = "service" /\ result # "out" ->
            LET new == TriedByService(seen)
            IN [now EXCEPT !.retries = new.retries,
                           !.status = IF new.status = seen.status THEN @ ELSE new.status]
      [] by = "worker" /\ result = "out" -> [now EXCEPT !.status = "DELIVERED"]
      [] OTHER ->
            LET new == TriedByWorker(seen, result)
            IN [now EXCEPT !.status = new.status,
                           !.retries = IF result = "gone" THEN @ ELSE new.retries]
OfBatch(m, w) == message[m] # Missing /\ message[m].by = w
CommitBatch(w) ==
    LET b == batch[w]
    IN /\ b # NoBatch /\ b.todo = {}
       /\ row' = [o \in Outbox |->
              IF o \in DOMAIN b.result THEN AfterBatch(row[o], b.seen[o], b.by, b.result[o])
              ELSE row[o]]
       /\ message' = [m \in Messages |-> IF OfBatch(m, w)
                                         THEN [message[m] EXCEPT !.by = Missing] ELSE message[m]]
       /\ batch' = [batch EXCEPT ![w] = NoBatch]
       /\ UNCHANGED <<retry, handed, again, stale>>
\* An exception or the death of the process: everything is rolled back, and read again later.
\* Of a message that went out no row is left, and a report about it finds none.
LoseBatch(w) ==
    /\ batch[w] # NoBatch
    /\ batch' = [batch EXCEPT ![w] = NoBatch]
    /\ again' = again \cup {o \in DOMAIN batch[w].result : batch[w].result[o] = "out"}
    /\ message' = [m \in Messages |-> IF OfBatch(m, w) THEN Missing ELSE message[m]]
    /\ UNCHANGED <<row, retry, handed, stale>>

\* Slip: a report of a failure stays with the message.
OnlyGood(report, status) == IF report \in {"delivered", "read"} THEN "SENT" ELSE status
ClassifyStatus(report, status) ==
    CASE report \in {"delivered", "read"} -> "SENT"
      [] report = "failed"                -> "FAILED"
      [] OTHER                            -> status
\* Reports come in any order and more than once, and on the event loop one at a time.  One
\* about a message whose row is not there is thanked for and dropped.
WhatsAppCallback(m, report) ==
    /\ message[m] # Missing /\ message[m].by = Missing /\ message[m].last # report
    /\ message' = [message EXCEPT ![m].last = report]
    /\ row' = [row EXCEPT ![message[m].of].status = ClassifyStatus(report, @)]
    /\ UNCHANGED <<batch, retry, handed, again, stale>>

\* Slip: the entry starts where it stopped.
CountKept(count) == count
\* A failed entry is tried again from the start.
CountReset(count) == 0
\* The handler runs in the thread pool and locks nothing: it reads the entry,
ReadRetry(a, o) ==
    /\ retry[a] = Missing /\ o \in Known /\ row[o].status = "FAILED"
    /\ retry' = [retry EXCEPT ![a] = [of |-> o, count |-> row[o].retries]]
    /\ UNCHANGED <<row, batch, message, handed, again, stale>>
\* and its commit writes the status, and the count only if it read another one.
CommitRetry(a) ==
    LET o == retry[a].of
        reset == CountReset(retry[a].count)
    IN /\ retry[a] # Missing
       /\ row' = [row EXCEPT ![o].status = "PENDING",
                             ![o].retries = IF retry[a].count = reset THEN @ ELSE reset]
       /\ retry' = [retry EXCEPT ![a] = Missing]
       /\ again' = again \cup {o}
       /\ stale' = IF retry[a].count = 0 /\ row[o].retries # 0 THEN stale \cup {o} ELSE stale \ {o}
       /\ UNCHANGED <<batch, message, handed>>

DeliveryNext ==
    \/ \E some \in SUBSET Outbox \ {{}} : \E f \in [some -> Channels] : CreateAnnouncement(f)
    \/ \E w \in Workers :
          \/ \E by \in {"service", "worker"} : ReadPending(w, by)
          \/ \E o \in Outbox, result \in {"out", "not", "gone"}, m \in Messages :
                AttemptDelivery(w, o, result, m)
          \/ CommitBatch(w) \/ LoseBatch(w)
    \/ \E m \in Messages, report \in Reports : WhatsAppCallback(m, report)
    \/ \E a \in Admins : CommitRetry(a) \/ \E o \in Outbox : ReadRetry(a, o)
DeliverySpec == DeliveryInit /\ [][DeliveryNext]_delivery

------------------------------------------------------------------------------
\* Whatever overlaps, an entry that is pending is one the worker still picks up, unless its
\* last retry was stale; and none is shown as sent or delivered that was never handed out.
\* Unless a batch with it died, two had it at once or an administrator asked for it, an entry
\* is handed out at most once, and says what the last report about its message says.
DeliveriesAgree ==
    \A o \in Known :
        /\ o \notin stale /\ row[o].status = "PENDING" => row[o].retries < MaxTries
        /\ row[o].status \in {"SENT", "DELIVERED"} => handed[o] > 0
        /\ o \notin again =>
              /\ handed[o] <= 1
              /\ \A m \in {x \in Messages : message[x] # Missing /\ message[x].of = o} :
                    /\ message[m].last \in {"delivered", "read"} => row[o].status = "SENT"
                    /\ message[m].last = "failed" => row[o].status = "FAILED"
===============================================================================
