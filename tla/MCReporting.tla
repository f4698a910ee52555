------------------------------ MODULE MCReporting ------------------------------
(* One behaviour is about the reporting service, with two events of one       *)
(* school and one of another that nobody can count, about the gateway's       *)
(* breaker for one service behind it, or about the outbox of announcements.   *)
EXTENDS ReportingPipeline, GatewayBreaker, Deliveries, TLC
CONSTANTS school1, school2, good1, good2, poison, inApp
VARIABLE focus
all == <<vars, gateway, delivery, focus>>

MCSchoolOf == good1 :> school1 @@ good2 :> school1 @@ poison :> school2
MCKindOf == good1 :> "good" @@ good2 :> "good" @@ poison :> "poison"

MCInit == ReportingInit /\ GatewayInit /\ DeliveryInit /\ focus \in {"reporting", "gateway", "outbox"}
\* Entries are handed out twice at most and count to the worker's limit; one of them is in the
\* application, the other, which is the one that is retried, is not an SMS, which is treated
\* like a WhatsApp message without reports; one good report is enough.
Bounds ==
    /\ \A o \in Outbox : handed[o] <= 2
    /\ \A o \in Known : /\ row[o].channel # "SMS" /\ (row[o].channel = "IN_APP" <=> o = inApp)
                        /\ row[o].retries <= MaxTries
    /\ \A m \in Messages : message[m] # Missing => message[m].last # "read"
    /\ Known \in {{}, Outbox} /\ handed[inApp] <= 1
    /\ \A a \in Admins : retry[a] # Missing => retry[a].of # inApp
Report(A) == focus = "reporting" /\ A /\ UNCHANGED <<gateway, delivery, focus>>
Gate(A) == focus = "gateway" /\ A /\ UNCHANGED <<vars, delivery, focus>>
Deliver(A) == focus = "outbox" /\ A /\ UNCHANGED <<vars, gateway, focus>>
MCNext == Report(ReportingNext) \/ Gate(GatewayNext) \/ Deliver(DeliveryNext /\ Bounds')

\* What ReportingFairSpec and GatewayFairSpec assume.
MCFairness ==
    /\ WF_all(Report(Consumes)) /\ <>[][~Report(ConsumerRestarts)]_all
    /\ WF_all(Gate(Cools)) /\ WF_all(Gate(Asked))
    /\ \A k \in Calls : WF_all(Gate(Answers(k)))
    /\ <>[][~Gate(ServiceDown)]_all
MCSpec == MCInit /\ [][MCNext]_all /\ MCFairness
===============================================================================
