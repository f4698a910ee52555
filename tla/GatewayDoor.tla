------------------------------- MODULE GatewayDoor -------------------------------
(* What the gateway does to a request before and after it forwards it: the    *)
(* permission, the rate limit in Redis, the service it goes to, the metrics;  *)
(* and its readiness answer, kept for a while.  The limiter counts a request   *)
(* in a window fixed by the clock read just before, in one step of Redis that  *)
(* processes of the gateway share.  Cookies and headers are left out, internal *)
(* paths (404, not counted), an admin's passing every check and the test mode  *)
(* without a limiter, too; the outcome of forwarding is any (GatewayBreaker).  *)
EXTENDS Integers, Sequences, FiniteSets
CONSTANTS
    Visits,         \* requests
    Callers,        \* token holders; a request may come without a token
    Anonymous, Unset,
    Limit,          \* Limit[kind] of "login", "sync" and "default"
    Window, MaxClock, ReadinessTTL,
    Services        \* services behind the gateway, in the order they are probed

VARIABLES
    clock,
    bucket,     \* requests counted under a key in a window
    visit,      \* Unset, or where a request is and how it was answered
    through,    \* history: requests let through per key, window and kind
    metrics,    \* answers recorded, rate limit blocks and downstream errors
    probing, readiness,     \* each /ready that probes; the cached answer and its time
    served      \* history: is every service's state in a served answer recent enough?
door == <<clock, bucket, visit, through, metrics, probing, readiness, served>>

(* Paths, by the prefixes of the two tables they start with; the tables are   *)
(* ordered and the first prefix that fits decides, so that the prefix of the   *)
(* messages takes the comment bank's paths, too.                              *)
Prefixes ==
    [login |-> {"/auth"}, sync |-> {"/attendance"}, feed |-> {"/comm"},
     bank |-> {"/comm", "/comment-bank"}, nowhere |-> {}]
Paths == DOMAIN Prefixes
First(table, path) == SelectSeq(table, LAMBDA row : row[1] \in Prefixes[path])
RBAC_MAP == << <<"/auth", "public">>, <<"/attendance", "attendance:write">>,
               <<"/comm", "comm:read">>, <<"/comment-bank", "authenticated">> >>
SERVICE_ROUTES == << <<"/auth", "identity">>, <<"/attendance", "academics">>,
                     <<"/comm", "communications">>, <<"/comment-bank", "academics">> >>
get_required_permission(path) ==
    LET found == First(RBAC_MAP, path) IN IF found = <<>> THEN "authenticated" ELSE found[1][2]
resolve_service(path) ==
    LET found == First(SERVICE_ROUTES, path) IN IF found = <<>> THEN Unset ELSE found[1][2]

check_rbac(caller, granted, path) ==
    LET required == get_required_permission(path)
    IN CASE required = "public" -> 200
         [] required # "public" /\ caller = Anonymous -> 401
         [] required = "authenticated" /\ caller # Anonymous -> 200
         [] OTHER -> IF required \in granted THEN 200 ELSE 403

\* A login is limited by its address, whoever calls; a sync by its device and, when it
\* names none, by its caller, in the bucket of the caller's other requests.
KindOfPath(path) == IF path \in {"login", "sync"} THEN path ELSE "default"
get_rate_limit_key(path, caller, device) ==
    CASE path = "login" -> <<"address">>
      [] path = "sync" -> <<IF device = Unset THEN caller ELSE device>>
      [] OTHER -> <<caller>>
Buckets == {<<"address">>, <<Anonymous>>, <<"device">>} \cup {<<c>> : c \in Callers}
Windows == {t \div Window : t \in 0..MaxClock}

AnswerCodes == {200, 401, 403, 404, 429, 502}
\* A request at the door, let through, or answered; where it goes to is not kept after that.
Visit ==
    [at : {"door", "through", "answered"}, status : AnswerCodes \cup {500}, kind : DOMAIN Limit,
     key : Buckets, window : Windows, service : {Unset} \cup {resolve_service(p) : p \in Paths}]

ASSUME DoorAssumption ==
    /\ Window \in Nat \ {0} /\ MaxClock \in Nat /\ ReadinessTTL \in Nat
    /\ Limit \in [{"login", "sync", "default"} -> Nat]
    /\ IsFiniteSet(Visits) /\ Anonymous \notin Callers /\ Unset \notin Visit

DoorInit ==
    /\ clock = 0 /\ bucket = [b \in Buckets \X Windows |-> 0]
    /\ visit = [v \in Visits |-> Unset]
    /\ through = [b \in Buckets \X Windows |-> [k \in DOMAIN Limit |-> 0]]
    /\ metrics = [requests |-> [s \in AnswerCodes |-> 0], blocks |-> 0, errors |-> 0]
    /\ probing = {} /\ readiness = [at |-> 0 - ReadinessTTL, saw |-> <<>>] /\ served = TRUE

Tick == /\ clock < MaxClock /\ clock' = clock + 1
        /\ UNCHANGED <<bucket, visit, through, metrics, probing, readiness, served>>

Measured(m, status) == [m EXCEPT !.requests[status] = @ + 1]
AsAnswered(x, status) == [x EXCEPT !.at = "answered", !.status = status, !.service = Unset]
Answered(v, status) == visit' = [visit EXCEPT ![v] = AsAnswered(@, status)]

\* A request comes in: refused with a metric, or on its way to be counted in the window of now.
ComesIn(v, path, caller, granted, device) ==
    LET status == check_rbac(caller, granted, path) IN
    /\ visit[v] = Unset
    /\ visit' = [visit EXCEPT ![v] =
           [at |-> IF status = 200 THEN "door" ELSE "answered", status |-> status,
            kind |-> KindOfPath(path), key |-> get_rate_limit_key(path, caller, device),
            window |-> clock \div Window, service |-> resolve_service(path)]]
    /\ metrics' = IF status = 200 THEN metrics ELSE Measured(metrics, status)
    /\ UNCHANGED <<clock, bucket, through, probing, readiness, served>>

BelowLimit(count, limit) == count < limit
WithinLimit(count, limit) == count <= limit
\* Counted whether or not it is let through; the whole is one transaction of Redis.
Check(v) ==
    /\ visit[v] # Unset /\ visit[v].at = "door"
    /\ LET b == <<visit[v].key, visit[v].window>>
           count == bucket[b] + 1
       IN /\ bucket' = [bucket EXCEPT ![b] = count]
          /\ IF WithinLimit(count, Limit[visit[v].kind])
             THEN /\ through' = [through EXCEPT ![b][visit[v].kind] = @ + 1]
                  /\ visit' = [visit EXCEPT ![v].at = "through"] /\ UNCHANGED metrics
             ELSE /\ metrics' = [Measured(metrics, 429) EXCEPT !.blocks = @ + 1]
                  /\ Answered(v, 429) /\ UNCHANGED through
    /\ UNCHANGED <<clock, probing, readiness, served>>
\* Redis cannot be reached: the request ends with an error nobody counts.
RedisFails(v) ==
    /\ visit[v] # Unset /\ visit[v].at = "door" /\ Answered(v, 500)
    /\ UNCHANGED <<clock, bucket, through, metrics, probing, readiness, served>>

\* The answer of the service, or that there is none, or a failure that is reported as one.
Respond502 == [Measured(metrics, 502) EXCEPT !.errors = @ + 1]
Forward(v) ==
    /\ visit[v] # Unset /\ visit[v].at = "through"
    /\ \/ visit[v].service = Unset /\ Answered(v, 404) /\ metrics' = Measured(metrics, 404)
       \/ visit[v].service # Unset /\ Answered(v, 200) /\ metrics' = Measured(metrics, 200)
       \/ visit[v].service # Unset /\ Answered(v, 502) /\ metrics' = Respond502
    /\ UNCHANGED <<clock, bucket, through, probing, readiness, served>>

(* /ready: a cached answer, or one probe after the other, each awaited; of what *)
(* a probe sees, only when it did is kept.                                     *)
Cached == clock - readiness.at < ReadinessTTL /\ readiness.saw # <<>>
\* What a served answer says of a service was seen within the time it may be kept.
Recent(saw, since) == \A k \in DOMAIN saw : saw[k] >= since
ServeCached ==
    /\ Cached /\ served' = (served /\ Recent(readiness.saw, clock - ReadinessTTL))
    /\ UNCHANGED <<clock, bucket, visit, through, metrics, probing, readiness>>
StartProbes(p) ==
    /\ ~Cached /\ \A q \in probing : q.id # p
    /\ probing' = probing \cup {[id |-> p, since |-> clock, saw |-> <<>>]}
    /\ UNCHANGED <<clock, bucket, visit, through, metrics, readiness, served>>
check_health(p) ==
    /\ p \in probing /\ Len(p.saw) < Len(Services)
    /\ probing' = (probing \ {p}) \cup {[p EXCEPT !.saw = Append(@, clock)]}
    /\ UNCHANGED <<clock, bucket, visit, through, metrics, readiness, served>>
\* The cache is stamped with the time the probes began at, not the time they ended.
StampAtEnd(p) == clock
Stamp(p) == p.since
Ready(p) ==
    /\ p \in probing /\ Len(p.saw) = Len(Services)
    /\ readiness' = [at |-> Stamp(p), saw |-> p.saw]
    /\ probing' = probing \ {p} /\ served' = (served /\ Recent(p.saw, p.since))
    /\ UNCHANGED <<clock, bucket, visit, through, metrics>>

VisitNext ==
    \E v \in Visits :
        \/ Check(v) \/ RedisFails(v) \/ Forward(v)
        \/ \E path \in Paths, c \in Callers \cup {Anonymous},
              granted \in {{}, {"attendance:write", "comm:read"}}, device \in {Unset, "device"} :
               ComesIn(v, path, c, granted, device)
ReadyNext ==
    \/ ServeCached \/ \E i \in 1..2 : StartProbes(i)
    \/ \E p \in probing : Ready(p) \/ check_health(p)
DoorNext == Tick \/ VisitNext \/ ReadyNext
DoorSpec == DoorInit /\ [][DoorNext]_door

------------------------------------------------------------------------------
\* In a window no more requests of a kind are let through under a key than its limit,
\* and whoever is refused comes after a full limit was counted there; a caller's other
\* requests may have filled the bucket of a sync that names no device (stack.py:153-237).
RateIsBounded ==
    /\ \A b \in Buckets \X Windows, k \in DOMAIN Limit : through[b][k] <= Limit[k]
    /\ \A v \in Visits :
           visit[v] # Unset /\ visit[v].status = 429 =>
               bucket[<<visit[v].key, visit[v].window>>] > Limit[visit[v].kind]
\* No request that found room is refused: all that were counted get through, or as many
\* as one of the limits allows.
RoomIsUsed ==
    \A b \in Buckets \X Windows :
        LET all == through[b]["login"] + through[b]["sync"] + through[b]["default"]
        IN all = bucket[b] \/ \E k \in DOMAIN Limit : all >= Limit[k]
\* Every answer but an internal error is in the metrics once, under its status, and every
\* block is one of them.
AnsweredWith(s) == {v \in Visits : visit[v] # Unset /\ visit[v].at = "answered"
                                   /\ visit[v].status = s}
MetricsAddUp ==
    /\ metrics.blocks = metrics.requests[429] /\ metrics.errors = metrics.requests[502]
    /\ \A s \in AnswerCodes : metrics.requests[s] = Cardinality(AnsweredWith(s))
\* However probes overlap, a kept answer is served for its time to live from when its
\* first probe began, so that nothing older is served (main.py:138-167).
ReadinessIsFresh == served
DoorAgrees == RateIsBounded /\ RoomIsUsed /\ MetricsAddUp /\ ReadinessIsFresh
===============================================================================
