------------------------------ MODULE GatewayBreaker ------------------------------
(* The gateway's circuit breaker for one downstream service, and the calls it *)
(* forwards.  Handlers are coroutines of one event loop, so asking the        *)
(* breaker and recording an outcome are atomic, and whole calls overlap.  An  *)
(* answer of any status is a success; a time-out or a lost connection is a    *)
(* failure, and a GET is tried again before it counts.                        *)
EXTENDS Integers
CONSTANTS Calls, FailureThreshold, SuccessThreshold, MaxAttempts

ASSUME BreakerAssumption ==
    /\ FailureThreshold \in Nat \ {0} /\ SuccessThreshold \in Nat \ {0}
    /\ MaxAttempts \in Nat \ {0}

VARIABLES circuit,   \* state, failures (counted up to the threshold) and successes
          cooled,    \* an open circuit has been left alone for its recovery time
          call,      \* calls in flight: the attempt they are at, and the last one they have
          streak     \* history: failures recorded since a success was, up to the threshold
gateway == <<circuit, cooled, call, streak>>

NoCall == [attempt |-> 0, last |-> 0]
UpTo(bound, n) == IF n < bound THEN n ELSE bound
Fresh == [state |-> "closed", failures |-> 0, successes |-> 0]
GatewayInit ==
    /\ circuit = Fresh
    /\ cooled = FALSE /\ call = [k \in Calls |-> NoCall] /\ streak = 0

Cools ==
    /\ circuit.state = "open" /\ ~cooled /\ cooled' = TRUE
    /\ UNCHANGED <<circuit, call, streak>>

\* Slip: an open circuit stays open.
NeverProbed == circuit.state # "open"
AllowRequest == circuit.state # "open" \/ cooled
\* The first request after the recovery time opens it half; any number may follow.
Forwards(k, attempts) ==
    /\ call[k] = NoCall /\ AllowRequest
    /\ call' = [call EXCEPT ![k] = [attempt |-> 1, last |-> attempts]]
    /\ circuit' = IF circuit.state = "open"
                  THEN [circuit EXCEPT !.state = "half open", !.successes = 0] ELSE circuit
    /\ cooled' = FALSE /\ UNCHANGED streak

\* Slip: the failures of before stay counted when the circuit closes.
StillCounted(c) == [c EXCEPT !.state = "closed"]
Reset(c) == [c EXCEPT !.state = "closed", !.failures = 0]
RecordSuccess ==
    /\ circuit' = IF circuit.state = "half open" /\ circuit.successes + 1 < SuccessThreshold
                  THEN [circuit EXCEPT !.successes = @ + 1]
                  ELSE Reset(circuit)
    /\ cooled' = FALSE /\ streak' = 0
RecordFailure ==
    /\ LET n == UpTo(FailureThreshold, circuit.failures + 1)
       IN circuit' = [circuit EXCEPT !.failures = n,
              !.state = IF @ = "half open" \/ n = FailureThreshold THEN "open" ELSE @]
    /\ cooled' = FALSE /\ streak' = UpTo(FailureThreshold, streak + 1)

Answers(k) ==
    /\ call[k] # NoCall /\ RecordSuccess
    /\ call' = [call EXCEPT ![k] = NoCall]
\* The attempt fails: another one, or the failure is recorded.
TriesAgain(k) ==
    /\ call[k] # NoCall /\ call[k].attempt < call[k].last
    /\ call' = [call EXCEPT ![k].attempt = @ + 1]
    /\ UNCHANGED <<circuit, cooled, streak>>
Fails(k) ==
    /\ call[k] # NoCall /\ call[k].attempt = call[k].last /\ RecordFailure
    /\ call' = [call EXCEPT ![k] = NoCall]

\* The breaker lives in the memory of the gateway, with the calls in flight.
GatewayRestarts ==
    /\ circuit' = Fresh /\ cooled' = FALSE
    /\ call' = [k \in Calls |-> NoCall] /\ streak' = 0

GatewayNext == \/ Cools \/ GatewayRestarts
               \/ \E k \in Calls : \/ Forwards(k, 1) \/ Forwards(k, MaxAttempts)
                                   \/ Answers(k) \/ TriesAgain(k) \/ Fails(k)
GatewaySpec == GatewayInit /\ [][GatewayNext]_gateway

\* Time passes, every call ends, and the service is asked as long as it is let be asked.
Asked == \E k \in Calls : Forwards(k, 1)
ServiceDown == \E k \in Calls : Fails(k) \/ TriesAgain(k)
GatewayFairSpec ==
    /\ GatewaySpec
    /\ WF_gateway(Cools) /\ WF_gateway(Asked) /\ \A k \in Calls : WF_gateway(Answers(k))
    /\ <>[][~ServiceDown]_gateway

------------------------------------------------------------------------------
\* The breaker never keeps a service closed that failed FailureThreshold times in a row, and
\* never opens one before: closed, it counts exactly the failures since the last success, and
\* it opens for a failure only; half open, it is short of the successes that close it.
BreakerAgrees ==
    /\ circuit.state = "closed" => circuit.failures = streak /\ streak < FailureThreshold
    /\ circuit.state = "open" => streak > 0
    /\ circuit.state = "half open" => circuit.successes < SuccessThreshold

\* Once the service answers again and goes on being asked, its circuit closes for good.
BreakerRecovers == <>[](circuit.state = "closed")
===============================================================================
