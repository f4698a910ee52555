------------------------------- MODULE OncePerKey -------------------------------
(* The DbIdempotencyStore of the shared library under its two handlers that   *)
(* look a key up, commit their work, and store the key in a later commit: an  *)
(* announcement (X-Request-Id) and the start of a mobile-money payment        *)
(* (Idempotency-Key).  A client may send a request again under its key.       *)
EXTENDS Integers, Handlers
CONSTANTS Announcements, Initiates   \* keys of the two handlers

VARIABLES stored,   \* the keys of idempotency_keys
          done,     \* key -> pieces of work committed: announcements, SENT transactions
          torn      \* history: keys whose request ended between its work and its key
onceVars == <<stored, done, torn>>
WorkKeys == Announcements \cup Initiates

OnceInit == stored = {} /\ done = [k \in WorkKeys |-> 0] /\ torn = {}

\* Slip: the store is not asked.
Unasked(k) == TRUE
KeyFree(k) == k \notin stored

LooksUp(c, k) ==
    /\ KeyFree(k)
    /\ Reads(c, [op |-> IF k \in Initiates THEN "persist" ELSE "announce",
                  on |-> {<<"key", k>>}, key |-> k])
    /\ UNCHANGED onceVars
\* From one commit of a request to its next step.
GoesOn(c, op) == request' = [request EXCEPT ![c].op = op] /\ UNCHANGED raced

\* The announcement and its outbox rows are one commit.
Announces(c) ==
    /\ request[c].op = "announce"
    /\ done' = [done EXCEPT ![request[c].key] = @ + 1]
    /\ GoesOn(c, "store") /\ UNCHANGED <<stored, torn>>
\* The INITIATED row is committed before the gateway is called.
Persists(c) == request[c].op = "persist" /\ GoesOn(c, "call") /\ UNCHANGED onceVars
GatewaySaysOk(c) ==
    /\ request[c].op = "call"
    /\ done' = [done EXCEPT ![request[c].key] = @ + 1]
    /\ GoesOn(c, "store") /\ UNCHANGED <<stored, torn>>
\* The transaction is FAILED and the key stays free for another try.
GatewayFails(c) == request[c].op = "call" /\ Ends(c) /\ UNCHANGED onceVars
\* The key column is unique.
Stores(c) ==
    /\ request[c].op = "store" /\ request[c].key \notin stored
    /\ stored' = stored \cup {request[c].key}
    /\ Ends(c) /\ UNCHANGED <<done, torn>>
\* The process dies, or the store refuses a key that was stored meanwhile.
Dies(c) ==
    /\ GivesUp(c)
    /\ torn' = IF request[c].op = "store" THEN torn \cup {request[c].key} ELSE torn
    /\ UNCHANGED <<stored, done>>

OnceNext == \E c \in Callers :
    \/ \E k \in WorkKeys : LooksUp(c, k)
    \/ Announces(c) \/ Persists(c) \/ GatewaySaysOk(c) \/ GatewayFails(c) \/ Stores(c) \/ Dies(c)

------------------------------------------------------------------------------
\* A key's work is done at most once, unless two requests with the key overlapped or one
\* ended before it stored the key, and a stored key stands for work that was done.
KeysAgree ==
    /\ \A k \in stored : done[k] >= 1
    /\ \A k \in WorkKeys : <<"key", k>> \in raced \/ k \in torn \/ done[k] <= 1
===============================================================================
