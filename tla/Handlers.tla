-------------------------------- MODULE Handlers --------------------------------
(* A plain `def` endpoint of a FastAPI service.  It runs in a thread of the   *)
(* pool with a session of its own: it reads rows, decides, and commits what   *)
(* it computed from that reading.  No row is locked, each statement sees what *)
(* was committed before it, and an UPDATE writes the columns that differ from *)
(* the row as it was read.  Only a unique key refuses a commit, and then the  *)
(* whole request is rolled back.                                              *)
CONSTANTS Callers, NoRow

VARIABLES request,            \* caller -> request in flight
          raced               \* history: what two requests in flight worked on at once
callers == <<request, raced>>

Idle == [op |-> "none", on |-> {}]
HandlersInit == request = [c \in Callers |-> Idle] /\ raced = {}

\* A handler reads and goes on; it commits, or is refused and rolled back.
Reads(c, req) ==
    /\ request[c] = Idle
    /\ request' = [request EXCEPT ![c] = req]
    /\ raced' = raced \cup (req.on \cap UNION {request[d].on : d \in Callers})
Ends(c) == request' = [request EXCEPT ![c] = Idle] /\ UNCHANGED raced

\* A unique key refuses the commit, or the caller or the process is gone before it.
GivesUp(c) == request[c] # Idle /\ Ends(c)

\* The column of a row once an UPDATE that meant `new` after reading `seen` is through.
Written(now, seen, new) == IF new = seen THEN now ELSE new

\* The rows of a table that exist.
Created(rows) == {x \in DOMAIN rows : rows[x] # NoRow}
===============================================================================
