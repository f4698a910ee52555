---------------------------- MODULE AttendanceSync ----------------------------
(***************************************************************************)
(* The attendance sync engine of the academics service                     *)
(* (services/academics/app/services/attendance_service.py).                *)
(*                                                                         *)
(* POST /attendance/sync is an async handler that never suspends while it  *)
(* works on a batch, so the event loop, the worker Loop, takes one batch   *)
(* at a time.  POST /attendance/records is a plain handler: each request   *)
(* runs in a thread of the pool, at the same time as the loop and as other *)
(* threads.  Both call process_sync_batch, which looks up what is stored   *)
(* (Steps 0 to 3 of the source), merges in memory (Step 4) and writes it   *)
(* all in one commit (Step 5).                                             *)
(*                                                                         *)
(* A device sends a batch again until it is answered, under the same       *)
(* sync_batch_id, or packs events it already sent into another batch.      *)
(***************************************************************************)
EXTENDS Integers, Sequences, FiniteSets

CONSTANTS
    Cells,      \* (student, date, period) cells of one school
    Statuses,   \* P, A, L
    Times,      \* instants a last_modified_at may name
    Now,        \* last_modified_at was not sent: the server's clock decides
    EventIds,   \* client event ids
    NoId,       \* no client_event_id was sent
    NoRow,      \* the cell has no attendance_records row
    Devices,    \* device ids
    Syncs,      \* the batches devices sync
    Onlines,    \* the requests of POST /attendance/records
    Loop,       \* the event loop
    Threads,    \* pool threads that serve POST /attendance/records
    MaxLost     \* bound: how many sessions may be lost

Workers == {Loop} \cup Threads

\* An event as sent, and a mark: the event with the time it counts from.
Event == [cell : Cells, status : Statuses, time : Times \cup {Now},
          id : EventIds \cup {NoId}]
Mark == [cell : Cells, status : Statuses, time : Times,
         id : EventIds \cup {NoId}]

Request == [dev : Devices, batch : Nat, events : Seq(Event)]

ASSUME TimesAssumption == Times \subseteq Int /\ Now \notin Times
ASSUME RequestsAssumption == Syncs \subseteq Request /\ Onlines \subseteq Request
ASSUME BatchKeyAssumption ==
    \A q, r \in Syncs : q.dev = r.dev /\ q.batch = r.batch => q = r
ASSUME NoIdAssumption == NoId \notin EventIds
ASSUME NoRowAssumption == NoRow \notin Mark
ASSUME LoopAssumption == Loop \notin Threads
ASSUME BoundAssumption == MaxLost \in Nat

VARIABLES
    row,        \* row[c]: the attendance_records row of cell c
    batches,    \* the sync_batches table: <<device, sync_batch_id>>
    processed,  \* the processed_client_events table: <<device, event id>>
    session,    \* session[w]: the batch worker w is working on
    lost,       \* how many sessions were lost
    heard,      \* history: every mark whose batch was committed
    overrun     \* history: the marks a stale session's commit hid again

stored == <<row, batches, processed>>
history == <<heard, overrun>>
vars == <<stored, session, lost, history>>

-----------------------------------------------------------------------------

\* A worker between two requests; the fields of a busy worker are
\*   loaded  the rows as read from the database (Step 2),
\*   mine    the same rows as changed in memory,
\*   known   processed_events: ids read (Step 3) and ids added since,
\*   fresh   the ids among them that this batch adds,
\*   left    the events still to be merged,
\*   merged  history: the marks merged so far.
NoRows == [c \in Cells |-> NoRow]
Idle == [pc |-> "idle"]
Session ==
    [pc : {"rows", "events", "merge"}, req : Syncs \cup Onlines,
     loaded : [Cells -> Mark \cup {NoRow}], mine : [Cells -> Mark \cup {NoRow}],
     known : SUBSET EventIds, fresh : SUBSET EventIds,
     left : Seq(Event), merged : SUBSET Mark]

TypeOK ==
    /\ row \in [Cells -> Mark \cup {NoRow}]
    /\ batches \subseteq Devices \X Nat
    /\ processed \subseteq Devices \X EventIds
    /\ session \in [Workers -> Session \cup {Idle}]
    /\ lost \in 0..MaxLost
    /\ heard \subseteq Mark
    /\ overrun \subseteq Mark

Init ==
    /\ row = NoRows
    /\ batches = {}
    /\ processed = {}
    /\ session = [w \in Workers |-> Idle]
    /\ lost = 0
    /\ heard = {}
    /\ overrun = {}

-----------------------------------------------------------------------------

EventsOf(req) == {req.events[n] : n \in DOMAIN req.events}
CellsOf(req) == {e.cell : e \in EventsOf(req)}
IdsOf(req) == {e.id : e \in EventsOf(req)} \ {NoId}

\* mark_attendance files each request under a batch id of its own, a fresh
\* uuid: no other request ever looks that row up, so only syncs are kept.
BatchRow(req) == IF req \in Syncs THEN {<<req.dev, req.batch>>} ELSE {}

Enter(w, s) == session' = [session EXCEPT ![w] = s]
At(w, pc) == session[w].pc = pc

\* Step 0: the batch is looked up, and work on it begins unless it is recorded.
FindBatch(w, req) ==
    /\ At(w, "idle")
    /\ req \in IF w = Loop THEN Syncs ELSE Onlines
    /\ BatchRow(req) \cap batches = {}
    /\ Enter(w, [pc |-> "rows", req |-> req, loaded |-> NoRows, mine |-> NoRows,
                 known |-> {}, fresh |-> {}, left |-> req.events, merged |-> {}])
    /\ UNCHANGED <<stored, lost, history>>

\* Step 0: a recorded batch is answered from its row again.
AnswerRecorded(req) ==
    /\ At(Loop, "idle")
    /\ req \in Syncs /\ BatchRow(req) \subseteq batches
    /\ UNCHANGED vars

\* Steps 1 and 2: the stored rows of the batch's cells.
ReadRows(w) ==
    /\ At(w, "rows")
    /\ LET found == [c \in Cells |->
                        IF c \in CellsOf(session[w].req) THEN row[c] ELSE NoRow]
       IN  Enter(w, [session[w] EXCEPT !.pc = "events",
                                       !.loaded = found, !.mine = found])
    /\ UNCHANGED <<stored, lost, history>>

\* Slip: the events are not looked up.
NothingStored(req) == {}

\* Step 3: which of the batch's events are already processed.
StoredIds(req) == {id \in IdsOf(req) : <<req.dev, id>> \in processed}

ReadEvents(w) ==
    /\ At(w, "events")
    /\ Enter(w, [session[w] EXCEPT !.pc = "merge",
                                   !.known = StoredIds(session[w].req)])
    /\ UNCHANGED <<stored, lost, history>>

\* Step 4, the event-level check: a processed event is ignored.
Replayed(s, e) == e.id \in s.known

\* Slips: an event is never recorded, or recorded even without an id.
NeverRecorded(e) == {}
RecordedAnyway(e) == {e.id}

\* Step 4: the id recorded for a merged event, if it has one.
Recorded(e) == {e.id} \ {NoId}

\* Slips: the last write wins, or a mark of the same time wins.
LastWriteWins(m, old) == TRUE
TieWins(m, old) == old = NoRow \/ old.time =< m.time

\* Step 4, the conflict rule: a mark takes a cell nobody marked, or one whose
\* mark is older.
Wins(m, old) == old = NoRow \/ old.time < m.time

\* Step 4: one turn of the loop over the batch's events.
SkipEvent(w) ==
    /\ At(w, "merge") /\ session[w].left # <<>>
    /\ Replayed(session[w], Head(session[w].left))
    /\ Enter(w, [session[w] EXCEPT !.left = Tail(@)])
    /\ UNCHANGED <<stored, lost, history>>

MergeEvent(w) ==
    /\ At(w, "merge") /\ session[w].left # <<>>
    /\ LET s == session[w]
           e == Head(s.left)
       IN  /\ ~Replayed(s, e)
           /\ \E t \in IF e.time = Now THEN Times ELSE {e.time} :
                 LET m == [e EXCEPT !.time = t]
                 IN  Enter(w, [s EXCEPT
                        !.left = Tail(@),
                        !.mine[e.cell] = IF Wins(m, @) THEN m ELSE @,
                        !.known = @ \cup Recorded(e),
                        !.fresh = @ \cup Recorded(e),
                        !.merged = @ \cup {m}])
    /\ UNCHANGED <<stored, lost, history>>

\* The commit violates a unique constraint: a cell got its row, or an event or
\* the batch was recorded, after this session looked.
Conflict(s) ==
    \/ \E c \in Cells : s.loaded[c] = NoRow /\ s.mine[c] # NoRow /\ row[c] # NoRow
    \/ \E id \in s.fresh : <<s.req.dev, id>> \in processed
    \/ BatchRow(s.req) \cap batches # {}

\* The UPDATE of a row writes only the columns that differ from what was
\* loaded, over whatever the row holds by then; a new row is written whole.
Written(was, now, current) ==
    IF was = NoRow THEN now
    ELSE [f \in DOMAIN now |-> IF now[f] # was[f] THEN now[f] ELSE current[f]]

\* History: a session is stale for a cell whose row is no longer the one it
\* loaded.  The marks its commit leaves behind an older one there are overrun.
Stale(s) == {c \in CellsOf(s.req) : row[c] # s.loaded[c]}
Overruns(s) ==
    {m \in heard' : m.cell \in Stale(s) /\ row'[m.cell].time < m.time}

\* Step 5: everything is written in one commit.
CommitBatch(w) ==
    /\ At(w, "merge") /\ session[w].left = <<>>
    /\ LET s == session[w]
       IN  /\ ~Conflict(s)
           /\ row' = [c \in Cells |-> IF s.mine[c] = s.loaded[c] THEN row[c]
                                      ELSE Written(s.loaded[c], s.mine[c], row[c])]
           /\ batches' = batches \cup BatchRow(s.req)
           /\ processed' = processed \cup {<<s.req.dev, id>> : id \in s.fresh}
           /\ heard' = heard \cup s.merged
           /\ overrun' = overrun \cup Overruns(s)
    /\ Enter(w, Idle)
    /\ UNCHANGED lost

\* The commit is refused and rolled back: the request ends in an error.
RefuseBatch(w) ==
    /\ At(w, "merge") /\ session[w].left = <<>>
    /\ Conflict(session[w])
    /\ Enter(w, Idle)
    /\ UNCHANGED <<stored, lost, history>>

\* The database connection or the process is lost: nothing was written.
LoseSession(w) ==
    /\ ~At(w, "idle")
    /\ lost < MaxLost
    /\ lost' = lost + 1
    /\ Enter(w, Idle)
    /\ UNCHANGED <<stored, history>>

Work(w) ==
    \/ ReadRows(w)
    \/ ReadEvents(w)
    \/ SkipEvent(w)
    \/ MergeEvent(w)
    \/ CommitBatch(w)
    \/ RefuseBatch(w)

Next ==
    \/ \E w \in Workers :
          \/ \E req \in Syncs \cup Onlines : FindBatch(w, req)
          \/ Work(w)
          \/ LoseSession(w)
    \/ \E req \in Syncs : AnswerRecorded(req)

Spec == Init /\ [][Next]_vars

\* A worker that started a batch goes on with it, and a device keeps sending
\* a batch until it is answered (its offline queue tries every 30 s).
Fairness ==
    /\ \A w \in Workers : WF_vars(Work(w))
    /\ \A req \in Syncs : SF_vars(FindBatch(Loop, req))

FairSpec == Spec /\ Fairness

-----------------------------------------------------------------------------

\* What "latest last_modified_at wins" comes to when requests overlap: a cell
\* shows a mark older than one accepted for it only after the commit of a
\* session that had read the cell before another request changed it.  However
\* batches, retries, repacked batches and online marking arrive, nothing else
\* hides a later mark.
LatestWins ==
    \A m \in heard \ overrun : row[m.cell] # NoRow /\ m.time =< row[m.cell].time

\* "Conflict resolution: latest last_modified_at wins" (attendance_service.py:12)
\* as it stands: no cell shows a mark older than one accepted for it.  It holds
\* of the event loop alone, not with a request in a pool thread beside it.
LatestMarkShown ==
    \A m \in heard : row[m.cell] # NoRow /\ m.time =< row[m.cell].time

\* A batch is recorded with all of its events or not at all: once its
\* sync_batches row exists, and a retry is answered from that row, every event
\* in it is processed, and an event is processed only with such a batch.
RecordedWhole ==
    /\ \A req \in Syncs : BatchRow(req) \subseteq batches =>
          \A id \in IdsOf(req) : <<req.dev, id>> \in processed
    /\ \A p \in processed : \E req \in Syncs \cup Onlines :
          /\ p[1] = req.dev /\ p[2] \in IdsOf(req)
          /\ BatchRow(req) \subseteq batches

\* An event that carries an id counts once, however often and in however many
\* batches it is sent: a resend never gets a second, later server time.
EventCountsOnce ==
    \A m, n \in heard : m.id = n.id /\ m.id # NoId => m = n

\* A batch a device keeps sending is recorded in the end, although commits
\* lose races against online marking and sessions are lost.
BatchIsRecorded ==
    \A req \in Syncs : <>(BatchRow(req) \subseteq batches)

\* What a worker has looked at: the rows it loaded, once it has read them.
Looked == [w \in Workers |->
    IF session[w].pc \in {"events", "merge"} THEN {session[w].loaded} ELSE {}]

Register == INSTANCE AttendanceRegister
    WITH Marks <- Mark, Writers <- Workers, shown <- row, seen <- Looked

\* The engine implements the register: a batch is delivered as a whole at its
\* commit, and each cell shows the latest mark of those delivered by writers
\* that looked at what it showed.
ImplementsRegister == Register!RegisterSpec

===============================================================================
