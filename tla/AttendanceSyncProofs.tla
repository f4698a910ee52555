------------------------- MODULE AttendanceSyncProofs -------------------------
(***************************************************************************)
(* Proofs about AttendanceSync, for any cells, devices, batches and        *)
(* threads: batches are recorded whole, an event counts once, a later mark *)
(* is hidden only by a session that was stale for its cell, the engine     *)
(* implements the register, and the event loop alone is never stale.       *)
(***************************************************************************)
EXTENDS AttendanceSync, TLAPS

USE DEF Workers, history

-----------------------------------------------------------------------------

\* The fields of a busy worker have their types.
LEMMA BusySession ==
  ASSUME TypeOK, NEW w \in Workers, session[w].pc # "idle"
  PROVE  session[w] \in Session
BY DEF TypeOK, Idle

\* Every mark made from an event has the type of a mark.
LEMMA MarkOfEvent ==
  ASSUME NEW e \in Event, NEW t \in Times
  PROVE  [e EXCEPT !.time = t] \in Mark
BY DEF Event, Mark

\* A request is one of the enumerated requests and has their type.
LEMMA RequestType ==
  ASSUME NEW req \in Syncs \cup Onlines
  PROVE  /\ req \in Request
         /\ EventsOf(req) \subseteq Event
         /\ IdsOf(req) \subseteq EventIds
         /\ CellsOf(req) \subseteq Cells
         /\ BatchRow(req) \subseteq Devices \X Nat
<1>1. req \in Request
  BY RequestsAssumption
<1>2. EventsOf(req) \subseteq Event
  BY <1>1 DEF Request, EventsOf
<1>3. IdsOf(req) \subseteq EventIds /\ CellsOf(req) \subseteq Cells
  BY <1>2 DEF IdsOf, CellsOf, Event
<1>4. BatchRow(req) \subseteq Devices \X Nat
  BY <1>1 DEF BatchRow, Request
<1>5. QED
  BY <1>1, <1>2, <1>3, <1>4

\* The head of a nonempty list of events is an event, and its tail a list.
LEMMA HeadAndTail ==
  ASSUME NEW q \in Seq(Event), q # <<>>
  PROVE  /\ Head(q) \in Event /\ Tail(q) \in Seq(Event)
         /\ 1 \in DOMAIN q /\ Head(q) = q[1]
         /\ \A n \in DOMAIN Tail(q) : n + 1 \in DOMAIN q /\ Tail(q)[n] = q[n + 1]
         /\ \A n \in DOMAIN q \ {1} : n - 1 \in DOMAIN Tail(q) /\ q[n] = Tail(q)[n - 1]
OBVIOUS

\* An id in a list that is not the head's is in the tail.
LEMMA IdInTail ==
  ASSUME NEW q \in Seq(Event), q # <<>>, NEW id, id # Head(q).id,
         \E n \in DOMAIN q : q[n].id = id
  PROVE  \E n \in DOMAIN Tail(q) : Tail(q)[n].id = id
<1>1. PICK n \in DOMAIN q : q[n].id = id
  OBVIOUS
<1>2. n # 1
  BY <1>1, HeadAndTail
<1>3. n - 1 \in DOMAIN Tail(q) /\ q[n] = Tail(q)[n - 1]
  BY <1>2, HeadAndTail
<1>4. QED
  BY <1>1, <1>3

\* Writing a partial UPDATE over the row it was computed from writes the row.
LEMMA WrittenWhole ==
  ASSUME NEW was \in Mark, NEW now \in Mark
  PROVE  Written(was, now, was) = now
<1> DEFINE new == [f \in DOMAIN now |-> IF now[f] # was[f] THEN now[f] ELSE was[f]]
<1>1. was # NoRow
  BY NoRowAssumption
<1>2. \A f \in DOMAIN now : new[f] = now[f]
  OBVIOUS
<1>3. now = [f \in DOMAIN now |-> now[f]]
  BY DEF Mark
<1>4. new = now
  BY <1>2, <1>3
<1>5. QED
  BY <1>1, <1>4 DEF Written

\* Whatever is written is a mark for the same cell.
LEMMA WrittenType ==
  ASSUME NEW was \in Mark \cup {NoRow}, NEW now \in Mark, NEW current \in Mark
  PROVE  Written(was, now, current) \in Mark
<1>1. CASE was = NoRow
  BY <1>1 DEF Written
<1>2. CASE was \in Mark
  <2> DEFINE new == [f \in DOMAIN now |-> IF now[f] # was[f] THEN now[f] ELSE current[f]]
  <2>1. DOMAIN now = {"cell", "status", "time", "id"}
    BY DEF Mark
  <2>2. new = [cell |-> new.cell, status |-> new.status, time |-> new.time, id |-> new.id]
    BY <2>1
  <2>3. new.cell \in Cells /\ new.status \in Statuses /\ new.time \in Times
        /\ new.id \in EventIds \cup {NoId}
    BY <2>1 DEF Mark
  <2>4. new \in Mark
    BY <2>2, <2>3 DEF Mark
  <2>5. was # NoRow
    BY <1>2, NoRowAssumption
  <2>6. QED
    BY <2>4, <2>5 DEF Written
<1>3. QED
  BY <1>1, <1>2

-----------------------------------------------------------------------------
\* Type correctness.  A commit writes over the row it finds, so it also needs
\* that a row a session has loaded is still there.

\* Rows are never deleted, and a session never forgets one it has loaded.
RowsStay ==
    \A w \in Workers : ~At(w, "idle") =>
        \A c \in Cells : session[w].loaded[c] # NoRow =>
            row[c] # NoRow /\ session[w].mine[c] # NoRow

TypeInv == TypeOK /\ RowsStay

LEMMA InitTypeInv == Init => TypeInv
<1> SUFFICES ASSUME Init PROVE TypeInv
  OBVIOUS
<1>1. TypeOK
  BY BoundAssumption DEF Init, TypeOK, NoRows
<1>2. RowsStay
  BY DEF Init, RowsStay, At, Idle
<1>3. QED
  BY <1>1, <1>2 DEF TypeInv

\* A step that only moves worker w to s keeps the invariant if s fits.
LEMMA EnterKeepsTypes ==
  ASSUME TypeInv, NEW w \in Workers, NEW s \in Session \cup {Idle},
         Enter(w, s), UNCHANGED <<stored, history>>, lost' \in 0..MaxLost,
         s # Idle => \A c \in Cells : s.loaded[c] # NoRow =>
             row[c] # NoRow /\ s.mine[c] # NoRow
  PROVE  TypeInv'
<1>1. session' = [session EXCEPT ![w] = s]
  BY DEF Enter
<1>2. TypeOK'
  BY <1>1 DEF TypeInv, TypeOK, stored
<1>3. ASSUME NEW v \in Workers, session'[v].pc # "idle", NEW c \in Cells,
             session'[v].loaded[c] # NoRow
      PROVE  row'[c] # NoRow /\ session'[v].mine[c] # NoRow
  <2>1. CASE v = w
    <3>1. session'[v] = s
      BY <1>1, <2>1 DEF TypeInv, TypeOK
    <3>2. s # Idle
      BY <1>3, <3>1 DEF Idle
    <3>3. QED
      BY <1>3, <3>1, <3>2 DEF stored
  <2>2. CASE v # w
    <3>1. session'[v] = session[v]
      BY <1>1, <2>2 DEF TypeInv, TypeOK
    <3>2. QED
      BY <1>3, <3>1 DEF TypeInv, RowsStay, At, stored
  <2>3. QED
    BY <2>1, <2>2
<1>4. RowsStay'
  BY <1>3 DEF RowsStay, At
<1>5. QED
  BY <1>2, <1>4 DEF TypeInv

LEMMA FindBatchTypes ==
  ASSUME TypeInv, NEW w \in Workers, NEW req \in Syncs \cup Onlines, FindBatch(w, req)
  PROVE  TypeInv'
<1> DEFINE s == [pc |-> "rows", req |-> req, loaded |-> NoRows, mine |-> NoRows,
                 known |-> {}, fresh |-> {}, left |-> req.events, merged |-> {}]
<1>1. s \in Session
  <2>1. req.events \in Seq(Event)
    BY RequestType DEF Request
  <2>2. NoRows \in [Cells -> Mark \cup {NoRow}]
    BY DEF NoRows
  <2>3. QED
    BY <2>1, <2>2 DEF Session
<1>2. Enter(w, s) /\ UNCHANGED <<stored, history>> /\ lost' \in 0..MaxLost
  BY DEF FindBatch, TypeInv, TypeOK
<1>3. \A c \in Cells : s.loaded[c] = NoRow
  BY DEF NoRows
<1> HIDE DEF s
<1>4. QED
  BY <1>1, <1>2, <1>3, EnterKeepsTypes

LEMMA ReadRowsTypes ==
  ASSUME TypeInv, NEW w \in Workers, ReadRows(w)
  PROVE  TypeInv'
<1> DEFINE found == [c \in Cells |->
                        IF c \in CellsOf(session[w].req) THEN row[c] ELSE NoRow]
           s == [session[w] EXCEPT !.pc = "events", !.loaded = found, !.mine = found]
<1>1. session[w] \in Session
  BY BusySession DEF ReadRows, At, TypeInv
<1>2. found \in [Cells -> Mark \cup {NoRow}]
  BY DEF TypeInv, TypeOK
<1>3. \A c \in Cells : found[c] # NoRow => row[c] # NoRow
  OBVIOUS
<1>4. Enter(w, s) /\ UNCHANGED <<stored, history>> /\ lost' \in 0..MaxLost
  BY DEF ReadRows, TypeInv, TypeOK
<1> HIDE DEF found
<1>5. s \in Session /\ s.loaded = found /\ s.mine = found
  BY <1>1, <1>2 DEF Session
<1> HIDE DEF s
<1>6. QED
  BY <1>3, <1>4, <1>5, EnterKeepsTypes

\* A step of a busy worker that leaves its loaded rows alone, forgets no row
\* of its own and writes nothing keeps the invariant.
LEMMA BusyStepTypes ==
  ASSUME TypeInv, NEW w \in Workers, ~At(w, "idle"), NEW s \in Session,
         Enter(w, s), UNCHANGED <<stored, lost, history>>,
         s.loaded = session[w].loaded,
         \A c \in Cells : session[w].mine[c] # NoRow => s.mine[c] # NoRow
  PROVE  TypeInv'
<1>1. UNCHANGED <<stored, history>> /\ lost' \in 0..MaxLost
  BY DEF TypeInv, TypeOK
<1>2. \A c \in Cells : s.loaded[c] # NoRow => row[c] # NoRow /\ s.mine[c] # NoRow
  BY DEF TypeInv, RowsStay
<1>3. QED
  BY <1>1, <1>2, EnterKeepsTypes

LEMMA ReadEventsTypes ==
  ASSUME TypeInv, NEW w \in Workers, ReadEvents(w)
  PROVE  TypeInv'
<1> DEFINE s == [session[w] EXCEPT !.pc = "merge", !.known = StoredIds(session[w].req)]
<1>1. session[w] \in Session /\ ~At(w, "idle")
  BY BusySession DEF ReadEvents, At, TypeInv
<1>2. StoredIds(session[w].req) \subseteq EventIds
  BY <1>1, RequestType DEF StoredIds, Session
<1>3. Enter(w, s) /\ UNCHANGED <<stored, lost, history>>
  BY DEF ReadEvents
<1>4. s \in Session /\ s.loaded = session[w].loaded /\ s.mine = session[w].mine
  BY <1>1, <1>2 DEF Session
<1> HIDE DEF s
<1>5. QED
  BY <1>1, <1>3, <1>4, BusyStepTypes

LEMMA SkipEventTypes ==
  ASSUME TypeInv, NEW w \in Workers, SkipEvent(w)
  PROVE  TypeInv'
<1> DEFINE s == [session[w] EXCEPT !.left = Tail(@)]
<1>1. session[w] \in Session /\ ~At(w, "idle")
  BY BusySession DEF SkipEvent, At, TypeInv
<1>2. Tail(session[w].left) \in Seq(Event)
  BY <1>1, HeadAndTail DEF SkipEvent, Session
<1>3. Enter(w, s) /\ UNCHANGED <<stored, lost, history>>
  BY DEF SkipEvent
<1>4. s \in Session /\ s.loaded = session[w].loaded /\ s.mine = session[w].mine
  BY <1>1, <1>2 DEF Session
<1> HIDE DEF s
<1>5. QED
  BY <1>1, <1>3, <1>4, BusyStepTypes

\* What merging one event does to the session of worker w.
Merges(w, s, e, m) ==
    LET old == session[w]
    IN  /\ e = Head(old.left)
        /\ m \in Mark /\ m.cell = e.cell /\ m.id = e.id
        /\ s \in Session
        /\ s.pc = "merge" /\ s.req = old.req /\ s.loaded = old.loaded
        /\ s.left = Tail(old.left)
        /\ s.mine = [old.mine EXCEPT ![e.cell] =
                        IF Wins(m, old.mine[e.cell]) THEN m ELSE old.mine[e.cell]]
        /\ s.known = old.known \cup Recorded(e)
        /\ s.fresh = old.fresh \cup Recorded(e)
        /\ s.merged = old.merged \cup {m}

LEMMA MergeEventShape ==
  ASSUME TypeOK, NEW w \in Workers, MergeEvent(w)
  PROVE  /\ session[w] \in Session /\ ~At(w, "idle")
         /\ UNCHANGED <<stored, lost, history>>
         /\ session[w].left \in Seq(Event) /\ session[w].left # <<>>
         /\ \E s \in Session, e \in Event, m \in Mark :
               Enter(w, s) /\ Merges(w, s, e, m)
<1> DEFINE old == session[w]
           e == Head(old.left)
<1>1. old \in Session /\ ~At(w, "idle")
  BY BusySession DEF MergeEvent, At
<1>2. e \in Event /\ Tail(old.left) \in Seq(Event) /\ old.left \in Seq(Event)
  BY <1>1, HeadAndTail DEF MergeEvent, Session
<1>3. PICK t \in IF e.time = Now THEN Times ELSE {e.time} :
        LET m == [e EXCEPT !.time = t]
        IN  Enter(w, [old EXCEPT
               !.left = Tail(@),
               !.mine[e.cell] = IF Wins(m, @) THEN m ELSE @,
               !.known = @ \cup Recorded(e),
               !.fresh = @ \cup Recorded(e),
               !.merged = @ \cup {m}])
  BY DEF MergeEvent
<1> DEFINE m == [e EXCEPT !.time = t]
           s == [old EXCEPT
               !.left = Tail(@),
               !.mine[e.cell] = IF Wins(m, @) THEN m ELSE @,
               !.known = @ \cup Recorded(e),
               !.fresh = @ \cup Recorded(e),
               !.merged = @ \cup {m}]
<1>4. m \in Mark /\ m.cell = e.cell /\ m.id = e.id
  <2>1. t \in Times
    BY <1>2, <1>3 DEF Event
  <2>2. m \in Mark
    BY <1>2, <2>1, MarkOfEvent
  <2>3. QED
    BY <1>2, <2>2 DEF Event
<1>5. Enter(w, s)
  BY <1>3
<1>6. Recorded(e) \subseteq EventIds
  BY <1>2 DEF Recorded, Event
<1>7. e.cell \in Cells
  BY <1>2 DEF Event
<1> HIDE DEF m, e
<1>8. s.left = Tail(old.left) /\ s.pc = old.pc /\ s.req = old.req /\ s.loaded = old.loaded
  BY <1>1 DEF Session
<1>9. /\ s.mine = [old.mine EXCEPT ![e.cell] =
                      IF Wins(m, old.mine[e.cell]) THEN m ELSE old.mine[e.cell]]
      /\ s.known = old.known \cup Recorded(e)
      /\ s.fresh = old.fresh \cup Recorded(e)
      /\ s.merged = old.merged \cup {m}
  BY <1>1 DEF Session
<1>10. s \in Session
  <2>1. [old.mine EXCEPT ![e.cell] =
            IF Wins(m, old.mine[e.cell]) THEN m ELSE old.mine[e.cell]]
          \in [Cells -> Mark \cup {NoRow}]
    BY <1>1, <1>4, <1>7 DEF Session
  <2>2. QED
    BY <1>1, <1>2, <1>4, <1>6, <2>1 DEF Session
<1>11. old.pc = "merge"
  BY DEF MergeEvent, At
<1> HIDE DEF s
<1>12. e = Head(old.left)
  BY DEF e
<1>13. Merges(w, s, e, m)
  BY <1>4, <1>8, <1>9, <1>10, <1>11, <1>12 DEF Merges
<1>14. UNCHANGED <<stored, lost, history>> /\ old.left # <<>>
  BY DEF MergeEvent
<1>15. QED
  BY <1>1, <1>2, <1>4, <1>5, <1>10, <1>13, <1>14

LEMMA MergeEventTypes ==
  ASSUME TypeInv, NEW w \in Workers, MergeEvent(w)
  PROVE  TypeInv'
<1>1. PICK s \in Session, e \in Event, m \in Mark : Enter(w, s) /\ Merges(w, s, e, m)
  BY MergeEventShape DEF TypeInv
<1>2. session[w] \in Session /\ ~At(w, "idle") /\ UNCHANGED <<stored, lost, history>>
  BY MergeEventShape DEF TypeInv
<1>3. \A c \in Cells : session[w].mine[c] # NoRow => s.mine[c] # NoRow
  BY <1>1, <1>2, NoRowAssumption DEF Merges, Session
<1>4. s.loaded = session[w].loaded
  BY <1>1 DEF Merges
<1>5. QED
  BY <1>1, <1>2, <1>3, <1>4, BusyStepTypes

LEMMA CommitBatchTypes ==
  ASSUME TypeInv, NEW w \in Workers, CommitBatch(w)
  PROVE  TypeInv'
<1> DEFINE s == session[w]
<1>1. s \in Session /\ ~At(w, "idle")
  BY BusySession DEF CommitBatch, At, TypeInv
<1>2. /\ ~Conflict(s)
      /\ row' = [c \in Cells |-> IF s.mine[c] = s.loaded[c] THEN row[c]
                                 ELSE Written(s.loaded[c], s.mine[c], row[c])]
      /\ batches' = batches \cup BatchRow(s.req)
      /\ processed' = processed \cup {<<s.req.dev, id>> : id \in s.fresh}
      /\ heard' = heard \cup s.merged
      /\ overrun' = overrun \cup Overruns(s)
      /\ lost' = lost /\ Enter(w, Idle)
  BY DEF CommitBatch
<1>3. session' = [session EXCEPT ![w] = Idle]
  BY <1>2 DEF Enter
<1>4. ASSUME NEW c \in Cells
      PROVE  row'[c] \in Mark \cup {NoRow} /\ (row[c] # NoRow => row'[c] # NoRow)
  <2>1. s.mine[c] \in Mark \cup {NoRow} /\ s.loaded[c] \in Mark \cup {NoRow}
        /\ row[c] \in Mark \cup {NoRow}
    BY <1>1 DEF Session, TypeInv, TypeOK
  <2>2. CASE s.mine[c] = s.loaded[c]
    BY <1>2, <2>1, <2>2
  <2>3. CASE s.mine[c] # s.loaded[c]
    <3>1. s.mine[c] \in Mark
      BY <1>1, <2>1, <2>3 DEF TypeInv, RowsStay
    <3>2. row'[c] = Written(s.loaded[c], s.mine[c], row[c])
      BY <1>2, <2>3
    <3>3. row'[c] \in Mark
      <4>1. CASE s.loaded[c] = NoRow
        BY <3>1, <3>2, <4>1 DEF Written
      <4>2. CASE s.loaded[c] # NoRow
        <5>1. row[c] \in Mark
          BY <1>1, <2>1, <4>2 DEF TypeInv, RowsStay
        <5>2. QED
          BY <2>1, <3>1, <3>2, <5>1, WrittenType
      <4>3. QED
        BY <4>1, <4>2
    <3>4. QED
      BY <3>3, NoRowAssumption
  <2>4. QED
    BY <2>2, <2>3
<1>5. TypeOK'
  <2>1. row' \in [Cells -> Mark \cup {NoRow}]
    BY <1>2, <1>4
  <2>2. batches' \subseteq Devices \X Nat
    BY <1>1, <1>2, RequestType DEF TypeInv, TypeOK, Session
  <2>3. processed' \subseteq Devices \X EventIds
    <3>1. s.req.dev \in Devices
      BY <1>1, RequestType DEF Session, Request
    <3>2. s.fresh \subseteq EventIds
      BY <1>1 DEF Session
    <3>3. {<<s.req.dev, id>> : id \in s.fresh} \subseteq Devices \X EventIds
      BY <3>1, <3>2
    <3>4. QED
      BY <1>2, <3>3 DEF TypeInv, TypeOK
  <2>4. session' \in [Workers -> Session \cup {Idle}]
    BY <1>3 DEF TypeInv, TypeOK
  <2>5. heard' \subseteq Mark /\ overrun' \subseteq Mark
    BY <1>1, <1>2 DEF TypeInv, TypeOK, Session, Overruns
  <2>6. QED
    BY <1>2, <2>1, <2>2, <2>3, <2>4, <2>5 DEF TypeInv, TypeOK
<1>6. RowsStay'
  <2> SUFFICES ASSUME NEW v \in Workers, session'[v].pc # "idle", NEW c \in Cells,
                      session'[v].loaded[c] # NoRow
               PROVE  row'[c] # NoRow /\ session'[v].mine[c] # NoRow
    BY DEF RowsStay, At
  <2>1. v # w
    BY <1>3 DEF TypeInv, TypeOK, Idle
  <2>2. session'[v] = session[v]
    BY <1>3, <2>1 DEF TypeInv, TypeOK
  <2>3. QED
    BY <1>4, <2>2 DEF TypeInv, RowsStay, At
<1>7. QED
  BY <1>5, <1>6 DEF TypeInv

LEMMA StepTypeInv == TypeInv /\ [Next]_vars => TypeInv'
<1> SUFFICES ASSUME TypeInv, [Next]_vars PROVE TypeInv'
  OBVIOUS
<1>1. ASSUME NEW w \in Workers, NEW req \in Syncs \cup Onlines, FindBatch(w, req)
      PROVE  TypeInv'
  BY <1>1, FindBatchTypes
<1>2. ASSUME NEW w \in Workers, Work(w) PROVE TypeInv'
  <2>1. ASSUME RefuseBatch(w) PROVE TypeInv'
    <3>1. Enter(w, Idle) /\ UNCHANGED <<stored, history>> /\ lost' \in 0..MaxLost
      BY <2>1 DEF RefuseBatch, TypeInv, TypeOK
    <3>2. QED
      BY <3>1, EnterKeepsTypes
  <2>2. QED
    BY <1>2, <2>1, ReadRowsTypes, ReadEventsTypes, SkipEventTypes,
       MergeEventTypes, CommitBatchTypes DEF Work
<1>3. ASSUME NEW w \in Workers, LoseSession(w) PROVE TypeInv'
  <2>1. Enter(w, Idle) /\ UNCHANGED <<stored, history>>
    BY <1>3 DEF LoseSession
  <2>2. lost' \in 0..MaxLost
    BY <1>3, BoundAssumption DEF LoseSession, TypeInv, TypeOK
  <2>3. QED
    BY <2>1, <2>2, EnterKeepsTypes
<1>4. ASSUME UNCHANGED vars PROVE TypeInv'
  BY <1>4 DEF vars, stored, TypeInv, TypeOK, RowsStay, At
<1>5. QED
  BY <1>1, <1>2, <1>3, <1>4 DEF Next, AnswerRecorded

\* Every variable of the sync engine keeps its type: rows are only replaced by
\* marks for the same book, and only sent ids are recorded.
THEOREM TypeCorrect == Spec => []TypeOK
<1>1. Spec => []TypeInv
  BY InitTypeInv, StepTypeInv, PTL DEF Spec
<1>2. TypeInv => TypeOK
  BY DEF TypeInv
<1>3. QED
  BY <1>1, <1>2, PTL

-----------------------------------------------------------------------------
\* Batches are recorded whole.

\* A session works on events of its request only; every id of the request is
\* still to come or known; what is known is recorded or about to be.
IdsKeptBy(w) ==
    LET s == session[w]
    IN  /\ \A n \in DOMAIN s.left : s.left[n] \in EventsOf(s.req)
        /\ s.fresh \subseteq IdsOf(s.req)
        /\ s.pc # "merge" => s.known = {}
        /\ \A id \in IdsOf(s.req) :
              id \in s.known \/ \E n \in DOMAIN s.left : s.left[n].id = id
        /\ \A id \in s.known : id \in s.fresh \/ <<s.req.dev, id>> \in processed

IdsKept == \A w \in Workers : ~At(w, "idle") => IdsKeptBy(w)

WholeInv == TypeInv /\ IdsKept /\ RecordedWhole

\* The ids of a request are the ids its events carry.
LEMMA IdsOfEvents ==
  ASSUME NEW req \in Syncs \cup Onlines, NEW id \in IdsOf(req)
  PROVE  id # NoId /\ \E n \in DOMAIN req.events : req.events[n].id = id
BY DEF IdsOf, EventsOf

\* A step of worker w keeps IdsKept when it keeps it for w and only adds to
\* the recorded ids.
LEMMA OthersKeepIds ==
  ASSUME TypeInv, IdsKept, NEW w \in Workers, NEW s, Enter(w, s),
         processed \subseteq processed', ~At(w, "idle")' => IdsKeptBy(w)'
  PROVE  IdsKept'
<1> SUFFICES ASSUME NEW v \in Workers, ~At(v, "idle")' PROVE IdsKeptBy(v)'
  BY DEF IdsKept
<1>1. CASE v = w
  BY <1>1
<1>2. CASE v # w
  <2>1. session'[v] = session[v]
    BY <1>2 DEF Enter, TypeInv, TypeOK
  <2>2. IdsKeptBy(v)
    BY <2>1 DEF IdsKept, At
  <2>3. QED
    BY <2>1, <2>2 DEF IdsKeptBy
<1>3. QED
  BY <1>1, <1>2

LEMMA StepIdsKept ==
  ASSUME TypeInv, IdsKept, Next
  PROVE  IdsKept'
<1>1. ASSUME NEW w \in Workers, NEW s, Enter(w, s) PROVE session'[w] = s
  BY <1>1 DEF Enter, TypeInv, TypeOK
<1>2. ASSUME NEW w \in Workers, NEW req \in Syncs \cup Onlines, FindBatch(w, req)
      PROVE  IdsKept'
  <2> DEFINE s == [pc |-> "rows", req |-> req, loaded |-> NoRows, mine |-> NoRows,
                   known |-> {}, fresh |-> {}, left |-> req.events, merged |-> {}]
  <2>1. Enter(w, s) /\ processed' = processed
    BY <1>2 DEF FindBatch, stored
  <2>2. session'[w] = s
    BY <1>1, <2>1
  <2>3. IdsKeptBy(w)'
    <3>1. \A id \in IdsOf(req) : \E n \in DOMAIN req.events : req.events[n].id = id
      BY IdsOfEvents
    <3>2. \A n \in DOMAIN req.events : req.events[n] \in EventsOf(req)
      BY DEF EventsOf
    <3>3. QED
      BY <2>2, <3>1, <3>2 DEF IdsKeptBy
  <2> HIDE DEF s
  <2>4. QED
    BY <2>1, <2>3, OthersKeepIds
<1>3. ASSUME NEW w \in Workers, Work(w) PROVE IdsKept'
  <2>1. ~At(w, "idle") /\ session[w] \in Session /\ IdsKeptBy(w)
    <3>1. ~At(w, "idle")
      BY <1>3 DEF Work, ReadRows, ReadEvents, SkipEvent, MergeEvent, CommitBatch,
                  RefuseBatch, At
    <3>2. QED
      BY <3>1, BusySession DEF IdsKept, TypeInv, At
  <2> DEFINE old == session[w]
  <2>2. CASE ReadRows(w)
    <3> DEFINE found == [c \in Cells |-> IF c \in CellsOf(old.req) THEN row[c] ELSE NoRow]
               s == [old EXCEPT !.pc = "events", !.loaded = found, !.mine = found]
    <3>1. Enter(w, s) /\ processed' = processed
      BY <2>2 DEF ReadRows, stored
    <3>2. session'[w] = s
      BY <1>1, <3>1
    <3> HIDE DEF found
    <3>3. s.left = old.left /\ s.req = old.req /\ s.fresh = old.fresh
          /\ s.known = old.known /\ old.known = {}
      BY <2>1, <2>2 DEF Session, IdsKeptBy, ReadRows, At
    <3> HIDE DEF s
    <3>4. IdsKeptBy(w)'
      BY <2>1, <3>1, <3>2, <3>3 DEF IdsKeptBy
    <3>5. QED
      BY <3>1, <3>4, OthersKeepIds
  <2>3. CASE ReadEvents(w)
    <3> DEFINE s == [old EXCEPT !.pc = "merge", !.known = StoredIds(old.req)]
    <3>1. Enter(w, s) /\ processed' = processed
      BY <2>3 DEF ReadEvents, stored
    <3>2. session'[w] = s
      BY <1>1, <3>1
    <3>3. s.left = old.left /\ s.req = old.req /\ s.fresh = old.fresh
          /\ s.known = StoredIds(old.req) /\ s.pc = "merge" /\ old.known = {}
      BY <2>1, <2>3 DEF Session, IdsKeptBy, ReadEvents, At
    <3> HIDE DEF s
    <3>4. \A id \in StoredIds(old.req) : <<old.req.dev, id>> \in processed
      BY DEF StoredIds
    <3>5. IdsKeptBy(w)'
      BY <2>1, <3>1, <3>2, <3>3, <3>4 DEF IdsKeptBy
    <3>6. QED
      BY <3>1, <3>5, OthersKeepIds
  <2>4. CASE SkipEvent(w)
    <3> DEFINE s == [old EXCEPT !.left = Tail(@)]
    <3>1. Enter(w, s) /\ processed' = processed
      BY <2>4 DEF SkipEvent, stored
    <3>2. session'[w] = s
      BY <1>1, <3>1
    <3>3. s.left = Tail(old.left) /\ s.req = old.req /\ s.fresh = old.fresh
          /\ s.known = old.known /\ s.pc = "merge"
      BY <2>1, <2>4 DEF Session, SkipEvent, At
    <3> HIDE DEF s
    <3>4. old.left \in Seq(Event) /\ old.left # <<>> /\ Head(old.left).id \in old.known
      BY <2>1, <2>4 DEF Session, SkipEvent, Replayed
    <3>5. \A n \in DOMAIN s.left : s.left[n] \in EventsOf(s.req)
      BY <2>1, <3>3, <3>4, HeadAndTail DEF IdsKeptBy
    <3>6. ASSUME NEW id \in IdsOf(s.req)
          PROVE  id \in s.known \/ \E n \in DOMAIN s.left : s.left[n].id = id
      <4>1. CASE id \in old.known
        BY <3>3, <4>1
      <4>2. CASE id \notin old.known
        <5>1. \E n \in DOMAIN old.left : old.left[n].id = id
          BY <2>1, <3>3, <4>2 DEF IdsKeptBy
        <5>2. id # Head(old.left).id
          BY <3>4, <4>2
        <5>3. \E n \in DOMAIN Tail(old.left) : Tail(old.left)[n].id = id
          <6> HIDE DEF old
          <6> QED
            BY <3>4, <5>1, <5>2, IdInTail
        <5>4. QED
          BY <3>3, <5>3
      <4>3. QED
        BY <4>1, <4>2
    <3>7. IdsKeptBy(w)'
      BY <2>1, <3>1, <3>2, <3>3, <3>5, <3>6 DEF IdsKeptBy
    <3>8. QED
      BY <3>1, <3>7, OthersKeepIds
  <2>5. CASE MergeEvent(w)
    <3>1. PICK s \in Session, e \in Event, m \in Mark :
            Enter(w, s) /\ Merges(w, s, e, m)
      BY <2>5, MergeEventShape DEF TypeInv
    <3>2. processed' = processed /\ old.left \in Seq(Event) /\ old.left # <<>>
      BY <2>5, MergeEventShape DEF TypeInv, stored
    <3>3. session'[w] = s
      BY <1>1, <3>1
    <3>4. s.left = Tail(old.left) /\ s.req = old.req /\ e = Head(old.left)
          /\ s.fresh = old.fresh \cup Recorded(e)
          /\ s.known = old.known \cup Recorded(e) /\ s.pc = "merge"
      BY <3>1 DEF Merges
    <3>5. e \in EventsOf(old.req)
      BY <2>1, <3>2, <3>4, HeadAndTail DEF IdsKeptBy
    <3>6. Recorded(e) \subseteq IdsOf(old.req)
      BY <3>5 DEF Recorded, IdsOf
    <3>7. \A n \in DOMAIN s.left : s.left[n] \in EventsOf(s.req)
      BY <2>1, <3>2, <3>4, HeadAndTail DEF IdsKeptBy
    <3>8. ASSUME NEW id \in IdsOf(s.req)
          PROVE  id \in s.known \/ \E n \in DOMAIN s.left : s.left[n].id = id
      <4>1. id # NoId
        BY DEF IdsOf
      <4>2. CASE id = e.id
        BY <3>4, <4>1, <4>2 DEF Recorded
      <4>3. CASE id # e.id
        <5>1. id \in old.known \/ \E n \in DOMAIN old.left : old.left[n].id = id
          BY <2>1, <3>4 DEF IdsKeptBy
        <5>2. CASE id \notin old.known
          <6>1. \E n \in DOMAIN Tail(old.left) : Tail(old.left)[n].id = id
            <7> HIDE DEF old
            <7> QED
              BY <3>2, <3>4, <4>3, <5>1, <5>2, IdInTail
          <6>2. QED
            BY <3>4, <6>1
        <5>3. QED
          BY <3>4, <5>2
      <4>4. QED
        BY <4>2, <4>3
    <3>9. IdsKeptBy(w)'
      BY <2>1, <3>2, <3>3, <3>4, <3>6, <3>7, <3>8 DEF IdsKeptBy
    <3>10. QED
      BY <3>1, <3>2, <3>9, OthersKeepIds
  <2>6. CASE CommitBatch(w)
    <3>1. Enter(w, Idle) /\ processed \subseteq processed'
      BY <2>6 DEF CommitBatch
    <3>2. ~(~At(w, "idle")')
      BY <1>1, <3>1 DEF At, Idle
    <3>3. QED
      BY <3>1, <3>2, OthersKeepIds
  <2>7. CASE RefuseBatch(w)
    <3>1. Enter(w, Idle) /\ processed' = processed
      BY <2>7 DEF RefuseBatch, stored
    <3>2. ~(~At(w, "idle")')
      BY <1>1, <3>1 DEF At, Idle
    <3>3. QED
      BY <3>1, <3>2, OthersKeepIds
  <2>8. QED
    BY <1>3, <2>2, <2>3, <2>4, <2>5, <2>6, <2>7 DEF Work
<1>4. ASSUME NEW w \in Workers, LoseSession(w) PROVE IdsKept'
  <2>1. Enter(w, Idle) /\ processed' = processed
    BY <1>4 DEF LoseSession, stored
  <2>2. ~(~At(w, "idle")')
    BY <1>1, <2>1 DEF At, Idle
  <2>3. QED
    BY <2>1, <2>2, OthersKeepIds
<1>5. ASSUME UNCHANGED vars PROVE IdsKept'
  BY <1>5 DEF vars, stored, IdsKept, IdsKeptBy, At
<1>6. QED
  BY <1>2, <1>3, <1>4, <1>5 DEF Next, AnswerRecorded

LEMMA CommitWhole ==
  ASSUME WholeInv, NEW w \in Workers, CommitBatch(w)
  PROVE  RecordedWhole'
<1> DEFINE s == session[w]
<1>1. s \in Session /\ IdsKeptBy(w)
  BY BusySession DEF CommitBatch, At, WholeInv, TypeInv, IdsKept
<1>2. s.left = <<>> /\ s.req \in Syncs \cup Onlines
  BY <1>1 DEF CommitBatch, Session
<1>3. batches' = batches \cup BatchRow(s.req)
      /\ processed' = processed \cup {<<s.req.dev, id>> : id \in s.fresh}
  BY DEF CommitBatch
<1>4. ASSUME NEW id \in IdsOf(s.req) PROVE <<s.req.dev, id>> \in processed'
  <2>1. id \in s.known
    BY <1>1, <1>2 DEF IdsKeptBy
  <2>2. QED
    BY <1>1, <1>3, <2>1 DEF IdsKeptBy
<1>5. ASSUME NEW req \in Syncs, BatchRow(req) \subseteq batches', NEW id \in IdsOf(req)
      PROVE  <<req.dev, id>> \in processed'
  <2>1. CASE BatchRow(req) \subseteq batches
    BY <1>3, <2>1 DEF WholeInv, RecordedWhole
  <2>2. CASE ~(BatchRow(req) \subseteq batches)
    <3>1. s.req \in Syncs /\ <<req.dev, req.batch>> = <<s.req.dev, s.req.batch>>
      BY <1>3, <1>5, <2>2 DEF BatchRow
    <3>2. req = s.req
      BY <3>1, BatchKeyAssumption
    <3>3. QED
      BY <1>4, <3>2
  <2>3. QED
    BY <2>1, <2>2
<1>6. ASSUME NEW p \in processed'
      PROVE  \E req \in Syncs \cup Onlines :
                /\ p[1] = req.dev /\ p[2] \in IdsOf(req)
                /\ BatchRow(req) \subseteq batches'
  <2>1. CASE p \in processed
    BY <1>3, <2>1 DEF WholeInv, RecordedWhole
  <2>2. CASE p \notin processed
    <3>1. PICK id \in s.fresh : p = <<s.req.dev, id>>
      BY <1>3, <2>2
    <3>2. id \in IdsOf(s.req)
      BY <1>1 DEF IdsKeptBy
    <3>3. QED
      BY <1>2, <1>3, <3>1, <3>2
  <2>3. QED
    BY <2>1, <2>2
<1>7. QED
  BY <1>5, <1>6 DEF RecordedWhole

LEMMA StepWholeInv == WholeInv /\ [Next]_vars => WholeInv'
<1> SUFFICES ASSUME WholeInv, [Next]_vars PROVE WholeInv'
  OBVIOUS
<1>1. TypeInv'
  BY StepTypeInv DEF WholeInv
<1>2. IdsKept'
  <2>1. CASE UNCHANGED vars
    BY <2>1 DEF vars, stored, WholeInv, IdsKept, IdsKeptBy, At
  <2>2. QED
    BY <2>1, StepIdsKept DEF WholeInv
<1>3. RecordedWhole'
  <2>1. CASE \E w \in Workers : CommitBatch(w)
    BY <2>1, CommitWhole
  <2>2. CASE UNCHANGED stored
    BY <2>2 DEF stored, WholeInv, RecordedWhole
  <2>3. CASE \A w \in Workers : ~CommitBatch(w)
    <3>1. UNCHANGED stored
      BY <2>3 DEF Next, Work, FindBatch, ReadRows, ReadEvents, SkipEvent,
            MergeEvent, RefuseBatch, LoseSession, AnswerRecorded, vars
    <3>2. QED
      BY <2>2, <3>1
  <2>4. QED
    BY <2>1, <2>3
<1>4. QED
  BY <1>1, <1>2, <1>3 DEF WholeInv

\* A batch is recorded with all its events or not at all, whatever sessions
\* race with it and however often it is sent.
THEOREM BatchesAreWhole == Spec => []RecordedWhole
<1>1. Init => WholeInv
  <2>1. Init => IdsKept
    BY DEF Init, IdsKept, At, Idle
  <2>2. Init => RecordedWhole
    BY DEF Init, RecordedWhole, BatchRow
  <2>3. QED
    BY <2>1, <2>2, InitTypeInv DEF WholeInv
<1>2. WholeInv => RecordedWhole
  BY DEF WholeInv
<1>3. QED
  BY <1>1, <1>2, StepWholeInv, PTL DEF Spec

-----------------------------------------------------------------------------
\* An event counts once.

\* An event id is a uuid drawn where the event is made, by the app or by
\* mark_attendance for the device "web", and the table of processed ids is
\* keyed by device and id: no two devices send the same id.
IdsAreDevices ==
    \A q, r \in Syncs \cup Onlines : IdsOf(q) \cap IdsOf(r) # {} => q.dev = r.dev

\* A session merges an id once, and will record every id it has merged.
IdsMergedOnceBy(w) ==
    LET s == session[w]
    IN  /\ s.pc # "merge" => s.fresh = {}
        /\ s.fresh \subseteq s.known
        /\ \A m \in s.merged : m.id # NoId => m.id \in s.fresh
        /\ \A m, n \in s.merged : m.id = n.id /\ m.id # NoId => m = n

IdsMergedOnce == \A w \in Workers : ~At(w, "idle") => IdsMergedOnceBy(w)

\* Every id that counted is recorded for a device.
HeardIsRecorded ==
    \A m \in heard : m.id # NoId => \E d \in Devices : <<d, m.id>> \in processed

OnceInv == WholeInv /\ IdsMergedOnce /\ HeardIsRecorded /\ EventCountsOnce

\* A step of worker w keeps the sessions' promise when it keeps it for w.
LEMMA OthersMergeOnce ==
  ASSUME TypeOK, IdsMergedOnce, NEW w \in Workers, NEW s, Enter(w, s),
         s.pc # "idle" =>
             /\ s.pc # "merge" => s.fresh = {}
             /\ s.fresh \subseteq s.known
             /\ \A m \in s.merged : m.id # NoId => m.id \in s.fresh
             /\ \A m, n \in s.merged : m.id = n.id /\ m.id # NoId => m = n
  PROVE  IdsMergedOnce'
<1>1. session'[w] = s /\ \A v \in Workers \ {w} : session'[v] = session[v]
  BY DEF Enter, TypeOK
<1>2. SUFFICES ASSUME NEW v \in Workers, session'[v].pc # "idle"
      PROVE  IdsMergedOnceBy(v)'
  BY DEF IdsMergedOnce, At
<1>3. CASE v = w
  BY <1>1, <1>2, <1>3 DEF IdsMergedOnceBy
<1>4. CASE v # w
  BY <1>1, <1>2, <1>4 DEF IdsMergedOnceBy, IdsMergedOnce, At
<1>5. QED
  BY <1>3, <1>4

\* Whatever a worker does, its session merges no id twice.
LEMMA StepMergesOnce ==
  ASSUME TypeOK, IdsMergedOnce, Next
  PROVE  IdsMergedOnce'
<1>1. ASSUME NEW w \in Workers, NEW req \in Syncs \cup Onlines, FindBatch(w, req)
      PROVE  IdsMergedOnce'
  <2> DEFINE s == [pc |-> "rows", req |-> req, loaded |-> NoRows, mine |-> NoRows,
                   known |-> {}, fresh |-> {}, left |-> req.events, merged |-> {}]
  <2>1. Enter(w, s)
    BY <1>1 DEF FindBatch
  <2>2. s.fresh = {} /\ s.merged = {}
    OBVIOUS
  <2> HIDE DEF s
  <2>3. QED
    BY <2>1, <2>2, OthersMergeOnce
<1>2. ASSUME NEW w \in Workers, Work(w) PROVE IdsMergedOnce'
  <2> DEFINE old == session[w]
  <2>1. old \in Session /\ ~At(w, "idle") /\ IdsMergedOnceBy(w)
    <3>1. ~At(w, "idle")
      BY <1>2 DEF Work, ReadRows, ReadEvents, SkipEvent, MergeEvent, CommitBatch,
                  RefuseBatch, At
    <3>2. QED
      BY <3>1, BusySession DEF IdsMergedOnce, At
  <2>2. CASE ReadRows(w) \/ ReadEvents(w)
    <3>1. \E s : Enter(w, s) /\ s.fresh = old.fresh /\ s.merged = old.merged
      <4>1. ASSUME NEW found
            PROVE  LET s == [old EXCEPT !.pc = "events", !.loaded = found, !.mine = found]
                   IN  s.fresh = old.fresh /\ s.merged = old.merged
        BY <2>1 DEF Session
      <4>2. ASSUME NEW ids
            PROVE  LET s == [old EXCEPT !.pc = "merge", !.known = ids]
                   IN  s.fresh = old.fresh /\ s.merged = old.merged
        BY <2>1 DEF Session
      <4>3. QED
        BY <2>2, <4>1, <4>2 DEF ReadRows, ReadEvents
    <3>2. old.fresh = {}
      BY <2>1, <2>2 DEF IdsMergedOnceBy, ReadRows, ReadEvents, At
    <3> HIDE DEF old
    <3>3. PICK s : Enter(w, s) /\ s.fresh = {} /\ s.merged = old.merged
      BY <3>1, <3>2
    <3>4. \A m \in s.merged : m.id = NoId
      BY <2>1, <3>2, <3>3 DEF IdsMergedOnceBy, old
    <3>5. QED
      BY <3>3, <3>4, OthersMergeOnce
  <2>3. CASE SkipEvent(w)
    <3> DEFINE s == [old EXCEPT !.left = Tail(@)]
    <3>1. Enter(w, s)
      BY <2>3 DEF SkipEvent
    <3>2. s.fresh = old.fresh /\ s.known = old.known /\ s.merged = old.merged
          /\ s.pc = old.pc
      BY <2>1 DEF Session
    <3> HIDE DEF s
    <3>3. QED
      BY <2>1, <3>1, <3>2, OthersMergeOnce DEF IdsMergedOnceBy
  <2>4. CASE MergeEvent(w)
    <3>1. PICK s \in Session, e \in Event, m \in Mark :
            Enter(w, s) /\ Merges(w, s, e, m)
      BY <2>4, MergeEventShape
    <3>2. /\ s.fresh = old.fresh \cup Recorded(e)
          /\ s.known = old.known \cup Recorded(e)
          /\ s.merged = old.merged \cup {m} /\ s.pc = "merge" /\ m.id = e.id
      BY <3>1 DEF Merges
    <3>3. m.id \notin old.known
      BY <2>4, <3>1, <3>2 DEF MergeEvent, Replayed, Merges
    <3>4. m.id # NoId => m.id \in Recorded(e)
      BY <3>2 DEF Recorded
    <3>5. \A n \in old.merged : n.id = m.id => n.id = NoId
      BY <2>1, <3>3 DEF IdsMergedOnceBy
    <3>6. QED
      BY <2>1, <3>1, <3>2, <3>4, <3>5, OthersMergeOnce DEF IdsMergedOnceBy
  <2>5. CASE CommitBatch(w) \/ RefuseBatch(w)
    <3>1. Enter(w, Idle)
      BY <2>5 DEF CommitBatch, RefuseBatch
    <3>2. QED
      BY <3>1, OthersMergeOnce DEF Idle
  <2>6. QED
    BY <1>2, <2>2, <2>3, <2>4, <2>5 DEF Work
<1>3. ASSUME NEW w \in Workers, LoseSession(w) PROVE IdsMergedOnce'
  BY <1>3, OthersMergeOnce DEF LoseSession, Idle
<1>4. ASSUME UNCHANGED vars PROVE IdsMergedOnce'
  BY <1>4 DEF vars, IdsMergedOnce, IdsMergedOnceBy, At
<1>5. QED
  BY <1>1, <1>2, <1>3, <1>4 DEF Next, AnswerRecorded

\* The commit: what the session merged under an id is recorded for its device,
\* and had it counted before, the unique constraint would have refused it.
LEMMA CommitCountsOnce ==
  ASSUME IdsAreDevices, OnceInv, NEW w \in Workers, CommitBatch(w)
  PROVE  HeardIsRecorded' /\ EventCountsOnce'
<1> DEFINE s == session[w]
<1>1. s \in Session /\ IdsKeptBy(w) /\ IdsMergedOnceBy(w)
  BY BusySession
     DEF CommitBatch, At, OnceInv, WholeInv, TypeInv, IdsKept, IdsMergedOnce
<1>2. /\ ~Conflict(s)
      /\ processed' = processed \cup {<<s.req.dev, id>> : id \in s.fresh}
      /\ heard' = heard \cup s.merged
  BY DEF CommitBatch
<1>3. s.req \in Syncs \cup Onlines /\ s.req.dev \in Devices
  BY <1>1, RequestType DEF Session, Request
<1>4. \A m \in s.merged : m.id # NoId =>
         m.id \in IdsOf(s.req) /\ m.id \in s.fresh /\ <<s.req.dev, m.id>> \notin processed
  BY <1>1, <1>2 DEF IdsMergedOnceBy, IdsKeptBy, Conflict
<1>5. ASSUME NEW m \in s.merged, NEW n \in heard, m.id # NoId, n.id = m.id
      PROVE  FALSE
  <2>1. PICK d \in Devices : <<d, m.id>> \in processed
    BY <1>5 DEF OnceInv, HeardIsRecorded
  <2>2. PICK req \in Syncs \cup Onlines : d = req.dev /\ m.id \in IdsOf(req)
    BY <2>1 DEF OnceInv, WholeInv, RecordedWhole
  <2>3. req.dev = s.req.dev
    BY <1>3, <1>4, <1>5, <2>2 DEF IdsAreDevices
  <2>4. QED
    BY <1>4, <1>5, <2>1, <2>2, <2>3
<1> HIDE DEF s
<1>6. HeardIsRecorded'
  BY <1>2, <1>3, <1>4 DEF OnceInv, HeardIsRecorded
<1>7. EventCountsOnce'
  <2>1. \A m, n \in s.merged : m.id = n.id /\ m.id # NoId => m = n
    BY <1>1 DEF IdsMergedOnceBy, s
  <2>2. QED
    BY <1>2, <1>5, <2>1 DEF OnceInv, EventCountsOnce
<1>8. QED
  BY <1>6, <1>7

\* An event that carries an id counts once, however often, in however many
\* batches and through whichever threads it is sent, whatever is lost on the
\* way, as long as ids are a device's own.
THEOREM EventsCountOnce == ASSUME IdsAreDevices PROVE Spec => []EventCountsOnce
<1>1. Init => OnceInv
  <2>1. Init => IdsKept /\ RecordedWhole /\ IdsMergedOnce
    BY DEF Init, IdsKept, IdsMergedOnce, RecordedWhole, BatchRow, At, Idle
  <2>2. Init => HeardIsRecorded /\ EventCountsOnce
    BY DEF Init, HeardIsRecorded, EventCountsOnce
  <2>3. QED
    BY <2>1, <2>2, InitTypeInv DEF OnceInv, WholeInv
<1>2. OnceInv /\ [Next]_vars => OnceInv'
  <2> SUFFICES ASSUME OnceInv, [Next]_vars PROVE OnceInv'
    OBVIOUS
  <2>1. WholeInv'
    BY StepWholeInv DEF OnceInv
  <2>2. IdsMergedOnce'
    <3>1. CASE UNCHANGED vars
      BY <3>1 DEF vars, OnceInv, IdsMergedOnce, IdsMergedOnceBy, At
    <3>2. QED
      BY <3>1, StepMergesOnce DEF OnceInv, WholeInv, TypeInv
  <2>3. HeardIsRecorded' /\ EventCountsOnce'
    <3>1. CASE \E w \in Workers : CommitBatch(w)
      BY <3>1, CommitCountsOnce
    <3>2. CASE \A w \in Workers : ~CommitBatch(w)
      <4>1. UNCHANGED <<processed, heard>>
        BY <3>2 DEF Next, Work, FindBatch, ReadRows, ReadEvents, SkipEvent,
              MergeEvent, RefuseBatch, LoseSession, AnswerRecorded, vars, stored
      <4>2. QED
        BY <4>1 DEF OnceInv, HeardIsRecorded, EventCountsOnce
    <3>3. QED
      BY <3>1, <3>2
  <2>4. QED
    BY <2>1, <2>2, <2>3 DEF OnceInv
<1>3. QED
  BY <1>1, <1>2, PTL DEF Spec, OnceInv

-----------------------------------------------------------------------------
\* The latest mark wins, unless a session was stale for its cell.

\* m is not later than what row r shows.
Covered(m, r) == r # NoRow /\ m.time =< r.time

\* What a session has judged so far: every mark it merged is covered by the row
\* it holds in memory, and a row it changed holds one of these marks, later
\* than what it loaded.
JudgedBy(w) ==
    LET s == session[w]
    IN  /\ s.pc # "merge" => s.mine = s.loaded /\ s.merged = {}
        /\ \A m \in s.merged : m.cell \in CellsOf(s.req) /\ Covered(m, s.mine[m.cell])
        /\ \A c \in Cells : s.mine[c] # s.loaded[c] =>
              /\ s.mine[c] \in s.merged /\ s.mine[c].cell = c
              /\ s.loaded[c] # NoRow => s.loaded[c].time < s.mine[c].time

AllJudged == \A w \in Workers : ~At(w, "idle") => JudgedBy(w)

JudgeInv == TypeInv /\ IdsKept /\ AllJudged /\ LatestWins

\* A step of worker w keeps AllJudged when it keeps it for w.
LEMMA OthersKeepJudged ==
  ASSUME TypeInv, AllJudged, NEW w \in Workers, NEW s, Enter(w, s),
         ~At(w, "idle")' => JudgedBy(w)'
  PROVE  AllJudged'
<1> SUFFICES ASSUME NEW v \in Workers, ~At(v, "idle")' PROVE JudgedBy(v)'
  BY DEF AllJudged
<1>1. CASE v = w
  BY <1>1
<1>2. CASE v # w
  <2>1. session'[v] = session[v]
    BY <1>2 DEF Enter, TypeInv, TypeOK
  <2>2. JudgedBy(v)
    BY <2>1 DEF AllJudged, At
  <2>3. QED
    BY <2>1, <2>2 DEF JudgedBy
<1>3. QED
  BY <1>1, <1>2

\* Merging an event keeps what the session knows about its rows.
LEMMA MergeJudges ==
  ASSUME JudgeInv, NEW w \in Workers, MergeEvent(w)
  PROVE  JudgedBy(w)'
<1> DEFINE old == session[w]
<1>1. old \in Session /\ ~At(w, "idle")
      /\ old.left \in Seq(Event) /\ old.left # <<>>
  BY MergeEventShape DEF JudgeInv, TypeInv
<1>2. JudgedBy(w) /\ IdsKeptBy(w)
  BY <1>1 DEF JudgeInv, IdsKept, AllJudged
<1>3. PICK s \in Session, e \in Event, m \in Mark :
        Enter(w, s) /\ Merges(w, s, e, m)
  BY MergeEventShape DEF JudgeInv, TypeInv
<1>4. session'[w] = s
  BY <1>3 DEF Enter, JudgeInv, TypeInv, TypeOK
<1>7. s.req = old.req /\ s.loaded = old.loaded /\ s.pc = "merge"
      /\ s.merged = old.merged \cup {m} /\ m.cell = e.cell
      /\ s.mine = [old.mine EXCEPT ![e.cell] =
                      IF Wins(m, old.mine[e.cell]) THEN m ELSE old.mine[e.cell]]
  BY <1>3 DEF Merges
<1>8. e.cell \in CellsOf(s.req) /\ e.cell \in Cells
  <2>1. e = old.left[1] /\ 1 \in DOMAIN old.left
    <3>1. e = Head(old.left)
      BY <1>3 DEF Merges
    <3>2. QED
      BY <1>1, <3>1, HeadAndTail
  <2>2. e \in EventsOf(s.req)
    BY <1>2, <1>7, <2>1 DEF IdsKeptBy
  <2>3. QED
    BY <2>2 DEF CellsOf, Event
<1>9. old.mine \in [Cells -> Mark \cup {NoRow}] /\ old.loaded \in [Cells -> Mark \cup {NoRow}]
      /\ old.merged \subseteq Mark
  BY <1>1 DEF Session
<1>10. \A n \in Mark : n.time \in Int /\ n.cell \in Cells
  BY TimesAssumption DEF Mark
<1>11. \A c \in Cells : c # e.cell => s.mine[c] = old.mine[c]
  BY <1>7, <1>9
<1>12. s.mine[e.cell] = IF Wins(m, old.mine[e.cell]) THEN m ELSE old.mine[e.cell]
  BY <1>7, <1>8, <1>9
<1>13. Covered(m, s.mine[e.cell])
  BY <1>8, <1>9, <1>10, <1>12, NoRowAssumption DEF Covered, Wins
<1>14. ASSUME NEW n \in old.merged
       PROVE  n.cell \in CellsOf(s.req) /\ Covered(n, s.mine[n.cell])
  <2>1. n.cell \in CellsOf(s.req) /\ Covered(n, old.mine[n.cell]) /\ n \in Mark
    BY <1>2, <1>7, <1>9 DEF JudgedBy
  <2>2. CASE n.cell # e.cell
    BY <1>10, <1>11, <2>1, <2>2
  <2>3. CASE n.cell = e.cell
    BY <1>8, <1>9, <1>10, <1>12, <2>1, <2>3, NoRowAssumption DEF Covered, Wins
  <2>4. QED
    BY <2>2, <2>3
<1>15. ASSUME NEW c \in Cells, s.mine[c] # s.loaded[c]
       PROVE  /\ s.mine[c] \in s.merged /\ s.mine[c].cell = c
              /\ s.loaded[c] # NoRow => s.loaded[c].time < s.mine[c].time
  <2>1. old.mine[c] # old.loaded[c] =>
          /\ old.mine[c] \in old.merged /\ old.mine[c].cell = c
          /\ old.loaded[c] # NoRow => old.loaded[c].time < old.mine[c].time
    BY <1>2 DEF JudgedBy
  <2>2. CASE s.mine[c] = old.mine[c]
    BY <1>7, <1>15, <2>1, <2>2
  <2>3. CASE s.mine[c] # old.mine[c]
    <3>1. c = e.cell /\ s.mine[c] = m /\ Wins(m, old.mine[c])
      BY <1>11, <1>12, <2>3
    <3>2. old.loaded[c] # NoRow => old.loaded[c].time < m.time
      <4>1. CASE old.mine[c] = old.loaded[c]
        BY <3>1, <4>1 DEF Wins
      <4>2. CASE old.mine[c] # old.loaded[c]
        BY <1>9, <1>10, <2>1, <3>1, <4>2, NoRowAssumption DEF Wins
      <4>3. QED
        BY <4>1, <4>2
    <3>3. QED
      BY <1>7, <3>1, <3>2
  <2>4. QED
    BY <2>2, <2>3
<1>17. \A n \in s.merged : n.cell \in CellsOf(s.req) /\ Covered(n, s.mine[n.cell])
  BY <1>7, <1>8, <1>13, <1>14
<1>18. s.pc = "merge"
  BY <1>7
<1> HIDE DEF old
<1>19. QED
  BY <1>4, <1>15, <1>17, <1>18 DEF JudgedBy

\* An UPDATE that changes the time writes its own time, and every other column
\* is its own or the one it finds.
LEMMA WrittenColumns ==
  ASSUME NEW was \in Mark, NEW now \in Mark, NEW current \in Mark, was.time # now.time
  PROVE  /\ Written(was, now, current).time = now.time
         /\ \A f \in DOMAIN now : Written(was, now, current)[f] \in {now[f], current[f]}
<1>1. was # NoRow /\ "time" \in DOMAIN now
  BY NoRowAssumption DEF Mark
<1>2. QED
  BY <1>1 DEF Written

\* What a commit leaves in a cell: the row as it is, or a later mark than the
\* one loaded, over whatever the row holds.
LEMMA CommitCell ==
  ASSUME JudgeInv, NEW w \in Workers, CommitBatch(w), NEW c \in Cells
  PROVE  LET s == session[w]
         IN  /\ s.mine[c] = s.loaded[c] => row'[c] = row[c]
             /\ s.mine[c] # s.loaded[c] =>
                   /\ s.mine[c] \in s.merged /\ s.mine[c].cell = c
                   /\ c \in CellsOf(s.req)
                   /\ row'[c] \in Mark /\ row'[c].time = s.mine[c].time
                   /\ s.loaded[c] = NoRow => row[c] = NoRow
                   /\ s.loaded[c] # NoRow => s.loaded[c].time < s.mine[c].time
                   /\ s.loaded[c] = row[c] => row'[c] = s.mine[c]
                   /\ \A f \in DOMAIN s.mine[c] :
                         row'[c][f] \in {s.mine[c][f], row[c][f]}
<1> DEFINE s == session[w]
           was == s.loaded[c]
           now == s.mine[c]
<1>1. s \in Session /\ JudgedBy(w)
  BY BusySession DEF CommitBatch, At, JudgeInv, TypeInv, AllJudged
<1>2. was \in Mark \cup {NoRow} /\ now \in Mark \cup {NoRow} /\ s.merged \subseteq Mark
      /\ row[c] \in Mark \cup {NoRow}
  BY <1>1 DEF Session, JudgeInv, TypeInv, TypeOK
<1>3. row'[c] = IF now = was THEN row[c] ELSE Written(was, now, row[c])
  BY DEF CommitBatch
<1>4. CASE now = was
  BY <1>3, <1>4
<1>5. CASE now # was
  <2>1. now \in s.merged /\ now.cell = c /\ c \in CellsOf(s.req) /\ now \in Mark
        /\ (was # NoRow => was.time < now.time)
    BY <1>1, <1>2, <1>5 DEF JudgedBy
  <2>2. now # NoRow
    BY <2>1, NoRowAssumption
  <2>3. CASE was = NoRow
    <3>1. row[c] = NoRow
      BY <2>2, <2>3 DEF CommitBatch, Conflict
    <3>2. row'[c] = now
      BY <1>3, <1>5, <2>3 DEF Written
    <3>3. QED
      BY <1>5, <2>1, <2>3, <3>1, <3>2
  <2>4. CASE was # NoRow
    <3>1. was \in Mark /\ row[c] \in Mark
      <4>1. row[c] # NoRow
        BY <2>4 DEF JudgeInv, TypeInv, RowsStay, CommitBatch, At
      <4>2. QED
        BY <1>2, <2>4, <4>1
    <3>2. was.time # now.time
      <4>1. was.time \in Int /\ now.time \in Int /\ was.time < now.time
        BY <2>1, <2>4, <3>1, TimesAssumption DEF Mark
      <4> HIDE DEF was, now
      <4>2. QED
        BY <4>1
    <3>3. row'[c] = Written(was, now, row[c])
      BY <1>3, <1>5
    <3>4. row'[c] \in Mark
      BY <2>1, <3>1, <3>3, WrittenType
    <3>5. row'[c].time = now.time
          /\ \A f \in DOMAIN now : row'[c][f] \in {now[f], row[c][f]}
      <4> HIDE DEF was, now
      <4>1. QED
        BY <2>1, <3>1, <3>2, <3>3, WrittenColumns
    <3>6. was = row[c] => row'[c] = now
      <4> HIDE DEF was, now
      <4>1. QED
        BY <2>1, <3>1, <3>3, WrittenWhole
    <3>7. QED
      BY <1>5, <2>1, <2>4, <3>4, <3>5, <3>6
  <2>5. QED
    BY <2>3, <2>4
<1>6. QED
  BY <1>4, <1>5

\* A commit hides no mark that is not overrun by it.
LEMMA CommitShowsLatest ==
  ASSUME JudgeInv, NEW w \in Workers, CommitBatch(w)
  PROVE  LatestWins'
<1> DEFINE s == session[w]
<1>1. s \in Session /\ JudgedBy(w) /\ ~At(w, "idle")
  BY BusySession DEF CommitBatch, At, JudgeInv, TypeInv, AllJudged
<1>2. heard' = heard \cup s.merged /\ overrun' = overrun \cup Overruns(s)
  BY DEF CommitBatch
<1>3. TypeOK /\ TypeOK'
  BY CommitBatchTypes DEF JudgeInv, TypeInv
<1> SUFFICES ASSUME NEW m \in heard' \ overrun'
             PROVE  Covered(m, row'[m.cell])
  BY DEF LatestWins, Covered
<1> DEFINE c == m.cell
<1>4. m \in Mark /\ c \in Cells /\ \A n \in Mark : n.time \in Int
  BY <1>3, TimesAssumption DEF TypeOK, Mark
<1>5. row'[c] \in Mark \cup {NoRow} /\ row[c] \in Mark \cup {NoRow}
      /\ s.mine[c] \in Mark \cup {NoRow} /\ s.loaded[c] \in Mark \cup {NoRow}
  BY <1>1, <1>3, <1>4 DEF TypeOK, Session
<1>6. m \in s.merged => c \in CellsOf(s.req) /\ Covered(m, s.mine[c])
  BY <1>1 DEF JudgedBy
<1>7. m \notin s.merged => Covered(m, row[c])
  BY <1>2 DEF JudgeInv, LatestWins, Covered
<1>8. s.loaded[c] # NoRow => row[c] # NoRow
  BY <1>1, <1>4 DEF JudgeInv, TypeInv, RowsStay
<1> DEFINE was == s.loaded[c]
           now == s.mine[c]
<1>9. /\ now = was => row'[c] = row[c]
      /\ now # was =>
            /\ c \in CellsOf(s.req)
            /\ row'[c] \in Mark /\ row'[c].time = now.time
            /\ was # NoRow => was.time < now.time
            /\ was = row[c] => row'[c] = now
  BY <1>4, CommitCell
<1>10. row'[c] # NoRow
  <2>1. CASE m \in s.merged
    BY <1>6, <1>8, <1>9, <2>1, NoRowAssumption DEF Covered
  <2>2. CASE m \notin s.merged
    BY <1>7, <1>9, <2>2, NoRowAssumption DEF Covered
  <2>3. QED
    BY <2>1, <2>2
<1>11. CASE c \notin CellsOf(s.req)
  BY <1>6, <1>7, <1>9, <1>11
<1>12. CASE c \in CellsOf(s.req) /\ row[c] # was
  <2>1. ~(row'[c].time < m.time)
    BY <1>2, <1>12 DEF Overruns, Stale
  <2>2. row'[c].time \in Int /\ m.time \in Int
    BY <1>4, <1>5, <1>10
  <2>3. m.time =< row'[c].time
    <3> HIDE DEF c
    <3>1. QED
      BY <2>1, <2>2
  <2>4. QED
    BY <1>10, <2>3 DEF Covered
<1>13. CASE c \in CellsOf(s.req) /\ row[c] = was
  <2>1. m \in s.merged => Covered(m, now)
    BY <1>6
  <2>2. m \notin s.merged => Covered(m, was)
    BY <1>7, <1>13
  <2>3. row'[c] = now
    BY <1>9, <1>13
  <2>4. m.time \in Int /\ (was # NoRow => was.time \in Int) /\ (now # NoRow => now.time \in Int)
    BY <1>4, <1>5
  <2>5. now = was \/ (was # NoRow => was.time < now.time)
    BY <1>9
  <2>6. now # NoRow
    BY <1>10, <2>3
  <2>7. Covered(m, now)
    <3> HIDE DEF was, now, c
    <3>1. QED
      BY <2>1, <2>2, <2>4, <2>5, <2>6 DEF Covered
  <2>8. QED
    BY <2>3, <2>7
<1>14. QED
  BY <1>11, <1>12, <1>13

\* What a worker has looked at after a step.
LEMMA LookedAfter ==
  ASSUME TypeOK, NEW w \in Workers, NEW s, Enter(w, s)
  PROVE  Looked' = [Looked EXCEPT ![w] =
                       IF s.pc \in {"events", "merge"} THEN {s.loaded} ELSE {}]
BY DEF Looked, Enter, TypeOK

\* A commit delivers the marks of its session to the register.
LEMMA CommitDelivers ==
  ASSUME JudgeInv, NEW w \in Workers, CommitBatch(w)
  PROVE  Register!Deliver(w)
<1> DEFINE s == session[w]
<1>1. s \in Session /\ JudgedBy(w) /\ s.pc = "merge"
  BY BusySession DEF CommitBatch, At, JudgeInv, TypeInv, AllJudged
<1>2. heard' = heard \cup s.merged /\ Enter(w, Idle)
  BY DEF CommitBatch
<1>3. TypeOK /\ TypeOK'
  BY CommitBatchTypes DEF JudgeInv, TypeInv
<1>4. heard \subseteq heard' /\ heard' \subseteq Mark /\ row' \in [Cells -> Mark \cup {NoRow}]
  BY <1>2, <1>3 DEF TypeOK
<1>5. Looked' = [Looked EXCEPT ![w] = {}]
  BY <1>2, <1>3, LookedAfter DEF Idle
<1>6. s.loaded \in Looked[w]
  BY <1>1 DEF Looked
<1>7. ASSUME NEW c \in Cells
      PROVE  Register!Kept(c, s.loaded[c]) \/ Register!Taken(c, s.loaded[c])
  <2> DEFINE was == s.loaded[c]
             now == s.mine[c]
  <2>1. \A m \in Register!NewMarks(c) : m \in s.merged /\ m.cell = c /\ Covered(m, now)
    BY <1>1, <1>2 DEF Register!NewMarks, JudgedBy
  <2>2. CASE now = was
    BY <2>1, <2>2, CommitCell DEF Register!Kept, Covered
  <2>3. CASE now # was
    <3>1. /\ now \in s.merged /\ now.cell = c
          /\ row'[c].time = now.time
          /\ was = NoRow => row[c] = NoRow
          /\ was # NoRow => was.time < now.time
          /\ was = row[c] => row'[c] = now
          /\ \A f \in DOMAIN now : row'[c][f] \in {now[f], row[c][f]}
      BY <2>3, CommitCell
    <3>2. now \in heard'
      BY <1>2, <3>1
    <3> HIDE DEF was, now
    <3>3. Register!Taken(c, was)
      BY <2>1, <3>1, <3>2 DEF Register!Taken, Covered
    <3>4. QED
      BY <3>3 DEF was
  <2>4. QED
    BY <2>2, <2>3
<1>8. QED
  BY <1>4, <1>5, <1>6, <1>7 DEF Register!Deliver

\* The register steps the engine takes.
RegisterStep == [Register!RegisterNext]_<<heard, row, Looked>>

LEMMA StepJudges ==
  ASSUME JudgeInv, [Next]_vars
  PROVE  JudgeInv' /\ RegisterStep
<1>1. TypeInv' /\ IdsKept'
  <2>1. TypeInv'
    BY StepTypeInv DEF JudgeInv
  <2>2. CASE UNCHANGED vars
    BY <2>1, <2>2 DEF vars, stored, JudgeInv, IdsKept, IdsKeptBy, At
  <2>3. QED
    BY <2>1, <2>2, StepIdsKept DEF JudgeInv
<1>2. TypeOK /\ TypeInv /\ AllJudged
  BY DEF JudgeInv, TypeInv
<1>3. ASSUME NEW w \in Workers, NEW s, Enter(w, s) PROVE session'[w] = s
  BY <1>2, <1>3 DEF Enter, TypeOK
\* A step that writes nothing and leaves the worker judged.
<1>4. ASSUME NEW w \in Workers, NEW s, Enter(w, s), UNCHANGED <<stored, history>>,
             ~At(w, "idle")' => JudgedBy(w)'
      PROVE  JudgeInv' /\ heard' = heard /\ row' = row
  <2>1. AllJudged'
    BY <1>2, <1>4, OthersKeepJudged
  <2>2. LatestWins'
    BY <1>4 DEF JudgeInv, LatestWins, stored
  <2>3. QED
    BY <1>1, <1>4, <2>1, <2>2 DEF JudgeInv, stored
<1>5. ASSUME NEW w \in Workers, NEW req \in Syncs \cup Onlines, FindBatch(w, req)
      PROVE  JudgeInv' /\ RegisterStep
  <2> DEFINE s == [pc |-> "rows", req |-> req, loaded |-> NoRows, mine |-> NoRows,
                   known |-> {}, fresh |-> {}, left |-> req.events, merged |-> {}]
  <2>1. Enter(w, s) /\ UNCHANGED <<stored, history>> /\ At(w, "idle")
    BY <1>5 DEF FindBatch
  <2>2. session'[w] = s
    BY <1>3, <2>1
  <2>3. JudgedBy(w)'
    BY <2>2 DEF JudgedBy
  <2>4. Looked' = [Looked EXCEPT ![w] = {}]
    BY <1>2, <2>1, LookedAfter
  <2>5. Looked' = Looked
    BY <2>1, <2>4 DEF Looked, At
  <2> HIDE DEF s
  <2>6. JudgeInv' /\ heard' = heard /\ row' = row
    BY <1>4, <2>1, <2>3
  <2>7. QED
    BY <2>5, <2>6 DEF RegisterStep
<1>6. ASSUME NEW w \in Workers, ReadRows(w)
      PROVE  JudgeInv' /\ RegisterStep
  <2> DEFINE old == session[w]
             found == [c \in Cells |-> IF c \in CellsOf(old.req) THEN row[c] ELSE NoRow]
             s == [old EXCEPT !.pc = "events", !.loaded = found, !.mine = found]
  <2>1. Enter(w, s) /\ UNCHANGED <<stored, history>>
    BY <1>6 DEF ReadRows
  <2>2. session'[w] = s
    BY <1>3, <2>1
  <2>3. old \in Session /\ JudgedBy(w) /\ old.pc = "rows"
    BY <1>2, <1>6, BusySession DEF AllJudged, ReadRows, At
  <2> HIDE DEF found
  <2>4. s.pc = "events" /\ s.loaded = found /\ s.mine = found /\ s.merged = {}
    BY <2>3 DEF Session, JudgedBy
  <2> HIDE DEF s
  <2>5. JudgedBy(w)'
    BY <2>2, <2>4 DEF JudgedBy
  <2>6. JudgeInv' /\ heard' = heard /\ row' = row
    BY <1>4, <2>1, <2>5
  <2>7. Looked' = [Looked EXCEPT ![w] = {found}]
    BY <1>2, <2>1, <2>4, LookedAfter
  <2>8. CellsOf(old.req) \in SUBSET Cells
    BY <2>3, RequestType DEF Session
  <2>9. Register!Look(w)
    BY <2>6, <2>7, <2>8 DEF Register!Look, found
  <2>10. QED
    BY <2>6, <2>9 DEF RegisterStep, Register!RegisterNext
<1>7. ASSUME NEW w \in Workers, ReadEvents(w) \/ SkipEvent(w)
      PROVE  JudgeInv' /\ RegisterStep
  <2> DEFINE old == session[w]
  <2>1. old \in Session /\ JudgedBy(w) /\ old.pc \in {"events", "merge"}
    BY <1>2, <1>7, BusySession DEF AllJudged, ReadEvents, SkipEvent, At
  <2>2. PICK s : /\ Enter(w, s) /\ UNCHANGED <<stored, history>>
                 /\ s.pc = "merge" /\ s.req = old.req /\ s.loaded = old.loaded
                 /\ s.mine = old.mine /\ s.merged = old.merged
    <3>1. CASE ReadEvents(w)
      <4> DEFINE s == [old EXCEPT !.pc = "merge", !.known = StoredIds(old.req)]
      <4>1. Enter(w, s) /\ UNCHANGED <<stored, history>>
        BY <3>1 DEF ReadEvents
      <4>2. s.pc = "merge" /\ s.req = old.req /\ s.loaded = old.loaded
            /\ s.mine = old.mine /\ s.merged = old.merged
        BY <2>1 DEF Session
      <4> HIDE DEF s
      <4>3. QED
        BY <4>1, <4>2
    <3>2. CASE SkipEvent(w)
      <4> DEFINE s == [old EXCEPT !.left = Tail(@)]
      <4>1. Enter(w, s) /\ UNCHANGED <<stored, history>> /\ old.pc = "merge"
        BY <3>2 DEF SkipEvent, At
      <4>2. s.pc = old.pc /\ s.req = old.req /\ s.loaded = old.loaded
            /\ s.mine = old.mine /\ s.merged = old.merged
        BY <2>1 DEF Session
      <4> HIDE DEF s
      <4>3. QED
        BY <4>1, <4>2
    <3>3. QED
      BY <1>7, <3>1, <3>2
  <2>3. session'[w] = s
    BY <1>3, <2>2
  <2> HIDE DEF old
  <2>4. JudgedBy(w)'
    <3>1. old.pc # "merge" => old.mine = old.loaded /\ old.merged = {}
      BY <2>1 DEF JudgedBy, old
    <3>2. QED
      BY <2>1, <2>2, <2>3 DEF JudgedBy, old
  <2>5. JudgeInv' /\ heard' = heard /\ row' = row
    BY <1>4, <2>2, <2>4
  <2>6. Looked' = [Looked EXCEPT ![w] = {old.loaded}]
    BY <1>2, <2>2, LookedAfter
  <2>7. Looked' = Looked
    BY <2>1, <2>6 DEF Looked, old
  <2>8. QED
    BY <2>5, <2>7 DEF RegisterStep
<1>8. ASSUME NEW w \in Workers, MergeEvent(w)
      PROVE  JudgeInv' /\ RegisterStep
  <2>1. PICK s \in Session, e \in Event, m \in Mark : Enter(w, s) /\ Merges(w, s, e, m)
    BY <1>2, <1>8, MergeEventShape
  <2>2. UNCHANGED <<stored, history>> /\ session[w].pc = "merge"
    BY <1>8 DEF MergeEvent, At
  <2>3. JudgedBy(w)'
    BY <1>8, MergeJudges
  <2>4. JudgeInv' /\ heard' = heard /\ row' = row
    BY <1>4, <2>1, <2>2, <2>3
  <2>5. Looked' = [Looked EXCEPT ![w] = {session[w].loaded}]
    BY <1>2, <2>1, LookedAfter DEF Merges
  <2>6. Looked' = Looked
    BY <2>2, <2>5 DEF Looked
  <2>7. QED
    BY <2>4, <2>6 DEF RegisterStep
<1>9. ASSUME NEW w \in Workers, CommitBatch(w)
      PROVE  JudgeInv' /\ RegisterStep
  <2>1. Enter(w, Idle)
    BY <1>9 DEF CommitBatch
  <2>2. ~(~At(w, "idle")')
    BY <1>3, <2>1 DEF At, Idle
  <2>3. AllJudged'
    BY <1>2, <2>1, <2>2, OthersKeepJudged
  <2>4. LatestWins' /\ Register!Deliver(w)
    BY <1>9, CommitShowsLatest, CommitDelivers
  <2>5. QED
    BY <1>1, <2>3, <2>4 DEF JudgeInv, RegisterStep, Register!RegisterNext
<1>10. ASSUME NEW w \in Workers, RefuseBatch(w) \/ LoseSession(w)
       PROVE  JudgeInv' /\ RegisterStep
  <2>1. Enter(w, Idle) /\ UNCHANGED <<stored, history>>
    BY <1>10 DEF RefuseBatch, LoseSession
  <2>2. ~(~At(w, "idle")')
    BY <1>3, <2>1 DEF At, Idle
  <2>3. JudgeInv' /\ heard' = heard /\ row' = row
    BY <1>4, <2>1, <2>2
  <2>4. Looked' = [Looked EXCEPT ![w] = {}]
    BY <1>2, <2>1, LookedAfter DEF Idle
  <2>5. Register!Forget(w)
    BY <2>3, <2>4 DEF Register!Forget
  <2>6. QED
    BY <2>3, <2>5 DEF RegisterStep, Register!RegisterNext
<1>11. ASSUME UNCHANGED vars
       PROVE  JudgeInv' /\ RegisterStep
  <2>1. AllJudged' /\ LatestWins'
    BY <1>11 DEF vars, stored, JudgeInv, AllJudged, JudgedBy, LatestWins, At
  <2>2. UNCHANGED <<heard, row, Looked>>
    BY <1>11 DEF vars, stored, Looked
  <2>3. QED
    BY <1>1, <2>1, <2>2 DEF JudgeInv, RegisterStep
<1>12. QED
  BY <1>5, <1>6, <1>7, <1>8, <1>9, <1>10, <1>11
  DEF Next, Work, AnswerRecorded

LEMMA InitJudges == Init => JudgeInv /\ Register!RegisterInit
<1> SUFFICES ASSUME Init PROVE JudgeInv /\ Register!RegisterInit
  OBVIOUS
<1>1. TypeInv
  BY InitTypeInv
<1>2. IdsKept /\ AllJudged
  BY DEF Init, At, Idle, IdsKept, AllJudged
<1>3. LatestWins
  BY DEF Init, LatestWins
<1>4. Looked = [w \in Workers |-> {}]
  BY DEF Init, Looked, Idle
<1>5. Register!RegisterInit
  BY <1>4 DEF Init, Register!RegisterInit, NoRows
<1>6. QED
  BY <1>1, <1>2, <1>3, <1>5 DEF JudgeInv

\* However syncs and online marking overlap in the loop and the pool threads, a
\* mark older than an accepted one is shown only after the commit of a session
\* that had read the cell before another request changed it.
THEOREM LatestMarkWins == Spec => []LatestWins
<1>1. JudgeInv /\ [Next]_vars => JudgeInv'
  BY StepJudges
<1>2. JudgeInv => LatestWins
  BY DEF JudgeInv
<1>3. QED
  BY <1>1, <1>2, InitJudges, PTL DEF Spec

\* The engine, with any pool threads, implements the register: batches arrive
\* whole, and each is judged by what its worker had looked at.
THEOREM RegisterImplemented == Spec => ImplementsRegister
<1>1. JudgeInv /\ [Next]_vars => JudgeInv'
  BY StepJudges
<1>2. JudgeInv /\ [Next]_vars => [Register!RegisterNext]_<<heard, row, Looked>>
  BY StepJudges DEF RegisterStep
<1>3. QED
  BY <1>1, <1>2, InitJudges, PTL
  DEF Spec, ImplementsRegister, Register!RegisterSpec, Register!registerVars

-----------------------------------------------------------------------------
\* The event loop alone is never stale: it works on one batch at a time.

LoopIsFresh ==
    /\ overrun = {}
    /\ session[Loop].pc \in {"events", "merge"} => Stale(session[Loop]) = {}

LEMMA StepLoopIsFresh ==
  ASSUME Threads = {}, TypeInv, LoopIsFresh, [Next]_vars
  PROVE  LoopIsFresh'
<1>1. TypeOK /\ \A w \in Workers : w = Loop
  BY DEF TypeInv
<1>2. ASSUME NEW s, Enter(Loop, s) PROVE session'[Loop] = s
  BY <1>1, <1>2 DEF Enter, TypeOK
<1>3. ASSUME NEW req \in Syncs \cup Onlines, FindBatch(Loop, req)
      PROVE  LoopIsFresh'
  <2>1. session'[Loop].pc = "rows" /\ overrun' = overrun
    BY <1>2, <1>3 DEF FindBatch
  <2>2. QED
    BY <2>1 DEF LoopIsFresh
<1>4. ASSUME ReadRows(Loop) PROVE LoopIsFresh'
  <2> DEFINE old == session[Loop]
             found == [c \in Cells |-> IF c \in CellsOf(old.req) THEN row[c] ELSE NoRow]
             s == [old EXCEPT !.pc = "events", !.loaded = found, !.mine = found]
  <2>1. Enter(Loop, s) /\ UNCHANGED <<stored, history>>
    BY <1>4 DEF ReadRows
  <2>2. session'[Loop] = s /\ row' = row /\ overrun' = overrun
    BY <1>2, <2>1 DEF stored
  <2>3. old \in Session
    BY <1>1, <1>4, BusySession DEF ReadRows, At
  <2>4. CellsOf(old.req) \subseteq Cells
    BY <2>3, RequestType DEF Session
  <2> HIDE DEF found
  <2>5. s.req = old.req /\ s.loaded = found
    BY <2>3 DEF Session
  <2> HIDE DEF s
  <2>6. \A c \in CellsOf(s.req) : row'[c] = s.loaded[c]
    BY <2>2, <2>4, <2>5 DEF found
  <2>7. Stale(session[Loop])' = {}
    BY <2>2, <2>6 DEF Stale
  <2>8. QED
    BY <2>2, <2>7 DEF LoopIsFresh
<1>5. ASSUME NEW s, Enter(Loop, s), UNCHANGED <<stored, history>>,
             session[Loop].pc \in {"events", "merge"},
             s.req = session[Loop].req, s.loaded = session[Loop].loaded
      PROVE  LoopIsFresh'
  <2>1. session'[Loop] = s
    BY <1>2, <1>5
  <2>2. row' = row /\ overrun' = overrun
    BY <1>5 DEF stored
  <2>3. QED
    BY <1>5, <2>1, <2>2 DEF LoopIsFresh, Stale
<1>6. ASSUME ReadEvents(Loop) PROVE LoopIsFresh'
  <2> DEFINE old == session[Loop]
             s == [old EXCEPT !.pc = "merge", !.known = StoredIds(old.req)]
  <2>1. Enter(Loop, s) /\ UNCHANGED <<stored, history>> /\ old.pc = "events"
    BY <1>6 DEF ReadEvents, At
  <2>2. old \in Session
    BY <1>1, <2>1, BusySession
  <2>3. s.req = old.req /\ s.loaded = old.loaded
    BY <2>2 DEF Session
  <2> HIDE DEF s
  <2>4. QED
    BY <1>5, <2>1, <2>3
<1>7. ASSUME SkipEvent(Loop) PROVE LoopIsFresh'
  <2> DEFINE old == session[Loop]
             s == [old EXCEPT !.left = Tail(@)]
  <2>1. Enter(Loop, s) /\ UNCHANGED <<stored, history>> /\ old.pc = "merge"
    BY <1>7 DEF SkipEvent, At
  <2>2. old \in Session
    BY <1>1, <2>1, BusySession
  <2>3. s.req = old.req /\ s.loaded = old.loaded
    BY <2>2 DEF Session
  <2> HIDE DEF s
  <2>4. QED
    BY <1>5, <2>1, <2>3
<1>8. ASSUME MergeEvent(Loop) PROVE LoopIsFresh'
  <2>1. PICK s \in Session, e \in Event, m \in Mark :
          Enter(Loop, s) /\ Merges(Loop, s, e, m)
    BY <1>1, <1>8, MergeEventShape
  <2>2. UNCHANGED <<stored, history>> /\ session[Loop].pc = "merge"
    BY <1>8 DEF MergeEvent, At
  <2>3. QED
    BY <1>5, <2>1, <2>2 DEF Merges
<1>9. ASSUME CommitBatch(Loop) PROVE LoopIsFresh'
  <2>1. session'[Loop].pc = "idle"
    BY <1>2, <1>9 DEF CommitBatch, Idle
  <2>2. Stale(session[Loop]) = {}
    BY <1>9 DEF LoopIsFresh, CommitBatch, At
  <2>3. overrun' = overrun
    BY <1>9, <2>2 DEF CommitBatch, Overruns
  <2>4. QED
    BY <2>1, <2>3 DEF LoopIsFresh
<1>10. ASSUME RefuseBatch(Loop) \/ LoseSession(Loop) PROVE LoopIsFresh'
  <2>1. session'[Loop].pc = "idle" /\ overrun' = overrun
    BY <1>2, <1>10 DEF RefuseBatch, LoseSession, Idle
  <2>2. QED
    BY <2>1 DEF LoopIsFresh
<1>11. ASSUME UNCHANGED vars PROVE LoopIsFresh'
  BY <1>11 DEF vars, stored, LoopIsFresh, Stale
<1>12. QED
  BY <1>1, <1>3, <1>4, <1>6, <1>7, <1>8, <1>9, <1>10, <1>11
  DEF Next, Work, AnswerRecorded

\* Where POST /attendance/records is not served beside it, the event loop keeps
\* the whole claim of the source: no cell ever shows a mark older than one
\* accepted for it.
THEOREM LoopShowsLatest == ASSUME Threads = {} PROVE Spec => []LatestMarkShown
<1>1. Init => TypeInv /\ LoopIsFresh
  BY InitTypeInv DEF Init, LoopIsFresh, Idle
<1>2. TypeInv /\ LoopIsFresh /\ [Next]_vars => TypeInv' /\ LoopIsFresh'
  BY StepTypeInv, StepLoopIsFresh
<1>3. LoopIsFresh /\ LatestWins => LatestMarkShown
  BY DEF LoopIsFresh, LatestWins, LatestMarkShown
<1>4. QED
  BY <1>1, <1>2, <1>3, LatestMarkWins, PTL DEF Spec
===============================================================================
