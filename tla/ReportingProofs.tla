---------------------------- MODULE ReportingProofs ----------------------------
(* Theorems about four parts that deliver what others hand to them.           *)
(*                                                                            *)
(* ReportingPipeline, for every set of events and schools and any file size:  *)
(* its types, that the projections are the fold of the inbox while one writer *)
(* works at a time, and that nothing behind the committed offset is skipped.  *)
(*                                                                            *)
(* GatewayBreaker, for any thresholds, number of attempts and overlap of      *)
(* calls: the breaker counts what it should.                                  *)
(*                                                                            *)
(* Deliveries, for any outbox, workers and limits: what waits is taken again, *)
(* and what is shown as sent was handed out.                                  *)
(*                                                                            *)
(* GatewayDoor, for any requests, callers, limits and windows: the limiter,   *)
(* the metrics and readiness keep their word.                                 *)
EXTENDS ReportingPipeline, GatewayBreaker, Deliveries, GatewayDoor, TLAPS, FiniteSetTheorems

\* While no two writers have overlapped, at most one has a session open.
Alone == ~mixed => ~(Open("consumer") /\ Open("tool"))

\* What a lone writer read still holds: its events are not in the inbox, its rows are
\* those of the tables.
FreshReads ==
    ~mixed => \A w \in Writers : session[w].op = "counting" =>
        /\ session[w].batch \cap inbox = {}
        /\ \A s \in Loaded(w) : session[w].rows[s] = stats[s]

\* The consumer's session is about the message after its position.
Handles ==
    /\ session["consumer"].op # "rebuilding"
    /\ session["consumer"].op = "counting" =>
           position < Len(log) /\ session["consumer"].batch = {log[position + 1]}

\* Nothing the consumer has been through is skipped, whether its offset landed or not.
PassedOver ==
    \A i \in 1..position : KindOf[log[i]] = "good" => log[i] \in inbox \cup excused

PipelineInv ==
    ReportingTypeOK /\ Alone /\ FreshReads /\ ProjectionIsFold /\ Handles /\ PassedOver

USE DEF Writers

LEMMA ReportingInitOK == ReportingInit => PipelineInv
<1> SUFFICES ASSUME ReportingInit PROVE PipelineInv  OBVIOUS
<1> USE ReportingAssumption DEF ReportingInit
<1>1. ReportingTypeOK
  <2>1. log \in Seq(Events) /\ position \in 0..Len(log) /\ offset \in 0..position
    OBVIOUS
  <2>2. session \in [Writers -> Session] /\ stats \in [Schools -> Rows \cup {NoRow}]
    BY DEF Session, Closed, NoneRead
  <2> QED  BY <2>1, <2>2 DEF ReportingTypeOK
<1>2. Alone /\ FreshReads /\ Handles /\ PassedOver
  BY DEF Alone, FreshReads, Handles, PassedOver, Open, Closed, Loaded
<1>3. ProjectionIsFold
  BY DEF ProjectionIsFold, RowOf, Fold, Blank
<1> QED  BY <1>1, <1>2, <1>3 DEF PipelineInv

\* A step that leaves the tables alone keeps the fold.
LEMMA FoldKept ==
    ASSUME ProjectionIsFold, mixed => mixed', UNCHANGED <<stats, inbox>>
    PROVE  ProjectionIsFold'
BY DEF ProjectionIsFold, RowOf, Fold

LEMMA PublishOK ==
    ASSUME PipelineInv, NEW e \in Events, Publish(e) PROVE PipelineInv'
<1> USE DEF PipelineInv, Publish
<1>1. log' \in Seq(Events) /\ Len(log') = Len(log) + 1
      /\ \A i \in 1..Len(log) : log'[i] = log[i]
  BY DEF ReportingTypeOK
<1>2. ReportingTypeOK'
  BY <1>1 DEF ReportingTypeOK
<1>3. Alone' /\ FreshReads'
  BY DEF Alone, FreshReads, Open, Loaded
<1>4. ProjectionIsFold'
  BY FoldKept
<1>5. Handles'
  BY <1>1 DEF Handles, ReportingTypeOK
<1>6. PassedOver'
  BY <1>1 DEF PassedOver, ReportingTypeOK
<1> QED  BY <1>2, <1>3, <1>4, <1>5, <1>6

LEMMA PassOK == ASSUME PipelineInv, Pass PROVE PipelineInv'
<1> USE DEF PipelineInv, Pass
<1>1. ReportingTypeOK'
  BY DEF ReportingTypeOK, Waiting, Done
<1>2. Alone' /\ FreshReads'
  BY DEF Alone, FreshReads, Open, Loaded
<1>3. ProjectionIsFold'
  BY FoldKept
<1>4. Handles'
  <2>1. session["consumer"].op = "closed"
    BY DEF Waiting, Open
  <2> QED  BY <2>1 DEF Handles
<1>5. PassedOver'
  <2>1. KindOf[log[position + 1]] = "good" => log[position + 1] \in inbox
    BY DEF Message
  <2> QED  BY <2>1 DEF PassedOver, Done, ReportingTypeOK
<1> QED  BY <1>1, <1>2, <1>3, <1>4, <1>5

LEMMA TakeOK == ASSUME PipelineInv, Take PROVE PipelineInv'
<1> USE DEF PipelineInv, Take
<1>1. position < Len(log) /\ Message \in Events /\ session["consumer"].op = "closed"
  BY DEF Waiting, Open, Message, ReportingTypeOK
<1> DEFINE new == [op |-> "counting", batch |-> {Message}, rows |-> NoneRead]
<1>2. session' = [session EXCEPT !["consumer"] = new] /\ new \in Session
  BY <1>1 DEF Begin, Session, NoneRead
<1>3. session'["consumer"] = new /\ session'["tool"] = session["tool"]
  BY <1>2 DEF ReportingTypeOK
<1>4. ReportingTypeOK'
  BY <1>2 DEF ReportingTypeOK, Begin
<1>5. Alone'
  BY <1>3 DEF Alone, Begin, Open
<1>6. FreshReads'
  <2> SUFFICES ASSUME ~mixed', NEW w \in Writers, session'[w].op = "counting"
               PROVE  /\ session'[w].batch \cap inbox = {}
                      /\ \A s \in Loaded(w)' : session'[w].rows[s] = stats[s]
    BY DEF FreshReads
  <2>1. CASE w = "consumer"
    <3>1. Loaded(w)' = {}
      BY <2>1, <1>3 DEF Loaded, NoneRead
    <3> QED  BY <3>1, <2>1, <1>3
  <2>2. CASE w = "tool"
    BY <2>2, <1>3 DEF Begin, Open
  <2> QED  BY <2>1, <2>2
<1>7. ProjectionIsFold'
  BY FoldKept DEF Begin
<1>8. Handles' /\ PassedOver'
  BY <1>1, <1>3 DEF Handles, PassedOver, Message
<1> QED  BY <1>4, <1>5, <1>6, <1>7, <1>8

LEMMA OffsetLandsOK == ASSUME PipelineInv, OffsetLands PROVE PipelineInv'
<1> USE DEF PipelineInv, OffsetLands
<1>1. ReportingTypeOK'
  BY DEF ReportingTypeOK
<1>2. Alone' /\ FreshReads' /\ Handles' /\ PassedOver'
  BY DEF Alone, FreshReads, Open, Loaded, Handles, PassedOver
<1> QED  BY <1>1, <1>2, FoldKept

LEMMA ConsumerRestartsOK == ASSUME PipelineInv, ConsumerRestarts PROVE PipelineInv'
<1> USE DEF PipelineInv, ConsumerRestarts, End
<1>1. Closed \in Session
  BY DEF Closed, Session, NoneRead
<1>2. session'["consumer"] = Closed /\ session'["tool"] = session["tool"]
  BY DEF ReportingTypeOK
<1>3. ReportingTypeOK'
  BY <1>1 DEF ReportingTypeOK
<1>4. Alone' /\ FreshReads' /\ Handles'
  BY <1>2 DEF Alone, FreshReads, Handles, Open, Loaded, Closed
<1>5. PassedOver'
  BY DEF PassedOver, ReportingTypeOK
<1> QED  BY <1>3, <1>4, <1>5, FoldKept

\* A tool's session that begins to count events that are not in the inbox.
LEMMA ToolBeginsOK ==
    ASSUME PipelineInv, NEW E \in SUBSET Events, E \cap inbox = {}, Begin("tool", E),
           UNCHANGED <<log, position, offset, inbox, stats, excused>>
    PROVE  PipelineInv'
<1> USE DEF PipelineInv
<1> DEFINE new == [op |-> "counting", batch |-> E, rows |-> NoneRead]
<1>2. session' = [session EXCEPT !["tool"] = new] /\ new \in Session
  BY DEF Begin, Session, NoneRead
<1>3. session'["tool"] = new /\ session'["consumer"] = session["consumer"]
  BY <1>2 DEF ReportingTypeOK
<1>4. ReportingTypeOK'
  BY <1>2 DEF ReportingTypeOK, Begin
<1>5. Alone'
  BY <1>3 DEF Alone, Begin, Open
<1>6. FreshReads'
  <2> SUFFICES ASSUME ~mixed', NEW w \in Writers, session'[w].op = "counting"
               PROVE  /\ session'[w].batch \cap inbox = {}
                      /\ \A s \in Loaded(w)' : session'[w].rows[s] = stats[s]
    BY DEF FreshReads
  <2>1. CASE w = "tool"
    <3>1. Loaded(w)' = {}
      BY <2>1, <1>3 DEF Loaded, NoneRead
    <3> QED  BY <3>1, <2>1, <1>3
  <2>2. CASE w = "consumer"
    BY <2>2, <1>3 DEF Begin, Open
  <2> QED  BY <2>1, <2>2
<1>7. ProjectionIsFold'
  BY FoldKept DEF Begin
<1>8. Handles' /\ PassedOver'
  BY <1>3 DEF Handles, PassedOver
<1> QED  BY <1>4, <1>5, <1>6, <1>7, <1>8

LEMMA WipeOK == ASSUME PipelineInv, Wipe PROVE PipelineInv'
<1> USE DEF PipelineInv, Wipe
<1> DEFINE new == [op |-> "rebuilding", batch |-> Published, rows |-> NoneRead]
<1>1. new \in Session
  BY DEF Session, NoneRead, Published, ReportingTypeOK
<1>2. session'["tool"] = new /\ session'["consumer"] = session["consumer"]
  BY DEF ReportingTypeOK
<1>3. ReportingTypeOK'
  BY <1>1 DEF ReportingTypeOK
<1>4. ~mixed' => session'["consumer"].op = "closed"
  BY <1>2 DEF Open
<1>7. Alone' /\ FreshReads'
  BY <1>2, <1>4 DEF Alone, FreshReads, Open
<1>5. ProjectionIsFold'
  BY DEF ProjectionIsFold, RowOf, Fold, Blank
<1>6. Handles' /\ PassedOver'
  BY <1>2 DEF Handles, PassedOver
<1> QED  BY <1>3, <1>5, <1>6, <1>7

LEMMA LoadOK ==
    ASSUME PipelineInv, NEW w \in Writers, NEW s \in Schools, Load(w, s)
    PROVE  PipelineInv'
<1> USE DEF PipelineInv, Load
<1> DEFINE new == [session[w] EXCEPT !.rows[s] = stats[s]]
<1>1. session[w] \in Session /\ stats[s] \in Rows \cup {NoRow}
  BY DEF ReportingTypeOK
<1>2. new \in Session
  BY <1>1 DEF Session
<1>3. session' = [session EXCEPT ![w] = new]
  OBVIOUS
<1>4. \A v \in Writers : session'[v] = IF v = w THEN new ELSE session[v]
  BY DEF ReportingTypeOK
<1>5. \A v \in Writers : session'[v].op = session[v].op /\ session'[v].batch = session[v].batch
  BY <1>1, <1>4 DEF Session
<1>6. ReportingTypeOK'
  BY <1>2, <1>3 DEF ReportingTypeOK
<1>7. Alone' /\ Handles' /\ PassedOver'
  BY <1>5 DEF Alone, Handles, PassedOver, Open
<1>8. FreshReads'
  <2> SUFFICES ASSUME ~mixed, NEW v \in Writers, session'[v].op = "counting"
               PROVE  /\ session'[v].batch \cap inbox = {}
                      /\ \A t \in Loaded(v)' : session'[v].rows[t] = stats[t]
    BY DEF FreshReads
  <2>1. session[v].batch \cap inbox = {}
        /\ \A t \in Loaded(v) : session[v].rows[t] = stats[t]
    BY <1>5 DEF FreshReads
  <2>2. CASE v # w
    BY <2>1, <2>2, <1>4 DEF Loaded
  <2>3. CASE v = w
    <3>1. \A t \in Schools : session'[v].rows[t]
                                 = IF t = s THEN stats[s] ELSE session[v].rows[t]
      BY <1>1, <1>4, <2>3 DEF Session
    <3> QED  BY <3>1, <2>1, <1>5 DEF Loaded
  <2> QED  BY <2>2, <2>3
<1> QED  BY <1>6, <1>7, <1>8, FoldKept

LEMMA FailOK == ASSUME PipelineInv, NEW w \in Writers, Fail(w) PROVE PipelineInv'
<1> USE DEF PipelineInv, Fail, End
<1>1. Closed \in Session
  BY DEF Closed, Session, NoneRead
<1>2. \A v \in Writers : session'[v] = IF v = w THEN Closed ELSE session[v]
  BY DEF ReportingTypeOK
<1>3. CASE w = "consumer"
  <2>1. position < Len(log) /\ session["consumer"].batch = {log[position + 1]}
    BY <1>3 DEF Handles, Open, ReportingTypeOK, Session
  <2>2. ReportingTypeOK'
    BY <1>1, <1>3, <2>1 DEF ReportingTypeOK, Done
  <2>3. PassedOver'
    BY <1>3, <2>1 DEF PassedOver, ReportingTypeOK, Done
  <2> QED  BY <1>2, <1>3, <2>2, <2>3, FoldKept
           DEF Alone, FreshReads, Handles, Open, Loaded, Closed
<1>4. CASE w = "tool"
  <2>1. ReportingTypeOK'
    BY <1>1, <1>4 DEF ReportingTypeOK
  <2> QED  BY <1>2, <1>4, <2>1, FoldKept
           DEF Alone, FreshReads, Handles, PassedOver, Open, Loaded, Closed
<1> QED  BY <1>3, <1>4

\* What a commit writes for a school it has read.
LEMMA CountedIsRow ==
    ASSUME ReportingTypeOK, NEW w \in Writers, NEW s \in Loaded(w)
    PROVE  Counted(w, s) \in Rows /\ Counted(w, s) # NoRow
<1>1. session[w].rows[s] \in Rows \cup {NoRow}
  BY DEF ReportingTypeOK, Session, Loaded
<1>2. (IF session[w].rows[s] = NoRow THEN Blank ELSE session[w].rows[s]) \in Rows
  BY <1>1 DEF Blank, Rows
<1>3. Counted(w, s) \in Rows
  BY <1>2 DEF Counted, Rows
<1> QED  BY <1>3, ReportingAssumption DEF Rows

LEMMA CommitOK == ASSUME PipelineInv, NEW w \in Writers, Commit(w) PROVE PipelineInv'
<1> USE DEF PipelineInv, Commit
<1>1. Closed \in Session /\ session[w] \in Session
  BY DEF Closed, Session, NoneRead, ReportingTypeOK
<1>2. \A v \in Writers : session'[v] = IF v = w THEN Closed ELSE session[v]
  BY DEF ReportingTypeOK, End
<1>3. session[w].op = "counting" /\ Loaded(w) = SchoolsOf(session[w].batch)
  BY DEF AllLoaded
<1>4. w = "consumer" =>
          position < Len(log) /\ session[w].batch = {log[position + 1]}
  BY <1>3 DEF Handles
<1>5. ReportingTypeOK'
  <2>1. stats' \in [Schools -> Rows \cup {NoRow}]
    BY CountedIsRow DEF ReportingTypeOK
  <2>2. inbox' \in SUBSET Events
    BY <1>1 DEF Session, ReportingTypeOK
  <2>3. session' \in [Writers -> Session]
    BY <1>1 DEF ReportingTypeOK, End
  <2>4. position' \in 0..Len(log) /\ offset \in 0..position'
    BY <1>4 DEF ReportingTypeOK, Done
  <2> QED  BY <2>1, <2>2, <2>3, <2>4 DEF ReportingTypeOK
<1>6. Alone'
  BY <1>2 DEF Alone, Open, Closed
<1>7. FreshReads'
  <2> SUFFICES ASSUME ~mixed, NEW v \in Writers, session'[v].op = "counting" PROVE FALSE
    BY DEF FreshReads
  <2>1. v # w
    BY <1>2 DEF Closed
  <2>2. Open(v) /\ Open(w)
    BY <1>2, <1>3, <2>1 DEF Open
  <2> QED  BY <2>1, <2>2 DEF Alone
<1>8. ProjectionIsFold'
  <2> SUFFICES ASSUME ~mixed, NEW s \in Schools PROVE RowOf(s)' = Fold(s)'
    BY DEF ProjectionIsFold
  <2>1. RowOf(s) = Fold(s)
    BY DEF ProjectionIsFold
  <2>2. session[w].batch \cap inbox = {} /\ session[w].batch \subseteq Events
    BY <1>1, <1>3 DEF FreshReads, Session
  <2>3. CASE s \in Loaded(w)
    <3>1. RowOf(s)' = Counted(w, s)
      BY <2>3, CountedIsRow DEF RowOf
    <3>2. session[w].rows[s] = stats[s]
      BY <1>3, <2>3 DEF FreshReads
    <3>3. Counted(w, s) =
             [e \in Events |-> IF e \in session[w].batch /\ SchoolOf[e] = s
                               THEN Fold(s)[e] + 1 ELSE Fold(s)[e]]
      BY <2>1, <3>2 DEF Counted, RowOf
    <3>4. \A e \in Events : (IF e \in session[w].batch /\ SchoolOf[e] = s
                             THEN Fold(s)[e] + 1 ELSE Fold(s)[e])
                   = (IF e \in inbox \cup session[w].batch /\ SchoolOf[e] = s THEN 1 ELSE 0)
      BY <2>2 DEF Fold
    <3> QED  BY <3>1, <3>3, <3>4 DEF Fold
  <2>4. CASE s \notin Loaded(w)
    <3>1. RowOf(s)' = RowOf(s)
      BY <2>4 DEF RowOf
    <3>2. \A e \in session[w].batch : SchoolOf[e] # s
      BY <1>3, <2>4 DEF SchoolsOf
    <3> QED  BY <2>1, <3>1, <3>2 DEF Fold
  <2> QED  BY <2>3, <2>4
<1>9. Handles'
  <2>1. CASE w = "consumer"
    BY <2>1, <1>2 DEF Handles, Closed
  <2>2. CASE w = "tool"
    BY <2>2, <1>2 DEF Handles
  <2> QED  BY <2>1, <2>2
<1>10. PassedOver'
  <2>1. CASE w = "consumer"
    BY <2>1, <1>4 DEF PassedOver, Done, ReportingTypeOK
  <2>2. CASE w = "tool"
    BY <2>2 DEF PassedOver
  <2> QED  BY <2>1, <2>2
<1> QED  BY <1>5, <1>6, <1>7, <1>8, <1>9, <1>10

LEMMA ReportingNextOK == PipelineInv /\ [ReportingNext]_vars => PipelineInv'
<1> SUFFICES ASSUME PipelineInv, [ReportingNext]_vars PROVE PipelineInv'
  OBVIOUS
<1>1. ASSUME NEW e \in Events, Publish(e) PROVE PipelineInv'
  BY <1>1, PublishOK
<1>2. CASE Consumes
  BY <1>2, TakeOK, PassOK, CommitOK, LoadOK, FailOK DEF Consumes
<1>3. CASE OffsetLands \/ ConsumerRestarts \/ Fail("consumer")
  BY <1>3, OffsetLandsOK, ConsumerRestartsOK, FailOK
<1>4. CASE ToolNext
  <2>0. Published \subseteq Events
    BY DEF PipelineInv, ReportingTypeOK, Published
  <2>1. ASSUME NEW E \in SUBSET Published, ConsumeChunk(E) PROVE PipelineInv'
    BY <2>0, <2>1, ToolBeginsOK DEF ConsumeChunk, Good
  <2>2. CASE Replay
    <3>1. session["tool"].batch \subseteq Events
      BY DEF PipelineInv, ReportingTypeOK, Session
    <3> QED  BY <3>1, <2>2, ToolBeginsOK DEF Replay, Good
  <2> QED  BY <1>4, <2>1, <2>2, WipeOK, CommitOK, FailOK, LoadOK DEF ToolNext
<1>5. CASE UNCHANGED vars
  BY <1>5 DEF vars, PipelineInv, ReportingTypeOK, Alone, FreshReads, ProjectionIsFold, Handles,
              PassedOver, Open, Loaded, RowOf, Fold
<1> QED  BY <1>1, <1>2, <1>3, <1>4, <1>5 DEF ReportingNext

\* The inductive invariant holds in every reachable state.
THEOREM PipelineInvariant == ReportingSpec => []PipelineInv
<1> QED  BY ReportingInitOK, ReportingNextOK, PTL DEF ReportingSpec

\* Every variable keeps its type and the offset never overtakes the consumer.
THEOREM ReportingTypes == ReportingSpec => []ReportingTypeOK
<1>1. PipelineInv => ReportingTypeOK  BY DEF PipelineInv
<1> QED  BY <1>1, PipelineInvariant, PTL

\* While one writer works at a time the projections count exactly the inbox, each event
\* once.
THEOREM ProjectionIsFoldHolds == ReportingSpec => []ProjectionIsFold
<1>1. PipelineInv => ProjectionIsFold  BY DEF PipelineInv
<1> QED  BY <1>1, PipelineInvariant, PTL

\* No event with a handler behind the committed offset is skipped, whatever restarts,
\* rebuilds and overlaps there were.
THEOREM NothingSkippedHolds == ReportingSpec => []NothingSkipped
<1>1. PipelineInv => NothingSkipped
  BY DEF PipelineInv, PassedOver, NothingSkipped, ReportingTypeOK
<1> QED  BY <1>1, PipelineInvariant, PTL
-----------------------------------------------------------------------------
\* The breaker of the gateway.


Circuits == [state : {"closed", "open", "half open"}, failures : 0..FailureThreshold,
             successes : 0..(SuccessThreshold - 1)]
Flights == [attempt : Nat, last : Nat]

\* Every variable of the breaker keeps its type; nothing counts past its threshold.
GatewayTypeOK ==
    /\ circuit \in Circuits /\ cooled \in BOOLEAN
    /\ call \in [Calls -> Flights] /\ streak \in 0..FailureThreshold

\* BreakerAgrees is inductive once the types are known.
BreakerInv == GatewayTypeOK /\ BreakerAgrees

LEMMA Thresholds ==
    /\ 0 < FailureThreshold /\ 0 \in 0..FailureThreshold
    /\ 0 < SuccessThreshold /\ 0 \in 0..(SuccessThreshold - 1)
    /\ \A n \in 0..(SuccessThreshold - 1) : n < SuccessThreshold
    /\ \A n \in 0..(SuccessThreshold - 1) :
           n + 1 < SuccessThreshold => n + 1 \in 0..(SuccessThreshold - 1)
BY BreakerAssumption

\* A count that stops at its threshold has counted, and is at the threshold or below it.
LEMMA CountStops ==
    ASSUME NEW n \in 0..FailureThreshold
    PROVE  /\ UpTo(FailureThreshold, n + 1) \in 0..FailureThreshold
           /\ UpTo(FailureThreshold, n + 1) > 0
           /\ UpTo(FailureThreshold, n + 1) # FailureThreshold
                => UpTo(FailureThreshold, n + 1) < FailureThreshold
BY BreakerAssumption DEF UpTo

\* A record with the right fields is a circuit.
LEMMA MakesCircuit ==
    ASSUME NEW s \in {"closed", "open", "half open"}, NEW f \in 0..FailureThreshold,
           NEW n \in 0..(SuccessThreshold - 1)
    PROVE  [state |-> s, failures |-> f, successes |-> n] \in Circuits
BY DEF Circuits

LEMMA CircuitHas ==
    ASSUME NEW c \in Circuits
    PROVE  /\ c.state \in {"closed", "open", "half open"}
           /\ c.failures \in 0..FailureThreshold /\ c.successes \in 0..(SuccessThreshold - 1)
           /\ c.successes < SuccessThreshold
BY Thresholds DEF Circuits

LEMMA BreakerStarts == GatewayInit => BreakerInv
<1> SUFFICES ASSUME GatewayInit PROVE BreakerInv
  OBVIOUS
<1>1. circuit \in Circuits /\ circuit.state = "closed" /\ circuit.failures = 0
  BY Thresholds, MakesCircuit DEF GatewayInit, Fresh
<1>2. call \in [Calls -> Flights]
  BY DEF GatewayInit, NoCall, Flights
<1>3. streak = 0 /\ cooled = FALSE
  BY DEF GatewayInit
<1>4. GatewayTypeOK
  BY <1>1, <1>2, <1>3, Thresholds DEF GatewayTypeOK
<1>5. BreakerAgrees
  BY <1>1, <1>3, Thresholds DEF BreakerAgrees
<1>6. QED  BY <1>4, <1>5 DEF BreakerInv

\* A circuit that is closed with nothing counted agrees with an empty streak.
LEMMA ClosedAgrees ==
    ASSUME circuit'.state = "closed", circuit'.failures = 0, streak' = 0
    PROVE  BreakerAgrees'
BY Thresholds DEF BreakerAgrees

\* A circuit that is half open agrees with any streak.
LEMMA HalfOpenAgrees ==
    ASSUME circuit' \in Circuits, circuit'.state = "half open"
    PROVE  BreakerAgrees'
<1>1. circuit'.successes < SuccessThreshold
  BY CircuitHas
<1>2. QED  BY <1>1 DEF BreakerAgrees

\* Recording an outcome keeps the count, whatever state the circuit is in by then.
LEMMA SuccessAgrees ==
    ASSUME BreakerInv, RecordSuccess
    PROVE  /\ circuit' \in Circuits /\ cooled' \in BOOLEAN /\ streak' \in 0..FailureThreshold
           /\ BreakerAgrees'
<1>1. circuit \in Circuits /\ cooled' = FALSE /\ streak' = 0 /\ streak' \in 0..FailureThreshold
  BY Thresholds DEF BreakerInv, GatewayTypeOK, RecordSuccess
<1>2. CASE circuit.state = "half open" /\ circuit.successes + 1 < SuccessThreshold
  <2>1. circuit' = [circuit EXCEPT !.successes = @ + 1]
    BY <1>2 DEF RecordSuccess
  <2>2. circuit' = [state |-> "half open", failures |-> circuit.failures,
                    successes |-> circuit.successes + 1]
    BY <1>1, <1>2, <2>1 DEF Circuits
  <2>3. circuit.failures \in 0..FailureThreshold
        /\ circuit.successes + 1 \in 0..(SuccessThreshold - 1)
    BY <1>1, <1>2, CircuitHas, Thresholds
  <2>4. circuit' \in Circuits /\ circuit'.state = "half open"
    BY <2>2, <2>3, MakesCircuit
  <2>5. QED  BY <1>1, <2>4, HalfOpenAgrees
<1>3. CASE ~(circuit.state = "half open" /\ circuit.successes + 1 < SuccessThreshold)
  <2>1. circuit' = Reset(circuit)
    BY <1>3 DEF RecordSuccess
  <2>2. circuit' = [state |-> "closed", failures |-> 0, successes |-> circuit.successes]
    BY <1>1, <2>1 DEF Circuits, Reset
  <2>3. circuit.successes \in 0..(SuccessThreshold - 1)
    BY <1>1, CircuitHas
  <2>4. circuit' \in Circuits /\ circuit'.state = "closed" /\ circuit'.failures = 0
    BY <2>2, <2>3, MakesCircuit, Thresholds
  <2>5. QED  BY <1>1, <2>4, ClosedAgrees
<1>4. QED  BY <1>2, <1>3

LEMMA FailureAgrees ==
    ASSUME BreakerInv, RecordFailure
    PROVE  /\ circuit' \in Circuits /\ cooled' \in BOOLEAN /\ streak' \in 0..FailureThreshold
           /\ BreakerAgrees'
<1> DEFINE n == UpTo(FailureThreshold, circuit.failures + 1)
           next == IF circuit.state = "half open" \/ n = FailureThreshold
                   THEN "open" ELSE circuit.state
<1>1. circuit \in Circuits /\ streak \in 0..FailureThreshold
  BY DEF BreakerInv, GatewayTypeOK
<1>2. /\ circuit.state \in {"closed", "open", "half open"}
      /\ circuit.failures \in 0..FailureThreshold /\ circuit.successes \in 0..(SuccessThreshold - 1)
  BY <1>1, CircuitHas
<1>3. n \in 0..FailureThreshold /\ (n # FailureThreshold => n < FailureThreshold)
  BY <1>2, CountStops
<1>4. streak' = UpTo(FailureThreshold, streak + 1) /\ cooled' = FALSE
      /\ circuit' = [circuit EXCEPT !.failures = n,
            !.state = IF @ = "half open" \/ n = FailureThreshold THEN "open" ELSE @]
  BY DEF RecordFailure
<1>5. streak' \in 0..FailureThreshold /\ streak' > 0
  BY <1>1, <1>4, CountStops
<1>6. circuit.state = "closed" => n = streak'
  BY <1>4 DEF BreakerInv, BreakerAgrees
<1> HIDE DEF n
<1>7. circuit' = [state |-> next, failures |-> n, successes |-> circuit.successes]
  BY <1>1, <1>4 DEF Circuits
<1>8. next \in {"closed", "open"}
      /\ (next = "closed" => n # FailureThreshold /\ circuit.state = "closed")
  BY <1>2
<1> HIDE DEF next
<1>9. circuit' \in Circuits /\ circuit'.state = next /\ circuit'.failures = n
  BY <1>2, <1>3, <1>7, <1>8, MakesCircuit
<1>10. next = "closed" => n = streak' /\ streak' < FailureThreshold
  BY <1>3, <1>6, <1>8
<1>11. BreakerAgrees'
  BY <1>5, <1>8, <1>9, <1>10 DEF BreakerAgrees
<1>12. QED  BY <1>4, <1>5, <1>9, <1>11

\* The induction step, action by action.
LEMMA BreakerStep == BreakerInv /\ [GatewayNext]_gateway => BreakerInv'
<1> SUFFICES ASSUME BreakerInv, [GatewayNext]_gateway PROVE BreakerInv'
  OBVIOUS
<1>1. CASE UNCHANGED gateway
  BY <1>1 DEF gateway, BreakerInv, GatewayTypeOK, BreakerAgrees
<1>2. CASE Cools
  BY <1>2 DEF Cools, BreakerInv, GatewayTypeOK, BreakerAgrees
<1>3. CASE GatewayRestarts
  <2>1. circuit' = [state |-> "closed", failures |-> 0, successes |-> 0]
        /\ cooled' = FALSE /\ streak' = 0
    BY <1>3 DEF GatewayRestarts, Fresh
  <2>2. circuit' \in Circuits /\ circuit'.state = "closed" /\ circuit'.failures = 0
    BY <2>1, MakesCircuit, Thresholds
  <2>3. call' \in [Calls -> Flights]
    BY <1>3 DEF GatewayRestarts, NoCall, Flights
  <2>4. GatewayTypeOK'
    BY <2>1, <2>2, <2>3, Thresholds DEF GatewayTypeOK
  <2>5. QED  BY <2>1, <2>2, <2>4, ClosedAgrees DEF BreakerInv
<1>4. ASSUME NEW k \in Calls, NEW attempts \in Nat, Forwards(k, attempts) PROVE BreakerInv'
  <2>1. call' \in [Calls -> Flights]
    BY <1>4 DEF Forwards, BreakerInv, GatewayTypeOK, Flights
  <2>2. CASE circuit.state = "open"
    <3>1. circuit' = [circuit EXCEPT !.state = "half open", !.successes = 0]
      BY <1>4, <2>2 DEF Forwards
    <3>2. circuit' = [state |-> "half open", failures |-> circuit.failures, successes |-> 0]
      BY <3>1 DEF BreakerInv, GatewayTypeOK, Circuits
    <3>3. circuit.failures \in 0..FailureThreshold
      BY CircuitHas DEF BreakerInv, GatewayTypeOK
    <3>4. circuit' \in Circuits /\ circuit'.state = "half open"
      BY <3>2, <3>3, MakesCircuit, Thresholds
    <3>5. GatewayTypeOK'
      BY <1>4, <2>1, <3>4 DEF Forwards, BreakerInv, GatewayTypeOK
    <3>6. QED  BY <3>4, <3>5, HalfOpenAgrees DEF BreakerInv
  <2>3. CASE circuit.state # "open"
    BY <1>4, <2>1, <2>3 DEF Forwards, BreakerInv, GatewayTypeOK, BreakerAgrees
  <2>4. QED  BY <2>2, <2>3
<1>5. ASSUME NEW k \in Calls, Answers(k) PROVE BreakerInv'
  <2>1. call' \in [Calls -> Flights]
    BY <1>5 DEF Answers, NoCall, BreakerInv, GatewayTypeOK, Flights
  <2>2. QED  BY <1>5, <2>1, SuccessAgrees DEF Answers, BreakerInv, GatewayTypeOK
<1>6. ASSUME NEW k \in Calls, TriesAgain(k) PROVE BreakerInv'
  <2>1. call' \in [Calls -> Flights]
    BY <1>6 DEF TriesAgain, BreakerInv, GatewayTypeOK, Flights
  <2>2. QED  BY <1>6, <2>1 DEF TriesAgain, BreakerInv, GatewayTypeOK, BreakerAgrees
<1>7. ASSUME NEW k \in Calls, Fails(k) PROVE BreakerInv'
  <2>1. call' \in [Calls -> Flights]
    BY <1>7 DEF Fails, NoCall, BreakerInv, GatewayTypeOK, Flights
  <2>2. QED  BY <1>7, <2>1, FailureAgrees DEF Fails, BreakerInv, GatewayTypeOK
<1>8. QED
  BY <1>1, <1>2, <1>3, <1>4, <1>5, <1>6, <1>7, BreakerAssumption DEF GatewayNext

\* The gateway's calls keep their types and the breaker counts exactly the failures in a row,
\* however calls overlap, come late to a circuit that changed meanwhile, or are lost in a restart.
THEOREM BreakerInvariant == GatewaySpec => []BreakerInv
BY BreakerStarts, BreakerStep, PTL DEF GatewaySpec

\* A service that failed FailureThreshold times in a row is never left closed, and one that
\* did not is never opened while closed.
THEOREM BreakerAgreesHolds == GatewaySpec => []BreakerAgrees
<1>1. BreakerInv => BreakerAgrees
  BY DEF BreakerInv
<1>2. QED  BY <1>1, BreakerInvariant, PTL

-----------------------------------------------------------------------------
\* The outbox.  An entry that nobody had twice is either waiting and was never handed
\* out, or in one batch only, or done; its message, if any, follows the batch and is
\* reported about after the commit.

Results == {"out", "not", "gone"}
\* A batch has the shape a worker gave it.
BatchTyped(b) ==
    /\ b = [by |-> b.by, todo |-> b.todo, result |-> b.result, seen |-> b.seen]
    /\ b.by \in {"service", "worker"}
    /\ b.todo \subseteq Outbox /\ DOMAIN b.result \subseteq Outbox
    /\ DOMAIN b.seen = b.todo \cup DOMAIN b.result
    /\ b.todo \cap DOMAIN b.result = {}
    /\ \A o \in DOMAIN b.result : b.result[o] \in Results
    /\ \A o \in DOMAIN b.seen : b.seen[o] \in OutboxRow /\ b.seen[o].status = "PENDING"

DeliveryTypeOK ==
    /\ row \in [Outbox -> OutboxRow \cup {Missing}]
    /\ message \in [Messages -> MessageRow \cup {Missing}]
    /\ retry \in [Admins -> Retry \cup {Missing}]
    /\ handed \in [Outbox -> Nat] /\ again \subseteq Outbox
    /\ DOMAIN batch = Workers /\ batch = [w \in Workers |-> batch[w]]
    /\ \A w \in Workers : batch[w] # NoBatch => BatchTyped(batch[w])

Busy(w) == batch[w] # NoBatch
Holds(w, o) == Busy(w) /\ (o \in batch[w].todo \/ o \in DOMAIN batch[w].result)
IsOut(w, o) == Busy(w) /\ o \in DOMAIN batch[w].result /\ batch[w].result[o] = "out"

\* What a worker holds is there; what it handed out was handed out.  Unless it is in
\* again, nobody else has it, and it is still as it was read.
HeldWell(w, o) ==
    /\ row[o] # Missing
    /\ IsOut(w, o) => handed[o] > 0
    /\ o \notin again =>
          /\ row[o].status = "PENDING"
          /\ handed[o] = IF IsOut(w, o) THEN 1 ELSE 0
          /\ \A v \in Workers : Holds(v, o) => v = w
HoldersInv == \A w \in Workers, o \in Outbox : Holds(w, o) => HeldWell(w, o)

\* An entry that waits and that nobody holds was never handed out.
RowWell(o) ==
    /\ row[o] = Missing => handed[o] = 0
    /\ row[o] # Missing =>
          /\ row[o].status = "PENDING" /\ o \notin stale => row[o].retries < MaxTries
          /\ row[o].status \in {"SENT", "DELIVERED"} => handed[o] > 0
          /\ o \notin again =>
                /\ handed[o] <= 1
                /\ row[o].status = "PENDING" =>
                      handed[o] = 0 \/ \E w \in Workers : Holds(w, o)
RowsInv == \A o \in Outbox : RowWell(o)
\* What an administrator has tried again is there.
RetriesInv == \A a \in Admins : retry[a] # Missing => row[retry[a].of] # Missing

\* A message is of an entry that was handed out; one whose row waits for a commit is in
\* that batch.  Unless in again, an entry has one message, and its row says what the last
\* report says.
MessageWell(m, o) ==
    /\ row[o] # Missing /\ handed[o] > 0
    /\ message[m].by # Missing => IsOut(message[m].by, o) /\ message[m].last = "none"
    /\ o \notin again =>
          /\ \A n \in Messages : message[n] # Missing /\ message[n].of = o => n = m
          /\ message[m].by = Missing => \A w \in Workers : ~Holds(w, o)
          /\ message[m].last \in {"delivered", "read"} => row[o].status = "SENT"
          /\ message[m].last = "failed" => row[o].status = "FAILED"
MessagesInv ==
    \A m \in Messages : message[m] # Missing => MessageWell(m, message[m].of)

DeliveryInv == DeliveryTypeOK /\ HoldersInv /\ RowsInv /\ RetriesInv /\ MessagesInv

\* The batch of a worker at work, and only that, is typed like one.
LEMMA BusyIsTyped ==
  ASSUME DeliveryTypeOK, NEW w \in Workers
  PROVE  Busy(w) => BatchTyped(batch[w])
BY DEF DeliveryTypeOK, Busy

\* The missing row is no row and no worker.
LEMMA MissingIsNone ==
  Missing \notin Workers /\ Missing \notin OutboxRow /\ Missing \notin MessageRow
  /\ Missing \notin Retry
BY DeliveryAssumption

LEMMA DeliveryStarts == DeliveryInit => DeliveryInv
<1> SUFFICES ASSUME DeliveryInit PROVE DeliveryInv OBVIOUS
<1>1. \A w \in Workers : ~Busy(w)  BY DEF DeliveryInit, Busy
<1>2. DeliveryTypeOK  BY <1>1 DEF DeliveryInit, DeliveryTypeOK, Busy
<1>3. HoldersInv /\ RowsInv /\ RetriesInv /\ MessagesInv
  BY <1>1 DEF DeliveryInit, HoldersInv, RowsInv, RetriesInv, MessagesInv, Holds, RowWell
<1> QED  BY <1>2, <1>3 DEF DeliveryInv

\* New entries wait, and nobody has them.
LEMMA CreateKeeps ==
  ASSUME DeliveryInv, NEW some \in SUBSET Outbox, NEW f \in [some -> Channels],
         CreateAnnouncement(f)
  PROVE  DeliveryInv'
<1> USE DEF DeliveryInv, HeldWell, RowWell, MessageWell
<1>1. /\ UNCHANGED <<batch, message, retry, handed, again, stale>> /\ DOMAIN f = some
      /\ \A o \in some : row[o] = Missing
      /\ row' = [o \in Outbox |-> IF o \in some
                     THEN [channel |-> f[o], status |-> "PENDING", retries |-> 0] ELSE row[o]]
  BY DEF CreateAnnouncement
<1>2. \A o \in some : /\ row'[o] \in OutboxRow /\ row'[o] # Missing
                      /\ row'[o].status = "PENDING" /\ row'[o].retries = 0
  BY <1>1, MissingIsNone DEF OutboxRow
<1>3. \A o \in Outbox \ some : row'[o] = row[o]  BY <1>1
<1>4. DeliveryTypeOK'
  <2>1. row' \in [Outbox -> OutboxRow \cup {Missing}]
    BY <1>1, <1>2, <1>3 DEF DeliveryTypeOK
  <2> QED  BY <2>1, <1>1 DEF DeliveryTypeOK, BatchTyped
<1>5. \A w \in Workers, o \in Outbox : Holds(w, o)' = Holds(w, o) /\ IsOut(w, o)' = IsOut(w, o)
  BY <1>1 DEF Holds, IsOut, Busy
<1>6. \A w \in Workers, o \in Outbox : Holds(w, o) => o \notin some
  BY <1>1 DEF HoldersInv
<1>7. HoldersInv'
  BY <1>1, <1>3, <1>5, <1>6 DEF HoldersInv
<1>8. RowsInv'
  <2> SUFFICES ASSUME NEW o \in Outbox PROVE RowWell(o)'  BY DEF RowsInv
  <2>1. CASE o \in some
    <3>1. handed'[o] = 0  BY <2>1, <1>1 DEF RowsInv
    <3> QED  BY <3>1, <2>1, <1>2, DeliveryAssumption
  <2>2. CASE o \notin some  BY <2>2, <1>1, <1>3, <1>5 DEF RowsInv
  <2> QED  BY <2>1, <2>2
<1>9. MessagesInv'
  <2> SUFFICES ASSUME NEW m \in Messages, message[m] # Missing
               PROVE  MessageWell(m, message[m].of)'
    BY <1>1 DEF MessagesInv
  <2>1. message[m] \in MessageRow /\ message[m].of \in Outbox /\ row[message[m].of] # Missing
    BY DEF DeliveryTypeOK, MessagesInv, MessageRow
  <2>2. message[m].by \in Workers \cup {Missing}  BY <2>1 DEF MessageRow
  <2>3. message[m].of \notin some  BY <2>1, <1>1
  <2> QED  BY <2>1, <2>2, <2>3, <1>1, <1>3, <1>5 DEF MessagesInv
<1>10. RetriesInv'
  <2>1. \A a \in Admins : retry[a] # Missing => retry[a].of \in Outbox
    BY DEF DeliveryTypeOK, Retry
  <2> QED  BY <2>1, <1>1, <1>2, <1>3 DEF RetriesInv
<1> QED  BY <1>4, <1>7, <1>8, <1>9, <1>10

\* A worker that had nothing has what waits; what another has as well is in again.
LEMMA ReadKeeps ==
  ASSUME DeliveryInv, NEW w \in Workers, NEW by \in {"service", "worker"}, ReadPending(w, by)
  PROVE  DeliveryInv'
<1> USE DEF DeliveryInv, HeldWell, RowWell, MessageWell
<1> DEFINE B == [by |-> by, todo |-> Pending(by), result |-> << >>,
                 seen |-> [o \in Pending(by) |-> row[o]]]
<1>1. /\ UNCHANGED <<row, message, retry, handed, stale>> /\ ~Busy(w)
      /\ batch' = [batch EXCEPT ![w] = B]
      /\ again' = again \cup (Pending(by) \cap UNION {InFlight(v) : v \in Workers})
  BY DEF ReadPending, Busy
<1>2. \A v \in Workers : v # w => batch'[v] = batch[v]  BY <1>1 DEF DeliveryTypeOK
<1>3. batch'[w] = B  BY <1>1 DEF DeliveryTypeOK
<1>4. Pending(by) \subseteq Outbox
      /\ \A o \in Pending(by) : row[o] \in OutboxRow /\ row[o].status = "PENDING"
  BY DEF Pending, Known, DeliveryTypeOK
<1>5. DOMAIN B.result = {}  OBVIOUS
<1>6. BatchTyped(B)  BY <1>4, <1>5 DEF BatchTyped
<1>7. B # NoBatch  BY DEF NoBatch
<1> HIDE DEF B
<1>8. DeliveryTypeOK'
  <2>1. \A v \in Workers : batch'[v] # NoBatch => BatchTyped(batch'[v])
    BY <1>2, <1>3, <1>6 DEF DeliveryTypeOK
  <2>2. DOMAIN batch' = Workers /\ batch' = [v \in Workers |-> batch'[v]]
    BY <1>1 DEF DeliveryTypeOK
  <2>3. again' \subseteq Outbox  BY <1>1, <1>4 DEF DeliveryTypeOK
  <2> QED  BY <2>1, <2>2, <2>3, <1>1 DEF DeliveryTypeOK, BatchTyped
<1>9. \A v \in Workers, o \in Outbox : v # w =>
          Holds(v, o)' = Holds(v, o) /\ IsOut(v, o)' = IsOut(v, o)
  BY <1>2 DEF Holds, IsOut, Busy
<1>10. \A o \in Outbox : (Holds(w, o)' <=> o \in Pending(by)) /\ ~IsOut(w, o)'
                         /\ ~Holds(w, o) /\ ~IsOut(w, o)
  BY <1>1, <1>3, <1>5, <1>7 DEF Holds, IsOut, Busy, B
<1>11. \A o \in Outbox, v \in Workers : o \in Pending(by) /\ Holds(v, o) => o \in again'
  BY <1>1 DEF Holds, InFlight
<1>12. \A o \in Outbox : o \notin again' => o \notin again  BY <1>1
<1>13. \A o \in Pending(by) \ again' : handed[o] = 0 /\ \A v \in Workers : ~Holds(v, o)
  BY <1>4, <1>11, <1>12, MissingIsNone DEF RowsInv, DeliveryTypeOK
<1>14. HoldersInv'
  <2> SUFFICES ASSUME NEW v \in Workers, NEW o \in Outbox, Holds(v, o)'
               PROVE  HeldWell(v, o)'
    BY DEF HoldersInv
  <2>1. CASE v = w
    <3>1. o \in Pending(by) /\ ~IsOut(w, o)'  BY <2>1, <1>10
    <3>2. row[o] # Missing /\ row[o].status = "PENDING"  BY <3>1 DEF Pending, Known
    <3> QED  BY <2>1, <3>1, <3>2, <1>1, <1>9, <1>13
  <2>2. CASE v # w
    <3>1. Holds(v, o) /\ IsOut(v, o)' = IsOut(v, o)  BY <2>2, <1>9
    <3>2. o \notin again' => o \notin Pending(by)  BY <3>1, <1>11
    <3> QED  BY <2>2, <3>1, <3>2, <1>1, <1>9, <1>10, <1>12 DEF HoldersInv
  <2> QED  BY <2>1, <2>2
<1>15. RowsInv'
  <2>1. \A o \in Outbox : (\E v \in Workers : Holds(v, o)) => \E v \in Workers : Holds(v, o)'
    BY <1>9, <1>10
  <2> QED  BY <2>1, <1>1, <1>12 DEF RowsInv
<1>16. MessagesInv'
  <2> SUFFICES ASSUME NEW m \in Messages, message[m] # Missing
               PROVE  MessageWell(m, message[m].of)'
    BY <1>1 DEF MessagesInv
  <2>1. message[m].of \in Outbox /\ message[m].by \in Workers \cup {Missing}
        /\ handed[message[m].of] \in Nat /\ handed[message[m].of] > 0
    BY DEF DeliveryTypeOK, MessagesInv, MessageRow
  <2>2. message[m].of \notin again' => message[m].of \notin Pending(by)
    BY <2>1, <1>13
  <2> QED  BY <2>1, <2>2, <1>1, <1>9, <1>10, <1>12 DEF MessagesInv
<1>17. RetriesInv'  BY <1>1 DEF RetriesInv
<1> QED  BY <1>8, <1>14, <1>15, <1>16, <1>17

\* An entry of a batch is handed out or not, and its message, if any, is a new one.
LEMMA AttemptKeeps ==
  ASSUME DeliveryInv, NEW w \in Workers, NEW o \in Outbox, NEW result \in Results,
         NEW m \in Messages, AttemptDelivery(w, o, result, m)
  PROVE  DeliveryInv'
<1> USE DEF DeliveryInv, HeldWell, RowWell, MessageWell
<1> DEFINE b == batch[w]
           F == [x \in DOMAIN b.result \cup {o} |-> IF x = o THEN result ELSE b.result[x]]
           B == [by |-> b.by, todo |-> b.todo \ {o}, result |-> F, seen |-> b.seen]
<1>1. /\ UNCHANGED <<row, retry, again, stale>> /\ Busy(w) /\ o \in b.todo
      /\ handed' = [handed EXCEPT ![o] = IF result = "out" THEN @ + 1 ELSE @]
      /\ \/ /\ message[m] = Missing /\ result = "out"
            /\ message' = [message EXCEPT ![m] = [of |-> o, by |-> w, last |-> "none"]]
         \/ UNCHANGED message
  BY DEF AttemptDelivery, Busy
<1>2. BatchTyped(b)  BY <1>1, BusyIsTyped
<1>3. batch' = [batch EXCEPT ![w] = B]
  BY DEF AttemptDelivery
<1>4. \A v \in Workers : v # w => batch'[v] = batch[v]  BY <1>3 DEF DeliveryTypeOK
<1>5. batch'[w] = B  BY <1>3 DEF DeliveryTypeOK
<1>6. BatchTyped(B)  BY <1>1, <1>2 DEF BatchTyped
<1>7. B # NoBatch  BY <1>2 DEF NoBatch, BatchTyped
<1>8. o \notin DOMAIN b.result /\ ~IsOut(w, o) /\ Holds(w, o)
  BY <1>1, <1>2 DEF BatchTyped, IsOut, Holds
<1>9. /\ \A x \in Outbox : Holds(w, x)' <=> Holds(w, x)
      /\ \A x \in Outbox \ {o} : IsOut(w, x)' <=> IsOut(w, x)
      /\ IsOut(w, o)' <=> result = "out"
  BY <1>1, <1>5, <1>7, <1>8 DEF Holds, IsOut, Busy
<1>10. \A v \in Workers, x \in Outbox : v # w =>
           (Holds(v, x)' <=> Holds(v, x)) /\ (IsOut(v, x)' <=> IsOut(v, x))
  BY <1>4 DEF Holds, IsOut, Busy
<1> HIDE DEF b, F, B
<1>11. /\ handed \in [Outbox -> Nat] /\ handed' \in [Outbox -> Nat]
       /\ \A x \in Outbox \ {o} : handed'[x] = handed[x]
       /\ handed'[o] = IF result = "out" THEN handed[o] + 1 ELSE handed[o]
  BY <1>1 DEF DeliveryTypeOK
<1>12. /\ HeldWell(w, o) /\ row[o] # Missing
       /\ o \notin again => handed[o] = 0 /\ \A v \in Workers : Holds(v, o) => v = w
  BY <1>8 DEF HoldersInv
<1>13. [of |-> o, by |-> w, last |-> "none"] \in MessageRow  BY DEF MessageRow
<1>14. DeliveryTypeOK'
  <2>1. \A v \in Workers : batch'[v] # NoBatch => BatchTyped(batch'[v])
    BY <1>4, <1>5, <1>6 DEF DeliveryTypeOK
  <2>2. DOMAIN batch' = Workers /\ batch' = [v \in Workers |-> batch'[v]]
    BY <1>3 DEF DeliveryTypeOK
  <2>3. message' \in [Messages -> MessageRow \cup {Missing}]
    BY <1>1, <1>13 DEF DeliveryTypeOK
  <2> QED  BY <2>1, <2>2, <2>3, <1>1, <1>11 DEF DeliveryTypeOK, BatchTyped
<1>15. HoldersInv'
  <2> SUFFICES ASSUME NEW v \in Workers, NEW x \in Outbox, Holds(v, x)'
               PROVE  HeldWell(v, x)'
    BY DEF HoldersInv
  <2>1. Holds(v, x) /\ HeldWell(v, x)  BY <1>9, <1>10 DEF HoldersInv
  <2>2. CASE x # o  BY <2>1, <2>2, <1>1, <1>9, <1>10, <1>11
  <2>3. CASE x = o
    <3>1. o \notin again => v = w  BY <2>1, <2>3, <1>12
    <3>2. IsOut(v, o)' => handed'[o] > 0
      BY <2>1, <2>3, <1>9, <1>10, <1>11
    <3> QED  BY <3>1, <3>2, <2>1, <2>3, <1>1, <1>9, <1>10, <1>11, <1>12
  <2> QED  BY <2>2, <2>3
<1>16. RowsInv'
  <2> SUFFICES ASSUME NEW x \in Outbox PROVE RowWell(x)'  BY DEF RowsInv
  <2>1. RowWell(x)  BY DEF RowsInv
  <2>2. CASE x # o  BY <2>1, <2>2, <1>1, <1>9, <1>10, <1>11
  <2>3. CASE x = o
    <3>1. handed'[o] >= handed[o]  BY <1>11
    <3>2. Holds(w, o)'  BY <1>8, <1>9
    <3> QED  BY <3>1, <3>2, <2>1, <2>3, <1>1, <1>11, <1>12
  <2> QED  BY <2>2, <2>3
<1>17. MessagesInv'
  <2> SUFFICES ASSUME NEW n \in Messages, message'[n] # Missing
               PROVE  MessageWell(n, message[n].of)'
    BY DEF MessagesInv
  <2>1. CASE message'[n] # message[n]
    <3>1. n = m /\ message[m] = Missing /\ result = "out"
      BY <2>1, <1>1 DEF DeliveryTypeOK
    <3>2. message'[m] = [of |-> o, by |-> w, last |-> "none"]
      BY <2>1, <3>1, <1>1 DEF DeliveryTypeOK
    <3>3. \A k \in Messages : k # m => message'[k] = message[k]
      BY <1>1 DEF DeliveryTypeOK
    <3>4. o \notin again => \A k \in Messages : message[k] # Missing => message[k].of # o
      BY <1>11, <1>12 DEF MessagesInv
    <3>5. w # Missing  BY MissingIsNone
    <3> QED  BY <3>1, <3>2, <3>3, <3>4, <3>5, <1>1, <1>9, <1>11, <1>12
  <2>2. CASE message'[n] = message[n]
    <3> PICK x : x = message[n].of  OBVIOUS
    <3>1. x \in Outbox /\ message[n].by \in Workers \cup {Missing} /\ MessageWell(n, x)
      BY <2>2 DEF DeliveryTypeOK, MessageRow, MessagesInv
    <3>2. x = o => o \in again
      BY <3>1, <1>11, <1>12
    <3>3. \A k \in Messages : message'[k] # Missing /\ message'[k].of = x /\ x \notin again
              => message[k] # Missing /\ message[k].of = x
      BY <3>2, <1>1 DEF DeliveryTypeOK
    <3>4. handed'[x] > 0  BY <3>1, <1>11
    <3>5. message[n].by # Missing => IsOut(message[n].by, x)'
      BY <2>2, <3>1, <1>8, <1>9, <1>10
    <3>6. MessageWell(n, x)'
      BY <2>2, <3>1, <3>2, <3>3, <3>4, <3>5, <1>1, <1>9, <1>10
    <3> QED  BY <3>6, <2>2
  <2> QED  BY <2>1, <2>2
<1>18. RetriesInv'  BY <1>1 DEF RetriesInv
<1> QED  BY <1>14, <1>15, <1>16, <1>17, <1>18

\* What became of an entry: a row still, with no more tries than the worker makes, and sent
\* only if it was handed out.
LEMMA AfterBatchRow ==
  ASSUME NEW now \in OutboxRow, NEW seen \in OutboxRow, NEW by \in {"service", "worker"},
         NEW result \in Results, seen.status = "PENDING"
  PROVE  LET new == AfterBatch(now, seen, by, result) IN
         /\ new \in OutboxRow
         /\ new.status = "PENDING" => new.retries < MaxTries
         /\ new.status \in {"SENT", "DELIVERED"} =>
               result = "out" \/ now.status \in {"SENT", "DELIVERED"}
         /\ new.status = "PENDING" => result # "out"
<1> DEFINE new == AfterBatch(now, seen, by, result)
           Turns(s, n) == new \in OutboxRow /\ new.status = s /\ new.retries = n
<1>1. now.retries \in Nat /\ seen.retries \in Nat
      /\ now.status \in {"SENT", "DELIVERED", "FAILED", "PENDING"}
  BY DEF OutboxRow
<1>3. ASSUME NEW s \in {"SENT", "DELIVERED", "FAILED", "PENDING"}
      PROVE  LET r == [now EXCEPT !.status = s] IN
             r \in OutboxRow /\ r.status = s /\ r.retries = now.retries
  BY DEF OutboxRow
<1>4. CASE result = "out"
  <2>1. CASE by = "service"
    <3>1. new = [now EXCEPT !.status = "SENT"]  BY <1>4, <2>1 DEF AfterBatch
    <3>2. Turns("SENT", now.retries)  BY <3>1, <1>3
    <3> QED  BY <3>2, <1>4
  <2>2. CASE by = "worker"
    <3>1. new = [now EXCEPT !.status = "DELIVERED"]  BY <1>4, <2>2 DEF AfterBatch
    <3>2. Turns("DELIVERED", now.retries)  BY <3>1, <1>3
    <3> QED  BY <3>2, <1>4
  <2> QED  BY <2>1, <2>2
<1>5. CASE by = "service" /\ result # "out"
  <2>1. PICK s, n : s = (IF seen.retries + 1 >= MaxRetries THEN "FAILED" ELSE now.status)
                    /\ n = seen.retries + 1
    OBVIOUS
  <2>2. new = [now EXCEPT !.retries = n, !.status = s]
    BY <1>5, <2>1 DEF AfterBatch, TriedByService
  <2>3. s \in {"SENT", "DELIVERED", "FAILED", "PENDING"} /\ n \in Nat
        /\ (s = "PENDING" => n < MaxTries) /\ (s \in {"SENT", "DELIVERED"} => s = now.status)
    BY <1>1, <2>1, DeliveryAssumption
  <2> HIDE DEF new
  <2>4. Turns(s, n)  BY <2>2, <2>3 DEF OutboxRow
  <2> QED  BY <2>3, <2>4, <1>5 DEF new
<1>6. CASE by = "worker" /\ result # "out"
  <2>1. PICK s, n : /\ s = IF result = "gone" \/ seen.retries + 1 >= MaxTries
                           THEN "FAILED" ELSE "PENDING"
                    /\ n = IF result = "gone" THEN now.retries ELSE seen.retries + 1
    OBVIOUS
  <2>2. new = [now EXCEPT !.retries = n, !.status = s]
    <3>1. CASE result = "gone"
      <4>1. new = [now EXCEPT !.status = "FAILED", !.retries = now.retries]
        BY <1>6, <3>1 DEF AfterBatch, TriedByWorker
      <4> QED  BY <4>1, <3>1, <2>1 DEF OutboxRow
    <3>2. CASE result = "not"
      <4>1. new = [now EXCEPT !.status = s, !.retries = n]
        BY <1>6, <2>1, <3>2 DEF AfterBatch, TriedByWorker
      <4> QED  BY <4>1 DEF OutboxRow
    <3> QED  BY <1>6, <3>1, <3>2 DEF Results
  <2>3. s \in {"FAILED", "PENDING"} /\ n \in Nat /\ (s = "PENDING" => n < MaxTries)
    BY <1>1, <2>1, DeliveryAssumption
  <2> HIDE DEF new
  <2>4. Turns(s, n)  BY <2>2, <2>3 DEF OutboxRow
  <2> QED  BY <2>3, <2>4, <1>6 DEF new
<1> QED  BY <1>4, <1>5, <1>6

\* The rows of a batch follow from what became of its entries; what others write meanwhile
\* is about entries in again.
LEMMA CommitKeeps ==
  ASSUME DeliveryInv, NEW w \in Workers, CommitBatch(w)
  PROVE  DeliveryInv'
<1> USE DEF DeliveryInv, HeldWell, RowWell, MessageWell
<1> DEFINE b == batch[w]
           Handled == DOMAIN b.result
<1>1. /\ UNCHANGED <<retry, handed, again, stale>> /\ Busy(w) /\ b.todo = {}
      /\ row' = [o \in Outbox |->
              IF o \in Handled THEN AfterBatch(row[o], b.seen[o], b.by, b.result[o]) ELSE row[o]]
      /\ message' = [m \in Messages |-> IF OfBatch(m, w)
                                        THEN [message[m] EXCEPT !.by = Missing] ELSE message[m]]
      /\ batch' = [batch EXCEPT ![w] = NoBatch]
  BY DEF CommitBatch, Busy
<1>2. BatchTyped(b)  BY <1>1, BusyIsTyped
<1>3. Handled \subseteq Outbox  BY <1>2 DEF BatchTyped
<1>4. \A o \in Outbox : /\ Holds(w, o) <=> o \in Handled
                        /\ ~Holds(w, o)' /\ ~IsOut(w, o)'
  BY <1>1, <1>2 DEF Holds, IsOut, Busy, DeliveryTypeOK
<1>5. \A v \in Workers, o \in Outbox : v # w =>
           (Holds(v, o)' <=> Holds(v, o)) /\ (IsOut(v, o)' <=> IsOut(v, o))
  BY <1>1 DEF Holds, IsOut, Busy, DeliveryTypeOK
<1>6. \A o \in Outbox \ Handled : row'[o] = row[o]  BY <1>1
<1>7. \A o \in Handled :
          /\ row[o] # Missing /\ row'[o] \in OutboxRow /\ row'[o] # Missing
          /\ row'[o].status = "PENDING" => row'[o].retries < MaxTries
          /\ row'[o].status \in {"SENT", "DELIVERED"} => handed[o] > 0
          /\ row'[o].status = "PENDING" => ~IsOut(w, o)
  <2> SUFFICES ASSUME NEW o \in Handled
      PROVE /\ row[o] # Missing /\ row'[o] \in OutboxRow /\ row'[o] # Missing
            /\ row'[o].status = "PENDING" => row'[o].retries < MaxTries
            /\ row'[o].status \in {"SENT", "DELIVERED"} => handed[o] > 0
            /\ row'[o].status = "PENDING" => ~IsOut(w, o)
    OBVIOUS
  <2>1. row[o] # Missing /\ (IsOut(w, o) => handed[o] > 0) /\ RowWell(o)
    BY <1>3, <1>4 DEF HoldersInv, RowsInv
  <2>2. IsOut(w, o) <=> b.result[o] = "out"  BY <1>1 DEF IsOut
  <2>3. /\ row[o] \in OutboxRow /\ b.seen[o] \in OutboxRow /\ b.seen[o].status = "PENDING"
        /\ b.by \in {"service", "worker"} /\ b.result[o] \in Results
    BY <1>2, <1>3, <2>1 DEF BatchTyped, DeliveryTypeOK
  <2>4. row'[o] = AfterBatch(row[o], b.seen[o], b.by, b.result[o])  BY <1>1, <1>3
  <2> HIDE DEF b, Handled
  <2>5. PICK now, seen, by, result :
            now = row[o] /\ seen = b.seen[o] /\ by = b.by /\ result = b.result[o]
    OBVIOUS
  <2>6. PICK new : new = AfterBatch(now, seen, by, result)  OBVIOUS
  <2>7. /\ new \in OutboxRow
        /\ new.status = "PENDING" => new.retries < MaxTries
        /\ new.status \in {"SENT", "DELIVERED"} =>
              result = "out" \/ now.status \in {"SENT", "DELIVERED"}
        /\ new.status = "PENDING" => result # "out"
    <3>1. now \in OutboxRow /\ seen \in OutboxRow /\ by \in {"service", "worker"}
          /\ result \in Results /\ seen.status = "PENDING"
      BY <2>3, <2>5, Zenon
    <3> QED  BY <3>1, <2>6, AfterBatchRow, SMT
  <2>8. row'[o] = new  BY <2>4, <2>5, <2>6
  <2> QED  BY <2>1, <2>2, <2>5, <2>7, <2>8, MissingIsNone
<1> HIDE DEF b, Handled
<1>8. /\ \A m \in Messages : message[m] # Missing => message[m].of \in Outbox
                                /\ message[m].by \in Workers \cup {Missing}
      /\ \A m \in Messages : ~OfBatch(m, w) => message'[m] = message[m]
      /\ \A m \in Messages : OfBatch(m, w) =>
            /\ message'[m] \in MessageRow /\ message'[m] # Missing /\ message'[m].by = Missing
            /\ message'[m].of = message[m].of /\ message'[m].last = message[m].last
  BY <1>1, MissingIsNone DEF DeliveryTypeOK, MessageRow, OfBatch
<1>9. DeliveryTypeOK'
  <2>1. row' \in [Outbox -> OutboxRow \cup {Missing}]
    BY <1>1, <1>6, <1>7 DEF DeliveryTypeOK
  <2>2. message' \in [Messages -> MessageRow \cup {Missing}]
    BY <1>1, <1>8 DEF DeliveryTypeOK
  <2>3. DOMAIN batch' = Workers /\ batch' = [v \in Workers |-> batch'[v]]
        /\ \A v \in Workers : batch'[v] # NoBatch => BatchTyped(batch'[v])
    BY <1>1 DEF DeliveryTypeOK
  <2> QED  BY <2>1, <2>2, <2>3, <1>1 DEF DeliveryTypeOK, BatchTyped
<1>10. HoldersInv'
  <2> SUFFICES ASSUME NEW v \in Workers, NEW o \in Outbox, Holds(v, o)'
               PROVE  HeldWell(v, o)'
    BY DEF HoldersInv
  <2>1. v # w /\ Holds(v, o) /\ HeldWell(v, o)  BY <1>4, <1>5 DEF HoldersInv
  <2>2. o \notin again => o \notin Handled  BY <2>1, <1>4
  <2> QED  BY <2>1, <2>2, <1>1, <1>4, <1>5, <1>6, <1>7
<1>11. RowsInv'
  <2> SUFFICES ASSUME NEW o \in Outbox PROVE RowWell(o)'  BY DEF RowsInv
  <2>1. RowWell(o)  BY DEF RowsInv
  <2>2. CASE o \in Handled
    <3>1. o \notin again => handed[o] = IF IsOut(w, o) THEN 1 ELSE 0
      BY <2>2, <1>4 DEF HoldersInv
    <3> QED  BY <3>1, <2>2, <1>1, <1>7
  <2>3. CASE o \notin Handled  BY <2>1, <2>3, <1>1, <1>4, <1>5, <1>6
  <2> QED  BY <2>2, <2>3
<1>12. MessagesInv'
  <2> SUFFICES ASSUME NEW m \in Messages, message'[m] # Missing
               PROVE  MessageWell(m, message[m].of)'
    BY DEF MessagesInv
  <2> PICK o : o = message[m].of  OBVIOUS
  <2>1. message[m] # Missing /\ o \in Outbox /\ MessageWell(m, o) /\ message'[m].of = o
        /\ message'[m].last = message[m].last
    BY <1>8 DEF MessagesInv, OfBatch
  <2>2. \A n \in Messages : message'[n] # Missing => message[n] # Missing
                               /\ message'[n].of = message[n].of
    BY <1>8 DEF OfBatch
  <2>3. row'[o] # Missing  BY <2>1, <1>6, <1>7
  <2>4. CASE OfBatch(m, w)
    <3>1. message[m].by = w /\ w # Missing  BY <2>4, MissingIsNone DEF OfBatch
    <3>2. IsOut(w, o) /\ message[m].last = "none" /\ message'[m].by = Missing
      BY <3>1, <2>1, <2>4, <1>8
    <3>3. Holds(w, o)  BY <3>2 DEF IsOut, Holds
    <3>4. o \notin again => \A v \in Workers : ~Holds(v, o)'
      BY <2>1, <3>3, <1>4, <1>5 DEF HoldersInv
    <3> QED  BY <2>1, <2>2, <2>3, <3>2, <3>4, <1>1
  <2>5. CASE ~OfBatch(m, w)
    <3>1. message'[m] = message[m] /\ message[m].by # w  BY <2>1, <2>5, <1>8 DEF OfBatch
    <3>2. message[m].by \in Workers \cup {Missing}  BY <2>1, <1>8
    <3>3. message'[m].by # Missing => IsOut(message[m].by, o)'
      BY <2>1, <3>1, <3>2, <1>5
    <3>4. o \notin again /\ message[m].by = Missing =>
              row'[o] = row[o] /\ \A v \in Workers : ~Holds(v, o)'
      BY <2>1, <1>4, <1>5, <1>6
    <3> QED  BY <2>1, <2>2, <2>3, <3>1, <3>2, <3>3, <3>4, <1>1
  <2> QED  BY <2>4, <2>5
<1>13. RetriesInv'
  <2>1. \A a \in Admins : retry[a] # Missing => retry[a].of \in Outbox
    BY DEF DeliveryTypeOK, Retry
  <2> QED  BY <2>1, <1>1, <1>6, <1>7 DEF RetriesInv
<1> QED  BY <1>9, <1>10, <1>11, <1>12, <1>13

\* What a lost batch handed out is in again, and its messages are gone.
LEMMA LoseKeeps ==
  ASSUME DeliveryInv, NEW w \in Workers, LoseBatch(w)
  PROVE  DeliveryInv'
<1> USE DEF DeliveryInv, HeldWell, RowWell, MessageWell
<1>1. /\ UNCHANGED <<row, retry, handed, stale>> /\ Busy(w)
      /\ batch' = [batch EXCEPT ![w] = NoBatch]
      /\ again' = again \cup {o \in DOMAIN batch[w].result : batch[w].result[o] = "out"}
      /\ message' = [m \in Messages |-> IF OfBatch(m, w) THEN Missing ELSE message[m]]
  BY DEF LoseBatch, Busy
<1>2. BatchTyped(batch[w])  BY <1>1, BusyIsTyped
<1>3. \A o \in Outbox : ~Holds(w, o)' /\ ~IsOut(w, o)'
  BY <1>1 DEF Holds, IsOut, Busy, DeliveryTypeOK
<1>4. \A v \in Workers, o \in Outbox : v # w =>
           (Holds(v, o)' <=> Holds(v, o)) /\ (IsOut(v, o)' <=> IsOut(v, o))
  BY <1>1 DEF Holds, IsOut, Busy, DeliveryTypeOK
<1>5. \A o \in Outbox : o \notin again' => o \notin again /\ ~IsOut(w, o)
  BY <1>1 DEF IsOut
<1>6. DeliveryTypeOK'
  <2>1. DOMAIN batch' = Workers /\ batch' = [v \in Workers |-> batch'[v]]
        /\ \A v \in Workers : batch'[v] # NoBatch => BatchTyped(batch'[v])
    BY <1>1 DEF DeliveryTypeOK
  <2>2. again' \subseteq Outbox /\ message' \in [Messages -> MessageRow \cup {Missing}]
    BY <1>1, <1>2 DEF DeliveryTypeOK, BatchTyped
  <2> QED  BY <2>1, <2>2, <1>1 DEF DeliveryTypeOK, BatchTyped
<1>7. HoldersInv'  BY <1>1, <1>3, <1>4, <1>5 DEF HoldersInv
<1>8. RowsInv'
  <2> SUFFICES ASSUME NEW o \in Outbox PROVE RowWell(o)'  BY DEF RowsInv
  <2>1. RowWell(o) /\ (Holds(w, o) => HeldWell(w, o))  BY DEF RowsInv, HoldersInv
  <2> QED  BY <2>1, <1>1, <1>3, <1>4, <1>5
<1>9. MessagesInv'
  <2> SUFFICES ASSUME NEW m \in Messages, message'[m] # Missing
               PROVE  MessageWell(m, message[m].of)'
    BY DEF MessagesInv
  <2>1. PICK o : o = message[m].of  OBVIOUS
  <2>2. message'[m] = message[m] /\ message[m] # Missing /\ ~OfBatch(m, w)  BY <1>1
  <2>3. o \in Outbox /\ message[m].by \in Workers \cup {Missing} /\ MessageWell(m, o)
    BY <2>1, <2>2 DEF DeliveryTypeOK, MessageRow, MessagesInv
  <2>4. \A n \in Messages : message'[n] # Missing => message'[n] = message[n]  BY <1>1
  <2>5. message[m].by # w  BY <2>2 DEF OfBatch
  <2> QED  BY <2>1, <2>2, <2>3, <2>4, <2>5, <1>1, <1>3, <1>4, <1>5
<1>10. RetriesInv'  BY <1>1 DEF RetriesInv
<1> QED  BY <1>6, <1>7, <1>8, <1>9, <1>10

\* A report is about a message that is committed, and only writes the status of its row.
LEMMA CallbackKeeps ==
  ASSUME DeliveryInv, NEW m \in Messages, NEW report \in Reports, WhatsAppCallback(m, report)
  PROVE  DeliveryInv'
<1> USE DEF DeliveryInv, HeldWell, RowWell, MessageWell
<1>1. PICK o : o = message[m].of  OBVIOUS
<1>2. /\ UNCHANGED <<batch, retry, handed, again, stale>> /\ message[m] # Missing /\ message[m].by = Missing
      /\ message' = [message EXCEPT ![m] = [message[m] EXCEPT !.last = report]]
      /\ row' = [row EXCEPT ![o] = [row[o] EXCEPT !.status = ClassifyStatus(report, @)]]
  BY <1>1 DEF WhatsAppCallback
<1>3. o \in Outbox /\ row[o] \in OutboxRow /\ row[o] # Missing /\ MessageWell(m, o)
      /\ message[m] \in MessageRow /\ handed[o] \in Nat
  BY <1>1, <1>2 DEF MessagesInv, DeliveryTypeOK, MessageRow
<1>4. PICK new : new = ClassifyStatus(report, row[o].status)  OBVIOUS
<1>5. new \in {"PENDING", "SENT", "DELIVERED", "FAILED"}
      /\ (report \in {"delivered", "read"} => new = "SENT")
      /\ (report = "failed" => new = "FAILED") /\ (new = "PENDING" => row[o].status = "PENDING")
  BY <1>3, <1>4 DEF ClassifyStatus, OutboxRow, Reports
<1>6. /\ row'[o] \in OutboxRow /\ row'[o].status = new /\ row'[o].retries = row[o].retries
  BY <1>2, <1>3, <1>4, <1>5 DEF OutboxRow, DeliveryTypeOK
<1>7. row'[o] # Missing  BY <1>6, MissingIsNone
<1>8. \A x \in Outbox \ {o} : row'[x] = row[x]  BY <1>2 DEF DeliveryTypeOK
<1>9. /\ message'[m] \in MessageRow /\ message'[m].of = o /\ message'[m].last = report
      /\ message'[m].by = Missing
  BY <1>1, <1>2, <1>3 DEF MessageRow, DeliveryTypeOK
<1>10. message'[m] # Missing  BY <1>9, MissingIsNone
<1>11. \A n \in Messages \ {m} : message'[n] = message[n]  BY <1>2 DEF DeliveryTypeOK
<1>12. DeliveryTypeOK'
  <2>1. row' \in [Outbox -> OutboxRow \cup {Missing}]
    BY <1>2, <1>3, <1>6, <1>8 DEF DeliveryTypeOK
  <2>2. message' \in [Messages -> MessageRow \cup {Missing}]
    BY <1>2, <1>9, <1>11 DEF DeliveryTypeOK
  <2> QED  BY <2>1, <2>2, <1>2 DEF DeliveryTypeOK, BatchTyped
<1>13. \A w \in Workers, x \in Outbox :
           (Holds(w, x)' <=> Holds(w, x)) /\ (IsOut(w, x)' <=> IsOut(w, x))
  BY <1>2 DEF Holds, IsOut, Busy
<1>14. o \notin again => /\ \A w \in Workers : ~Holds(w, o)
                        /\ row[o].status # "PENDING"
  <2>1. o \notin again => \A w \in Workers : ~Holds(w, o)  BY <1>2, <1>3
  <2>2. RowWell(o) /\ handed[o] > 0  BY <1>3 DEF RowsInv
  <2> QED  BY <2>1, <2>2, <1>3
<1>15. HoldersInv'
  <2> SUFFICES ASSUME NEW w \in Workers, NEW x \in Outbox, Holds(w, x)'
               PROVE  HeldWell(w, x)'
    BY DEF HoldersInv
  <2>1. Holds(w, x) /\ HeldWell(w, x)  BY <1>13 DEF HoldersInv
  <2>2. x = o => o \in again  BY <2>1, <1>14
  <2> QED  BY <2>1, <2>2, <1>2, <1>7, <1>8, <1>13
<1>16. RowsInv'
  <2> SUFFICES ASSUME NEW x \in Outbox PROVE RowWell(x)'  BY DEF RowsInv
  <2>1. RowWell(x)  BY DEF RowsInv
  <2>2. CASE x # o  BY <2>1, <2>2, <1>2, <1>8, <1>13
  <2>3. CASE x = o  BY <2>1, <2>3, <1>2, <1>3, <1>5, <1>6, <1>7, <1>14
  <2> QED  BY <2>2, <2>3
<1>17. MessagesInv'
  <2> SUFFICES ASSUME NEW n \in Messages, message'[n] # Missing
               PROVE  MessageWell(n, message[n].of)'
    BY DEF MessagesInv
  <2>1. \A k \in Messages : message'[k] # Missing =>
            message[k] # Missing /\ message'[k].of = message[k].of
    BY <1>1, <1>2, <1>9, <1>11
  <2>2. CASE n = m
    <3>1. MessageWell(m, o)'
      BY <2>1, <1>2, <1>3, <1>5, <1>6, <1>7, <1>9, <1>13
    <3> QED  BY <3>1, <2>2, <1>9
  <2>3. CASE n # m
    <3>1. PICK x : x = message[n].of  OBVIOUS
    <3>2. message'[n] = message[n] /\ MessageWell(n, x)
          /\ x \in Outbox /\ message[n].by \in Workers \cup {Missing}
      BY <2>1, <2>3, <3>1, <1>11 DEF MessagesInv, DeliveryTypeOK, MessageRow
    <3>3. x = o => o \in again  BY <2>3, <3>1, <3>2, <1>1, <1>2, <1>3
    <3> QED  BY <2>1, <3>1, <3>2, <3>3, <1>2, <1>7, <1>8, <1>13
  <2> QED  BY <2>2, <2>3
<1>18. RetriesInv'
  <2>1. \A a \in Admins : retry[a] # Missing => retry[a].of \in Outbox
    BY DEF DeliveryTypeOK, Retry
  <2> QED  BY <2>1, <1>2, <1>7, <1>8 DEF RetriesInv
<1> QED  BY <1>12, <1>15, <1>16, <1>17, <1>18

\* An administrator reads an entry that is there.
LEMMA RetryReads ==
  ASSUME DeliveryInv, NEW a \in Admins, NEW o \in Outbox, ReadRetry(a, o)
  PROVE  DeliveryInv'
<1>1. /\ UNCHANGED <<row, batch, message, handed, again, stale>> /\ row[o] # Missing
      /\ retry' = [retry EXCEPT ![a] = [of |-> o, count |-> row[o].retries]]
  BY DEF ReadRetry, Known
<1>2. [of |-> o, count |-> row[o].retries] \in Retry
  BY <1>1 DEF DeliveryInv, DeliveryTypeOK, OutboxRow, Retry
<1>3. retry' \in [Admins -> Retry \cup {Missing}] /\ RetriesInv'
  BY <1>1, <1>2 DEF DeliveryInv, DeliveryTypeOK, RetriesInv
<1> QED
  BY <1>1, <1>3 DEF DeliveryInv, DeliveryTypeOK, HoldersInv, RowsInv, MessagesInv, HeldWell,
                    RowWell, MessageWell, Holds, IsOut, Busy, BatchTyped

\* The administrator's wish puts the entry in again; unless the retry was stale, it starts
\* from the beginning.
LEMMA RetryKeeps ==
  ASSUME DeliveryInv, NEW a \in Admins, CommitRetry(a)
  PROVE  DeliveryInv'
<1> USE DEF DeliveryInv, HeldWell, RowWell, MessageWell
<1> DEFINE o == retry[a].of
           n == IF retry[a].count = 0 THEN row[o].retries ELSE 0
<1>0. retry[a] \in Retry /\ o \in Outbox /\ row[o] \in OutboxRow /\ row[o] # Missing
  BY DEF CommitRetry, DeliveryTypeOK, RetriesInv, Retry
<1>1. /\ UNCHANGED <<batch, message, handed>> /\ again' = again \cup {o}
      /\ retry' = [retry EXCEPT ![a] = Missing]
      /\ row[o] \in OutboxRow /\ row[o] # Missing /\ o \in Outbox /\ n \in Nat
      /\ row' = [row EXCEPT ![o] = [row[o] EXCEPT !.status = "PENDING", !.retries = n]]
      /\ stale' = IF n # 0 THEN stale \cup {o} ELSE stale \ {o}
  BY <1>0 DEF CommitRetry, CountReset, OutboxRow
<1> HIDE DEF o, n
<1>2. row'[o] \in OutboxRow /\ row'[o].status = "PENDING" /\ row'[o].retries = n
  BY <1>1 DEF OutboxRow, DeliveryTypeOK
<1>3. row'[o] # Missing  BY <1>2, MissingIsNone
<1>4. \A x \in Outbox \ {o} : row'[x] = row[x] /\ (x \in again' <=> x \in again)
                        /\ (x \in stale' <=> x \in stale)
  BY <1>1 DEF DeliveryTypeOK
<1>5. o \in again'  BY <1>1
<1>6. \A w \in Workers, x \in Outbox :
           (Holds(w, x)' <=> Holds(w, x)) /\ (IsOut(w, x)' <=> IsOut(w, x))
  BY <1>1 DEF Holds, IsOut, Busy
<1>7. DeliveryTypeOK'
  <2>1. row' \in [Outbox -> OutboxRow \cup {Missing}]
    BY <1>1, <1>2, <1>4 DEF DeliveryTypeOK
  <2> QED  BY <2>1, <1>1 DEF DeliveryTypeOK, BatchTyped
<1>8. HoldersInv'
  <2> SUFFICES ASSUME NEW w \in Workers, NEW x \in Outbox, Holds(w, x)'
               PROVE  HeldWell(w, x)'
    BY DEF HoldersInv
  <2>1. Holds(w, x) /\ HeldWell(w, x)  BY <1>6 DEF HoldersInv
  <2> QED  BY <2>1, <1>1, <1>3, <1>4, <1>5, <1>6
<1>9. RowsInv'
  <2> SUFFICES ASSUME NEW x \in Outbox PROVE RowWell(x)'  BY DEF RowsInv
  <2>1. RowWell(x)  BY DEF RowsInv
  <2>2. CASE x # o  BY <2>1, <2>2, <1>1, <1>4, <1>6
  <2>3. CASE x = o
    <3>1. 0 < MaxTries /\ (o \notin stale' => n = 0)  BY <1>1, DeliveryAssumption
    <3> QED  BY <2>3, <3>1, <1>2, <1>3, <1>5
  <2> QED  BY <2>2, <2>3
<1>10. MessagesInv'
  <2> SUFFICES ASSUME NEW m \in Messages, message[m] # Missing
               PROVE  MessageWell(m, message[m].of)'
    BY <1>1 DEF MessagesInv
  <2>1. PICK x : x = message[m].of  OBVIOUS
  <2>2. MessageWell(m, x) /\ x \in Outbox /\ message[m].by \in Workers \cup {Missing}
    BY <2>1 DEF MessagesInv, DeliveryTypeOK, MessageRow
  <2> QED  BY <2>1, <2>2, <1>1, <1>3, <1>4, <1>5, <1>6
<1>11. RetriesInv'
  <2>1. \A x \in Admins : retry[x] # Missing => retry[x].of \in Outbox
    BY DEF DeliveryTypeOK, Retry
  <2> QED  BY <2>1, <1>1, <1>3, <1>4 DEF RetriesInv, DeliveryTypeOK
<1> QED  BY <1>7, <1>8, <1>9, <1>10, <1>11

LEMMA DeliveryStep == DeliveryInv /\ [DeliveryNext]_delivery => DeliveryInv'
<1> SUFFICES ASSUME DeliveryInv, [DeliveryNext]_delivery PROVE DeliveryInv'  OBVIOUS
<1>1. CASE UNCHANGED delivery
  BY <1>1 DEF delivery, DeliveryInv, DeliveryTypeOK, HoldersInv, RowsInv, RetriesInv, MessagesInv,
              HeldWell, RowWell, MessageWell, Holds, IsOut, Busy, BatchTyped
<1>2. CASE DeliveryNext
  BY <1>2, CreateKeeps, ReadKeeps, AttemptKeeps, CommitKeeps, LoseKeeps, CallbackKeeps, RetryReads,
     RetryKeeps
     DEF DeliveryNext, Results
<1> QED  BY <1>1, <1>2

\* Whatever service, worker, reports and administrators do at once: an entry that waits is
\* one the worker takes, unless its last retry was stale, and one that is shown as sent was handed out; unless in again, it
\* was handed out once and says what the last report says.
THEOREM DeliveriesStayExact == DeliverySpec => []DeliveriesAgree
<1>1. DeliveryInv => DeliveriesAgree
  <2> SUFFICES ASSUME DeliveryInv, NEW o \in Known
      PROVE  /\ o \notin stale /\ row[o].status = "PENDING" => row[o].retries < MaxTries
             /\ row[o].status \in {"SENT", "DELIVERED"} => handed[o] > 0
             /\ o \notin again =>
                   /\ handed[o] <= 1
                   /\ \A m \in {x \in Messages : message[x] # Missing /\ message[x].of = o} :
                         /\ message[m].last \in {"delivered", "read"} => row[o].status = "SENT"
                         /\ message[m].last = "failed" => row[o].status = "FAILED"
    BY DEF DeliveriesAgree
  <2> QED  BY DEF DeliveryInv, RowsInv, RowWell, MessagesInv, MessageWell, Known
<1> QED  BY <1>1, DeliveryStarts, DeliveryStep, PTL DEF DeliverySpec

-------------------------------------------------------------------------------
(* The gateway's door. *)

\* The kinds of requests that have a limit.
Limited == {"login", "sync", "default"}
AnswerStatuses == AnswerCodes \cup {500}

MetricsType == [requests : [AnswerCodes -> Nat], blocks : Nat, errors : Nat]
DoorTyped ==
    /\ clock \in 0..MaxClock
    /\ bucket \in [Buckets \X Windows -> Nat]
    /\ through \in [Buckets \X Windows -> [Limited -> Nat]]
    /\ visit \in [Visits -> {Unset} \cup Visit]
    /\ metrics \in MetricsType

\* Who gets through was counted, and who was refused found the bucket full.
BucketWell(b) ==
    /\ \A k \in Limited : through[b][k] <= bucket[b] /\ through[b][k] <= Limit[k]
    /\ LET all == through[b]["login"] + through[b]["sync"] + through[b]["default"]
       IN all = bucket[b] \/ \E k \in Limited : all >= Limit[k]
VisitWell(v) ==
    /\ visit[v].status = 429 =>
           bucket[<<visit[v].key, visit[v].window>>] > Limit[visit[v].kind]
    /\ visit[v].at # "answered" => visit[v].status = 200
LimiterInv ==
    /\ DoorTyped
    /\ \A b \in Buckets \X Windows : BucketWell(b)
    /\ \A v \in Visits : visit[v] # Unset => VisitWell(v)
    /\ MetricsAddUp

\* What a probe has seen it saw since it began, and what is kept was seen since its stamp.
ProbesInv ==
    /\ clock \in Nat /\ readiness \in [at : Int, saw : Seq(Nat)]
    /\ \A p \in probing :
          /\ p \in [id : 1..2, since : Nat, saw : Seq(Nat)]
          /\ p.since <= clock /\ Recent(p.saw, p.since)
    /\ Recent(readiness.saw, readiness.at)
    /\ served

Changed == <<bucket, visit, through, metrics>>

\* The records of requests.
LEMMA KeysAreBuckets ==
  ASSUME NEW path \in Paths, NEW c \in Callers \cup {Anonymous}, NEW device \in {Unset, "device"}
  PROVE  get_rate_limit_key(path, c, device) \in Buckets /\ KindOfPath(path) \in Limited
BY DEF get_rate_limit_key, Buckets, KindOfPath, Limited

LEMMA Refusals ==
  ASSUME NEW c, NEW g, NEW path
  PROVE  check_rbac(c, g, path) \in {200, 401, 403}
<1> DEFINE required == get_required_permission(path)
<1> HIDE DEF required
<1>1. check_rbac(c, g, path) =
        CASE required = "public" -> 200
          [] required # "public" /\ c = Anonymous -> 401
          [] required = "authenticated" /\ c # Anonymous -> 200
          [] OTHER -> IF required \in g THEN 200 ELSE 403
  BY DEF check_rbac, required
<1>2. CASE required = "public"  BY <1>1, <1>2
<1>3. CASE required # "public" /\ c = Anonymous  BY <1>1, <1>3
<1>4. CASE required = "authenticated" /\ c # Anonymous  BY <1>1, <1>4
<1>5. CASE required # "public" /\ c # Anonymous /\ required # "authenticated"  BY <1>1, <1>5
<1> QED  BY <1>2, <1>3, <1>4, <1>5

LEMMA WindowOfNow == ASSUME clock \in 0..MaxClock PROVE clock \div Window \in Windows
BY DEF Windows

\* A number of the metrics moves by one, and nothing else of them.
LEMMA OneMoreMeasured ==
  ASSUME NEW m \in MetricsType, NEW status \in AnswerCodes
  PROVE  /\ Measured(m, status) \in MetricsType
         /\ Measured(m, status).blocks = m.blocks /\ Measured(m, status).errors = m.errors
         /\ \A s \in AnswerCodes : Measured(m, status).requests[s] =
                IF s = status THEN m.requests[s] + 1 ELSE m.requests[s]
BY DEF Measured, MetricsType

\* What becomes of a request when it is answered.
LEMMA AnsweredVisit ==
  ASSUME NEW x \in Visit, NEW status \in AnswerStatuses
  PROVE  /\ AsAnswered(x, status) \in Visit
         /\ AsAnswered(x, status).at = "answered" /\ AsAnswered(x, status).status = status
         /\ AsAnswered(x, status).key = x.key /\ AsAnswered(x, status).window = x.window
         /\ AsAnswered(x, status).kind = x.kind
<1>1. PICK S, K, R : S = AnswerStatuses /\ K = DOMAIN Limit
                     /\ R = {Unset} \cup {resolve_service(p) : p \in Paths}
  OBVIOUS
<1>2. PICK A : A = {"door", "through", "answered"}  OBVIOUS
<1>3. Visit = [at : A, status : S, kind : K, key : Buckets, window : Windows, service : R]
  BY <1>1, <1>2 DEF Visit, AnswerStatuses
<1>4. "answered" \in A /\ Unset \in R /\ status \in S  BY <1>1, <1>2
<1> QED  BY <1>3, <1>4 DEF AsAnswered

\* A request that is answered moves one number of the metrics.
LEMMA OneMoreAnswer ==
  ASSUME LimiterInv, NEW v \in Visits, NEW status \in AnswerStatuses,
         visit[v] = Unset \/ visit[v].at # "answered",
         visit'[v] # Unset, visit'[v].at = "answered", visit'[v].status = status,
         \A w \in Visits \ {v} : visit'[w] = visit[w],
         NEW s \in AnswerCodes
  PROVE  Cardinality(AnsweredWith(s))' =
             IF s = status THEN Cardinality(AnsweredWith(s)) + 1 ELSE Cardinality(AnsweredWith(s))
<1>1. IsFiniteSet(AnsweredWith(s)) /\ v \notin AnsweredWith(s)
  BY FS_Subset, DoorAssumption DEF AnsweredWith
<1>2. CASE s = status
  <2>1. AnsweredWith(s)' = AnsweredWith(s) \cup {v}
    BY <1>2 DEF AnsweredWith
  <2>2. Cardinality(AnsweredWith(s) \cup {v}) = Cardinality(AnsweredWith(s)) + 1
    BY <1>1, FS_AddElement
  <2> QED  BY <1>2, <2>1, <2>2
<1>3. CASE s # status
  <2>1. AnsweredWith(s)' = AnsweredWith(s)
    BY <1>3 DEF AnsweredWith
  <2> QED  BY <1>3, <2>1
<1> QED  BY <1>2, <1>3

\* A request that is not answered before or after moves none.
LEMMA NoMoreAnswers ==
  ASSUME NEW v \in Visits, visit[v] = Unset \/ visit[v].at # "answered",
         visit'[v] # Unset => visit'[v].at # "answered",
         \A w \in Visits \ {v} : visit'[w] = visit[w],
         NEW s \in AnswerCodes
  PROVE  AnsweredWith(s)' = AnsweredWith(s)
BY DEF AnsweredWith

LEMMA DoorStarts == DoorInit => LimiterInv /\ ProbesInv
<1> SUFFICES ASSUME DoorInit PROVE LimiterInv /\ ProbesInv  OBVIOUS
<1>1. DOMAIN Limit = Limited /\ \A k \in Limited : Limit[k] \in Nat
  BY DoorAssumption DEF Limited
<1>2. DoorTyped  BY <1>1, DoorAssumption DEF DoorInit, DoorTyped, MetricsType, AnswerCodes
<1>3. ASSUME NEW b \in Buckets \X Windows PROVE BucketWell(b)
  BY <1>1 DEF DoorInit, BucketWell, Limited
<1>4. MetricsAddUp
  <2>1. \A s \in AnswerCodes : AnsweredWith(s) = {}  BY DEF DoorInit, AnsweredWith
  <2>2. Cardinality({}) = 0  BY FS_EmptySet
  <2>3. \A s \in AnswerCodes : metrics.requests[s] = 0  BY DEF DoorInit
  <2>4. metrics.blocks = 0 /\ metrics.errors = 0  BY DEF DoorInit
  <2> QED  BY <2>1, <2>2, <2>3, <2>4 DEF MetricsAddUp, AnswerCodes
<1>5. LimiterInv  BY <1>2, <1>3, <1>4 DEF LimiterInv, DoorInit
<1>6. ProbesInv  BY DoorAssumption DEF ProbesInv, DoorInit, Recent
<1> QED  BY <1>5, <1>6

LEMMA ComesInKeeps ==
  ASSUME LimiterInv, NEW v \in Visits, NEW path \in Paths, NEW c \in Callers \cup {Anonymous},
         NEW g, NEW device \in {Unset, "device"}, ComesIn(v, path, c, g, device)
  PROVE  LimiterInv'
<1> DEFINE status == check_rbac(c, g, path)
           at == IF status = 200 THEN "door" ELSE "answered"
           key == get_rate_limit_key(path, c, device)
           kind == KindOfPath(path)
           new == [at |-> at, status |-> status, kind |-> kind, key |-> key,
                   window |-> clock \div Window, service |-> resolve_service(path)]
<1>1. /\ visit[v] = Unset /\ visit' = [visit EXCEPT ![v] = new]
      /\ metrics' = IF status = 200 THEN metrics ELSE Measured(metrics, status)
      /\ UNCHANGED <<clock, bucket, through>>
  BY DEF ComesIn
<1>2. status \in {200, 401, 403} /\ key \in Buckets /\ kind \in Limited
      /\ clock \div Window \in Windows /\ DOMAIN Limit = Limited
  BY Refusals, KeysAreBuckets, WindowOfNow, DoorAssumption DEF LimiterInv, DoorTyped, Limited
<1> HIDE DEF status, key, kind
<1>3. new \in Visit  BY <1>2 DEF Visit, AnswerCodes
<1>4. /\ visit' \in [Visits -> {Unset} \cup Visit] /\ visit'[v] = new /\ new # Unset
      /\ \A w \in Visits \ {v} : visit'[w] = visit[w]
  BY <1>1, <1>3, DoorAssumption DEF LimiterInv, DoorTyped
<1>5. metrics' \in MetricsType
  BY <1>1, <1>2, OneMoreMeasured DEF LimiterInv, DoorTyped, AnswerCodes
<1>6. DoorTyped'  BY <1>1, <1>4, <1>5 DEF LimiterInv, DoorTyped
<1>7. MetricsAddUp'
  <2>1. CASE status = 200
    <3>1. \A s \in AnswerCodes : AnsweredWith(s)' = AnsweredWith(s)
      BY <1>1, <1>4, <2>1, NoMoreAnswers
    <3> QED  BY <1>1, <2>1, <3>1 DEF LimiterInv, MetricsAddUp
  <2>2. CASE status # 200
    <3>1. status \in AnswerStatuses /\ new.status = status /\ new.at = "answered"
      BY <1>2, <2>2 DEF AnswerStatuses, AnswerCodes
    <3>2. \A s \in AnswerCodes : Cardinality(AnsweredWith(s))' =
             IF s = status THEN Cardinality(AnsweredWith(s)) + 1 ELSE Cardinality(AnsweredWith(s))
      BY <1>1, <1>4, <3>1, OneMoreAnswer
    <3>3. /\ \A s \in AnswerCodes : metrics'.requests[s] =
                 IF s = status THEN metrics.requests[s] + 1 ELSE metrics.requests[s]
          /\ metrics'.blocks = metrics.blocks /\ metrics'.errors = metrics.errors
      BY <1>1, <1>2, <2>2, OneMoreMeasured DEF LimiterInv, DoorTyped, AnswerCodes
    <3> QED  BY <1>2, <3>2, <3>3 DEF LimiterInv, MetricsAddUp, AnswerCodes
  <2> QED  BY <2>1, <2>2
<1>8. ASSUME NEW w \in Visits, visit'[w] # Unset PROVE VisitWell(w)'
  <2>1. CASE w = v  BY <2>1, <1>2, <1>4 DEF VisitWell
  <2>2. CASE w # v  BY <2>2, <1>1, <1>4, <1>8 DEF LimiterInv, VisitWell
  <2> QED  BY <2>1, <2>2
<1> QED  BY <1>1, <1>6, <1>7, <1>8 DEF LimiterInv, BucketWell

LEMMA CheckKeeps ==
  ASSUME LimiterInv, NEW v \in Visits, Check(v)
  PROVE  LimiterInv'
<1>0. PICK x, b : x = visit[v] /\ b = <<x.key, x.window>>  OBVIOUS
<1> DEFINE count == bucket[b] + 1
<1>1. /\ x # Unset /\ x.at = "door" /\ bucket' = [bucket EXCEPT ![b] = count]
      /\ clock' = clock
      /\ \/ /\ count <= Limit[x.kind]
            /\ through' = [through EXCEPT ![b][x.kind] = @ + 1]
            /\ visit' = [visit EXCEPT ![v].at = "through"] /\ metrics' = metrics
         \/ /\ ~(count <= Limit[x.kind])
            /\ metrics' = [Measured(metrics, 429) EXCEPT !.blocks = @ + 1]
            /\ Answered(v, 429) /\ through' = through
  BY <1>0 DEF Check, WithinLimit
<1>2. x \in Visit /\ x.status = 200
  BY <1>0, <1>1 DEF LimiterInv, DoorTyped, VisitWell
<1>3. DOMAIN Limit = Limited /\ \A k \in Limited : Limit[k] \in Nat
  BY DoorAssumption DEF Limited
<1>4. x.kind \in Limited /\ b \in Buckets \X Windows  BY <1>0, <1>2, <1>3 DEF Visit
<1>5. bucket[b] \in Nat /\ count \in Nat /\ count = bucket[b] + 1 /\ through[b] \in [Limited -> Nat] /\ BucketWell(b)
  BY <1>4 DEF LimiterInv, DoorTyped
<1>6. /\ bucket' \in [Buckets \X Windows -> Nat] /\ bucket'[b] = count
      /\ \A d \in Buckets \X Windows : d # b => bucket'[d] = bucket[d]
  BY <1>1, <1>4, <1>5 DEF LimiterInv, DoorTyped
<1> HIDE DEF count
<1>7. \A d \in Buckets \X Windows : bucket[d] \in Nat /\ bucket'[d] >= bucket[d]
  <2>1. count >= bucket[b]  BY <1>5 DEF count
  <2>2. \A d \in Buckets \X Windows : bucket[d] \in Nat  BY DEF LimiterInv, DoorTyped
  <2> QED  BY <1>6, <2>1, <2>2
<1>8. CASE count <= Limit[x.kind]
  <2>1. /\ through' = [through EXCEPT ![b][x.kind] = @ + 1]
        /\ visit' = [visit EXCEPT ![v].at = "through"] /\ metrics' = metrics
    BY <1>1, <1>8
  <2>2. /\ through'[b] = [through[b] EXCEPT ![x.kind] = @ + 1]
        /\ through'[b] \in [Limited -> Nat]
        /\ through' \in [Buckets \X Windows -> [Limited -> Nat]]
        /\ \A d \in Buckets \X Windows : d # b => through'[d] = through[d]
    BY <2>1, <1>4, <1>5 DEF LimiterInv, DoorTyped
  <2>3. [x EXCEPT !.at = "through"] \in Visit
    BY <1>2 DEF Visit
  <2>4. /\ visit'[v] = [x EXCEPT !.at = "through"] /\ visit'[v] # Unset
        /\ visit' \in [Visits -> {Unset} \cup Visit]
        /\ \A w \in Visits \ {v} : visit'[w] = visit[w]
    BY <2>1, <2>3, <1>0, DoorAssumption DEF LimiterInv, DoorTyped
  <2>5. visit'[v].at = "through" /\ visit'[v].status = 200
    BY <2>4, <1>2 DEF Visit
  <2>6. DoorTyped'
    BY <1>1, <1>6, <2>1, <2>2, <2>4 DEF LimiterInv, DoorTyped
  <2>7. MetricsAddUp'
    <3>1. \A s \in AnswerCodes : AnsweredWith(s)' = AnsweredWith(s)
      BY <1>0, <1>1, <2>4, <2>5, NoMoreAnswers
    <3> QED  BY <2>1, <3>1 DEF LimiterInv, MetricsAddUp
  <2>8. BucketWell(b)'
    <3>1. \A k \in Limited : through'[b][k] <= bucket'[b] /\ through'[b][k] <= Limit[k]
      BY <1>3, <1>4, <1>5, <1>6, <1>8, <2>2 DEF BucketWell
    <3>2. through'[b]["login"] + through'[b]["sync"] + through'[b]["default"]
            = through[b]["login"] + through[b]["sync"] + through[b]["default"] + 1
      BY <1>4, <1>5, <2>2 DEF Limited
    <3>3. LET all == through[b]["login"] + through[b]["sync"] + through[b]["default"]
          IN all \in Nat /\ (all = bucket[b] \/ \E k \in Limited : all >= Limit[k])
      BY <1>5 DEF BucketWell, Limited
    <3> QED  BY <1>3, <1>5, <1>6, <3>1, <3>2, <3>3 DEF BucketWell
  <2>9. \A d \in Buckets \X Windows : BucketWell(d)'
    BY <2>8, <2>2, <1>6 DEF LimiterInv, BucketWell
  <2>10. ASSUME NEW w \in Visits, visit'[w] # Unset PROVE VisitWell(w)'
    <3>1. CASE w = v  BY <3>1, <2>5 DEF VisitWell
    <3>2. CASE w # v
      <4>1. visit'[w] = visit[w] /\ visit[w] \in Visit  BY <3>2, <2>4, <2>10
      <4>2. <<visit[w].key, visit[w].window>> \in Buckets \X Windows
            /\ Limit[visit[w].kind] \in Nat
        BY <4>1, <1>3 DEF Visit
      <4>3. PICK d : d = <<visit[w].key, visit[w].window>>  OBVIOUS
      <4>4. bucket'[d] \in Nat /\ bucket[d] \in Nat /\ bucket'[d] >= bucket[d]
        BY <4>2, <4>3, <1>6, <1>7
      <4>5. VisitWell(w)  BY <4>1, <2>10 DEF LimiterInv
      <4> QED  BY <4>1, <4>2, <4>3, <4>4, <4>5 DEF VisitWell
    <3> QED  BY <3>1, <3>2
  <2> QED  BY <2>6, <2>7, <2>9, <2>10 DEF LimiterInv
<1>9. CASE ~(count <= Limit[x.kind])
  <2>1. /\ metrics' = [Measured(metrics, 429) EXCEPT !.blocks = @ + 1]
        /\ visit' = [visit EXCEPT ![v] = AsAnswered(visit[v], 429)]
        /\ through' = through
    BY <1>1, <1>9 DEF Answered
  <2>2. AsAnswered(x, 429) \in Visit
    <3>1. 429 \in AnswerStatuses  BY DEF AnswerStatuses, AnswerCodes
    <3> QED  BY <1>2, <3>1, AnsweredVisit
  <2>3. /\ visit'[v] = AsAnswered(x, 429)
        /\ visit'[v] # Unset /\ visit' \in [Visits -> {Unset} \cup Visit]
        /\ \A w \in Visits \ {v} : visit'[w] = visit[w]
    BY <2>1, <2>2, <1>0, DoorAssumption DEF LimiterInv, DoorTyped
  <2>4. /\ visit'[v].at = "answered" /\ visit'[v].status = 429
        /\ visit'[v].key = x.key /\ visit'[v].window = x.window /\ visit'[v].kind = x.kind
    <3>1. 429 \in AnswerStatuses  BY DEF AnswerStatuses, AnswerCodes
    <3> QED  BY <2>3, <1>2, <3>1, AnsweredVisit
  <2>5. /\ metrics' \in MetricsType
        /\ \A s \in AnswerCodes : metrics'.requests[s] =
               IF s = 429 THEN metrics.requests[s] + 1 ELSE metrics.requests[s]
        /\ metrics'.blocks = metrics.blocks + 1 /\ metrics'.errors = metrics.errors
    <3>1. PICK k : k = Measured(metrics, 429)  OBVIOUS
    <3>2. /\ k \in MetricsType /\ k.blocks = metrics.blocks /\ k.errors = metrics.errors
          /\ \A s \in AnswerCodes : k.requests[s] =
                 IF s = 429 THEN metrics.requests[s] + 1 ELSE metrics.requests[s]
      BY <3>1, OneMoreMeasured DEF LimiterInv, DoorTyped, AnswerCodes
    <3>3. [k EXCEPT !.blocks = @ + 1] \in MetricsType  BY <3>2 DEF MetricsType
    <3> QED  BY <2>1, <3>1, <3>2, <3>3 DEF MetricsType
  <2>6. DoorTyped'
    BY <1>1, <1>6, <2>1, <2>3, <2>5 DEF LimiterInv, DoorTyped
  <2>7. MetricsAddUp'
    <3>1. 429 \in AnswerStatuses  BY DEF AnswerStatuses, AnswerCodes
    <3>2. \A s \in AnswerCodes : Cardinality(AnsweredWith(s))' =
             IF s = 429 THEN Cardinality(AnsweredWith(s)) + 1 ELSE Cardinality(AnsweredWith(s))
      <4>1. visit[v] = Unset \/ visit[v].at # "answered"  BY <1>0, <1>1
      <4> QED  BY <4>1, <2>3, <2>4, <3>1, OneMoreAnswer
    <3> QED  BY <2>5, <3>2 DEF LimiterInv, MetricsAddUp, AnswerCodes
  <2>8. BucketWell(b)'
    <3>1. count > Limit[x.kind] /\ Limit[x.kind] \in Nat  BY <1>3, <1>4, <1>5, <1>9
    <3>2. \A k \in Limited : through'[b][k] \in Nat /\ through'[b][k] <= bucket'[b]
                           /\ through'[b][k] <= Limit[k]
      BY <1>3, <1>5, <1>6, <2>1 DEF BucketWell
    <3>3. LET all == through[b]["login"] + through[b]["sync"] + through[b]["default"]
          IN all \in Nat /\ \E k \in Limited : all >= Limit[k]
      BY <1>4, <1>5, <3>1 DEF BucketWell, Limited
    <3> QED  BY <2>1, <3>2, <3>3 DEF BucketWell
  <2>9. \A d \in Buckets \X Windows : BucketWell(d)'
    BY <2>8, <2>1, <1>6 DEF LimiterInv, BucketWell
  <2>10. ASSUME NEW w \in Visits, visit'[w] # Unset PROVE VisitWell(w)'
    <3>1. CASE w = v  BY <3>1, <2>4, <1>0, <1>3, <1>4, <1>5, <1>6, <1>9 DEF VisitWell
    <3>2. CASE w # v
      <4>1. visit'[w] = visit[w] /\ visit[w] \in Visit  BY <3>2, <2>3, <2>10
      <4>2. <<visit[w].key, visit[w].window>> \in Buckets \X Windows
            /\ Limit[visit[w].kind] \in Nat
        BY <4>1, <1>3 DEF Visit
      <4>3. PICK d : d = <<visit[w].key, visit[w].window>>  OBVIOUS
      <4>4. bucket'[d] \in Nat /\ bucket[d] \in Nat /\ bucket'[d] >= bucket[d]
        BY <4>2, <4>3, <1>6, <1>7
      <4>5. VisitWell(w)  BY <4>1, <2>10 DEF LimiterInv
      <4> QED  BY <4>1, <4>2, <4>3, <4>4, <4>5 DEF VisitWell
    <3> QED  BY <3>1, <3>2
  <2> QED  BY <2>6, <2>7, <2>9, <2>10 DEF LimiterInv
<1> QED  BY <1>8, <1>9

\* Redis fails, or the request is forwarded: it is answered, and the limiter does not move.
LEMMA AnswerKeeps ==
  ASSUME LimiterInv, NEW v \in Visits, RedisFails(v) \/ Forward(v)
  PROVE  LimiterInv'
<1>1. PICK status \in {200, 404, 500, 502} :
        /\ Answered(v, status)
        /\ metrics' = CASE status = 500 -> metrics [] status = 502 -> Respond502
                        [] OTHER -> Measured(metrics, status)
  BY DEF RedisFails, Forward
<1>2. visit[v] # Unset /\ visit[v].at # "answered" /\ UNCHANGED <<clock, bucket, through>>
  BY DEF RedisFails, Forward
<1>3. visit[v] \in Visit  BY <1>2 DEF LimiterInv, DoorTyped
<1> DEFINE new == AsAnswered(visit[v], status)
<1>4. new \in Visit /\ new.at = "answered" /\ new.status = status
  <2>1. status \in AnswerStatuses  BY DEF AnswerStatuses, AnswerCodes
  <2> QED  BY <1>3, <2>1, AnsweredVisit
<1>5. /\ visit'[v] = new /\ new # Unset /\ visit' \in [Visits -> {Unset} \cup Visit]
      /\ \A w \in Visits \ {v} : visit'[w] = visit[w]
  BY <1>1, <1>4, DoorAssumption DEF Answered, LimiterInv, DoorTyped
<1>6. /\ metrics' \in MetricsType
      /\ \A s \in AnswerCodes : metrics'.requests[s] =
             IF s = status THEN metrics.requests[s] + 1 ELSE metrics.requests[s]
      /\ metrics'.blocks = metrics.blocks
      /\ metrics'.errors = IF status = 502 THEN metrics.errors + 1 ELSE metrics.errors
  <2>1. metrics \in MetricsType
    BY DEF LimiterInv, DoorTyped
  <2>2. CASE status = 500  BY <1>1, <2>1, <2>2 DEF AnswerCodes
  <2>3. CASE status = 502
    <3>1. PICK k : k = Measured(metrics, 502)  OBVIOUS
    <3>2. /\ k \in MetricsType /\ k.blocks = metrics.blocks /\ k.errors = metrics.errors
          /\ \A s \in AnswerCodes : k.requests[s] =
                 IF s = 502 THEN metrics.requests[s] + 1 ELSE metrics.requests[s]
      BY <2>1, <3>1, OneMoreMeasured DEF AnswerCodes
    <3>3. [k EXCEPT !.errors = @ + 1] \in MetricsType  BY <3>2 DEF MetricsType
    <3> QED  BY <1>1, <2>3, <3>1, <3>2, <3>3 DEF MetricsType, Respond502
  <2>4. CASE status \in {200, 404}  BY <1>1, <2>1, <2>4, OneMoreMeasured DEF AnswerCodes
  <2> QED  BY <2>2, <2>3, <2>4
<1>7. DoorTyped'  BY <1>2, <1>5, <1>6 DEF LimiterInv, DoorTyped
<1>8. MetricsAddUp'
  <2>1. status \in AnswerStatuses  BY DEF AnswerStatuses, AnswerCodes
  <2>2. \A s \in AnswerCodes : Cardinality(AnsweredWith(s))' =
           IF s = status THEN Cardinality(AnsweredWith(s)) + 1 ELSE Cardinality(AnsweredWith(s))
    <3>1. visit'[v].at = "answered" /\ visit'[v].status = status /\ visit'[v] # Unset
      BY <1>4, <1>5
    <3>2. visit[v] = Unset \/ visit[v].at # "answered"  BY <1>2
    <3> HIDE DEF new
    <3> QED  BY <1>5, <2>1, <3>1, <3>2, OneMoreAnswer
  <2> QED  BY <1>6, <2>2 DEF LimiterInv, MetricsAddUp, AnswerCodes
<1>9. ASSUME NEW w \in Visits, visit'[w] # Unset PROVE VisitWell(w)'
  <2>1. CASE w = v  BY <2>1, <1>4, <1>5 DEF VisitWell
  <2>2. CASE w # v  BY <2>2, <1>2, <1>5, <1>9 DEF LimiterInv, VisitWell
  <2> QED  BY <2>1, <2>2
<1> QED  BY <1>2, <1>7, <1>8, <1>9 DEF LimiterInv, BucketWell

\* Steps that leave the requests alone.
LEMMA StillKeeps ==
  ASSUME LimiterInv, UNCHANGED Changed, clock' \in 0..MaxClock
  PROVE  LimiterInv'
BY DEF LimiterInv, Changed, DoorTyped, BucketWell, VisitWell, MetricsAddUp, AnsweredWith

LEMMA ProbesKeep ==
  ASSUME ProbesInv, ReadyNext
  PROVE  ProbesInv'
<1>1. CASE ServeCached
  <2>1. Recent(readiness.saw, clock - ReadinessTTL)
    BY <1>1, DoorAssumption DEF ServeCached, Cached, ProbesInv, Recent
  <2> QED  BY <1>1, <2>1 DEF ServeCached, ProbesInv
<1>2. ASSUME NEW i \in 1..2, StartProbes(i) PROVE ProbesInv'
  <2> DEFINE q == [id |-> i, since |-> clock, saw |-> <<>>]
  <2>1. q \in [id : 1..2, since : Nat, saw : Seq(Nat)] /\ q.since = clock /\ q.saw = <<>>
        /\ Recent(<<>>, clock)
    BY DEF ProbesInv, Recent
  <2>2. probing' = probing \cup {q} /\ UNCHANGED <<clock, readiness, served>>
    BY <1>2 DEF StartProbes
  <2> HIDE DEF q
  <2> QED  BY <2>1, <2>2 DEF ProbesInv
<1>3. ASSUME NEW p \in probing, Ready(p) PROVE ProbesInv'
  <2>1. /\ readiness' = [at |-> p.since, saw |-> p.saw] /\ probing' = probing \ {p}
        /\ served' = (served /\ Recent(p.saw, p.since)) /\ clock' = clock
    BY <1>3 DEF Ready, Stamp
  <2>2. p.since \in Int /\ p.saw \in Seq(Nat) /\ Recent(p.saw, p.since) /\ served
    BY DEF ProbesInv
  <2>3. /\ readiness' \in [at : Int, saw : Seq(Nat)]
        /\ readiness'.saw = p.saw /\ readiness'.at = p.since
    BY <2>1, <2>2
  <2> QED  BY <2>1, <2>2, <2>3 DEF ProbesInv
<1>4. ASSUME NEW p \in probing, check_health(p) PROVE ProbesInv'
  <2> DEFINE q == [p EXCEPT !.saw = Append(@, clock)]
  <2>1. p \in [id : 1..2, since : Nat, saw : Seq(Nat)] /\ p.since <= clock
        /\ Recent(p.saw, p.since) /\ clock \in Nat
    BY DEF ProbesInv
  <2>2. q \in [id : 1..2, since : Nat, saw : Seq(Nat)] /\ q.since = p.since
        /\ q.saw = Append(p.saw, clock)
    <3>1. PICK n, s : n = p.since /\ s = p.saw  OBVIOUS
    <3>2. Append(s, clock) \in Seq(Nat)  BY <2>1, <3>1
    <3> QED  BY <2>1, <3>1, <3>2
  <2>3. Recent(q.saw, q.since)
    <3>1. ASSUME NEW k \in DOMAIN Append(p.saw, clock)
          PROVE  Append(p.saw, clock)[k] >= p.since
      BY <2>1 DEF Recent
    <3> QED  BY <2>2, <3>1 DEF Recent
  <2>4. probing' = (probing \ {p}) \cup {q} /\ UNCHANGED <<clock, readiness, served>>
    BY <1>4 DEF check_health
  <2> QED  BY <2>1, <2>2, <2>3, <2>4 DEF ProbesInv
<1> QED  BY <1>1, <1>2, <1>3, <1>4 DEF ReadyNext

LEMMA DoorStep ==
  LimiterInv /\ ProbesInv /\ [DoorNext]_door => LimiterInv' /\ ProbesInv'
<1> SUFFICES ASSUME LimiterInv, ProbesInv, [DoorNext]_door PROVE LimiterInv' /\ ProbesInv'
  OBVIOUS
<1>0. clock \in 0..MaxClock  BY DEF LimiterInv, DoorTyped
<1>1. CASE UNCHANGED door
  <2>1. LimiterInv'  BY <1>0, <1>1, StillKeeps DEF door, Changed
  <2>2. ProbesInv'  BY <1>1 DEF door, ProbesInv, Recent
  <2> QED  BY <2>1, <2>2
<1>2. CASE Tick
  <2>1. clock' \in 0..MaxClock /\ clock' = clock + 1  BY <1>0, <1>2, DoorAssumption DEF Tick
  <2>2. LimiterInv'  BY <1>2, <2>1, StillKeeps DEF Tick, Changed
  <2>3. ProbesInv'  BY <1>2, <2>1 DEF Tick, ProbesInv, Recent
  <2> QED  BY <2>2, <2>3
<1>3. CASE VisitNext
  <2>1. LimiterInv'  BY <1>3, CheckKeeps, AnswerKeeps, ComesInKeeps DEF VisitNext
  <2>2. UNCHANGED <<clock, probing, readiness, served>>
    BY <1>3 DEF VisitNext, Check, RedisFails, Forward, ComesIn
  <2>3. ProbesInv'  BY <2>2 DEF ProbesInv, Recent
  <2> QED  BY <2>1, <2>3
<1>4. CASE ReadyNext
  <2>1. UNCHANGED Changed /\ clock' = clock
    BY <1>4 DEF ReadyNext, ServeCached, StartProbes, Ready, check_health, Changed
  <2> QED  BY <1>0, <1>4, <2>1, StillKeeps, ProbesKeep
<1> QED  BY <1>1, <1>2, <1>3, <1>4 DEF DoorNext

\* However requests overlap and whatever the limits, the window and the number of callers: no
\* more requests of a kind pass in a window than its limit, none is refused while there is
\* room, every answer is in the metrics once, and no readiness answer is too old.
THEOREM DoorStaysExact == DoorSpec => []DoorAgrees
<1>1. LimiterInv /\ ProbesInv => DoorAgrees
  <2> SUFFICES ASSUME LimiterInv, ProbesInv PROVE DoorAgrees  OBVIOUS
  <2>1. DOMAIN Limit = Limited  BY DoorAssumption DEF Limited
  <2>2. RateIsBounded  BY <2>1 DEF LimiterInv, BucketWell, VisitWell, RateIsBounded
  <2>3. RoomIsUsed  BY <2>1 DEF LimiterInv, BucketWell, RoomIsUsed
  <2> QED  BY <2>2, <2>3 DEF LimiterInv, ProbesInv, ReadinessIsFresh, DoorAgrees
<1> QED  BY <1>1, DoorStarts, DoorStep, PTL DEF DoorSpec

===============================================================================
