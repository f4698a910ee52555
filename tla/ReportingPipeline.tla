--------------------------- MODULE ReportingPipeline ---------------------------
(* Reporting service: the Kafka consumer, ReportingService with its inbox of  *)
(* processed events, and the two command-line tools that feed it from a file. *)
(* A projection row is a school's counters.  It is read, added to in memory   *)
(* and written back whole, so it is kept here as how often each event is in   *)
(* it; every sum, count and aggregate the handlers keep is a function of that.*)
EXTENDS Naturals, Sequences, FiniteSets
CONSTANTS Events, Schools, SchoolOf, KindOf,
          NoRow, Unread,    \* a school without a row; a row not read yet
          BatchSize     \* events of a file that are committed together

\* "good": one of the six events with a handler.  "unhandled": no school_id at the top
\* level, an event type without handler, or not JSON.  "poison": its handler raises.
Kinds == {"good", "unhandled", "poison"}
Writers == {"consumer", "tool"}

ASSUME ReportingAssumption ==
    /\ SchoolOf \in [Events -> Schools] /\ KindOf \in [Events -> Kinds]
    /\ BatchSize \in Nat \ {0}
    /\ {NoRow, Unread} \cap [Events -> Nat] = {} /\ NoRow # Unread

VARIABLES log,          \* the messages of the topics
          position,     \* how many the consumer has been through
          offset,       \* how many Kafka holds as committed
          inbox,        \* processed_events
          stats,        \* school -> projection row
          session,      \* writer -> its open database session
          mixed,        \* history: two writers have overlapped
          excused       \* history: events whose transaction failed in the consumer, or
                        \* that a rebuild deleted
vars == <<log, position, offset, inbox, stats, session, mixed, excused>>

Rows == [Events -> Nat]
Blank == [e \in Events |-> 0]
NoneRead == [s \in Schools |-> Unread]
Closed == [op |-> "closed", batch |-> {}, rows |-> NoneRead]
Open(w) == session[w].op # "closed"
Good(E) == {e \in E : KindOf[e] = "good"}
Published == {log[i] : i \in 1..Len(log)}
SchoolsOf(E) == {SchoolOf[e] : e \in E}

ReportingInit ==
    /\ log = <<>> /\ position = 0 /\ offset = 0 /\ inbox = {}
    /\ stats = [s \in Schools |-> NoRow] /\ session = [w \in Writers |-> Closed]
    /\ mixed = FALSE /\ excused = {}

\* The producer gives each event an id of its own.
Publish(e) ==
    /\ e \notin Published
    /\ log' = Append(log, e)
    /\ UNCHANGED <<position, offset, inbox, stats, session, mixed, excused>>

\* A writer that has looked up the inbox goes on to the rows of these events.
Begin(w, E) ==
    /\ session' = [session EXCEPT ![w] = [op |-> "counting", batch |-> E, rows |-> NoneRead]]
    /\ mixed' = (mixed \/ \E v \in Writers \ {w} : Open(v))
End(w) == session' = [session EXCEPT ![w] = Closed]

------------------------------------------------------------------------------
\* The consumer.

Message == log[position + 1]
Waiting == position < Len(log) /\ ~Open("consumer")
Done == position' = position + 1

\* Slip: nobody steps over a message whose handler raises.
PassesUnlessPoison ==
    /\ Waiting /\ (KindOf[Message] = "unhandled" \/ Message \in inbox)
    /\ Done
    /\ UNCHANGED <<log, offset, inbox, stats, session, mixed, excused>>

\* A message that changes no row: without a handler, already in the inbox, or one
\* whose handler raises, after which the loop commits its offset all the same.
Pass ==
    /\ Waiting /\ (KindOf[Message] # "good" \/ Message \in inbox)
    /\ Done
    /\ UNCHANGED <<log, offset, inbox, stats, session, mixed, excused>>

\* Slip: the offset moves before the event is counted.
TakesAndMovesOn ==
    /\ Waiting /\ KindOf[Message] = "good" /\ Message \notin inbox
    /\ Begin("consumer", {Message}) /\ offset' = position + 1
    /\ UNCHANGED <<log, position, inbox, stats, excused>>

Take ==
    /\ Waiting /\ KindOf[Message] = "good" /\ Message \notin inbox
    /\ Begin("consumer", {Message})
    /\ UNCHANGED <<log, position, offset, inbox, stats, excused>>

\* Slip: the offset of the message being handled is committed with the others.
LandsOneMore ==
    /\ offset < position
    /\ offset' \in (offset + 2)..(position + 1)
    /\ UNCHANGED <<log, position, inbox, stats, session, mixed, excused>>

\* Offset commits are asynchronous: they arrive in order, some time after the loop has
\* gone on.
OffsetLands ==
    /\ offset < position
    /\ offset' \in (offset + 1)..position
    /\ UNCHANGED <<log, position, inbox, stats, session, mixed, excused>>

\* The process dies and starts again from the offset Kafka holds.
ConsumerRestarts ==
    /\ position' = offset /\ End("consumer")
    /\ UNCHANGED <<log, offset, inbox, stats, mixed, excused>>

------------------------------------------------------------------------------
\* The tools.  Both read a file of published events.

\* consume_events: the next chunk of the file.
ConsumeChunk(E) ==
    /\ ~Open("tool") /\ "poison" \notin {KindOf[e] : e \in E}
    /\ Good(E) \ inbox # {} /\ Cardinality(E) <= BatchSize
    /\ Begin("tool", Good(E) \ inbox)
    /\ UNCHANGED <<log, position, offset, inbox, stats, excused>>

\* Slip: "Clear projections (NOT ProcessedEvent - we keep the inbox)", the first of
\* the two comments in rebuild.
WipesRowsOnly ==
    /\ ~Open("tool")
    /\ stats' = [s \in Schools |-> NoRow] /\ excused' = excused \cup inbox
    /\ session' = [session EXCEPT !["tool"] =
                      [op |-> "rebuilding", batch |-> Published, rows |-> NoneRead]]
    /\ mixed' = (mixed \/ Open("consumer"))
    /\ UNCHANGED <<log, position, offset, inbox>>

\* rebuild: every row and the inbox are deleted and that is committed ...
Wipe ==
    /\ ~Open("tool")
    /\ stats' = [s \in Schools |-> NoRow] /\ inbox' = {} /\ excused' = excused \cup inbox
    /\ session' = [session EXCEPT !["tool"] =
                      [op |-> "rebuilding", batch |-> Published, rows |-> NoneRead]]
    /\ mixed' = (mixed \/ Open("consumer"))
    /\ UNCHANGED <<log, position, offset>>

\* ... and only then the whole archive is replayed in one more commit.
Replay ==
    /\ session["tool"].op = "rebuilding"
    /\ "poison" \notin {KindOf[e] : e \in session["tool"].batch}
    /\ Begin("tool", Good(session["tool"].batch) \ inbox)
    /\ UNCHANGED <<log, position, offset, inbox, stats, excused>>

------------------------------------------------------------------------------
\* Counting, the same for both.

Loaded(w) == {s \in Schools : session[w].rows[s] # Unread}

Load(w, s) ==
    /\ session[w].op = "counting" /\ s \in SchoolsOf(session[w].batch) \ Loaded(w)
    /\ session' = [session EXCEPT ![w].rows[s] = stats[s]]
    /\ UNCHANGED <<log, position, offset, inbox, stats, mixed, excused>>

AllLoaded(w) ==
    session[w].op = "counting" /\ Loaded(w) = SchoolsOf(session[w].batch)

\* The inbox is unique per event; a row that was absent is inserted, one that was there
\* must still be.
Conflicts(w) ==
    \/ session[w].batch \cap inbox # {}
    \/ \E s \in Loaded(w) : (session[w].rows[s] = NoRow) # (stats[s] = NoRow)

Counted(w, s) ==
    LET row == IF session[w].rows[s] = NoRow THEN Blank ELSE session[w].rows[s] IN
    [e \in Events |-> IF e \in session[w].batch /\ SchoolOf[e] = s THEN row[e] + 1 ELSE row[e]]

\* Rows and inbox are written in one commit.
Commit(w) ==
    /\ AllLoaded(w) /\ ~Conflicts(w)
    /\ inbox' = inbox \cup session[w].batch
    /\ stats' = [s \in Schools |-> IF s \in Loaded(w) THEN Counted(w, s) ELSE stats[s]]
    /\ IF w = "consumer" THEN Done ELSE UNCHANGED position
    /\ End(w)
    /\ UNCHANGED <<log, offset, mixed, excused>>

\* A constraint or a database error rolls everything back.  The consumer then goes on
\* with the next message; a tool ends with the error.
Fail(w) ==
    /\ Open(w)
    /\ IF w = "consumer" THEN Done /\ excused' = excused \cup session[w].batch
                         ELSE UNCHANGED <<position, excused>>
    /\ End(w)
    /\ UNCHANGED <<log, offset, inbox, stats, mixed>>

Consumes ==
    \/ Take \/ Pass \/ Commit("consumer") \/ \E s \in Schools : Load("consumer", s)
    \/ Conflicts("consumer") /\ AllLoaded("consumer") /\ Fail("consumer")

ToolNext ==
    \/ \E E \in SUBSET Published : ConsumeChunk(E)
    \/ Wipe \/ Replay \/ Commit("tool") \/ Fail("tool")
    \/ \E s \in Schools : Load("tool", s)

ReportingNext ==
    \/ \E e \in Events : Publish(e)
    \/ Consumes \/ OffsetLands \/ ConsumerRestarts \/ Fail("consumer")
    \/ ToolNext

ReportingSpec == ReportingInit /\ [][ReportingNext]_vars

\* The loop has work as long as there are messages (no step of it waits for anything),
\* and the container is not restarted for ever.
ReportingFairSpec ==
    ReportingSpec /\ WF_vars(Consumes) /\ <>[][~ConsumerRestarts]_vars

------------------------------------------------------------------------------
Session ==
    [op : {"closed", "counting", "rebuilding"}, batch : SUBSET Events,
     rows : [Schools -> Rows \cup {NoRow, Unread}]]

\* Every variable stays in its type; Kafka never holds an offset beyond what the
\* consumer has been through, nor the consumer a place beyond the log.
ReportingTypeOK ==
    /\ log \in Seq(Events) /\ offset \in 0..position /\ position \in 0..Len(log)
    /\ inbox \subseteq Events /\ excused \subseteq Events
    /\ stats \in [Schools -> Rows \cup {NoRow}]
    /\ session \in [Writers -> Session] /\ mixed \in BOOLEAN

\* The row of a school that counts each of its inbox events once.
Fold(s) == [e \in Events |-> IF e \in inbox /\ SchoolOf[e] = s THEN 1 ELSE 0]
RowOf(s) == IF stats[s] = NoRow THEN Blank ELSE stats[s]

\* As long as the tools have not run across the consumer, the projections are the fold
\* of the inbox: through redelivery, restarts, failed commits and rebuilds every event
\* in it is counted exactly once and no other is counted.
ProjectionIsFold == ~mixed => \A s \in Schools : RowOf(s) = Fold(s)

\* Every event with a handler behind the committed offset has been counted, unless its
\* transaction failed or a rebuild deleted it: a restart never skips one.
NothingSkipped ==
    \A i \in 1..offset : KindOf[log[i]] = "good" => log[i] \in inbox \cup excused

\* Every event with a handler that is published is counted in the end, or its
\* transaction failed, or a rebuild deleted it; poison does not hold up the rest.
EveryEventSettles ==
    \A e \in Events : (e \in Published /\ KindOf[e] = "good")
                          ~> (e \in inbox \cup excused)
===============================================================================
