------------------------------ MODULE SchoolRecords ------------------------------
(* Records of the services that are saved again and again.  A record has one  *)
(* row; a handler reads it, decides whether the request may be carried out,   *)
(* and sets the columns the request names, what it does not name stays as it  *)
(* is.  A behaviour is about one record of one kind.  Columns that handlers   *)
(* treat alike are represented by one or two of them, an author by the        *)
(* caller, and a moment too where nothing is said of it but that it is there. *)
EXTENDS Integers, Handlers
CONSTANTS Entries, NoValue   \* what a form can say in a column; an empty column

ASSUME RecordsAssumption ==
    NoValue \notin Entries \cup Callers \cup BOOLEAN \cup (Callers \X {0})

VARIABLES kind,       \* the kind of record this behaviour is about
          record,     \* its row
          answered    \* history: what was last answered for each column
recordVars == <<kind, record, answered>>

\* Rows that a form or a step of another module inserts, but for what the form says.
Filed == [staff        |-> [active |-> TRUE, left |-> NoValue],
          phrase       |-> [text |-> NoValue, archived |-> NoValue],
          incident     |-> [severity |-> NoValue, resolved |-> NoValue],
          substitute   |-> [revoked |-> NoValue, by |-> NoValue],
          submission   |-> [status |-> "draft", submitted |-> NoValue, accepted |-> NoValue,
                            notes |-> NoValue],
          admission    |-> [status |-> "submitted", student |-> NoValue],
          grievance    |-> [status |-> "open", notes |-> NoValue, resolved |-> NoValue],
          sponsorship  |-> [received |-> NoValue, status |-> "active"],
          alumnus      |-> [email |-> NoValue, contacted |-> NoValue],
          lessonplan   |-> [title |-> NoValue, activities |-> NoValue],
          project      |-> [spent |-> NoValue, completed |-> NoValue],
          visitor      |-> [out |-> NoValue],
          resource     |-> [topics |-> NoValue],
          template     |-> [published |-> FALSE],
          homework     |-> [title |-> NoValue, topics |-> NoValue],
          invite       |-> [status |-> "pending", invitation |-> NoValue],
          payment      |-> [status |-> "PENDING"],
          message      |-> [redacted |-> NoValue, by |-> NoValue],
          announcement |-> [deleted |-> NoValue]]
\* Rows that the first save inserts: an empty row, or the defaults of the table.
Upserted == [grant       |-> [revoked |-> FALSE, by |-> NoValue],
             evaluation  |-> [responses |-> NoValue, reflection |-> NoValue],
             health      |-> [allergies |-> NoValue, contact |-> NoValue],
             optout      |-> [reason |-> NoValue, by |-> NoValue],
             siblingrule |-> [rule |-> NoValue, by |-> NoValue],
             response    |-> [text |-> NoValue, at |-> NoValue],
             paymentcfg  |-> [provider |-> NoValue, config |-> NoValue, by |-> NoValue],
             channelcfg  |-> [provider |-> NoValue, config |-> NoValue, by |-> NoValue],
             preference  |-> [language |-> NoValue, theme |-> NoValue],
             school      |-> [name |-> NoValue, timezone |-> NoValue]]
Kinds == DOMAIN Filed \cup DOMAIN Upserted

\* A row that is not there has no columns.
Missing == << >>
There(row) == DOMAIN row # {}

RecordsInit == kind \in Kinds /\ record = Missing /\ answered = Missing

\* A row with what was sent in its columns.
Filled(row, sent) ==
    [k \in DOMAIN row \cup DOMAIN sent |-> IF k \in DOMAIN sent THEN sent[k] ELSE row[k]]
\* What a form says in columns that are saved later: `a` is required, `b` may be left empty.
\* An alumnus who is filed with an address was in contact with nobody yet.
Form(a, b) ==
    CASE kind = "phrase"     -> [text |-> a]
      [] kind = "incident"   -> [severity |-> a]
      [] kind = "alumnus"    -> [email |-> b]
      [] kind = "lessonplan" -> [title |-> a, activities |-> b]
      [] kind = "homework"   -> [title |-> a, topics |-> b]
      [] OTHER               -> << >>
\* The row of a filed kind is there before anything is decided about it.
Apply(a, b) ==
    /\ kind \in DOMAIN Filed /\ ~There(record)
    /\ record' = Filled(Filed[kind], Form(a, b)) /\ answered' = record'
    /\ UNCHANGED <<kind, callers>>

\* `sent` has the columns that the request sets.
ReadRecord(c, k, sent) ==
    /\ kind = k
    /\ k \in DOMAIN Filed => There(record)
    /\ Reads(c, [op |-> "save", on |-> DOMAIN sent, seen |-> record, sent |-> sent])
    /\ UNCHANGED recordVars
\* What is left of a form whose other fields are empty.
Sent(form) == [k \in {x \in DOMAIN form : form[x] # NoValue} |-> form[k]]

\* A moment is not the one that the request read, whoever writes it.
Now(c, seen) == IF seen = <<c, 0>> THEN <<c, 1>> ELSE <<c, 0>>

\* Staff, phrases, incidents and substitutes.
TerminateStaff(c) ==
    /\ kind = "staff" /\ There(record) /\ record.active
    /\ ReadRecord(c, "staff", [active |-> FALSE, left |-> c])
UpdatePhrase(c, a) == ReadRecord(c, "phrase", Sent([text |-> a]))
ArchivePhrase(c) ==
    /\ kind = "phrase" /\ There(record) /\ record.archived = NoValue
    /\ ReadRecord(c, "phrase", [archived |-> c])
UpdateIncident(c, a, b) == ReadRecord(c, "incident", Sent([severity |-> a, resolved |-> b]))
RevokeSubstitute(c) ==
    /\ kind = "substitute" /\ There(record) /\ record.revoked = NoValue
    /\ ReadRecord(c, "substitute", [revoked |-> Now(c, NoValue), by |-> c])
\* Heads of department: a grant that was revoked may be made again.
Grant(c) ==
    /\ kind = "grant" /\ (There(record) => record.revoked)
    /\ ReadRecord(c, "grant", [revoked |-> FALSE, by |-> c])
Revoke(c) ==
    /\ kind = "grant" /\ There(record) /\ ~record.revoked
    /\ ReadRecord(c, "grant", [revoked |-> TRUE])
Evaluate(c, a, b) ==
    /\ a # NoValue /\ b # NoValue
    /\ ReadRecord(c, "evaluation", [responses |-> a, reflection |-> b])
PutHealth(c, a, b) == ReadRecord(c, "health", Sent([allergies |-> a, contact |-> b]))

\* Decisions may be taken again, and in any order.
DecideSubmission(c, status, notes) ==
    ReadRecord(c, "submission",
        CASE status = "submitted" -> [status |-> status, submitted |-> c]
          [] status = "accepted"  -> [status |-> status, accepted |-> c]
          [] status = "rejected"  -> [status |-> status, notes |-> notes])
\* Who is enrolled is named.
Decide(c, status, student) ==
    /\ status = "enrolled" <=> student # NoValue
    /\ ReadRecord(c, "admission", Sent([status |-> status, student |-> student]))
\* The notes are set even when the request has none.
ResolveGrievance(c, status, notes) ==
    ReadRecord(c, "grievance",
        IF status = "in_review" THEN [status |-> status, notes |-> notes]
        ELSE [status |-> status, notes |-> notes, resolved |-> c])
UpdateSponsorship(c, a, status) ==
    ReadRecord(c, "sponsorship", Sent([received |-> a, status |-> status]))
\* Only what differs is set, and only then somebody was in contact.
UpdateAlumnus(c, a) ==
    /\ kind = "alumnus" /\ There(record)
    /\ ReadRecord(c, "alumnus",
           IF a \in {NoValue, record.email} THEN << >> ELSE [email |-> a, contacted |-> c])
UpdateLessonPlan(c, a, b) == ReadRecord(c, "lessonplan", Sent([title |-> a, activities |-> b]))
UpdateProject(c, a, b) == ReadRecord(c, "project", Sent([spent |-> a, completed |-> b]))
SignOut(c) ==
    /\ kind = "visitor" /\ There(record) /\ record.out = NoValue
    /\ ReadRecord(c, "visitor", [out |-> c])

\* The list of topics is replaced as a whole; an empty one clears the column.
TagResource(c, a) == ReadRecord(c, "resource", [topics |-> a])
PublishTemplate(c) ==
    /\ kind = "template" /\ There(record) /\ ~record.published
    /\ ReadRecord(c, "template", [published |-> TRUE])
UnpublishTemplate(c) == ReadRecord(c, "template", [published |-> FALSE])
\* An instance takes over what its template says now.
SyncHomework(c, a, b) == ReadRecord(c, "homework", [title |-> a, topics |-> b])
MarkDispatched(c, a) ==
    ReadRecord(c, "invite", [status |-> "dispatched", invitation |-> a])
ConfirmPayment(c) ==
    /\ kind = "payment" /\ There(record) /\ record.status # "PAID"
    /\ ReadRecord(c, "payment", [status |-> "PAID"])
\* A message may be redacted again, by somebody else.
RedactMessage(c) ==
    /\ kind = "message" /\ There(record)
    /\ ReadRecord(c, "message", [redacted |-> Now(c, record.redacted), by |-> c])
DeleteAnnouncement(c) ==
    /\ kind = "announcement" /\ There(record) /\ record.deleted = NoValue
    /\ ReadRecord(c, "announcement", [deleted |-> c])

\* Settings of a school, of a channel and of a user.
PutOptOut(c, a) == ReadRecord(c, "optout", [reason |-> a, by |-> c])
PutSiblingRule(c, a) == ReadRecord(c, "siblingrule", [rule |-> a, by |-> c])
SubmitResponse(c, a) == ReadRecord(c, "response", [text |-> a, at |-> c])
PutPaymentConfig(c, a, b) ==
    ReadRecord(c, "paymentcfg", [provider |-> a, config |-> b, by |-> c])
PutNotificationConfig(c, a, b) ==
    ReadRecord(c, "channelcfg", [provider |-> a, config |-> b, by |-> c])
\* The defaults of a user's roles are stored by a commit of their own.
SeedPreference(c) ==
    /\ kind = "preference" /\ ~There(record) /\ request[c] = Idle
    /\ record' = Upserted["preference"] /\ answered' = Upserted["preference"]
    /\ UNCHANGED <<kind, callers>>
UpdatePreference(c, a, b) ==
    /\ There(record)
    /\ ReadRecord(c, "preference", Sent([language |-> a, theme |-> b]))
UpsertSchool(c, a, b) == ReadRecord(c, "school", [name |-> a, timezone |-> b])

\* Slip: the columns that were not sent are written as they were read.
AsRead(now, seen) == seen
\* What a save makes of a column it was not sent.
LeftAlone(now, seen) == now
\* A row that was not there is inserted, unless one was inserted meanwhile; an UPDATE needs
\* the row it is about.
Save(c) ==
    /\ request[c].op = "save"
    /\ LET r == request[c]
       IN IF ~There(r.seen)
          THEN /\ ~There(record)
               /\ record' = Filled(Upserted[kind], r.sent) /\ answered' = record'
          ELSE /\ There(record)
               /\ record' = [k \in DOMAIN record |->
                     IF k \in DOMAIN r.sent THEN Written(record[k], r.seen[k], r.sent[k])
                     ELSE LeftAlone(record[k], r.seen[k])]
               /\ answered' = Filled(answered, r.sent)
    /\ UNCHANGED kind /\ Ends(c)

\* A school that takes part again: the row is gone.
ReadForRemoval(c) ==
    /\ kind = "optout" /\ There(record)
    /\ Reads(c, [op |-> "remove", on |-> DOMAIN record])
    /\ UNCHANGED recordVars
RemoveOptOut(c) ==
    /\ request[c].op = "remove" /\ There(record)
    /\ record' = Missing /\ answered' = Missing
    /\ UNCHANGED kind /\ Ends(c)

Maybe == Entries \cup {NoValue}
RecordsNext ==
    \/ \E a \in Entries, b \in Maybe : Apply(a, b)
    \/ \E c \in Callers :
          \/ TerminateStaff(c) \/ ArchivePhrase(c) \/ RevokeSubstitute(c) \/ Grant(c) \/ Revoke(c)
          \/ SignOut(c) \/ PublishTemplate(c) \/ UnpublishTemplate(c) \/ ConfirmPayment(c)
          \/ RedactMessage(c) \/ DeleteAnnouncement(c) \/ SeedPreference(c)
          \/ Save(c) \/ ReadForRemoval(c) \/ RemoveOptOut(c)
          \/ \E a \in Entries :
                UpdatePhrase(c, a) \/ MarkDispatched(c, a) \/ PutSiblingRule(c, a)
                \/ SubmitResponse(c, a)
          \/ \E a \in Maybe : UpdateAlumnus(c, a) \/ TagResource(c, a) \/ PutOptOut(c, a)
          \/ \E a \in Entries, b \in Maybe :
                \/ Evaluate(c, a, b) \/ SyncHomework(c, a, b) \/ UpsertSchool(c, a, b)
                \/ PutPaymentConfig(c, a, b) \/ PutNotificationConfig(c, a, b)
          \/ \E a, b \in Maybe :
                \/ PutHealth(c, a, b) \/ UpdateIncident(c, a, b) \/ UpdateLessonPlan(c, a, b)
                \/ UpdateProject(c, a, b) \/ UpdatePreference(c, a, b)
          \/ \E a \in Maybe, status \in {"active", "fulfilled", NoValue} :
                UpdateSponsorship(c, a, status)
          \/ \E a \in Maybe, status \in {"accepted", "rejected", "enrolled"} : Decide(c, status, a)
          \/ \E a \in Maybe, status \in {"submitted", "accepted", "rejected"} :
                DecideSubmission(c, status, a)
          \/ \E a \in Maybe, status \in {"in_review", "resolved", "dismissed"} :
                ResolveGrievance(c, status, a)

------------------------------------------------------------------------------
\* What must be in the columns of a row together, however its writers overlap.
Coherent ==
    CASE kind = "staff"      -> record.active <=> record.left = NoValue
      [] kind = "substitute" -> \/ record.revoked = NoValue /\ record.by = NoValue
                                \/ record.by \in Callers /\ record.revoked = <<record.by, 0>>
      [] kind = "submission" -> /\ record.status = "submitted" => record.submitted # NoValue
                                /\ record.status = "accepted" => record.accepted # NoValue
      [] kind = "admission"  -> record.status = "enrolled" => record.student # NoValue
      [] kind = "grievance"  -> record.status \in {"resolved", "dismissed"}
                                    => record.resolved # NoValue
      [] kind = "alumnus"    -> record.contacted = NoValue => record.email = answered.email
      [] kind = "invite"     -> record.status = "dispatched" <=> record.invitation # NoValue
      [] OTHER               -> TRUE
\* Every column holds what was last answered for it unless two requests that set that very
\* column overlapped, so two people who fill in different columns of a record at once both
\* succeed.  However decisions overlap, a decision has the columns that go with it: who left
\* has a day, who is enrolled is a student, and who revoked a substitute is the one that did so
\* at the moment recorded.  An alumnus nobody was in contact with has the address that was
\* answered last, which is the one of the form: whoever changes it was in contact.
RecordsAgree ==
    There(record) =>
        /\ \A k \in DOMAIN record : k \in raced \/ record[k] = answered[k]
        /\ Coherent
===============================================================================
