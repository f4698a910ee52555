----------------------------- MODULE StudentRoster -----------------------------
(* Students, parents and enrolments of one school (academics service):        *)
(* student_service.py, drafts.py and bulk.py.  Every handler reads, decides   *)
(* and then commits; nothing is locked, so a request is two steps: what it    *)
(* read still decides when it commits, and only the unique constraints are    *)
(* checked again.  A request that is refused changes nothing and is left out. *)
(* A student is named by its code, a parent by the phone; an enrolment's class*)
(* is data that no rule looks at.  The desk may enter a parent with any phone, *)
(* the empty one too: that row is the parent a draft without a phone looks for.*)
EXTENDS Naturals
CONSTANTS Codes, Drafts, Phones, Years,
          NoPhone,      \* a contact with an email address only: phone ""
          NoContact, Unknown,   \* no contact at all; the phone "(unknown)"
          Placeholder,          \* the phone the import gives a parent without one
          NoRow, Admins

Parents == Phones \cup {NoPhone, Unknown, Placeholder}
Contacts == Phones \cup {NoPhone, NoContact}

ASSUME RosterAssumption ==
    /\ {NoPhone, NoContact, Unknown} \cap Phones = {} /\ NoRow \notin Drafts \cup Codes
    /\ NoPhone # NoContact /\ {Unknown, Placeholder} \cap {NoPhone, NoContact} = {}

VARIABLES student,      \* code -> row
          enrolment,    \* <<code, year>> -> status
          draft, parentDraft,   \* the student drafts; the parent draft of a student
          parent,       \* phones of the parent rows
          link,         \* <<code, parent>> -> link row
          request,
          raced,        \* history: drafts and students with two requests in flight
          reopened      \* history: students whose enrolment was opened by PUT off the roster
vars == <<student, enrolment, draft, parentDraft, parent, link, request, raced, reopened>>

EnrolmentStatus == {"ENROLLED", "WITHDRAWN", "PROMOTED", "ACTIVE"}
Student == [status : {"ACTIVE", "INACTIVE"}, deleted : BOOLEAN, by : Drafts \cup {NoRow}]
Draft == [review : {"pending", "approved", "rejected"}, contact : Contacts,
          student : Codes \cup {NoRow}]
ParentDraft == [review : {"pending", "approved", "rejected"}, phone : Phones \cup {NoPhone},
                parent : Parents \cup {NoRow}]
Link == [primary : BOOLEAN, by : {"draft", "desk"}]
ASSUME NoRowIsNoRow ==
    NoRow \notin EnrolmentStatus \cup Student \cup Draft \cup ParentDraft \cup Link
Idle == [op |-> "none"]
Request ==
    [op : {"none"}]
    \cup [op : {"approve"}, on : Drafts, code : Codes, year : Years \cup {NoRow}]
    \cup [op : {"reject"}, on : Drafts] \cup [op : {"reject parent", "delete", "create"}, on : Codes]
    \cup [op : {"approve parent"}, on : Codes, found : BOOLEAN, linked : BOOLEAN]
    \cup [op : {"link"}, on : Codes, parent : Parents, primary : BOOLEAN, clears : SUBSET Parents]
    \cup [op : {"enrol"}, on : Codes, year : Years]
    \cup [op : {"status"}, on : Codes, status : {"ACTIVE", "INACTIVE"}]
    \cup [op : {"import"}, on : Codes, parent : Phones \cup {Placeholder}]

RosterInit ==
    /\ student = [c \in Codes |-> NoRow] /\ enrolment = [e \in Codes \X Years |-> NoRow]
    /\ draft = [d \in Drafts |-> NoRow] /\ parentDraft = [c \in Codes |-> NoRow]
    /\ parent = {} /\ link = [l \in Codes \X Parents |-> NoRow]
    /\ request = [a \in Admins |-> Idle] /\ raced = {} /\ reopened = {}

InFlight(x) == \E a \in Admins : request[a] # Idle /\ request[a].on = x
Overlaps(x) == raced' = raced \cup {y \in {x} : InFlight(y)}

\* A request starts: it has read what it decides on.
Begin(a, req) ==
    /\ request[a] = Idle
    /\ request' = [request EXCEPT ![a] = req]
    /\ Overlaps(req.on)
    /\ UNCHANGED <<student, enrolment, draft, parentDraft, parent, link, reopened>>
\* A request ends, by its commit or by an error that rolls it back.
End(a) == request' = [request EXCEPT ![a] = Idle] /\ UNCHANGED <<raced, reopened>>
Serves(a, op) == request[a].op = op

Enrolled(c) == \E y \in Years : enrolment[<<c, y>>] = "ENROLLED"
OnRoster(c) == student[c] # NoRow /\ ~student[c].deleted
NewStudent(d) == [status |-> "ACTIVE", deleted |-> FALSE, by |-> d]

------------------------------------------------------------------------------
\* Drafts.

SubmitDraft(d, contact) ==
    /\ draft[d] = NoRow
    /\ draft' = [draft EXCEPT ![d] = [review |-> "pending", contact |-> contact, student |-> NoRow]]
    /\ UNCHANGED <<student, enrolment, parentDraft, parent, link, request, raced, reopened>>

Pending(drafts, x) == drafts[x] # NoRow /\ drafts[x].review = "pending"

\* Slip: a draft that was reviewed is reviewed again.
ReadAgain(a, d, c, y) ==
    /\ draft[d] # NoRow /\ student[c] = NoRow
    /\ Begin(a, [op |-> "approve", on |-> d, code |-> c, year |-> y])

ReadForApproval(a, d, c, y) ==
    /\ Pending(draft, d) /\ student[c] = NoRow
    /\ Begin(a, [op |-> "approve", on |-> d, code |-> c, year |-> y])

\* Slips: the unique code is not enforced; a parent draft without a contact.
NeverTaken(c) == FALSE
SpawnsAlways(contact) == TRUE

CodeTaken(c) == student[c] # NoRow
SpawnsParentDraft(contact) == contact # NoContact

\* The student, the enrolment, the parent draft and the review are one commit; a
\* code taken meanwhile rolls all of it back.
ApproveStudent(a) ==
    /\ Serves(a, "approve")
    /\ LET d == request[a].on   c == request[a].code   y == request[a].year
           contact == draft[d].contact
       IN IF CodeTaken(c)
          THEN UNCHANGED <<student, enrolment, draft, parentDraft>>
          ELSE /\ student' = [student EXCEPT ![c] = NewStudent(d)]
               /\ enrolment' = [e \in Codes \X Years |->
                                   IF e = <<c, y>> THEN "ENROLLED" ELSE enrolment[e]]
               /\ parentDraft' = IF SpawnsParentDraft(contact)
                                 THEN [parentDraft EXCEPT ![c] =
                                          [review |-> "pending", phone |-> contact, parent |-> NoRow]]
                                 ELSE parentDraft
               /\ draft' = [draft EXCEPT ![d].review = "approved", ![d].student = c]
    /\ End(a)
    /\ UNCHANGED <<parent, link>>

ReadForRejection(a, d) == Pending(draft, d) /\ Begin(a, [op |-> "reject", on |-> d])

RejectStudent(a) ==
    /\ Serves(a, "reject")
    /\ draft' = [draft EXCEPT ![request[a].on].review = "rejected"]
    /\ End(a)
    /\ UNCHANGED <<student, enrolment, parentDraft, parent, link>>

\* The parent row an approval looks for, and the one it inserts when there is none;
\* slip: it looks for the one it would insert.
LooksForUnknown(phone) == IF phone = NoPhone THEN Unknown ELSE phone
LooksFor(phone) == phone
Inserts(phone) == IF phone = NoPhone THEN Unknown ELSE phone

ReadParentDraft(a, c) ==
    /\ Pending(parentDraft, c)
    /\ LET p == LooksFor(parentDraft[c].phone) IN
       Begin(a, [op |-> "approve parent", on |-> c, found |-> p \in parent,
                 linked |-> p \in parent /\ link[<<c, p>>] # NoRow])

\* The parent row, the link and the review are one commit; a parent with the same
\* phone, or the same link, inserted meanwhile rolls all of it back.
ApproveParent(a) ==
    /\ Serves(a, "approve parent")
    /\ LET c == request[a].on   phone == parentDraft[c].phone
           p == IF request[a].found THEN LooksFor(phone) ELSE Inserts(phone) IN
       IF \/ ~request[a].found /\ p \in parent
          \/ ~request[a].linked /\ link[<<c, p>>] # NoRow
       THEN UNCHANGED <<parent, link, parentDraft>>
       ELSE /\ parent' = parent \cup {p}
            /\ link' = IF request[a].linked THEN link
                       ELSE [link EXCEPT ![<<c, p>>] = [primary |-> FALSE, by |-> "draft"]]
            /\ parentDraft' = [parentDraft EXCEPT ![c].review = "approved", ![c].parent = p]
    /\ End(a)
    /\ UNCHANGED <<student, enrolment, draft>>

ReadParentRejection(a, c) == Pending(parentDraft, c) /\ Begin(a, [op |-> "reject parent", on |-> c])

RejectParent(a) ==
    /\ Serves(a, "reject parent")
    /\ parentDraft' = [parentDraft EXCEPT ![request[a].on].review = "rejected"]
    /\ End(a)
    /\ UNCHANGED <<student, enrolment, draft, parent, link>>

------------------------------------------------------------------------------
\* Students and enrolments at the desk.

\* A code is free for one student ever: a deleted student keeps it.
ReadForCreation(a, c) == student[c] = NoRow /\ Begin(a, [op |-> "create", on |-> c])

CreateStudent(a) ==
    /\ Serves(a, "create")
    /\ LET c == request[a].on IN
       student' = IF student[c] # NoRow THEN student
                  ELSE [student EXCEPT ![c] = NewStudent(NoRow)]
    /\ End(a)
    /\ UNCHANGED <<enrolment, draft, parentDraft, parent, link>>

ReadForStatus(a, c, s) ==
    OnRoster(c) /\ s # student[c].status /\ Begin(a, [op |-> "status", on |-> c, status |-> s])

UpdateStudent(a) ==
    /\ Serves(a, "status")
    /\ student' = [student EXCEPT ![request[a].on].status = request[a].status]
    /\ End(a)
    /\ UNCHANGED <<enrolment, draft, parentDraft, parent, link>>

\* Slip: the enrolments are not looked at.
ReadForDeletionOnly(a, c) == OnRoster(c) /\ Begin(a, [op |-> "delete", on |-> c])

ReadForDeletion(a, c) ==
    OnRoster(c) /\ ~Enrolled(c) /\ Begin(a, [op |-> "delete", on |-> c])

DeleteStudent(a) ==
    /\ Serves(a, "delete")
    /\ student' = [student EXCEPT ![request[a].on].deleted = TRUE,
                                  ![request[a].on].status = "INACTIVE"]
    /\ End(a)
    /\ UNCHANGED <<enrolment, draft, parentDraft, parent, link>>

ReadForEnrolment(a, c, y) ==
    /\ OnRoster(c) /\ student[c].status = "ACTIVE"
    /\ enrolment[<<c, y>>] = NoRow
    /\ Begin(a, [op |-> "enrol", on |-> c, year |-> y])

\* The rollover enrols again whoever it takes to be enrolled in the old year.
Promotable(c, y) == enrolment[<<c, y>>] = "ACTIVE"
ReadForPromotion(a, c, y, z) == Promotable(c, y) /\ ReadForEnrolment(a, c, z)

CreateEnrolment(a) ==
    /\ Serves(a, "enrol")
    /\ LET e == <<request[a].on, request[a].year>> IN
       enrolment' = IF enrolment[e] # NoRow THEN enrolment
                    ELSE [enrolment EXCEPT ![e] = "ENROLLED"]
    /\ End(a)
    /\ UNCHANGED <<student, draft, parentDraft, parent, link>>

\* The status of an enrolment is whatever the request says; its student is not looked at.
Reopens(c, s) == s = "ENROLLED" /\ ~OnRoster(c)
UpdateEnrolment(c, y, s) ==
    /\ enrolment[<<c, y>>] # NoRow
    /\ enrolment' = [enrolment EXCEPT ![<<c, y>>] = s]
    /\ Overlaps(c)
    /\ reopened' = reopened \cup {x \in {c} : Reopens(c, s)}
    /\ UNCHANGED <<student, draft, parentDraft, parent, link, request>>

------------------------------------------------------------------------------
\* Parents at the desk, and the CSV import.

CreateParent(p) ==
    /\ p \notin parent
    /\ parent' = parent \cup {p}
    /\ UNCHANGED <<student, enrolment, draft, parentDraft, link, request, raced, reopened>>

Primaries(c) == {p \in Parents : link[<<c, p>>] # NoRow /\ link[<<c, p>>].primary}

\* Slip: the old primary parent stays one.
ReadForLinkOnly(a, c, p, primary) ==
    /\ OnRoster(c) /\ p \in parent /\ link[<<c, p>>] = NoRow
    /\ Begin(a, [op |-> "link", on |-> c, parent |-> p, primary |-> primary, clears |-> {}])

ReadForLink(a, c, p, primary) ==
    /\ OnRoster(c) /\ p \in parent /\ link[<<c, p>>] = NoRow
    /\ Begin(a, [op |-> "link", on |-> c, parent |-> p, primary |-> primary,
                 clears |-> IF primary THEN Primaries(c) ELSE {}])

\* The primaries it saw are cleared and the link is added, or the unique link is
\* there by now and neither happens.
LinkParent(a) ==
    /\ Serves(a, "link")
    /\ LET c == request[a].on   p == request[a].parent IN
       IF link[<<c, p>>] # NoRow THEN UNCHANGED link
       ELSE link' = [l \in Codes \X Parents |->
                        IF l = <<c, p>> THEN [primary |-> request[a].primary, by |-> "desk"]
                        ELSE IF l[1] = c /\ l[2] \in request[a].clears
                             THEN [link[l] EXCEPT !.primary = FALSE]
                             ELSE link[l]]
    /\ End(a)
    /\ UNCHANGED <<student, enrolment, draft, parentDraft, parent>>

\* The import runs on the event loop: looking a student up and creating it is one
\* step.  A parent row without a phone gets a placeholder.
ImportStudent(a, c, phone) ==
    /\ student[c] = NoRow
    /\ request[a] = Idle
    /\ student' = [student EXCEPT ![c] = NewStudent(NoRow)]
    /\ request' = [request EXCEPT ![a] = [op |-> "import", on |-> c, parent |-> phone]]
    /\ Overlaps(c)
    /\ UNCHANGED <<enrolment, draft, parentDraft, parent, link, reopened>>

\* The parent is a commit of its own.  The call that should link it names a method
\* that does not exist, and the error is swallowed.
ImportParent(a) ==
    /\ Serves(a, "import")
    /\ parent' = parent \cup {request[a].parent}
    /\ End(a)
    /\ UNCHANGED <<student, enrolment, draft, parentDraft, link>>

\* The process dies: what was not committed is gone.
Crash(a) ==
    /\ request[a] # Idle
    /\ End(a)
    /\ UNCHANGED <<student, enrolment, draft, parentDraft, parent, link>>

DraftNext ==
    \/ \E d \in Drafts, k \in Contacts : SubmitDraft(d, k)
    \/ \E a \in Admins, d \in Drafts : ReadForRejection(a, d) \/
           \E c \in Codes, y \in Years \cup {NoRow} : ReadForApproval(a, d, c, y)
    \/ \E a \in Admins : ApproveStudent(a) \/ RejectStudent(a)

ParentDraftNext ==
    \/ \E a \in Admins, c \in Codes : ReadParentDraft(a, c) \/ ReadParentRejection(a, c)
    \/ \E a \in Admins : ApproveParent(a) \/ RejectParent(a)

ParentNext ==
    \/ \E a \in Admins, c \in Codes, p \in Parents, b \in BOOLEAN : ReadForLink(a, c, p, b)
    \/ \E a \in Admins : LinkParent(a)
    \/ \E p \in Parents : CreateParent(p)

DeskNext ==
    \/ \E a \in Admins, c \in Codes :
          \/ ReadForCreation(a, c) \/ ReadForDeletion(a, c)
          \/ \E s \in {"ACTIVE", "INACTIVE"} : ReadForStatus(a, c, s)
          \/ \E y \in Years : \/ ReadForEnrolment(a, c, y)
                              \/ \E z \in Years \ {y} : ReadForPromotion(a, c, y, z)
    \/ \E a \in Admins : \/ CreateStudent(a) \/ UpdateStudent(a) \/ DeleteStudent(a)
                         \/ CreateEnrolment(a)
    \/ \E c \in Codes, y \in Years, s \in EnrolmentStatus : UpdateEnrolment(c, y, s)

ImportNext ==
    \E a \in Admins : \/ \E c \in Codes, p \in Phones \cup {Placeholder} : ImportStudent(a, c, p)
                     \/ ImportParent(a) \/ Crash(a)

RosterNext == DraftNext \/ ParentDraftNext \/ ParentNext \/ DeskNext \/ ImportNext
RosterSpec == RosterInit /\ [][RosterNext]_vars

------------------------------------------------------------------------------
\* Every variable stays in its type.
RosterTypeOK ==
    /\ student \in [Codes -> Student \cup {NoRow}]
    /\ enrolment \in [Codes \X Years -> EnrolmentStatus \cup {NoRow}]
    /\ draft \in [Drafts -> Draft \cup {NoRow}]
    /\ parentDraft \in [Codes -> ParentDraft \cup {NoRow}]
    /\ parent \subseteq Parents
    /\ link \in [Codes \X Parents -> Link \cup {NoRow}]
    /\ request \in [Admins -> Request] /\ raced \subseteq Drafts \cup Codes
    /\ reopened \subseteq Codes

\* An approval is whole: an approved student draft names the student made from it,
\* and an approved parent draft names its parent row, which is linked to its student,
\* whatever other reviews and insertions overlapped with it.
ApprovalIsWhole ==
    /\ \A d \in Drafts : draft[d] # NoRow /\ draft[d].review = "approved" =>
           /\ draft[d].student # NoRow
           /\ student[draft[d].student] # NoRow /\ student[draft[d].student].by = d
    /\ \A c \in Codes : parentDraft[c] # NoRow /\ parentDraft[c].review = "approved" =>
           parentDraft[c].parent \in parent /\ link[<<c, parentDraft[c].parent>>] # NoRow

\* Unless two reviews of it overlapped, a draft gives at most one student, and one
\* that is rejected gives none.
DraftGivesOneStudent ==
    \A d \in Drafts \ raced, c \in Codes :
        student[c] # NoRow /\ student[c].by = d =>
            draft[d].review = "approved" /\ draft[d].student = c

\* Reviews link two students to one parent only if both drafts gave the phone of that
\* parent.  So families without a phone are merged only at a parent that the desk
\* entered without one; the "(unknown)" parent of a review has one family.
FamiliesStayApart ==
    \A c, d \in Codes, p \in Parents :
        (/\ c # d /\ link[<<c, p>>] # NoRow /\ link[<<d, p>>] # NoRow
         /\ link[<<c, p>>].by = "draft" /\ link[<<d, p>>].by = "draft") =>
            p = parentDraft[c].phone /\ p = parentDraft[d].phone

\* A student has at most one primary parent, unless two requests about it overlapped.
OnePrimary ==
    \A c \in Codes \ raced : \A p, q \in Primaries(c) : p = q

\* Reviews are exact in both directions: what is approved is there in whole, and what
\* is there was approved once.
ReviewsAreExact == ApprovalIsWhole /\ DraftGivesOneStudent

\* The links of a family: no merged families, one primary parent, and no row of another shape.
FamilyLinks == RosterTypeOK /\ FamiliesStayApart /\ OnePrimary

\* A student that was deleted is not enrolled: not by an enrolment, a promotion or an
\* approval, in whatever order they come, unless two requests about it overlapped or a
\* PUT of the enrolment, which does not look at the student, said ENROLLED afterwards.
DeleteAndEnrolExclude ==
    \A c \in Codes \ (raced \cup reopened) :
        student[c] # NoRow /\ student[c].deleted => ~Enrolled(c)
===============================================================================
