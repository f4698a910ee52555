--------------------------------- MODULE Filing ---------------------------------
(* Handlers that take something in and write an audit row about it.  What is  *)
(* taken in is a new row, or a change of a row that is there already; a       *)
(* handler checks the request, stores what it says and answers.  Handlers     *)
(* differ in what they check first, in the keys of the table and in where the *)
(* audit row is written, and a behaviour is about one of them.                *)
EXTENDS Integers, FiniteSets, Sequences, Handlers
CONSTANTS Contents,   \* what a request can ask to be stored, as far as keys tell it apart
          Rows      \* the ids the database gives to what is stored

PaperRow == [paper : Contents, author : Callers]
ASSUME FilingAssumption == NoRow \notin PaperRow

VARIABLES form,     \* the handler
          parent,   \* whether the row that the new one hangs on is there
          filed,   \* row -> what was stored, and by whom
          trail,    \* row -> who its audit rows name, in order
          outside,  \* history: paper -> what was done for it that no rollback takes back
          told      \* history: rows that were answered with success
filing == <<form, parent, filed, trail, outside, told>>

\* A handler that stores a row and writes no audit row.
Plain == [looks |-> FALSE, unique |-> FALSE, needs |-> FALSE, calls |-> FALSE,
          named |-> TRUE, audit |-> "none"]
\* record_audit_event adds the row to the transaction of the work it is about.
Audited == [Plain EXCEPT !.audit = "same"]
Keyed == [Audited EXCEPT !.unique = TRUE]
Within == [Audited EXCEPT !.needs = TRUE]
\* A service commits, then the handler adds the audit row and commits again.
Afterwards == [Plain EXCEPT !.audit = "later"]

\* Staff and their papers.
StaffForm == Keyed
ContractForm == Audited
SalarySlipForm == Keyed
PerformanceReviewForm == Audited
TransferForm == Audited
CpdRecordForm == Audited
\* The life of a school and of the parents.
IncidentForm == Audited
SubstituteGrantForm == Audited
HomeworkTaskForm == Audited
PhraseForm == Audited
SchoolEventForm == Audited
GrievanceForm == Audited
PermissionSlipForm == Plain
BusForm == Plain
PingForm == [Plain EXCEPT !.needs = TRUE]
NewsletterForm == Plain
GalleryPhotoForm == Plain
\* An anonymous donation is recorded under no name, in the audit row too.
DonationForm == [Audited EXCEPT !.named = FALSE]
\* Compliance, sponsors and alumni.
ComplianceTemplateForm == Keyed
ComplianceSubmissionForm == Keyed
SponsorForm == Keyed
SponsorshipForm == Audited
AlumnusForm == Keyed
\* Planning and operations.
PeriodForm == Keyed
LessonPlanForm == Audited
FormativeForm == Audited
SeatPlanForm == Audited
LessonPlanTemplateForm == Audited
LessonPlanOfForm == Within
ExpenseForm == Audited
VendorPaymentForm == Audited
CapitalProjectForm == Audited
VisitorForm == Audited
\* Money and messages: the file is copied, and the provider called, before the commit.
FeeStructureForm == Afterwards
InvoiceForm == [Afterwards EXCEPT !.looks = TRUE, !.unique = TRUE]
ManualCheckoutForm == Audited
AttachmentForm == [Within EXCEPT !.calls = TRUE]
NotificationForm == [Audited EXCEPT !.calls = TRUE]
InvitationForm == Afterwards
ThreadForm == [Afterwards EXCEPT !.looks = TRUE, !.unique = TRUE]
RedactionForm == Within
AnnouncementRemovalForm == [Afterwards EXCEPT !.needs = TRUE]
\* Students and logins.
StudentForm == [Afterwards EXCEPT !.looks = TRUE, !.unique = TRUE]
StudentChangeForm == [Afterwards EXCEPT !.needs = TRUE]
StudentRemovalForm == [Afterwards EXCEPT !.needs = TRUE]
LoginForm == Afterwards
LogoutForm == Afterwards
\* The national curriculum: the audit row is added once everything is committed, and
\* closing the session rolls it back.
NationalSubjectForm == [Plain EXCEPT !.looks = TRUE, !.unique = TRUE, !.audit = "lost"]
NationalUnitForm == [NationalSubjectForm EXCEPT !.needs = TRUE]
NationalTopicForm == [NationalSubjectForm EXCEPT !.needs = TRUE]
NationalPublicationForm == [Plain EXCEPT !.needs = TRUE, !.audit = "lost"]

Forms == {StaffForm, ContractForm, SalarySlipForm, PerformanceReviewForm, TransferForm,
          CpdRecordForm, IncidentForm, SubstituteGrantForm, HomeworkTaskForm, PhraseForm,
          SchoolEventForm, GrievanceForm, PermissionSlipForm, BusForm, PingForm,
          NewsletterForm, GalleryPhotoForm, DonationForm, ComplianceTemplateForm,
          ComplianceSubmissionForm, SponsorForm, SponsorshipForm, AlumnusForm, PeriodForm,
          LessonPlanForm, FormativeForm, SeatPlanForm, LessonPlanTemplateForm,
          LessonPlanOfForm, ExpenseForm, VendorPaymentForm, CapitalProjectForm, VisitorForm,
          FeeStructureForm, InvoiceForm, ManualCheckoutForm, AttachmentForm, NotificationForm,
          InvitationForm, ThreadForm, RedactionForm, AnnouncementRemovalForm, StudentForm,
          StudentChangeForm, StudentRemovalForm, LoginForm, LogoutForm, NationalSubjectForm,
          NationalUnitForm, NationalTopicForm, NationalPublicationForm}
FilingInit ==
    /\ form \in Forms /\ parent = FALSE
    /\ filed = [r \in Rows |-> NoRow] /\ trail = [r \in Rows |-> << >>]
    /\ outside = [p \in Contents |-> 0] /\ told = {}

\* Rows are hung on others that were stored earlier, and that these handlers do not delete.
ParentStored == ~parent /\ parent' = TRUE /\ UNCHANGED <<form, filed, trail, outside, told, callers>>

Holding(p) == {r \in Created(filed) : filed[r].paper = p}
\* The checks at the top of a handler, on what is committed then.
HandIn(c, p) ==
    /\ form.needs => parent
    /\ form.looks => Holding(p) = {}
    /\ Reads(c, [op |-> IF form.calls THEN "call" ELSE "store", on |-> {p}, paper |-> p])
    /\ UNCHANGED filing
\* A file is copied, a provider is called: before anything is stored.
CallOut(c) ==
    /\ request[c].op = "call"
    /\ outside' = [outside EXCEPT ![request[c].paper] = @ + 1]
    /\ request' = [request EXCEPT ![c].op = "store"]
    /\ UNCHANGED <<form, parent, filed, trail, told, raced>>

\* Slips: the table has lost its key; the row is committed before the audit row is added.
NoKey(p) == TRUE
AuditForgotten(r, c) == trail
\* A unique key lets the same paper in once.
TableAdmits(p) == form.unique => Holding(p) = {}
\* What is in the transaction of the row with it.
TrailWith(r, c) ==
    IF form.audit = "same"
    THEN [trail EXCEPT ![r] = Append(@, IF form.named THEN c ELSE NoRow)] ELSE trail
Store(c, r) ==
    /\ request[c].op = "store" /\ filed[r] = NoRow /\ TableAdmits(request[c].paper)
    /\ filed' = [filed EXCEPT ![r] = [paper |-> request[c].paper, author |-> c]]
    /\ trail' = TrailWith(r, c)
    /\ IF form.audit = "later"
       THEN /\ request' = [request EXCEPT ![c] = [op |-> "audit", on |-> @.on, row |-> r]]
            /\ UNCHANGED <<told, raced>>
       ELSE told' = told \cup {r} /\ Ends(c)
    /\ UNCHANGED <<form, parent, outside>>

\* The second commit.  An audit row that cannot be flushed is only logged, but it leaves the
\* session unusable: the commit after it raises, as it does in the transaction of a row.
AuditAfter(c) ==
    /\ request[c].op = "audit"
    /\ LET r == request[c].row
       IN trail' = [trail EXCEPT ![r] = Append(@, c)] /\ told' = told \cup {r}
    /\ UNCHANGED <<form, parent, filed, outside>> /\ Ends(c)

FilingNext ==
    \/ ParentStored
    \/ \E c \in Callers :
          \/ \E p \in Contents : HandIn(c, p)
          \/ \E r \in Rows : Store(c, r)
          \/ CallOut(c) \/ AuditAfter(c)

------------------------------------------------------------------------------
\* What is stored in one transaction with its audit row has exactly one, naming who did it,
\* or nobody when the form is anonymous.  Of what a service stores first, everything that was
\* answered has one; what was stored and not answered may have none.  What is sent again after
\* a lost answer is there twice only if the table has no key, and a call to the outside was
\* made at least once for everything that is stored.
FormsAgree ==
    /\ \A r \in Rows :
          /\ filed[r] = NoRow => trail[r] = << >>
          /\ filed[r] # NoRow =>
                /\ form.audit = "same" =>
                      trail[r] = <<IF form.named THEN filed[r].author ELSE NoRow>>
                /\ form.audit = "later" =>
                      trail[r] = IF r \in told THEN <<filed[r].author>> ELSE << >>
                /\ form.needs => parent
    /\ told \subseteq Created(filed)
    /\ \A p \in Contents :
          /\ form.unique => Cardinality(Holding(p)) <= 1
          /\ form.calls => outside[p] >= Cardinality(Holding(p))
===============================================================================
