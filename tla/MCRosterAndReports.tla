-------------------------- MODULE MCRosterAndReports --------------------------
(* In one behaviour the school is busy with reviewing drafts, or with linking *)
(* and importing parents, or with its desk of students and enrolments: the    *)
(* requests that a property relates are in one focus together.  Or the        *)
(* ministry counts: pupils and teachers, or the other rows of two schools; or *)
(* the school reads its own reports, of one kind in each focus.               *)
EXTENDS StudentRoster, MinistryRollups, SchoolReports, TLC
CONSTANTS h1, h2, t1, t2, e1, e2, l1, l2, g1, q1, q2
VARIABLE focus

RosterFoci == {"reviews", "parents", "desk"}
MinistryFoci == {"heads", "entries"}
\* The second school may have no row, or no codes, or a district of its own.
H1 == [province |-> "P", district |-> "D", type |-> "PRIMARY"]
Unplaced == [province |-> NoCode, district |-> NoCode, type |-> Null]
Places == {Null, Unplaced, [province |-> "P", district |-> "E", type |-> "COLLEGE"]}
Child == [school : SchoolIds, status : {"ACTIVE", "INACTIVE", "TRANSFERRED", "GRADUATED"},
          touched : {1}]
Posts == {{}, {<<h1, t1>>, <<h2, t1>>}, {<<h1, t1>>, <<h2, t2>>}}
Attended1 == [table |-> "attendance", school |-> h1, status |-> "P", day |-> 1]
EntryRows ==
    [table : {"attendance"}, school : SchoolIds, status : {"P", "L"}, day : 1..2]
    \cup [table : {"mark"}, school : SchoolIds, subject : {1}, marks : {0, 1, Absent}]
    \cup {[table |-> "mark", school |-> h1, subject |-> 2, marks |-> 2]}
    \cup [table : {"sponsorship"}, school : SchoolIds, committed : {2}, received : {1, 3}]
    \cup [table : {"compliance"}, school : {h1}, template : {1},
          status : {"draft", "submitted", "accepted", "rejected"}, period : {1}]
    \cup {[table |-> "compliance", school |-> h1, template |-> 2, status |-> "draft", period |-> 2]}
    \cup {[table |-> "invoice", school |-> h, total |-> 2, paid |-> b[1], status |-> b[2]] :
              <<h, b>> \in SchoolIds \X {<<0, "PENDING">>, <<0, "OVERDUE">>, <<1, "PARTIAL">>,
                                         <<2, "PAID">>}}
\* Two schools without anybody, for the foci that are not about them.
Nobody == /\ geo = [s \in SchoolIds |-> Null] /\ post = {} /\ entry = [i \in Entries |-> Null]
          /\ pupil = [p \in Pupils |-> [school |-> h1, status |-> "ACTIVE", touched |-> 1]]
MCMinistryInit ==
    /\ geo \in [SchoolIds -> {H1} \cup Places] /\ geo[h1] = H1 /\ geo[h2] # H1
    /\ \/ /\ focus = "heads" /\ pupil \in [Pupils -> Child] /\ post \in Posts
          /\ entry = [i \in Entries |-> IF i = e1 THEN Attended1 ELSE Null]
       \/ /\ focus = "entries" /\ entry \in [Entries -> {Null} \cup EntryRows]
          /\ \A i, j \in Entries :
                 entry[i] # Null /\ entry[j] # Null => entry[i].table = entry[j].table
          /\ pupil = [p \in Pupils |-> [school |-> h1, status |-> "ACTIVE", touched |-> 1]]
          /\ post = {}

\* What a focus of the school's reports does not look at is not there.
Bare == [paper |-> [a \in Papers |-> Nil], sheet |-> [a \in Papers |-> [l \in Learners |-> Nil]],
         register |-> {}, today |-> 3, bill |-> {}, tags |-> [w \in Works |-> Nil],
         listed |-> Learners, enrolled |-> Learners, enrolment |-> {}, family |-> {},
         guardian |-> {}, found |-> TRUE]
ReportFoci == {"marks", "register", "risk", "coverage", "archive"}
\* Two papers of a subject, of one maximum or of two, in hundredths; 49.98 rounds to 50.
MarkRow == {[marks |-> n, absent |-> FALSE] : n \in {4990, 4998, 7000, 10000}}
           \cup {[marks |-> n, absent |-> TRUE] : n \in {Nil, 4998}}
MarkSchools ==
    {[Bare EXCEPT !.paper = p, !.sheet = s] :
        p \in {q \in [Papers -> [subject : 1..2, max : {10000, 20000}]] :
                  \E a \in Papers : q[a] = [subject |-> 1, max |-> 10000]},
        s \in [Papers -> [Learners -> {Nil} \cup MarkRow]]}
RegisterRow(l, c, d, p, x) == [learner |-> l, class |-> c, day |-> d, period |-> p, status |-> x]
MarkedAs == {"P", "A", "L"}
RegisterSchools ==
    {[Bare EXCEPT !.register =
         {RegisterRow(l1, 1, 1, 1, x), RegisterRow(l1, c, 1, 2, y)} \cup rest] :
        c \in 1..2, x \in MarkedAs, y \in MarkedAs,
        rest \in {{}} \cup {{RegisterRow(l2, e, d, 1, z)} :
                             e \in 1..2, d \in 1..2, z \in MarkedAs}}
\* A day of five periods, of which some were missed.
DayOf(l, d, missed) ==
    {RegisterRow(l, 1, d, p, IF p <= missed THEN "A" ELSE IF p = 5 THEN "L" ELSE "P") : p \in 1..5}
OneBill == {[learner |-> l1, status |-> b[1], total |-> 2, paid |-> b[2], late |-> b[3]] :
               b \in {<<"PENDING", 0, 0>>, <<"PARTIAL", 1, 31>>, <<"OVERDUE", 1, 61>>,
                      <<"PAID", 2, 61>>}}
RiskSchools ==
    {[Bare EXCEPT !.register = UNION {DayOf(l1, d, f[d]) : d \in DOMAIN f} \cup other,
                  !.bill = bills] :
        f \in [1..2 -> {0, 2, 4, 5}] \cup [1..3 -> {0, 5}] \cup {<<>>, <<3>>},
        other \in {{}, {RegisterRow(l2, 1, 1, 1, "P")}},
        bills \in {{}} \cup {{b} : b \in OneBill}}
CoverageSchools ==
    {[Bare EXCEPT !.tags = t] :
        t \in [Works -> {Nil} \cup [kind : {"homework", "lesson_plan"}, topics : SUBSET Topics]]}
ArchiveSchools ==
    {[Bare EXCEPT !.enrolled = {l1}, !.enrolment = {l1}, !.found = found,
                  !.register = {RegisterRow(l1, 1, 1, 1, "A")},
                  !.guardian = {k[2] : k \in family}, !.family = family] :
        family \in {{}, {<<l1, g1>>}}, found \in BOOLEAN}
ReportSchools(f) ==
    CASE f = "marks" -> MarkSchools [] f = "register" -> RegisterSchools
      [] f = "risk" -> RiskSchools [] f = "coverage" -> CoverageSchools
      [] f = "archive" -> ArchiveSchools

MCInit ==
    /\ RosterInit /\ MinistryInit /\ ReportsInit
    /\ \/ focus \in RosterFoci /\ Nobody /\ school = Bare
       \/ MCMinistryInit /\ school = Bare
       \/ focus \in ReportFoci /\ Nobody /\ school \in ReportSchools(focus)

\* The reports that can tell something in either focus, with the filters that matter.
Requests ==
    IF focus = "heads"
    THEN [about : {"enrolment", "dropouts", "ptr"}, scope : Scopes]
         \cup [about : {"schools", "comparative"}, scope : {"province"}, code : {NoCode, "P", "Q"}]
         \cup [about : {"dropout_rate"}, scope : {"district"}, code : {NoCode, "E"}]
         \cup [about : {"unesco"}, year : {2026}]
         \cup [about : {"enrolment"}, scope : {"town"}]
    ELSE LET tables == {entry[i].table : i \in {j \in Entries : entry[j] # Null}} IN
         [about : {"attendance"} \cap tables, scope : Scopes, since : 1..2]
         \cup [about : IF "attendance" \in tables THEN {"attendance_rate"} ELSE {},
               scope : {"province"}, code : {NoCode, "P"}]
         \cup [about : IF "mark" \in tables THEN {"pass_rate"} ELSE {}, scope : Scopes]
         \cup [about : IF "sponsorship" \in tables THEN {"donors"} ELSE {}, scope : Scopes]
         \cup [about : IF "compliance" \in tables THEN {"compliance"} ELSE {}, period : {Null, 1}]
         \cup [about : IF "invoice" \in tables THEN {"fees"} ELSE {}, school : {Null, h2}]
         \cup [about : IF "invoice" \in tables THEN {"defaulters"} ELSE {}]
\* What changes between two queries is read by the report; one change is enough, and
\* in "heads" it meets a pupil at each school and a teacher of both.
Reads(tables) == report.ask.about \in tables
PupilChanges ==
    /\ post = {<<h1, t1>>, <<h2, t1>>} /\ \E p \in Pupils : pupil[p].school = h1
    /\ \/ \E p \in Pupils, s \in {"ACTIVE", "GRADUATED"} :
              update_student(p, pupil[p].school, s)
       \/ ~Reads({"dropout_rate"}) /\ \E p \in Pupils : update_student(p, h2, pupil[p].status)
       \/ Reads({"ptr", "unesco"}) /\ (assign_class_teacher(h2, t2) \/ delete_class_teacher(h1, t1))
EntryChanges ==
    \E row \in EntryRows :
        entry[e1] # Null /\ entry[e1].table = row.table /\ FileEntry(e2, row)
MCMinistryNext ==
     \/ \E r \in Requests :
            \/ Ask(r, TRUE)
            \/ r.about \in {"unesco", "fees"} /\ Ask(r, FALSE)
     \/ Query \/ Respond
     \/ /\ ~overtaken /\ report # NoReport
        /\ \/ \E row \in Places \ {Null} : upsert_school(h2, row)
           \/ focus = "heads" /\ PupilChanges
           \/ focus = "entries" /\ EntryChanges
        /\ overtaken'
MCReportsNext ==
    \/ /\ focus = "risk"
       /\ \/ list_active_students(1) \/ list_active_students(2) \/ fetch_invoices
          \/ dropout_student_detail(l2)
          \/ \E l \in Learners : fetch_student_trend(l)
          \/ /\ ~meanwhile /\ enquiry # NoEnquiry /\ ~Ranked
             /\ \/ Leaves(l2) \/ MarkAttendance(RegisterRow(l1, 1, 3, 1, "A"))
                \/ \E b \in school.bill : PayBill(b)
    \/ /\ focus = "archive"
       /\ \/ export_school \/ (\E g \in Guardians : export_parent_data(g)) \/ Locates \/ _write_rows
          \/ /\ enquiry # NoEnquiry /\ ~Packed
             /\ \/ \E l \in Learners \ {l1} : TakeIn(l) \/ PutInClass(l)
                \/ \E g \in Guardians : NewGuardian(g) \/ (\E l \in Learners : LinkGuardian(l, g))
                \/ NewPaper(q2) \/ SaveMark(q2, l2, [marks |-> 1, absent |-> FALSE])
                \/ MarkAttendance(RegisterRow(l2, 1, 1, 1, "P"))

\* Parents the desk enters while drafts are reviewed: those that drafts without a phone meet.
EmptyPhone == \E p \in {NoPhone, Unknown} : CreateParent(p)
MCNext ==
    /\ \/ /\ \/ focus = "reviews" /\ (DraftNext \/ ParentDraftNext \/ EmptyPhone)
             \/ focus = "parents" /\ (DraftNext \/ ParentDraftNext \/ ParentNext \/ ImportNext)
             \/ focus = "desk" /\ DeskNext
          /\ UNCHANGED <<ministry, schoolVars>>
       \/ focus \in MinistryFoci /\ MCMinistryNext /\ UNCHANGED <<vars, schoolVars>>
       \/ focus \in ReportFoci /\ MCReportsNext /\ UNCHANGED <<vars, ministry>>
    /\ UNCHANGED focus

Present(rows) == Cardinality({x \in DOMAIN rows : rows[x] # NoRow})
\* Reviewed drafts are not enrolled at once; the other two foci need one student and
\* one draft only, and at most three parents.
Bounds ==
    /\ focus # "desk" => \A a \in Admins : request[a].op = "approve" => request[a].year = NoRow
    /\ focus \in {"desk", "parents"} => Present(student) <= 1
    /\ focus = "parents" => Present(draft) <= 1 /\ Cardinality(raced) <= 1
                           /\ Cardinality(parent) <= 3
MCSpec == MCInit /\ [][MCNext /\ Bounds']_<<vars, ministry, schoolVars, focus>>
MCSymmetry == Permutations(Codes) \cup Permutations(Drafts) \cup Permutations(Admins)
              \cup Permutations(Pupils)
===============================================================================
