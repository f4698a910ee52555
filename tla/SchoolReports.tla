----------------------------- MODULE SchoolReports -----------------------------
(* The reports a school reads of itself (academics service): gradebook, report *)
(* card and class performance (assessment_service.py), attendance summaries     *)
(* (attendance_service.py), dropout risk (dropout_engine.py, reports_query.py), *)
(* curriculum coverage (curriculum_index_routes.py) and the two archives        *)
(* (export_routes.py).  Those of one query or of tables that are not written    *)
(* together are functions of the school; the dropout report awaits the finance  *)
(* service for each learner and an archive is a query per file, so other        *)
(* requests commit in between.  Rows are never removed.  Names, wording and     *)
(* layout are left out; a rate is the pair that is divided.                     *)
EXTENDS Integers, Sequences, FiniteSets, FiniteSetsExt, SequencesExt

CONSTANTS
    Learners,   \* everybody whom a row may name, of the school or not
    Guardians, Papers, Topics, Works, Classes, Nil
ASSUME ReportsAssumption ==
    /\ IsFiniteSet(Learners) /\ IsFiniteSet(Papers) /\ IsFiniteSet(Topics) /\ IsFiniteSet(Works)
    /\ Nil \notin Learners \cup Classes \cup Nat \cup {"A", "B", "C", "D", "E", "U"}

VARIABLES
    school,     \* what is committed: paper, sheet, register, bill, tags, listed, family, guardian
    enquiry,    \* the dropout report or archive under way or done
    meanwhile,  \* has a change been committed since it was asked for?
    trail       \* rows of the audit trail
schoolVars == <<school, enquiry, meanwhile, trail>>

\* Marks and maxima in hundredths, days and periods by number.
PaperRow == [subject : Nat, max : Nat \ {0}]
SheetRow == [marks : Nat \cup {Nil}, absent : BOOLEAN]
AttendanceRow == [learner : Learners, class : Classes, day : Nat, period : Nat,
                  status : {"P", "A", "L"}]
BillRow == {b \in [learner : Learners, status : {"PENDING", "PARTIAL", "OVERDUE", "PAID"},
                   total : Nat, paid : Nat, late : Nat] : b.paid <= b.total}

\* The sum of the values of a function.
SumOf(f) == MapThenSumSet(LAMBDA x : f[x], DOMAIN f)
\* part of whole in tenths of a percent, rounded.
Tenths(part, whole) == (2000 * part + whole) \div (2 * whole)

--------------------------------------------------------------------------------
(* Marks: sheet[a][l] is Nil or a row of marks (hundredths, or Nil) and absent.  *)
Graded(row) == row # Nil /\ row.marks # Nil
Counts(row) == Graded(row) /\ ~row.absent
SubjectsOf(v) == {v.paper[a].subject : a \in {b \in Papers : v.paper[b] # Nil}}
PapersOf(v, s) == {a \in Papers : v.paper[a] # Nil /\ v.paper[a].subject = s}
Marked(v, s) == {r \in PapersOf(v, s) \X Learners : v.sheet[r[1]][r[2]] # Nil}
Maxima(v, rows) == SumOf([r \in rows |-> v.paper[r[1]].max])
Standing(v, rows) ==
    [graded |-> Cardinality(rows), marks |-> SumOf([r \in rows |-> v.sheet[r[1]][r[2]].marks]),
     max |-> Maxima(v, rows)]

\* The report card counts every mark there is, the gradebook not those of absentees.
student_marks(v, l, s) ==
    Standing(v, {r \in Marked(v, s) : r[2] = l /\ Graded(v.sheet[r[1]][l])})
class_gradebook(v, s) ==
    [l \in {r[2] : r \in Marked(v, s)} |->
        Standing(v, {r \in Marked(v, s) : r[2] = l /\ Counts(v.sheet[r[1]][l])})]

\* Half of the marks passes.  The average is that of the marks that count over that
\* of the maxima of all rows.
Passes(standing) == 2 * standing.marks >= standing.max
\* Slip: who was absent sat the paper too.
PerformanceOfAll(v, s) ==
    LET rows == {r \in Marked(v, s) : Counts(v.sheet[r[1]][r[2]])}
        of(l) == Standing(v, {r \in rows : r[2] = l})
        sat == {r[2] : r \in Marked(v, s)}
    IN [students |-> Cardinality(sat),
        marks |-> Standing(v, rows).marks, graded |-> Cardinality(rows),
        max |-> Maxima(v, Marked(v, s)), rows |-> Cardinality(Marked(v, s)),
        total |-> Cardinality(sat), passing |-> Cardinality({l \in sat : Passes(of(l))})]
class_performance(v, s) ==
    LET rows == {r \in Marked(v, s) : Counts(v.sheet[r[1]][r[2]])}
        of(l) == Standing(v, {r \in rows : r[2] = l})
        sat == {r[2] : r \in rows}
    IN [students |-> Cardinality({r[2] : r \in Marked(v, s)}),
        marks |-> Standing(v, rows).marks, graded |-> Cardinality(rows),
        max |-> Maxima(v, Marked(v, s)), rows |-> Cardinality(Marked(v, s)),
        total |-> Cardinality(sat), passing |-> Cardinality({l \in sat : Passes(of(l))})]

\* The grading scale of the report card, of an average in tenths of a percent.
_grade(pct) ==
    CASE pct >= 800 -> "A" [] pct \in 700..799 -> "B" [] pct \in 600..699 -> "C"
      [] pct \in 500..599 -> "D" [] pct \in 400..499 -> "E" [] pct < 400 -> "U"
\* A subject without a row is not on the card.
export_report_card(v, l) ==
    [s \in {v.paper[a].subject : a \in {b \in Papers : v.sheet[b][l] # Nil}} |->
        LET standing == student_marks(v, l, s)
        IN [graded |-> standing.graded,
            grade |-> IF standing.max = 0 THEN Nil
                      ELSE _grade(Tenths(standing.marks, standing.max))]]

--------------------------------------------------------------------------------
(* Attendance: the register has one row per learner, day and period.             *)
Tally(rows) ==
    [x \in {"P", "A", "L"} |-> Cardinality({r \in rows : r.status = x})]
Between(v, from, to) == {r \in v.register : r.day \in from..to}
daily_summary(v, day, class) ==
    Tally({r \in Between(v, day, day) : class \in {Nil, r.class}})
TrendRows(v, l, from, to) == {r \in Between(v, from, to) : r.learner = l}
student_trend(v, l, from, to) == Tally(TrendRows(v, l, from, to))
\* Slip: the class is not asked for.
SummaryOfEverybody(v, class, from, to) ==
    LET rows == Between(v, from, to)
    IN [d \in {r.day : r \in rows} |-> Tally({r \in rows : r.day = d})]
class_summary(v, class, from, to) ==
    LET rows == {r \in Between(v, from, to) : r.class = class}
    IN [d \in {r.day : r \in rows} |-> Tally({r \in rows : r.day = d})]
daily_records(v, day, class, period) ==
    {r \in Between(v, day, day) : r.class = class /\ period \in {Nil, r.period}}

--------------------------------------------------------------------------------
(* Dropout risk.  The trend is ordered by day alone: the rows of one day come in  *)
(* any order, so the absences at its end may stop anywhere in the last day that   *)
(* has another row.                                                              *)
AbsentTails(rows) ==
    LET mixed == {r.day : r \in {q \in rows : q.status # "A"}}
        after(d) == {r \in rows : r.day > d}
        on(d) == {r \in rows : r.day = d /\ r.status = "A"}
    IN IF mixed = {} THEN {Cardinality(rows)}
       ELSE {Cardinality(after(Max(mixed))) + n : n \in 0..Cardinality(on(Max(mixed)))}

Points == [CONSEC_ABSENT_10 |-> 60, CONSEC_ABSENT_5 |-> 40, CONSEC_ABSENT_3 |-> 25,
           RATE_BELOW_50 |-> 45, RATE_BELOW_65 |-> 30, RATE_BELOW_80 |-> 15,
           FEES_OUTSTANDING |-> 10, FEES_OVERDUE_60 |-> 30, FEES_OVERDUE_30 |-> 20]
\* Slip: the rate of the absences.
SignalsOfAbsence(tail, rows) ==
    LET total == Cardinality(rows)
        absent == 100 * Tally(rows)["A"]
    IN IF rows # {} /\ absent < 50 * total THEN {"RATE_BELOW_50"} ELSE {}
\* No rows, no signals: the rate of nothing is not low.
_attendance_signals(tail, rows) ==
    LET total == Cardinality(rows)
        present == 100 * Tally(rows)["P"]
    IN IF rows = {} THEN {}
       ELSE (CASE tail >= 10 -> {"CONSEC_ABSENT_10"} [] tail \in 5..9 -> {"CONSEC_ABSENT_5"}
               [] tail \in 3..4 -> {"CONSEC_ABSENT_3"} [] tail < 3 -> {})
            \cup (CASE present < 50 * total -> {"RATE_BELOW_50"}
                    [] present >= 50 * total /\ present < 65 * total -> {"RATE_BELOW_65"}
                    [] present >= 65 * total /\ present < 80 * total -> {"RATE_BELOW_80"}
                    [] present >= 80 * total -> {})
\* Only the bills still open count; the latest one tells how long.
_fee_signals(bills) ==
    LET open == {b \in bills : b.status \in {"PENDING", "PARTIAL", "OVERDUE"}}
        late == Max({0} \cup {b.late : b \in open})
    IN (IF SumOf([b \in open |-> b.total - b.paid]) > 0 THEN {"FEES_OUTSTANDING"} ELSE {})
       \cup (CASE late > 60 -> {"FEES_OVERDUE_60"} [] late \in 31..60 -> {"FEES_OVERDUE_30"}
               [] late <= 30 -> {})
BANDS == [LOW |-> 0..29, MEDIUM |-> 30..59, HIGH |-> 60..79, CRITICAL |-> 80..100]
compute(tail, rows, bills) ==
    LET signals == _attendance_signals(tail, rows) \cup _fee_signals(bills)
        score == Min({100, SumOf([c \in signals |-> Points[c]])})
    IN [score |-> score, band |-> CHOOSE b \in DOMAIN BANDS : score \in BANDS[b],
        signals |-> signals]
Risks(rows, bills) == {compute(tail, rows, bills) : tail \in AbsentTails(rows)}
BillsOf(v, l) == {b \in v.bill : b.learner = l}

dropout_summary(ranked) ==
    LET in(b) == Cardinality({l \in DOMAIN ranked : ranked[l].band = b})
    IN [bands |-> [b \in DOMAIN BANDS |-> in(b)],
        at_risk |-> Cardinality({l \in DOMAIN ranked : ranked[l].band # "LOW"}),
        frequency |-> [c \in UNION {ranked[l].signals : l \in DOMAIN ranked} |->
                          Cardinality({l \in DOMAIN ranked : c \in ranked[l].signals})]]
\* The riskiest first, those of one score in some order.
Sorted(ranked, rows) ==
    CHOOSE s \in Injection(1..Cardinality(rows), rows) :
        \A i, j \in DOMAIN s : i < j => ranked[s[i]].score >= ranked[s[j]].score
\* One page of the learners of a band; is there another?
\* Slip: a full last page promises another.
PagesPromised(ranked, band, page, size) ==
    LET rows == {l \in DOMAIN ranked : band \in {Nil, ranked[l].band}}
        sorted == Sorted(ranked, rows)
    IN [data |-> SubSeq(sorted, (page - 1) * size + 1, Min({page * size, Len(sorted)})),
        total |-> Len(sorted), has_next |-> page * size <= Len(sorted)]
dropout_students(ranked, band, page, size) ==
    LET rows == {l \in DOMAIN ranked : band \in {Nil, ranked[l].band}}
        sorted == Sorted(ranked, rows)
    IN [data |-> SubSeq(sorted, (page - 1) * size + 1, Min({page * size, Len(sorted)})),
        total |-> Len(sorted), has_next |-> page * size < Len(sorted)]

--------------------------------------------------------------------------------
(* Curriculum: tags[w] is the kind of a work and the topics it names.  Nothing    *)
(* archives a topic or a work: the filters on it are left out.                    *)
Kinds == {"lesson_plan", "homework", "assessment", "formative_assessment"}
Tagging(v, kind, t) == {w \in Works : v.tags[w] # Nil /\ v.tags[w].kind = kind
                                        /\ t \in v.tags[w].topics}
\* At most limit of each kind are listed and counted.
topic_resources(v, t, limit) == [k \in Kinds |-> Min({limit, Cardinality(Tagging(v, k, t))})]
\* Slip: homework is not counted.
CoverageWithoutHomework(v) ==
    LET counts(t) == [k \in Kinds |-> Cardinality(Tagging(v, k, t))]
        total(t) == SumOf([k \in Kinds \ {"homework"} |-> counts(t)[k]])
    IN [topics |-> [t \in Topics |-> counts(t)], total |-> [t \in Topics |-> total(t)],
        uncovered |-> Cardinality({t \in Topics : total(t) = 0})]
curriculum_coverage(v) ==
    LET counts(t) == [k \in Kinds |-> Cardinality(Tagging(v, k, t))]
        total(t) == SumOf(counts(t))
    IN [topics |-> [t \in Topics |-> counts(t)], total |-> [t \in Topics |-> total(t)],
        uncovered |-> Cardinality({t \in Topics : total(t) = 0})]

--------------------------------------------------------------------------------
(* The dropout report.  The learners are listed once; for each the trend is read   *)
(* and then the bills are awaited, which come too late or not at all as none.      *)
NoEnquiry == [about |-> "none"]
enquiryOf(about) == enquiry.about = about

\* The trend that was read last, until the bills of its learner are there.
NoTrend == [of |-> Nil, rows |-> {}]
RankThe(page) ==
    /\ enquiry = NoEnquiry
    /\ enquiry' = [about |-> "dropout", page |-> page, left |-> page, trend |-> NoTrend,
                   ranked |-> [l \in {} |-> Nil]]
    /\ UNCHANGED <<school, meanwhile, trail>>
list_active_students(pageSize) ==
    \E page \in kSubset(Min({pageSize, Cardinality(school.listed)}), school.listed) :
        RankThe(page)
\* Of one learner, listed or not.
dropout_student_detail(l) == RankThe({l})

fetch_student_trend(l) ==
    /\ enquiryOf("dropout") /\ enquiry.trend = NoTrend /\ l \in enquiry.left
    /\ enquiry' = [enquiry EXCEPT !.left = @ \ {l},
                       !.trend = [of |-> l, rows |-> TrendRows(school, l, 1, school.today)]]
    /\ UNCHANGED <<school, meanwhile, trail>>

fetch_invoices ==
    /\ enquiryOf("dropout") /\ enquiry.trend # NoTrend
    /\ \E bills \in {BillsOf(school, enquiry.trend.of), {}} :
           \E risk \in Risks(enquiry.trend.rows, bills) :
               enquiry' = [enquiry EXCEPT !.trend = NoTrend,
                   !.ranked = [l \in DOMAIN @ \cup {enquiry.trend.of} |->
                                  IF l = enquiry.trend.of THEN risk ELSE enquiry.ranked[l]]]
    /\ UNCHANGED <<school, meanwhile, trail>>

Ranked == enquiryOf("dropout") /\ enquiry.left = {} /\ enquiry.trend = NoTrend

--------------------------------------------------------------------------------
(* The archives.  The audit row is committed before the first query; each file is   *)
(* a query of its own, in the order of the answer.                                  *)
SchoolFiles == <<"students", "guardians", "links", "enrolments", "attendance",
                 "assessments", "marks">>
FamilyFiles == <<"children", "enrolments", "attendance", "marks">>

MarksIn(v, learners) == {r \in Papers \X learners : v.sheet[r[1]][r[2]] # Nil}
\* What a query for a file of the school's archive sees: rows deleted softly are there too.
_stream(v, file) ==
    CASE file = "students" -> v.enrolled
      [] file = "guardians" -> v.guardian
      [] file = "links" -> v.family
      [] file = "enrolments" -> v.enrolment
      [] file = "attendance" -> v.register
      [] file = "assessments" -> {a \in Papers : v.paper[a] # Nil}
      [] file = "marks" -> MarksIn(v, Learners)
\* Slip: attendance is that of the school.
OfEveryChild(v, file, children) ==
    CASE file = "children" -> v.enrolled \cap children
      [] file = "enrolments" -> v.enrolment \cap children
      [] file = "attendance" -> v.register
      [] file = "marks" -> MarksIn(v, children)
\* And one for a file of a guardian's: what names a child that was linked.
OfChildren(v, file, children) ==
    CASE file = "children" -> v.enrolled \cap children
      [] file = "enrolments" -> v.enrolment \cap children
      [] file = "attendance" -> {r \in v.register : r.learner \in children}
      [] file = "marks" -> MarksIn(v, children)

Opens(event, actor) ==
    /\ enquiry = NoEnquiry
    /\ trail' = Append(trail, [event |-> event, actor |-> actor])
    /\ enquiry' = [about |-> "archive", of |-> actor, files |-> Nil, children |-> {},
                   done |-> <<>>]
    /\ UNCHANGED <<school, meanwhile>>
export_school == Opens("export_school", Nil)
export_parent_data(g) == Opens("export_parent", g)

\* Without a row of the school, or of the guardian, a manifest says so and no file follows.
Locates ==
    /\ enquiryOf("archive") /\ enquiry.files = Nil
    /\ enquiry' = [enquiry EXCEPT
           !.files = CASE enquiry.of = Nil /\ school.found -> SchoolFiles
                       [] enquiry.of # Nil /\ enquiry.of \in school.guardian -> FamilyFiles
                       [] OTHER -> <<>>,
           !.children = {k[1] : k \in {j \in school.family : j[2] = enquiry.of}}]
    /\ UNCHANGED <<school, meanwhile, trail>>

_write_rows ==
    /\ enquiryOf("archive") /\ enquiry.files # Nil /\ Len(enquiry.done) < Len(enquiry.files)
    /\ LET file == enquiry.files[Len(enquiry.done) + 1]
           rows == IF enquiry.of = Nil THEN _stream(school, file)
                   ELSE OfChildren(school, file, enquiry.children)
       IN enquiry' = [enquiry EXCEPT !.done = Append(@, rows)]
    /\ UNCHANGED <<school, meanwhile, trail>>

--------------------------------------------------------------------------------
(* Other requests that commit, as far as a report sees them: AttendanceSync,        *)
(* FeePayments, MarkBook and StudentRoster model what they do.  None removes a row.  *)
Packed == enquiryOf("archive") /\ enquiry.files # Nil /\ Len(enquiry.done) = Len(enquiry.files)
Commit(v) ==
    /\ school' = v /\ school' # school
    /\ meanwhile' = (meanwhile \/ enquiry # NoEnquiry)
    /\ UNCHANGED <<enquiry, trail>>
MarkAttendance(row) ==
    LET same(r) == r.learner = row.learner /\ r.day = row.day /\ r.period = row.period
    IN Commit([school EXCEPT !.register = {r \in @ : ~same(r)} \cup {row}])
PayBill(b) ==
    /\ b \in school.bill /\ b.status # "PAID"
    /\ Commit([school EXCEPT !.bill =
           (@ \ {b}) \cup {[b EXCEPT !.paid = b.total, !.status = "PAID"]}])
Leaves(l) == Commit([school EXCEPT !.listed = @ \ {l}])
NewPaper(a) ==
    /\ school.paper[a] = Nil
    /\ Commit([school EXCEPT !.paper[a] = [subject |-> 1, max |-> 1]])
SaveMark(a, l, row) ==
    /\ school.paper[a] # Nil /\ row.marks \in {Nil} \cup 0..school.paper[a].max
    /\ Commit([school EXCEPT !.sheet[a][l] = row])
\* A learner is taken in, linked to a guardian and put in a class by three requests.
TakeIn(l) == Commit([school EXCEPT !.enrolled = @ \cup {l}])
PutInClass(l) == l \in school.enrolled /\ Commit([school EXCEPT !.enrolment = @ \cup {l}])
LinkGuardian(l, g) ==
    /\ l \in school.enrolled /\ g \in school.guardian
    /\ Commit([school EXCEPT !.family = @ \cup {<<l, g>>}])
NewGuardian(g) == Commit([school EXCEPT !.guardian = @ \cup {g}])

ReportsInit == enquiry = NoEnquiry /\ meanwhile = FALSE /\ trail = <<>>

\* A link names a learner and a guardian of the school, and a row of a class or of a
\* sheet what it is a row of; a mark is at most the maximum of its paper.
SchoolTypeOK ==
    /\ school \in [paper : [Papers -> PaperRow \cup {Nil}],
                   sheet : [Papers -> [Learners -> SheetRow \cup {Nil}]],
                   register : SUBSET AttendanceRow, today : Nat, bill : SUBSET BillRow,
                   tags : [Works -> [kind : Kinds, topics : SUBSET Topics] \cup {Nil}],
                   listed : SUBSET Learners, enrolled : SUBSET Learners,
                   enrolment : SUBSET Learners, family : SUBSET (Learners \X Guardians),
                   guardian : SUBSET Guardians, found : BOOLEAN]
    /\ IsFiniteSet(school.register) /\ IsFiniteSet(school.bill)
    /\ school.enrolment \subseteq school.enrolled
    /\ school.family \subseteq school.enrolled \X school.guardian
    /\ \A a \in Papers, l \in Learners :
          LET row == school.sheet[a][l]
          IN row # Nil => /\ school.paper[a] # Nil
                          /\ row.marks \in {Nil} \cup 0..school.paper[a].max

EnquiryNext ==
    \/ \E size \in Nat : list_active_students(size)
    \/ \E l \in Learners : dropout_student_detail(l) \/ fetch_student_trend(l)
    \/ fetch_invoices
    \/ export_school \/ (\E g \in Guardians : export_parent_data(g))
    \/ Locates \/ _write_rows
SchoolCommits ==
    \/ \E row \in AttendanceRow : MarkAttendance(row)
    \/ \E b \in school.bill : PayBill(b)
    \/ \E a \in Papers : NewPaper(a) \/ (\E l \in Learners, row \in SheetRow : SaveMark(a, l, row))
    \/ \E l \in Learners : \/ Leaves(l) \/ TakeIn(l) \/ PutInClass(l)
                          \/ \E g \in Guardians : LinkGuardian(l, g)
    \/ \E g \in Guardians : NewGuardian(g)
ReportsSpec == ReportsInit /\ SchoolTypeOK /\ [][EnquiryNext \/ SchoolCommits]_schoolVars

--------------------------------------------------------------------------------
(* Properties. *)

\* A mark beside an absence is what a grading that overlapped with a save may leave
\* (MarkBook's MarksAreLast).
Raced(v, l) == \E a \in Papers : Graded(v.sheet[a][l]) /\ v.sheet[a][l].absent

\* The report card and the gradebook show the same average of the same papers, the
\* class performance counts those the gradebook grades and passes those it shows
\* half of the marks, a pass is a D or better, and a class whose papers have one
\* maximum averages at most all of it (assessment_service.py:186-483).
MarksAgree(v) ==
    \A s \in SubjectsOf(v) :
        LET book == class_gradebook(v, s)
            graded == {l \in DOMAIN book : book[l].graded > 0}
            perf == class_performance(v, s)
            card(l) == export_report_card(v, l)[s]
        IN /\ perf.students = Cardinality(DOMAIN book)
           /\ perf.total = Cardinality(graded)
           /\ perf.passing = Cardinality({l \in graded : Passes(book[l])})
           /\ perf.marks = SumOf([l \in DOMAIN book |-> book[l].marks])
           /\ Cardinality({v.paper[a].max : a \in PapersOf(v, s)}) = 1 =>
                  perf.marks * perf.rows <= perf.graded * perf.max
           /\ \A l \in DOMAIN book :
                  Raced(v, l) \/
                  /\ student_marks(v, l, s) = book[l] /\ card(l).graded = book[l].graded
                  /\ (l \in graded) = (card(l).grade # Nil)
                  /\ l \in graded /\ Passes(book[l]) => card(l).grade \in {"A", "B", "C", "D"}
                  \* but what rounds up to half is shown as a D and does not pass
                  /\ card(l).grade \in {"A", "B", "C", "D"} =>
                         2000 * book[l].marks >= 999 * book[l].max

\* The day, the classes and the learners tell the same attendance, and the pages of
\* the periods hold every row once (attendance_service.py:217-330).
RegisterAgrees(v) ==
    LET classes == {r.class : r \in v.register}
    IN \A d \in {r.day : r \in v.register} :
        /\ \A x \in {"P", "A", "L"} :
               LET whole == daily_summary(v, d, Nil)[x]
                   ofClass(c) == LET days == class_summary(v, c, d, d)
                                 IN IF d \in DOMAIN days THEN days[d][x] ELSE 0
               IN /\ whole = SumOf([c \in classes |-> ofClass(c)])
                  /\ whole = SumOf([c \in classes |-> daily_summary(v, d, c)[x]])
                  /\ whole = SumOf([l \in Learners |-> student_trend(v, l, d, d)[x]])
        /\ \A c \in classes :
               LET periods == {r.period : r \in v.register}
                   all == daily_records(v, d, c, Nil)
               IN /\ SumOf([p \in periods |-> Cardinality(daily_records(v, d, c, p))])
                      = Cardinality(all)
                  /\ Tally(all) = daily_summary(v, d, c)

\* A learner who was there, and a bill that is paid, never raise a risk, and every
\* score has its band (dropout_engine.py:30-161).
Riskiest(rows, bills) == Max({r.score : r \in Risks(rows, bills)})
RisksAreFair(v) ==
    \A l \in Learners :
        LET rows == TrendRows(v, l, 1, v.today)
            bills == BillsOf(v, l)
            paid(b) == [b EXCEPT !.paid = b.total, !.status = "PAID"]
        IN /\ \A r \in Risks(rows, bills) : r.score \in BANDS[r.band]
           /\ \A r \in {q \in rows : q.status = "A"} :
                  Riskiest((rows \ {r}) \cup {[r EXCEPT !.status = "P"]}, bills)
                      <= Riskiest(rows, bills)
           /\ \A b \in bills :
                  Riskiest(rows, (bills \ {b}) \cup {paid(b)}) <= Riskiest(rows, bills)

\* Every learner of the list is ranked and nobody else; and if nothing was committed
\* meanwhile each risk is that of the data as they are, with the bills or, where the
\* finance service did not answer, without (dropout_data.py:32-105).
RisksAreCurrent ==
    Ranked =>
        /\ DOMAIN enquiry.ranked = enquiry.page
        /\ meanwhile \/ \A l \in enquiry.page :
               LET rows == TrendRows(school, l, 1, school.today)
               IN enquiry.ranked[l] \in Risks(rows, BillsOf(school, l)) \cup Risks(rows, {})

\* The summary counts every learner of its list in one band, nobody twice for one kind
\* of signal; the pages of a band are its learners, each once (reports_query.py:128-232).
KindsOfSignal == {{"CONSEC_ABSENT_10", "CONSEC_ABSENT_5", "CONSEC_ABSENT_3"},
                  {"RATE_BELOW_50", "RATE_BELOW_65", "RATE_BELOW_80"},
                  {"FEES_OVERDUE_60", "FEES_OVERDUE_30"}}
DropoutAgrees ==
    Ranked =>
        LET ranked == enquiry.ranked
            answer == dropout_summary(ranked)
            ofBand(b) == {l \in DOMAIN ranked : b \in {Nil, ranked[l].band}}
        IN /\ SumOf(answer.bands) = Cardinality(enquiry.page)
           /\ answer.at_risk = Cardinality(enquiry.page) - answer.bands["LOW"]
           /\ \A kind \in KindsOfSignal :
                  SumOf([c \in kind \cap DOMAIN answer.frequency |-> answer.frequency[c]])
                      <= Cardinality(enquiry.page)
           /\ \A b \in {Nil} \cup DOMAIN BANDS, size \in 1..2 :
                  LET pages == 1..Cardinality(Learners)
                      page == [i \in pages \cup {Cardinality(Learners) + 1} |->
                                  dropout_students(ranked, b, i, size)]
                  IN /\ UNION {ToSet(page[i].data) : i \in pages} = ofBand(b)
                     /\ SumOf([i \in pages |-> Len(page[i].data)]) = Cardinality(ofBand(b))
                     /\ \A i \in pages : page[i].has_next = (page[i + 1].data # <<>>)

\* The coverage of a subject counts each work once under each topic it names, as the
\* page of the topic does (curriculum_index_routes.py:72-269).
CoverageAgrees(v) ==
    LET coverage == curriculum_coverage(v)
        tagged == {w \in Works : v.tags[w] # Nil}
    IN /\ SumOf(coverage.total)
               = SumOf([w \in tagged |-> Cardinality(v.tags[w].topics)])
       /\ coverage.uncovered = Cardinality(Topics \ UNION {v.tags[w].topics : w \in tagged})
       /\ \A t \in Topics : topic_resources(v, t, Cardinality(Works)) = coverage.topics[t]

\* No archive is made without a row in the audit trail.  A guardian's holds what names
\* the guardian's own children, all of whom it lists, whatever is committed meanwhile;
\* the links, the classes and the papers of the school's fit together unless something
\* was; attendance and marks may name anybody (export_routes.py:60-304).
LearnersOf(rows) == {r.learner : r \in rows}
ArchivesAgree ==
    /\ enquiryOf("archive") =>
           Len(trail) = 1 /\ trail[1].actor = enquiry.of
    /\ Packed /\ enquiry.files = FamilyFiles =>
           LET d == enquiry.done IN
           /\ \A l \in d[1] : <<l, enquiry.of>> \in school.family
           /\ d[2] \cup LearnersOf(d[3]) \cup {r[2] : r \in d[4]} \subseteq d[1]
    /\ Packed /\ enquiry.files = SchoolFiles /\ ~meanwhile =>
           LET d == enquiry.done IN
           /\ d[3] \subseteq d[1] \X d[2]
           /\ d[4] \subseteq d[1] /\ {r[1] : r \in d[7]} \subseteq d[6]

\* What a school's reports answer at one moment, and what it is told over several.
ReportsAgree == MarksAgree(school) /\ RegisterAgrees(school) /\ CoverageAgrees(school)
EnquiriesAgree == RisksAreCurrent /\ ArchivesAgree
DropoutsAgree == (enquiry = NoEnquiry => RisksAreFair(school)) /\ DropoutAgrees

\* The reports of a school agree with each other and with its rows, and enquiries of
\* several steps with what was read in each (assessment_service.py:186-483,
\* attendance_service.py:217-330, curriculum_index_routes.py:72-269,
\* reports_query.py:128-232, export_routes.py:60-304).
SchoolReportsAgree == ReportsAgree /\ EnquiriesAgree /\ DropoutsAgree
================================================================================
