---------------------------- MODULE MinistryRollups ----------------------------
(* The cross-school reports of the ministry (ministry_routes.py of academics   *)
(* and of finance).  A report is a GET of a few queries; each sees what is     *)
(* committed when it runs, so that another request may change the country      *)
(* between two of them.  The answer is computed from what the queries saw, a    *)
(* row of the audit trail is committed on its own, and the answer goes out     *)
(* whether or not that worked.  Names and rounding are left out: a rate is the  *)
(* pair of numbers that is divided, Null when it would be by zero.              *)
EXTENDS Integers, FiniteSets, FiniteSetsExt, Sequences

CONSTANTS
    SchoolIds,  \* ids under which rows are filed, whether or not a School row has them
    Pupils, Staff,
    Entries,    \* rows of the table a report is about besides pupils and posts
    NoCode, Null, Absent
ASSUME MinistryAssumption ==
    /\ IsFiniteSet(SchoolIds) /\ IsFiniteSet(Pupils) /\ IsFiniteSet(Staff) /\ IsFiniteSet(Entries)
    /\ Absent \notin Nat

VARIABLES
    geo,        \* geo[s]: Null without a School row, or its codes and type
    pupil,      \* pupil[p]: school, status and the day of its last update
    post,       \* class teacher assignments: pairs of a school and a teacher
    entry,      \* entry[i]: Null, or an attendance record, a mark, a sponsorship,
                \* a compliance submission or an invoice
    report,     \* the report under way or done: what is asked and what its queries saw
    overtaken,  \* has a change been committed between two of its queries?
    auditLog
ministry == <<geo, pupil, post, entry, report, overtaken, auditLog>>

SchoolRow == [province : STRING \cup {NoCode}, district : STRING \cup {NoCode},
              type : STRING \cup {Null}]
Statuses == {"ACTIVE", "INACTIVE", "TRANSFERRED", "GRADUATED"}
PupilRow == [school : SchoolIds, status : Statuses, touched : 1..2]
\* An invoice is paid when all of it is (FeePayments).
InvoiceRow ==
    {i \in [table : {"invoice"}, school : SchoolIds, total : Nat, paid : Nat,
            status : {"PENDING", "PARTIAL", "OVERDUE", "PAID"}] :
        i.paid <= i.total /\ (i.status = "PAID" => i.paid = i.total)}
EntryRow ==
    [table : {"attendance"}, school : SchoolIds, status : {"P", "A", "L"}, day : 1..2]
    \cup [table : {"mark"}, school : SchoolIds, subject : Nat, marks : {0, 1, 2, Absent}]
    \cup [table : {"sponsorship"}, school : SchoolIds, committed : Nat, received : Nat]
    \cup [table : {"compliance"}, school : SchoolIds, template : Nat, period : Nat,
          status : {"draft", "submitted", "accepted", "rejected"}]
    \cup InvoiceRow

Now == [geo |-> geo, pupil |-> pupil, post |-> post, entry |-> entry]
Registered(v) == {s \in SchoolIds : v.geo[s] # Null}
Code(v, s, scope) == IF s \notin Registered(v) THEN NoCode
                     ELSE IF scope = "province" THEN v.geo[s].province ELSE v.geo[s].district
\* The registered schools of a code; a school without a code is one of a group too.
Of(v, scope, c) == {s \in Registered(v) : Code(v, s, scope) = c}
CodesOf(v, scope, schools) == {Code(v, s, scope) : s \in schools}
Rate(part, whole) == IF whole = 0 THEN Null ELSE <<part, whole>>

DROPOUT_STATUSES == {"INACTIVE", "TRANSFERRED"}
Heads(v, schools, statuses) ==
    Cardinality({p \in Pupils : v.pupil[p].school \in schools /\ v.pupil[p].status \in statuses})
Active(v, schools) == Heads(v, schools, {"ACTIVE"})
Teachers(v, schools) == Cardinality({a[2] : a \in {b \in v.post : b[1] \in schools}})
Rows(v, table) == {i \in Entries : v.entry[i] # Null /\ v.entry[i].table = table}
\* The sum of the values of a function.
Total(f) == MapThenSumSet(LAMBDA i : f[i], DOMAIN f)

(* The answers, one function of what the queries saw for each report. *)
SchoolsIndex(scope, code, seen) ==
    [s \in IF code = NoCode THEN Registered(seen[1]) ELSE Of(seen[1], scope, code) |->
        seen[1].geo[s]]

InhabitedCodes(scope, seen) ==
    CodesOf(seen[1], scope, {s \in Registered(seen[1]) : Active(seen[1], {s}) > 0})
\* Every code of a school is a row, with the pupils the second query finds under it.
EnrolmentCodes(scope, seen) == CodesOf(seen[1], scope, Registered(seen[1]))
Enrolment(scope, seen) ==
    IF scope = "national"
    THEN [c \in {NoCode} |-> [schools |-> Cardinality(Registered(seen[1])),
                              students |-> Active(seen[2], SchoolIds)]]
    ELSE [c \in EnrolmentCodes(scope, seen) |->
             [schools |-> Cardinality(Of(seen[1], scope, c)),
              students |-> Active(seen[2], Of(seen[2], scope, c))]]

\* The day of a record is 1 or 2, today; late is neither present nor missing from the total.
Attended(v, schools, from, to) ==
    LET rows == {i \in Rows(v, "attendance") :
                     v.entry[i].school \in schools /\ v.entry[i].day \in from..to}
    IN [records |-> Cardinality(rows),
        present |-> Cardinality({i \in rows : v.entry[i].status = "P"})]
Attendance(scope, since, seen) ==
    LET v == seen[1]
        marked == {s \in Registered(v) : Attended(v, {s}, since, 2).records > 0}
    IN IF scope = "national" THEN [c \in {NoCode} |-> Attended(v, Registered(v), since, 2)]
       ELSE [c \in CodesOf(v, scope, marked) |-> Attended(v, Of(v, scope, c), since, 2)]

\* One row per school and template, with a count per status and their sum.
Compliance(period, seen) ==
    LET v == seen[2]
        rows == {i \in Rows(v, "compliance") : period \in {Null, v.entry[i].period}}
        In(k, status) == Cardinality({i \in rows :
            <<v.entry[i].school, v.entry[i].template>> = k /\ v.entry[i].status = status})
    IN [k \in {<<v.entry[i].school, v.entry[i].template>> : i \in rows} |->
           [draft |-> In(k, "draft"), submitted |-> In(k, "submitted"),
            accepted |-> In(k, "accepted"), rejected |-> In(k, "rejected"),
            total |-> In(k, "draft") + In(k, "submitted")
                      + In(k, "accepted") + In(k, "rejected")]]

Dropouts(scope, seen) ==
    LET v == seen[1]
        taught == {s \in Registered(v) : \E p \in Pupils : v.pupil[p].school = s}
        Row(schools) == [active |-> Active(v, schools),
                         dropouts |-> Heads(v, schools, DROPOUT_STATUSES)]
    IN IF scope = "national" THEN [c \in {NoCode} |-> Row(Registered(v))]
       ELSE [c \in CodesOf(v, scope, taught) |-> Row(Of(v, scope, c))]

\* Half of the maximum of 2 passes.  The marks are read first, the schools last,
\* and the marks of an unregistered school count under no code.
AnyMark(mark) == TRUE
IsGraded(mark) == mark.marks # Absent
PassRate(scope, seen) ==
    LET v == seen[1]
        Key(i) == <<IF scope = "national" THEN NoCode ELSE Code(seen[3], v.entry[i].school, scope),
                    v.entry[i].subject>>
        graded(k) == {i \in Rows(v, "mark") : Key(i) = k /\ IsGraded(v.entry[i])}
    IN [k \in {Key(i) : i \in Rows(v, "mark")} |->
           [graded |-> Cardinality(graded(k)),
            passes |-> Cardinality({i \in graded(k) : v.entry[i].marks \in 1..2})]]

\* Pupils and teachers are read apart and merged by code.
Ptr(scope, seen) ==
    LET p == seen[1] t == seen[2]
        active == {s \in Registered(p) : Active(p, {s}) > 0}
        manned == {s \in Registered(t) : Teachers(t, {s}) > 0}
        Row(pupilsOf, teachersOf) ==
            [students |-> Active(p, pupilsOf), teachers |-> Teachers(t, teachersOf)]
    IN IF scope = "national" THEN [c \in {NoCode} |-> Row(SchoolIds, SchoolIds)]
       ELSE [c \in CodesOf(p, scope, active) \cup CodesOf(t, scope, manned) |->
                Row(Of(p, scope, c), Of(t, scope, c))]

Comparative(scope, code, seen) ==
    [s \in DOMAIN SchoolsIndex(scope, code, seen) |->
        [active |-> Active(seen[2], {s}), dropouts |-> Heads(seen[2], {s}, DROPOUT_STATUSES),
         teachers |-> Teachers(seen[3], {s})]]

\* The half-open windows are day 1 and day 2; a dropout counts on the day its row was last updated.
PolicyImpact(metric, scope, code, seen) ==
    LET schools == IF code = NoCode THEN SchoolIds ELSE Of(seen[1], scope, code)
        Touched(v, day, statuses) == Cardinality({p \in Pupils :
            /\ v.pupil[p].school \in schools /\ v.pupil[p].touched = day
            /\ v.pupil[p].status \in statuses})
    IN IF metric = "attendance_rate"
       THEN [day \in 1..2 |-> LET w == Attended(seen[day + 1], schools, day, day)
                              IN Rate(w.present, w.records)]
       ELSE [day \in 1..2 |->
                Rate(Touched(seen[2 * day], day, DROPOUT_STATUSES),
                     Touched(seen[2 * day + 1], day, DROPOUT_STATUSES \cup {"ACTIVE"}))]

\* Cents are summed per code, sponsorships of an unregistered school under none.
Donors(scope, seen) ==
    LET v == seen[2]
        Key(i) == IF scope = "national" THEN NoCode ELSE Code(seen[1], v.entry[i].school, scope)
        keys == IF scope = "national" THEN {NoCode} ELSE {Key(i) : i \in Rows(v, "sponsorship")}
        at(k) == {i \in Rows(v, "sponsorship") : Key(i) = k}
    IN [k \in keys |-> [sponsorships |-> Cardinality(at(k)),
                        committed |-> Total([i \in at(k) |-> v.entry[i].committed]),
                        received |-> Total([i \in at(k) |-> v.entry[i].received])]]

\* Attendance and dropouts are counted without asking for a School row.
Unesco(seen) ==
    LET Type(s) == IF seen[1].geo[s].type \in {"PRIMARY", "SECONDARY", "COMBINED"}
                   THEN seen[1].geo[s].type ELSE "OTHER"
        total == Active(seen[2], SchoolIds)
        gone == Heads(seen[6], SchoolIds, DROPOUT_STATUSES)
        active == {s \in Registered(seen[3]) : Active(seen[3], {s}) > 0}
    IN [schools |-> Cardinality(Registered(seen[1])),
        by_type |-> [t \in {"PRIMARY", "SECONDARY", "COMBINED", "OTHER"} |->
                        Cardinality({s \in Registered(seen[1]) : Type(s) = t})],
        total_active |-> total,
        by_province |-> [c \in CodesOf(seen[3], "province", active) |->
                            Active(seen[3], Of(seen[3], "province", c))],
        teachers |-> Teachers(seen[4], SchoolIds),
        attendance |-> Attended(seen[5], SchoolIds, 1, 2),
        dropouts |-> gone, dropout_rate |-> Rate(gone, gone + total)]

Fees(school, seen) ==
    LET v == seen[1]
        of(s) == {i \in Rows(v, "invoice") : v.entry[i].school = s}
        invoiced(s) == Total([i \in of(s) |-> v.entry[i].total])
        paid(s) == Total([i \in of(s) |-> v.entry[i].paid])
    IN [s \in {t \in SchoolIds : of(t) # {} /\ school \in {Null, t}} |->
           [invoices |-> Cardinality(of(s)), invoiced |-> invoiced(s), paid |-> paid(s),
            outstanding |-> Max({0, invoiced(s) - paid(s)})]]

Defaulters(seen) ==
    LET v == seen[1]
        of(s, status) == {i \in Rows(v, "invoice") :
                              v.entry[i].school = s /\ v.entry[i].status = status}
        owed(s, status) == Total([i \in of(s, status) |-> v.entry[i].total - v.entry[i].paid])
    IN [s \in {t \in SchoolIds : of(t, "OVERDUE") \cup of(t, "PARTIAL") # {}} |->
           [overdue |-> Cardinality(of(s, "OVERDUE")), partial |-> Cardinality(of(s, "PARTIAL")),
            owed |-> owed(s, "OVERDUE") + owed(s, "PARTIAL")]]

--------------------------------------------------------------------------------
(* The reports: what may be asked, how many queries each makes, what it answers. *)
Scopes == {"district", "province", "national"}
Scoped == {"enrolment", "attendance", "dropouts", "pass_rate", "ptr", "donors"}
Queries(r) ==
    CASE r.ask.about \in {"schools", "attendance", "dropouts", "fees", "defaulters"} -> 1
      [] r.ask.about \in {"enrolment", "compliance", "ptr", "donors"} -> 2
      [] r.ask.about = "pass_rate" -> 3
      [] r.ask.about = "comparative" ->
             IF r.seen # <<>> /\ DOMAIN SchoolsIndex(r.ask.scope, r.ask.code, r.seen) = {} THEN 1 ELSE 3
      [] r.ask.about = "attendance_rate" -> 3
      [] r.ask.about = "dropout_rate" -> 5
      [] r.ask.about = "unesco" -> 6
Answer(r) ==
    CASE r.ask.about = "schools" -> SchoolsIndex(r.ask.scope, r.ask.code, r.seen)
      [] r.ask.about = "enrolment" -> Enrolment(r.ask.scope, r.seen)
      [] r.ask.about = "attendance" -> Attendance(r.ask.scope, r.ask.since, r.seen)
      [] r.ask.about = "compliance" -> Compliance(r.ask.period, r.seen)
      [] r.ask.about = "dropouts" -> Dropouts(r.ask.scope, r.seen)
      [] r.ask.about = "pass_rate" -> PassRate(r.ask.scope, r.seen)
      [] r.ask.about = "ptr" -> Ptr(r.ask.scope, r.seen)
      [] r.ask.about = "comparative" -> Comparative(r.ask.scope, r.ask.code, r.seen)
      [] r.ask.about \in {"attendance_rate", "dropout_rate"} ->
             PolicyImpact(r.ask.about, r.ask.scope, r.ask.code, r.seen)
      [] r.ask.about = "donors" -> Donors(r.ask.scope, r.seen)
      [] r.ask.about = "unesco" -> Unesco(r.seen)
      [] r.ask.about = "fees" -> Fees(r.ask.school, r.seen)
      [] r.ask.about = "defaulters" -> Defaulters(r.seen)
\* The number of rows its audit row names.
Counted(r) ==
    CASE r.ask.about = "attendance" /\ r.ask.scope = "national" -> r.answer[NoCode].records
      [] r.ask.about \in {"attendance_rate", "dropout_rate", "unesco"} -> 1
      [] OTHER -> Cardinality(DOMAIN r.answer)

\* An unknown scope, or a caller who is not of the ministry, is turned away before any query.
NoReport == [at |-> "none"]
Ask(r, isMinistry) ==
    /\ report.at = "none"
    /\ report' = [ask |-> r, seen |-> <<>>, answer |-> Null,
                  at |-> IF isMinistry /\ (r.about \in Scoped => r.scope \in Scopes)
                         THEN "queries" ELSE "refused"]
    /\ UNCHANGED <<geo, pupil, post, entry, overtaken, auditLog>>

Query ==
    /\ report.at = "queries" /\ Len(report.seen) < Queries(report)
    /\ report' = [report EXCEPT !.seen = Append(@, Now)]
    /\ UNCHANGED <<geo, pupil, post, entry, overtaken, auditLog>>

\* Slip: every answer is audited.
AuditsAll(r) == TRUE
\* The comparison of no schools returns before its audit.
Audits(r) == ~(r.ask.about = "comparative" /\ DOMAIN r.answer = {})
_audit(r) ==
    LET row == [event |-> r.ask.about, rows |-> Counted(r)]
    IN auditLog' \in {auditLog} \cup (IF Audits(r) THEN {Append(auditLog, row)} ELSE {})
Respond ==
    /\ report.at = "queries" /\ Len(report.seen) = Queries(report)
    /\ LET r == [report EXCEPT !.answer = Answer(report), !.at = "done"]
       IN report' = r /\ _audit(r)
    /\ UNCHANGED <<geo, pupil, post, entry, overtaken>>

--------------------------------------------------------------------------------
(* Other requests that commit meanwhile. *)
Commits ==
    /\ overtaken' = (overtaken \/ (report.at = "queries"
                                   /\ Len(report.seen) \in 1..(Queries(report) - 1)))
    /\ UNCHANGED <<report, auditLog>>
\* A pupil's status or school is changed, on day 2.
update_student(p, school, status) ==
    /\ pupil' = [pupil EXCEPT ![p] = [school |-> school, status |-> status, touched |-> 2]]
    /\ pupil' # pupil
    /\ Commits /\ UNCHANGED <<geo, post, entry>>
\* A School row is made, or gets its codes.
upsert_school(s, row) ==
    /\ geo[s] # row /\ geo' = [geo EXCEPT ![s] = row]
    /\ Commits /\ UNCHANGED <<pupil, post, entry>>
assign_class_teacher(s, t) ==
    /\ <<s, t>> \notin post /\ post' = post \cup {<<s, t>>}
    /\ Commits /\ UNCHANGED <<geo, pupil, entry>>
delete_class_teacher(s, t) ==
    /\ <<s, t>> \in post /\ post' = post \ {<<s, t>>}
    /\ Commits /\ UNCHANGED <<geo, pupil, entry>>
FileEntry(i, row) ==
    /\ entry[i] = Null /\ entry' = [entry EXCEPT ![i] = row]
    /\ Commits /\ UNCHANGED <<geo, pupil, post>>

MinistryInit ==
    /\ report = NoReport /\ overtaken = FALSE /\ auditLog = <<>>

CountryTypeOK ==
    /\ geo \in [SchoolIds -> SchoolRow \cup {Null}]
    /\ pupil \in [Pupils -> PupilRow] /\ post \subseteq SchoolIds \X Staff
    /\ entry \in [Entries -> EntryRow \cup {Null}]

\* What may be asked: a scope is any word, a code, school or period may be left out.
Question ==
    [about : Scoped \ {"attendance"}, scope : STRING]
    \cup [about : {"attendance"}, scope : STRING, since : 1..2]
    \cup [about : {"schools", "comparative", "attendance_rate", "dropout_rate"},
          scope : {"province", "district"}, code : STRING \cup {NoCode}]
    \cup [about : {"compliance"}, period : Nat \cup {Null}]
    \cup [about : {"unesco"}, year : Nat]
    \cup [about : {"fees"}, school : SchoolIds \cup {Null}]
    \cup [about : {"defaulters"}]

CommitNext ==
    \/ \E p \in Pupils, s \in SchoolIds, status \in Statuses : update_student(p, s, status)
    \/ \E s \in SchoolIds, row \in SchoolRow : upsert_school(s, row)
    \/ \E s \in SchoolIds, t \in Staff : assign_class_teacher(s, t) \/ delete_class_teacher(s, t)
    \/ \E i \in Entries, row \in EntryRow : FileEntry(i, row)
MinistryNext ==
    \/ \E r \in Question, isMinistry \in BOOLEAN : Ask(r, isMinistry)
    \/ Query \/ Respond \/ CommitNext
MinistrySpec == MinistryInit /\ CountryTypeOK /\ [][MinistryNext]_ministry

--------------------------------------------------------------------------------
(* Properties. *)
FieldSum(answer, field) == Total([k \in DOMAIN answer |-> answer[k][field]])
Still == [q \in 1..6 |-> Now]
Strays == SchoolIds \ Registered(Now)

\* Of the same data the rows of the provinces, and of the districts, add up to the
\* national row, but for what hangs under a school without a row, which the national
\* numbers of pupils and teachers include and the regional ones do not; and the
\* reports that count the same thing count it alike (ministry_routes.py:191-1343).
PupilsAddUp ==
    LET nation == Enrolment("national", Still)[NoCode]
        lost == Dropouts("national", Still)[NoCode]
        unesco == Unesco(Still)
        all == Comparative("province", NoCode, Still)
    IN /\ unesco.total_active = nation.students
       /\ Total(unesco.by_type) = nation.schools
       /\ unesco.dropouts = lost.dropouts + Heads(Now, Strays, DROPOUT_STATUSES)
       /\ FieldSum(all, "active") = lost.active /\ FieldSum(all, "dropouts") = lost.dropouts
       /\ \A scope \in {"province", "district"} :
              LET enrolled == Enrolment(scope, Still)
                  gone == Dropouts(scope, Still)
              IN /\ FieldSum(enrolled, "schools") = nation.schools
                 /\ FieldSum(enrolled, "students") + Active(Now, Strays) = nation.students
                 /\ FieldSum(gone, "dropouts") = lost.dropouts
                 /\ \A c \in DOMAIN gone : gone[c].active = enrolled[c].students
TeachersAddUp ==
    LET nation == Ptr("national", Still)[NoCode] IN
    /\ nation.teachers = Unesco(Still).teachers
    /\ \A scope \in {"province", "district"} :
           LET rows == Ptr(scope, Still)
               regions(t) == {Code(Now, a[1], scope) : a \in {b \in post : b[2] = t}}
           IN /\ FieldSum(rows, "students") + Active(Now, Strays) = nation.students
              \* a teacher of two regions is counted in both, and once nationally
              /\ nation.teachers <= FieldSum(rows, "teachers") + Teachers(Now, Strays)
              /\ \A c \in DOMAIN rows : rows[c].teachers <= nation.teachers
              /\ Teachers(Now, Strays) = 0 /\ (\A t \in Staff : Cardinality(regions(t)) <= 1) =>
                     nation.teachers = FieldSum(rows, "teachers")
EntriesAddUp ==
    \A scope \in {"province", "district"} :
        /\ LET rows == Attendance(scope, 1, Still)
               nation == Attendance("national", 1, Still)[NoCode]
           IN \A f \in {"records", "present"} : FieldSum(rows, f) = nation[f]
        /\ LET rows == PassRate(scope, Still)
               nation == PassRate("national", Still)
           IN /\ FieldSum(rows, "passes") = FieldSum(nation, "passes")
              \* absent pupils are neither graded nor passed
              /\ FieldSum(rows, "graded") =
                     Cardinality({i \in Rows(Now, "mark") : entry[i].marks # Absent})
        /\ LET rows == Donors(scope, Still)
               nation == Donors("national", Still)[NoCode]
           IN \A f \in {"sponsorships", "committed", "received"} : FieldSum(rows, f) = nation[f]
\* What the schools are owed is what the defaulters report names, and the bills not yet due.
MoneyAddsUp ==
    LET pending == {i \in Rows(Now, "invoice") : entry[i].status = "PENDING"}
    IN FieldSum(Fees(Null, Still), "outstanding") =
           FieldSum(Defaulters(Still), "owed")
           + Total([i \in pending |-> entry[i].total - entry[i].paid])
ReturnsAddUp ==
    \A period \in {Null, 1, 2} :
        FieldSum(Compliance(period, Still), "total") =
            Cardinality({i \in Rows(Now, "compliance") : period \in {Null, entry[i].period}})

\* Whatever is committed between the queries of a report, a part is never larger
\* than its whole, except in the policy report, whose two counts of dropouts are
\* two queries; and no pupil is counted in two regions (ministry_routes.py:253-296).
Done == report.at = "done"
PartsWithinWholes ==
    Done =>
        /\ report.ask.about = "attendance" =>
               \A c \in DOMAIN report.answer : report.answer[c].present <= report.answer[c].records
        /\ report.ask.about = "pass_rate" =>
               \A c \in DOMAIN report.answer : report.answer[c].passes <= report.answer[c].graded
        /\ report.ask.about = "unesco" =>
               \/ report.answer.dropout_rate = Null
               \/ report.answer.dropout_rate[1] <= report.answer.dropout_rate[2]
        /\ report.ask.about = "dropout_rate" /\ ~overtaken =>
               \A day \in 1..2 :
                   \/ report.answer[day] = Null
                   \/ report.answer[day][1] <= report.answer[day][2]
        /\ report.ask.about = "enrolment" =>
               FieldSum(report.answer, "students") <= Active(report.seen[2], SchoolIds)
        /\ report.ask.about = "ptr" =>
               FieldSum(report.answer, "students") <= Active(report.seen[1], SchoolIds)
\* A report leaves one row in the audit trail or, when that commit fails, none; who
\* is turned away, and a comparison of no schools, leave none (ministry_routes.py:116-142).
ReadsAreTrailed ==
    /\ Len(auditLog) <= 1
    /\ auditLog # <<>> =>
           /\ Done /\ auditLog[1].event = report.ask.about
           /\ report.ask.about = "comparative" => auditLog[1].rows > 0
           /\ report.ask.about = "enrolment" /\ report.ask.scope # "national" =>
                  auditLog[1].rows =
                      Cardinality(CodesOf(report.seen[1], report.ask.scope, Registered(report.seen[1])))

NationAddsUp == PupilsAddUp /\ TeachersAddUp /\ EntriesAddUp /\ MoneyAddsUp /\ ReturnsAddUp
ReportsAreSound == PartsWithinWholes /\ ReadsAreTrailed

\* What the ministry is told adds up, and is sound whatever is committed while it asks;
\* every country is one that may be there before it asks
\* (ministry_routes.py:116-1343, finance ministry_routes.py:105-218).
MinistryAgrees == (report = NoReport => NationAddsUp) /\ ReportsAreSound
================================================================================
