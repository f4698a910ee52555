------------------------------ MODULE SchoolCalendar ------------------------------
(* Academic years and terms of one school (academics service,                 *)
(* school_service.py), beside the desks of SchoolDesks and with the same kind *)
(* of handler: rows are read and compared, then written.  A year or term runs *)
(* from one date to a later one; dates are 1..MaxDate.                        *)
EXTENDS SchoolDesks
CONSTANTS Years, Terms, MaxDate

Dates == 1..MaxDate
Span == [from : Dates, to : Dates, active : BOOLEAN]
TermRow == [of : Years, from : Dates, to : Dates, active : BOOLEAN]

ASSUME CalendarAssumption == MaxDate \in Nat \ {0, 1} /\ NoRow \notin Span \cup TermRow

VARIABLES year, term,
          moved    \* history: the years that were cut short
calendar == <<year, term, moved>>
desks == <<library, boarding, conferences, meals, slips, inventory, staff>>

CalendarInit ==
    /\ year = [y \in Years |-> NoRow] /\ term = [t \in Terms |-> NoRow] /\ moved = {}

\* Slip: only the start is compared.
StartsWithin(a, b) == b.from <= a.from /\ a.from < b.to
Overlap(a, b) == a.from < b.to /\ b.from < a.to
Within(a, b) == b.from <= a.from /\ a.to <= b.to
TermsOf(y) == {t \in Created(term) : term[t].of = y}
\* A year may not overlap another year, a term not another term of its year.
YearFits(y, new) ==
    /\ new.from < new.to
    /\ \A z \in Created(year) \ {y} : ~Overlap(year[z], new)
TermFits(t, new) ==
    /\ new.from < new.to /\ Within(new, year[new.of])
    /\ \A u \in TermsOf(new.of) \ {t} : ~Overlap(term[u], new)

\* Every handler of the calendar compares with the school's other rows.  `activates`:
\* the flag is sent as true; a flag not sent stays.
ReadsCalendar(c, op, id, seen, new, activates) ==
    /\ activates => new.active
    /\ new.active => activates \/ (seen # NoRow /\ seen.active)
    /\ Reads(c, [op |-> op, on |-> {<<"calendar", "school">>}, id |-> id, seen |-> seen,
                  new |-> new, activates |-> activates])
    /\ UNCHANGED calendar

ReadForYear(c, y, new, activates) ==
    /\ year[y] = NoRow /\ YearFits(y, new)
    /\ ReadsCalendar(c, "year", y, NoRow, new, activates)
ReadForYearUpdate(c, y, new, activates) ==
    /\ year[y] # NoRow /\ YearFits(y, new)
    /\ ReadsCalendar(c, "year", y, year[y], new, activates)
ReadForTerm(c, t, new, activates) ==
    /\ term[t] = NoRow /\ year[new.of] # NoRow /\ TermFits(t, new)
    /\ ReadsCalendar(c, "term", t, NoRow, new, activates)
ReadForTermUpdate(c, t, new, activates) ==
    /\ term[t] # NoRow /\ new.of = term[t].of /\ TermFits(t, new)
    /\ ReadsCalendar(c, "term", t, term[t], new, activates)

\* Slip: the other rows stay as they are.
LeftActive(rows, scope, req) == rows
\* Making a row active makes the others of its scope inactive.
Deactivated(rows, scope, req) ==
    [z \in DOMAIN rows |-> IF req.activates /\ z \in scope \ {req.id}
                           THEN [rows[z] EXCEPT !.active = FALSE] ELSE rows[z]]
\* The row after the commit: inserted, or the columns that differ from what was read.
Saved(now, seen, new) ==
    IF seen = NoRow THEN new ELSE [k \in DOMAIN new |-> Written(now[k], seen[k], new[k])]

\* The others' UPDATE and the row's own are one transaction, here one step: what commits
\* between them overlaps this request.
SaveYear(c) ==
    LET req == request[c]
    IN /\ req.op = "year" /\ (req.seen = NoRow => year[req.id] = NoRow)
       /\ year' = [Deactivated(year, Created(year), req) EXCEPT
                      ![req.id] = Saved(year[req.id], req.seen, req.new)]
       /\ moved' = IF req.seen # NoRow /\ ~Within(req.seen, req.new)
                   THEN moved \cup {req.id} ELSE moved
       /\ UNCHANGED term /\ Ends(c)
SaveTerm(c) ==
    LET req == request[c]
    IN /\ req.op = "term" /\ (req.seen = NoRow => term[req.id] = NoRow)
       /\ term' = [Deactivated(term, TermsOf(req.new.of), req) EXCEPT
                      ![req.id] = Saved(term[req.id], req.seen, req.new)]
       /\ UNCHANGED <<year, moved>> /\ Ends(c)

CalendarNext ==
    /\ \E c \in Callers :
          \/ \E y \in Years, new \in Span, on \in BOOLEAN :
                ReadForYear(c, y, new, on) \/ ReadForYearUpdate(c, y, new, on)
          \/ \E t \in Terms, new \in TermRow, on \in BOOLEAN :
                ReadForTerm(c, t, new, on) \/ ReadForTermUpdate(c, t, new, on)
          \/ SaveYear(c) \/ SaveTerm(c)
    /\ UNCHANGED desks
SchoolInit == DesksInit /\ CalendarInit
SchoolNext == (DesksNext /\ UNCHANGED calendar) \/ CalendarNext
SchoolSpec == SchoolInit /\ [][SchoolNext]_<<vars, calendar>>

------------------------------------------------------------------------------
\* Every row of the desks and of the calendar keeps its type.
SchoolTypeOK ==
    /\ DeskTypeOK
    /\ year \in [Years -> Span \cup {NoRow}] /\ term \in [Terms -> TermRow \cup {NoRow}]
    /\ moved \subseteq Years

\* Unless two requests of the school overlapped: rows end after they start, years never
\* overlap, nor terms of a year, at most one year and one term of a year is active, and
\* a term lies within its year as long as that year was not cut short afterwards.
InOrder(rows, scope) ==
    /\ \A x \in scope : rows[x].from < rows[x].to
    /\ \A x, z \in scope : x # z => /\ ~Overlap(rows[x], rows[z])
                                  /\ ~(rows[x].active /\ rows[z].active)
CalendarAgrees ==
    \/ <<"calendar", "school">> \in raced
    \/ /\ InOrder(year, Created(year))
       /\ \A y \in Created(year) : /\ InOrder(term, TermsOf(y))
                                   /\ y \in moved \/ \A t \in TermsOf(y) : Within(term[t], year[y])
\* Every desk and the calendar agree with what was answered, and every row keeps its type.
DesksAndCalendarAgree == SchoolTypeOK /\ DesksAgree /\ CalendarAgrees
===============================================================================
