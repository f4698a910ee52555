------------------------------ MODULE SchoolOffice ------------------------------
(* What the office of a school sets up in the academics service: policies,    *)
(* campuses, classes and subjects, class teachers, logins of students, the    *)
(* invitations of teachers, where the school is, and the day it goes live.    *)
(* All of it is served by Handlers, except the import of a file, which runs   *)
(* on the event loop of its process and meets no other import.                *)
EXTENDS Integers, FiniteSets, Sequences, Handlers
CONSTANTS MaxVersion, Campuses, Codes, Entries, Names, Sections, Assignments, Teachers,
          Pupils, Logins, Mails, Provinces, None

Versions == 1..MaxVersion
CampusRow == [code : Codes, primary : BOOLEAN]

ASSUME OfficeAssumption ==
    /\ MaxVersion \in Nat \ {0} /\ None \notin Provinces \cup Names \cup Sections
    /\ NoRow \notin Versions /\ NoRow \notin {"current", "superseded"}
    /\ NoRow \notin Campuses /\ NoRow \notin CampusRow

VARIABLES policy, issued,      \* version -> row; history: the versions in the order of issue
          campus, main,        \* campuses; history: the last one answered as primary
          entry,               \* classes, or subjects, or parents: what is known by a name
          teaching,            \* assignments of teachers to one class in one year
          login, firstLogin,   \* student -> login; history: the first one
          waiting, twice,      \* mail -> pending invite requests; history: twice in one file
          place, strayed,      \* province and district; history: the province moved alone
          passing, lapsed,     \* checks that are not red now; history: those that became red
          live                 \* how often the school went live
policies == <<policy, issued>>
campuses == <<campus, main>>
logins == <<login, firstLogin>>
requests == <<waiting, twice>>
geo == <<place, strayed>>
golive == <<passing, lapsed, live>>
office == <<policies, campuses, entry, teaching, logins, requests, geo, golive>>

\* A district is one of two of its province.
Districts == Provinces \X {1, 2}
\* The steps of onboarding, in the order in which they are evaluated.
CHECKS == <<"school_profile", "classes", "subjects", "teachers", "students",
            "parents_invited", "first_attendance">>
\* Classes, subjects and the assignments of teachers may be deleted, and students may leave.  A
\* school keeps its name and its terms, and invitations and marks are never deleted.
Fading == {"classes", "subjects", "teachers", "students"}

OfficeInit ==
    /\ policy = [v \in Versions |-> NoRow] /\ issued = << >>
    /\ campus = [r \in Campuses |-> NoRow] /\ main = NoRow
    /\ entry = [x \in Entries |-> NoRow] /\ teaching = [a \in Assignments |-> NoRow]
    /\ login = [s \in Pupils |-> NoRow] /\ firstLogin = [s \in Pupils |-> NoRow]
    /\ waiting = [e \in Mails |-> 0] /\ twice = {}
    /\ place = [province |-> None, district |-> None] /\ strayed = FALSE
    /\ passing = {} /\ lapsed = {} /\ live = 0

\* Slip: a new version leaves the others as they are.
SupersedesNone(v) == {NoRow}
\* A later version supersedes one that is current, the first version supersedes none.
CurrentPolicies == {v \in Versions : policy[v] = "current"}
Superseded(v) == IF v > 1 /\ CurrentPolicies # {} THEN CurrentPolicies ELSE {NoRow}
ReadPolicy(c, v) ==
    \E prev \in Superseded(v) :
        Reads(c, [op |-> "issue", on |-> {<<"policy", "school">>}, version |-> v, prev |-> prev])
    /\ UNCHANGED policies
\* A code has each version once.
CreatePolicy(c) ==
    LET v == request[c].version
    IN /\ request[c].op = "issue" /\ policy[v] = NoRow
       /\ policy' = [w \in Versions |-> CASE w = v -> "current"
                                          [] w = request[c].prev -> "superseded"
                                          [] OTHER -> policy[w]]
       /\ issued' = Append(issued, v)
       /\ Ends(c)

\* Slip: the flag is only set.
NoneCleared(rows) == {}
\* A new primary campus clears the flag of all that had it.
Cleared(rows) == rows
PrimaryCampuses == {r \in Created(campus) : campus[r].primary}
ReadCampuses(c, code, primary) ==
    /\ Reads(c, [op |-> "open", on |-> {<<"campus", "school">>}, code |-> code, primary |-> primary,
                  clears |-> IF primary THEN Cleared(PrimaryCampuses) ELSE {}])
    /\ UNCHANGED campuses
\* A code that is taken rolls the cleared flags back too.
CreateCampus(c, r) ==
    LET req == request[c]
    IN /\ req.op = "open" /\ campus[r] = NoRow
       /\ \A x \in Created(campus) : campus[x].code # req.code
       /\ campus' = [x \in Campuses |->
              CASE x = r -> [code |-> req.code, primary |-> req.primary]
                [] x \in req.clears -> [campus[x] EXCEPT !.primary = FALSE]
                [] OTHER -> campus[x]]
       /\ main' = IF req.primary THEN r ELSE main
       /\ Ends(c)

\* Classes, with a section; a subject goes by its code and a parent by a telephone number,
\* in a table where the sections are all one.  The look-up finds deleted ones too.
Called(name, section) == {x \in Created(entry) : entry[x].name = name /\ entry[x].section = section}
ReadForEntry(c, name, section) ==
    /\ Called(name, section) = {}
    /\ Reads(c, [op |-> "enter", on |-> {<<"entries", "school">>},
                  row |-> [name |-> name, section |-> section, active |-> TRUE]])
    /\ UNCHANGED entry
\* Slip: the table has lost its key.
Unkeyed(x, row) == TRUE
KeyHolds(x, row) == Called(row.name, row.section) \subseteq {x}
CreateEntry(c, x) ==
    /\ request[c].op = "enter" /\ entry[x] = NoRow /\ KeyHolds(x, request[c].row)
    /\ entry' = [entry EXCEPT ![x] = request[c].row] /\ Ends(c)
\* What is not sent stays; a class is looked up under the name it will have.
ReadForUpdate(c, x, name, section) ==
    /\ entry[x] # NoRow
    /\ LET new == [entry[x] EXCEPT !.name = IF name = None THEN @ ELSE name,
                                   !.section = IF section = None THEN @ ELSE section]
       IN /\ Called(new.name, new.section) \subseteq {x}
          /\ Reads(c, [op |-> "change", on |-> {<<"entries", "school">>},
                        id |-> x, seen |-> entry[x], new |-> new])
    /\ UNCHANGED entry
UpdateSubject(c, x, code) == ReadForUpdate(c, x, code, None)
UpdateParent(c, x, phone) == ReadForUpdate(c, x, phone, None)
ReadForDeletion(c, x) ==
    /\ entry[x] # NoRow
    /\ Reads(c, [op |-> "change", on |-> {<<"entries", "school">>}, id |-> x, seen |-> entry[x],
                  new |-> [entry[x] EXCEPT !.active = FALSE]])
    /\ UNCHANGED entry
UpdateEntry(c) ==
    LET req == request[c]
        row == [k \in DOMAIN req.new |-> Written(entry[req.id][k], req.seen[k], req.new[k])]
    IN /\ req.op = "change" /\ KeyHolds(req.id, row)
       /\ entry' = [entry EXCEPT ![req.id] = row] /\ Ends(c)

\* The first teacher of a class is assigned when there is none, another one when there is none
\* of that name; the table has each teacher once.
Assigned(t) == {a \in Created(teaching) : teaching[a].teacher = t}
ReadTeachers(c, t, how) ==
    /\ IF how = "main" THEN Created(teaching) = {} ELSE Assigned(t) = {}
    /\ Reads(c, [op |-> "assign", on |-> {<<"teachers", "school">>},
                  row |-> [teacher |-> t, how |-> how]])
    /\ UNCHANGED teaching
AssignTeacher(c, a) ==
    /\ request[c].op = "assign" /\ teaching[a] = NoRow /\ Assigned(request[c].row.teacher) = {}
    /\ teaching' = [teaching EXCEPT ![a] = request[c].row] /\ Ends(c)
DeleteClassTeacher(a) ==
    /\ teaching[a] # NoRow
    /\ teaching' = [teaching EXCEPT ![a] = NoRow] /\ UNCHANGED callers

\* Slip: a student who is linked may be linked again.
Anyone(s, u) == TRUE
Linkable(s, u) == login[s] \in {NoRow, u}
ReadStudent(c, s, u) ==
    /\ Linkable(s, u)
    /\ Reads(c, [op |-> "link", on |-> {<<"login", s>>},
                  student |-> s, seen |-> login[s], login |-> u])
    /\ UNCHANGED logins
\* A login is in the table once; what was read is not written again.
LinkStudentUser(c) ==
    LET req == request[c]
        now == Written(login[req.student], req.seen, req.login)
    IN /\ req.op = "link" /\ \A s \in Pupils \ {req.student} : login[s] # now
       /\ login' = [login EXCEPT ![req.student] = now]
       /\ firstLogin' = [firstLogin EXCEPT ![req.student] = IF @ = NoRow THEN now ELSE @]
       /\ Ends(c)

\* Slip: every row of the file is queued.
QueuedAnyway(e) == TRUE
\* A row of the file is left out when a request for its address is pending.  The session does
\* not flush before a look-up, so an address twice in the file is pending twice.
Queued(e) == waiting[e] = 0
Times(e, file) == Cardinality({i \in DOMAIN file : file[i] = e})
ImportTeachers(file) ==
    /\ waiting' = [e \in Mails |-> waiting[e] + IF Queued(e) THEN Times(e, file) ELSE 0]
    /\ twice' = twice \cup {e \in Mails : Times(e, file) > 1}
    /\ UNCHANGED callers
\* A pending request becomes a dispatched one.
DispatchRequest(e) ==
    /\ waiting[e] > 0
    /\ waiting' = [waiting EXCEPT ![e] = @ - 1] /\ UNCHANGED <<twice, callers>>

\* A district must lie in the school's province, and only a district that is sent is compared.
\* Slip: the district is compared with the province that the school had.
InPlaceRead(new, seen) ==
    new.district = None \/ seen.province = None \/ seen.province = new.district[1]
InProvince(new, seen) ==
    new.district = None \/ new.province = None \/ new.province = new.district[1]
ReadSchool(c, p, d) ==
    /\ LET new == [province |-> IF p = None THEN place.province ELSE p,
                   district |-> IF d = None THEN place.district ELSE d]
       IN /\ d # None => InProvince(new, place)
          /\ Reads(c, [op |-> "relocate", on |-> {<<"place", "school">>},
                        seen |-> place, new |-> new, moves |-> p # None, settles |-> d # None])
    /\ UNCHANGED geo
UpdateSchoolGeo(c) ==
    LET req == request[c]
    IN /\ req.op = "relocate"
       /\ place' = [k \in DOMAIN place |-> Written(place[k], req.seen[k], req.new[k])]
       /\ strayed' = (~req.settles /\ (strayed \/ req.moves))
       /\ Ends(c)

\* Work elsewhere makes checks pass, and deletions make some fail again.  A check passes when
\* it is green or amber: the button asks for red ones only, although the head of the module
\* says that every step must be green.
Passes(k) == k \notin passing /\ passing' = passing \cup {k} /\ UNCHANGED <<lapsed, live, callers>>
Lapses(k) ==
    /\ k \in passing /\ passing' = passing \ {k} /\ lapsed' = lapsed \cup {k}
    /\ UNCHANGED <<live, callers>>
\* The checks are queries of their own, one after the other.
ReadForGoLive(c) ==
    /\ live = 0
    /\ Reads(c, [op |-> "check", on |-> {<<"live", "school">>}, at |-> 1])
    /\ UNCHANGED golive
\* Slip: the checks are for the screen only.
NotAsked(n) == TRUE
AllChecked(n) == n > Len(CHECKS)
Check(c) ==
    /\ request[c].op = "check" /\ ~AllChecked(request[c].at)
    /\ IF CHECKS[request[c].at] \in passing
       THEN request' = [request EXCEPT ![c].at = @ + 1] /\ UNCHANGED raced
       ELSE Ends(c)
    /\ UNCHANGED golive
GoLive(c) ==
    /\ request[c].op = "check" /\ AllChecked(request[c].at)
    /\ live' = live + 1 /\ UNCHANGED <<passing, lapsed>> /\ Ends(c)

PoliciesNext == \E c \in Callers : CreatePolicy(c) \/ \E v \in Versions : ReadPolicy(c, v)
CampusesNext ==
    \E c \in Callers : \/ \E code \in Codes, on \in BOOLEAN : ReadCampuses(c, code, on)
                       \/ \E r \in Campuses : CreateCampus(c, r)
EntriesNext ==
    \E c \in Callers :
        \/ \E n \in Names, s \in Sections : ReadForEntry(c, n, s)
        \/ \E x \in Entries :
              \/ CreateEntry(c, x) \/ ReadForDeletion(c, x)
              \/ \E n \in Names : UpdateSubject(c, x, n) \/ UpdateParent(c, x, n)
              \/ \E n \in Names \cup {None}, s \in Sections \cup {None} : ReadForUpdate(c, x, n, s)
        \/ UpdateEntry(c)
TeachersNext ==
    \/ \E a \in Assignments : DeleteClassTeacher(a) \/ \E c \in Callers : AssignTeacher(c, a)
    \/ \E c \in Callers, t \in Teachers, how \in {"main", "co"} : ReadTeachers(c, t, how)
LoginsNext ==
    \E c \in Callers : \/ \E s \in Pupils, u \in Logins : ReadStudent(c, s, u)
                       \/ LinkStudentUser(c)
RequestsNext == \E e, f \in Mails : ImportTeachers(<<e, f>>) \/ DispatchRequest(e)
PlaceNext ==
    \E c \in Callers :
        \/ \E p \in Provinces \cup {None}, d \in Districts \cup {None} : ReadSchool(c, p, d)
        \/ UpdateSchoolGeo(c)
GoLiveNext ==
    \/ \E k \in {CHECKS[i] : i \in DOMAIN CHECKS} : Passes(k)
    \/ \E k \in Fading : Lapses(k)
    \/ \E c \in Callers : ReadForGoLive(c) \/ Check(c) \/ GoLive(c)

------------------------------------------------------------------------------
\* Unless requests overlapped, the version issued last is the current one, and the only one
\* unless the first version came late: that one supersedes nothing.
PoliciesAgree ==
    <<"policy", "school">> \in raced \/ issued = << >> \/
        LET newest == issued[Len(issued)]
        IN /\ newest \in CurrentPolicies
           /\ (\A i \in 2..Len(issued) : issued[i] # 1) => CurrentPolicies = {newest}
\* Unless requests overlapped, the campus opened last as the primary one is that, and no other:
\* a campus that is refused for its code takes the flag from nobody.
CampusesAgree == <<"campus", "school">> \in raced \/ PrimaryCampuses = {main} \ {NoRow}
\* No two classes have one name and section, the deleted ones included, even when one request
\* renames and another moves to a different section.
NamesAgree ==
    \A x, y \in Created(entry) :
        x # y => <<entry[x].name, entry[x].section>> # <<entry[y].name, entry[y].section>>
\* A class has each teacher once, however requests overlap; and unless they do it has one
\* teacher at most that was assigned as the only one.
TeachersAgree ==
    /\ \A t \in Teachers : Cardinality(Assigned(t)) <= 1
    /\ \/ <<"teachers", "school">> \in raced
       \/ Cardinality({a \in Created(teaching) : teaching[a].how = "main"}) <= 1
\* No login is two students', and unless two people linked a student at once, the first link
\* stays.
LoginsAgree ==
    \A s \in Pupils : /\ \A t \in Pupils \ {s} : login[s] = NoRow \/ login[s] # login[t]
                      /\ <<"login", s>> \in raced \/ login[s] = firstLogin[s]
\* A teacher is invited once at a time, unless one file named the address twice.
RequestsAgree == \A e \in Mails : e \in twice \/ waiting[e] <= 1
\* Unless requests overlapped, the district lies in the province as long as the province was
\* not moved without it.
PlaceAgrees ==
    \/ <<"place", "school">> \in raced \/ strayed
    \/ place.province = None \/ place.district = None \/ place.district[1] = place.province
\* The checks are no snapshot: a school may go live although they never passed all at once.
\* Whatever was not undone since passes in a school that is live, and unless two people pressed
\* the button at once it went live once.
GoLiveAgrees ==
    /\ live > 0 => \A i \in DOMAIN CHECKS : CHECKS[i] \in passing \cup lapsed
    /\ live <= 1 \/ <<"live", "school">> \in raced
OfficeAgrees == /\ PoliciesAgree /\ CampusesAgree /\ NamesAgree /\ TeachersAgree
                /\ LoginsAgree /\ RequestsAgree /\ PlaceAgrees /\ GoLiveAgrees
===============================================================================
