----------------------------- MODULE MCSchoolDesks -----------------------------
(* One behaviour is about one desk, on one row of it or two.                  *)
EXTENDS SchoolCalendar, SchoolOffice, TLC
VARIABLE focus
CONSTANT Amounts

Desks == {"library", "boarding", "conferences", "meals", "slips", "assets", "leave"}
Offices == {"policies", "campuses", "entries", "teachers", "logins", "requests", "place", "golive"}
MCInit == SchoolInit /\ OfficeInit /\ focus \in Desks \cup Offices \cup {"calendar"}
DesksFocus ==
    \/ focus = "library" /\ LibraryNext
    \/ focus = "boarding" /\ BoardingNext
    \/ focus = "conferences" /\ ConferenceNext
    \/ focus = "meals" /\ MealsNext
    \/ focus = "slips" /\ SlipsNext
    \/ focus = "assets" /\ AssetsNext
    \/ focus = "leave" /\ LeaveNext
    \/ focus \in Desks \cup {"calendar"} /\ RequestsEnd
OfficeFocus ==
    \/ /\ focus = "policies" /\ PoliciesNext
       /\ UNCHANGED <<campuses, entry, teaching, logins, requests, geo, golive>>
    \/ /\ focus = "campuses" /\ CampusesNext
       /\ UNCHANGED <<policies, entry, teaching, logins, requests, geo, golive>>
    \/ /\ focus = "entries" /\ EntriesNext
       /\ UNCHANGED <<policies, campuses, teaching, logins, requests, geo, golive>>
    \/ /\ focus = "teachers" /\ TeachersNext
       /\ UNCHANGED <<policies, campuses, entry, logins, requests, geo, golive>>
    \/ /\ focus = "logins" /\ LoginsNext
       /\ UNCHANGED <<policies, campuses, entry, teaching, requests, geo, golive>>
    \/ /\ focus = "requests" /\ RequestsNext
       /\ UNCHANGED <<policies, campuses, entry, teaching, logins, geo, golive>>
    \/ /\ focus = "place" /\ PlaceNext
       /\ UNCHANGED <<policies, campuses, entry, teaching, logins, requests, golive>>
    \/ /\ focus = "golive" /\ GoLiveNext
       /\ UNCHANGED <<policies, campuses, entry, teaching, logins, requests, geo>>
    \/ focus \in Offices /\ UNCHANGED office /\ \E c \in Callers : GivesUp(c)
MCNext ==
    /\ \/ DesksFocus /\ UNCHANGED <<calendar, office>>
       \/ focus = "calendar" /\ CalendarNext /\ UNCHANGED office
       \/ OfficeFocus /\ UNCHANGED <<desks, calendar>>
    /\ UNCHANGED focus
SchoolDesksSpec == MCInit /\ [][MCNext]_<<vars, calendar, office, focus>>

\* Nothing is claimed of a calendar once two requests overlapped.
\* Two callers at most are in flight at the wider desks and in the office, one bed or account
\* is raced about, a target comes with "assigned" only, and a change of the office changes
\* something.
Bounds ==
    /\ \A c \in Callers : request[c].op = "topup" => request[c].amount \in Amounts
    /\ focus \in {"assets", "boarding"} \cup Offices => \E c \in Callers : request[c] = Idle
    /\ \A c \in Callers : request[c].op = "move" =>
            request[c].target = Nobody \/ request[c].action = "assigned"
    /\ focus = "calendar" => raced = {}
    /\ focus \in {"boarding", "meals"} => Cardinality(raced) <= 1
    /\ \A e \in Mails : waiting[e] <= 2
    /\ \A c \in Callers : request[c].op \in {"change", "relocate"} => request[c].new # request[c].seen
MCSpec == MCInit /\ [][MCNext /\ Bounds']_<<vars, calendar, office, focus>>

\* What is checked of the desks, the calendar and the office, each in its module:
\* DesksAndCalendarAgree and OfficeAgrees.
SchoolAgrees == DesksAndCalendarAgree /\ OfficeAgrees
MCSymmetry == Permutations(Callers) \cup Permutations(Stays)
===============================================================================
