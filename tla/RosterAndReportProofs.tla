------------------------- MODULE RosterAndReportProofs -------------------------
(* Theorems about the roster, about the ministry's reports on a country and about  *)
(* a school's reports of itself, for any school and any country.                   *)
(*                                                                                 *)
(* The roster: what reviews promise, what the links of a family promise, and that  *)
(* deletion and enrolment exclude one another.  A request decides on what it read  *)
(* before others committed.  The invariant says what of that still holds when it   *)
(* commits: rows and links never vanish, so what it found is still there; and what *)
(* it found pending, not enrolled or not linked is still so unless another request *)
(* about the same row was in flight with it, and then the row is in raced.         *)
(*                                                                                 *)
(* The reports count and add up.  That sums by groups make the sum of the whole is *)
(* an induction over finite sets, which the library's theorems cannot give here,   *)
(* for they take an operator.  It is made by least counterexample instead: strict  *)
(* inclusion is well-founded on the finite subsets of a set (FiniteSetTheorems),   *)
(* so a family of subsets that holds s \ {x} with s, and not the empty set, is      *)
(* empty (NoLeast).  The fold behind a sum is CHOSEN: a function with its equation *)
(* exists (AddsExists), and two agree where both are defined (AddsUnique).         *)
(*                                                                                 *)
(* A report that asks several times answers from what was committed at each time.  *)
(* The invariants say what a query left of that, and that it is of now for as long *)
(* as nothing was committed since.                                                 *)
EXTENDS StudentRoster, MinistryRollups, SchoolReports, FiniteSetTheorems, SequenceTheorems, TLAPS

\* Nobody else has a request in flight about the same row, unless it is raced.
OneAtATime ==
    \A a, b \in Admins :
        (/\ a # b /\ request[a] # Idle /\ request[b] # Idle
         /\ request[a].on = request[b].on) => request[a].on \in raced

\* What a request r in flight can rely on.  A review: its draft is there, and pending
\* unless raced.
ReviewGrounded(r) ==
    /\ r.op \in {"approve", "reject"} =>
           /\ draft[r.on] # NoRow
           /\ r.on \in raced \/ draft[r.on].review = "pending"
    /\ r.op \in {"approve parent", "reject parent"} => parentDraft[r.on] # NoRow
    /\ r.op = "approve parent" =>
           LET phone == parentDraft[r.on].phone IN
           /\ r.found => phone \in parent
           /\ r.linked => r.found /\ link[<<r.on, phone>>] # NoRow

\* The desk: its student is there; unraced, one about to be deleted is not enrolled,
\* and one about to be enrolled is on the roster.
DeskGrounded(r) ==
    /\ r.op \in {"status", "delete", "enrol"} => student[r.on] # NoRow
    /\ r.op = "delete" => r.on \in raced \/ ~Enrolled(r.on)
    /\ r.op = "enrol" => r.on \in raced \/ OnRoster(r.on)

\* A link: its parent is there, the primary parents it clears are linked, and unraced
\* they are all there are.
LinkGrounded(r) ==
    r.op = "link" =>
        /\ r.parent \in parent /\ student[r.on] # NoRow
        /\ \A p \in r.clears : link[<<r.on, p>>] # NoRow
        /\ r.on \in raced \/ ~r.primary \/ Primaries(r.on) \subseteq r.clears

Grounded(r) == ReviewGrounded(r) /\ DeskGrounded(r) /\ LinkGrounded(r)

RequestsInv ==
    /\ request \in [Admins -> Request] /\ OneAtATime
    /\ \A a \in Admins : Grounded(request[a])

RowsTyped ==
    /\ student \in [Codes -> Student \cup {NoRow}]
    /\ enrolment \in [Codes \X Years -> EnrolmentStatus \cup {NoRow}]
    /\ draft \in [Drafts -> Draft \cup {NoRow}]
    /\ parentDraft \in [Codes -> ParentDraft \cup {NoRow}]
    /\ parent \subseteq Parents
    /\ link \in [Codes \X Parents -> Link \cup {NoRow}]
    /\ raced \subseteq Drafts \cup Codes /\ reopened \subseteq Codes

\* A link is to a parent that exists, a parent draft belongs to a student, a student
\* made by a draft has that draft, and a link made by a draft is to the parent of its
\* phone or to the one a review inserts.
RowsBehindRows ==
    /\ \A c \in Codes, d \in Drafts :
           student[c] # NoRow /\ student[c].by = d => draft[d] # NoRow
    /\ \A c \in Codes, p \in Parents : link[<<c, p>>] # NoRow => p \in parent
    /\ \A c \in Codes : parentDraft[c] # NoRow => student[c] # NoRow
    /\ \A c \in Codes, p \in Parents : link[<<c, p>>] # NoRow /\ link[<<c, p>>].by = "draft" =>
           parentDraft[c] # NoRow /\ p \in {parentDraft[c].phone, Unknown}

RowsInv ==
    /\ RowsTyped /\ RowsBehindRows
    /\ ApprovalIsWhole /\ DraftGivesOneStudent /\ FamiliesStayApart /\ OnePrimary

RosterInv == RequestsInv /\ RowsInv

-------------------------------------------------------------------------------
\* Requests.

LEMMA RequestFields ==
    ASSUME NEW r \in Request
    PROVE  /\ r.op \in {"none", "approve", "reject", "reject parent", "delete", "create",
                        "approve parent", "link", "enrol", "status", "import"}
           /\ r.op \in {"approve", "reject"} => r.on \in Drafts
           /\ r.op \in {"reject parent", "delete", "create", "approve parent", "link", "enrol",
                        "status", "import"} => r.on \in Codes
           /\ r.op = "approve" => r.code \in Codes /\ r.year \in Years \cup {NoRow}
           /\ r.op = "approve parent" => r.found \in BOOLEAN /\ r.linked \in BOOLEAN
           /\ r.op = "link" => /\ r.parent \in Parents /\ r.primary \in BOOLEAN
                               /\ r.clears \subseteq Parents
           /\ r.op = "enrol" => r.year \in Years
           /\ r.op = "status" => r.status \in {"ACTIVE", "INACTIVE"}
           /\ r.op = "import" => r.parent \in Phones \cup {Placeholder}
<1>1. CASE r \in [op : {"none"}]
  BY <1>1
<1>2. CASE r \in [op : {"approve"}, on : Drafts, code : Codes, year : Years \cup {NoRow}]
  BY <1>2
<1>3. CASE r \in [op : {"reject"}, on : Drafts]
  BY <1>3
<1>4. CASE r \in [op : {"reject parent", "delete", "create"}, on : Codes]
  BY <1>4
<1>5. CASE r \in [op : {"approve parent"}, on : Codes, found : BOOLEAN, linked : BOOLEAN]
  BY <1>5
<1>6. CASE r \in [op : {"link"}, on : Codes, parent : Parents, primary : BOOLEAN,
                  clears : SUBSET Parents]
  BY <1>6
<1>7. CASE r \in [op : {"enrol"}, on : Codes, year : Years]
  BY <1>7
<1>8. CASE r \in [op : {"status"}, on : Codes, status : {"ACTIVE", "INACTIVE"}]
  BY <1>8
<1>9. CASE r \in [op : {"import"}, on : Codes, parent : Phones \cup {Placeholder}]
  BY <1>9
<1>10. QED
  BY <1>1, <1>2, <1>3, <1>4, <1>5, <1>6, <1>7, <1>8, <1>9 DEF Request

LEMMA IdleIsNone ==
    ASSUME NEW r \in Request
    PROVE  r.op = "none" <=> r = Idle
<1>1. r.op = "none" => r \in [op : {"none"}]
  BY DEF Request
<1>2. QED
  BY <1>1 DEF Idle

\* Rows are added and changed, and no row is removed.
RowsStay ==
    /\ \A d \in Drafts : draft[d] # NoRow => draft'[d] # NoRow
    /\ \A c \in Codes : student[c] # NoRow => student'[c] # NoRow
    /\ \A c \in Codes : parentDraft[c] # NoRow =>
           parentDraft'[c] # NoRow /\ parentDraft'[c].phone = parentDraft[c].phone
    /\ parent \subseteq parent' /\ raced \subseteq raced'
    /\ \A l \in Codes \X Parents : link[l] # NoRow => link'[l] # NoRow

\* Of the drafts and students that are there, only those of S are disturbed.
DisturbsOnly(S) ==
    /\ \A d \in Drafts \ S : draft[d] # NoRow => draft'[d].review = draft[d].review
    /\ \A c \in Codes \ S : student[c] # NoRow =>
           /\ Enrolled(c)' => Enrolled(c)
           /\ OnRoster(c) => OnRoster(c)'
           /\ Primaries(c)' \subseteq Primaries(c)

\* What a request relies on survives every step about another row, and every step
\* about its own row if that is raced.
LEMMA GroundedStays ==
    ASSUME RowsInv, RowsStay, NEW S, DisturbsOnly(S), NEW r \in Request, Grounded(r),
           r # Idle => r.on \notin S \/ r.on \in raced'
    PROVE  Grounded(r)'
<1>1. ReviewGrounded(r)'
  <2>1. ASSUME r.op \in {"approve", "reject"}
        PROVE  draft'[r.on] # NoRow /\ (r.on \in raced' \/ draft'[r.on].review = "pending")
    BY <2>1, RequestFields, IdleIsNone DEF Grounded, ReviewGrounded, RowsStay, DisturbsOnly
  <2>2. ASSUME r.op \in {"approve parent", "reject parent"}
        PROVE  /\ parentDraft'[r.on] # NoRow
               /\ parentDraft'[r.on].phone = parentDraft[r.on].phone
    BY <2>2, RequestFields, IdleIsNone DEF Grounded, ReviewGrounded, RowsStay
  <2>3. ASSUME r.op = "approve parent", r.linked, parentDraft[r.on].phone \in parent
        PROVE  link'[<<r.on, parentDraft[r.on].phone>>] # NoRow
    BY <2>3, RequestFields, IdleIsNone DEF Grounded, ReviewGrounded, RowsStay, RowsInv, RowsTyped
  <2>4. QED
    BY <2>1, <2>2, <2>3 DEF Grounded, ReviewGrounded, RowsStay
<1>2. DeskGrounded(r)'
  BY RequestFields, IdleIsNone DEF Grounded, DeskGrounded, RowsStay, DisturbsOnly
<1>3. LinkGrounded(r)'
  BY RequestFields, IdleIsNone DEF Grounded, LinkGrounded, RowsStay, DisturbsOnly
<1>4. QED
  BY <1>1, <1>2, <1>3 DEF Grounded

\* The three ways in which a step treats requests: one starts, one ends, none does.
LEMMA BeginKeepsInv ==
    ASSUME RosterInv, NEW a \in Admins, NEW req \in Request, req # Idle, Grounded(req),
           Begin(a, req)
    PROVE  RosterInv'
<1>1. /\ request' = [request EXCEPT ![a] = req] /\ request[a] = Idle
      /\ UNCHANGED <<student, enrolment, draft, parentDraft, parent, link, reopened>>
      /\ raced \subseteq raced' /\ raced' \subseteq raced \cup {req.on}
      /\ \A b \in Admins : request[b] # Idle /\ request[b].on = req.on => req.on \in raced'
  BY DEF Begin, Overlaps, InFlight
<1>2. RowsStay /\ DisturbsOnly({})
  BY <1>1 DEF RowsStay, DisturbsOnly, Enrolled, OnRoster, Primaries
<1>3. request' \in [Admins -> Request]
  BY <1>1 DEF RosterInv, RequestsInv
<1>4. OneAtATime'
  <2> SUFFICES ASSUME NEW b \in Admins, NEW c \in Admins, b # c, request'[b] # Idle,
                      request'[c] # Idle, request'[b].on = request'[c].on
               PROVE  request'[b].on \in raced'
    BY DEF OneAtATime
  <2>1. CASE b = a
    BY <1>1, <2>1 DEF RosterInv, RequestsInv
  <2>2. CASE c = a
    BY <1>1, <2>2 DEF RosterInv, RequestsInv
  <2>3. CASE b # a /\ c # a
    BY <1>1, <2>3 DEF RosterInv, RequestsInv, OneAtATime
  <2>4. QED
    BY <2>1, <2>2, <2>3
<1>5. ASSUME NEW b \in Admins PROVE Grounded(request[b])'
  <2>1. \A r \in Request : Grounded(r) => Grounded(r)'
    BY <1>2, GroundedStays DEF RosterInv
  <2>2. request'[b] \in Request /\ Grounded(request'[b])
    BY <1>1, <1>3 DEF RosterInv, RequestsInv
  <2>3. QED
    BY <2>1, <2>2
<1>6. RowsInv'
  <2>0. req.on \in Drafts \cup Codes
    BY RequestFields, IdleIsNone
  <2>1. raced' \subseteq Drafts \cup Codes
    BY <1>1, <2>0 DEF RosterInv, RowsInv, RowsTyped
  <2>2. RowsTyped' /\ RowsBehindRows'
    BY <1>1, <2>1 DEF RosterInv, RowsInv, RowsTyped, RowsBehindRows
  <2>3. QED
    BY <1>1, <2>2 DEF RosterInv, RowsInv, ApprovalIsWhole, DraftGivesOneStudent,
       FamiliesStayApart, OnePrimary, Primaries
<1>7. RequestsInv'
  BY <1>3, <1>4, <1>5 DEF RequestsInv
<1>8. QED
  BY <1>6, <1>7 DEF RosterInv

LEMMA EndKeepsRequests ==
    ASSUME RosterInv, NEW a \in Admins, request[a] # Idle, End(a), RowsStay,
           NEW S \in SUBSET {request[a].on}, DisturbsOnly(S)
    PROVE  RequestsInv'
<1>1. request' = [request EXCEPT ![a] = Idle] /\ raced' = raced
  BY DEF End
<1>2. request' \in [Admins -> Request]
  BY <1>1 DEF RosterInv, RequestsInv, Request, Idle
<1>3. OneAtATime'
  BY <1>1 DEF RosterInv, RequestsInv, OneAtATime
<1>4. ASSUME NEW b \in Admins PROVE Grounded(request[b])'
  <2>1. CASE b = a
    <3>1. request'[b] = Idle
      BY <1>1, <2>1 DEF RosterInv, RequestsInv
    <3>2. QED
      BY <3>1 DEF Grounded, ReviewGrounded, DeskGrounded, LinkGrounded, Idle
  <2>2. CASE b # a
    <3>1. request'[b] = request[b] /\ request[b] \in Request /\ Grounded(request[b])
      BY <1>1, <2>2 DEF RosterInv, RequestsInv
    <3>2. request[b] # Idle => request[b].on \notin S \/ request[b].on \in raced'
      BY <1>1, <2>2 DEF RosterInv, RequestsInv, OneAtATime
    <3>3. \A r \in Request :
              /\ Grounded(r)
              /\ r # Idle => r.on \notin S \/ r.on \in raced'
              => Grounded(r)'
      BY GroundedStays DEF RosterInv
    <3>4. QED
      BY <3>1, <3>2, <3>3
  <2>3. QED
    BY <2>1, <2>2
<1>5. QED
  BY <1>2, <1>3, <1>4 DEF RequestsInv

LEMMA OthersKeepRequests ==
    ASSUME RosterInv, request' = request, RowsStay, NEW S, DisturbsOnly(S),
           \A a \in Admins : request[a] # Idle /\ request[a].on \in S =>
               request[a].on \in raced'
    PROVE  RequestsInv'
<1>1. OneAtATime'
  BY DEF RosterInv, RequestsInv, OneAtATime, RowsStay
<1>2. ASSUME NEW b \in Admins PROVE Grounded(request[b])'
  <2>1. request'[b] = request[b] /\ request[b] \in Request /\ Grounded(request[b])
    BY DEF RosterInv, RequestsInv
  <2>2. \A r \in Request :
            /\ Grounded(r)
            /\ r # Idle => r.on \notin S \/ r.on \in raced'
            => Grounded(r)'
    BY GroundedStays DEF RosterInv
  <2>3. QED
    BY <2>1, <2>2
<1>3. QED
  BY <1>1, <1>2 DEF RosterInv, RequestsInv

------------------------------------------------------------------------------
\* Reviews of drafts.

LEMMA SubmitDraftStep ==
    ASSUME RosterInv, NEW d \in Drafts, NEW k \in Contacts, SubmitDraft(d, k)
    PROVE  RosterInv'
<1> DEFINE row == [review |-> "pending", contact |-> k, student |-> NoRow]
<1>1. row \in Draft /\ row # NoRow /\ row.review = "pending"
  BY NoRowIsNoRow DEF Draft
<1>2. /\ draft[d] = NoRow /\ draft' = [draft EXCEPT ![d] = row]
      /\ UNCHANGED <<student, enrolment, parentDraft, parent, link, request, raced, reopened>>
  BY DEF SubmitDraft
<1> HIDE DEF row
<1>3. RowsStay /\ DisturbsOnly({})
  BY <1>1, <1>2 DEF RosterInv, RowsInv, RowsTyped, RowsStay, DisturbsOnly, Enrolled,
     OnRoster, Primaries
<1>4. RequestsInv'
  BY <1>2, <1>3, OthersKeepRequests
<1>5. RowsTyped' /\ RowsBehindRows'
  BY <1>1, <1>2 DEF RosterInv, RowsInv, RowsTyped, RowsBehindRows
<1>6. ApprovalIsWhole'
  BY <1>1, <1>2 DEF RosterInv, RowsInv, RowsTyped, ApprovalIsWhole
<1>7. DraftGivesOneStudent'
  <2>1. \A e \in Drafts : e # d => draft'[e] = draft[e]
    BY <1>2 DEF RosterInv, RowsInv, RowsTyped
  <2>2. \A c \in Codes : student[c] # NoRow => student[c].by # d
    BY <1>2 DEF RosterInv, RowsInv, RowsBehindRows
  <2>3. QED
    BY <1>2, <2>1, <2>2 DEF RosterInv, RowsInv, DraftGivesOneStudent
<1>8. FamiliesStayApart' /\ OnePrimary'
  BY <1>2 DEF RosterInv, RowsInv, FamiliesStayApart, OnePrimary, Primaries
<1>9. QED
  BY <1>4, <1>5, <1>6, <1>7, <1>8 DEF RosterInv, RowsInv

LEMMA RejectStudentStep ==
    ASSUME RosterInv, NEW a \in Admins, RejectStudent(a)
    PROVE  RosterInv'
<1> DEFINE d == request[a].on
<1>1. request[a] \in Request /\ request[a].op = "reject" /\ Grounded(request[a])
  BY DEF RejectStudent, Serves, RosterInv, RequestsInv
<1>2. d \in Drafts /\ request[a] # Idle
  BY <1>1, RequestFields, IdleIsNone
<1>3. /\ draft' = [draft EXCEPT ![d].review = "rejected"] /\ End(a)
      /\ UNCHANGED <<student, enrolment, parentDraft, parent, link, raced, reopened>>
  BY DEF RejectStudent, End
<1>4. /\ draft[d] \in Draft /\ (d \in raced \/ draft[d].review = "pending")
      /\ draft[d] # NoRow
  BY <1>1, <1>2 DEF RosterInv, RowsInv, RowsTyped, Grounded, ReviewGrounded
<1> HIDE DEF d
<1>5. /\ draft' \in [Drafts -> Draft \cup {NoRow}] /\ draft'[d] # NoRow
      /\ draft'[d].review = "rejected"
      /\ \A e \in Drafts : e # d => draft'[e] = draft[e]
  BY <1>2, <1>3, <1>4, NoRowIsNoRow DEF RosterInv, RowsInv, RowsTyped, Draft
<1>6. RowsStay /\ DisturbsOnly({d})
  BY <1>3, <1>5 DEF RowsStay, DisturbsOnly, Enrolled, OnRoster, Primaries
<1>7. RequestsInv'
  BY <1>2, <1>3, <1>6, EndKeepsRequests DEF d
<1>8. RowsTyped' /\ RowsBehindRows'
  BY <1>3, <1>5 DEF RosterInv, RowsInv, RowsTyped, RowsBehindRows
<1>9. ApprovalIsWhole'
  BY <1>3, <1>5 DEF RosterInv, RowsInv, ApprovalIsWhole
<1>10. DraftGivesOneStudent'
  <2>1. d \notin raced => \A c \in Codes : student[c] # NoRow => student[c].by # d
    BY <1>2, <1>4 DEF RosterInv, RowsInv, DraftGivesOneStudent
  <2>2. QED
    BY <1>3, <1>5, <2>1 DEF RosterInv, RowsInv, DraftGivesOneStudent
<1>11. FamiliesStayApart' /\ OnePrimary'
  BY <1>3 DEF RosterInv, RowsInv, FamiliesStayApart, OnePrimary, Primaries
<1>12. QED
  BY <1>7, <1>8, <1>9, <1>10, <1>11 DEF RosterInv, RowsInv

LEMMA NewIsStudent ==
    ASSUME NEW b \in Drafts \cup {NoRow}
    PROVE  /\ NewStudent(b) \in Student /\ NewStudent(b) # NoRow
           /\ NewStudent(b).by = b /\ ~NewStudent(b).deleted
<1>1. NewStudent(b) \in Student
  BY DEF NewStudent, Student
<1>2. QED
  BY <1>1, NoRowIsNoRow DEF NewStudent

\* The code is taken by now, and all of the approval is rolled back; or the student is
\* new, and nothing was known of it.
LEMMA ApproveStudentStep ==
    ASSUME RosterInv, NEW a \in Admins, ApproveStudent(a)
    PROVE  RosterInv'
<1> DEFINE d == request[a].on
           c == request[a].code
           y == request[a].year
           contact == draft[d].contact
           new == [review |-> "pending", phone |-> contact, parent |-> NoRow]
<1>1. request[a] \in Request /\ request[a].op = "approve" /\ Grounded(request[a])
  BY DEF ApproveStudent, Serves, RosterInv, RequestsInv
<1>2. d \in Drafts /\ c \in Codes /\ request[a] # Idle
  BY <1>1, RequestFields, IdleIsNone
<1>3. End(a) /\ UNCHANGED <<parent, link, raced, reopened>>
  BY DEF ApproveStudent, End
<1>4. /\ draft[d] \in Draft /\ (d \in raced \/ draft[d].review = "pending")
      /\ draft[d] # NoRow
  BY <1>1, <1>2 DEF RosterInv, RowsInv, RowsTyped, Grounded, ReviewGrounded
<1>5. CASE student[c] # NoRow
  <2>1. UNCHANGED <<student, enrolment, draft, parentDraft>>
    BY <1>5 DEF ApproveStudent, CodeTaken
  <2>2. RowsStay /\ DisturbsOnly({})
    BY <1>3, <2>1 DEF RowsStay, DisturbsOnly, Enrolled, OnRoster, Primaries
  <2>3. RequestsInv'
    BY <1>2, <1>3, <2>2, EndKeepsRequests
  <2>4. QED
    BY <1>3, <2>1, <2>3 DEF RosterInv, RowsInv, RowsTyped, RowsBehindRows, ApprovalIsWhole,
       DraftGivesOneStudent, FamiliesStayApart, OnePrimary, Primaries
<1>6. CASE student[c] = NoRow
  <2>1. /\ student' = [student EXCEPT ![c] = NewStudent(d)]
        /\ enrolment' = [e \in Codes \X Years |->
                            IF e = <<c, y>> THEN "ENROLLED" ELSE enrolment[e]]
        /\ parentDraft' = IF contact # NoContact THEN [parentDraft EXCEPT ![c] = new]
                          ELSE parentDraft
        /\ draft' = [draft EXCEPT ![d].review = "approved", ![d].student = c]
    BY <1>6 DEF ApproveStudent, CodeTaken, SpawnsParentDraft
  <2>2. /\ NewStudent(d) \in Student /\ NewStudent(d).by = d /\ NewStudent(d) # NoRow
    BY <1>2, NewIsStudent
  <2>3. contact # NoContact => new \in ParentDraft /\ new # NoRow /\ new.review = "pending"
    <3>1. contact \in Contacts
      BY <1>4 DEF Draft
    <3>2. contact # NoContact => new \in ParentDraft
      BY <3>1 DEF ParentDraft, Contacts
    <3>3. QED
      BY <3>2, NoRowIsNoRow
  <2> HIDE DEF new, contact, c, d, y
  <2>4. /\ draft' \in [Drafts -> Draft \cup {NoRow}] /\ draft'[d] # NoRow
        /\ draft'[d].review = "approved" /\ draft'[d].student = c
        /\ \A e \in Drafts : e # d => draft'[e] = draft[e]
    <3>1. PICK row : row = [draft[d] EXCEPT !.review = "approved", !.student = c]
      OBVIOUS
    <3>2. row \in Draft /\ row.review = "approved" /\ row.student = c
      BY <1>2, <1>4, <3>1 DEF Draft
    <3>3. draft' = [draft EXCEPT ![d] = row]
      BY <1>2, <2>1, <3>1 DEF RosterInv, RowsInv, RowsTyped
    <3>4. QED
      BY <1>2, <3>2, <3>3, NoRowIsNoRow DEF RosterInv, RowsInv, RowsTyped
  <2>5. /\ student' \in [Codes -> Student \cup {NoRow}] /\ student'[c] # NoRow
        /\ student'[c].by = d
        /\ \A e \in Codes : e # c => student'[e] = student[e]
    BY <1>2, <2>1, <2>2 DEF RosterInv, RowsInv, RowsTyped
  <2>6. /\ parentDraft[c] = NoRow
        /\ parentDraft' \in [Codes -> ParentDraft \cup {NoRow}]
        /\ parentDraft'[c] # NoRow => parentDraft'[c].review = "pending"
        /\ \A e \in Codes : e # c => parentDraft'[e] = parentDraft[e]
    BY <1>2, <1>6, <2>1, <2>3 DEF RosterInv, RowsInv, RowsTyped, RowsBehindRows
  <2>7. /\ enrolment' \in [Codes \X Years -> EnrolmentStatus \cup {NoRow}]
        /\ \A e \in Codes, z \in Years : e # c => enrolment'[<<e, z>>] = enrolment[<<e, z>>]
    BY <2>1 DEF RosterInv, RowsInv, RowsTyped, EnrolmentStatus
  <2>8. RowsStay
    BY <1>3, <1>6, <2>4, <2>5, <2>6 DEF RowsStay
  <2>9. DisturbsOnly({d})
    BY <1>3, <1>6, <2>4, <2>5, <2>7 DEF DisturbsOnly, Enrolled, OnRoster, Primaries
  <2>10. RequestsInv'
    BY <1>2, <1>3, <2>8, <2>9, EndKeepsRequests DEF d
  <2>11. RowsTyped'
    BY <1>3, <2>4, <2>5, <2>6, <2>7 DEF RosterInv, RowsInv, RowsTyped
  <2>12. RowsBehindRows'
    BY <1>3, <2>4, <2>5, <2>6 DEF RosterInv, RowsInv, RowsBehindRows
  <2>13. ApprovalIsWhole'
    <3>1. \A e \in Drafts : draft'[e] # NoRow /\ draft'[e].review = "approved" =>
              /\ draft'[e].student # NoRow
              /\ student'[draft'[e].student] # NoRow /\ student'[draft'[e].student].by = e
      <4> SUFFICES ASSUME NEW e \in Drafts, draft'[e] # NoRow, draft'[e].review = "approved"
                   PROVE  /\ draft'[e].student # NoRow
                          /\ student'[draft'[e].student] # NoRow
                          /\ student'[draft'[e].student].by = e
        OBVIOUS
      <4>1. CASE e = d
        BY <1>2, <2>4, <2>5, <4>1, RosterAssumption
      <4>2. CASE e # d
        <5>1. draft'[e] = draft[e] /\ draft[e] \in Draft
          BY <2>4, <4>2 DEF RosterInv, RowsInv, RowsTyped
        <5>2. /\ draft[e].student # NoRow /\ student[draft[e].student] # NoRow
              /\ student[draft[e].student].by = e
          BY <5>1 DEF RosterInv, RowsInv, ApprovalIsWhole
        <5>3. draft[e].student \in Codes
          BY <5>1, <5>2 DEF Draft
        <5>4. QED
          BY <1>6, <2>5, <5>1, <5>2, <5>3
      <4>3. QED
        BY <4>1, <4>2
    <3>2. \A e \in Codes : parentDraft'[e] # NoRow /\ parentDraft'[e].review = "approved" =>
              /\ parentDraft'[e].parent \in parent
              /\ link[<<e, parentDraft'[e].parent>>] # NoRow
      BY <2>6 DEF RosterInv, RowsInv, ApprovalIsWhole
    <3>3. QED
      BY <1>3, <3>1, <3>2 DEF ApprovalIsWhole
  <2>14. DraftGivesOneStudent'
    <3>1. d \notin raced => \A e \in Codes : student[e] # NoRow => student[e].by # d
      BY <1>2, <1>4 DEF RosterInv, RowsInv, DraftGivesOneStudent
    <3>2. QED
      BY <1>2, <1>3, <2>4, <2>5, <3>1 DEF RosterInv, RowsInv, DraftGivesOneStudent
  <2>15. FamiliesStayApart' /\ OnePrimary'
    <3>1. \A p \in Parents : link[<<c, p>>] # NoRow => link[<<c, p>>].by # "draft"
      BY <1>2, <2>6 DEF RosterInv, RowsInv, RowsBehindRows
    <3>2. FamiliesStayApart'
      BY <1>3, <2>6, <3>1 DEF RosterInv, RowsInv, FamiliesStayApart
    <3>3. QED
      BY <1>3, <3>2 DEF RosterInv, RowsInv, OnePrimary, Primaries
  <2>16. QED
    BY <2>10, <2>11, <2>12, <2>13, <2>14, <2>15 DEF RosterInv, RowsInv
<1>7. QED
  BY <1>5, <1>6

-------------------------------------------------------------------------------
\* Reviews of parent drafts.

LEMMA RejectParentStep ==
    ASSUME RosterInv, NEW a \in Admins, RejectParent(a)
    PROVE  RosterInv'
<1> DEFINE c == request[a].on
<1>1. request[a] \in Request /\ request[a].op = "reject parent" /\ Grounded(request[a])
  BY DEF RejectParent, Serves, RosterInv, RequestsInv
<1>2. c \in Codes /\ request[a] # Idle
  BY <1>1, RequestFields, IdleIsNone
<1>3. /\ parentDraft' = [parentDraft EXCEPT ![c].review = "rejected"] /\ End(a)
      /\ UNCHANGED <<student, enrolment, draft, parent, link, raced, reopened>>
  BY DEF RejectParent, End
<1>4. parentDraft[c] \in ParentDraft /\ parentDraft[c] # NoRow
  BY <1>1, <1>2 DEF RosterInv, RowsInv, RowsTyped, Grounded, ReviewGrounded
<1> HIDE DEF c
<1>5. /\ parentDraft' \in [Codes -> ParentDraft \cup {NoRow}] /\ parentDraft'[c] # NoRow
      /\ parentDraft'[c].review = "rejected" /\ parentDraft'[c].phone = parentDraft[c].phone
      /\ \A e \in Codes : e # c => parentDraft'[e] = parentDraft[e]
  BY <1>2, <1>3, <1>4, NoRowIsNoRow DEF RosterInv, RowsInv, RowsTyped, ParentDraft
<1>6. RowsStay /\ DisturbsOnly({})
  BY <1>3, <1>5 DEF RowsStay, DisturbsOnly, Enrolled, OnRoster, Primaries
<1>7. RequestsInv'
  BY <1>2, <1>3, <1>6, EndKeepsRequests
<1>8. RowsTyped' /\ RowsBehindRows'
  BY <1>3, <1>4, <1>5 DEF RosterInv, RowsInv, RowsTyped, RowsBehindRows
<1>9. ApprovalIsWhole'
  BY <1>3, <1>5 DEF RosterInv, RowsInv, ApprovalIsWhole
<1>10. DraftGivesOneStudent' /\ FamiliesStayApart' /\ OnePrimary'
  <2>1. \A e \in Codes : parentDraft'[e].phone = parentDraft[e].phone
    BY <1>5
  <2>2. QED
    BY <1>3, <2>1 DEF RosterInv, RowsInv, DraftGivesOneStudent, FamiliesStayApart, OnePrimary,
       Primaries
<1>11. QED
  BY <1>7, <1>8, <1>9, <1>10 DEF RosterInv, RowsInv

\* What the approval found is still there; what it did not find it inserts, unless
\* somebody else has by now.
LEMMA ApproveParentStep ==
    ASSUME RosterInv, NEW a \in Admins, ApproveParent(a)
    PROVE  RosterInv'
<1> DEFINE c == request[a].on
           phone == parentDraft[c].phone
           linked == request[a].linked
           found == request[a].found
           p == IF found THEN phone ELSE Inserts(phone)
           new == [primary |-> FALSE, by |-> "draft"]
<1>1. request[a] \in Request /\ request[a].op = "approve parent" /\ Grounded(request[a])
  BY DEF ApproveParent, Serves, RosterInv, RequestsInv
<1>2. c \in Codes /\ request[a] # Idle
  BY <1>1, RequestFields, IdleIsNone
<1>3. End(a) /\ UNCHANGED <<student, enrolment, draft, raced, reopened>>
  BY DEF ApproveParent, End
<1>4. parentDraft[c] \in ParentDraft /\ parentDraft[c] # NoRow
  BY <1>1, <1>2 DEF RosterInv, RowsInv, RowsTyped, Grounded, ReviewGrounded
<1>5. /\ found => p \in parent
      /\ linked => p \in parent /\ link[<<c, p>>] # NoRow
  BY <1>1 DEF Grounded, ReviewGrounded
<1>6. /\ phone \in Phones \cup {NoPhone} /\ phone # Unknown
      /\ p \in {phone, Unknown} /\ p \in Parents
  <2>1. phone \in Phones \cup {NoPhone}
    BY <1>4 DEF ParentDraft
  <2> HIDE DEF phone, found
  <2>2. QED
    BY <2>1, RosterAssumption DEF Inserts, Parents
<1>7. new \in Link /\ new # NoRow /\ ~new.primary /\ new.by = "draft"
  <2>1. new \in Link
    BY DEF Link
  <2>2. QED
    BY <2>1, NoRowIsNoRow
<1>8. CASE (~found /\ p \in parent) \/ (~linked /\ link[<<c, p>>] # NoRow)
  <2>1. UNCHANGED <<parent, link, parentDraft>>
    BY <1>8 DEF ApproveParent, LooksFor
  <2>2. RowsStay /\ DisturbsOnly({})
    BY <1>3, <2>1 DEF RowsStay, DisturbsOnly, Enrolled, OnRoster, Primaries
  <2>3. RequestsInv'
    BY <1>2, <1>3, <2>2, EndKeepsRequests
  <2>4. QED
    BY <1>3, <2>1, <2>3 DEF RosterInv, RowsInv, RowsTyped, RowsBehindRows, ApprovalIsWhole,
       DraftGivesOneStudent, FamiliesStayApart, OnePrimary, Primaries
<1>9. CASE ~((~found /\ p \in parent) \/ (~linked /\ link[<<c, p>>] # NoRow))
  <2>1. /\ parent' = parent \cup {p}
        /\ link' = IF linked THEN link ELSE [link EXCEPT ![<<c, p>>] = new]
        /\ parentDraft' = [parentDraft EXCEPT ![c].review = "approved", ![c].parent = p]
    BY <1>9 DEF ApproveParent, LooksFor
  <2>2. (linked <=> link[<<c, p>>] # NoRow) /\ (p \in parent => p = phone)
    BY <1>5, <1>9
  <2> HIDE DEF c, phone, p, new, linked, found
  <2>3. /\ parentDraft' \in [Codes -> ParentDraft \cup {NoRow}] /\ parentDraft'[c] # NoRow
        /\ parentDraft'[c].review = "approved" /\ parentDraft'[c].phone = parentDraft[c].phone
        /\ parentDraft'[c].parent = p
        /\ \A e \in Codes : e # c => parentDraft'[e] = parentDraft[e]
    <3>1. PICK row : row = [parentDraft[c] EXCEPT !.review = "approved", !.parent = p]
      OBVIOUS
    <3>2. /\ row \in ParentDraft /\ row.review = "approved" /\ row.parent = p
          /\ row.phone = parentDraft[c].phone
      BY <1>4, <1>6, <3>1 DEF ParentDraft
    <3>3. parentDraft' = [parentDraft EXCEPT ![c] = row]
      BY <2>1, <3>1 DEF RosterInv, RowsInv, RowsTyped
    <3>4. QED
      BY <1>2, <3>2, <3>3, NoRowIsNoRow DEF RosterInv, RowsInv, RowsTyped
  <2>4. /\ link' \in [Codes \X Parents -> Link \cup {NoRow}] /\ link'[<<c, p>>] # NoRow
        /\ \A l \in Codes \X Parents : l # <<c, p>> => link'[l] = link[l]
        /\ link[<<c, p>>] # NoRow => link' = link
        /\ link[<<c, p>>] = NoRow => link'[<<c, p>>] = new
    BY <1>2, <1>6, <1>7, <2>1, <2>2 DEF RosterInv, RowsInv, RowsTyped
  <2>5. \A e \in Codes : Primaries(e)' = Primaries(e)
    <3>1. \A l \in Codes \X Parents :
              (link'[l] # NoRow /\ link'[l].primary) <=> (link[l] # NoRow /\ link[l].primary)
      BY <1>7, <2>4
    <3>2. QED
      BY <3>1 DEF Primaries
  <2>6. RowsStay
    BY <1>3, <2>1, <2>3, <2>4 DEF RowsStay
  <2>7. DisturbsOnly({})
    BY <1>3, <2>5 DEF DisturbsOnly, Enrolled, OnRoster
  <2>8. RequestsInv'
    BY <1>2, <1>3, <2>6, <2>7, EndKeepsRequests
  <2>9. RowsTyped'
    BY <1>3, <1>6, <2>1, <2>3, <2>4 DEF RosterInv, RowsInv, RowsTyped
  <2>10. RowsBehindRows'
    <3>1. \A e \in Codes, q \in Parents : link'[<<e, q>>] # NoRow => q \in parent'
      BY <2>1, <2>4 DEF RosterInv, RowsInv, RowsBehindRows
    <3>2. ASSUME NEW e \in Codes, NEW q \in Parents, link'[<<e, q>>] # NoRow,
                 link'[<<e, q>>].by = "draft"
          PROVE  parentDraft'[e] # NoRow /\ q \in {parentDraft'[e].phone, Unknown}
      <4>1. CASE e = c /\ q = p
        BY <1>6, <2>3, <4>1 DEF phone
      <4>2. CASE ~(e = c /\ q = p)
        <5>1. link'[<<e, q>>] = link[<<e, q>>]
          BY <2>4, <4>2
        <5>2. QED
          BY <2>3, <3>2, <5>1 DEF RosterInv, RowsInv, RowsBehindRows
      <4>3. QED
        BY <4>1, <4>2
    <3>3. QED
      BY <1>2, <1>3, <1>4, <2>3, <3>1, <3>2 DEF RosterInv, RowsInv, RowsBehindRows
  <2>11. ApprovalIsWhole'
    <3>1. ASSUME NEW e \in Codes, parentDraft'[e] # NoRow, parentDraft'[e].review = "approved"
          PROVE  parentDraft'[e].parent \in parent' /\ link'[<<e, parentDraft'[e].parent>>] # NoRow
      <4>1. CASE e = c
        BY <2>1, <2>3, <2>4, <4>1
      <4>2. CASE e # c
        <5>1. /\ parentDraft'[e] = parentDraft[e]
              /\ parentDraft[e].parent \in parent
              /\ link[<<e, parentDraft[e].parent>>] # NoRow
          BY <2>3, <3>1, <4>2 DEF RosterInv, RowsInv, ApprovalIsWhole
        <5>2. QED
          BY <2>1, <2>4, <4>2, <5>1 DEF RosterInv, RowsInv, RowsTyped
      <4>3. QED
        BY <4>1, <4>2
    <3>2. QED
      BY <1>3, <3>1 DEF RosterInv, RowsInv, ApprovalIsWhole
  <2>12. FamiliesStayApart'
    <3>0. \A e \in Codes : parentDraft'[e].phone = parentDraft[e].phone
      BY <2>3
    <3> SUFFICES ASSUME NEW e \in Codes, NEW f \in Codes, NEW q \in Parents, e # f,
                        link'[<<e, q>>] # NoRow, link'[<<f, q>>] # NoRow,
                        link'[<<e, q>>].by = "draft", link'[<<f, q>>].by = "draft"
                 PROVE  q = parentDraft[e].phone /\ q = parentDraft[f].phone
      BY <3>0 DEF FamiliesStayApart
    <3>1. CASE link' = link
      BY <3>1 DEF RosterInv, RowsInv, FamiliesStayApart
    <3>2. CASE link' # link /\ q # p
      BY <2>4, <3>2 DEF RosterInv, RowsInv, FamiliesStayApart
    <3>3. CASE link' # link /\ q = p
      <4>1. ASSUME NEW g \in Codes, g # c, link'[<<g, p>>] # NoRow, link'[<<g, p>>].by = "draft"
            PROVE  p = phone /\ p = parentDraft[g].phone
        <5>1. link[<<g, p>>] # NoRow /\ link[<<g, p>>].by = "draft"
          BY <1>6, <2>4, <4>1
        <5>2. p \in parent /\ p \in {parentDraft[g].phone, Unknown}
          BY <1>6, <5>1 DEF RosterInv, RowsInv, RowsBehindRows
        <5>3. QED
          BY <1>6, <2>2, <5>2
      <4>2. CASE e = c
        BY <3>3, <4>1, <4>2 DEF phone
      <4>3. CASE f = c
        BY <3>3, <4>1, <4>3 DEF phone
      <4>4. CASE e # c /\ f # c
        BY <3>3, <4>1, <4>4
      <4>5. QED
        BY <4>2, <4>3, <4>4
    <3>4. QED
      BY <3>1, <3>2, <3>3
  <2>13. DraftGivesOneStudent' /\ OnePrimary'
    BY <1>3, <2>5 DEF RosterInv, RowsInv, DraftGivesOneStudent, OnePrimary
  <2>14. QED
    BY <2>8, <2>9, <2>10, <2>11, <2>12, <2>13 DEF RosterInv, RowsInv
<1>10. QED
  BY <1>8, <1>9

-------------------------------------------------------------------------------
\* The desk.

\* A student is added where there was none.
LEMMA NewStudentKeepsRows ==
    ASSUME RosterInv, NEW c \in Codes, student[c] = NoRow,
           student' = [student EXCEPT ![c] = NewStudent(NoRow)],
           raced \subseteq raced', raced' \subseteq raced \cup {c},
           UNCHANGED <<enrolment, draft, parentDraft, parent, link, reopened>>
    PROVE  RowsInv' /\ RowsStay /\ DisturbsOnly({})
<1>1. /\ NewStudent(NoRow) \in Student /\ NewStudent(NoRow) # NoRow
      /\ NewStudent(NoRow).by = NoRow
  BY NewIsStudent
<1>2. /\ student' \in [Codes -> Student \cup {NoRow}] /\ student'[c] # NoRow
      /\ student'[c].by \notin Drafts
      /\ \A e \in Codes : e # c => student'[e] = student[e]
  BY <1>1, RosterAssumption DEF RosterInv, RowsInv, RowsTyped
<1>3. RowsTyped' /\ RowsBehindRows'
  BY <1>2 DEF RosterInv, RowsInv, RowsTyped, RowsBehindRows
<1>4. ApprovalIsWhole'
  <2>1. \A d \in Drafts : draft[d] # NoRow /\ draft[d].review = "approved" =>
            /\ draft[d].student \in Codes \ {c}
            /\ draft[d].student # NoRow
            /\ student[draft[d].student] # NoRow /\ student[draft[d].student].by = d
    BY DEF RosterInv, RowsInv, RowsTyped, ApprovalIsWhole, Draft
  <2>2. QED
    BY <1>2, <2>1 DEF RosterInv, RowsInv, ApprovalIsWhole
<1>5. DraftGivesOneStudent' /\ FamiliesStayApart' /\ OnePrimary'
  BY <1>2 DEF RosterInv, RowsInv, DraftGivesOneStudent, FamiliesStayApart, OnePrimary, Primaries
<1>6. RowsStay /\ DisturbsOnly({})
  BY <1>2 DEF RowsStay, DisturbsOnly, Enrolled, OnRoster, Primaries
<1>7. QED
  BY <1>3, <1>4, <1>5, <1>6 DEF RowsInv

LEMMA CreateStudentStep ==
    ASSUME RosterInv, NEW a \in Admins, CreateStudent(a)
    PROVE  RosterInv'
<1> DEFINE c == request[a].on
<1>1. request[a] \in Request /\ request[a].op = "create"
  BY DEF CreateStudent, Serves, RosterInv, RequestsInv
<1>2. c \in Codes /\ request[a] # Idle
  BY <1>1, RequestFields, IdleIsNone
<1>3. End(a) /\ UNCHANGED <<enrolment, draft, parentDraft, parent, link, raced, reopened>>
  BY DEF CreateStudent, End
<1>4. RowsInv' /\ RowsStay /\ DisturbsOnly({})
  <2>1. CASE student[c] = NoRow
    <3>1. student' = [student EXCEPT ![c] = NewStudent(NoRow)]
      BY <2>1 DEF CreateStudent
    <3> HIDE DEF c
    <3>2. QED
      BY <1>2, <1>3, <2>1, <3>1, NewStudentKeepsRows
  <2>2. CASE student[c] # NoRow
    <3>1. student' = student
      BY <2>2 DEF CreateStudent
    <3>2. RowsStay /\ DisturbsOnly({})
      BY <1>3, <3>1 DEF RowsStay, DisturbsOnly, Enrolled, OnRoster, Primaries
    <3>3. QED
      BY <1>3, <3>1, <3>2 DEF RosterInv, RowsInv, RowsTyped, RowsBehindRows, ApprovalIsWhole,
         DraftGivesOneStudent, FamiliesStayApart, OnePrimary, Primaries
  <2>3. QED
    BY <2>1, <2>2
<1>5. RequestsInv'
  BY <1>2, <1>3, <1>4, EndKeepsRequests
<1>6. QED
  BY <1>4, <1>5 DEF RosterInv

LEMMA ImportStudentStep ==
    ASSUME RosterInv, NEW a \in Admins, NEW c \in Codes, NEW p \in Phones \cup {Placeholder},
           ImportStudent(a, c, p)
    PROVE  RosterInv'
<1> DEFINE req == [op |-> "import", on |-> c, parent |-> p]
<1>1. req \in Request /\ req # Idle /\ req.on = c /\ req.op = "import"
  BY DEF Request, Idle
<1>2. /\ student[c] = NoRow /\ request[a] = Idle
      /\ student' = [student EXCEPT ![c] = NewStudent(NoRow)]
      /\ request' = [request EXCEPT ![a] = req]
      /\ raced \subseteq raced' /\ raced' \subseteq raced \cup {c}
      /\ \A b \in Admins : request[b] # Idle /\ request[b].on = c => c \in raced'
      /\ UNCHANGED <<enrolment, draft, parentDraft, parent, link, reopened>>
  BY DEF ImportStudent, Overlaps, InFlight
<1> HIDE DEF req
<1>3. RowsInv' /\ RowsStay /\ DisturbsOnly({})
  BY <1>2, NewStudentKeepsRows
<1>4. request' \in [Admins -> Request]
  BY <1>1, <1>2 DEF RosterInv, RequestsInv
<1>5. OneAtATime'
  <2> SUFFICES ASSUME NEW b \in Admins, NEW e \in Admins, b # e, request'[b] # Idle,
                      request'[e] # Idle, request'[b].on = request'[e].on
               PROVE  request'[b].on \in raced'
    BY DEF OneAtATime
  <2>1. CASE b = a
    BY <1>1, <1>2, <2>1 DEF RosterInv, RequestsInv
  <2>2. CASE e = a
    BY <1>1, <1>2, <2>2 DEF RosterInv, RequestsInv
  <2>3. CASE b # a /\ e # a
    BY <1>2, <2>3 DEF RosterInv, RequestsInv, OneAtATime
  <2>4. QED
    BY <2>1, <2>2, <2>3
<1>6. ASSUME NEW b \in Admins PROVE Grounded(request[b])'
  <2>1. \A r \in Request : Grounded(r) => Grounded(r)'
    BY <1>3, GroundedStays DEF RosterInv
  <2>2. Grounded(req)
    BY <1>1 DEF Grounded, ReviewGrounded, DeskGrounded, LinkGrounded
  <2>3. request'[b] \in Request /\ Grounded(request'[b])
    BY <1>2, <1>4, <2>2 DEF RosterInv, RequestsInv
  <2>4. QED
    BY <2>1, <2>3
<1>7. QED
  BY <1>3, <1>4, <1>5, <1>6 DEF RosterInv, RequestsInv

LEMMA ImportParentStep ==
    ASSUME RosterInv, NEW a \in Admins, ImportParent(a)
    PROVE  RosterInv'
<1>1. request[a] \in Request /\ request[a].op = "import"
  BY DEF ImportParent, Serves, RosterInv, RequestsInv
<1>2. request[a].parent \in Parents /\ request[a] # Idle
  BY <1>1, RequestFields, IdleIsNone DEF Parents
<1>3. /\ parent' = parent \cup {request[a].parent} /\ End(a)
      /\ UNCHANGED <<student, enrolment, draft, parentDraft, link, raced, reopened>>
  BY DEF ImportParent, End
<1>4. RowsStay /\ DisturbsOnly({})
  BY <1>3 DEF RowsStay, DisturbsOnly, Enrolled, OnRoster, Primaries
<1>5. RequestsInv'
  BY <1>2, <1>3, <1>4, EndKeepsRequests
<1>6. RowsTyped' /\ RowsBehindRows' /\ ApprovalIsWhole'
  BY <1>2, <1>3 DEF RosterInv, RowsInv, RowsTyped, RowsBehindRows, ApprovalIsWhole
<1>7. DraftGivesOneStudent' /\ FamiliesStayApart' /\ OnePrimary'
  BY <1>3 DEF RosterInv, RowsInv, DraftGivesOneStudent, FamiliesStayApart, OnePrimary, Primaries
<1>8. QED
  BY <1>5, <1>6, <1>7 DEF RosterInv, RowsInv

\* A student row changes its status, and is deleted only if the request says so.
LEMMA ChangedStudentKeepsRows ==
    ASSUME RosterInv, NEW c \in Codes, student[c] # NoRow, NEW row \in Student,
           row.by = student[c].by, student' = [student EXCEPT ![c] = row],
           UNCHANGED <<enrolment, draft, parentDraft, parent, link, raced, reopened>>
    PROVE  RowsInv' /\ RowsStay
<1>1. row # NoRow
  BY NoRowIsNoRow
<1>2. /\ student' \in [Codes -> Student \cup {NoRow}]
      /\ \A e \in Codes : student'[e] # NoRow <=> student[e] # NoRow
      /\ \A e \in Codes : student[e] # NoRow => student'[e].by = student[e].by
      /\ \A e \in Codes : e # c => student'[e] = student[e]
  BY <1>1 DEF RosterInv, RowsInv, RowsTyped
<1>3. RowsTyped' /\ RowsBehindRows'
  BY <1>2 DEF RosterInv, RowsInv, RowsTyped, RowsBehindRows
<1>4. ApprovalIsWhole'
  <2>1. \A d \in Drafts : draft[d] # NoRow /\ draft[d].review = "approved" =>
            /\ draft[d].student \in Codes
            /\ draft[d].student # NoRow
            /\ student[draft[d].student] # NoRow /\ student[draft[d].student].by = d
    BY DEF RosterInv, RowsInv, RowsTyped, ApprovalIsWhole, Draft
  <2>2. QED
    BY <1>2, <2>1 DEF RosterInv, RowsInv, ApprovalIsWhole
<1>5. DraftGivesOneStudent' /\ FamiliesStayApart' /\ OnePrimary'
  BY <1>2 DEF RosterInv, RowsInv, DraftGivesOneStudent, FamiliesStayApart, OnePrimary, Primaries
<1>6. RowsStay
  BY <1>2 DEF RowsStay
<1>7. QED
  BY <1>3, <1>4, <1>5, <1>6 DEF RowsInv

LEMMA UpdateStudentStep ==
    ASSUME RosterInv, NEW a \in Admins, UpdateStudent(a)
    PROVE  RosterInv'
<1> DEFINE c == request[a].on
           row == [student[c] EXCEPT !.status = request[a].status]
<1>1. request[a] \in Request /\ request[a].op = "status" /\ Grounded(request[a])
  BY DEF UpdateStudent, Serves, RosterInv, RequestsInv
<1>2. c \in Codes /\ request[a] # Idle /\ request[a].status \in {"ACTIVE", "INACTIVE"}
  BY <1>1, RequestFields, IdleIsNone
<1>3. student[c] # NoRow /\ student[c] \in Student
  BY <1>1, <1>2 DEF RosterInv, RowsInv, RowsTyped, Grounded, DeskGrounded
<1>4. row \in Student /\ row.by = student[c].by /\ row.deleted = student[c].deleted
  BY <1>2, <1>3 DEF Student
<1>5. /\ student' = [student EXCEPT ![c] = row] /\ End(a)
      /\ UNCHANGED <<enrolment, draft, parentDraft, parent, link, raced, reopened>>
  BY DEF UpdateStudent, End
<1> HIDE DEF c, row
<1>6. RowsInv' /\ RowsStay
  BY <1>2, <1>3, <1>4, <1>5, ChangedStudentKeepsRows
<1>7. DisturbsOnly({})
  BY <1>2, <1>4, <1>5, NoRowIsNoRow DEF DisturbsOnly, Enrolled, OnRoster, Primaries,
     RosterInv, RowsInv, RowsTyped
<1>8. QED
  BY <1>2, <1>5, <1>6, <1>7, EndKeepsRequests DEF RosterInv

LEMMA DeleteStudentStep ==
    ASSUME RosterInv, NEW a \in Admins, DeleteStudent(a)
    PROVE  RosterInv'
<1> DEFINE c == request[a].on
           row == [student[c] EXCEPT !.deleted = TRUE, !.status = "INACTIVE"]
<1>1. request[a] \in Request /\ request[a].op = "delete" /\ Grounded(request[a])
  BY DEF DeleteStudent, Serves, RosterInv, RequestsInv
<1>2. c \in Codes /\ request[a] # Idle
  BY <1>1, RequestFields, IdleIsNone
<1>3. student[c] # NoRow /\ student[c] \in Student
  BY <1>1, <1>2 DEF RosterInv, RowsInv, RowsTyped, Grounded, DeskGrounded
<1>4. row \in Student /\ row.by = student[c].by
  BY <1>3 DEF Student
<1>5. /\ student' = [student EXCEPT ![c] = row] /\ End(a)
      /\ UNCHANGED <<enrolment, draft, parentDraft, parent, link, raced, reopened>>
  BY <1>2 DEF DeleteStudent, End, RosterInv, RowsInv, RowsTyped
<1> HIDE DEF row
<1>6. RowsInv' /\ RowsStay
  <2> HIDE DEF c
  <2>1. QED
    BY <1>2, <1>3, <1>4, <1>5, ChangedStudentKeepsRows
<1>7. DisturbsOnly({c})
  BY <1>5 DEF DisturbsOnly, Enrolled, OnRoster, Primaries, RosterInv, RowsInv, RowsTyped
<1>8. QED
  BY <1>2, <1>5, <1>6, <1>7, EndKeepsRequests DEF RosterInv

\* Rows other than enrolments are left alone: an enrolment belongs to no invariant of rows.
LEMMA EnrolmentKeepsRows ==
    ASSUME RosterInv, enrolment' \in [Codes \X Years -> EnrolmentStatus \cup {NoRow}],
           raced \subseteq raced', raced' \subseteq Drafts \cup Codes,
           reopened' \subseteq Codes,
           UNCHANGED <<student, draft, parentDraft, parent, link>>
    PROVE  RowsInv' /\ RowsStay
<1>1. RowsTyped' /\ RowsBehindRows' /\ ApprovalIsWhole'
  BY DEF RosterInv, RowsInv, RowsTyped, RowsBehindRows, ApprovalIsWhole
<1>2. DraftGivesOneStudent' /\ FamiliesStayApart' /\ OnePrimary'
  BY DEF RosterInv, RowsInv, DraftGivesOneStudent, FamiliesStayApart, OnePrimary, Primaries
<1>3. RowsStay
  BY DEF RowsStay
<1>4. QED
  BY <1>1, <1>2, <1>3 DEF RowsInv

LEMMA CreateEnrolmentStep ==
    ASSUME RosterInv, NEW a \in Admins, CreateEnrolment(a)
    PROVE  RosterInv'
<1> DEFINE c == request[a].on
           e == <<c, request[a].year>>
<1>1. request[a] \in Request /\ request[a].op = "enrol"
  BY DEF CreateEnrolment, Serves, RosterInv, RequestsInv
<1>2. c \in Codes /\ request[a] # Idle /\ e \in Codes \X Years
  BY <1>1, RequestFields, IdleIsNone
<1>3. /\ enrolment' = IF enrolment[e] # NoRow THEN enrolment
                      ELSE [enrolment EXCEPT ![e] = "ENROLLED"]
      /\ End(a) /\ UNCHANGED <<student, draft, parentDraft, parent, link, raced, reopened>>
  BY DEF CreateEnrolment, End
<1>4. /\ enrolment' \in [Codes \X Years -> EnrolmentStatus \cup {NoRow}]
      /\ \A l \in Codes \X Years : l # e => enrolment'[l] = enrolment[l]
  <2> HIDE DEF e
  <2>1. QED
    BY <1>2, <1>3 DEF RosterInv, RowsInv, RowsTyped, EnrolmentStatus
<1>5. RowsInv' /\ RowsStay
  BY <1>3, <1>4, EnrolmentKeepsRows DEF RosterInv, RowsInv, RowsTyped
<1>6. DisturbsOnly({c})
  BY <1>3, <1>4 DEF DisturbsOnly, Enrolled, OnRoster, Primaries
<1>7. QED
  BY <1>2, <1>3, <1>5, <1>6, EndKeepsRequests DEF RosterInv

LEMMA UpdateEnrolmentStep ==
    ASSUME RosterInv, NEW c \in Codes, NEW y \in Years, NEW s \in EnrolmentStatus,
           UpdateEnrolment(c, y, s)
    PROVE  RosterInv'
<1>1. /\ enrolment' = [enrolment EXCEPT ![<<c, y>>] = s]
      /\ raced \subseteq raced' /\ raced' \subseteq raced \cup {c}
      /\ reopened' \subseteq reopened \cup {c}
      /\ \A b \in Admins : request[b] # Idle /\ request[b].on = c => c \in raced'
      /\ UNCHANGED <<student, draft, parentDraft, parent, link, request>>
  BY DEF UpdateEnrolment, Overlaps, InFlight
<1>2. /\ enrolment' \in [Codes \X Years -> EnrolmentStatus \cup {NoRow}]
      /\ \A l \in Codes \X Years : l # <<c, y>> => enrolment'[l] = enrolment[l]
  BY <1>1 DEF RosterInv, RowsInv, RowsTyped
<1>3. RowsInv' /\ RowsStay
  BY <1>1, <1>2, EnrolmentKeepsRows DEF RosterInv, RowsInv, RowsTyped
<1>4. DisturbsOnly({c})
  BY <1>1, <1>2 DEF DisturbsOnly, Enrolled, OnRoster, Primaries
<1>5. RequestsInv'
  BY <1>1, <1>3, <1>4, OthersKeepRequests
<1>6. QED
  BY <1>3, <1>5 DEF RosterInv

-------------------------------------------------------------------------------
\* Parents.

LEMMA CreateParentStep ==
    ASSUME RosterInv, NEW p \in Parents, CreateParent(p)
    PROVE  RosterInv'
<1>1. /\ parent' = parent \cup {p}
      /\ UNCHANGED <<student, enrolment, draft, parentDraft, link, request, raced, reopened>>
  BY DEF CreateParent
<1>2. RowsStay /\ DisturbsOnly({})
  BY <1>1 DEF RowsStay, DisturbsOnly, Enrolled, OnRoster, Primaries
<1>3. RequestsInv'
  BY <1>1, <1>2, OthersKeepRequests
<1>4. RowsTyped' /\ RowsBehindRows' /\ ApprovalIsWhole'
  BY <1>1 DEF RosterInv, RowsInv, RowsTyped, RowsBehindRows, ApprovalIsWhole
<1>5. DraftGivesOneStudent' /\ FamiliesStayApart' /\ OnePrimary'
  BY <1>1 DEF RosterInv, RowsInv, DraftGivesOneStudent, FamiliesStayApart, OnePrimary, Primaries
<1>6. QED
  BY <1>3, <1>4, <1>5 DEF RosterInv, RowsInv

\* The new link may be primary, and then the others it saw are not: all there are,
\* unless the student is raced.
LEMMA LinkParentStep ==
    ASSUME RosterInv, NEW a \in Admins, LinkParent(a)
    PROVE  RosterInv'
<1> DEFINE c == request[a].on
           p == request[a].parent
           clears == request[a].clears
           new == [primary |-> request[a].primary, by |-> "desk"]
<1>1. request[a] \in Request /\ request[a].op = "link" /\ Grounded(request[a])
  BY DEF LinkParent, Serves, RosterInv, RequestsInv
<1>2. /\ c \in Codes /\ p \in Parents /\ request[a].primary \in BOOLEAN
      /\ clears \subseteq Parents /\ request[a] # Idle
  BY <1>1, RequestFields, IdleIsNone
<1>3. End(a) /\ UNCHANGED <<student, enrolment, draft, parentDraft, parent, raced, reopened>>
  BY DEF LinkParent, End
<1>4. /\ p \in parent /\ \A q \in clears : link[<<c, q>>] # NoRow
      /\ c \in raced \/ ~request[a].primary \/ Primaries(c) \subseteq clears
  BY <1>1 DEF Grounded, LinkGrounded
<1>5. new \in Link /\ new # NoRow /\ new.by = "desk" /\ new.primary = request[a].primary
  <2>1. new \in Link
    BY <1>2 DEF Link
  <2>2. QED
    BY <2>1, NoRowIsNoRow
<1>6. CASE link[<<c, p>>] # NoRow
  <2>1. UNCHANGED link
    BY <1>6 DEF LinkParent
  <2>2. RowsStay /\ DisturbsOnly({})
    BY <1>3, <2>1 DEF RowsStay, DisturbsOnly, Enrolled, OnRoster, Primaries
  <2>3. RequestsInv'
    BY <1>2, <1>3, <2>2, EndKeepsRequests
  <2>4. QED
    BY <1>3, <2>1, <2>3 DEF RosterInv, RowsInv, RowsTyped, RowsBehindRows, ApprovalIsWhole,
       DraftGivesOneStudent, FamiliesStayApart, OnePrimary, Primaries
<1>7. CASE link[<<c, p>>] = NoRow
  <2>1. link' = [l \in Codes \X Parents |->
                    IF l = <<c, p>> THEN new
                    ELSE IF l[1] = c /\ l[2] \in clears
                         THEN [link[l] EXCEPT !.primary = FALSE] ELSE link[l]]
    BY <1>7 DEF LinkParent
  <2> HIDE DEF c, p, clears, new
  <2>2. ASSUME NEW e \in Codes, NEW q \in Parents
        PROVE  /\ e = c /\ q = p => link'[<<e, q>>] = new
               /\ ~(e = c /\ q = p) /\ e = c /\ q \in clears =>
                      link'[<<e, q>>] = [link[<<e, q>>] EXCEPT !.primary = FALSE]
               /\ ~(e = c /\ q = p) /\ ~(e = c /\ q \in clears) =>
                      link'[<<e, q>>] = link[<<e, q>>]
    BY <2>1
  <2>3. ASSUME NEW q \in clears
        PROVE  LET row == [link[<<c, q>>] EXCEPT !.primary = FALSE] IN
               row \in Link /\ row # NoRow /\ ~row.primary /\ row.by = link[<<c, q>>].by
    <3>1. link[<<c, q>>] \in Link
      BY <1>2, <1>4 DEF RosterInv, RowsInv, RowsTyped
    <3>2. [link[<<c, q>>] EXCEPT !.primary = FALSE] \in Link
      BY <3>1 DEF Link
    <3>3. QED
      BY <3>1, <3>2, NoRowIsNoRow DEF Link
  <2>4. ASSUME NEW e \in Codes, NEW q \in Parents
        PROVE  /\ link'[<<e, q>>] \in Link \cup {NoRow}
               /\ link[<<e, q>>] # NoRow => /\ link'[<<e, q>>] # NoRow
                                            /\ link'[<<e, q>>].by = link[<<e, q>>].by
               /\ link[<<e, q>>] = NoRow /\ link'[<<e, q>>] # NoRow =>
                      e = c /\ q = p /\ link'[<<e, q>>].by = "desk"
    <3>1. CASE e = c /\ q = p
      BY <1>5, <1>7, <2>2, <3>1
    <3>2. CASE ~(e = c /\ q = p) /\ e = c /\ q \in clears
      BY <1>4, <2>2, <2>3, <3>2
    <3>3. CASE ~(e = c /\ q = p) /\ ~(e = c /\ q \in clears)
      BY <2>2, <3>3 DEF RosterInv, RowsInv, RowsTyped
    <3>4. QED
      BY <3>1, <3>2, <3>3
  <2>5. link' \in [Codes \X Parents -> Link \cup {NoRow}]
    <3>1. link' = [l \in Codes \X Parents |-> link'[l]]
      BY <2>1
    <3>2. \A l \in Codes \X Parents : link'[l] \in Link \cup {NoRow}
      BY <2>4
    <3>3. QED
      BY <3>1, <3>2
  <2>6. \A e \in Codes : e # c => Primaries(e)' = Primaries(e)
    BY <2>2 DEF Primaries
  <2>7. RowsStay
    BY <1>3, <2>4 DEF RowsStay
  <2>8. DisturbsOnly({c})
    BY <1>3, <2>6 DEF DisturbsOnly, Enrolled, OnRoster
  <2>9. RequestsInv'
    BY <1>2, <1>3, <2>7, <2>8, EndKeepsRequests DEF c
  <2>10. RowsTyped' /\ RowsBehindRows'
    BY <1>3, <1>4, <2>4, <2>5 DEF RosterInv, RowsInv, RowsTyped, RowsBehindRows
  <2>11. ApprovalIsWhole'
    <3>1. ASSUME NEW e \in Codes, parentDraft[e] # NoRow, parentDraft[e].review = "approved"
          PROVE  link'[<<e, parentDraft[e].parent>>] # NoRow
      BY <2>4, <3>1 DEF RosterInv, RowsInv, RowsTyped, ApprovalIsWhole
    <3>2. QED
      BY <1>3, <3>1 DEF RosterInv, RowsInv, ApprovalIsWhole
  <2>12. FamiliesStayApart'
    <3> SUFFICES ASSUME NEW e \in Codes, NEW f \in Codes, NEW q \in Parents, e # f,
                        link'[<<e, q>>] # NoRow, link'[<<f, q>>] # NoRow,
                        link'[<<e, q>>].by = "draft", link'[<<f, q>>].by = "draft"
                 PROVE  q = parentDraft[e].phone /\ q = parentDraft[f].phone
      BY <1>3 DEF FamiliesStayApart
    <3>1. /\ link[<<e, q>>] # NoRow /\ link[<<e, q>>].by = "draft"
          /\ link[<<f, q>>] # NoRow /\ link[<<f, q>>].by = "draft"
      BY <2>4
    <3>2. QED
      BY <3>1 DEF RosterInv, RowsInv, FamiliesStayApart
  <2>13. OnePrimary'
    <3> SUFFICES ASSUME NEW e \in Codes \ raced, NEW q \in Primaries(e)', NEW r \in Primaries(e)'
                 PROVE  q = r
      BY <1>3 DEF OnePrimary
    <3>1. CASE e # c
      BY <2>6, <3>1 DEF RosterInv, RowsInv, OnePrimary
    <3>2. CASE e = c /\ new.primary
      <4>1. ASSUME NEW s \in Parents, s # p, link'[<<c, s>>] # NoRow, link'[<<c, s>>].primary
            PROVE  FALSE
        <5>1. CASE s \in clears
          BY <1>2, <2>2, <2>3, <4>1, <5>1
        <5>2. CASE s \notin clears
          <6>1. link'[<<c, s>>] = link[<<c, s>>]
            BY <1>2, <2>2, <4>1, <5>2
          <6>2. s \in Primaries(c)
            BY <4>1, <6>1 DEF Primaries
          <6>3. QED
            BY <1>4, <1>5, <3>2, <5>2, <6>2
        <5>3. QED
          BY <5>1, <5>2
      <4>2. QED
        BY <3>2, <4>1 DEF Primaries
    <3>3. CASE e = c /\ ~new.primary
      <4>1. \A s \in Parents : link'[<<c, s>>] # NoRow /\ link'[<<c, s>>].primary =>
                s \in Primaries(c)
        <5> SUFFICES ASSUME NEW s \in Parents, link'[<<c, s>>] # NoRow, link'[<<c, s>>].primary
                     PROVE  s \in Primaries(c)
          OBVIOUS
        <5>1. s # p /\ s \notin clears
          BY <1>2, <1>5, <2>2, <2>3, <3>3
        <5>2. link'[<<c, s>>] = link[<<c, s>>]
          BY <1>2, <2>2, <5>1
        <5>3. QED
          BY <5>2 DEF Primaries
      <4>2. QED
        BY <3>3, <4>1 DEF Primaries, RosterInv, RowsInv, OnePrimary
    <3>4. QED
      BY <3>1, <3>2, <3>3
  <2>14. DraftGivesOneStudent'
    BY <1>3 DEF RosterInv, RowsInv, DraftGivesOneStudent
  <2>15. QED
    BY <2>9, <2>10, <2>11, <2>12, <2>13, <2>14 DEF RosterInv, RowsInv
<1>8. QED
  BY <1>6, <1>7

LEMMA CrashStep ==
    ASSUME RosterInv, NEW a \in Admins, Crash(a)
    PROVE  RosterInv'
<1>1. End(a) /\ UNCHANGED <<student, enrolment, draft, parentDraft, parent, link, raced, reopened>>
  BY DEF Crash, End
<1>2. RowsStay /\ DisturbsOnly({})
  BY <1>1 DEF RowsStay, DisturbsOnly, Enrolled, OnRoster, Primaries
<1>3. RequestsInv'
  BY <1>1, <1>2, EndKeepsRequests DEF Crash
<1>4. QED
  BY <1>1, <1>3 DEF RosterInv, RowsInv, RowsTyped, RowsBehindRows, ApprovalIsWhole,
     DraftGivesOneStudent, FamiliesStayApart, OnePrimary, Primaries

-------------------------------------------------------------------------------
\* What a request reads when it begins is what it relies on.

LEMMA ReadForRejectionStep ==
    ASSUME RosterInv, NEW a \in Admins, NEW d \in Drafts, ReadForRejection(a, d)
    PROVE  RosterInv'
<1> DEFINE req == [op |-> "reject", on |-> d]
<1>1. req \in Request /\ req # Idle
  BY DEF Request, Idle
<1>2. Grounded(req) /\ Begin(a, req)
  BY DEF ReadForRejection, Pending, Grounded, ReviewGrounded, DeskGrounded, LinkGrounded
<1> HIDE DEF req
<1>3. QED
  BY <1>1, <1>2, BeginKeepsInv

LEMMA ReadsAreGrounded ==
    ASSUME RosterInv, NEW a \in Admins, NEW c \in Codes
    PROVE  /\ \A d \in Drafts, y \in Years \cup {NoRow} : ReadForApproval(a, d, c, y) => RosterInv'
           /\ ReadParentRejection(a, c) => RosterInv'
           /\ ReadForCreation(a, c) => RosterInv'
           /\ ReadForDeletion(a, c) => RosterInv'
           /\ \A s \in {"ACTIVE", "INACTIVE"} : ReadForStatus(a, c, s) => RosterInv'
           /\ \A y \in Years : ReadForEnrolment(a, c, y) => RosterInv'
<1> USE DEF Idle
<1>1. ASSUME NEW d \in Drafts, NEW y \in Years \cup {NoRow}, ReadForApproval(a, d, c, y)
      PROVE  RosterInv'
  <2> DEFINE req == [op |-> "approve", on |-> d, code |-> c, year |-> y]
  <2>1. req \in Request /\ req # Idle
    BY DEF Request
  <2>2. Grounded(req) /\ Begin(a, req)
    BY <1>1 DEF ReadForApproval, Pending, Grounded, ReviewGrounded, DeskGrounded, LinkGrounded
  <2> HIDE DEF req
  <2>3. QED
    BY <2>1, <2>2, BeginKeepsInv
<1>2. ASSUME ReadParentRejection(a, c) PROVE RosterInv'
  <2> DEFINE req == [op |-> "reject parent", on |-> c]
  <2>1. req \in Request /\ req # Idle
    BY DEF Request
  <2>2. Grounded(req) /\ Begin(a, req)
    BY <1>2 DEF ReadParentRejection, Pending, Grounded, ReviewGrounded, DeskGrounded,
       LinkGrounded
  <2> HIDE DEF req
  <2>3. QED
    BY <2>1, <2>2, BeginKeepsInv
<1>3. ASSUME ReadForCreation(a, c) PROVE RosterInv'
  <2> DEFINE req == [op |-> "create", on |-> c]
  <2>1. req \in Request /\ req # Idle
    BY DEF Request
  <2>2. Grounded(req) /\ Begin(a, req)
    BY <1>3 DEF ReadForCreation, Grounded, ReviewGrounded, DeskGrounded, LinkGrounded
  <2> HIDE DEF req
  <2>3. QED
    BY <2>1, <2>2, BeginKeepsInv
<1>4. ASSUME ReadForDeletion(a, c) PROVE RosterInv'
  <2> DEFINE req == [op |-> "delete", on |-> c]
  <2>1. req \in Request /\ req # Idle
    BY DEF Request
  <2>2. Grounded(req) /\ Begin(a, req)
    BY <1>4 DEF ReadForDeletion, OnRoster, Grounded, ReviewGrounded, DeskGrounded, LinkGrounded
  <2> HIDE DEF req
  <2>3. QED
    BY <2>1, <2>2, BeginKeepsInv
<1>5. ASSUME NEW s \in {"ACTIVE", "INACTIVE"}, ReadForStatus(a, c, s) PROVE RosterInv'
  <2> DEFINE req == [op |-> "status", on |-> c, status |-> s]
  <2>1. req \in Request /\ req # Idle
    BY DEF Request
  <2>2. Grounded(req) /\ Begin(a, req)
    BY <1>5 DEF ReadForStatus, OnRoster, Grounded, ReviewGrounded, DeskGrounded, LinkGrounded
  <2> HIDE DEF req
  <2>3. QED
    BY <2>1, <2>2, BeginKeepsInv
<1>6. ASSUME NEW y \in Years, ReadForEnrolment(a, c, y) PROVE RosterInv'
  <2> DEFINE req == [op |-> "enrol", on |-> c, year |-> y]
  <2>1. req \in Request /\ req # Idle
    BY DEF Request
  <2>2. Grounded(req) /\ Begin(a, req)
    BY <1>6 DEF ReadForEnrolment, OnRoster, Grounded, ReviewGrounded, DeskGrounded, LinkGrounded
  <2> HIDE DEF req
  <2>3. QED
    BY <2>1, <2>2, BeginKeepsInv
<1>7. QED
  BY <1>1, <1>2, <1>3, <1>4, <1>5, <1>6

LEMMA ReadParentDraftStep ==
    ASSUME RosterInv, NEW a \in Admins, NEW c \in Codes, ReadParentDraft(a, c)
    PROVE  RosterInv'
<1> DEFINE phone == parentDraft[c].phone
           found == phone \in parent
           linked == phone \in parent /\ link[<<c, phone>>] # NoRow
           req == [op |-> "approve parent", on |-> c, found |-> found, linked |-> linked]
<1>1. found \in BOOLEAN /\ linked \in BOOLEAN
  OBVIOUS
<1>2. parentDraft[c] # NoRow /\ Begin(a, req)
  BY DEF ReadParentDraft, Pending, LooksFor
<1>3. linked => found /\ link[<<c, phone>>] # NoRow
  OBVIOUS
<1>4. /\ req.op = "approve parent" /\ req.on = c /\ req.found = found /\ req.linked = linked
  OBVIOUS
<1>5. req \in Request /\ req # Idle
  <2> HIDE DEF found, linked
  <2>1. QED
    BY <1>1 DEF Request, Idle
<1> HIDE DEF req
<1>6. Grounded(req)
  BY <1>2, <1>3, <1>4 DEF Grounded, ReviewGrounded, DeskGrounded, LinkGrounded
<1>7. QED
  BY <1>2, <1>5, <1>6, BeginKeepsInv

LEMMA ReadForLinkStep ==
    ASSUME RosterInv, NEW a \in Admins, NEW c \in Codes, NEW p \in Parents, NEW b \in BOOLEAN,
           ReadForLink(a, c, p, b)
    PROVE  RosterInv'
<1> DEFINE clears == IF b THEN Primaries(c) ELSE {}
           req == [op |-> "link", on |-> c, parent |-> p, primary |-> b, clears |-> clears]
<1>1. clears \subseteq Parents /\ \A q \in clears : link[<<c, q>>] # NoRow
  BY DEF Primaries
<1>2. OnRoster(c) /\ p \in parent /\ Begin(a, req)
  BY DEF ReadForLink
<1>3. /\ req.op = "link" /\ req.on = c /\ req.parent = p /\ req.primary = b
      /\ req.clears = clears
  OBVIOUS
<1>4. b => Primaries(c) \subseteq clears
  OBVIOUS
<1>5. req \in Request /\ req # Idle
  <2> HIDE DEF clears
  <2>1. QED
    BY <1>1 DEF Request, Idle
<1> HIDE DEF req, clears
<1>6. Grounded(req)
  BY <1>1, <1>2, <1>3, <1>4 DEF Grounded, ReviewGrounded, DeskGrounded, LinkGrounded, OnRoster
<1>7. QED
  BY <1>2, <1>5, <1>6, BeginKeepsInv

-------------------------------------------------------------------------------
\* The roster.

LEMMA InitRosterInv == RosterInit => RosterInv
<1> SUFFICES ASSUME RosterInit PROVE RosterInv
  OBVIOUS
<1>1. RequestsInv
  <2>1. Idle \in Request
    BY DEF Idle, Request
  <2>2. QED
    BY <2>1 DEF RosterInit, RequestsInv, OneAtATime, Grounded, ReviewGrounded, DeskGrounded,
       LinkGrounded, Idle
<1>2. RowsTyped /\ RowsBehindRows
  BY DEF RosterInit, RowsTyped, RowsBehindRows
<1>3. ApprovalIsWhole /\ DraftGivesOneStudent
  BY DEF RosterInit, ApprovalIsWhole, DraftGivesOneStudent
<1>4. FamiliesStayApart /\ OnePrimary
  BY DEF RosterInit, FamiliesStayApart, OnePrimary, Primaries
<1>5. QED
  BY <1>1, <1>2, <1>3, <1>4 DEF RosterInv, RowsInv

LEMMA RosterStep == RosterInv /\ [RosterNext]_vars => RosterInv'
<1> SUFFICES ASSUME RosterInv, [RosterNext]_vars PROVE RosterInv'
  OBVIOUS
<1>1. CASE DraftNext
  BY <1>1, SubmitDraftStep, ReadForRejectionStep, ReadsAreGrounded, ApproveStudentStep,
     RejectStudentStep DEF DraftNext
<1>2. CASE ParentDraftNext
  BY <1>2, ReadParentDraftStep, ReadsAreGrounded, ApproveParentStep, RejectParentStep
     DEF ParentDraftNext
<1>3. CASE ParentNext
  BY <1>3, ReadForLinkStep, LinkParentStep, CreateParentStep DEF ParentNext
<1>4. CASE DeskNext
  BY <1>4, ReadsAreGrounded, CreateStudentStep, UpdateStudentStep, DeleteStudentStep,
     CreateEnrolmentStep, UpdateEnrolmentStep DEF DeskNext, ReadForPromotion
<1>5. CASE ImportNext
  BY <1>5, ImportStudentStep, ImportParentStep, CrashStep DEF ImportNext
<1>6. CASE UNCHANGED vars
  <2>1. UNCHANGED <<student, enrolment, draft, parentDraft, parent, link, request, raced, reopened>>
    BY <1>6 DEF vars
  <2>2. RowsStay /\ DisturbsOnly({})
    BY <2>1 DEF RowsStay, DisturbsOnly, Enrolled, OnRoster, Primaries
  <2>3. RequestsInv'
    BY <2>1, <2>2, OthersKeepRequests
  <2>4. QED
    BY <2>1, <2>3 DEF RosterInv, RowsInv, RowsTyped, RowsBehindRows, ApprovalIsWhole,
       DraftGivesOneStudent, FamiliesStayApart, OnePrimary, Primaries
<1>7. QED
  BY <1>1, <1>2, <1>3, <1>4, <1>5, <1>6 DEF RosterNext

LEMMA AlwaysRosterInv == RosterSpec => []RosterInv
<1>1. QED
  BY InitRosterInv, RosterStep, PTL DEF RosterSpec

\* What a review approved is there in whole, and what reviews made was approved once,
\* whatever reviews, imports and desk requests overlap and however many admins there are.
THEOREM ReviewsStayExact == RosterSpec => []ReviewsAreExact
<1>1. RosterInv => ReviewsAreExact
  BY DEF RosterInv, RowsInv, ReviewsAreExact
<1>2. QED
  BY <1>1, AlwaysRosterInv, PTL

\* Reviews merge two families only at a parent whose phone both drafts gave, whatever the
\* desk entered, and a student has one primary parent unless two requests about it
\* overlapped.
THEOREM FamiliesStayLinked == RosterSpec => []FamilyLinks
<1>1. RosterInv => FamilyLinks
  BY DEF RosterInv, RequestsInv, RowsInv, RowsTyped, RosterTypeOK, FamilyLinks
<1>2. QED
  BY <1>1, AlwaysRosterInv, PTL

-------------------------------------------------------------------------------
\* Deletion and enrolment: what a step may do to a student that neither raced nor had an
\* enrolment reopened.
Excluded(c) == student[c] # NoRow /\ student[c].deleted => ~Enrolled(c)

LEMMA BystandersExclude ==
    ASSUME NEW c \in Codes, UNCHANGED <<student, enrolment>>, Excluded(c)
    PROVE  Excluded(c)'
  BY DEF Excluded, Enrolled

\* A new student is not deleted, and the others and their enrolments are left alone.
LEMMA NewcomersExclude ==
    ASSUME RosterInv, NEW c \in Codes, NEW e \in Codes, NEW d \in Drafts \cup {NoRow},
           student[e] = NoRow, student' = [student EXCEPT ![e] = NewStudent(d)],
           \A f \in Codes, y \in Years : f # e => enrolment'[<<f, y>>] = enrolment[<<f, y>>],
           Excluded(c)
    PROVE  Excluded(c)'
<1>1. student'[e] = NewStudent(d) /\ \A f \in Codes : f # e => student'[f] = student[f]
  BY DEF RosterInv, RowsInv, RowsTyped
<1>2. CASE c = e
  BY <1>1, <1>2, NewIsStudent DEF Excluded
<1>3. CASE c # e
  BY <1>1, <1>3 DEF Excluded, Enrolled
<1>4. QED
  BY <1>2, <1>3

LEMMA ReviewsExclude ==
    ASSUME RosterInv, DraftNext \/ ParentDraftNext, NEW c \in Codes, Excluded(c)
    PROVE  Excluded(c)'
<1>1. ASSUME NEW a \in Admins, ApproveStudent(a) PROVE Excluded(c)'
  <2> DEFINE d == request[a].on
             e == request[a].code
  <2>1. CASE student[e] # NoRow
    BY <1>1, <2>1, BystandersExclude DEF ApproveStudent, CodeTaken
  <2>2. CASE student[e] = NoRow
    <3>1. d \in Drafts /\ e \in Codes
      BY <1>1, RequestFields DEF ApproveStudent, Serves, RosterInv, RequestsInv
    <3>2. student' = [student EXCEPT ![e] = NewStudent(d)]
      BY <1>1, <2>2 DEF ApproveStudent, CodeTaken
    <3>3. \A f \in Codes, y \in Years : f # e => enrolment'[<<f, y>>] = enrolment[<<f, y>>]
      BY <1>1, <2>2 DEF ApproveStudent, CodeTaken
    <3> HIDE DEF d, e
    <3>4. QED
      BY <2>2, <3>1, <3>2, <3>3, NewcomersExclude
  <2>3. QED
    BY <2>1, <2>2
<1>2. CASE DraftNext /\ ~\E a \in Admins : ApproveStudent(a)
  <2>1. UNCHANGED <<student, enrolment>>
    BY <1>2 DEF DraftNext, SubmitDraft, ReadForRejection, ReadForApproval, Begin, RejectStudent
  <2>2. QED
    BY <2>1, BystandersExclude
<1>3. CASE ParentDraftNext
  <2>1. UNCHANGED <<student, enrolment>>
    BY <1>3 DEF ParentDraftNext, ReadParentDraft, ReadParentRejection, Begin, ApproveParent,
       RejectParent
  <2>2. QED
    BY <2>1, BystandersExclude
<1>4. QED
  BY <1>1, <1>2, <1>3

LEMMA ParentsExclude ==
    ASSUME RosterInv, ParentNext \/ ImportNext, NEW c \in Codes, Excluded(c)
    PROVE  Excluded(c)'
<1>1. ASSUME NEW a \in Admins, NEW e \in Codes, NEW p \in Phones \cup {Placeholder},
             ImportStudent(a, e, p)
      PROVE  Excluded(c)'
  <2>1. /\ student[e] = NoRow /\ student' = [student EXCEPT ![e] = NewStudent(NoRow)]
        /\ enrolment' = enrolment
    BY <1>1 DEF ImportStudent
  <2>2. QED
    BY <2>1, NewcomersExclude
<1>2. CASE ParentNext
  <2>1. UNCHANGED <<student, enrolment>>
    BY <1>2 DEF ParentNext, ReadForLink, Begin, LinkParent, CreateParent
  <2>2. QED
    BY <2>1, BystandersExclude
<1>3. ASSUME NEW a \in Admins, ImportParent(a) \/ Crash(a) PROVE Excluded(c)'
  <2>1. UNCHANGED <<student, enrolment>>
    BY <1>3 DEF ImportParent, Crash
  <2>2. QED
    BY <2>1, BystandersExclude
<1>4. QED
  BY <1>1, <1>2, <1>3 DEF ImportNext

\* A deletion found no enrolment and an enrolment found the student on the roster, and
\* unless they raced this is still so.
LEMMA DeskExcludes ==
    ASSUME RosterInv, DeskNext, NEW c \in Codes, c \notin raced, c \notin reopened', Excluded(c)
    PROVE  Excluded(c)'
<1>1. ASSUME NEW a \in Admins, CreateStudent(a) PROVE Excluded(c)'
  <2> DEFINE e == request[a].on
  <2>1. CASE student[e] # NoRow
    BY <1>1, <2>1, BystandersExclude DEF CreateStudent
  <2>2. CASE student[e] = NoRow
    <3>1. e \in Codes
      BY <1>1, RequestFields DEF CreateStudent, Serves, RosterInv, RequestsInv
    <3>2. student' = [student EXCEPT ![e] = NewStudent(NoRow)] /\ enrolment' = enrolment
      BY <1>1, <2>2 DEF CreateStudent
    <3> HIDE DEF e
    <3>3. QED
      BY <2>2, <3>1, <3>2, NewcomersExclude
  <2>3. QED
    BY <2>1, <2>2
<1>2. ASSUME NEW a \in Admins, UpdateStudent(a) PROVE Excluded(c)'
  <2>1. student'[c] # NoRow =>
            student[c] # NoRow /\ student'[c].deleted = student[c].deleted
    <3>1. CASE request[a].on = c
      <4> DEFINE row == [student[c] EXCEPT !.status = request[a].status]
      <4>1. student'[c] = row
        BY <1>2, <3>1 DEF UpdateStudent, RosterInv, RowsInv, RowsTyped
      <4>2. request[a] \in Request /\ request[a].op = "status" /\ Grounded(request[a])
        BY <1>2 DEF UpdateStudent, Serves, RosterInv, RequestsInv
      <4>3. student[c] # NoRow /\ student[c] \in Student
        BY <3>1, <4>2 DEF Grounded, DeskGrounded, RosterInv, RowsInv, RowsTyped
      <4>4. request[a].status \in {"ACTIVE", "INACTIVE"}
        BY <4>2, RequestFields
      <4>5. row.deleted = student[c].deleted
        BY <4>3, <4>4 DEF Student
      <4> HIDE DEF row
      <4>6. QED
        BY <4>1, <4>3, <4>5
    <3>2. CASE request[a].on # c
      BY <1>2, <3>2 DEF UpdateStudent, RosterInv, RowsInv, RowsTyped
    <3>3. QED
      BY <3>1, <3>2
  <2>2. enrolment' = enrolment
    BY <1>2 DEF UpdateStudent
  <2>3. QED
    BY <2>1, <2>2 DEF Excluded, Enrolled
<1>3. ASSUME NEW a \in Admins, DeleteStudent(a) PROVE Excluded(c)'
  <2>1. enrolment' = enrolment
    BY <1>3 DEF DeleteStudent
  <2>2. CASE request[a].on = c
    <3>1. ~Enrolled(c)
      BY <1>3, <2>2 DEF DeleteStudent, Serves, RosterInv, RequestsInv, Grounded, DeskGrounded
    <3>2. QED
      BY <2>1, <3>1 DEF Excluded, Enrolled
  <2>3. CASE request[a].on # c
    <3>1. student'[c] = student[c]
      BY <1>3, <2>3 DEF DeleteStudent, RosterInv, RowsInv, RowsTyped
    <3>2. QED
      BY <2>1, <3>1 DEF Excluded, Enrolled
  <2>4. QED
    BY <2>2, <2>3
<1>4. ASSUME NEW a \in Admins, CreateEnrolment(a) PROVE Excluded(c)'
  <2>1. student' = student
    BY <1>4 DEF CreateEnrolment
  <2>2. CASE request[a].on = c
    <3>1. OnRoster(c)
      BY <1>4, <2>2 DEF CreateEnrolment, Serves, RosterInv, RequestsInv, Grounded, DeskGrounded
    <3>2. QED
      BY <2>1, <3>1 DEF Excluded, OnRoster
  <2>3. CASE request[a].on # c
    <3>1. \A y \in Years : enrolment'[<<c, y>>] = enrolment[<<c, y>>]
      BY <1>4, <2>3 DEF CreateEnrolment, RosterInv, RowsInv, RowsTyped
    <3>2. QED
      BY <2>1, <3>1 DEF Excluded, Enrolled
  <2>4. QED
    BY <2>2, <2>3
<1>5. ASSUME NEW e \in Codes, NEW y \in Years, NEW s \in EnrolmentStatus,
             UpdateEnrolment(e, y, s)
      PROVE  Excluded(c)'
  <2>1. /\ student' = student /\ enrolment' = [enrolment EXCEPT ![<<e, y>>] = s]
        /\ Reopens(e, s) => e \in reopened'
    BY <1>5 DEF UpdateEnrolment
  <2>2. CASE e # c
    <3>1. \A z \in Years : enrolment'[<<c, z>>] = enrolment[<<c, z>>]
      BY <2>1, <2>2 DEF RosterInv, RowsInv, RowsTyped
    <3>2. QED
      BY <2>1, <3>1 DEF Excluded, Enrolled
  <2>3. CASE e = c /\ OnRoster(c)
    BY <2>1, <2>3 DEF Excluded, OnRoster
  <2>4. CASE e = c /\ ~OnRoster(c)
    <3>1. s # "ENROLLED"
      BY <2>1, <2>4 DEF Reopens
    <3>2. \A z \in Years : enrolment'[<<c, z>>] = "ENROLLED" => enrolment[<<c, z>>] = "ENROLLED"
      BY <2>1, <2>4, <3>1 DEF RosterInv, RowsInv, RowsTyped
    <3>3. QED
      BY <2>1, <3>2 DEF Excluded, Enrolled
  <2>5. QED
    BY <2>2, <2>3, <2>4
<1>6. ASSUME NEW a \in Admins, NEW e \in Codes,
             \/ ReadForCreation(a, e) \/ ReadForDeletion(a, e)
             \/ \E s \in {"ACTIVE", "INACTIVE"} : ReadForStatus(a, e, s)
             \/ \E y \in Years : ReadForEnrolment(a, e, y)
      PROVE  Excluded(c)'
  <2>1. UNCHANGED <<student, enrolment>>
    BY <1>6 DEF ReadForCreation, ReadForDeletion, ReadForStatus, ReadForEnrolment, Begin
  <2>2. QED
    BY <2>1, BystandersExclude
<1>7. QED
  BY <1>1, <1>2, <1>3, <1>4, <1>5, <1>6 DEF DeskNext, ReadForPromotion

\* What raced and what was reopened is not forgotten.
LEMMA HistoryGrows ==
    ASSUME [RosterNext]_vars
    PROVE  raced \subseteq raced' /\ reopened \subseteq reopened'
<1>1. CASE DraftNext
  BY <1>1 DEF DraftNext, SubmitDraft, ReadForRejection, ReadForApproval, Begin, Overlaps,
     ApproveStudent, RejectStudent, End
<1>2. CASE ParentDraftNext
  BY <1>2 DEF ParentDraftNext, ReadParentDraft, ReadParentRejection, Begin, Overlaps,
     ApproveParent, RejectParent, End
<1>3. CASE ParentNext
  BY <1>3 DEF ParentNext, ReadForLink, Begin, Overlaps, LinkParent, End, CreateParent
<1>4. CASE DeskNext
  <2>1. ASSUME NEW a \in Admins, NEW req, Begin(a, req)
        PROVE  raced \subseteq raced' /\ reopened' = reopened
    BY <2>1 DEF Begin, Overlaps
  <2>2. ASSUME NEW c \in Codes, NEW y \in Years, NEW s \in EnrolmentStatus,
               UpdateEnrolment(c, y, s)
        PROVE  raced \subseteq raced' /\ reopened \subseteq reopened'
    BY <2>2 DEF UpdateEnrolment, Overlaps
  <2>3. ASSUME NEW a \in Admins,
               CreateStudent(a) \/ UpdateStudent(a) \/ DeleteStudent(a) \/ CreateEnrolment(a)
        PROVE  raced' = raced /\ reopened' = reopened
    BY <2>3 DEF CreateStudent, UpdateStudent, DeleteStudent, CreateEnrolment, End
  <2>4. ASSUME NEW a \in Admins, NEW c \in Codes,
               \/ ReadForCreation(a, c) \/ ReadForDeletion(a, c)
               \/ \E s \in {"ACTIVE", "INACTIVE"} : ReadForStatus(a, c, s)
               \/ \E y \in Years : ReadForEnrolment(a, c, y)
        PROVE  \E req : Begin(a, req)
    BY <2>4 DEF ReadForCreation, ReadForDeletion, ReadForStatus, ReadForEnrolment
  <2>5. QED
    BY <1>4, <2>1, <2>2, <2>3, <2>4 DEF DeskNext, ReadForPromotion
<1>5. CASE ImportNext
  BY <1>5 DEF ImportNext, ImportStudent, Overlaps, ImportParent, Crash, End
<1>6. CASE UNCHANGED vars
  BY <1>6 DEF vars
<1>7. QED
  BY <1>1, <1>2, <1>3, <1>4, <1>5, <1>6 DEF RosterNext

\* A deleted student is not enrolled by any order of enrolments, promotions and approvals,
\* unless two requests about it overlapped or a PUT reopened an enrolment afterwards.
THEOREM DeletionExcludesEnrolment == RosterSpec => []DeleteAndEnrolExclude
<1>1. RosterInit => DeleteAndEnrolExclude
  BY DEF RosterInit, DeleteAndEnrolExclude
<1>2. ASSUME RosterInv, DeleteAndEnrolExclude, [RosterNext]_vars PROVE DeleteAndEnrolExclude'
  <2> SUFFICES ASSUME NEW c \in Codes, c \notin raced', c \notin reopened'
               PROVE  Excluded(c)'
    BY DEF DeleteAndEnrolExclude, Excluded
  <2>1. c \notin raced /\ Excluded(c)
    BY <1>2, HistoryGrows DEF DeleteAndEnrolExclude, Excluded
  <2>2. CASE RosterNext
    BY <1>2, <2>1, <2>2, ReviewsExclude, ParentsExclude, DeskExcludes DEF RosterNext
  <2>3. CASE UNCHANGED vars
    BY <2>1, <2>3, BystandersExclude DEF vars
  <2>4. QED
    BY <1>2, <2>2, <2>3
<1>3. QED
  BY <1>1, <1>2, AlwaysRosterInv, PTL DEF RosterSpec

--------------------------------------------------------------------------------
(* Sums over finite sets.                                                     *)
\* A nonempty family of subsets of a finite set has a member that holds no other.
LEMMA LeastSubset ==
  ASSUME NEW D, IsFiniteSet(D), NEW T, T \subseteq SUBSET D, T # {}
  PROVE  \E s \in T : \A t \in T : t \subseteq s => t = s
<1> DEFINE R == StrictSubsetOrdering(D)
           F == FiniteSubsetsOf(D)
<1>1. T \subseteq F
  BY FS_Subset DEF FiniteSubsetsOf
<1>2. PICK s \in T : \A t \in T : ~(<<t, s>> \in R)
  <2>1. IsWellFoundedOn(R, F)
    BY FS_StrictSubsetOrderingWellFounded
  <2> HIDE DEF R, F
  <2>2. QED
    BY <1>1, <2>1, WFMin
<1>3. \A t \in T : t \subseteq s => t = s
  BY <1>2 DEF StrictSubsetOrdering
<1>4. QED
  BY <1>3

\* The step of a sum over s with running totals g.
First(s) == CHOOSE x \in s : TRUE
Adds(g, F, D) ==
    g = [s \in SUBSET D |-> IF s = {} THEN 0 ELSE F[First(s)] + g[s \ {First(s)}]]

LEMMA FirstIsIn ==
  ASSUME NEW s, s # {}
  PROVE  First(s) \in s
BY DEF First

LEMMA AddsStep ==
  ASSUME NEW D, NEW F, NEW g, Adds(g, F, D), NEW s \in SUBSET D
  PROVE  /\ s = {} => g[s] = 0
         /\ s # {} => g[s] = F[First(s)] + g[s \ {First(s)}]
<1>1. g = [t \in SUBSET D |-> IF t = {} THEN 0 ELSE F[First(t)] + g[t \ {First(t)}]]
  BY DEF Adds
<1>2. g[s] = IF s = {} THEN 0 ELSE F[First(s)] + g[s \ {First(s)}]
  BY <1>1, Zenon
<1>3. QED
  BY <1>2

LEMMA AddsUnique ==
  ASSUME NEW C, IsFiniteSet(C), NEW F, NEW g, NEW A, Adds(g, F, A), C \subseteq A,
         NEW h, NEW B, Adds(h, F, B), C \subseteq B
  PROVE  g[C] = h[C]
<1> DEFINE T == {s \in SUBSET C : g[s] # h[s]}
<1>1. SUFFICES ASSUME T # {} PROVE FALSE
  OBVIOUS
<1>2. PICK s \in T : \A t \in T : t \subseteq s => t = s
  <2>1. T \subseteq SUBSET C
    OBVIOUS
  <2> HIDE DEF T
  <2>2. QED
    BY <1>1, <2>1, LeastSubset
<1>3. s # {}
  BY <1>2, AddsStep
<1>4. First(s) \in s
  BY <1>3, FirstIsIn
<1>5. g[s \ {First(s)}] = h[s \ {First(s)}]
  BY <1>2, <1>4
<1>6. g[s] = F[First(s)] + g[s \ {First(s)}] /\ h[s] = F[First(s)] + h[s \ {First(s)}]
  BY <1>3, AddsStep
<1>7. QED
  BY <1>2, <1>5, <1>6

LEMMA AddsExists ==
  ASSUME NEW D, IsFiniteSet(D), NEW F, \A x \in D : F[x] \in Int
  PROVE  \E g \in [SUBSET D -> Int] : Adds(g, F, D)
<1> DEFINE Good(s, g) == g \in [SUBSET s -> Int] /\ Adds(g, F, s)
           T == {s \in SUBSET D : ~ \E g : Good(s, g)}
<1>1. SUFFICES ASSUME T # {} PROVE FALSE
  <2>1. D \notin T => \E g : Good(D, g)
    OBVIOUS
  <2>2. QED
    BY <2>1
<1>2. PICK s \in T : \A t \in T : t \subseteq s => t = s
  <2>1. T \subseteq SUBSET D
    OBVIOUS
  <2> HIDE DEF T
  <2>2. QED
    BY <1>1, <2>1, LeastSubset
<1> DEFINE G(t) == CHOOSE g : Good(t, g)
           V(t) == IF t = {} THEN 0 ELSE F[First(t)] + G(t \ {First(t)})[t \ {First(t)}]
           g == [t \in SUBSET s |-> V(t)]
<1>3. \A t \in SUBSET s : t # s => Good(t, G(t))
  <2> SUFFICES ASSUME NEW t \in SUBSET s, t # s PROVE \E h : Good(t, h)
    OBVIOUS
  <2>1. QED
    BY <1>2
<1>4. \A t \in SUBSET s : t # {} =>
          First(t) \in t /\ t \ {First(t)} \in SUBSET s /\ t \ {First(t)} # s
  BY FirstIsIn
<1>5. \A t \in SUBSET s : V(t) \in Int
  <2> SUFFICES ASSUME NEW t \in SUBSET s PROVE V(t) \in Int
    OBVIOUS
  <2>1. CASE t = {}
    BY <2>1
  <2>2. SUFFICES ASSUME t # {} PROVE V(t) \in Int
    BY <2>1
  <2> DEFINE u == t \ {First(t)}
  <2>3. Good(u, G(u))
    BY <1>3, <1>4, <2>2
  <2>4. G(u)[u] \in Int
    BY <2>3
  <2>5. F[First(t)] \in Int
    BY <1>4, <2>2
  <2>6. QED
    BY <2>4, <2>5, <2>2
<1>6. \A t \in SUBSET s : t # s => V(t) = G(t)[t]
  <2> SUFFICES ASSUME NEW t \in SUBSET s, t # s PROVE V(t) = G(t)[t]
    OBVIOUS
  <2>1. Good(t, G(t))
    BY <1>3
  <2>2. CASE t = {}
    <3>1. Adds(G(t), F, t)
      BY <2>1
    <3> HIDE DEF G
    <3>2. G(t)[t] = 0
      BY <2>2, <3>1, AddsStep
    <3>3. QED
      BY <2>2, <3>2
  <2>3. CASE t # {}
    <3> DEFINE u == t \ {First(t)}
    <3>1. Good(u, G(u)) /\ u \subseteq t
      BY <1>3, <1>4, <2>3
    <3>2. IsFiniteSet(u)
      BY FS_Subset
    <3>3. G(t)[u] = G(u)[u]
      <4>1. Adds(G(t), F, t) /\ Adds(G(u), F, u)
        BY <2>1, <3>1
      <4> HIDE DEF u, G
      <4>2. QED
        BY <3>1, <3>2, <4>1, AddsUnique
    <3>4. G(t)[t] = F[First(t)] + G(t)[u]
      <4>1. Adds(G(t), F, t)
        BY <2>1
      <4> HIDE DEF G
      <4>2. QED
        BY <2>3, <4>1, AddsStep
    <3>5. QED
      BY <2>3, <3>3, <3>4
  <2>4. QED
    BY <2>2, <2>3
<1>7. Adds(g, F, s)
  <2>1. \A t \in SUBSET s : V(t) = IF t = {} THEN 0 ELSE F[First(t)] + g[t \ {First(t)}]
    <3> SUFFICES ASSUME NEW t \in SUBSET s
                 PROVE  V(t) = IF t = {} THEN 0 ELSE F[First(t)] + g[t \ {First(t)}]
      OBVIOUS
    <3> DEFINE u == t \ {First(t)}
    <3>1. CASE t = {}
      BY <3>1
    <3>2. CASE t # {}
      <4>1. u \in SUBSET s /\ u # s
        BY <1>4, <3>2
      <4>2. g[u] = G(u)[u]
        BY <1>6, <4>1
      <4>3. QED
        BY <3>2, <4>2
    <3>3. QED
      BY <3>1, <3>2
  <2> HIDE DEF V
  <2>2. g = [t \in SUBSET s |-> IF t = {} THEN 0 ELSE F[First(t)] + g[t \ {First(t)}]]
    BY <2>1
  <2>3. QED
    BY <2>2 DEF Adds
<1>8. g \in [SUBSET s -> Int]
  <2> HIDE DEF V
  <2>1. QED
    BY <1>5
<1>9. QED
  BY <1>2, <1>7, <1>8

\* Sums of the values of a function.
SumOver(F, S) == MapThenSumSet(LAMBDA k : F[k], S)
Whole(F, S) == IsFiniteSet(S) /\ \A x \in S : F[x] \in Int

LEMMA SumIs ==
  ASSUME NEW F, NEW S, Whole(F, S)
  PROVE  \E g \in [SUBSET S -> Int] : Adds(g, F, S) /\ SumOver(F, S) = g[S]
<1> DEFINE it == CHOOSE h : h = [s \in SUBSET S |->
                    IF s = {} THEN 0 ELSE F[CHOOSE x \in s : TRUE] + h[s \ {CHOOSE x \in s : TRUE}]]
<1>1. SumOver(F, S) = it[S]
  BY DEF SumOver, MapThenSumSet, MapThenFoldSet
<1>2. PICK g \in [SUBSET S -> Int] : Adds(g, F, S)
  BY AddsExists DEF Whole
<1>3. Adds(it, F, S)
  BY <1>2 DEF Adds, First
<1> HIDE DEF it
<1>4. it[S] = g[S]
  BY <1>2, <1>3, AddsUnique DEF Whole
<1>5. QED
  BY <1>1, <1>2, <1>4

LEMMA SumFirst ==
  ASSUME NEW F, NEW S, Whole(F, S)
  PROVE  /\ SumOver(F, S) \in Int
         /\ S = {} => SumOver(F, S) = 0
         /\ S # {} => SumOver(F, S) = F[First(S)] + SumOver(F, S \ {First(S)})
<1>1. PICK g \in [SUBSET S -> Int] : Adds(g, F, S) /\ SumOver(F, S) = g[S]
  BY SumIs
<1>2. SumOver(F, S) \in Int /\ (S = {} => SumOver(F, S) = 0)
  BY <1>1, AddsStep
<1>3. ASSUME S # {} PROVE SumOver(F, S) = F[First(S)] + SumOver(F, S \ {First(S)})
  <2> DEFINE U == S \ {First(S)}
  <2>1. Whole(F, U)
    BY FS_Subset DEF Whole
  <2>2. PICK h \in [SUBSET U -> Int] : Adds(h, F, U) /\ SumOver(F, U) = h[U]
    BY <2>1, SumIs
  <2>3. U \subseteq S /\ IsFiniteSet(U)
    BY <2>1 DEF Whole
  <2> HIDE DEF U
  <2>4. g[U] = h[U]
    BY <1>1, <2>2, <2>3, AddsUnique
  <2>5. g[S] = F[First(S)] + g[U]
    BY <1>1, <1>3, AddsStep DEF U
  <2>6. QED
    BY <1>1, <2>2, <2>4, <2>5 DEF U
<1>4. QED
  BY <1>2, <1>3

LEMMA SumEmpty ==
  ASSUME NEW F
  PROVE  Whole(F, {}) /\ SumOver(F, {}) = 0
BY SumFirst, FS_EmptySet DEF Whole

LEMMA WholePart ==
  ASSUME NEW F, NEW S, Whole(F, S), NEW U, U \subseteq S
  PROVE  Whole(F, U)
BY FS_Subset DEF Whole

\* Any member may be taken first.
LEMMA SumSplit ==
  ASSUME NEW F, NEW S, Whole(F, S), NEW y \in S
  PROVE  SumOver(F, S) = F[y] + SumOver(F, S \ {y})
<1> DEFINE T == {s \in SUBSET S : \E x \in s : SumOver(F, s) # F[x] + SumOver(F, s \ {x})}
<1>1. SUFFICES ASSUME T # {} PROVE FALSE
  OBVIOUS
<1>2. PICK s \in T : \A t \in T : t \subseteq s => t = s
  <2>1. T \subseteq SUBSET S /\ IsFiniteSet(S)
    BY DEF Whole
  <2> HIDE DEF T
  <2>2. QED
    BY <1>1, <2>1, LeastSubset
<1>3. PICK x \in s : SumOver(F, s) # F[x] + SumOver(F, s \ {x})
  OBVIOUS
<1> DEFINE c == First(s)
<1>4. c \in s
  BY FirstIsIn
<1>5. Whole(F, s) /\ Whole(F, s \ {c}) /\ Whole(F, s \ {x}) /\ Whole(F, s \ {c, x})
  BY WholePart
<1>6. SumOver(F, s) = F[c] + SumOver(F, s \ {c})
  BY <1>4, <1>5, SumFirst
<1>7. c # x
  BY <1>3, <1>6
<1>8. s \ {c} \notin T /\ s \ {x} \notin T
  BY <1>2, <1>4
<1> HIDE DEF c
<1>9. SumOver(F, s \ {c}) = F[x] + SumOver(F, s \ {c, x})
  <2>1. x \in s \ {c} /\ s \ {c} \in SUBSET S /\ (s \ {c}) \ {x} = s \ {c, x}
    BY <1>7
  <2>2. QED
    BY <1>8, <2>1
<1>10. SumOver(F, s \ {x}) = F[c] + SumOver(F, s \ {c, x})
  <2>1. c \in s \ {x} /\ s \ {x} \in SUBSET S /\ (s \ {x}) \ {c} = s \ {c, x}
    BY <1>4, <1>7
  <2>2. QED
    BY <1>8, <2>1
<1>11. F[c] \in Int /\ F[x] \in Int /\ SumOver(F, s \ {c, x}) \in Int
  BY <1>4, <1>5, SumFirst DEF Whole
<1>12. QED
  BY <1>3, <1>6, <1>9, <1>10, <1>11

\* A statement about subsets that passes from s \ {x} to s holds of them all: a
\* family of exceptions B that is empty whenever its least member has a smaller one.
LEMMA NoLeast ==
  ASSUME NEW S, IsFiniteSet(S), NEW B, B \subseteq SUBSET S, {} \notin B,
         \A s \in B : \A x \in s : s \ {x} \in B
  PROVE  B = {}
<1>1. SUFFICES ASSUME B # {} PROVE FALSE
  OBVIOUS
<1>2. PICK s \in B : \A t \in B : t \subseteq s => t = s
  BY <1>1, LeastSubset
<1>3. PICK x \in s : TRUE
  BY <1>2
<1>4. s \ {x} \in B /\ s \ {x} \subseteq s /\ s \ {x} # s
  BY <1>3
<1>5. QED
  BY <1>2, <1>4

LEMMA SumSame ==
  ASSUME NEW F, NEW S, Whole(F, S), NEW G, \A x \in S : G[x] = F[x]
  PROVE  SumOver(G, S) = SumOver(F, S)
<1> DEFINE B == {s \in SUBSET S : SumOver(G, s) # SumOver(F, s)}
<1>1. \A s \in SUBSET S : Whole(F, s) /\ Whole(G, s)
  BY FS_Subset DEF Whole
<1>2. {} \notin B
  BY <1>1, SumFirst
<1>3. ASSUME NEW s \in B, NEW x \in s PROVE s \ {x} \in B
  <2>1. SumOver(F, s) = F[x] + SumOver(F, s \ {x}) /\ SumOver(G, s) = G[x] + SumOver(G, s \ {x})
    BY <1>1, SumSplit
  <2>2. QED
    BY <2>1
<1>4. B = {}
  <2>1. IsFiniteSet(S)
    BY DEF Whole
  <2>2. B \subseteq SUBSET S
    OBVIOUS
  <2> HIDE DEF B
  <2>3. QED
    BY <1>2, <1>3, <2>1, <2>2, NoLeast
<1>5. QED
  BY <1>4

LEMMA SumUnion ==
  ASSUME NEW F, NEW S, Whole(F, S), NEW U, Whole(F, U), S \cap U = {}
  PROVE  Whole(F, S \cup U) /\ SumOver(F, S \cup U) = SumOver(F, S) + SumOver(F, U)
<1> DEFINE B == {s \in SUBSET S : SumOver(F, s \cup U) # SumOver(F, s) + SumOver(F, U)}
<1>1. \A s \in SUBSET S : Whole(F, s) /\ Whole(F, s \cup U)
  BY FS_Subset, FS_Union DEF Whole
<1>2. {} \notin B
  <2>1. SumOver(F, {}) = 0 /\ SumOver(F, U) \in Int /\ {} \cup U = U
    BY <1>1, SumFirst
  <2>2. QED
    BY <2>1
<1>3. ASSUME NEW s \in B, NEW x \in s PROVE s \ {x} \in B
  <2>1. SumOver(F, s) = F[x] + SumOver(F, s \ {x})
    BY <1>1, SumSplit
  <2>2. SumOver(F, s \cup U) = F[x] + SumOver(F, (s \cup U) \ {x})
    BY <1>1, SumSplit
  <2>3. (s \cup U) \ {x} = (s \ {x}) \cup U /\ s \ {x} \in SUBSET S
    OBVIOUS
  <2>4. F[x] \in Int /\ SumOver(F, s \ {x}) \in Int /\ SumOver(F, U) \in Int
        /\ SumOver(F, (s \ {x}) \cup U) \in Int
    BY <1>1, <2>3, SumFirst DEF Whole
  <2>5. SumOver(F, s \cup U) # SumOver(F, s) + SumOver(F, U)
    OBVIOUS
  <2> DEFINE r == s \ {x}
  <2>6. SumOver(F, r \cup U) # SumOver(F, r) + SumOver(F, U)
    <3>1. SumOver(F, s \cup U) = F[x] + SumOver(F, r \cup U)
      BY <2>2, <2>3
    <3>2. SumOver(F, s) = F[x] + SumOver(F, r)
      BY <2>1
    <3>3. F[x] \in Int /\ SumOver(F, r) \in Int /\ SumOver(F, U) \in Int
          /\ SumOver(F, r \cup U) \in Int
      BY <2>4
    <3> HIDE DEF r, B
    <3>4. QED
      BY <2>5, <3>1, <3>2, <3>3
  <2>7. QED
    BY <2>3, <2>6
<1>4. B = {}
  <2>1. IsFiniteSet(S)
    BY DEF Whole
  <2>2. B \subseteq SUBSET S
    OBVIOUS
  <2> HIDE DEF B
  <2>3. QED
    BY <1>2, <1>3, <2>1, <2>2, NoLeast
<1>5. QED
  BY <1>1, <1>4

LEMMA SumPlus ==
  ASSUME NEW S, NEW F, Whole(F, S), NEW G, Whole(G, S), NEW H, \A x \in S : H[x] = F[x] + G[x]
  PROVE  Whole(H, S) /\ SumOver(H, S) = SumOver(F, S) + SumOver(G, S)
<1> DEFINE B == {s \in SUBSET S : SumOver(H, s) # SumOver(F, s) + SumOver(G, s)}
<1>1. \A s \in SUBSET S : Whole(F, s) /\ Whole(G, s) /\ Whole(H, s)
  BY FS_Subset DEF Whole
<1>2. {} \notin B
  <2>1. SumOver(F, {}) = 0 /\ SumOver(G, {}) = 0 /\ SumOver(H, {}) = 0
    BY SumEmpty
  <2>2. QED
    BY <2>1
<1>3. ASSUME NEW s \in B, NEW x \in s PROVE s \ {x} \in B
  <2>1. /\ SumOver(F, s) = F[x] + SumOver(F, s \ {x})
        /\ SumOver(G, s) = G[x] + SumOver(G, s \ {x})
        /\ SumOver(H, s) = H[x] + SumOver(H, s \ {x})
    BY <1>1, SumSplit
  <2>2. /\ F[x] \in Int /\ G[x] \in Int /\ H[x] = F[x] + G[x] /\ s \ {x} \in SUBSET S
        /\ SumOver(F, s \ {x}) \in Int /\ SumOver(G, s \ {x}) \in Int
        /\ SumOver(H, s \ {x}) \in Int
    BY <1>1, SumFirst DEF Whole
  <2>3. SumOver(H, s \ {x}) # SumOver(F, s \ {x}) + SumOver(G, s \ {x})
    BY <2>1, <2>2
  <2>4. QED
    BY <2>2, <2>3
<1>4. B = {}
  <2>1. IsFiniteSet(S)
    BY DEF Whole
  <2>2. B \subseteq SUBSET S
    OBVIOUS
  <2> HIDE DEF B
  <2>3. QED
    BY <1>2, <1>3, <2>1, <2>2, NoLeast
<1>5. QED
  BY <1>1, <1>4

LEMMA SumAtMost ==
  ASSUME NEW S, NEW F, Whole(F, S), NEW G, Whole(G, S), \A x \in S : F[x] <= G[x]
  PROVE  SumOver(F, S) <= SumOver(G, S)
<1> DEFINE B == {s \in SUBSET S : ~(SumOver(F, s) <= SumOver(G, s))}
<1>1. \A s \in SUBSET S : Whole(F, s) /\ Whole(G, s)
  BY FS_Subset DEF Whole
<1>2. {} \notin B
  <2>1. SumOver(F, {}) = 0 /\ SumOver(G, {}) = 0
    BY SumEmpty
  <2>2. QED
    BY <2>1
<1>3. ASSUME NEW s \in B, NEW x \in s PROVE s \ {x} \in B
  <2>1. /\ SumOver(F, s) = F[x] + SumOver(F, s \ {x})
        /\ SumOver(G, s) = G[x] + SumOver(G, s \ {x})
    BY <1>1, SumSplit
  <2>2. /\ F[x] \in Int /\ G[x] \in Int /\ F[x] <= G[x] /\ s \ {x} \in SUBSET S
        /\ SumOver(F, s \ {x}) \in Int /\ SumOver(G, s \ {x}) \in Int
    BY <1>1, SumFirst DEF Whole
  <2>3. ~(SumOver(F, s \ {x}) <= SumOver(G, s \ {x}))
    BY <2>1, <2>2
  <2>4. QED
    BY <2>2, <2>3
<1>4. B = {}
  <2>1. IsFiniteSet(S)
    BY DEF Whole
  <2>2. B \subseteq SUBSET S
    OBVIOUS
  <2> HIDE DEF B
  <2>3. QED
    BY <1>2, <1>3, <2>1, <2>2, NoLeast
<1>5. QED
  BY <1>4

LEMMA SumNatural ==
  ASSUME NEW S, NEW F, Whole(F, S), \A x \in S : F[x] >= 0
  PROVE  SumOver(F, S) \in Nat
<1> DEFINE B == {s \in SUBSET S : SumOver(F, s) \notin Nat}
<1>1. \A s \in SUBSET S : Whole(F, s)
  BY FS_Subset DEF Whole
<1>2. {} \notin B
  BY SumEmpty
<1>3. ASSUME NEW s \in B, NEW x \in s PROVE s \ {x} \in B
  <2>1. SumOver(F, s) = F[x] + SumOver(F, s \ {x})
    BY <1>1, SumSplit
  <2>2. F[x] \in Nat /\ s \ {x} \in SUBSET S
    BY DEF Whole
  <2>3. QED
    BY <2>1, <2>2
<1>4. B = {}
  <2>1. IsFiniteSet(S)
    BY DEF Whole
  <2>2. B \subseteq SUBSET S
    OBVIOUS
  <2> HIDE DEF B
  <2>3. QED
    BY <1>2, <1>3, <2>1, <2>2, NoLeast
<1>5. QED
  BY <1>4

\* Ones are counted.
LEMMA SumOnes ==
  ASSUME NEW S, IsFiniteSet(S), NEW F, \A x \in S : F[x] = 1
  PROVE  Whole(F, S) /\ SumOver(F, S) = Cardinality(S)
<1> DEFINE B == {s \in SUBSET S : SumOver(F, s) # Cardinality(s)}
<1>1. \A s \in SUBSET S : Whole(F, s)
  BY FS_Subset DEF Whole
<1>2. {} \notin B
  BY <1>1, SumFirst, FS_EmptySet
<1>3. ASSUME NEW s \in B, NEW x \in s PROVE s \ {x} \in B
  <2>1. SumOver(F, s) = 1 + SumOver(F, s \ {x}) /\ s \ {x} \in SUBSET S
    BY <1>1, SumSplit
  <2>2. Cardinality(s \ {x}) = Cardinality(s) - 1 /\ Cardinality(s) \in Nat
    BY <1>1, FS_RemoveElement, FS_CardinalityType DEF Whole
  <2>3. QED
    BY <2>1, <2>2
<1>4. B = {}
  <2>1. IsFiniteSet(S)
    BY DEF Whole
  <2>2. B \subseteq SUBSET S
    OBVIOUS
  <2> HIDE DEF B
  <2>3. QED
    BY <1>2, <1>3, <2>1, <2>2, NoLeast
<1>5. QED
  BY <1>1, <1>4

\* The members of S with a key, and those with one of some keys.
KeyIs(S, H, k) == {x \in S : H[x] = k}
KeyIn(S, H, K) == {x \in S : H[x] \in K}

\* Sums by groups add up to the sum of all that are in a group.
LEMMA SumGroups ==
  ASSUME NEW F, NEW S, Whole(F, S), NEW K, IsFiniteSet(K), NEW H, NEW G,
         \A k \in K : G[k] = SumOver(F, KeyIs(S, H, k))
  PROVE  Whole(G, K) /\ SumOver(G, K) = SumOver(F, KeyIn(S, H, K))
<1> USE DEF KeyIs, KeyIn
<1> DEFINE At(s) == {x \in S : H[x] \in s}
           B == {s \in SUBSET K : SumOver(G, s) # SumOver(F, At(s))}
<1>1. Whole(G, K)
  <2> SUFFICES ASSUME NEW k \in K PROVE G[k] \in Int
    BY DEF Whole
  <2>1. Whole(F, {x \in S : H[x] = k})
    BY WholePart
  <2>2. QED
    BY <2>1, SumFirst
<1>2. {} \notin B
  <2>1. At({}) = {} /\ Whole(F, {}) /\ Whole(G, {})
    BY <1>1, WholePart
  <2>2. SumOver(F, {}) = 0 /\ SumOver(G, {}) = 0
    BY <2>1, SumFirst
  <2>3. QED
    BY <2>1, <2>2
<1>3. ASSUME NEW s \in B, NEW k \in s PROVE s \ {k} \in B
  <2> DEFINE one == {x \in S : H[x] = k}
             rest == At(s \ {k})
  <2>1. Whole(G, s) /\ Whole(G, s \ {k}) /\ Whole(F, one) /\ Whole(F, rest)
    BY <1>1, WholePart
  <2>2. SumOver(G, s) = G[k] + SumOver(G, s \ {k})
    BY <2>1, SumSplit
  <2>3. At(s) = one \cup rest /\ one \cap rest = {}
    OBVIOUS
  <2>4. SumOver(F, At(s)) = SumOver(F, one) + SumOver(F, rest)
    <3> HIDE DEF one, rest, At
    <3>1. QED
      BY <2>1, <2>3, SumUnion
  <2>5. SumOver(F, one) \in Int /\ SumOver(F, rest) \in Int /\ SumOver(G, s \ {k}) \in Int
    BY <2>1, SumFirst
  <2>6. G[k] = SumOver(F, one) /\ SumOver(G, s) # SumOver(F, At(s)) /\ s \ {k} \in SUBSET K
    OBVIOUS
  <2>7. SumOver(G, s \ {k}) # SumOver(F, At(s \ {k}))
    <3> HIDE DEF one, At
    <3>1. QED
      BY <2>2, <2>4, <2>5, <2>6
  <2>8. QED
    BY <2>6, <2>7
<1>4. B = {}
  <2>1. B \subseteq SUBSET K
    OBVIOUS
  <2> HIDE DEF B
  <2>2. QED
    BY <1>2, <1>3, <2>1, NoLeast
<1>5. QED
  BY <1>1, <1>4

Pool(P, K) == UNION {P[k] : k \in K}

\* Counts of sets are at least the count of their union, and as many if they are apart.
LEMMA CountCover ==
  ASSUME NEW K, IsFiniteSet(K), NEW P, NEW G,
         \A k \in K : IsFiniteSet(P[k]) /\ G[k] = Cardinality(P[k])
  PROVE  /\ Whole(G, K) /\ IsFiniteSet(Pool(P, K))
         /\ Cardinality(Pool(P, K)) <= SumOver(G, K)
         /\ (\A i, j \in K : i # j => P[i] \cap P[j] = {}) =>
                SumOver(G, K) = Cardinality(Pool(P, K))
<1> DEFINE Apart == \A i, j \in K : i # j => P[i] \cap P[j] = {}
           In(s) == Pool(P, s)
           Fits(s) == /\ IsFiniteSet(In(s)) /\ Cardinality(In(s)) <= SumOver(G, s)
                      /\ Apart => SumOver(G, s) = Cardinality(In(s))
           B == {s \in SUBSET K : ~Fits(s)}
<1>1. Whole(G, K)
  BY FS_CardinalityType DEF Whole
<1>2. {} \notin B
  <2>1. In({}) = {} /\ Whole(G, {})
    BY <1>1, WholePart DEF Pool
  <2>2. SumOver(G, {}) = 0 /\ Cardinality({}) = 0 /\ IsFiniteSet({})
    BY <2>1, SumFirst, FS_EmptySet
  <2>3. QED
    BY <2>1, <2>2
<1>3. ASSUME NEW s \in B, NEW k \in s PROVE s \ {k} \in B
  <2> DEFINE rest == s \ {k}
  <2>1. SUFFICES ASSUME Fits(rest) PROVE Fits(s)
    OBVIOUS
  <2>2. Whole(G, s) /\ Whole(G, rest) /\ IsFiniteSet(P[k]) /\ G[k] = Cardinality(P[k])
    BY <1>1, WholePart
  <2>3. SumOver(G, s) = G[k] + SumOver(G, rest) /\ SumOver(G, rest) \in Int
    <3>1. SumOver(G, rest) \in Int
      BY <2>2, SumFirst
    <3> HIDE DEF B, In, Apart, Fits
    <3>2. SumOver(G, s) = G[k] + SumOver(G, s \ {k})
      BY <2>2, SumSplit
    <3>3. QED
      BY <3>1, <3>2
  <2>4. In(s) = P[k] \cup In(rest)
    BY DEF Pool
  <2>5. Apart => P[k] \cap In(rest) = {}
    BY DEF Pool
  <2> HIDE DEF In, rest, Apart
  <2>6. /\ IsFiniteSet(In(s))
        /\ Cardinality(In(s)) = Cardinality(P[k]) + Cardinality(In(rest))
                                   - Cardinality(P[k] \cap In(rest))
    BY <2>1, <2>2, <2>4, FS_Union
  <2>7. /\ Cardinality(P[k]) \in Nat /\ Cardinality(In(rest)) \in Nat
        /\ Cardinality(P[k] \cap In(rest)) \in Nat /\ Cardinality({}) = 0
    BY <2>1, <2>2, FS_CardinalityType, FS_Intersection, FS_EmptySet
  <2>8. /\ Cardinality(In(rest)) <= SumOver(G, rest)
        /\ Apart => SumOver(G, rest) = Cardinality(In(rest))
    BY <2>1
  <2>9. Cardinality(In(s)) <= SumOver(G, s)
    BY <2>2, <2>3, <2>6, <2>7, <2>8
  <2>10. Apart => SumOver(G, s) = Cardinality(In(s))
    BY <2>2, <2>3, <2>5, <2>6, <2>7, <2>8
  <2>11. QED
    BY <2>6, <2>9, <2>10
<1>4. B = {}
  <2>1. B \subseteq SUBSET K
    OBVIOUS
  <2> HIDE DEF B
  <2>2. QED
    BY <1>2, <1>3, <2>1, NoLeast
<1>5. QED
  BY <1>1, <1>4

--------------------------------------------------------------------------------
\* A sum of the values of a function, and of a field of the rows of an answer.
LEMMA TotalIs ==
  ASSUME NEW f, NEW S, DOMAIN f = S
  PROVE  Total(f) = SumOver(f, S)
BY DEF Total, SumOver

LEMMA FieldSumIs ==
  ASSUME NEW answer, NEW field
  PROVE  FieldSum(answer, field) =
             SumOver([k \in DOMAIN answer |-> answer[k][field]], DOMAIN answer)
BY TotalIs DEF FieldSum

LEMMA FiniteImage ==
  ASSUME NEW S, IsFiniteSet(S), NEW f
  PROVE  IsFiniteSet({f[x] : x \in S})
<1> DEFINE T == {f[x] : x \in S}
           g == [x \in S |-> f[x]]
<1>1. g \in Surjection(S, T)
  BY DEF Surjection
<1> HIDE DEF g
<1>2. QED
  BY <1>1, FS_Surjection

\* Counts of the members of X by a key h add up to those whose key is counted.
LEMMA TotalGroups ==
  ASSUME NEW f, NEW K, DOMAIN f = K, IsFiniteSet(K), NEW X, IsFiniteSet(X), NEW h,
         \A k \in K : f[k] = Cardinality({x \in X : h[x] = k})
  PROVE  Total(f) = Cardinality({x \in X : h[x] \in K})
<1> DEFINE P == [k \in K |-> {x \in X : h[x] = k}]
<1>1. \A k \in K : IsFiniteSet(P[k]) /\ f[k] = Cardinality(P[k])
  BY FS_Subset
<1>2. \A i, j \in K : i # j => P[i] \cap P[j] = {}
  OBVIOUS
<1>3. Pool(P, K) = {x \in X : h[x] \in K}
  BY DEF Pool
<1>4. Total(f) = SumOver(f, K)
  BY TotalIs
<1> HIDE DEF P
<1>5. SumOver(f, K) = Cardinality(Pool(P, K))
  BY <1>1, <1>2, CountCover
<1>6. QED
  BY <1>3, <1>4, <1>5

LEMMA FieldGroups ==
  ASSUME NEW answer, NEW field, NEW K, DOMAIN answer = K, IsFiniteSet(K),
         NEW X, IsFiniteSet(X), NEW h,
         \A k \in K : answer[k][field] = Cardinality({x \in X : h[x] = k})
  PROVE  FieldSum(answer, field) = Cardinality({x \in X : h[x] \in K})
<1> DEFINE f == [k \in K |-> answer[k][field]]
<1>1. DOMAIN f = K /\ \A k \in K : f[k] = Cardinality({x \in X : h[x] = k})
  OBVIOUS
<1>2. FieldSum(answer, field) = Total(f)
  BY DEF FieldSum
<1> HIDE DEF f
<1>3. Total(f) = Cardinality({x \in X : h[x] \in K})
  BY <1>1, TotalGroups
<1>4. QED
  BY <1>2, <1>3

--------------------------------------------------------------------------------
\* What a query sees: rows of the country, all of their tables.
Country(v) ==
    /\ v.geo \in [SchoolIds -> SchoolRow \cup {Null}]
    /\ v.pupil \in [Pupils -> PupilRow] /\ v.post \subseteq SchoolIds \X Staff
    /\ v.entry \in [Entries -> EntryRow \cup {Null}]
PupilsOf(v, schools, statuses) ==
    {p \in Pupils : v.pupil[p].school \in schools /\ v.pupil[p].status \in statuses}
TeachersOf(v, schools) == {a[2] : a \in {b \in v.post : b[1] \in schools}}

LEMMA NowIsACountry ==
  ASSUME CountryTypeOK
  PROVE  Country(Now)
BY DEF CountryTypeOK, Country, Now

LEMMA StillIsNow == \A q \in 1..6 : Still[q] = Now
BY DEF Still

LEMMA CountryIsFinite ==
  ASSUME NEW v, Country(v)
  PROVE  /\ IsFiniteSet(Registered(v)) /\ Registered(v) \subseteq SchoolIds
         /\ \A table : IsFiniteSet(Rows(v, table))
         /\ \A schools, statuses : /\ IsFiniteSet(PupilsOf(v, schools, statuses))
                                   /\ IsFiniteSet(TeachersOf(v, schools))
                                   /\ TeachersOf(v, schools) \subseteq Staff
<1>1. Registered(v) \subseteq SchoolIds
  BY DEF Registered
<1>2. \A table : Rows(v, table) \subseteq Entries
  BY DEF Rows
<1>3. \A schools, statuses : PupilsOf(v, schools, statuses) \subseteq Pupils
  BY DEF PupilsOf
<1>4. \A schools : TeachersOf(v, schools) \subseteq Staff
  BY DEF TeachersOf, Country
<1>5. QED
  BY <1>1, <1>2, <1>3, <1>4, MinistryAssumption, FS_Subset

LEMMA HeadsCount ==
  ASSUME NEW v, Country(v), NEW schools, NEW statuses
  PROVE  /\ Heads(v, schools, statuses) = Cardinality(PupilsOf(v, schools, statuses))
         /\ Heads(v, schools, statuses) \in Nat
         /\ Teachers(v, schools) = Cardinality(TeachersOf(v, schools))
         /\ Teachers(v, schools) \in Nat
BY CountryIsFinite, FS_CardinalityType DEF Heads, PupilsOf, Teachers, TeachersOf

\* Of two lots of schools that share none, the pupils add up.
LEMMA HeadsSplit ==
  ASSUME NEW v, Country(v), NEW A, NEW B, A \cap B = {}, NEW statuses
  PROVE  Heads(v, A \cup B, statuses) = Heads(v, A, statuses) + Heads(v, B, statuses)
<1>1. PupilsOf(v, A \cup B, statuses) = PupilsOf(v, A, statuses) \cup PupilsOf(v, B, statuses)
  BY DEF PupilsOf
<1>2. PupilsOf(v, A, statuses) \cap PupilsOf(v, B, statuses) = {}
  BY DEF PupilsOf
<1>3. Cardinality({}) = 0
  BY FS_EmptySet
<1>4. /\ IsFiniteSet(PupilsOf(v, A, statuses)) /\ IsFiniteSet(PupilsOf(v, B, statuses))
  BY CountryIsFinite
<1>5. Cardinality(PupilsOf(v, A, statuses) \cup PupilsOf(v, B, statuses))
        = Cardinality(PupilsOf(v, A, statuses)) + Cardinality(PupilsOf(v, B, statuses)) - 0
  BY <1>2, <1>3, <1>4, FS_Union
<1>6. QED
  <2>1. Heads(v, A \cup B, statuses) = Cardinality(PupilsOf(v, A \cup B, statuses))
    BY HeadsCount
  <2>2. /\ Heads(v, A, statuses) \in Nat /\ Heads(v, B, statuses) \in Nat
        /\ Heads(v, A, statuses) = Cardinality(PupilsOf(v, A, statuses))
        /\ Heads(v, B, statuses) = Cardinality(PupilsOf(v, B, statuses))
    BY HeadsCount
  <2>3. Heads(v, A \cup B, statuses)
          = Cardinality(PupilsOf(v, A, statuses) \cup PupilsOf(v, B, statuses))
    BY <1>1, <2>1, Zenon
  <2>4. QED
    BY <1>5, <2>2, <2>3

LEMMA CodesAreFinite ==
  ASSUME NEW v, Country(v), NEW scope, NEW X, X \subseteq SchoolIds
  PROVE  IsFiniteSet(CodesOf(v, scope, X))
<1> DEFINE code == [s \in SchoolIds |-> Code(v, s, scope)]
<1>1. IsFiniteSet(X)
  BY MinistryAssumption, FS_Subset
<1>2. CodesOf(v, scope, X) = {code[s] : s \in X}
  BY DEF CodesOf
<1> HIDE DEF code
<1>3. QED
  BY <1>1, <1>2, FiniteImage

\* Rows by code of the registered schools, whose field counts their pupils of some statuses.
LEMMA PupilsByCode ==
  ASSUME NEW v, Country(v), NEW scope, NEW X, X \subseteq Registered(v), NEW statuses,
         NEW answer, DOMAIN answer = CodesOf(v, scope, X), NEW field,
         \A c \in DOMAIN answer :
             answer[c][field] = Heads(v, Of(v, scope, c), statuses),
         \A p \in PupilsOf(v, Registered(v), statuses) : v.pupil[p].school \in X
  PROVE  FieldSum(answer, field) = Heads(v, Registered(v), statuses)
<1> DEFINE K == CodesOf(v, scope, X)
           all == PupilsOf(v, Registered(v), statuses)
           h == [p \in Pupils |-> Code(v, v.pupil[p].school, scope)]
<1>1. \A c \in K : PupilsOf(v, Of(v, scope, c), statuses) = {p \in all : h[p] = c}
  BY DEF PupilsOf, Of
<1>2. \A c \in K : answer[c][field] = Cardinality({p \in all : h[p] = c})
  <2>1. \A c \in K : answer[c][field] = Cardinality(PupilsOf(v, Of(v, scope, c), statuses))
    BY HeadsCount
  <2>2. QED
    BY <1>1, <2>1
<1>3. {p \in all : h[p] \in K} = all
  BY DEF CodesOf, PupilsOf
<1>4. IsFiniteSet(K) /\ IsFiniteSet(all)
  BY CountryIsFinite, CodesAreFinite
<1> HIDE DEF K, h
<1>5. FieldSum(answer, field) = Cardinality({p \in all : h[p] \in K})
  <2>1. DOMAIN answer = K
    BY DEF K
  <2> HIDE DEF all
  <2>2. QED
    BY <1>2, <1>4, <2>1, FieldGroups
<1>6. QED
  BY <1>3, <1>5, HeadsCount

LEMMA SchoolsByCode ==
  ASSUME NEW v, Country(v), NEW scope, NEW answer,
         DOMAIN answer = CodesOf(v, scope, Registered(v)), NEW field,
         \A c \in DOMAIN answer : answer[c][field] = Cardinality(Of(v, scope, c))
  PROVE  FieldSum(answer, field) = Cardinality(Registered(v))
<1> DEFINE K == CodesOf(v, scope, Registered(v))
           X == Registered(v)
           h == [s \in SchoolIds |-> Code(v, s, scope)]
<1>1. \A c \in K : Of(v, scope, c) = {s \in X : h[s] = c}
  BY CountryIsFinite DEF Of
<1>2. {s \in X : h[s] \in K} = X
  BY CountryIsFinite DEF CodesOf
<1>3. IsFiniteSet(K) /\ IsFiniteSet(X) /\ DOMAIN answer = K
  BY CountryIsFinite, CodesAreFinite
<1>4. \A c \in K : answer[c][field] = Cardinality({s \in X : h[s] = c})
  BY <1>1
<1> HIDE DEF K, h, X
<1>5. FieldSum(answer, field) = Cardinality({s \in X : h[s] \in K})
  BY <1>3, <1>4, FieldGroups
<1>6. QED
  BY <1>2, <1>5 DEF X

\* One row per school.
LEMMA PupilsBySchool ==
  ASSUME NEW v, Country(v), NEW X, X \subseteq SchoolIds, NEW statuses,
         NEW answer, DOMAIN answer = X, NEW field,
         \A s \in X : answer[s][field] = Heads(v, {s}, statuses)
  PROVE  FieldSum(answer, field) = Heads(v, X, statuses)
<1> DEFINE all == PupilsOf(v, X, statuses)
           h == [p \in Pupils |-> v.pupil[p].school]
<1>1. \A s \in X : PupilsOf(v, {s}, statuses) = {p \in all : h[p] = s}
  BY DEF PupilsOf
<1>2. \A s \in X : answer[s][field] = Cardinality({p \in all : h[p] = s})
  <2>1. \A s \in X : answer[s][field] = Cardinality(PupilsOf(v, {s}, statuses))
    BY HeadsCount
  <2>2. QED
    BY <1>1, <2>1
<1>3. {p \in all : h[p] \in X} = all
  BY DEF PupilsOf
<1>4. IsFiniteSet(X) /\ IsFiniteSet(all)
  BY CountryIsFinite, MinistryAssumption, FS_Subset
<1> HIDE DEF h, all
<1>5. FieldSum(answer, field) = Cardinality({p \in all : h[p] \in X})
  BY <1>2, <1>4, FieldGroups
<1>6. QED
  BY <1>3, <1>5, HeadsCount DEF all

LEMMA PupilsAddUpNow ==
  ASSUME CountryTypeOK
  PROVE  PupilsAddUp
<1> DEFINE nation == Enrolment("national", Still)[NoCode]
           lost == Dropouts("national", Still)[NoCode]
           unesco == Unesco(Still)
           all == Comparative("province", NoCode, Still)
           ours == Registered(Now)
<1>1. Country(Now) /\ \A q \in 1..6 : Still[q] = Now
  BY NowIsACountry, StillIsNow
<1>2. /\ nation.schools = Cardinality(ours) /\ nation.students = Active(Now, SchoolIds)
      /\ lost.active = Active(Now, ours) /\ lost.dropouts = Heads(Now, ours, DROPOUT_STATUSES)
  BY <1>1 DEF Enrolment, Dropouts
<1>3. ours \cup Strays = SchoolIds /\ ours \cap Strays = {}
  BY DEF Strays, Registered
<1>4. \A statuses : Heads(Now, SchoolIds, statuses)
                      = Heads(Now, ours, statuses) + Heads(Now, Strays, statuses)
  BY <1>1, <1>3, HeadsSplit
<1>5. /\ unesco.total_active = nation.students
      /\ unesco.dropouts = lost.dropouts + Heads(Now, Strays, DROPOUT_STATUSES)
  BY <1>1, <1>2, <1>4 DEF Unesco
<1>6. Total(unesco.by_type) = nation.schools
  <2> DEFINE K == {"PRIMARY", "SECONDARY", "COMBINED", "OTHER"}
             Type(s) == IF Now.geo[s].type \in {"PRIMARY", "SECONDARY", "COMBINED"}
                        THEN Now.geo[s].type ELSE "OTHER"
             h == [s \in ours |-> Type(s)]
  <2>1. unesco.by_type = [t \in K |-> Cardinality({s \in ours : Type(s) = t})]
    <3> DEFINE TypeIn(v, s) == IF v.geo[s].type \in {"PRIMARY", "SECONDARY", "COMBINED"}
                               THEN v.geo[s].type ELSE "OTHER"
    <3>1. unesco.by_type = [t \in K |->
              Cardinality({s \in Registered(Still[1]) : TypeIn(Still[1], s) = t})]
      BY DEF Unesco
    <3>2. Still[1] = Now
      BY <1>1
    <3> HIDE DEF unesco
    <3>3. QED
      BY <3>1, <3>2, Zenon
  <2>2. DOMAIN unesco.by_type = K
        /\ \A t \in K : unesco.by_type[t] = Cardinality({s \in ours : h[s] = t})
    <3>1. \A t \in K : {s \in ours : Type(s) = t} = {s \in ours : h[s] = t}
      OBVIOUS
    <3> HIDE DEF unesco, Type, h, K, ours
    <3>2. QED
      BY <2>1, <3>1
  <2>3. IsFiniteSet(K) /\ IsFiniteSet(ours)
    <3>1. IsFiniteSet({"PRIMARY"} \cup {"SECONDARY"}) /\ IsFiniteSet({"COMBINED"} \cup {"OTHER"})
      BY FS_Singleton, FS_Union
    <3>2. IsFiniteSet(K)
      <4>1. IsFiniteSet(({"PRIMARY"} \cup {"SECONDARY"}) \cup ({"COMBINED"} \cup {"OTHER"}))
        BY <3>1, FS_Union
      <4>2. K = ({"PRIMARY"} \cup {"SECONDARY"}) \cup ({"COMBINED"} \cup {"OTHER"})
        OBVIOUS
      <4> HIDE DEF K
      <4>3. QED
        BY <4>1, <4>2, Zenon
    <3>3. QED
      BY <1>1, <3>2, CountryIsFinite
  <2>4. {s \in ours : h[s] \in K} = ours
    OBVIOUS
  <2> HIDE DEF K, h, ours, unesco
  <2>5. Total(unesco.by_type) = Cardinality({s \in ours : h[s] \in K})
    BY <2>2, <2>3, TotalGroups
  <2>6. QED
    BY <1>2, <2>4, <2>5
<1>7. FieldSum(all, "active") = lost.active /\ FieldSum(all, "dropouts") = lost.dropouts
  <2>1. /\ DOMAIN all = ours
        /\ \A s \in ours : /\ all[s]["active"] = Heads(Now, {s}, {"ACTIVE"})
                           /\ all[s]["dropouts"] = Heads(Now, {s}, DROPOUT_STATUSES)
    BY <1>1 DEF Comparative, SchoolsIndex, Active
  <2>2. ours \subseteq SchoolIds
    BY <1>1, CountryIsFinite
  <2> HIDE DEF all, ours
  <2>3. /\ FieldSum(all, "active") = Heads(Now, ours, {"ACTIVE"})
        /\ FieldSum(all, "dropouts") = Heads(Now, ours, DROPOUT_STATUSES)
    <3>1. Country(Now) /\ DOMAIN all = ours
      BY <1>1, <2>1
    <3>2. \A s \in ours : all[s]["active"] = Heads(Now, {s}, {"ACTIVE"})
      BY <2>1
    <3>3. \A s \in ours : all[s]["dropouts"] = Heads(Now, {s}, DROPOUT_STATUSES)
      BY <2>1
    <3>4. ASSUME NEW statuses, NEW field,
                 \A s \in ours : all[s][field] = Heads(Now, {s}, statuses)
          PROVE  FieldSum(all, field) = Heads(Now, ours, statuses)
      BY <2>2, <3>1, <3>4, PupilsBySchool
    <3>5. QED
      BY <3>2, <3>3, <3>4
  <2>4. QED
    BY <1>2, <2>3 DEF Active
<1>8. ASSUME NEW scope \in {"province", "district"}
      PROVE  LET enrolled == Enrolment(scope, Still)
                 gone == Dropouts(scope, Still)
             IN /\ FieldSum(enrolled, "schools") = nation.schools
                /\ FieldSum(enrolled, "students") + Active(Now, Strays) = nation.students
                /\ FieldSum(gone, "dropouts") = lost.dropouts
                /\ \A c \in DOMAIN gone : gone[c].active = enrolled[c].students
  <2> DEFINE enrolled == Enrolment(scope, Still)
             gone == Dropouts(scope, Still)
             taught == {s \in ours : \E p \in Pupils : Now.pupil[p].school = s}
  <2>1. /\ DOMAIN enrolled = CodesOf(Now, scope, ours)
        /\ \A c \in DOMAIN enrolled :
               /\ enrolled[c]["schools"] = Cardinality(Of(Now, scope, c))
               /\ enrolled[c]["students"] = Heads(Now, Of(Now, scope, c), {"ACTIVE"})
    BY <1>1 DEF Enrolment, EnrolmentCodes, Active
  <2>2. /\ DOMAIN gone = CodesOf(Now, scope, taught)
        /\ \A c \in DOMAIN gone :
               /\ gone[c]["active"] = Heads(Now, Of(Now, scope, c), {"ACTIVE"})
               /\ gone[c]["dropouts"] = Heads(Now, Of(Now, scope, c), DROPOUT_STATUSES)
    BY <1>1 DEF Dropouts, Active
  <2>3. taught \subseteq ours
    OBVIOUS
  <2>4. \A p \in PupilsOf(Now, ours, DROPOUT_STATUSES) : Now.pupil[p].school \in taught
    BY DEF PupilsOf
  <2>5. \A p \in PupilsOf(Now, ours, {"ACTIVE"}) : Now.pupil[p].school \in ours
    BY DEF PupilsOf
  <2>6. CodesOf(Now, scope, taught) \subseteq CodesOf(Now, scope, ours)
    BY <2>3 DEF CodesOf
  <2> HIDE DEF enrolled, gone, taught
  <2>7. FieldSum(enrolled, "schools") = nation.schools
    <3>1. FieldSum(enrolled, "schools") = Cardinality(ours)
      BY <1>1, <2>1, SchoolsByCode
    <3>2. QED
      BY <1>2, <3>1
  <2>8. FieldSum(enrolled, "students") + Active(Now, Strays) = nation.students
    <3>1. FieldSum(enrolled, "students") = Heads(Now, ours, {"ACTIVE"})
      BY <1>1, <2>1, <2>5, PupilsByCode
    <3>2. QED
      BY <1>2, <1>4, <3>1 DEF Active
  <2>9. FieldSum(gone, "dropouts") = lost.dropouts
    <3>1. FieldSum(gone, "dropouts") = Heads(Now, ours, DROPOUT_STATUSES)
      BY <1>1, <2>2, <2>3, <2>4, PupilsByCode
    <3>2. QED
      BY <1>2, <3>1
  <2>10. \A c \in DOMAIN gone : gone[c].active = enrolled[c].students
    BY <2>1, <2>2, <2>6
  <2>11. QED
    BY <2>7, <2>8, <2>9, <2>10 DEF enrolled, gone
<1> HIDE DEF nation, lost, unesco, all
<1>9. QED
  BY <1>5, <1>6, <1>7, <1>8 DEF PupilsAddUp, nation, lost, unesco, all

LEMMA OneAtMost ==
  ASSUME NEW S, IsFiniteSet(S), Cardinality(S) <= 1, NEW a \in S, NEW b \in S
  PROVE  a = b
<1>1. IsFiniteSet(S \ {a}) /\ Cardinality(S \ {a}) = Cardinality(S) - 1
      /\ Cardinality(S) \in Nat /\ Cardinality(S \ {a}) \in Nat
  BY FS_RemoveElement, FS_CardinalityType
<1>2. Cardinality(S \ {a}) = 0
  BY <1>1
<1>3. S \ {a} = {}
  BY <1>1, <1>2, FS_EmptySet
<1>4. QED
  BY <1>3

LEMMA CountSome ==
  ASSUME NEW S, IsFiniteSet(S)
  PROVE  (Cardinality(S) > 0 <=> S # {}) /\ (Cardinality(S) = 0 <=> S = {})
BY FS_EmptySet, FS_CardinalityType

LEMMA CountSub ==
  ASSUME NEW S, IsFiniteSet(S), NEW T, T \subseteq S
  PROVE  IsFiniteSet(T) /\ Cardinality(T) \in Nat /\ Cardinality(T) <= Cardinality(S)
BY FS_Subset, FS_CardinalityType

LEMMA CountBoth ==
  ASSUME NEW S, IsFiniteSet(S), NEW T, IsFiniteSet(T)
  PROVE  /\ IsFiniteSet(S \cup T) /\ Cardinality(S \cup T) \in Nat
         /\ Cardinality(S) \in Nat /\ Cardinality(T) \in Nat
         /\ Cardinality(S \cup T) <= Cardinality(S) + Cardinality(T)
<1>1. /\ IsFiniteSet(S \cup T)
      /\ Cardinality(S \cup T) = Cardinality(S) + Cardinality(T) - Cardinality(S \cap T)
  BY FS_Union
<1>2. Cardinality(S \cap T) \in Nat
  BY FS_Intersection, FS_CardinalityType
<1>3. /\ Cardinality(S \cup T) \in Nat /\ Cardinality(S) \in Nat /\ Cardinality(T) \in Nat
  BY <1>1, FS_CardinalityType
<1>4. QED
  BY <1>1, <1>2, <1>3

LEMMA TeachersAddUpNow ==
  ASSUME CountryTypeOK
  PROVE  TeachersAddUp
<1> DEFINE nation == Ptr("national", Still)[NoCode]
           ours == Registered(Now)
           everyone == TeachersOf(Now, SchoolIds)
           strays == TeachersOf(Now, Strays)
<1>1. Country(Now) /\ \A q \in 1..6 : Still[q] = Now
  BY NowIsACountry, StillIsNow
<1>2. /\ nation.students = Active(Now, SchoolIds)
      /\ nation.teachers = Teachers(Now, SchoolIds)
  BY <1>1 DEF Ptr
<1>3. Unesco(Still).teachers = Teachers(Now, SchoolIds)
  BY <1>1 DEF Unesco
<1>4. ours \cup Strays = SchoolIds /\ ours \cap Strays = {}
  BY DEF Strays, Registered
<1>5. Active(Now, SchoolIds) = Active(Now, ours) + Active(Now, Strays)
  BY <1>1, <1>4, HeadsSplit DEF Active
<1>6. /\ IsFiniteSet(everyone) /\ IsFiniteSet(strays)
      /\ nation.teachers = Cardinality(everyone) /\ nation.teachers \in Nat
      /\ Teachers(Now, Strays) = Cardinality(strays) /\ Teachers(Now, Strays) \in Nat
  <2> HIDE DEF nation
  <2>1. QED
    BY <1>1, <1>2, CountryIsFinite, HeadsCount
<1>7. ASSUME NEW scope \in {"province", "district"}
      PROVE  LET rows == Ptr(scope, Still)
                 regions(t) == {Code(Now, a[1], scope) : a \in {b \in post : b[2] = t}}
             IN /\ FieldSum(rows, "students") + Active(Now, Strays) = nation.students
                /\ nation.teachers <= FieldSum(rows, "teachers") + Teachers(Now, Strays)
                /\ \A c \in DOMAIN rows : rows[c].teachers <= nation.teachers
                /\ Teachers(Now, Strays) = 0 /\ (\A t \in Staff : Cardinality(regions(t)) <= 1) =>
                       nation.teachers = FieldSum(rows, "teachers")
  <2> DEFINE rows == Ptr(scope, Still)
             regions(t) == {Code(Now, a[1], scope) : a \in {b \in post : b[2] = t}}
             active == {s \in ours : Active(Now, {s}) > 0}
             manned == {s \in ours : Teachers(Now, {s}) > 0}
             X == active \cup manned
             K == CodesOf(Now, scope, X)
             P == [c \in K |-> TeachersOf(Now, Of(Now, scope, c))]
             G == [c \in K |-> rows[c]["teachers"]]
  <2>1. /\ DOMAIN rows = CodesOf(Now, scope, active) \cup CodesOf(Now, scope, manned)
        /\ \A c \in DOMAIN rows :
               /\ rows[c]["students"] = Heads(Now, Of(Now, scope, c), {"ACTIVE"})
               /\ rows[c]["teachers"] = Teachers(Now, Of(Now, scope, c))
    <3> DEFINE some(v) == {s \in Registered(v) : Active(v, {s}) > 0}
               staffed(v) == {s \in Registered(v) : Teachers(v, {s}) > 0}
               all(v, w) == [c \in CodesOf(v, scope, some(v)) \cup CodesOf(w, scope, staffed(w)) |->
                                [students |-> Active(v, Of(v, scope, c)),
                                 teachers |-> Teachers(w, Of(w, scope, c))]]
    <3>1. rows = all(Still[1], Still[2])
      BY DEF Ptr
    <3>2. Still[1] = Now /\ Still[2] = Now
      BY <1>1
    <3> HIDE DEF all, rows
    <3>3. rows = all(Now, Now)
      BY <3>1, <3>2, Zenon
    <3>4. QED
      BY <3>3 DEF Active, all
  <2>2. K = CodesOf(Now, scope, active) \cup CodesOf(Now, scope, manned)
    BY DEF CodesOf
  <2>3. DOMAIN rows = K
    BY <2>1, <2>2
  <2>4. X \subseteq ours /\ ours \subseteq SchoolIds
    BY <1>1, CountryIsFinite
  <2>5. \A p \in PupilsOf(Now, ours, {"ACTIVE"}) : Now.pupil[p].school \in X
    <3>1. SUFFICES ASSUME NEW p \in PupilsOf(Now, ours, {"ACTIVE"})
                   PROVE  Active(Now, {Now.pupil[p].school}) > 0 /\ Now.pupil[p].school \in ours
      OBVIOUS
    <3> DEFINE s == Now.pupil[p].school
    <3>2. p \in PupilsOf(Now, {s}, {"ACTIVE"}) /\ s \in ours
      BY DEF PupilsOf
    <3> HIDE DEF s
    <3>3. IsFiniteSet(PupilsOf(Now, {s}, {"ACTIVE"}))
      BY <1>1, CountryIsFinite
    <3>4. Cardinality(PupilsOf(Now, {s}, {"ACTIVE"})) > 0
      BY <3>2, <3>3, CountSome
    <3>5. QED
      BY <1>1, <3>2, <3>4, HeadsCount DEF Active, s
  <2>6. FieldSum(rows, "students") + Active(Now, Strays) = nation.students
    <3> HIDE DEF rows, X, ours, K
    <3>1. FieldSum(rows, "students") = Heads(Now, ours, {"ACTIVE"})
      <4>1. \A c \in DOMAIN rows : rows[c]["students"] = Heads(Now, Of(Now, scope, c), {"ACTIVE"})
        BY <2>1
      <4>2. DOMAIN rows = CodesOf(Now, scope, X)
        BY <2>3 DEF K
      <4>3. X \subseteq Registered(Now)
            /\ \A p \in PupilsOf(Now, Registered(Now), {"ACTIVE"}) : Now.pupil[p].school \in X
        BY <2>4, <2>5 DEF ours
      <4>4. FieldSum(rows, "students") = Heads(Now, Registered(Now), {"ACTIVE"})
        BY <1>1, <4>1, <4>2, <4>3, PupilsByCode
      <4>5. QED
        BY <4>4 DEF ours
    <3>2. QED
      BY <1>2, <1>5, <3>1 DEF Active
  <2>7. \A c \in K : /\ P[c] \subseteq everyone /\ IsFiniteSet(P[c]) /\ G[c] = Cardinality(P[c])
                     /\ rows[c].teachers = Cardinality(P[c])
    <3>1. \A c \in K : TeachersOf(Now, Of(Now, scope, c)) \subseteq everyone
      BY DEF TeachersOf, Of, Registered
    <3>2. \A c \in K : IsFiniteSet(TeachersOf(Now, Of(Now, scope, c)))
      BY <1>1, CountryIsFinite
    <3>3. \A c \in K : Teachers(Now, Of(Now, scope, c)) = Cardinality(TeachersOf(Now, Of(Now, scope, c)))
      BY <1>1, HeadsCount
    <3>4. \A c \in K : rows[c]["teachers"] = Teachers(Now, Of(Now, scope, c))
      BY <2>1, <2>3
    <3> HIDE DEF K, everyone, rows
    <3>5. QED
      BY <3>1, <3>2, <3>3, <3>4
  <2>8. everyone = Pool(P, K) \cup strays
    <3>1. \A b \in post : b[1] \in SchoolIds
      BY <1>1 DEF Country, Now
    <3>2. ASSUME NEW b \in post, b[1] \in ours
          PROVE  b[1] \in Of(Now, scope, Code(Now, b[1], scope)) /\ Code(Now, b[1], scope) \in K
      <4> DEFINE s == b[1]
      <4>1. s \in SchoolIds /\ b[2] \in TeachersOf(Now, {s})
        BY <3>1 DEF TeachersOf, Now
      <4>2. Teachers(Now, {s}) > 0
        <5>1. IsFiniteSet(TeachersOf(Now, {s})) /\ TeachersOf(Now, {s}) # {}
          BY <1>1, <4>1, CountryIsFinite
        <5>2. Cardinality(TeachersOf(Now, {s})) > 0
          BY <5>1, CountSome
        <5>3. QED
          BY <1>1, <5>2, HeadsCount
      <4>3. s \in X
        BY <3>2, <4>2
      <4>4. QED
        BY <3>2, <4>3 DEF Of, CodesOf
    <3>3. Pool(P, K) \subseteq everyone /\ strays \subseteq everyone
      BY <2>7 DEF Pool, TeachersOf, Strays
    <3>4. ASSUME NEW t \in everyone PROVE t \in Pool(P, K) \cup strays
      <4>1. PICK b \in post : b[2] = t /\ b[1] \in SchoolIds
        BY <3>4 DEF TeachersOf, Now
      <4>2. CASE b[1] \in Strays
        BY <4>1, <4>2 DEF TeachersOf, Now
      <4>3. CASE b[1] \in ours
        <5> DEFINE c == Code(Now, b[1], scope)
        <5>1. c \in K /\ b[1] \in Of(Now, scope, c)
          BY <3>2, <4>3
        <5> HIDE DEF c, K
        <5>2. t \in P[c]
          BY <4>1, <5>1 DEF TeachersOf, Now
        <5> HIDE DEF P
        <5>3. QED
          BY <5>1, <5>2 DEF Pool
      <4>4. QED
        BY <1>4, <4>1, <4>2, <4>3
    <3>5. QED
      BY <3>3, <3>4
  <2>9. IsFiniteSet(K) /\ FieldSum(rows, "teachers") = SumOver(G, K)
    <3>1. IsFiniteSet(K)
      BY <1>1, <2>4, CodesAreFinite
    <3>2. FieldSum(rows, "teachers") = SumOver([c \in DOMAIN rows |-> rows[c]["teachers"]], DOMAIN rows)
      BY FieldSumIs
    <3>3. QED
      BY <2>3, <3>1, <3>2, Zenon
  <2>10. /\ Whole(G, K) /\ IsFiniteSet(Pool(P, K)) /\ Cardinality(Pool(P, K)) <= SumOver(G, K)
         /\ (\A i, j \in K : i # j => P[i] \cap P[j] = {}) =>
                SumOver(G, K) = Cardinality(Pool(P, K))
    <3>1. \A c \in K : IsFiniteSet(P[c]) /\ G[c] = Cardinality(P[c])
      BY <2>7
    <3> HIDE DEF P, G, K
    <3>2. QED
      BY <2>9, <3>1, CountCover
  <2>11. SumOver(G, K) \in Int
    <3> HIDE DEF G, K
    <3>1. QED
      BY <2>10, SumFirst
  <2>12. nation.teachers <= FieldSum(rows, "teachers") + Teachers(Now, Strays)
    <3>1. /\ Cardinality(Pool(P, K) \cup strays) <= Cardinality(Pool(P, K)) + Cardinality(strays)
          /\ Cardinality(Pool(P, K)) \in Nat
      BY <1>6, <2>10, CountBoth
    <3>2. Cardinality(everyone) = Cardinality(Pool(P, K) \cup strays)
      BY <2>8, Zenon
    <3> HIDE DEF everyone, strays, P, K, G, nation, rows
    <3>3. QED
      BY <1>6, <2>9, <2>10, <2>11, <3>1, <3>2
  <2>13. \A c \in DOMAIN rows : rows[c].teachers <= nation.teachers
    <3> HIDE DEF everyone, P, K, G, nation, rows
    <3>1. \A c \in K : Cardinality(P[c]) <= Cardinality(everyone)
      BY <1>6, <2>7, CountSub
    <3>2. QED
      BY <1>6, <2>3, <2>7, <3>1
  <2>14. ASSUME Teachers(Now, Strays) = 0, \A t \in Staff : Cardinality(regions(t)) <= 1
         PROVE  nation.teachers = FieldSum(rows, "teachers")
    <3>1. strays = {}
      <4> HIDE DEF strays
      <4>1. QED
        BY <1>6, <2>14, CountSome
    <3>2. \A t \in Staff : IsFiniteSet(regions(t))
      <4>1. IsFiniteSet(SchoolIds \X Staff)
        BY MinistryAssumption, FS_Product
      <4>2. ASSUME NEW t \in Staff PROVE IsFiniteSet(regions(t))
        <5> DEFINE at == {b \in post : b[2] = t}
                   code == [a \in at |-> Code(Now, a[1], scope)]
        <5>1. IsFiniteSet(at)
          BY <1>1, <4>1, FS_Subset DEF Country, Now
        <5>2. regions(t) = {code[a] : a \in at}
          OBVIOUS
        <5> HIDE DEF at, code, regions
        <5>3. QED
          BY <5>1, <5>2, FiniteImage
      <4>3. QED
        BY <4>2
    <3>3. ASSUME NEW i \in K, NEW j \in K, NEW t \in P[i] \cap P[j] PROVE i = j
      <4>1. t \in Staff
        BY <1>1, <2>7, <3>3, CountryIsFinite
      <4>2. PICK a \in post : a[2] = t /\ Code(Now, a[1], scope) = i
        BY <3>3 DEF TeachersOf, Of, Now
      <4>3. PICK b \in post : b[2] = t /\ Code(Now, b[1], scope) = j
        BY <3>3 DEF TeachersOf, Of, Now
      <4>4. i \in regions(t) /\ j \in regions(t)
        BY <4>2, <4>3
      <4> HIDE DEF regions
      <4>5. QED
        BY <2>14, <3>2, <4>1, <4>4, OneAtMost
    <3>4. SumOver(G, K) = Cardinality(Pool(P, K))
      <4> HIDE DEF P, K, G
      <4>1. QED
        BY <2>10, <3>3
    <3>5. everyone = Pool(P, K)
      <4> HIDE DEF everyone, strays, P, K
      <4>1. QED
        BY <2>8, <3>1
    <3>6. QED
      BY <1>6, <2>9, <3>4, <3>5, Zenon
  <2>15. QED
    BY <2>6, <2>12, <2>13, <2>14 DEF rows, regions
<1>8. nation.teachers = Unesco(Still).teachers
  BY <1>2, <1>3
<1> HIDE DEF nation
<1>9. QED
  BY <1>7, <1>8 DEF TeachersAddUp, nation

--------------------------------------------------------------------------------
\* What a row of a table holds.
LEMMA RowsHold ==
  ASSUME NEW v, Country(v), NEW i \in Entries, v.entry[i] # Null
  PROVE  /\ v.entry[i].table = "sponsorship" =>
                v.entry[i].committed \in Nat /\ v.entry[i].received \in Nat
         /\ v.entry[i].table = "compliance" =>
                v.entry[i].status \in {"draft", "submitted", "accepted", "rejected"}
         /\ v.entry[i].table = "invoice" => v.entry[i] \in InvoiceRow
<1>1. v.entry[i] \in EntryRow
  BY DEF Country
<1>2. QED
  BY <1>1 DEF EntryRow, InvoiceRow

\* Rows whose field is a sum over the members of X of one key add up to the sum over those
\* whose key has a row.
LEMMA MoneyGroups ==
  ASSUME NEW answer, NEW field, NEW K, DOMAIN answer = K, IsFiniteSet(K),
         NEW F, NEW X, Whole(F, X), NEW h,
         \A k \in K : answer[k][field] = SumOver(F, KeyIs(X, h, k))
  PROVE  FieldSum(answer, field) = SumOver(F, KeyIn(X, h, K))
<1> DEFINE G == [k \in DOMAIN answer |-> answer[k][field]]
<1>1. FieldSum(answer, field) = SumOver(G, K)
  BY FieldSumIs
<1>2. \A k \in K : G[k] = SumOver(F, KeyIs(X, h, k))
  OBVIOUS
<1> HIDE DEF G
<1>3. SumOver(G, K) = SumOver(F, KeyIn(X, h, K))
  BY <1>2, SumGroups
<1>4. QED
  BY <1>1, <1>3

\* The sum of the values F takes on a part of X.
LEMMA TotalOfPart ==
  ASSUME NEW F, NEW X, Whole(F, X), NEW U, U \subseteq X, NEW f, DOMAIN f = U,
         \A x \in U : f[x] = F[x]
  PROVE  Total(f) = SumOver(F, U) /\ Total(f) \in Int
<1>1. Whole(F, U)
  BY WholePart
<1>2. Total(f) = SumOver(f, U)
  BY TotalIs
<1>3. SumOver(f, U) = SumOver(F, U) /\ SumOver(F, U) \in Int
  BY <1>1, SumSame, SumFirst
<1>4. QED
  BY <1>2, <1>3

LEMMA AttendanceAddsUp ==
  ASSUME CountryTypeOK, NEW scope \in {"province", "district"}, NEW field \in {"records", "present"}
  PROVE  FieldSum(Attendance(scope, 1, Still), field)
             = Attendance("national", 1, Still)[NoCode][field]
<1> DEFINE v == Now
           rows == Attendance(scope, 1, Still)
           In(schools) == {i \in Rows(v, "attendance") :
                              /\ v.entry[i].school \in schools /\ v.entry[i].day \in 1..2
                              /\ field = "present" => v.entry[i].status = "P"}
           marked == {s \in Registered(v) : Attended(v, {s}, 1, 2).records > 0}
           K == CodesOf(v, scope, marked)
           X == In(Registered(v))
           h == [i \in Entries |-> Code(v, v.entry[i].school, scope)]
<1>1. Country(v) /\ Still[1] = v
  BY NowIsACountry, StillIsNow
<1>2. \A schools : Attended(v, schools, 1, 2)[field] = Cardinality(In(schools))
  <2>1. CASE field = "records"
    BY <2>1 DEF Attended
  <2>2. CASE field = "present"
    <3>1. ASSUME NEW schools PROVE Attended(v, schools, 1, 2)[field] = Cardinality(In(schools))
      <4> DEFINE there == {i \in Rows(v, "attendance") :
                              v.entry[i].school \in schools /\ v.entry[i].day \in 1..2}
      <4>1. Attended(v, schools, 1, 2)[field] = Cardinality({i \in there : v.entry[i].status = "P"})
        BY <2>2 DEF Attended
      <4>2. {i \in there : v.entry[i].status = "P"} = In(schools)
        BY <2>2
      <4> HIDE DEF In, there, v
      <4>3. QED
        BY <4>1, <4>2
    <3>2. QED
      BY <3>1
  <2>3. QED
    BY <2>1, <2>2
<1>3. rows = [c \in K |-> Attended(v, Of(v, scope, c), 1, 2)]
      /\ Attendance("national", 1, Still)[NoCode] = Attended(v, Registered(v), 1, 2)
  <2> HIDE DEF v
  <2>1. rows = [c \in CodesOf(Still[1], scope,
                        {s \in Registered(Still[1]) : Attended(Still[1], {s}, 1, 2).records > 0})
                    |-> Attended(Still[1], Of(Still[1], scope, c), 1, 2)]
    BY DEF Attendance
  <2> HIDE DEF rows
  <2>2. rows = [c \in K |-> Attended(v, Of(v, scope, c), 1, 2)]
    BY <1>1, <2>1, Zenon
  <2>3. Attendance("national", 1, Still)[NoCode] = Attended(v, Registered(v), 1, 2)
    BY <1>1 DEF Attendance
  <2>4. QED
    BY <2>2, <2>3
<1>4. \A c \in K : In(Of(v, scope, c)) = {i \in X : h[i] = c}
  BY DEF Of, Rows
<1>5. \A c \in K : rows[c][field] = Cardinality({i \in X : h[i] = c})
  <2>1. \A c \in K : rows[c][field] = Cardinality(In(Of(v, scope, c)))
    <3> HIDE DEF K, In, v, rows
    <3>1. QED
      BY <1>2, <1>3
  <2> HIDE DEF K, In, v, rows, X, h
  <2>2. QED
    BY <1>4, <2>1
<1>6. {i \in X : h[i] \in K} = X
  <2>1. ASSUME NEW i \in X PROVE h[i] \in K
    <3> DEFINE s == v.entry[i].school
    <3>1. /\ i \in Entries /\ s \in Registered(v)
          /\ i \in {j \in Rows(v, "attendance") : v.entry[j].school \in {s} /\ v.entry[j].day \in 1..2}
      BY DEF Rows
    <3>2. Attended(v, {s}, 1, 2).records > 0
      <4> DEFINE at == {j \in Rows(v, "attendance") : v.entry[j].school \in {s} /\ v.entry[j].day \in 1..2}
      <4>1. Attended(v, {s}, 1, 2).records = Cardinality(at)
        BY DEF Attended
      <4>2. IsFiniteSet(at) /\ at # {}
        <5>1. at \subseteq Rows(v, "attendance")
          OBVIOUS
        <5>2. IsFiniteSet(Rows(v, "attendance"))
          BY <1>1, CountryIsFinite
        <5>3. QED
          BY <3>1, <5>1, <5>2, FS_Subset
      <4> HIDE DEF at
      <4>3. QED
        BY <4>1, <4>2, CountSome
    <3>3. s \in marked
      BY <3>1, <3>2
    <3>4. QED
      BY <3>1, <3>3 DEF CodesOf
  <2>2. QED
    BY <2>1
<1>7. IsFiniteSet(K) /\ IsFiniteSet(X) /\ DOMAIN rows = K
  <2>1. marked \subseteq SchoolIds
    BY DEF Registered
  <2>2. IsFiniteSet(K)
    BY <1>1, <2>1, CodesAreFinite
  <2>3. X \subseteq Rows(v, "attendance") /\ IsFiniteSet(Rows(v, "attendance"))
    BY <1>1, CountryIsFinite
  <2>4. QED
    BY <1>3, <2>2, <2>3, FS_Subset
<1> HIDE DEF K, X, h, rows
<1>8. FieldSum(rows, field) = Cardinality({i \in X : h[i] \in K})
  BY <1>5, <1>7, FieldGroups
<1>9. QED
  BY <1>2, <1>3, <1>6, <1>8 DEF rows, X

LEMMA PassesAddUp ==
  ASSUME CountryTypeOK, NEW scope \in {"province", "district", "national"}
  PROVE  /\ FieldSum(PassRate(scope, Still), "graded") =
                Cardinality({i \in Rows(Now, "mark") : entry[i].marks # Absent})
         /\ FieldSum(PassRate(scope, Still), "passes") =
                Cardinality({i \in Rows(Now, "mark") :
                                 entry[i].marks # Absent /\ entry[i].marks \in 1..2})
<1> DEFINE v == Now
           rows == PassRate(scope, Still)
           all == Rows(v, "mark")
           key(i) == <<IF scope = "national" THEN NoCode ELSE Code(v, v.entry[i].school, scope),
                       v.entry[i].subject>>
           h == [i \in Entries |-> key(i)]
           K == {key(i) : i \in all}
           graded == {i \in all : v.entry[i].marks # Absent}
           passed == {i \in graded : v.entry[i].marks \in 1..2}
<1>1. Country(v) /\ Still[1] = v /\ Still[3] = v
  BY NowIsACountry, StillIsNow
<1>2. all \subseteq Entries /\ IsFiniteSet(all)
  BY <1>1, CountryIsFinite DEF Rows
<1>3. /\ DOMAIN rows = K
      /\ \A k \in K : /\ rows[k]["graded"] = Cardinality({i \in graded : h[i] = k})
                      /\ rows[k]["passes"] = Cardinality({i \in passed : h[i] = k})
  <2> DEFINE Key(u, w, i) ==
                 <<IF scope = "national" THEN NoCode ELSE Code(w, u.entry[i].school, scope),
                   u.entry[i].subject>>
             Grades(u, w, k) == {i \in Rows(u, "mark") : Key(u, w, i) = k /\ u.entry[i].marks # Absent}
             Table(u, w) == [k \in {Key(u, w, i) : i \in Rows(u, "mark")} |->
                 [graded |-> Cardinality(Grades(u, w, k)),
                  passes |-> Cardinality({i \in Grades(u, w, k) : u.entry[i].marks \in 1..2})]]
  <2>1. rows = Table(Still[1], Still[3])
    BY DEF PassRate, IsGraded
  <2> HIDE DEF Table, rows
  <2>2. rows = Table(v, v)
    BY <1>1, <2>1, Zenon
  <2>3. {Key(v, v, i) : i \in Rows(v, "mark")} = K
    OBVIOUS
  <2>4. DOMAIN Table(v, v) = K
    BY <2>3 DEF Table
  <2>5. \A k \in K : /\ Table(v, v)[k]["graded"] = Cardinality(Grades(v, v, k))
                     /\ Table(v, v)[k]["passes"] =
                            Cardinality({i \in Grades(v, v, k) : v.entry[i].marks \in 1..2})
    BY <2>3 DEF Table
  <2>6. \A k \in K : /\ Grades(v, v, k) = {i \in graded : h[i] = k}
                     /\ {i \in Grades(v, v, k) : v.entry[i].marks \in 1..2}
                            = {i \in passed : h[i] = k}
    BY <1>2
  <2> HIDE DEF Grades, Key, K, h, graded, passed, v
  <2>7. QED
    BY <2>2, <2>4, <2>5, <2>6
<1>4. {i \in graded : h[i] \in K} = graded /\ {i \in passed : h[i] \in K} = passed
  BY <1>2
<1>5. IsFiniteSet(K) /\ IsFiniteSet(graded) /\ IsFiniteSet(passed)
  <2>1. K = {h[i] : i \in all}
    BY <1>2
  <2>2. IsFiniteSet(graded) /\ IsFiniteSet(passed)
    BY <1>2, FS_Subset
  <2> HIDE DEF K, h, all
  <2>3. QED
    BY <1>2, <2>1, <2>2, FiniteImage
<1>6. FieldSum(rows, "graded") = Cardinality({i \in graded : h[i] \in K})
  <2>1. DOMAIN rows = K /\ \A k \in K : rows[k]["graded"] = Cardinality({i \in graded : h[i] = k})
    BY <1>3
  <2> HIDE DEF rows, K, h, graded
  <2>2. QED
    BY <1>5, <2>1, FieldGroups
<1>7. FieldSum(rows, "passes") = Cardinality({i \in passed : h[i] \in K})
  <2>1. DOMAIN rows = K /\ \A k \in K : rows[k]["passes"] = Cardinality({i \in passed : h[i] = k})
    BY <1>3
  <2> HIDE DEF rows, K, h, passed
  <2>2. QED
    BY <1>5, <2>1, FieldGroups
<1>8. /\ graded = {i \in Rows(Now, "mark") : entry[i].marks # Absent}
      /\ passed = {i \in Rows(Now, "mark") : entry[i].marks # Absent /\ entry[i].marks \in 1..2}
  BY DEF Now
<1> HIDE DEF rows, graded, passed, K, h
<1>9. QED
  BY <1>4, <1>6, <1>7, <1>8 DEF rows

LEMMA DonorsAddUp ==
  ASSUME CountryTypeOK, NEW scope \in {"province", "district"}
  PROVE  \A f \in {"sponsorships", "committed", "received"} :
             FieldSum(Donors(scope, Still), f) = Donors("national", Still)[NoCode][f]
<1> DEFINE v == Now
           rows == Donors(scope, Still)
           nation == Donors("national", Still)[NoCode]
           X == Rows(v, "sponsorship")
           h == [i \in Entries |-> Code(v, v.entry[i].school, scope)]
           K == {h[i] : i \in X}
           F(field) == [i \in X |-> IF field = "committed" THEN v.entry[i].committed
                                    ELSE v.entry[i].received]
<1>1. Country(v) /\ Still[1] = v /\ Still[2] = v
  BY NowIsACountry, StillIsNow
<1>2. X \subseteq Entries /\ IsFiniteSet(X) /\ IsFiniteSet(K)
  <2>1. X \subseteq Entries /\ IsFiniteSet(X)
    BY <1>1, CountryIsFinite DEF Rows
  <2> HIDE DEF X, h
  <2>2. QED
    BY <2>1, FiniteImage
<1>3. \A field : Whole(F(field), X)
  BY <1>1, <1>2, RowsHold DEF Whole, Rows
<1>4. /\ DOMAIN rows = K
      /\ \A k \in K :
             /\ rows[k]["sponsorships"] = Cardinality({i \in X : h[i] = k})
             /\ rows[k]["committed"] = Total([i \in {j \in X : h[j] = k} |-> v.entry[i].committed])
             /\ rows[k]["received"] = Total([i \in {j \in X : h[j] = k} |-> v.entry[i].received])
  <2> DEFINE at(u, w, k) == {i \in Rows(w, "sponsorship") : Code(u, w.entry[i].school, scope) = k}
             Table(u, w) == [k \in {Code(u, w.entry[i].school, scope) : i \in Rows(w, "sponsorship")} |->
                 [sponsorships |-> Cardinality(at(u, w, k)),
                  committed |-> Total([i \in at(u, w, k) |-> w.entry[i].committed]),
                  received |-> Total([i \in at(u, w, k) |-> w.entry[i].received])]]
  <2>1. rows = Table(Still[1], Still[2])
    BY DEF Donors
  <2> HIDE DEF Table, rows
  <2>2. rows = Table(v, v)
    BY <1>1, <2>1, Zenon
  <2>3. {Code(v, v.entry[i].school, scope) : i \in X} = K
    BY <1>2
  <2>4. \A k : at(v, v, k) = {j \in X : h[j] = k}
    BY <1>2
  <2>5. /\ DOMAIN Table(v, v) = K
        /\ \A k \in K :
             /\ Table(v, v)[k]["sponsorships"] = Cardinality(at(v, v, k))
             /\ Table(v, v)[k]["committed"] = Total([i \in at(v, v, k) |-> v.entry[i].committed])
             /\ Table(v, v)[k]["received"] = Total([i \in at(v, v, k) |-> v.entry[i].received])
    BY <2>3 DEF Table
  <2> HIDE DEF at, K, X, h, v
  <2>6. \A k \in K :
             /\ Table(v, v)[k]["sponsorships"] = Cardinality({j \in X : h[j] = k})
             /\ Table(v, v)[k]["committed"] = Total([i \in {j \in X : h[j] = k} |-> v.entry[i].committed])
             /\ Table(v, v)[k]["received"] = Total([i \in {j \in X : h[j] = k} |-> v.entry[i].received])
    BY <2>4, <2>5, Zenon
  <2>7. QED
    BY <2>2, <2>5, <2>6
<1>5. /\ nation["sponsorships"] = Cardinality(X)
      /\ nation["committed"] = Total([i \in X |-> v.entry[i].committed])
      /\ nation["received"] = Total([i \in X |-> v.entry[i].received])
  <2> DEFINE all(w) == [sponsorships |-> Cardinality({i \in Rows(w, "sponsorship") : NoCode = NoCode}),
                        committed |-> Total([i \in {j \in Rows(w, "sponsorship") : NoCode = NoCode}
                                                |-> w.entry[i].committed]),
                        received |-> Total([i \in {j \in Rows(w, "sponsorship") : NoCode = NoCode}
                                               |-> w.entry[i].received])]
  <2>1. nation = all(Still[2])
    BY DEF Donors
  <2>2. {i \in X : NoCode = NoCode} = X
    OBVIOUS
  <2> HIDE DEF nation, all
  <2>3. nation = all(v)
    BY <1>1, <2>1, Zenon
  <2>4. nation = [sponsorships |-> Cardinality(X),
                  committed |-> Total([i \in X |-> v.entry[i].committed]),
                  received |-> Total([i \in X |-> v.entry[i].received])]
    BY <2>2, <2>3, Zenon DEF all
  <2> HIDE DEF X, v
  <2>5. QED
    BY <2>4
<1>6. KeyIn(X, h, K) = X /\ {i \in X : h[i] \in K} = X
  BY DEF KeyIn
<1>7. FieldSum(rows, "sponsorships") = nation["sponsorships"]
  <2>1. DOMAIN rows = K /\ \A k \in K : rows[k]["sponsorships"] = Cardinality({i \in X : h[i] = k})
    BY <1>4
  <2> HIDE DEF rows, K, h, X, v, nation
  <2>2. FieldSum(rows, "sponsorships") = Cardinality({i \in X : h[i] \in K})
    BY <1>2, <2>1, FieldGroups
  <2>3. QED
    BY <1>5, <1>6, <2>2
<1>8. ASSUME NEW f \in {"committed", "received"} PROVE FieldSum(rows, f) = nation[f]
  <2> DEFINE G == F(f)
             Of1(U) == [i \in U |-> IF f = "committed" THEN v.entry[i].committed
                                    ELSE v.entry[i].received]
  <2>1. \A U \in SUBSET X : \A i \in U : Of1(U)[i] = G[i]
    OBVIOUS
  <2>2. \A k \in K : rows[k][f] = Total(Of1(KeyIs(X, h, k)))
    <3>1. \A k \in K : /\ rows[k]["committed"] = Total([i \in KeyIs(X, h, k) |-> v.entry[i].committed])
                       /\ rows[k]["received"] = Total([i \in KeyIs(X, h, k) |-> v.entry[i].received])
      BY <1>4 DEF KeyIs
    <3>2. CASE f = "committed"
      BY <3>1, <3>2
    <3>3. CASE f = "received"
      BY <3>1, <3>3
    <3>4. QED
      BY <3>2, <3>3
  <2>3. nation[f] = Total(Of1(X))
    <3>1. CASE f = "committed"
      BY <1>5, <3>1
    <3>2. CASE f = "received"
      BY <1>5, <3>2
    <3>3. QED
      BY <3>1, <3>2
  <2>4. Whole(G, X)
    BY <1>3
  <2>5. \A U \in SUBSET X : DOMAIN Of1(U) = U
    OBVIOUS
  <2> HIDE DEF F, G, Of1, K, X, h, rows, nation, v
  <2>6. \A U \in SUBSET X : Total(Of1(U)) = SumOver(G, U)
    BY <2>1, <2>4, <2>5, TotalOfPart
  <2>7. \A k \in K : KeyIs(X, h, k) \in SUBSET X
    BY DEF KeyIs
  <2>8. \A k \in K : rows[k][f] = SumOver(G, KeyIs(X, h, k))
    BY <2>2, <2>6, <2>7
  <2>9. FieldSum(rows, f) = SumOver(G, KeyIn(X, h, K))
    BY <1>2, <1>4, <2>4, <2>8, MoneyGroups
  <2>10. QED
    BY <1>6, <2>3, <2>6, <2>9
<1> HIDE DEF rows, nation
<1>9. QED
  BY <1>7, <1>8 DEF rows, nation

LEMMA EntriesAddUpNow ==
  ASSUME CountryTypeOK
  PROVE  EntriesAddUp
<1>1. ASSUME NEW scope \in {"province", "district"}
      PROVE  \A f \in {"records", "present"} : FieldSum(Attendance(scope, 1, Still), f)
                                                  = Attendance("national", 1, Still)[NoCode][f]
  BY AttendanceAddsUp
<1>2. QED
  BY <1>1, PassesAddUp, DonorsAddUp DEF EntriesAddUp

LEMMA WhatIsLeft ==
  ASSUME NEW a \in Nat, NEW b \in Nat, b <= a
  PROVE  Max({0, a - b}) = a - b
<1>1. a - b \in {0, a - b} /\ \A y \in {0, a - b} : a - b >= y
  OBVIOUS
<1>2. \A x \in {0, a - b} : (\A y \in {0, a - b} : x >= y) => x = a - b
  OBVIOUS
<1>3. QED
  BY <1>1, <1>2 DEF Max

\* What is left to pay of each invoice.
Owed(v) == [i \in Rows(v, "invoice") |-> v.entry[i].total - v.entry[i].paid]

LEMMA FeesAddUp ==
  ASSUME NEW v, Country(v), Still[1] = v
  PROVE  /\ Whole(Owed(v), Rows(v, "invoice"))
         /\ FieldSum(Fees(Null, Still), "outstanding") = SumOver(Owed(v), Rows(v, "invoice"))
<1> DEFINE F == Owed(v)
           rows == Fees(Null, Still)
           X == Rows(v, "invoice")
           h == [i \in Entries |-> v.entry[i].school]
           K == {t \in SchoolIds : KeyIs(X, h, t) # {}}
           total == [i \in X |-> v.entry[i].total]
           paid == [i \in X |-> v.entry[i].paid]
<1>1. \A i \in X : v.entry[i] \in InvoiceRow
  BY RowsHold DEF Rows
<1>2. \A i \in X : i \in Entries /\ h[i] \in SchoolIds
  BY <1>1 DEF InvoiceRow, Rows
<1>10. \A i \in X : total[i] \in Nat /\ paid[i] \in Nat /\ F[i] \in Nat
  BY <1>1 DEF InvoiceRow, Owed
<1>11. \A i \in X : total[i] = F[i] + paid[i]
  BY <1>1 DEF InvoiceRow, Owed
<1> HIDE DEF F
<1>3. IsFiniteSet(X) /\ IsFiniteSet(K)
  BY CountryIsFinite, MinistryAssumption, FS_Subset
<1>4. Whole(F, X) /\ Whole(total, X) /\ Whole(paid, X)
  <2>1. \A i \in X : F[i] \in Int /\ total[i] \in Int /\ paid[i] \in Int
    <3> HIDE DEF X, total, paid
    <3>1. QED
      BY <1>10
  <2> HIDE DEF X, total, paid
  <2>2. QED
    BY <1>3, <2>1 DEF Whole
<1>5. /\ DOMAIN rows = K
      /\ \A s \in K : rows[s]["outstanding"] =
             Max({0, Total([i \in KeyIs(X, h, s) |-> v.entry[i].total])
                        - Total([i \in KeyIs(X, h, s) |-> v.entry[i].paid])})
  <2> DEFINE of(w, s) == {i \in Rows(w, "invoice") : w.entry[i].school = s}
             due(w, s) == Total([i \in of(w, s) |-> w.entry[i].total])
             got(w, s) == Total([i \in of(w, s) |-> w.entry[i].paid])
             Table(w) == [s \in {t \in SchoolIds : of(w, t) # {} /\ Null \in {Null, t}} |->
                 [invoices |-> Cardinality(of(w, s)), invoiced |-> due(w, s), paid |-> got(w, s),
                  outstanding |-> Max({0, due(w, s) - got(w, s)})]]
  <2>1. rows = Table(Still[1])
    BY DEF Fees
  <2> HIDE DEF Table, rows
  <2>2. rows = Table(v)
    BY <2>1, Zenon
  <2>3. \A s : of(v, s) = KeyIs(X, h, s)
    BY <1>2 DEF KeyIs
  <2>4. {t \in SchoolIds : of(v, t) # {} /\ Null \in {Null, t}} = K
    BY <2>3
  <2>5. /\ DOMAIN Table(v) = K
        /\ \A s \in K : Table(v)[s]["outstanding"] = Max({0, due(v, s) - got(v, s)})
    BY <2>4 DEF Table
  <2>6. \A s : /\ due(v, s) = Total([i \in KeyIs(X, h, s) |-> v.entry[i].total])
               /\ got(v, s) = Total([i \in KeyIs(X, h, s) |-> v.entry[i].paid])
    <3> HIDE DEF of, X, h, K
    <3>1. QED
      BY <2>3, Zenon
  <2> HIDE DEF due, got, K, X, h
  <2>7. QED
    BY <2>2, <2>5, <2>6
<1>6. \A s \in K : rows[s]["outstanding"] = SumOver(F, KeyIs(X, h, s))
  <2> DEFINE at(s) == KeyIs(X, h, s)
  <2>1. \A s : at(s) \subseteq X
    BY DEF KeyIs
  <2>2. \A s : /\ Total([i \in at(s) |-> v.entry[i].total]) = SumOver(total, at(s))
               /\ Total([i \in at(s) |-> v.entry[i].paid]) = SumOver(paid, at(s))
    <3>1. ASSUME NEW s
          PROVE  /\ Total([i \in at(s) |-> v.entry[i].total]) = SumOver(total, at(s))
                 /\ Total([i \in at(s) |-> v.entry[i].paid]) = SumOver(paid, at(s))
      <4> DEFINE f == [i \in at(s) |-> v.entry[i].total]
                 g == [i \in at(s) |-> v.entry[i].paid]
      <4>1. /\ DOMAIN f = at(s) /\ \A i \in at(s) : f[i] = total[i]
            /\ DOMAIN g = at(s) /\ \A i \in at(s) : g[i] = paid[i]
        BY <2>1
      <4> HIDE DEF f, g, at, total, paid, X
      <4>2. Total(f) = SumOver(total, at(s)) /\ Total(g) = SumOver(paid, at(s))
        BY <1>4, <2>1, <4>1, TotalOfPart
      <4>3. QED
        BY <4>2 DEF f, g
    <3>2. QED
      BY <3>1
  <2>3. ASSUME NEW s
        PROVE  /\ SumOver(total, at(s)) = SumOver(F, at(s)) + SumOver(paid, at(s))
               /\ SumOver(total, at(s)) \in Nat /\ SumOver(paid, at(s)) \in Nat
               /\ SumOver(F, at(s)) \in Nat
    <3>1. \A i \in at(s) : /\ total[i] = F[i] + paid[i]
                           /\ total[i] >= 0 /\ paid[i] >= 0 /\ F[i] >= 0
      <4> HIDE DEF total, paid, at, X
      <4>1. QED
        BY <1>10, <1>11, <2>1
    <3> HIDE DEF total, paid, at, X
    <3>2. Whole(F, at(s)) /\ Whole(total, at(s)) /\ Whole(paid, at(s))
      BY <1>4, <2>1, WholePart
    <3>3. SumOver(total, at(s)) = SumOver(F, at(s)) + SumOver(paid, at(s))
      BY <3>1, <3>2, SumPlus
    <3>4. QED
      BY <3>1, <3>2, <3>3, SumNatural
  <2>4. \A s : Max({0, SumOver(total, at(s)) - SumOver(paid, at(s))}) = SumOver(F, at(s))
    <3> HIDE DEF at, total, paid
    <3>1. ASSUME NEW s
          PROVE  Max({0, SumOver(total, at(s)) - SumOver(paid, at(s))}) = SumOver(F, at(s))
      <4>1. SumOver(paid, at(s)) <= SumOver(total, at(s))
            /\ SumOver(total, at(s)) - SumOver(paid, at(s)) = SumOver(F, at(s))
        BY <2>3
      <4>2. QED
        BY <2>3, <4>1, WhatIsLeft
    <3>2. QED
      BY <3>1
  <2> HIDE DEF X, h, K, total, paid, rows
  <2>5. QED
    BY <1>5, <2>2, <2>4
<1>7. KeyIn(X, h, K) = X
  BY <1>2 DEF KeyIn, KeyIs
<1>8. FieldSum(rows, "outstanding") = SumOver(F, KeyIn(X, h, K))
  <2> HIDE DEF rows, K, X, h
  <2>1. QED
    BY <1>3, <1>4, <1>5, <1>6, MoneyGroups
<1>9. QED
  BY <1>4, <1>7, <1>8 DEF F

LEMMA DefaultersAddUp ==
  ASSUME NEW v, Country(v), Still[1] = v, Whole(Owed(v), Rows(v, "invoice"))
  PROVE  FieldSum(Defaulters(Still), "owed") =
             SumOver(Owed(v), {i \in Rows(v, "invoice") : v.entry[i].status \in {"OVERDUE", "PARTIAL"}})
<1> DEFINE F == Owed(v)
           rows == Defaulters(Still)
           X == Rows(v, "invoice")
           late == {i \in X : v.entry[i].status = "OVERDUE"}
           part == {i \in X : v.entry[i].status = "PARTIAL"}
           U == {i \in X : v.entry[i].status \in {"OVERDUE", "PARTIAL"}}
           h == [i \in Entries |-> v.entry[i].school]
           K == {t \in SchoolIds : KeyIs(U, h, t) # {}}
<1>1. \A i \in X : i \in Entries /\ h[i] \in SchoolIds
  BY RowsHold DEF InvoiceRow, Rows
<1>2. IsFiniteSet(K)
  BY MinistryAssumption, FS_Subset
<1>3. Whole(F, U) /\ Whole(F, late) /\ Whole(F, part)
  BY WholePart
<1>4. \A s : KeyIs(U, h, s) = KeyIs(late, h, s) \cup KeyIs(part, h, s)
             /\ KeyIs(late, h, s) \cap KeyIs(part, h, s) = {}
             /\ KeyIs(late, h, s) \subseteq X /\ KeyIs(part, h, s) \subseteq X
  BY DEF KeyIs
<1>5. /\ DOMAIN rows = K
      /\ \A s \in K : rows[s]["owed"] =
             Total([i \in KeyIs(late, h, s) |-> v.entry[i].total - v.entry[i].paid])
             + Total([i \in KeyIs(part, h, s) |-> v.entry[i].total - v.entry[i].paid])
  <2> DEFINE of(w, s, status) ==
                 {i \in Rows(w, "invoice") : w.entry[i].school = s /\ w.entry[i].status = status}
             owed(w, s, status) ==
                 Total([i \in of(w, s, status) |-> w.entry[i].total - w.entry[i].paid])
             Table(w) == [s \in {t \in SchoolIds : of(w, t, "OVERDUE") \cup of(w, t, "PARTIAL") # {}} |->
                 [overdue |-> Cardinality(of(w, s, "OVERDUE")),
                  partial |-> Cardinality(of(w, s, "PARTIAL")),
                  owed |-> owed(w, s, "OVERDUE") + owed(w, s, "PARTIAL")]]
  <2>1. rows = Table(Still[1])
    BY DEF Defaulters
  <2> HIDE DEF Table, rows
  <2>2. rows = Table(v)
    BY <2>1, Zenon
  <2>3. \A s : of(v, s, "OVERDUE") = KeyIs(late, h, s)
    BY <1>1 DEF KeyIs
  <2>4. \A s : of(v, s, "PARTIAL") = KeyIs(part, h, s)
    BY <1>1 DEF KeyIs
  <2>5. \A s : of(v, s, "OVERDUE") = KeyIs(late, h, s) /\ of(v, s, "PARTIAL") = KeyIs(part, h, s)
    BY <2>3, <2>4
  <2>6. {t \in SchoolIds : of(v, t, "OVERDUE") \cup of(v, t, "PARTIAL") # {}} = K
    <3> HIDE DEF of, late, part, U, h
    <3>1. QED
      BY <1>4, <2>5
  <2>7. /\ DOMAIN Table(v) = K
        /\ \A s \in K : Table(v)[s]["owed"] = owed(v, s, "OVERDUE") + owed(v, s, "PARTIAL")
    BY <2>6 DEF Table
  <2>8. \A s : /\ owed(v, s, "OVERDUE")
                      = Total([i \in KeyIs(late, h, s) |-> v.entry[i].total - v.entry[i].paid])
               /\ owed(v, s, "PARTIAL")
                      = Total([i \in KeyIs(part, h, s) |-> v.entry[i].total - v.entry[i].paid])
    <3> HIDE DEF of, X, h, K, late, part
    <3>1. QED
      BY <2>5, Zenon
  <2> HIDE DEF owed, K, X, h, late, part
  <2>9. QED
    BY <2>2, <2>7, <2>8
<1>6. ASSUME NEW s
      PROVE  /\ Total([i \in KeyIs(late, h, s) |-> v.entry[i].total - v.entry[i].paid])
                    = SumOver(F, KeyIs(late, h, s))
             /\ Total([i \in KeyIs(part, h, s) |-> v.entry[i].total - v.entry[i].paid])
                    = SumOver(F, KeyIs(part, h, s))
  <2> DEFINE f == [i \in KeyIs(late, h, s) |-> v.entry[i].total - v.entry[i].paid]
             g == [i \in KeyIs(part, h, s) |-> v.entry[i].total - v.entry[i].paid]
  <2>1. /\ DOMAIN f = KeyIs(late, h, s) /\ \A i \in KeyIs(late, h, s) : f[i] = F[i]
        /\ DOMAIN g = KeyIs(part, h, s) /\ \A i \in KeyIs(part, h, s) : g[i] = F[i]
    BY <1>4 DEF Owed
  <2> HIDE DEF f, g, F, X, late, part, h
  <2>2. Whole(F, X)
    BY DEF F, X
  <2>3. Total(f) = SumOver(F, KeyIs(late, h, s)) /\ Total(g) = SumOver(F, KeyIs(part, h, s))
    BY <1>4, <2>1, <2>2, TotalOfPart
  <2>4. QED
    BY <2>3 DEF f, g
<1>7. \A s : SumOver(F, KeyIs(U, h, s)) = SumOver(F, KeyIs(late, h, s)) + SumOver(F, KeyIs(part, h, s))
  <2>1. ASSUME NEW s
        PROVE  SumOver(F, KeyIs(U, h, s)) = SumOver(F, KeyIs(late, h, s)) + SumOver(F, KeyIs(part, h, s))
    <3> HIDE DEF F, X, late, part, U, h
    <3>1. Whole(F, X)
      BY DEF F, X
    <3>2. Whole(F, KeyIs(late, h, s)) /\ Whole(F, KeyIs(part, h, s))
      BY <1>4, <3>1, WholePart
    <3>3. SumOver(F, KeyIs(late, h, s) \cup KeyIs(part, h, s))
             = SumOver(F, KeyIs(late, h, s)) + SumOver(F, KeyIs(part, h, s))
      BY <1>4, <3>2, SumUnion
    <3>4. QED
      BY <1>4, <3>3, Zenon
  <2>2. QED
    BY <2>1
<1>8. KeyIn(U, h, K) = U
  BY <1>1 DEF KeyIn, KeyIs
<1> HIDE DEF F, X, late, part, U, h, K, rows
<1>9. \A s \in K : rows[s]["owed"] = SumOver(F, KeyIs(U, h, s))
  BY <1>5, <1>6, <1>7
<1>10. FieldSum(rows, "owed") = SumOver(F, KeyIn(U, h, K))
  BY <1>2, <1>3, <1>5, <1>9, MoneyGroups
<1>11. QED
  BY <1>8, <1>10 DEF F, U, X, rows

LEMMA SumZero ==
  ASSUME NEW F, NEW S, Whole(F, S), \A x \in S : F[x] = 0
  PROVE  SumOver(F, S) = 0
<1>1. \A x \in S : F[x] = F[x] + F[x]
  OBVIOUS
<1>2. SumOver(F, S) = SumOver(F, S) + SumOver(F, S)
  BY <1>1, SumPlus
<1>3. SumOver(F, S) \in Int
  BY SumFirst
<1>4. \A n \in Int : n = n + n => n = 0
  OBVIOUS
<1>5. QED
  BY <1>2, <1>3, <1>4, Zenon

LEMMA MoneyAddsUpNow ==
  ASSUME CountryTypeOK
  PROVE  MoneyAddsUp
<1> DEFINE v == Now
           F == Owed(v)
           X == Rows(v, "invoice")
           due == {i \in X : v.entry[i].status \in {"OVERDUE", "PARTIAL"}}
           pending == {i \in X : v.entry[i].status = "PENDING"}
           settled == {i \in X : v.entry[i].status = "PAID"}
           later == [i \in pending |-> v.entry[i].total - v.entry[i].paid]
<1>1. Country(v) /\ Still[1] = v
  BY NowIsACountry, StillIsNow
<1>2. Whole(F, X) /\ FieldSum(Fees(Null, Still), "outstanding") = SumOver(F, X)
  BY <1>1, FeesAddUp
<1>3. FieldSum(Defaulters(Still), "owed") = SumOver(F, due)
  BY <1>1, <1>2, DefaultersAddUp
<1>4. Total(later) = SumOver(F, pending)
  <2>1. pending \subseteq X /\ DOMAIN later = pending /\ \A i \in pending : later[i] = F[i]
    BY DEF Owed
  <2> HIDE DEF later, pending, F, X
  <2>2. QED
    BY <1>2, <2>1, TotalOfPart
<1>5. X = (due \cup pending) \cup settled
      /\ due \cap pending = {} /\ (due \cup pending) \cap settled = {}
  BY <1>1, RowsHold DEF InvoiceRow, Rows
<1>6. \A i \in settled : F[i] = 0
  BY <1>1, RowsHold DEF InvoiceRow, Rows, Owed
<1>7. Whole(F, due) /\ Whole(F, pending) /\ Whole(F, settled)
  BY <1>2, <1>5, WholePart
<1>8. SumOver(F, X) = SumOver(F, due) + SumOver(F, pending)
  <2> HIDE DEF F, X, due, pending, settled
  <2>1. /\ Whole(F, due \cup pending)
        /\ SumOver(F, due \cup pending) = SumOver(F, due) + SumOver(F, pending)
    BY <1>5, <1>7, SumUnion
  <2>2. SumOver(F, (due \cup pending) \cup settled)
            = SumOver(F, due \cup pending) + SumOver(F, settled)
    BY <1>5, <1>7, <2>1, SumUnion
  <2>3. SumOver(F, settled) = 0
    BY <1>6, <1>7, SumZero
  <2>4. SumOver(F, due) \in Int /\ SumOver(F, pending) \in Int
    BY <1>7, SumFirst
  <2>5. SumOver(F, X) = SumOver(F, (due \cup pending) \cup settled)
    BY <1>5, Zenon
  <2>6. QED
    BY <2>1, <2>2, <2>3, <2>4, <2>5
<1>9. /\ pending = {i \in Rows(Now, "invoice") : entry[i].status = "PENDING"}
      /\ later = [i \in pending |-> entry[i].total - entry[i].paid]
  BY DEF Now
<1>10. FieldSum(Fees(Null, Still), "outstanding") = FieldSum(Defaulters(Still), "owed") + Total(later)
  <2> HIDE DEF F, X, due, pending, later
  <2>1. QED
    BY <1>2, <1>3, <1>4, <1>8
<1>11. QED
  <2> HIDE DEF pending, later
  <2>1. QED
    BY <1>9, <1>10, Zenon DEF MoneyAddsUp

LEMMA CountFour ==
  ASSUME NEW A, NEW B, NEW C, NEW D,
         IsFiniteSet(A), IsFiniteSet(B), IsFiniteSet(C), IsFiniteSet(D),
         A \cap B = {}, (A \cup B) \cap C = {}, ((A \cup B) \cup C) \cap D = {}
  PROVE  Cardinality(((A \cup B) \cup C) \cup D)
             = Cardinality(A) + Cardinality(B) + Cardinality(C) + Cardinality(D)
<1>1. Cardinality({}) = 0
  BY FS_EmptySet
<1>2. /\ Cardinality(A) \in Nat /\ Cardinality(B) \in Nat
      /\ Cardinality(C) \in Nat /\ Cardinality(D) \in Nat
  BY FS_CardinalityType
<1>3. IsFiniteSet(A \cup B) /\ Cardinality(A \cup B) = Cardinality(A) + Cardinality(B) - 0
  BY <1>1, FS_Union
<1>4. IsFiniteSet((A \cup B) \cup C)
      /\ Cardinality((A \cup B) \cup C) = Cardinality(A \cup B) + Cardinality(C) - 0
  BY <1>1, <1>3, FS_Union
<1>5. Cardinality(((A \cup B) \cup C) \cup D) = Cardinality((A \cup B) \cup C) + Cardinality(D) - 0
  BY <1>1, <1>4, FS_Union
<1>6. QED
  BY <1>2, <1>3, <1>4, <1>5

LEMMA ReturnsAddUpNow ==
  ASSUME CountryTypeOK
  PROVE  ReturnsAddUp
<1>1. ASSUME NEW period
      PROVE  FieldSum(Compliance(period, Still), "total") =
                 Cardinality({i \in Rows(Now, "compliance") : period \in {Null, entry[i].period}})
  <2> DEFINE v == Now
             rows == Compliance(period, Still)
             X == {i \in Rows(v, "compliance") : period \in {Null, v.entry[i].period}}
             h == [i \in Entries |-> <<v.entry[i].school, v.entry[i].template>>]
             K == {h[i] : i \in X}
             at(k, status) == {i \in X : h[i] = k /\ v.entry[i].status = status}
  <2>1. Country(v) /\ Still[2] = v
    BY NowIsACountry, StillIsNow
  <2>2. X \subseteq Rows(v, "compliance") /\ IsFiniteSet(Rows(v, "compliance"))
        /\ Rows(v, "compliance") \subseteq Entries
    <3>1. IsFiniteSet(Rows(v, "compliance"))
      BY <2>1, CountryIsFinite
    <3>2. QED
      BY <3>1 DEF Rows
  <2>3. IsFiniteSet(X) /\ IsFiniteSet(K)
    <3> HIDE DEF X, h
    <3>1. QED
      BY <2>2, FiniteImage, FS_Subset
  <2>4. /\ DOMAIN rows = K
        /\ \A k \in K : rows[k]["total"] =
               Cardinality(at(k, "draft")) + Cardinality(at(k, "submitted"))
               + Cardinality(at(k, "accepted")) + Cardinality(at(k, "rejected"))
    <3> DEFINE all(w) == {i \in Rows(w, "compliance") : period \in {Null, w.entry[i].period}}
               there(w, k, status) == {i \in all(w) :
                   <<w.entry[i].school, w.entry[i].template>> = k /\ w.entry[i].status = status}
               In(w, k, status) == Cardinality(there(w, k, status))
               Table(w) == [k \in {<<w.entry[i].school, w.entry[i].template>> : i \in all(w)} |->
                   [draft |-> In(w, k, "draft"), submitted |-> In(w, k, "submitted"),
                    accepted |-> In(w, k, "accepted"), rejected |-> In(w, k, "rejected"),
                    total |-> In(w, k, "draft") + In(w, k, "submitted")
                              + In(w, k, "accepted") + In(w, k, "rejected")]]
    <3>1. rows = Table(Still[2])
      BY DEF Compliance
    <3> HIDE DEF Table, rows
    <3>2. rows = Table(v)
      BY <2>1, <3>1, Zenon
    <3>3. {<<v.entry[i].school, v.entry[i].template>> : i \in all(v)} = K
      BY <2>2
    <3>4. \A k, status : there(v, k, status) = at(k, status)
      BY <2>2
    <3>5. /\ DOMAIN Table(v) = K
          /\ \A k \in K : Table(v)[k]["total"] =
                 In(v, k, "draft") + In(v, k, "submitted") + In(v, k, "accepted") + In(v, k, "rejected")
      BY <3>3 DEF Table
    <3>6. \A k, status : In(v, k, status) = Cardinality(at(k, status))
      <4> HIDE DEF there, at
      <4>1. QED
        BY <3>4, Zenon
    <3> HIDE DEF In, at, K
    <3>7. QED
      BY <3>2, <3>5, <3>6
  <2>5. \A k \in K : rows[k]["total"] = Cardinality({i \in X : h[i] = k})
    <3>1. ASSUME NEW k \in K PROVE rows[k]["total"] = Cardinality({i \in X : h[i] = k})
      <4> DEFINE A == at(k, "draft")
                 B == at(k, "submitted")
                 C == at(k, "accepted")
                 D == at(k, "rejected")
                 whole == {i \in X : h[i] = k}
      <4>1. whole = ((A \cup B) \cup C) \cup D
        BY <2>1, <2>2, RowsHold DEF Rows
      <4>2. A \cap B = {} /\ (A \cup B) \cap C = {} /\ ((A \cup B) \cup C) \cap D = {}
        OBVIOUS
      <4>3. A \subseteq X /\ B \subseteq X /\ C \subseteq X /\ D \subseteq X
        OBVIOUS
      <4>4. rows[k]["total"] = Cardinality(A) + Cardinality(B) + Cardinality(C) + Cardinality(D)
        BY <2>4
      <4> HIDE DEF A, B, C, D, whole, X, rows, K
      <4>5. IsFiniteSet(A) /\ IsFiniteSet(B) /\ IsFiniteSet(C) /\ IsFiniteSet(D)
        BY <2>3, <4>3, FS_Subset
      <4>6. Cardinality(((A \cup B) \cup C) \cup D)
                = Cardinality(A) + Cardinality(B) + Cardinality(C) + Cardinality(D)
        BY <4>2, <4>5, CountFour
      <4>7. rows[k]["total"] = Cardinality(whole)
        BY <4>1, <4>4, <4>6, Zenon
      <4>8. QED
        BY <4>7 DEF whole
    <3>2. QED
      BY <3>1
  <2>6. {i \in X : h[i] \in K} = X
    OBVIOUS
  <2>7. FieldSum(rows, "total") = Cardinality({i \in X : h[i] \in K})
    <3> HIDE DEF rows, K, h, X
    <3>1. QED
      BY <2>3, <2>4, <2>5, FieldGroups
  <2>8. X = {i \in Rows(Now, "compliance") : period \in {Null, entry[i].period}}
    BY DEF Now
  <2> HIDE DEF X, K, h
  <2>9. QED
    BY <2>6, <2>7, <2>8
<1>2. QED
  BY <1>1 DEF ReturnsAddUp

\* The tables of a country, and the answer of a report, have their types in every country
\* that can be reached (ministry_routes.py:116-190).
THEOREM CountryIsTyped == MinistrySpec => []CountryTypeOK
<1>1. CountryTypeOK /\ [MinistryNext]_ministry => CountryTypeOK'
  <2> SUFFICES ASSUME CountryTypeOK, [MinistryNext]_ministry PROVE CountryTypeOK'
    OBVIOUS
  <2>1. CASE \E r \in Question, isMinistry \in BOOLEAN : Ask(r, isMinistry)
    BY <2>1 DEF Ask, CountryTypeOK
  <2>2. CASE Query
    BY <2>2 DEF Query, CountryTypeOK
  <2>3. CASE Respond
    BY <2>3 DEF Respond, CountryTypeOK
  <2>4. ASSUME NEW p \in Pupils, NEW s \in SchoolIds, NEW status \in Statuses,
               update_student(p, s, status)
        PROVE  CountryTypeOK'
    <3>1. [school |-> s, status |-> status, touched |-> 2] \in PupilRow
      BY DEF PupilRow
    <3>2. QED
      BY <2>4, <3>1 DEF update_student, CountryTypeOK
  <2>5. ASSUME NEW s \in SchoolIds, NEW row \in SchoolRow, upsert_school(s, row)
        PROVE  CountryTypeOK'
    BY <2>5 DEF upsert_school, CountryTypeOK
  <2>6. ASSUME NEW s \in SchoolIds, NEW t \in Staff,
               assign_class_teacher(s, t) \/ delete_class_teacher(s, t)
        PROVE  CountryTypeOK'
    BY <2>6 DEF assign_class_teacher, delete_class_teacher, CountryTypeOK
  <2>7. ASSUME NEW i \in Entries, NEW row \in EntryRow, FileEntry(i, row)
        PROVE  CountryTypeOK'
    BY <2>7 DEF FileEntry, CountryTypeOK
  <2>8. CASE UNCHANGED ministry
    BY <2>8 DEF ministry, CountryTypeOK
  <2>9. QED
    BY <2>1, <2>2, <2>3, <2>4, <2>5, <2>6, <2>7, <2>8 DEF MinistryNext, CommitNext
<1>2. QED
  BY <1>1, PTL DEF MinistrySpec

\* The rows of the provinces and of the districts add up to the national ones, and the
\* reports that count the same thing count it alike, in every country that can be
\* reached (ministry_routes.py:191-1343).
THEOREM NationAlwaysAddsUp == MinistrySpec => []NationAddsUp
<1>1. CountryTypeOK => NationAddsUp
  BY PupilsAddUpNow, TeachersAddUpNow, EntriesAddUpNow, MoneyAddsUpNow, ReturnsAddUpNow
     DEF NationAddsUp
<1>2. QED
  BY <1>1, CountryIsTyped, PTL

--------------------------------------------------------------------------------
\* What the queries of a report may have seen.
Snapshots == [geo : [SchoolIds -> SchoolRow \cup {Null}], pupil : [Pupils -> PupilRow],
              post : SUBSET (SchoolIds \X Staff), entry : [Entries -> EntryRow \cup {Null}]]

LEMMA SnapshotIsACountry ==
  ASSUME NEW v \in Snapshots
  PROVE  Country(v)
BY DEF Snapshots, Country

LEMMA AttendedParts ==
  ASSUME NEW v, Country(v), NEW schools, NEW from, NEW to
  PROVE  Attended(v, schools, from, to).present <= Attended(v, schools, from, to).records
<1> DEFINE rows == {i \in Rows(v, "attendance") :
                        v.entry[i].school \in schools /\ v.entry[i].day \in from..to}
           present == {i \in rows : v.entry[i].status = "P"}
<1>1. IsFiniteSet(Rows(v, "attendance")) /\ rows \subseteq Rows(v, "attendance") /\ present \subseteq rows
  BY CountryIsFinite
<1>2. Attended(v, schools, from, to).records = Cardinality(rows)
      /\ Attended(v, schools, from, to).present = Cardinality(present)
  BY DEF Attended
<1> HIDE DEF rows, present
<1>3. IsFiniteSet(rows)
  BY <1>1, CountSub
<1>4. QED
  BY <1>1, <1>2, <1>3, CountSub

LEMMA AttendanceParts ==
  ASSUME NEW seen, Country(seen[1]), NEW scope, NEW since
  PROVE  \A c \in DOMAIN Attendance(scope, since, seen) :
             Attendance(scope, since, seen)[c].present <= Attendance(scope, since, seen)[c].records
<1>1. \A c \in DOMAIN Attendance(scope, since, seen) :
          \E schools : Attendance(scope, since, seen)[c] = Attended(seen[1], schools, since, 2)
  BY DEF Attendance
<1>2. QED
  BY <1>1, AttendedParts

LEMMA PassRateParts ==
  ASSUME NEW seen, Country(seen[1]), NEW scope
  PROVE  \A k \in DOMAIN PassRate(scope, seen) :
             PassRate(scope, seen)[k].passes <= PassRate(scope, seen)[k].graded
<1> DEFINE v == seen[1]
           Key(i) == <<IF scope = "national" THEN NoCode
                       ELSE Code(seen[3], v.entry[i].school, scope), v.entry[i].subject>>
           graded(k) == {i \in Rows(v, "mark") : Key(i) = k /\ IsGraded(v.entry[i])}
           passed(k) == {i \in graded(k) : v.entry[i].marks \in 1..2}
<1>1. \A k \in DOMAIN PassRate(scope, seen) :
          /\ PassRate(scope, seen)[k].graded = Cardinality(graded(k))
          /\ PassRate(scope, seen)[k].passes = Cardinality(passed(k))
  BY DEF PassRate
<1>2. \A k : graded(k) \subseteq Rows(v, "mark") /\ passed(k) \subseteq graded(k)
  OBVIOUS
<1>3. IsFiniteSet(Rows(v, "mark"))
  BY CountryIsFinite
<1> HIDE DEF graded, passed, Key, v
<1>4. \A k : IsFiniteSet(graded(k))
  BY <1>2, <1>3, FS_Subset
<1>5. \A k : Cardinality(passed(k)) <= Cardinality(graded(k))
  BY <1>2, <1>4, CountSub
<1>6. QED
  BY <1>1, <1>5

LEMMA UnescoParts ==
  ASSUME NEW seen, Country(seen[2]), Country(seen[6])
  PROVE  \/ Unesco(seen).dropout_rate = Null
         \/ Unesco(seen).dropout_rate[1] <= Unesco(seen).dropout_rate[2]
<1> DEFINE total == Active(seen[2], SchoolIds)
           gone == Heads(seen[6], SchoolIds, DROPOUT_STATUSES)
<1>1. Unesco(seen).dropout_rate = Rate(gone, gone + total)
  BY DEF Unesco
<1>2. gone \in Nat /\ total \in Nat
  BY HeadsCount DEF Active
<1> HIDE DEF gone, total
<1>3. Rate(gone, gone + total) \in {Null, <<gone, gone + total>>}
  BY DEF Rate
<1>4. gone <= gone + total
  BY <1>2
<1>5. QED
  BY <1>1, <1>3, <1>4

LEMMA PolicyParts ==
  ASSUME NEW seen, Country(seen[1]), \A i \in 1..5 : seen[i] = seen[1], NEW scope, NEW code
  PROVE  \A day \in 1..2 :
             \/ PolicyImpact("dropout_rate", scope, code, seen)[day] = Null
             \/ PolicyImpact("dropout_rate", scope, code, seen)[day][1]
                  <= PolicyImpact("dropout_rate", scope, code, seen)[day][2]
<1> DEFINE schools == IF code = NoCode THEN SchoolIds ELSE Of(seen[1], scope, code)
           touched(v, day, statuses) == {p \in Pupils :
               /\ v.pupil[p].school \in schools /\ v.pupil[p].touched = day
               /\ v.pupil[p].status \in statuses}
           part(day) == touched(seen[2 * day], day, DROPOUT_STATUSES)
           whole(day) == touched(seen[2 * day + 1], day, DROPOUT_STATUSES \cup {"ACTIVE"})
<1>1. \A day \in 1..2 : PolicyImpact("dropout_rate", scope, code, seen)[day]
                            = Rate(Cardinality(part(day)), Cardinality(whole(day)))
  BY DEF PolicyImpact
<1>2. \A day \in 1..2 : seen[2 * day] = seen[2 * day + 1]
  <2>1. \A day \in 1..2 : 2 * day \in 1..5 /\ 2 * day + 1 \in 1..5
    OBVIOUS
  <2>2. QED
    BY <2>1
<1>3. \A day \in 1..2 : part(day) \subseteq whole(day) /\ whole(day) \subseteq Pupils
  BY <1>2
<1> HIDE DEF part, whole
<1>4. \A day \in 1..2 : Cardinality(part(day)) <= Cardinality(whole(day))
  BY <1>3, MinistryAssumption, FS_Subset
<1>5. QED
  BY <1>1, <1>4 DEF Rate

\* Of rows by code nobody is counted twice.
LEMMA NobodyTwice ==
  ASSUME NEW v, Country(v), NEW answer, NEW field, NEW scope, IsFiniteSet(DOMAIN answer),
         \/ \A c \in DOMAIN answer : answer[c][field] = Heads(v, Of(v, scope, c), {"ACTIVE"})
         \/ /\ DOMAIN answer = {NoCode}
            /\ answer[NoCode][field] = Heads(v, SchoolIds, {"ACTIVE"})
  PROVE  FieldSum(answer, field) <= Active(v, SchoolIds)
<1> DEFINE K == DOMAIN answer
           national == /\ DOMAIN answer = {NoCode}
                       /\ answer[NoCode][field] = Heads(v, SchoolIds, {"ACTIVE"})
           schools == IF national THEN SchoolIds ELSE Registered(v)
           all == PupilsOf(v, schools, {"ACTIVE"})
           h == [p \in Pupils |-> IF national THEN NoCode ELSE Code(v, v.pupil[p].school, scope)]
           counted == {p \in all : h[p] \in K}
<1>1. \A c \in K : answer[c][field] = Cardinality({p \in all : h[p] = c})
  <2>1. CASE national
    <3>1. {p \in all : h[p] = NoCode} = all
      BY <2>1 DEF PupilsOf
    <3>2. all = PupilsOf(v, SchoolIds, {"ACTIVE"})
      BY <2>1
    <3>3. Heads(v, SchoolIds, {"ACTIVE"}) = Cardinality(PupilsOf(v, SchoolIds, {"ACTIVE"}))
      BY HeadsCount
    <3> HIDE DEF all, h
    <3>4. QED
      BY <2>1, <3>1, <3>2, <3>3
  <2>2. CASE ~national
    <3>1. \A c \in K : answer[c][field] = Cardinality(PupilsOf(v, Of(v, scope, c), {"ACTIVE"}))
      BY <2>2, HeadsCount
    <3>2. \A c \in K : PupilsOf(v, Of(v, scope, c), {"ACTIVE"}) = {p \in all : h[p] = c}
      BY <2>2 DEF PupilsOf, Of
    <3> HIDE DEF all, h, national, K
    <3>3. QED
      BY <3>1, <3>2
  <2>3. QED
    BY <2>1, <2>2
<1>2. IsFiniteSet(all) /\ IsFiniteSet(K)
  BY CountryIsFinite
<1>3. FieldSum(answer, field) = Cardinality(counted)
  <2>1. DOMAIN answer = K
    OBVIOUS
  <2> HIDE DEF K, all, h, national
  <2>2. QED
    BY <1>1, <1>2, <2>1, FieldGroups
<1>4. counted \subseteq PupilsOf(v, SchoolIds, {"ACTIVE"})
  BY DEF PupilsOf, Registered
<1> HIDE DEF counted
<1>5. Cardinality(counted) <= Cardinality(PupilsOf(v, SchoolIds, {"ACTIVE"}))
  BY <1>4, CountryIsFinite, CountSub
<1>6. QED
  BY <1>3, <1>5, HeadsCount DEF Active

LEMMA EnrolmentParts ==
  ASSUME NEW seen, Country(seen[1]), Country(seen[2]), NEW scope
  PROVE  /\ FieldSum(Enrolment(scope, seen), "students") <= Active(seen[2], SchoolIds)
         /\ scope # "national" => DOMAIN Enrolment(scope, seen)
                                      = CodesOf(seen[1], scope, Registered(seen[1]))
<1> DEFINE rows == Enrolment(scope, seen)
<1>1. IsFiniteSet({NoCode}) /\ IsFiniteSet(CodesOf(seen[1], scope, Registered(seen[1])))
  BY FS_Singleton, CodesAreFinite, CountryIsFinite
<1>2. CASE scope = "national"
  <2>1. DOMAIN rows = {NoCode} /\ rows[NoCode]["students"] = Heads(seen[2], SchoolIds, {"ACTIVE"})
    BY <1>2 DEF Enrolment, Active
  <2> HIDE DEF rows
  <2>2. FieldSum(rows, "students") <= Active(seen[2], SchoolIds)
    BY <1>1, <2>1, NobodyTwice
  <2>3. QED
    BY <1>2, <2>2 DEF rows
<1>3. CASE scope # "national"
  <2>1. /\ DOMAIN rows = CodesOf(seen[1], scope, Registered(seen[1]))
        /\ \A c \in DOMAIN rows :
               rows[c]["students"] = Heads(seen[2], Of(seen[2], scope, c), {"ACTIVE"})
    BY <1>3 DEF Enrolment, EnrolmentCodes, Active
  <2> HIDE DEF rows
  <2>2. FieldSum(rows, "students") <= Active(seen[2], SchoolIds)
    BY <1>1, <2>1, NobodyTwice
  <2>3. QED
    BY <2>1, <2>2 DEF rows
<1>4. QED
  BY <1>2, <1>3

LEMMA PtrParts ==
  ASSUME NEW seen, Country(seen[1]), Country(seen[2]), NEW scope
  PROVE  FieldSum(Ptr(scope, seen), "students") <= Active(seen[1], SchoolIds)
<1> DEFINE rows == Ptr(scope, seen)
           active == {s \in Registered(seen[1]) : Active(seen[1], {s}) > 0}
           manned == {s \in Registered(seen[2]) : Teachers(seen[2], {s}) > 0}
<1>1. CASE scope = "national"
  <2>1. DOMAIN rows = {NoCode} /\ rows[NoCode]["students"] = Heads(seen[1], SchoolIds, {"ACTIVE"})
    BY <1>1 DEF Ptr, Active
  <2> HIDE DEF rows
  <2>2. FieldSum(rows, "students") <= Active(seen[1], SchoolIds)
    BY <2>1, NobodyTwice, FS_Singleton
  <2>3. QED
    BY <2>2 DEF rows
<1>2. CASE scope # "national"
  <2>1. /\ DOMAIN rows = CodesOf(seen[1], scope, active) \cup CodesOf(seen[2], scope, manned)
        /\ \A c \in DOMAIN rows :
               rows[c]["students"] = Heads(seen[1], Of(seen[1], scope, c), {"ACTIVE"})
    BY <1>2 DEF Ptr, Active
  <2>2. active \subseteq SchoolIds /\ manned \subseteq SchoolIds
    BY DEF Registered
  <2> HIDE DEF rows, active, manned
  <2>3. IsFiniteSet(CodesOf(seen[1], scope, active)) /\ IsFiniteSet(CodesOf(seen[2], scope, manned))
    BY <2>2, CodesAreFinite
  <2>4. IsFiniteSet(DOMAIN rows)
    <3>1. IsFiniteSet(CodesOf(seen[1], scope, active) \cup CodesOf(seen[2], scope, manned))
      BY <2>3, FS_Union
    <3>2. QED
      BY <2>1, <3>1, Zenon
  <2>5. FieldSum(rows, "students") <= Active(seen[1], SchoolIds)
    BY <2>1, <2>4, NobodyTwice
  <2>6. QED
    BY <2>5 DEF rows
<1>3. QED
  BY <1>1, <1>2

LEMMA ComparisonIsFinite ==
  ASSUME NEW seen, Country(seen[1]), NEW scope, NEW code
  PROVE  IsFiniteSet(DOMAIN Comparative(scope, code, seen))
<1>1. DOMAIN Comparative(scope, code, seen) \subseteq SchoolIds
  BY DEF Comparative, SchoolsIndex, Of, Registered
<1>2. QED
  BY <1>1, MinistryAssumption, FS_Subset

--------------------------------------------------------------------------------
\* A report is asked once, reads snapshots of the country, and is audited only when it
\* is answered; the five queries of the dropouts of a policy read one country unless
\* a change was committed between two of them.
ReportShape ==
    /\ overtaken \in BOOLEAN
    /\ report.at = "none" => report = NoReport
    /\ report.at # "none" =>
           /\ report = [ask |-> report.ask, seen |-> report.seen, answer |-> report.answer,
                        at |-> report.at]
           /\ report.at \in {"queries", "refused", "done"}
           /\ report.seen \in Seq(Snapshots)
OneCountry ==
    report.at = "queries" /\ report.ask.about = "dropout_rate" /\ ~overtaken =>
        /\ \A i \in 1..Len(report.seen) : report.seen[i] = report.seen[1]
        /\ Len(report.seen) \in 1..4 => report.seen[1] = Now
ReportInvariant ==
    /\ CountryTypeOK /\ ReportShape /\ OneCountry
    /\ ~Done => auditLog = <<>>
    /\ ReportsAreSound

LEMMA NowIsSeen ==
  ASSUME CountryTypeOK
  PROVE  Now \in Snapshots
BY DEF CountryTypeOK, Now, Snapshots

LEMMA AskKeeps ==
  ASSUME ReportInvariant, CountryTypeOK', NEW r, NEW isMinistry \in BOOLEAN, Ask(r, isMinistry)
  PROVE  ReportInvariant'
<1>1. PICK at \in {"queries", "refused"} :
          report' = [ask |-> r, seen |-> <<>>, answer |-> Null, at |-> at]
  BY DEF Ask
<1>2. auditLog' = <<>> /\ overtaken' \in BOOLEAN
  BY DEF Ask, ReportInvariant, ReportShape, Done
<1>3. /\ report'.ask = r /\ report'.seen = <<>> /\ report'.answer = Null /\ report'.at = at
      /\ <<>> \in Seq(Snapshots) /\ Len(<<>>) = 0
  BY <1>1
<1>4. ReportShape'
  <2>1. report' = [ask |-> report'.ask, seen |-> report'.seen, answer |-> report'.answer,
                   at |-> report'.at]
    BY <1>1, <1>3, Zenon
  <2>2. QED
    BY <1>2, <1>3, <2>1 DEF ReportShape
<1>5. OneCountry'
  BY <1>3 DEF OneCountry
<1>6. PartsWithinWholes' /\ ~Done'
  BY <1>3 DEF PartsWithinWholes, Done
<1>7. ReadsAreTrailed'
  BY <1>2, <1>3 DEF ReadsAreTrailed
<1>8. QED
  BY <1>2, <1>4, <1>5, <1>6, <1>7 DEF ReportInvariant, ReportsAreSound

LEMMA QueryKeeps ==
  ASSUME ReportInvariant, CountryTypeOK', Query
  PROVE  ReportInvariant'
<1>1. /\ report.at = "queries" /\ report.seen \in Seq(Snapshots) /\ auditLog = <<>>
      /\ report' = [ask |-> report.ask, seen |-> Append(report.seen, Now),
                    answer |-> report.answer, at |-> "queries"]
      /\ Len(report.seen) < Queries(report)
      /\ auditLog' = auditLog /\ Now' = Now /\ overtaken' = overtaken /\ overtaken \in BOOLEAN
  BY DEF Query, ReportInvariant, ReportShape, Done, Now
<1>2. Now \in Snapshots
  BY NowIsSeen DEF ReportInvariant
<1>3. Append(report.seen, Now) \in Seq(Snapshots)
  BY <1>1, <1>2
<1>4. ReportShape'
  BY <1>1, <1>3 DEF ReportShape
<1>5. OneCountry'
  <2>1. SUFFICES ASSUME report.ask.about = "dropout_rate", ~overtaken
                 PROVE  LET s == Append(report.seen, Now)
                        IN /\ \A i \in 1..Len(s) : s[i] = s[1]
                           /\ Len(s) \in 1..4 => s[1] = Now
    BY <1>1 DEF OneCountry
  <2>2. /\ \A i \in 1..Len(report.seen) : report.seen[i] = report.seen[1]
        /\ Len(report.seen) \in 1..4 => report.seen[1] = Now
    BY <1>1, <2>1 DEF ReportInvariant, OneCountry
  <2>3. Len(report.seen) < 5
    BY <1>1, <2>1 DEF Queries
  <2>4. Len(report.seen) \in Nat
    BY <1>1
  <2>5. \A i \in 1..Len(report.seen) : report.seen[i] = Now
    <3>1. SUFFICES ASSUME NEW i \in 1..Len(report.seen) PROVE report.seen[i] = Now
      OBVIOUS
    <3>2. \A n \in Nat : n < 5 /\ i \in 1..n => n \in 1..4
      OBVIOUS
    <3>3. Len(report.seen) \in 1..4
      BY <2>3, <2>4, <3>1, <3>2
    <3>4. QED
      BY <2>2, <3>1, <3>3
  <2> DEFINE s == Append(report.seen, Now)
  <2>6. Len(s) = Len(report.seen) + 1 /\ \A i \in 1..Len(s) : s[i] = Now
    BY <1>1, <2>4, <2>5
  <2> HIDE DEF s
  <2>7. \A i \in 1..Len(s) : s[i] = s[1]
    BY <2>4, <2>6
  <2>8. Len(s) \in 1..4 => s[1] = Now
    BY <2>6
  <2>9. QED
    BY <2>7, <2>8 DEF s
<1>6. ReportsAreSound'
  BY <1>1 DEF ReportsAreSound, PartsWithinWholes, ReadsAreTrailed, Done
<1>7. QED
  BY <1>1, <1>4, <1>5, <1>6 DEF ReportInvariant

LEMMA RespondKeeps ==
  ASSUME ReportInvariant, CountryTypeOK', Respond
  PROVE  ReportInvariant'
<1> DEFINE seen == report.seen
           ask == report.ask
           row == [event |-> ask.about, rows |-> Counted(report')]
<1>1. /\ report.at = "queries" /\ seen \in Seq(Snapshots) /\ auditLog = <<>>
      /\ report' = [ask |-> ask, seen |-> seen, answer |-> Answer(report), at |-> "done"]
      /\ Len(seen) = Queries(report)
      /\ overtaken' = overtaken /\ overtaken \in BOOLEAN
      /\ auditLog' = <<>> \/ (Audits(report') /\ auditLog' = <<row>>)
  <2>1. report.at = "queries" /\ Len(seen) = Queries(report) /\ overtaken' = overtaken
        /\ report' = [report EXCEPT !.answer = Answer(report), !.at = "done"]
        /\ _audit(report')
    BY DEF Respond
  <2>2. /\ report = [ask |-> ask, seen |-> seen, answer |-> report.answer, at |-> report.at]
        /\ seen \in Seq(Snapshots) /\ auditLog = <<>> /\ overtaken \in BOOLEAN
    BY <2>1 DEF ReportInvariant, ReportShape, Done
  <2>3. report' = [ask |-> ask, seen |-> seen, answer |-> Answer(report), at |-> "done"]
    BY <2>1, <2>2
  <2>4. auditLog' = <<>> \/ (Audits(report') /\ auditLog' = Append(<<>>, row))
    <3>1. report'.ask = ask
      BY <2>3
    <3> HIDE DEF ask, seen
    <3>2. QED
      BY <2>1, <2>2, <3>1 DEF _audit
  <2>5. Append(<<>>, row) = <<row>>
    OBVIOUS
  <2> HIDE DEF row
  <2>6. QED
    BY <2>1, <2>2, <2>3, <2>4, <2>5
<1>2. \A i \in 1..Len(seen) : Country(seen[i])
  BY <1>1, SnapshotIsACountry
<1>3. ReportShape' /\ OneCountry'
  BY <1>1 DEF ReportShape, OneCountry
<1>4. PartsWithinWholes'
  <2>1. CASE ask.about = "attendance"
    <3>1. Country(seen[1]) /\ Answer(report) = Attendance(ask.scope, ask.since, seen)
      BY <1>1, <1>2, <2>1 DEF Queries, Answer
    <3>2. QED
      BY <1>1, <2>1, <3>1, AttendanceParts DEF PartsWithinWholes
  <2>2. CASE ask.about = "pass_rate"
    <3>1. Country(seen[1]) /\ Answer(report) = PassRate(ask.scope, seen)
      BY <1>1, <1>2, <2>2 DEF Queries, Answer
    <3>2. QED
      BY <1>1, <2>2, <3>1, PassRateParts DEF PartsWithinWholes
  <2>3. CASE ask.about = "unesco"
    <3>1. Country(seen[2]) /\ Country(seen[6]) /\ Answer(report) = Unesco(seen)
      BY <1>1, <1>2, <2>3 DEF Queries, Answer
    <3>2. QED
      BY <1>1, <2>3, <3>1, UnescoParts DEF PartsWithinWholes
  <2>4. CASE ask.about = "dropout_rate"
    <3>1. /\ Len(seen) = 5 /\ Country(seen[1])
          /\ Answer(report) = PolicyImpact("dropout_rate", ask.scope, ask.code, seen)
      BY <1>1, <1>2, <2>4 DEF Queries, Answer
    <3>2. ~overtaken => \A i \in 1..5 : seen[i] = seen[1]
      BY <1>1, <2>4, <3>1 DEF ReportInvariant, OneCountry
    <3>3. QED
      BY <1>1, <2>4, <3>1, <3>2, PolicyParts DEF PartsWithinWholes
  <2>5. CASE ask.about = "enrolment"
    <3>1. Country(seen[1]) /\ Country(seen[2]) /\ Answer(report) = Enrolment(ask.scope, seen)
      BY <1>1, <1>2, <2>5 DEF Queries, Answer
    <3>2. QED
      BY <1>1, <2>5, <3>1, EnrolmentParts DEF PartsWithinWholes
  <2>6. CASE ask.about = "ptr"
    <3>1. Country(seen[1]) /\ Country(seen[2]) /\ Answer(report) = Ptr(ask.scope, seen)
      BY <1>1, <1>2, <2>6 DEF Queries, Answer
    <3>2. QED
      BY <1>1, <2>6, <3>1, PtrParts DEF PartsWithinWholes
  <2>7. CASE ask.about \notin {"attendance", "pass_rate", "unesco", "dropout_rate",
                               "enrolment", "ptr"}
    BY <1>1, <2>7 DEF PartsWithinWholes
  <2>8. QED
    BY <2>1, <2>2, <2>3, <2>4, <2>5, <2>6, <2>7
<1>5. ReadsAreTrailed'
  <2>1. CASE auditLog' = <<>>
    BY <2>1 DEF ReadsAreTrailed
  <2>2. CASE auditLog' = <<row>> /\ Audits(report')
    <3>1. Len(auditLog') = 1 /\ auditLog'[1] = row /\ Done'
      BY <1>1, <2>2 DEF Done
    <3>2. ask.about = "comparative" => row.rows > 0
      <4>1. SUFFICES ASSUME ask.about = "comparative" PROVE Counted(report') > 0
        OBVIOUS
      <4>2. Answer(report) = Comparative(ask.scope, ask.code, seen)
        BY <4>1 DEF Answer
      <4>3. Country(seen[1])
        <5>1. Queries(report) \in {1, 3}
          BY <4>1 DEF Queries
        <5>2. QED
          BY <1>1, <1>2, <5>1
      <4>4. DOMAIN Answer(report) # {} /\ IsFiniteSet(DOMAIN Answer(report))
        BY <1>1, <2>2, <4>1, <4>2, <4>3, ComparisonIsFinite DEF Audits
      <4>5. Counted(report') = Cardinality(DOMAIN Answer(report))
        BY <1>1, <4>1 DEF Counted
      <4>6. QED
        BY <4>4, <4>5, CountSome
    <3>3. ask.about = "enrolment" /\ ask.scope # "national" =>
              row.rows = Cardinality(CodesOf(seen[1], ask.scope, Registered(seen[1])))
      <4>1. SUFFICES ASSUME ask.about = "enrolment", ask.scope # "national"
                     PROVE  Counted(report') = Cardinality(CodesOf(seen[1], ask.scope, Registered(seen[1])))
        OBVIOUS
      <4>2. Country(seen[1]) /\ Country(seen[2]) /\ Answer(report) = Enrolment(ask.scope, seen)
        BY <1>1, <1>2, <4>1 DEF Queries, Answer
      <4>3. Counted(report') = Cardinality(DOMAIN Answer(report))
        BY <1>1, <4>1 DEF Counted
      <4>4. QED
        BY <4>1, <4>2, <4>3, EnrolmentParts
    <3>4. report'.ask = ask /\ report'.seen = seen /\ row.event = ask.about
      BY <1>1
    <3> HIDE DEF row, ask, seen
    <3>5. QED
      BY <3>1, <3>2, <3>3, <3>4 DEF ReadsAreTrailed
  <2>3. QED
    BY <1>1, <2>1, <2>2
<1>6. Done'
  BY <1>1 DEF Done
<1>7. QED
  BY <1>3, <1>4, <1>5, <1>6 DEF ReportInvariant, ReportsAreSound

\* Another request leaves the report alone and, in the middle of its queries, says so.
LEMMA CommitKeeps ==
  ASSUME ReportInvariant, CountryTypeOK', Commits
  PROVE  ReportInvariant'
<1>1. /\ report' = report /\ auditLog' = auditLog
      /\ overtaken' = (overtaken \/ (report.at = "queries"
                                     /\ Len(report.seen) \in 1..(Queries(report) - 1)))
  BY DEF Commits
<1>2. ReportShape'
  BY <1>1 DEF ReportInvariant, ReportShape
<1>3. OneCountry'
  <2>1. SUFFICES ASSUME report.at = "queries", report.ask.about = "dropout_rate", ~overtaken'
                 PROVE  /\ \A i \in 1..Len(report.seen) : report.seen[i] = report.seen[1]
                        /\ Len(report.seen) \notin 1..4
    BY <1>1 DEF OneCountry
  <2>2. Queries(report) = 5
    BY <2>1 DEF Queries
  <2>3. Len(report.seen) \notin 1..4 /\ ~overtaken
    <3>1. overtaken \in BOOLEAN
      BY DEF ReportInvariant, ReportShape
    <3>2. overtaken' = (overtaken \/ (report.at = "queries" /\ Len(report.seen) \in 1..4))
      <4>1. 5 - 1 = 4
        OBVIOUS
      <4>2. QED
        BY <1>1, <2>2, <4>1, Zenon
    <3>3. QED
      BY <2>1, <3>1, <3>2, Zenon
  <2>4. QED
    BY <2>1, <2>3 DEF ReportInvariant, OneCountry
<1>4. PartsWithinWholes'
  <2>1. Done => overtaken' = overtaken
    BY <1>1 DEF Done, ReportInvariant, ReportShape
  <2>2. PartsWithinWholes
    BY DEF ReportInvariant, ReportsAreSound
  <2>3. QED
    BY <1>1, <2>1, <2>2 DEF PartsWithinWholes, Done
<1>5. ReadsAreTrailed' /\ (~Done' => auditLog' = <<>>)
  BY <1>1 DEF ReportInvariant, ReportsAreSound, ReadsAreTrailed, Done
<1>6. QED
  BY <1>2, <1>3, <1>4, <1>5 DEF ReportInvariant, ReportsAreSound

\* Whatever commits between the queries of a report, a part is never larger than its whole
\* and nobody counts twice, and what leaves a row in the audit trail is an answer
\* (ministry_routes.py:116-142, 253-296).
THEOREM ReportsAreAlwaysSound == MinistrySpec => []ReportsAreSound
<1>1. MinistryInit /\ CountryTypeOK => ReportInvariant
  <2> SUFFICES ASSUME MinistryInit, CountryTypeOK PROVE ReportInvariant
    OBVIOUS
  <2>1. report = NoReport /\ report.at = "none" /\ auditLog = <<>> /\ overtaken = FALSE
    BY DEF MinistryInit, NoReport
  <2>2. ReportShape /\ OneCountry
    BY <2>1 DEF ReportShape, OneCountry
  <2>3. PartsWithinWholes
    BY <2>1 DEF PartsWithinWholes, Done
  <2>4. ReadsAreTrailed
    <3>1. Len(<<>>) = 0
      OBVIOUS
    <3>2. QED
      BY <2>1, <3>1 DEF ReadsAreTrailed
  <2>5. QED
    BY <2>1, <2>2, <2>3, <2>4 DEF ReportInvariant, ReportsAreSound
<1>2. ReportInvariant /\ CountryTypeOK' /\ [MinistryNext]_ministry => ReportInvariant'
  <2> SUFFICES ASSUME ReportInvariant, CountryTypeOK', [MinistryNext]_ministry
               PROVE  ReportInvariant'
    OBVIOUS
  <2>1. CASE \E r \in Question, isMinistry \in BOOLEAN : Ask(r, isMinistry)
    BY <2>1, AskKeeps
  <2>2. CASE Query
    BY <2>2, QueryKeeps
  <2>3. CASE Respond
    BY <2>3, RespondKeeps
  <2>4. CASE CommitNext
    <3>1. Commits
      BY <2>4 DEF CommitNext, update_student, upsert_school, assign_class_teacher,
                  delete_class_teacher, FileEntry
    <3>2. QED
      BY <3>1, CommitKeeps
  <2>5. CASE UNCHANGED ministry
    <3>1. /\ UNCHANGED <<report, overtaken, auditLog>> /\ Now' = Now
      BY <2>5 DEF ministry, Now
    <3>2. ReportsAreSound'
      BY <3>1 DEF ReportInvariant, ReportsAreSound, PartsWithinWholes, ReadsAreTrailed, Done
    <3>3. QED
      BY <3>1, <3>2 DEF ReportInvariant, ReportShape, OneCountry, Done
  <2>6. QED
    BY <2>1, <2>2, <2>3, <2>4, <2>5 DEF MinistryNext
<1>3. ReportInvariant => ReportsAreSound
  BY DEF ReportInvariant
<1>4. QED
  BY <1>1, <1>2, <1>3, CountryIsTyped, PTL DEF MinistrySpec

\* What the ministry is told adds up, and is sound whatever is committed while it asks, in
\* every country that can be reached (ministry_routes.py:116-1343).
THEOREM MinistryAlwaysAgrees == MinistrySpec => []MinistryAgrees
<1>1. NationAddsUp /\ ReportsAreSound => MinistryAgrees
  BY DEF MinistryAgrees
<1>2. QED
  BY <1>1, NationAlwaysAddsUp, ReportsAreAlwaysSound, PTL

--------------------------------------------------------------------------------
\* The rows of a school, table by table.
SchoolRows == [paper : [Papers -> PaperRow \cup {Nil}],
               sheet : [Papers -> [Learners -> SheetRow \cup {Nil}]],
               register : SUBSET AttendanceRow, today : Nat, bill : SUBSET BillRow,
               tags : [Works -> [kind : Kinds, topics : SUBSET Topics] \cup {Nil}],
               listed : SUBSET Learners, enrolled : SUBSET Learners,
               enrolment : SUBSET Learners, family : SUBSET (Learners \X Guardians),
               guardian : SUBSET Guardians, found : BOOLEAN]
SchoolFits(v) ==
    /\ IsFiniteSet(v.register) /\ IsFiniteSet(v.bill)
    /\ v.enrolment \subseteq v.enrolled
    /\ v.family \subseteq v.enrolled \X v.guardian
    /\ \A a \in Papers, l \in Learners :
          v.sheet[a][l] # Nil => /\ v.paper[a] # Nil
                                 /\ v.sheet[a][l].marks \in {Nil} \cup 0..v.paper[a].max

LEMMA SchoolIsTyped == SchoolTypeOK <=> school \in SchoolRows /\ SchoolFits(school)
BY DEF SchoolTypeOK, SchoolRows, SchoolFits

\* No request breaks the tables, and none removes a link.
SchoolGrows == SchoolTypeOK' /\ school.family \subseteq school'.family

LEMMA FitsGrow ==
  ASSUME school' \in SchoolRows, SchoolFits(school'), school.family \subseteq school'.family
  PROVE  SchoolGrows
BY DEF SchoolGrows, SchoolTypeOK, SchoolRows, SchoolFits

LEMMA MarkAttendanceGrows ==
  ASSUME SchoolTypeOK, NEW row \in AttendanceRow, MarkAttendance(row)
  PROVE  SchoolGrows
<1> DEFINE rest == {r \in school.register :
                       ~(r.learner = row.learner /\ r.day = row.day /\ r.period = row.period)}
<1>1. school \in SchoolRows /\ SchoolFits(school)
  BY SchoolIsTyped
<1>2. school' = [school EXCEPT !.register = rest \cup {row}]
  BY DEF MarkAttendance, Commit
<1>3. rest \cup {row} \in SUBSET AttendanceRow /\ IsFiniteSet(rest \cup {row})
  <2>1. IsFiniteSet(rest) /\ rest \subseteq AttendanceRow
    BY <1>1, FS_Subset DEF SchoolRows, SchoolFits
  <2> HIDE DEF rest
  <2>2. QED
    BY <2>1, FS_AddElement
<1> HIDE DEF rest
<1>4. school' \in SchoolRows /\ SchoolFits(school') /\ school'.family = school.family
  BY <1>1, <1>2, <1>3 DEF SchoolRows, SchoolFits
<1>5. QED
  BY <1>4, FitsGrow

LEMMA PayBillGrows ==
  ASSUME SchoolTypeOK, NEW b \in school.bill, PayBill(b)
  PROVE  SchoolGrows
<1> DEFINE bills == (school.bill \ {b}) \cup {[b EXCEPT !.paid = b.total, !.status = "PAID"]}
<1>1. school \in SchoolRows /\ SchoolFits(school)
  BY SchoolIsTyped
<1>2. school' = [school EXCEPT !.bill = bills]
  BY DEF PayBill, Commit
<1>3. bills \in SUBSET BillRow /\ IsFiniteSet(bills)
  <2>1. b \in BillRow /\ school.bill \subseteq BillRow /\ IsFiniteSet(school.bill)
    BY <1>1 DEF SchoolRows, SchoolFits
  <2>2. [b EXCEPT !.paid = b.total, !.status = "PAID"] \in BillRow
    <3> DEFINE Base == [learner : Learners, status : {"PENDING", "PARTIAL", "OVERDUE", "PAID"},
                        total : Nat, paid : Nat, late : Nat]
               new == [b EXCEPT !.paid = b.total, !.status = "PAID"]
    <3>1. b \in Base /\ b.total \in Nat
      BY <2>1 DEF BillRow
    <3>2. new \in Base /\ new.paid = b.total /\ new.total = b.total
      BY <3>1
    <3>3. new.paid <= new.total
      BY <3>1, <3>2
    <3> HIDE DEF new
    <3>4. new \in BillRow
      BY <3>2, <3>3 DEF BillRow
    <3>5. QED
      BY <3>4 DEF new
  <2>3. IsFiniteSet(school.bill \ {b})
    BY <2>1, FS_Difference
  <2>4. IsFiniteSet(bills)
    BY <2>3, FS_AddElement
  <2>5. QED
    BY <2>1, <2>2, <2>4
<1> HIDE DEF bills
<1>4. school' \in SchoolRows /\ SchoolFits(school') /\ school'.family = school.family
  BY <1>1, <1>2, <1>3 DEF SchoolRows, SchoolFits
<1>5. QED
  BY <1>4, FitsGrow

LEMMA NewPaperGrows ==
  ASSUME SchoolTypeOK, NEW a \in Papers, NewPaper(a)
  PROVE  SchoolGrows
<1> DEFINE papers == [school.paper EXCEPT ![a] = [subject |-> 1, max |-> 1]]
<1>1. school \in SchoolRows /\ SchoolFits(school)
  BY SchoolIsTyped
<1>2. school' = [school EXCEPT !.paper = papers] /\ school.paper[a] = Nil
  BY DEF NewPaper, Commit
<1>3. papers \in [Papers -> PaperRow \cup {Nil}]
  BY <1>1 DEF SchoolRows, PaperRow
<1>4. \A l \in Learners : school.sheet[a][l] = Nil
  BY <1>1, <1>2 DEF SchoolFits
<1>5. \A c \in Papers : c # a => papers[c] = school.paper[c]
  BY <1>1 DEF SchoolRows
<1> HIDE DEF papers
<1>6. school' \in SchoolRows
  BY <1>1, <1>2, <1>3 DEF SchoolRows
<1>7. /\ school'.paper = papers /\ school'.sheet = school.sheet
      /\ school'.register = school.register /\ school'.bill = school.bill
      /\ school'.enrolment = school.enrolment /\ school'.enrolled = school.enrolled
      /\ school'.family = school.family /\ school'.guardian = school.guardian
  BY <1>1, <1>2 DEF SchoolRows
<1>8. SchoolFits(school')
  <2>1. ASSUME NEW c \in Papers, NEW l \in Learners, school'.sheet[c][l] # Nil
        PROVE  /\ school'.paper[c] # Nil
               /\ school'.sheet[c][l].marks \in {Nil} \cup 0..school'.paper[c].max
    BY <1>1, <1>4, <1>5, <1>7, <2>1 DEF SchoolFits
  <2>2. QED
    BY <1>1, <1>7, <2>1 DEF SchoolFits
<1>9. QED
  BY <1>6, <1>7, <1>8, FitsGrow

LEMMA SaveMarkGrows ==
  ASSUME SchoolTypeOK, NEW a \in Papers, NEW l \in Learners, NEW row \in SheetRow,
         SaveMark(a, l, row)
  PROVE  SchoolGrows
<1> DEFINE sheets == [school.sheet EXCEPT ![a] = [school.sheet[a] EXCEPT ![l] = row]]
<1>1. school \in SchoolRows /\ SchoolFits(school)
  BY SchoolIsTyped
<1>2. school' = [school EXCEPT !.sheet = sheets]
  BY DEF SaveMark, Commit
<1>5. school.paper[a] # Nil /\ row.marks \in {Nil} \cup 0..school.paper[a].max
  BY DEF SaveMark
<1>3. sheets \in [Papers -> [Learners -> SheetRow \cup {Nil}]]
  BY <1>1 DEF SchoolRows
<1>4. \A c \in Papers, k \in Learners :
          sheets[c][k] = IF c = a /\ k = l THEN row ELSE school.sheet[c][k]
  BY <1>1 DEF SchoolRows
<1> HIDE DEF sheets
<1>6. school' \in SchoolRows
  BY <1>1, <1>2, <1>3 DEF SchoolRows
<1>7. /\ school'.paper = school.paper /\ school'.sheet = sheets
      /\ school'.register = school.register /\ school'.bill = school.bill
      /\ school'.enrolment = school.enrolment /\ school'.enrolled = school.enrolled
      /\ school'.family = school.family /\ school'.guardian = school.guardian
  BY <1>1, <1>2 DEF SchoolRows
<1>8. SchoolFits(school')
  <2>1. ASSUME NEW c \in Papers, NEW k \in Learners, sheets[c][k] # Nil
        PROVE  /\ school.paper[c] # Nil
               /\ sheets[c][k].marks \in {Nil} \cup 0..school.paper[c].max
    <3>1. CASE c = a /\ k = l
      BY <1>4, <1>5, <2>1, <3>1
    <3>2. CASE ~(c = a /\ k = l)
      <4>1. sheets[c][k] = school.sheet[c][k]
        BY <1>4, <3>2
      <4>2. QED
        BY <1>1, <2>1, <4>1 DEF SchoolFits
    <3>3. QED
      BY <3>1, <3>2
  <2>2. QED
    BY <1>1, <1>7, <2>1 DEF SchoolFits
<1>9. QED
  BY <1>6, <1>7, <1>8, FitsGrow

LEMMA RosterGrows ==
  ASSUME SchoolTypeOK,
         \/ \E l \in Learners : Leaves(l) \/ TakeIn(l) \/ PutInClass(l)
                               \/ \E g \in Guardians : LinkGuardian(l, g)
         \/ \E g \in Guardians : NewGuardian(g)
  PROVE  SchoolGrows
<1>1. school \in SchoolRows /\ SchoolFits(school)
  BY SchoolIsTyped
<1>2. ASSUME NEW l \in Learners, Leaves(l) PROVE SchoolGrows
  <2>1. school' = [school EXCEPT !.listed = school.listed \ {l}]
    BY <1>2 DEF Leaves, Commit
  <2>2. school' \in SchoolRows /\ SchoolFits(school') /\ school'.family = school.family
    BY <1>1, <2>1 DEF SchoolRows, SchoolFits
  <2>3. QED
    BY <2>2, FitsGrow
<1>3. ASSUME NEW l \in Learners, TakeIn(l) PROVE SchoolGrows
  <2>1. school' = [school EXCEPT !.enrolled = school.enrolled \cup {l}]
    BY <1>3 DEF TakeIn, Commit
  <2>2. school' \in SchoolRows /\ SchoolFits(school') /\ school'.family = school.family
    BY <1>1, <2>1 DEF SchoolRows, SchoolFits
  <2>3. QED
    BY <2>2, FitsGrow
<1>4. ASSUME NEW l \in Learners, PutInClass(l) PROVE SchoolGrows
  <2>1. school' = [school EXCEPT !.enrolment = school.enrolment \cup {l}] /\ l \in school.enrolled
    BY <1>4 DEF PutInClass, Commit
  <2>2. school' \in SchoolRows /\ SchoolFits(school') /\ school'.family = school.family
    BY <1>1, <2>1 DEF SchoolRows, SchoolFits
  <2>3. QED
    BY <2>2, FitsGrow
<1>5. ASSUME NEW l \in Learners, NEW g \in Guardians, LinkGuardian(l, g) PROVE SchoolGrows
  <2>1. /\ school' = [school EXCEPT !.family = school.family \cup {<<l, g>>}]
        /\ l \in school.enrolled /\ g \in school.guardian
    BY <1>5 DEF LinkGuardian, Commit
  <2>2. school' \in SchoolRows /\ SchoolFits(school') /\ school.family \subseteq school'.family
    <3>1. school.family \cup {<<l, g>>} \in SUBSET (Learners \X Guardians)
      BY <1>1 DEF SchoolRows
    <3>2. school.family \cup {<<l, g>>} \subseteq school.enrolled \X school.guardian
      BY <1>1, <2>1 DEF SchoolFits
    <3>3. school' \in SchoolRows /\ school'.family = school.family \cup {<<l, g>>}
      BY <1>1, <2>1, <3>1 DEF SchoolRows
    <3>4. /\ school'.paper = school.paper /\ school'.sheet = school.sheet
          /\ school'.register = school.register /\ school'.bill = school.bill
          /\ school'.enrolment = school.enrolment /\ school'.enrolled = school.enrolled
          /\ school'.guardian = school.guardian
      BY <1>1, <2>1 DEF SchoolRows
    <3>5. SchoolFits(school')
      BY <1>1, <3>2, <3>3, <3>4 DEF SchoolFits
    <3>6. QED
      BY <3>3, <3>5
  <2>3. QED
    BY <2>2, FitsGrow
<1>6. ASSUME NEW g \in Guardians, NewGuardian(g) PROVE SchoolGrows
  <2>1. school' = [school EXCEPT !.guardian = school.guardian \cup {g}]
    BY <1>6 DEF NewGuardian, Commit
  <2>2. school' \in SchoolRows /\ SchoolFits(school') /\ school'.family = school.family
    BY <1>1, <2>1 DEF SchoolRows, SchoolFits
  <2>3. QED
    BY <2>2, FitsGrow
<1>7. QED
  BY <1>2, <1>3, <1>4, <1>5, <1>6

LEMMA CommitsGrow ==
  ASSUME SchoolTypeOK, SchoolCommits
  PROVE  /\ SchoolGrows /\ enquiry' = enquiry /\ trail' = trail
         /\ meanwhile' = (meanwhile \/ enquiry # NoEnquiry)
<1>1. /\ enquiry' = enquiry /\ trail' = trail
      /\ meanwhile' = (meanwhile \/ enquiry # NoEnquiry)
  BY DEF SchoolCommits, MarkAttendance, PayBill, NewPaper, SaveMark, Leaves, TakeIn,
         PutInClass, LinkGuardian, NewGuardian, Commit
<1>2. SchoolGrows
  BY MarkAttendanceGrows, PayBillGrows, NewPaperGrows, SaveMarkGrows, RosterGrows
     DEF SchoolCommits
<1>3. QED
  BY <1>1, <1>2

\* Whatever a school commits beside its reports, a link names a learner and a guardian of
\* it, a row of a class a learner, and a mark a paper whose maximum it keeps to
\* (the foreign keys of the tables, and the checks of assessment_service.py:110-160).
THEOREM SchoolIsAlwaysTyped == ReportsSpec => []SchoolTypeOK
<1>1. SchoolTypeOK /\ [EnquiryNext \/ SchoolCommits]_schoolVars => SchoolTypeOK'
  <2> SUFFICES ASSUME SchoolTypeOK, [EnquiryNext \/ SchoolCommits]_schoolVars PROVE SchoolTypeOK'
    OBVIOUS
  <2>1. CASE EnquiryNext \/ UNCHANGED schoolVars
    <3>1. school' = school
      BY <2>1 DEF EnquiryNext, list_active_students, dropout_student_detail, RankThe,
                  fetch_student_trend, fetch_invoices, export_school, export_parent_data,
                  Opens, Locates, _write_rows, schoolVars
    <3>2. QED
      BY <3>1 DEF SchoolTypeOK
  <2>2. CASE SchoolCommits
    BY <2>2, CommitsGrow DEF SchoolGrows
  <2>3. QED
    BY <2>1, <2>2
<1>2. QED
  BY <1>1, PTL DEF ReportsSpec

--------------------------------------------------------------------------------
\* What the dropout report has read and not yet ranked is of its page, and is the trend
\* of now unless something was committed meanwhile; so is what it has ranked.
DropoutHolds ==
    /\ enquiry = [about |-> "dropout", page |-> enquiry.page, left |-> enquiry.left,
                  trend |-> enquiry.trend, ranked |-> enquiry.ranked]
    /\ enquiry.page \subseteq Learners
    /\ enquiry.page = DOMAIN enquiry.ranked \cup enquiry.left
                      \cup (IF enquiry.trend = NoTrend THEN {} ELSE {enquiry.trend.of})
    /\ enquiry.trend # NoTrend /\ ~meanwhile =>
           enquiry.trend.rows = TrendRows(school, enquiry.trend.of, 1, school.today)
    /\ ~meanwhile => \A l \in DOMAIN enquiry.ranked :
           LET rows == TrendRows(school, l, 1, school.today)
           IN enquiry.ranked[l] \in Risks(rows, BillsOf(school, l)) \cup Risks(rows, {})

\* What a file holds.
FileRows == SUBSET (Learners \cup Guardians \cup (Learners \X Guardians) \cup AttendanceRow
                    \cup Papers \cup (Papers \X Learners))
\* A guardian's archive names the children that were linked, and they still are; the
\* school's is what is committed, unless something was meanwhile.
ArchiveHolds ==
    /\ enquiry = [about |-> "archive", of |-> enquiry.of, files |-> enquiry.files,
                  children |-> enquiry.children, done |-> enquiry.done]
    /\ enquiry.done \in Seq(FileRows)
    /\ Len(trail) = 1 /\ trail[1].actor = enquiry.of
    /\ enquiry.files = Nil => enquiry.done = <<>>
    /\ enquiry.files # Nil =>
           /\ enquiry.files \in {SchoolFiles, FamilyFiles, <<>>}
           /\ (enquiry.of = Nil) = (enquiry.files = SchoolFiles) \/ enquiry.files = <<>>
           /\ enquiry.files = FamilyFiles =>
                  /\ enquiry.children \subseteq Learners
                  /\ \A l \in enquiry.children : <<l, enquiry.of>> \in school.family
                  /\ Len(enquiry.done) >= 1 => enquiry.done[1] = enquiry.children
                  /\ Len(enquiry.done) >= 2 => enquiry.done[2] \subseteq enquiry.children
                  /\ Len(enquiry.done) >= 3 => LearnersOf(enquiry.done[3]) \subseteq enquiry.children
                  /\ Len(enquiry.done) >= 4 =>
                         {r[2] : r \in enquiry.done[4]} \subseteq enquiry.children
           /\ enquiry.files = SchoolFiles /\ ~meanwhile =>
                  \A i \in 1..Len(enquiry.done) :
                      i \in 1..7 => enquiry.done[i] = _stream(school, SchoolFiles[i])
EnquiryInvariant ==
    /\ SchoolTypeOK /\ meanwhile \in BOOLEAN
    /\ enquiry = NoEnquiry => trail = <<>>
    /\ enquiry = NoEnquiry \/ DropoutHolds \/ ArchiveHolds

\* Three kinds of enquiry that are not one another.
LEMMA NoEnquiryIsNone ==
  ASSUME EnquiryInvariant
  PROVE  /\ enquiry = NoEnquiry => enquiry.about = "none"
         /\ enquiry # NoEnquiry /\ enquiryOf("dropout") => DropoutHolds
         /\ enquiry # NoEnquiry /\ enquiryOf("archive") => ArchiveHolds
         /\ enquiryOf("dropout") \/ enquiryOf("archive") => enquiry # NoEnquiry
<1>1. enquiry = NoEnquiry => enquiry.about = "none"
  BY DEF NoEnquiry
<1>2. DropoutHolds => enquiry.about = "dropout"
  BY DEF DropoutHolds
<1>3. ArchiveHolds => enquiry.about = "archive"
  BY DEF ArchiveHolds
<1>4. QED
  BY <1>1, <1>2, <1>3 DEF EnquiryInvariant, enquiryOf

LEMMA RankTheKeeps ==
  ASSUME EnquiryInvariant, NEW page, page \subseteq Learners, RankThe(page)
  PROVE  EnquiryInvariant'
<1> DEFINE nobody == [l \in {} |-> Nil]
<1>1. /\ enquiry' = [about |-> "dropout", page |-> page, left |-> page, trend |-> NoTrend,
                     ranked |-> nobody]
      /\ school' = school /\ meanwhile' = meanwhile
  BY DEF RankThe
<1>2. DOMAIN nobody = {}
  OBVIOUS
<1> HIDE DEF nobody
<1>3. /\ enquiry'.page = page /\ enquiry'.left = page /\ enquiry'.trend = NoTrend
      /\ enquiry'.ranked = nobody /\ enquiry'.about = "dropout"
  BY <1>1
<1>4. enquiry' = [about |-> "dropout", page |-> enquiry'.page, left |-> enquiry'.left,
                  trend |-> enquiry'.trend, ranked |-> enquiry'.ranked]
  BY <1>1, <1>3, Zenon
<1>5. DropoutHolds'
  BY <1>2, <1>3, <1>4 DEF DropoutHolds
<1>6. enquiry' # NoEnquiry
  BY <1>3 DEF NoEnquiry
<1>7. SchoolTypeOK' /\ meanwhile' \in BOOLEAN
  BY <1>1 DEF EnquiryInvariant, SchoolTypeOK
<1>8. QED
  BY <1>5, <1>6, <1>7 DEF EnquiryInvariant

\* A record after two of its fields were set.
TrendOf(e, x, y) == [e EXCEPT !.left = x, !.trend = y]
RankedOf(e, y, r) == [e EXCEPT !.trend = y, !.ranked = r]
FilesOf(e, f, c) == [e EXCEPT !.files = f, !.children = c]
LEMMA TrendSet ==
  ASSUME NEW e, NEW p, NEW x, NEW y, NEW r, NEW x2, NEW y2,
         e = [about |-> "dropout", page |-> p, left |-> x, trend |-> y, ranked |-> r]
  PROVE  TrendOf(e, x2, y2)
             = [about |-> "dropout", page |-> p, left |-> x2, trend |-> y2, ranked |-> r]
<1> DEFINE first == [e EXCEPT !.left = x2]
<1>1. first = [about |-> "dropout", page |-> p, left |-> x2, trend |-> y, ranked |-> r]
  OBVIOUS
<1>2. TrendOf(e, x2, y2) = [first EXCEPT !.trend = y2]
  BY DEF TrendOf
<1> HIDE DEF first
<1>3. [first EXCEPT !.trend = y2]
          = [about |-> "dropout", page |-> p, left |-> x2, trend |-> y2, ranked |-> r]
  BY <1>1
<1>4. QED
  BY <1>2, <1>3

LEMMA RankedSet ==
  ASSUME NEW e, NEW p, NEW x, NEW y, NEW r, NEW y2, NEW r2,
         e = [about |-> "dropout", page |-> p, left |-> x, trend |-> y, ranked |-> r]
  PROVE  RankedOf(e, y2, r2)
             = [about |-> "dropout", page |-> p, left |-> x, trend |-> y2, ranked |-> r2]
<1> DEFINE first == [e EXCEPT !.trend = y2]
<1>1. first = [about |-> "dropout", page |-> p, left |-> x, trend |-> y2, ranked |-> r]
  OBVIOUS
<1>2. RankedOf(e, y2, r2) = [first EXCEPT !.ranked = r2]
  BY DEF RankedOf
<1> HIDE DEF first
<1>3. [first EXCEPT !.ranked = r2]
          = [about |-> "dropout", page |-> p, left |-> x, trend |-> y2, ranked |-> r2]
  BY <1>1
<1>4. QED
  BY <1>2, <1>3

LEMMA FilesSet ==
  ASSUME NEW e, NEW o, NEW f, NEW c, NEW d, NEW f2, NEW c2,
         e = [about |-> "archive", of |-> o, files |-> f, children |-> c, done |-> d]
  PROVE  FilesOf(e, f2, c2)
             = [about |-> "archive", of |-> o, files |-> f2, children |-> c2, done |-> d]
<1> DEFINE first == [e EXCEPT !.files = f2]
<1>1. first = [about |-> "archive", of |-> o, files |-> f2, children |-> c, done |-> d]
  OBVIOUS
<1>2. FilesOf(e, f2, c2) = [first EXCEPT !.children = c2]
  BY DEF FilesOf
<1> HIDE DEF first
<1>3. [first EXCEPT !.children = c2]
          = [about |-> "archive", of |-> o, files |-> f2, children |-> c2, done |-> d]
  BY <1>1
<1>4. QED
  BY <1>2, <1>3

LEMMA TrendKeeps ==
  ASSUME EnquiryInvariant, NEW l \in Learners, fetch_student_trend(l)
  PROVE  EnquiryInvariant'
<1> DEFINE trend == [of |-> l, rows |-> TrendRows(school, l, 1, school.today)]
<1>1. DropoutHolds /\ enquiry.trend = NoTrend /\ l \in enquiry.left
      /\ school' = school /\ meanwhile' = meanwhile
  BY NoEnquiryIsNone DEF fetch_student_trend
<1>2. enquiry' = [about |-> "dropout", page |-> enquiry.page, left |-> enquiry.left \ {l},
                  trend |-> trend, ranked |-> enquiry.ranked]
  <2>1. enquiry' = TrendOf(enquiry, enquiry.left \ {l}, trend)
    BY DEF fetch_student_trend, TrendOf
  <2>2. enquiry = [about |-> "dropout", page |-> enquiry.page, left |-> enquiry.left,
                   trend |-> enquiry.trend, ranked |-> enquiry.ranked]
    BY <1>1 DEF DropoutHolds
  <2> HIDE DEF trend
  <2>3. QED
    BY <2>1, TrendSet, <2>2
<1>3. trend # NoTrend
  BY ReportsAssumption DEF NoTrend
<1>4. trend.of = l /\ trend.rows = TrendRows(school, l, 1, school.today)
  OBVIOUS
<1> HIDE DEF trend
<1>5. /\ enquiry'.page = enquiry.page /\ enquiry'.left = enquiry.left \ {l}
      /\ enquiry'.trend = trend /\ enquiry'.ranked = enquiry.ranked /\ enquiry'.about = "dropout"
  BY <1>2
<1>6. enquiry' = [about |-> "dropout", page |-> enquiry'.page, left |-> enquiry'.left,
                  trend |-> enquiry'.trend, ranked |-> enquiry'.ranked]
  BY <1>2, <1>5, Zenon
<1>7. enquiry'.page = DOMAIN enquiry'.ranked \cup enquiry'.left \cup {enquiry'.trend.of}
  BY <1>1, <1>4, <1>5 DEF DropoutHolds
<1>8. DropoutHolds'
  BY <1>1, <1>3, <1>4, <1>5, <1>6, <1>7 DEF DropoutHolds
<1>9. enquiry' # NoEnquiry
  BY <1>5 DEF NoEnquiry
<1>10. SchoolTypeOK' /\ meanwhile' \in BOOLEAN
  BY <1>1 DEF EnquiryInvariant, SchoolTypeOK
<1>11. QED
  BY <1>8, <1>9, <1>10 DEF EnquiryInvariant

LEMMA InvoicesKeep ==
  ASSUME EnquiryInvariant, fetch_invoices
  PROVE  EnquiryInvariant'
<1> DEFINE of == enquiry.trend.of
           ranked(risk) == [l \in DOMAIN enquiry.ranked \cup {of} |->
                               IF l = of THEN risk ELSE enquiry.ranked[l]]
<1>1. DropoutHolds /\ enquiry.trend # NoTrend /\ school' = school /\ meanwhile' = meanwhile
  BY NoEnquiryIsNone DEF fetch_invoices
<1>2. PICK bills \in {BillsOf(school, of), {}} : \E risk \in Risks(enquiry.trend.rows, bills) :
          enquiry' = [enquiry EXCEPT !.trend = NoTrend, !.ranked = ranked(risk)]
  BY DEF fetch_invoices
<1>3. PICK risk \in Risks(enquiry.trend.rows, bills) :
          enquiry' = [enquiry EXCEPT !.trend = NoTrend, !.ranked = ranked(risk)]
  BY <1>2
<1>4. /\ DOMAIN ranked(risk) = DOMAIN enquiry.ranked \cup {of}
      /\ \A l \in DOMAIN ranked(risk) :
             ranked(risk)[l] = IF l = of THEN risk ELSE enquiry.ranked[l]
  OBVIOUS
<1> HIDE DEF ranked
<1>5. enquiry' = [about |-> "dropout", page |-> enquiry.page, left |-> enquiry.left,
                  trend |-> NoTrend, ranked |-> ranked(risk)]
  <2>1. enquiry = [about |-> "dropout", page |-> enquiry.page, left |-> enquiry.left,
                   trend |-> enquiry.trend, ranked |-> enquiry.ranked]
    BY <1>1 DEF DropoutHolds
  <2>2. enquiry' = RankedOf(enquiry, NoTrend, ranked(risk))
    BY <1>3 DEF RankedOf
  <2>3. QED
    BY RankedSet, <2>1, <2>2
<1>6. /\ enquiry'.page = enquiry.page /\ enquiry'.left = enquiry.left
      /\ enquiry'.trend = NoTrend /\ enquiry'.ranked = ranked(risk) /\ enquiry'.about = "dropout"
  BY <1>5
<1>7. enquiry' = [about |-> "dropout", page |-> enquiry'.page, left |-> enquiry'.left,
                  trend |-> enquiry'.trend, ranked |-> enquiry'.ranked]
  BY <1>5, <1>6, Zenon
<1>8. enquiry'.page = DOMAIN enquiry'.ranked \cup enquiry'.left
      /\ enquiry'.page \subseteq Learners
  BY <1>1, <1>4, <1>6 DEF DropoutHolds
<1>9. ASSUME ~meanwhile, NEW l \in DOMAIN ranked(risk)
      PROVE  LET rows == TrendRows(school, l, 1, school.today)
             IN ranked(risk)[l] \in Risks(rows, BillsOf(school, l)) \cup Risks(rows, {})
  <2>1. CASE l = of
    <3>1. ranked(risk)[l] = risk
      BY <1>4, <2>1
    <3>2. enquiry.trend.rows = TrendRows(school, l, 1, school.today)
      BY <1>1, <1>9, <2>1 DEF DropoutHolds
    <3>3. risk \in Risks(TrendRows(school, l, 1, school.today), bills)
          /\ bills \in {BillsOf(school, l), {}}
      BY <1>3, <2>1, <3>2
    <3>4. QED
      BY <3>1, <3>3
  <2>2. CASE l # of
    <3>1. l \in DOMAIN enquiry.ranked /\ ranked(risk)[l] = enquiry.ranked[l]
      BY <1>4, <2>2
    <3>2. QED
      BY <1>1, <1>9, <3>1 DEF DropoutHolds
  <2>3. QED
    BY <2>1, <2>2
<1>10. DropoutHolds'
  BY <1>1, <1>6, <1>7, <1>8, <1>9 DEF DropoutHolds
<1>11. enquiry' # NoEnquiry
  BY <1>6 DEF NoEnquiry
<1>12. SchoolTypeOK' /\ meanwhile' \in BOOLEAN
  BY <1>1 DEF EnquiryInvariant, SchoolTypeOK
<1>13. QED
  BY <1>10, <1>11, <1>12 DEF EnquiryInvariant

\* What the archives list, in order.
LEMMA TheFiles ==
  /\ Len(SchoolFiles) = 7 /\ Len(FamilyFiles) = 4
  /\ SchoolFiles # FamilyFiles /\ SchoolFiles # <<>> /\ FamilyFiles # <<>>
  /\ FamilyFiles[1] = "children" /\ FamilyFiles[2] = "enrolments"
  /\ FamilyFiles[3] = "attendance" /\ FamilyFiles[4] = "marks"
  /\ SchoolFiles[1] = "students" /\ SchoolFiles[2] = "guardians" /\ SchoolFiles[3] = "links"
  /\ SchoolFiles[4] = "enrolments" /\ SchoolFiles[5] = "attendance"
  /\ SchoolFiles[6] = "assessments" /\ SchoolFiles[7] = "marks"
  BY DEF SchoolFiles, FamilyFiles

LEMMA OpensKeeps ==
  ASSUME EnquiryInvariant, NEW event, NEW actor, Opens(event, actor)
  PROVE  EnquiryInvariant'
<1>1. /\ enquiry' = [about |-> "archive", of |-> actor, files |-> Nil, children |-> {},
                     done |-> <<>>]
      /\ school' = school /\ meanwhile' = meanwhile
      /\ trail' = Append(<<>>, [event |-> event, actor |-> actor])
  BY DEF Opens, EnquiryInvariant
<1>2. /\ enquiry'.of = actor /\ enquiry'.files = Nil /\ enquiry'.children = {}
      /\ enquiry'.done = <<>> /\ enquiry'.about = "archive"
  BY <1>1
<1>3. enquiry' = [about |-> "archive", of |-> enquiry'.of, files |-> enquiry'.files,
                  children |-> enquiry'.children, done |-> enquiry'.done]
  BY <1>1, <1>2, Zenon
<1>4. Len(trail') = 1 /\ trail'[1].actor = actor
  BY <1>1
<1>5. enquiry'.done \in Seq(FileRows)
  BY <1>2
<1>6. ArchiveHolds'
  BY <1>2, <1>3, <1>4, <1>5 DEF ArchiveHolds
<1>7. enquiry' # NoEnquiry
  BY <1>2 DEF NoEnquiry
<1>8. SchoolTypeOK' /\ meanwhile' \in BOOLEAN
  BY <1>1 DEF EnquiryInvariant, SchoolTypeOK
<1>9. QED
  BY <1>6, <1>7, <1>8 DEF EnquiryInvariant

\* The children of a guardian are linked to that guardian.
ChildrenOf(of) == {k[1] : k \in {j \in school.family : j[2] = of}}
LEMMA ChildrenAreLinked ==
  ASSUME SchoolTypeOK, NEW of
  PROVE  /\ ChildrenOf(of) \subseteq Learners
         /\ \A l \in ChildrenOf(of) : <<l, of>> \in school.family
<1>1. school.family \in SUBSET (Learners \X Guardians)
  BY DEF SchoolTypeOK
<1>2. ASSUME NEW l \in ChildrenOf(of)
      PROVE  l \in Learners /\ <<l, of>> \in school.family
  <2>1. PICK k \in school.family : k[2] = of /\ l = k[1]
    BY <1>2 DEF ChildrenOf
  <2>2. PICK a \in Learners, b \in Guardians : k = <<a, b>>
    BY <1>1, <2>1
  <2>3. QED
    BY <2>1, <2>2
<1>3. QED
  BY <1>2

LEMMA LocatesKeeps ==
  ASSUME EnquiryInvariant, Locates
  PROVE  EnquiryInvariant'
<1> DEFINE of == enquiry.of
           files == CASE of = Nil /\ school.found -> SchoolFiles
                      [] of # Nil /\ of \in school.guardian -> FamilyFiles
                      [] OTHER -> <<>>
<1>1. /\ ArchiveHolds /\ enquiry.files = Nil
      /\ school' = school /\ meanwhile' = meanwhile /\ trail' = trail
  BY NoEnquiryIsNone DEF Locates
<1>2. /\ files \in {SchoolFiles, FamilyFiles, <<>>}
      /\ (of = Nil) = (files = SchoolFiles) \/ files = <<>>
  BY TheFiles
<1>3. enquiry' = FilesOf(enquiry, files, ChildrenOf(of))
  BY DEF Locates, FilesOf, ChildrenOf
<1> HIDE DEF files
<1>4. enquiry' = [about |-> "archive", of |-> of, files |-> files,
                  children |-> ChildrenOf(of), done |-> enquiry.done]
  <2>1. enquiry = [about |-> "archive", of |-> enquiry.of, files |-> enquiry.files,
                   children |-> enquiry.children, done |-> enquiry.done]
    BY <1>1 DEF ArchiveHolds
  <2>2. QED
    BY <1>3, FilesSet, <2>1
<1>5. enquiry.done = <<>> /\ Len(trail) = 1 /\ trail[1].actor = of
  BY <1>1 DEF ArchiveHolds
<1>6. /\ enquiry'.of = of /\ enquiry'.files = files /\ enquiry'.children = ChildrenOf(of)
      /\ enquiry'.done = <<>> /\ enquiry'.about = "archive"
  BY <1>4, <1>5
<1>7. enquiry' = [about |-> "archive", of |-> enquiry'.of, files |-> enquiry'.files,
                  children |-> enquiry'.children, done |-> enquiry'.done]
  BY <1>4, <1>5, <1>6, Zenon
<1>8. /\ ChildrenOf(of) \subseteq Learners
      /\ \A l \in ChildrenOf(of) : <<l, of>> \in school.family
  BY ChildrenAreLinked DEF EnquiryInvariant
<1>9. enquiry'.done \in Seq(FileRows) /\ Len(enquiry'.done) = 0
  BY <1>6
<1> HIDE DEF of
<1>10. ArchiveHolds'
  BY <1>1, <1>2, <1>5, <1>6, <1>7, <1>8, <1>9 DEF ArchiveHolds
<1>11. enquiry' # NoEnquiry
  BY <1>6 DEF NoEnquiry
<1>12. SchoolTypeOK' /\ meanwhile' \in BOOLEAN
  BY <1>1 DEF EnquiryInvariant, SchoolTypeOK
<1>13. QED
  BY <1>10, <1>11, <1>12 DEF EnquiryInvariant

LEMMA StreamIsAFile ==
  ASSUME SchoolTypeOK, NEW i \in 1..7
  PROVE  _stream(school, SchoolFiles[i]) \in FileRows
<1>1. /\ school.enrolled \subseteq Learners /\ school.guardian \subseteq Guardians
      /\ school.family \subseteq Learners \X Guardians /\ school.enrolment \subseteq Learners
      /\ school.register \subseteq AttendanceRow
  BY DEF SchoolTypeOK
<1>2. MarksIn(school, Learners) \subseteq Papers \X Learners
  BY DEF MarksIn
<1>3. i = 1 \/ i = 2 \/ i = 3 \/ i = 4 \/ i = 5 \/ i = 6 \/ i = 7
  OBVIOUS
<1>4. _stream(school, SchoolFiles[i]) \in
          {school.enrolled, school.guardian, school.family, school.enrolment, school.register,
           {a \in Papers : school.paper[a] # Nil}, MarksIn(school, Learners)}
  BY <1>3, TheFiles DEF _stream
<1>5. QED
  BY <1>1, <1>2, <1>4 DEF FileRows

\* What a query for a file of a guardian's finds is of the guardian's children.
LEMMA ChildFiles ==
  ASSUME SchoolTypeOK, NEW of, NEW children, children \subseteq Learners,
         \A l \in children : <<l, of>> \in school.family
  PROVE  /\ \A i \in 1..4 : OfChildren(school, FamilyFiles[i], children) \in FileRows
         /\ OfChildren(school, "children", children) = children
         /\ OfChildren(school, "enrolments", children) \subseteq children
         /\ LearnersOf(OfChildren(school, "attendance", children)) \subseteq children
         /\ {r[2] : r \in OfChildren(school, "marks", children)} \subseteq children
<1>1. /\ school.enrolled \subseteq Learners /\ school.enrolment \subseteq Learners
      /\ school.family \subseteq school.enrolled \X school.guardian
      /\ school.register \subseteq AttendanceRow
  BY DEF SchoolTypeOK
<1>2. children \subseteq school.enrolled
  BY <1>1
<1>3. OfChildren(school, "children", children) = children
  BY <1>2 DEF OfChildren
<1>4. OfChildren(school, "enrolments", children) \subseteq children
  BY DEF OfChildren
<1>5. /\ OfChildren(school, "attendance", children) \subseteq AttendanceRow
      /\ \A r \in OfChildren(school, "attendance", children) : r.learner \in children
  BY <1>1 DEF OfChildren
<1>6. OfChildren(school, "marks", children) \subseteq Papers \X children
  BY DEF OfChildren, MarksIn
<1>7. LearnersOf(OfChildren(school, "attendance", children)) \subseteq children
  BY <1>5 DEF LearnersOf
<1>8. {r[2] : r \in OfChildren(school, "marks", children)} \subseteq children
  BY <1>6
<1>9. ASSUME NEW i \in 1..4 PROVE OfChildren(school, FamilyFiles[i], children) \in FileRows
  <2>1. i = 1 \/ i = 2 \/ i = 3 \/ i = 4
    OBVIOUS
  <2>2. OfChildren(school, FamilyFiles[i], children) \in
            {OfChildren(school, "children", children), OfChildren(school, "enrolments", children),
             OfChildren(school, "attendance", children), OfChildren(school, "marks", children)}
    BY <2>1, TheFiles
  <2>3. Papers \X children \subseteq Papers \X Learners
    OBVIOUS
  <2>4. QED
    BY <2>2, <2>3, <1>3, <1>4, <1>5, <1>6 DEF FileRows
<1>10. QED
  BY <1>3, <1>4, <1>7, <1>8, <1>9

LEMMA WritesKeep ==
  ASSUME EnquiryInvariant, _write_rows
  PROVE  EnquiryInvariant'
<1> DEFINE n == Len(enquiry.done) + 1
           file == enquiry.files[n]
           rows == IF enquiry.of = Nil THEN _stream(school, file)
                   ELSE OfChildren(school, file, enquiry.children)
           done == Append(enquiry.done, rows)
<1>1. /\ ArchiveHolds /\ SchoolTypeOK /\ enquiry.files # Nil
      /\ Len(enquiry.done) < Len(enquiry.files)
      /\ school' = school /\ meanwhile' = meanwhile /\ trail' = trail
  BY NoEnquiryIsNone DEF _write_rows, EnquiryInvariant
<1>2. enquiry' = [about |-> "archive", of |-> enquiry.of, files |-> enquiry.files,
                  children |-> enquiry.children, done |-> done]
  <2>1. enquiry' = [enquiry EXCEPT !.done = done]
    BY DEF _write_rows
  <2>2. enquiry = [about |-> "archive", of |-> enquiry.of, files |-> enquiry.files,
                   children |-> enquiry.children, done |-> enquiry.done]
    BY <1>1 DEF ArchiveHolds
  <2> HIDE DEF done
  <2>3. QED
    BY <2>1, <2>2
<1>3. /\ enquiry.done \in Seq(FileRows) /\ Len(enquiry.done) \in Nat /\ n \in Nat \ {0}
      /\ enquiry.files \in {SchoolFiles, FamilyFiles}
      /\ (enquiry.of = Nil) = (enquiry.files = SchoolFiles)
  <2>1. enquiry.done \in Seq(FileRows) /\ Len(enquiry.done) \in Nat
    BY <1>1 DEF ArchiveHolds
  <2>2. enquiry.files # <<>>
    BY <1>1, <2>1
  <2>3. QED
    BY <1>1, <2>1, <2>2 DEF ArchiveHolds
<1>4. CASE enquiry.files = SchoolFiles
  <2>1. rows = _stream(school, SchoolFiles[n]) /\ n \in 1..7
    BY <1>1, <1>3, <1>4, TheFiles
  <2>2. rows \in FileRows
    BY <2>1, <1>1, StreamIsAFile
  <2> HIDE DEF rows, file
  <2>3. /\ done \in Seq(FileRows) /\ Len(done) = n /\ done[n] = rows
        /\ \A i \in 1..Len(enquiry.done) : done[i] = enquiry.done[i]
    BY <1>3, <2>2
  <2>4. \A i \in 1..n : i = n \/ i \in 1..Len(enquiry.done)
    BY <1>3
  <2> HIDE DEF done, n
  <2>5. /\ enquiry'.of = enquiry.of /\ enquiry'.files = enquiry.files
        /\ enquiry'.children = enquiry.children /\ enquiry'.done = done
        /\ enquiry'.about = "archive"
    BY <1>2
  <2>6. enquiry' = [about |-> "archive", of |-> enquiry'.of, files |-> enquiry'.files,
                    children |-> enquiry'.children, done |-> enquiry'.done]
    BY <1>2, <2>5, Zenon
  <2>7. ~meanwhile => \A i \in 1..Len(done) :
            i \in 1..7 => done[i] = _stream(school, SchoolFiles[i])
    BY <1>1, <1>4, <2>1, <2>3, <2>4 DEF ArchiveHolds
  <2>8. ArchiveHolds'
    BY <1>1, <1>3, <1>4, <2>3, <2>5, <2>6, <2>7, TheFiles DEF ArchiveHolds
  <2>9. enquiry' # NoEnquiry
    BY <2>5 DEF NoEnquiry
  <2>10. QED
    BY <1>1, <2>8, <2>9 DEF EnquiryInvariant, SchoolTypeOK
<1>5. CASE enquiry.files = FamilyFiles
  <2> DEFINE children == enquiry.children
  <2>1. rows = OfChildren(school, FamilyFiles[n], children) /\ n \in 1..4
    BY <1>1, <1>3, <1>5, TheFiles
  <2>2. children \subseteq Learners /\ \A l \in children : <<l, enquiry.of>> \in school.family
    BY <1>1, <1>5 DEF ArchiveHolds
  <2>3. /\ rows \in FileRows
        /\ n = 1 => rows = children
        /\ n = 2 => rows \subseteq children
        /\ n = 3 => LearnersOf(rows) \subseteq children
        /\ n = 4 => {r[2] : r \in rows} \subseteq children
    <3> HIDE DEF rows, n
    <3>1. /\ n = 1 => rows = OfChildren(school, "children", children)
          /\ n = 2 => rows = OfChildren(school, "enrolments", children)
          /\ n = 3 => rows = OfChildren(school, "attendance", children)
          /\ n = 4 => rows = OfChildren(school, "marks", children)
      BY <2>1, TheFiles
    <3>2. QED
      BY <1>1, <2>1, <2>2, <3>1, ChildFiles
  <2> HIDE DEF rows, file
  <2>4. /\ done \in Seq(FileRows) /\ Len(done) = n /\ done[n] = rows
        /\ \A i \in 1..Len(enquiry.done) : done[i] = enquiry.done[i]
    BY <1>3, <2>3
  <2>5. \A i \in 1..n : i = n \/ i \in 1..Len(enquiry.done)
    BY <1>3
  <2>6. \A i \in 1..Len(enquiry.done) : Len(enquiry.done) >= i /\ i # n
    BY <1>3
  <2> HIDE DEF done, n
  <2>7. /\ enquiry'.of = enquiry.of /\ enquiry'.files = enquiry.files
        /\ enquiry'.children = children /\ enquiry'.done = done
        /\ enquiry'.about = "archive"
    BY <1>2
  <2>8. enquiry' = [about |-> "archive", of |-> enquiry'.of, files |-> enquiry'.files,
                    children |-> enquiry'.children, done |-> enquiry'.done]
    BY <1>2, <2>7, Zenon
  <2>9. /\ Len(done) >= 1 => done[1] = children
        /\ Len(done) >= 2 => done[2] \subseteq children
        /\ Len(done) >= 3 => LearnersOf(done[3]) \subseteq children
        /\ Len(done) >= 4 => {r[2] : r \in done[4]} \subseteq children
    <3>1. 1 \in 1..n /\ (n >= 2 => 2 \in 1..n) /\ (n >= 3 => 3 \in 1..n) /\ (n >= 4 => 4 \in 1..n)
      BY <2>1
    <3>2. Len(done) >= 1 => done[1] = children
      BY <1>1, <1>5, <2>3, <2>4, <2>5, <2>6, <3>1 DEF ArchiveHolds
    <3>3. Len(done) >= 2 => done[2] \subseteq children
      BY <1>1, <1>5, <2>3, <2>4, <2>5, <2>6, <3>1 DEF ArchiveHolds
    <3>4. Len(done) >= 3 => LearnersOf(done[3]) \subseteq children
      BY <1>1, <1>5, <2>3, <2>4, <2>5, <2>6, <3>1 DEF ArchiveHolds
    <3>5. Len(done) >= 4 => {r[2] : r \in done[4]} \subseteq children
      BY <1>1, <1>5, <2>3, <2>4, <2>5, <2>6, <3>1 DEF ArchiveHolds
    <3>6. QED
      BY <3>2, <3>3, <3>4, <3>5
  <2>10. ArchiveHolds'
    BY <1>1, <1>3, <1>5, <2>2, <2>4, <2>7, <2>8, <2>9, TheFiles DEF ArchiveHolds
  <2>11. enquiry' # NoEnquiry
    BY <2>7 DEF NoEnquiry
  <2>12. QED
    BY <1>1, <2>10, <2>11 DEF EnquiryInvariant, SchoolTypeOK
<1>6. QED
  BY <1>3, <1>4, <1>5

\* What commits beside an enquiry leaves what it has and the links there are.
LEMMA SchoolCommitKeeps ==
  ASSUME EnquiryInvariant, SchoolCommits
  PROVE  EnquiryInvariant'
<1>1. SchoolTypeOK' /\ school.family \subseteq school.family'
  BY CommitsGrow DEF EnquiryInvariant, SchoolGrows
<1>2. /\ enquiry' = enquiry /\ trail' = trail
      /\ meanwhile' = (meanwhile \/ enquiry # NoEnquiry)
  BY DEF SchoolCommits, MarkAttendance, PayBill, NewPaper, SaveMark, Leaves, TakeIn,
         PutInClass, LinkGuardian, NewGuardian, Commit
<1>3. CASE enquiry = NoEnquiry
  BY <1>1, <1>2, <1>3 DEF EnquiryInvariant
<1>4. CASE enquiry # NoEnquiry
  <2>1. meanwhile' = TRUE
    BY <1>2, <1>4
  <2>2. DropoutHolds => DropoutHolds'
    BY <1>2, <2>1 DEF DropoutHolds
  <2>3. ArchiveHolds => ArchiveHolds'
    BY <1>1, <1>2, <2>1 DEF ArchiveHolds
  <2>4. QED
    BY <1>1, <1>2, <1>4, <2>1, <2>2, <2>3 DEF EnquiryInvariant
<1>5. QED
  BY <1>3, <1>4

LEMMA EnquiryStepKeeps ==
  ASSUME EnquiryInvariant, [EnquiryNext \/ SchoolCommits]_schoolVars
  PROVE  EnquiryInvariant'
<1>1. CASE \E size \in Nat : list_active_students(size)
  <2>1. PICK page : page \subseteq Learners /\ RankThe(page)
    <3>1. PICK size \in Nat : list_active_students(size)
      BY <1>1
    <3>2. PICK page \in kSubset(Min({size, Cardinality(school.listed)}), school.listed) :
              RankThe(page)
      BY <3>1 DEF list_active_students
    <3>3. page \subseteq school.listed /\ school.listed \subseteq Learners
      BY DEF kSubset, EnquiryInvariant, SchoolTypeOK
    <3>4. QED
      BY <3>2, <3>3
  <2>2. QED
    BY <2>1, RankTheKeeps
<1>2. ASSUME NEW l \in Learners, dropout_student_detail(l) PROVE EnquiryInvariant'
  BY <1>2, RankTheKeeps DEF dropout_student_detail
<1>3. ASSUME NEW l \in Learners, fetch_student_trend(l) PROVE EnquiryInvariant'
  BY <1>3, TrendKeeps
<1>4. CASE fetch_invoices
  BY <1>4, InvoicesKeep
<1>5. CASE export_school
  BY <1>5, OpensKeeps DEF export_school
<1>6. ASSUME NEW g \in Guardians, export_parent_data(g) PROVE EnquiryInvariant'
  BY <1>6, OpensKeeps DEF export_parent_data
<1>7. CASE Locates
  BY <1>7, LocatesKeeps
<1>8. CASE _write_rows
  BY <1>8, WritesKeep
<1>9. CASE SchoolCommits
  BY <1>9, SchoolCommitKeeps
<1>10. CASE UNCHANGED schoolVars
  BY <1>10 DEF schoolVars, EnquiryInvariant, SchoolTypeOK, DropoutHolds, ArchiveHolds
<1>11. QED
  BY <1>1, <1>2, <1>3, <1>4, <1>5, <1>6, <1>7, <1>8, <1>9, <1>10 DEF EnquiryNext

\* A report that has ranked everybody has read of everybody.
LEMMA RisksAreCurrentNow ==
  ASSUME EnquiryInvariant
  PROVE  RisksAreCurrent
<1> SUFFICES ASSUME Ranked PROVE RisksAreCurrent
  BY DEF RisksAreCurrent
<1>1. DropoutHolds
  BY NoEnquiryIsNone DEF Ranked
<1>2. DOMAIN enquiry.ranked = enquiry.page
  BY <1>1 DEF DropoutHolds, Ranked
<1>3. QED
  BY <1>1, <1>2 DEF DropoutHolds, RisksAreCurrent

\* An archive that is packed has all its files.
LEMMA ArchivesAgreeNow ==
  ASSUME EnquiryInvariant
  PROVE  ArchivesAgree
<1>1. enquiryOf("archive") => ArchiveHolds
  BY NoEnquiryIsNone
<1>2. enquiryOf("archive") => Len(trail) = 1 /\ trail[1].actor = enquiry.of
  BY <1>1 DEF ArchiveHolds
<1>3. ASSUME Packed, enquiry.files = FamilyFiles
      PROVE  LET d == enquiry.done IN
             /\ \A l \in d[1] : <<l, enquiry.of>> \in school.family
             /\ d[2] \cup LearnersOf(d[3]) \cup {r[2] : r \in d[4]} \subseteq d[1]
  <2>1. ArchiveHolds /\ enquiry.files # Nil /\ Len(enquiry.done) = 4
    BY <1>1, <1>3, TheFiles DEF Packed
  <2>2. /\ \A l \in enquiry.children : <<l, enquiry.of>> \in school.family
        /\ enquiry.done[1] = enquiry.children
        /\ enquiry.done[2] \subseteq enquiry.children
        /\ LearnersOf(enquiry.done[3]) \subseteq enquiry.children
        /\ {r[2] : r \in enquiry.done[4]} \subseteq enquiry.children
    BY <2>1, <1>3 DEF ArchiveHolds
  <2>3. QED
    BY <2>2
<1>4. ASSUME Packed, enquiry.files = SchoolFiles, ~meanwhile
      PROVE  LET d == enquiry.done IN
             /\ d[3] \subseteq d[1] \X d[2]
             /\ d[4] \subseteq d[1] /\ {r[1] : r \in d[7]} \subseteq d[6]
  <2>1. ArchiveHolds /\ enquiry.files # Nil /\ Len(enquiry.done) = 7
    BY <1>1, <1>4, TheFiles DEF Packed
  <2>2. \A i \in 1..7 : enquiry.done[i] = _stream(school, SchoolFiles[i])
    BY <2>1, <1>4 DEF ArchiveHolds
  <2>3. /\ enquiry.done[1] = school.enrolled /\ enquiry.done[2] = school.guardian
        /\ enquiry.done[3] = school.family /\ enquiry.done[4] = school.enrolment
        /\ enquiry.done[6] = {a \in Papers : school.paper[a] # Nil}
        /\ enquiry.done[7] = MarksIn(school, Learners)
    <3>1. /\ _stream(school, "students") = school.enrolled
          /\ _stream(school, "guardians") = school.guardian
          /\ _stream(school, "links") = school.family
          /\ _stream(school, "enrolments") = school.enrolment
          /\ _stream(school, "assessments") = {a \in Papers : school.paper[a] # Nil}
          /\ _stream(school, "marks") = MarksIn(school, Learners)
      BY DEF _stream
    <3>2. 1 \in 1..7 /\ 2 \in 1..7 /\ 3 \in 1..7 /\ 4 \in 1..7 /\ 6 \in 1..7 /\ 7 \in 1..7
      OBVIOUS
    <3> HIDE DEF _stream
    <3>3. QED
      BY <2>2, <3>1, <3>2, TheFiles
  <2>4. /\ school.family \subseteq school.enrolled \X school.guardian
        /\ school.enrolment \subseteq school.enrolled
        /\ \A r \in MarksIn(school, Learners) :
               r[1] \in {a \in Papers : school.paper[a] # Nil}
    BY DEF EnquiryInvariant, SchoolTypeOK, MarksIn
  <2>5. QED
    BY <2>3, <2>4
<1>5. QED
  BY <1>2, <1>3, <1>4 DEF ArchivesAgree

\* In any school, and whatever is committed while they are made, a dropout report ranks
\* exactly the learners it listed, each by what was read of that learner, and an archive
\* is on the audit trail, holds only the children of the guardian who asked, or fits
\* together when nothing was committed meanwhile (dropout_data.py:32-105,
\* export_routes.py:60-304).
THEOREM EnquiriesAlwaysAgree == ReportsSpec => []EnquiriesAgree
<1>1. ReportsInit /\ SchoolTypeOK => EnquiryInvariant
  BY DEF ReportsInit, EnquiryInvariant
<1>2. EnquiryInvariant /\ [EnquiryNext \/ SchoolCommits]_schoolVars => EnquiryInvariant'
  BY EnquiryStepKeeps
<1>3. EnquiryInvariant => EnquiriesAgree
  BY RisksAreCurrentNow, ArchivesAgreeNow DEF EnquiriesAgree
<1>4. QED
  BY <1>1, <1>2, <1>3, PTL DEF ReportsSpec

--------------------------------------------------------------------------------
\* A school of which reports are made.
School(v) == v \in SchoolRows /\ SchoolFits(v)

LEMMA SumOfIs ==
  ASSUME NEW f, NEW S, DOMAIN f = S
  PROVE  SumOf(f) = SumOver(f, S)
BY DEF SumOf, SumOver

ImageOf(f, S) == {f[x] : x \in S}
LEMMA ImageIsFinite ==
  ASSUME NEW S, IsFiniteSet(S), NEW f
  PROVE  IsFiniteSet(ImageOf(f, S))
<1> DEFINE T == ImageOf(f, S)
           g == [x \in S |-> f[x]]
<1>1. g \in Surjection(S, T)
  BY DEF Surjection, ImageOf
<1> HIDE DEF g
<1>2. QED
  BY <1>1, FS_Surjection

\* Counts of the members of X by a key h add up to those whose key is counted.
LEMMA SumOfGroups ==
  ASSUME NEW f, NEW K, DOMAIN f = K, IsFiniteSet(K), NEW X, IsFiniteSet(X), NEW h,
         \A k \in K : f[k] = Cardinality(KeyIs(X, h, k))
  PROVE  SumOf(f) = Cardinality(KeyIn(X, h, K))
<1> DEFINE P == [k \in K |-> KeyIs(X, h, k)]
<1>1. \A k \in K : IsFiniteSet(P[k]) /\ f[k] = Cardinality(P[k])
  BY FS_Subset DEF KeyIs
<1>2. \A i, j \in K : i # j => P[i] \cap P[j] = {}
  BY DEF KeyIs
<1>3. Pool(P, K) = KeyIn(X, h, K)
  BY DEF Pool, KeyIs, KeyIn
<1>4. SumOf(f) = SumOver(f, K)
  BY SumOfIs
<1> HIDE DEF P
<1>5. SumOver(f, K) = Cardinality(Pool(P, K))
  BY <1>1, <1>2, CountCover
<1>6. QED
  BY <1>3, <1>4, <1>5

LEMMA SchoolIsFinite ==
  ASSUME NEW v, School(v)
  PROVE  /\ IsFiniteSet(v.register) /\ v.register \subseteq AttendanceRow
         /\ v.paper \in [Papers -> PaperRow \cup {Nil}]
         /\ v.sheet \in [Papers -> [Learners -> SheetRow \cup {Nil}]]
         /\ v.tags \in [Works -> [kind : Kinds, topics : SUBSET Topics] \cup {Nil}]
         /\ \A a \in Papers, l \in Learners :
               v.sheet[a][l] # Nil => /\ v.paper[a] # Nil
                                      /\ v.sheet[a][l].marks \in {Nil} \cup 0..v.paper[a].max
         /\ IsFiniteSet(Learners) /\ IsFiniteSet(Papers) /\ IsFiniteSet(Topics)
         /\ IsFiniteSet(Works)
BY ReportsAssumption DEF School, SchoolRows, SchoolFits

--------------------------------------------------------------------------------
(* The register.                                                               *)
OfDay(v, d, x) == {r \in v.register : r.day = d /\ r.status = x}

LEMMA OnTheDay ==
  ASSUME NEW v, School(v), NEW d \in Nat
  PROVE  Between(v, d, d) = {r \in v.register : r.day = d}
BY SchoolIsFinite DEF Between, AttendanceRow

LEMMA DayIsSummed ==
  ASSUME NEW v, School(v), NEW d \in Nat, NEW x \in {"P", "A", "L"}
  PROVE  /\ daily_summary(v, d, Nil)[x] = Cardinality(OfDay(v, d, x))
         /\ IsFiniteSet(OfDay(v, d, x)) /\ OfDay(v, d, x) \subseteq AttendanceRow
<1>1. daily_summary(v, d, Nil) = Tally({r \in v.register : r.day = d})
  <2>1. {r \in Between(v, d, d) : Nil \in {Nil, r.class}} = {r \in v.register : r.day = d}
    BY OnTheDay
  <2>2. QED
    BY <2>1 DEF daily_summary
<1>2. {r \in {q \in v.register : q.day = d} : r.status = x} = OfDay(v, d, x)
  BY DEF OfDay
<1>3. Tally({r \in v.register : r.day = d})[x] = Cardinality(OfDay(v, d, x))
  BY <1>2 DEF Tally
<1>4. IsFiniteSet(OfDay(v, d, x)) /\ OfDay(v, d, x) \subseteq AttendanceRow
  BY SchoolIsFinite, FS_Subset DEF OfDay
<1>5. QED
  BY <1>1, <1>3, <1>4

ByClass == [r \in AttendanceRow |-> r.class]
ByLearner == [r \in AttendanceRow |-> r.learner]
ByPeriod == [r \in AttendanceRow |-> r.period]

\* A class has of a day, by its summary or by its day, its rows of the day.
LEMMA ClassIsSummed ==
  ASSUME NEW v, School(v), NEW d \in Nat, NEW x \in {"P", "A", "L"}, NEW c \in Classes
  PROVE  LET days == class_summary(v, c, d, d)
             n == Cardinality(KeyIs(OfDay(v, d, x), ByClass, c))
         IN /\ (IF d \in DOMAIN days THEN days[d][x] ELSE 0) = n
            /\ daily_summary(v, d, c)[x] = n
<1> DEFINE rows == {r \in v.register : r.day = d /\ r.class = c}
           of == {r \in rows : r.status = x}
<1>1. v.register \subseteq AttendanceRow
  BY SchoolIsFinite
<1>2. KeyIs(OfDay(v, d, x), ByClass, c) = of
  BY <1>1 DEF KeyIs, OfDay, ByClass
<1>3. c # Nil
  BY ReportsAssumption
<1>4. {r \in Between(v, d, d) : r.class = c} = rows
  BY OnTheDay
<1>5. {r \in Between(v, d, d) : c \in {Nil, r.class}} = rows
  BY <1>3, <1>4
<1>6. daily_summary(v, d, c) = Tally(rows)
  BY <1>5 DEF daily_summary
<1>7. class_summary(v, c, d, d)
          = [e \in {r.day : r \in rows} |-> Tally({r \in rows : r.day = e})]
  BY <1>4 DEF class_summary
<1>8. {r \in rows : r.day = d} = rows
  OBVIOUS
<1>9. Tally(rows)[x] = Cardinality(of)
  BY DEF Tally
<1>10. d \in {r.day : r \in rows} <=> rows # {}
  OBVIOUS
<1>11. d \notin {r.day : r \in rows} => Cardinality(of) = 0
  BY <1>10, FS_EmptySet
<1>12. d \in DOMAIN class_summary(v, c, d, d) <=> d \in {r.day : r \in rows}
  BY <1>7
<1>13. d \in {r.day : r \in rows} => class_summary(v, c, d, d)[d] = Tally(rows)
  BY <1>7, <1>8
<1> HIDE DEF rows, of
<1>14. QED
  BY <1>2, <1>6, <1>9, <1>11, <1>12, <1>13

LEMMA LearnerIsSummed ==
  ASSUME NEW v, School(v), NEW d \in Nat, NEW x \in {"P", "A", "L"}, NEW l \in Learners
  PROVE  student_trend(v, l, d, d)[x] = Cardinality(KeyIs(OfDay(v, d, x), ByLearner, l))
<1>1. v.register \subseteq AttendanceRow
  BY SchoolIsFinite
<1>2. TrendRows(v, l, d, d) = {r \in v.register : r.day = d /\ r.learner = l}
  BY OnTheDay DEF TrendRows
<1>3. {r \in TrendRows(v, l, d, d) : r.status = x} = KeyIs(OfDay(v, d, x), ByLearner, l)
  BY <1>1, <1>2 DEF KeyIs, OfDay, ByLearner
<1>4. QED
  BY <1>3 DEF student_trend, Tally

LEMMA RegisterAgreesNow ==
  ASSUME NEW v, School(v)
  PROVE  RegisterAgrees(v)
<1> DEFINE classes == {r.class : r \in v.register}
<1> SUFFICES ASSUME NEW d \in {r.day : r \in v.register}
    PROVE  /\ \A x \in {"P", "A", "L"} :
               LET whole == daily_summary(v, d, Nil)[x]
                   ofClass(c) == LET days == class_summary(v, c, d, d)
                                 IN IF d \in DOMAIN days THEN days[d][x] ELSE 0
               IN /\ whole = SumOf([c \in classes |-> ofClass(c)])
                  /\ whole = SumOf([c \in classes |-> daily_summary(v, d, c)[x]])
                  /\ whole = SumOf([l \in Learners |-> student_trend(v, l, d, d)[x]])
           /\ \A c \in classes :
               LET periods == {r.period : r \in v.register}
                   all == daily_records(v, d, c, Nil)
               IN /\ SumOf([p \in periods |-> Cardinality(daily_records(v, d, c, p))])
                      = Cardinality(all)
                  /\ Tally(all) = daily_summary(v, d, c)
  BY DEF RegisterAgrees
<1>1. IsFiniteSet(v.register) /\ v.register \subseteq AttendanceRow /\ d \in Nat
  BY SchoolIsFinite DEF AttendanceRow
<1>2. classes \subseteq Classes /\ IsFiniteSet(classes)
  <2> DEFINE class == [r \in v.register |-> r.class]
  <2>1. classes = ImageOf(class, v.register)
    BY DEF ImageOf
  <2> HIDE DEF class, classes
  <2>2. IsFiniteSet(classes)
    BY <1>1, <2>1, ImageIsFinite
  <2>3. classes \subseteq Classes
    BY <1>1 DEF AttendanceRow, classes
  <2>4. QED
    BY <2>2, <2>3
<1>3. ASSUME NEW x \in {"P", "A", "L"}
      PROVE  LET whole == daily_summary(v, d, Nil)[x]
                 ofClass(c) == LET days == class_summary(v, c, d, d)
                               IN IF d \in DOMAIN days THEN days[d][x] ELSE 0
             IN /\ whole = SumOf([c \in classes |-> ofClass(c)])
                /\ whole = SumOf([c \in classes |-> daily_summary(v, d, c)[x]])
                /\ whole = SumOf([l \in Learners |-> student_trend(v, l, d, d)[x]])
  <2> DEFINE X == OfDay(v, d, x)
             ofClass(c) == LET days == class_summary(v, c, d, d)
                           IN IF d \in DOMAIN days THEN days[d][x] ELSE 0
             f == [c \in classes |-> ofClass(c)]
             g == [c \in classes |-> daily_summary(v, d, c)[x]]
             h == [l \in Learners |-> student_trend(v, l, d, d)[x]]
  <2>1. /\ daily_summary(v, d, Nil)[x] = Cardinality(X) /\ IsFiniteSet(X)
        /\ X \subseteq AttendanceRow /\ X \subseteq v.register
    <3>1. X \subseteq v.register
      BY DEF OfDay
    <3> HIDE DEF X
    <3>2. QED
      BY <1>1, <3>1, DayIsSummed DEF X
  <2>2. KeyIn(X, ByClass, classes) = X
    BY <2>1 DEF KeyIn, ByClass
  <2>3. KeyIn(X, ByLearner, Learners) = X
    BY <2>1 DEF KeyIn, ByLearner, AttendanceRow
  <2>4. \A c \in classes : /\ f[c] = Cardinality(KeyIs(X, ByClass, c))
                           /\ g[c] = Cardinality(KeyIs(X, ByClass, c))
    BY <1>1, <1>2, ClassIsSummed
  <2>5. \A l \in Learners : h[l] = Cardinality(KeyIs(X, ByLearner, l))
    BY <1>1, LearnerIsSummed
  <2>6. DOMAIN f = classes /\ DOMAIN g = classes /\ DOMAIN h = Learners
    OBVIOUS
  <2> HIDE DEF X, f, g, h, classes
  <2>7. SumOf(f) = Cardinality(X) /\ SumOf(g) = Cardinality(X)
    BY <1>2, <2>1, <2>2, <2>4, <2>6, SumOfGroups
  <2>8. SumOf(h) = Cardinality(X)
    BY <2>1, <2>3, <2>5, <2>6, SumOfGroups, SchoolIsFinite
  <2>9. QED
    BY <2>1, <2>7, <2>8 DEF f, g, h
<1>4. ASSUME NEW c \in classes
      PROVE  LET periods == {r.period : r \in v.register}
                 all == daily_records(v, d, c, Nil)
             IN /\ SumOf([p \in periods |-> Cardinality(daily_records(v, d, c, p))])
                    = Cardinality(all)
                /\ Tally(all) = daily_summary(v, d, c)
  <2> DEFINE periods == {r.period : r \in v.register}
             all == daily_records(v, d, c, Nil)
             f == [p \in periods |-> Cardinality(daily_records(v, d, c, p))]
             period == [r \in v.register |-> r.period]
  <2>1. periods = ImageOf(period, v.register) /\ periods \subseteq Nat
    BY <1>1 DEF AttendanceRow, ImageOf
  <2>2. all = {r \in v.register : r.day = d /\ r.class = c}
    BY <1>1, OnTheDay DEF daily_records
  <2>3. \A p \in periods : daily_records(v, d, c, p) = KeyIs(all, ByPeriod, p)
    BY <1>1, <2>1, <2>2, OnTheDay, ReportsAssumption DEF daily_records, KeyIs, ByPeriod
  <2>4. KeyIn(all, ByPeriod, periods) = all
    BY <1>1, <2>2 DEF KeyIn, ByPeriod
  <2>5. IsFiniteSet(all)
    BY <1>1, <2>2, FS_Subset
  <2> HIDE DEF period
  <2>6. IsFiniteSet(periods)
    <3>1. IsFiniteSet(ImageOf(period, v.register))
      BY <1>1, ImageIsFinite
    <3>2. QED
      BY <2>1, <3>1
  <2>7. DOMAIN f = periods /\ \A p \in periods : f[p] = Cardinality(KeyIs(all, ByPeriod, p))
    BY <2>3
  <2>8. Tally(all) = daily_summary(v, d, c)
    <3>1. {r \in Between(v, d, d) : c \in {Nil, r.class}} = all
      BY <1>1, <1>2, <2>2, OnTheDay, ReportsAssumption
    <3>2. QED
      BY <3>1 DEF daily_summary
  <2> HIDE DEF f, periods, all
  <2>9. SumOf(f) = Cardinality(all)
    BY <2>4, <2>5, <2>6, <2>7, SumOfGroups
  <2>10. QED
    BY <2>8, <2>9 DEF f, periods, all
<1>5. QED
  BY <1>3, <1>4

--------------------------------------------------------------------------------
(* Curriculum coverage: the pairs of a work and a topic it names are counted by    *)
(* topic and by work.                                                              *)
Named(v, t) == {w \in Works : v.tags[w] # Nil /\ t \in v.tags[w].topics}
TagPairs(v) == {p \in Works \X Topics : v.tags[p[1]] # Nil /\ p[2] \in v.tags[p[1]].topics}
ByKind(v) == [w \in Works |-> v.tags[w].kind]
ByTopic == [p \in Works \X Topics |-> p[2]]
ByWork == [p \in Works \X Topics |-> p[1]]

LEMMA FewAreFinite ==
  ASSUME NEW a, NEW b, NEW c, NEW d
  PROVE  IsFiniteSet({a, b}) /\ IsFiniteSet({a, b, c}) /\ IsFiniteSet({a, b, c, d})
<1>1. IsFiniteSet({a})
  BY FS_Singleton
<1>2. IsFiniteSet({a} \cup {b})
  BY <1>1, FS_AddElement
<1>3. IsFiniteSet({a, b} \cup {c})
  <2>1. {a, b} = {a} \cup {b}
    OBVIOUS
  <2>2. QED
    BY <1>2, <2>1, FS_AddElement
<1>4. IsFiniteSet({a, b, c} \cup {d})
  <2>1. {a, b, c} = {a, b} \cup {c}
    OBVIOUS
  <2>2. QED
    BY <1>3, <2>1, FS_AddElement
<1>5. /\ {a, b} = {a} \cup {b} /\ {a, b, c} = {a, b} \cup {c}
      /\ {a, b, c, d} = {a, b, c} \cup {d}
  OBVIOUS
<1>6. QED
  BY <1>2, <1>3, <1>4, <1>5

LEMMA KindsAreFour == IsFiniteSet(Kinds)
  BY FewAreFinite, Zenon DEF Kinds

Cross(S, T) == S \X T
LEMMA CrossCount ==
  ASSUME NEW S, IsFiniteSet(S), NEW x
  PROVE  /\ Cardinality(Cross(S, {x})) = Cardinality(S)
         /\ Cardinality(Cross({x}, S)) = Cardinality(S)
<1> DEFINE one == {x}
<1>1. IsFiniteSet(one) /\ Cardinality(one) = 1 /\ Cardinality(S) \in Nat
  BY FS_Singleton, FS_CardinalityType
<1> HIDE DEF one
<1>2. Cardinality(S \X one) = Cardinality(S) * Cardinality(one)
  BY <1>1, FS_Product, Zenon
<1>3. Cardinality(one \X S) = Cardinality(one) * Cardinality(S)
  BY <1>1, FS_Product, Zenon
<1>4. QED
  BY <1>1, <1>2, <1>3 DEF Cross, one

LEMMA LesserOfTwo ==
  ASSUME NEW a \in Int, NEW b \in Int, b <= a
  PROVE  Min({a, b}) = b
<1>1. b \in {a, b} /\ \A y \in {a, b} : b <= y
  OBVIOUS
<1>2. \A x \in {a, b} : (\A y \in {a, b} : x <= y) => x = b
  OBVIOUS
<1>3. QED
  BY <1>1, <1>2 DEF Min

\* A topic has as many works as name it, whatever their kind.
LEMMA TopicIsSummed ==
  ASSUME NEW v, School(v), NEW t \in Topics
  PROVE  /\ curriculum_coverage(v).total[t] = Cardinality(Named(v, t))
         /\ IsFiniteSet(Named(v, t))
         /\ \A k \in Kinds :
               /\ curriculum_coverage(v).topics[t][k] = Cardinality(Tagging(v, k, t))
               /\ Cardinality(Tagging(v, k, t)) \in Nat
               /\ Cardinality(Tagging(v, k, t)) <= Cardinality(Works)
         /\ curriculum_coverage(v).topics[t] = [k \in Kinds |-> Cardinality(Tagging(v, k, t))]
<1> DEFINE counts == [k \in Kinds |-> Cardinality(Tagging(v, k, t))]
<1>1. /\ curriculum_coverage(v).topics[t] = counts
      /\ curriculum_coverage(v).total[t] = SumOf(counts)
  BY DEF curriculum_coverage
<1>2. IsFiniteSet(Named(v, t)) /\ Named(v, t) \subseteq Works
  BY SchoolIsFinite, FS_Subset DEF Named
<1>3. \A k \in Kinds : Tagging(v, k, t) = KeyIs(Named(v, t), ByKind(v), k)
  BY DEF Tagging, KeyIs, Named, ByKind
<1>4. KeyIn(Named(v, t), ByKind(v), Kinds) = Named(v, t)
  BY SchoolIsFinite DEF KeyIn, Named, ByKind
<1>5. \A k \in Kinds : counts[k] = Cardinality(KeyIs(Named(v, t), ByKind(v), k))
  BY <1>3
<1>6. DOMAIN counts = Kinds
  OBVIOUS
<1>7. \A k \in Kinds : counts[k] = Cardinality(Tagging(v, k, t))
  OBVIOUS
<1>8. \A k \in Kinds : /\ Cardinality(Tagging(v, k, t)) \in Nat
                       /\ Cardinality(Tagging(v, k, t)) <= Cardinality(Works)
  <2>1. \A k \in Kinds : Tagging(v, k, t) \in SUBSET Works
    BY DEF Tagging
  <2>2. QED
    BY <2>1, SchoolIsFinite, FS_Subset, FS_CardinalityType
<1>9. SumOf(counts) = Cardinality(Named(v, t))
  <2> HIDE DEF counts
  <2>1. SumOf(counts) = Cardinality(KeyIn(Named(v, t), ByKind(v), Kinds))
    BY <1>2, <1>5, <1>6, KindsAreFour, SumOfGroups
  <2>2. QED
    BY <1>4, <2>1
<1>10. QED
  BY <1>1, <1>2, <1>7, <1>8, <1>9

LEMMA CoverageAgreesNow ==
  ASSUME NEW v, School(v)
  PROVE  CoverageAgrees(v)
<1> DEFINE coverage == curriculum_coverage(v)
           tagged == {w \in Works : v.tags[w] # Nil}
           topics == [w \in tagged |-> Cardinality(v.tags[w].topics)]
           pairs == TagPairs(v)
<1>1. /\ IsFiniteSet(Works) /\ IsFiniteSet(Topics) /\ IsFiniteSet(tagged)
      /\ \A w \in tagged : v.tags[w].topics \subseteq Topics /\ IsFiniteSet(v.tags[w].topics)
  BY SchoolIsFinite, FS_Subset
<1>2. IsFiniteSet(pairs) /\ pairs \subseteq Works \X Topics
  BY <1>1, FS_Product, FS_Subset DEF TagPairs
<1>3. DOMAIN coverage.total = Topics
  BY DEF curriculum_coverage
<1>4. SumOf(coverage.total) = Cardinality(pairs)
  <2>1. ASSUME NEW t \in Topics
        PROVE  coverage.total[t] = Cardinality(KeyIs(pairs, ByTopic, t))
    <3>1. KeyIs(pairs, ByTopic, t) = Cross(Named(v, t), {t})
      BY DEF KeyIs, TagPairs, ByTopic, Named, Cross
    <3>2. IsFiniteSet(Named(v, t)) /\ coverage.total[t] = Cardinality(Named(v, t))
      BY TopicIsSummed
    <3>3. Cardinality(Cross(Named(v, t), {t})) = Cardinality(Named(v, t))
      BY <3>2, CrossCount
    <3>4. QED
      BY <3>1, <3>2, <3>3
  <2>2. KeyIn(pairs, ByTopic, Topics) = pairs
    BY <1>2 DEF KeyIn, ByTopic
  <2> HIDE DEF coverage, pairs
  <2>3. SumOf(coverage.total) = Cardinality(KeyIn(pairs, ByTopic, Topics))
    BY <1>1, <1>2, <1>3, <2>1, SumOfGroups
  <2>4. QED
    BY <2>2, <2>3
<1>5. SumOf(topics) = Cardinality(pairs)
  <2>1. ASSUME NEW w \in tagged
        PROVE  topics[w] = Cardinality(KeyIs(pairs, ByWork, w))
    <3>1. KeyIs(pairs, ByWork, w) = Cross({w}, v.tags[w].topics)
      BY <1>1 DEF KeyIs, TagPairs, ByWork, Cross
    <3>2. Cardinality(Cross({w}, v.tags[w].topics)) = Cardinality(v.tags[w].topics)
      BY <1>1, CrossCount
    <3>3. QED
      BY <3>1, <3>2
  <2>2. KeyIn(pairs, ByWork, tagged) = pairs
    BY <1>2 DEF KeyIn, ByWork, TagPairs
  <2>3. DOMAIN topics = tagged
    OBVIOUS
  <2> HIDE DEF topics, pairs, tagged
  <2>4. SumOf(topics) = Cardinality(KeyIn(pairs, ByWork, tagged))
    BY <1>1, <1>2, <2>1, <2>3, SumOfGroups
  <2>5. QED
    BY <2>2, <2>4
<1>6. coverage.uncovered = Cardinality(Topics \ UNION {v.tags[w].topics : w \in tagged})
  <2>1. coverage.uncovered = Cardinality({t \in Topics : coverage.total[t] = 0})
    BY DEF curriculum_coverage
  <2>2. \A t \in Topics : coverage.total[t] = 0 <=> Named(v, t) = {}
    BY TopicIsSummed, FS_EmptySet
  <2>3. \A t \in Topics : Named(v, t) = {} <=> t \notin UNION {v.tags[w].topics : w \in tagged}
    BY DEF Named
  <2> HIDE DEF coverage
  <2>4. {t \in Topics : coverage.total[t] = 0}
            = Topics \ UNION {v.tags[w].topics : w \in tagged}
    BY <2>2, <2>3
  <2>5. QED
    BY <2>1, <2>4
<1>7. ASSUME NEW t \in Topics
      PROVE  topic_resources(v, t, Cardinality(Works)) = coverage.topics[t]
  <2>1. Cardinality(Works) \in Nat
    BY <1>1, FS_CardinalityType
  <2>2. ASSUME NEW k \in Kinds
        PROVE  Min({Cardinality(Works), Cardinality(Tagging(v, k, t))})
                   = Cardinality(Tagging(v, k, t))
    <3> DEFINE n == Cardinality(Tagging(v, k, t))
               m == Cardinality(Works)
    <3>1. Tagging(v, k, t) \in SUBSET Works
      BY DEF Tagging
    <3>2. n \in Nat /\ n <= m
      BY <1>1, <3>1, FS_Subset, FS_CardinalityType
    <3>3. m \in Int /\ n \in Int /\ n <= m
      BY <2>1, <3>2
    <3> HIDE DEF n, m
    <3>4. Min({m, n}) = n
      BY <3>3, LesserOfTwo
    <3>5. QED
      BY <3>4 DEF n, m
  <2>3. coverage.topics[t] = [k \in Kinds |-> Cardinality(Tagging(v, k, t))]
    BY TopicIsSummed
  <2>4. QED
    BY <2>2, <2>3 DEF topic_resources
<1> HIDE DEF coverage
<1>8. QED
  BY <1>4, <1>5, <1>6, <1>7 DEF CoverageAgrees, coverage

--------------------------------------------------------------------------------
(* Marks.                                                                      *)
\* A sum of values that are all m.
LEMMA SumConstant ==
  ASSUME NEW S, IsFiniteSet(S), NEW m \in Int, NEW F, \A x \in S : F[x] = m
  PROVE  Whole(F, S) /\ SumOver(F, S) = m * Cardinality(S)
<1> DEFINE B == {s \in SUBSET S : SumOver(F, s) # m * Cardinality(s)}
<1>1. \A s \in SUBSET S : Whole(F, s)
  BY FS_Subset DEF Whole
<1>2. {} \notin B
  <2>1. SumOver(F, {}) = 0
    BY SumEmpty
  <2>2. Cardinality({}) = 0
    BY FS_EmptySet
  <2>3. m * 0 = 0
    OBVIOUS
  <2>4. SumOver(F, {}) = m * Cardinality({})
    BY <2>1, <2>2, <2>3
  <2>5. QED
    BY <2>4
<1>3. ASSUME NEW s \in B, NEW x \in s PROVE s \ {x} \in B
  <2>1. SumOver(F, s) = m + SumOver(F, s \ {x}) /\ s \ {x} \in SUBSET S
    BY <1>1, SumSplit
  <2>2. Cardinality(s \ {x}) = Cardinality(s) - 1 /\ Cardinality(s) \in Nat
    BY <1>1, FS_RemoveElement, FS_CardinalityType DEF Whole
  <2>3. m * (Cardinality(s) - 1) = m * Cardinality(s) - m
    BY <2>2
  <2>4. SumOver(F, s) \in Int /\ SumOver(F, s \ {x}) \in Int
    BY <1>1, <2>1, SumFirst
  <2>5. QED
    BY <2>1, <2>2, <2>3, <2>4
<1>4. B = {}
  <2>1. B \subseteq SUBSET S
    OBVIOUS
  <2> HIDE DEF B
  <2>2. QED
    BY <1>2, <1>3, <2>1, NoLeast
<1>5. QED
  BY <1>1, <1>4

Row == Papers \X Learners
MarksIn100(v) == [r \in Row |-> v.sheet[r[1]][r[2]].marks]
MaxIn100(v) == [r \in Row |-> v.paper[r[1]].max]
OfLearner == [r \in Row |-> r[2]]
CountedRows(v, s) == {r \in Marked(v, s) : Counts(v.sheet[r[1]][r[2]])}

LEMMA MarkedRows ==
  ASSUME NEW v, School(v), NEW s
  PROVE  /\ IsFiniteSet(Marked(v, s)) /\ Marked(v, s) \subseteq Row
         /\ IsFiniteSet(CountedRows(v, s)) /\ CountedRows(v, s) \subseteq Marked(v, s)
<1>1. IsFiniteSet(Row)
  BY SchoolIsFinite, FS_Product DEF Row
<1>2. Marked(v, s) \subseteq Row
  BY DEF Marked, PapersOf, Row
<1>3. CountedRows(v, s) \subseteq Marked(v, s)
  BY DEF CountedRows
<1>4. QED
  BY <1>1, <1>2, <1>3, FS_Subset

\* A mark that there is lies between nothing and the maximum of its paper.
LEMMA RowIsMarked ==
  ASSUME NEW v, School(v), NEW s, NEW r \in Marked(v, s)
  PROVE  /\ MaxIn100(v)[r] \in Nat \ {0} /\ MaxIn100(v)[r] = v.paper[r[1]].max
         /\ v.paper[r[1]].subject = s /\ r[1] \in PapersOf(v, s) /\ r[2] \in Learners
         /\ r[1] \in Papers /\ v.sheet[r[1]][r[2]] # Nil
         /\ v.sheet[r[1]][r[2]].absent \in BOOLEAN
         /\ Graded(v.sheet[r[1]][r[2]]) => /\ MarksIn100(v)[r] \in Nat
                                           /\ MarksIn100(v)[r] <= MaxIn100(v)[r]
                                           /\ MarksIn100(v)[r] = v.sheet[r[1]][r[2]].marks
<1>1. /\ r \in Row /\ r[1] \in Papers /\ r[2] \in Learners /\ r[1] \in PapersOf(v, s)
      /\ v.paper[r[1]] # Nil /\ v.paper[r[1]].subject = s /\ v.sheet[r[1]][r[2]] # Nil
  BY MarkedRows DEF Marked, PapersOf, Row
<1>2. v.paper[r[1]] \in PaperRow /\ v.sheet[r[1]][r[2]] \in SheetRow
  BY <1>1, SchoolIsFinite
<1>3. v.sheet[r[1]][r[2]].marks \in {Nil} \cup 0..v.paper[r[1]].max
  BY <1>1, SchoolIsFinite
<1>4. MaxIn100(v)[r] = v.paper[r[1]].max /\ MarksIn100(v)[r] = v.sheet[r[1]][r[2]].marks
  BY <1>1 DEF MaxIn100, MarksIn100
<1>5. v.paper[r[1]].max \in Nat \ {0} /\ v.sheet[r[1]][r[2]].absent \in BOOLEAN
  BY <1>2 DEF PaperRow, SheetRow
<1>6. QED
  BY <1>1, <1>3, <1>4, <1>5 DEF Graded

LEMMA MaximaAre ==
  ASSUME NEW v, School(v), NEW s, NEW rows, rows \subseteq Marked(v, s)
  PROVE  /\ Whole(MaxIn100(v), rows) /\ Maxima(v, rows) = SumOver(MaxIn100(v), rows)
         /\ IsFiniteSet(rows) /\ Maxima(v, rows) \in Nat
<1> DEFINE F == MaxIn100(v)
           G == [r \in rows |-> v.paper[r[1]].max]
<1>1. IsFiniteSet(rows)
  BY MarkedRows, FS_Subset
<1>2. \A r \in rows : G[r] = F[r] /\ F[r] \in Nat
  BY RowIsMarked
<1>3. Whole(F, rows)
  BY <1>1, <1>2 DEF Whole
<1>4. Maxima(v, rows) = SumOf(G) /\ DOMAIN G = rows
  BY DEF Maxima
<1> HIDE DEF F, G
<1>5. SumOf(G) = SumOver(F, rows)
  BY <1>2, <1>3, <1>4, SumOfIs, SumSame
<1>6. SumOver(F, rows) \in Nat
  BY <1>2, <1>3, SumNatural
<1>7. QED
  BY <1>1, <1>3, <1>4, <1>5, <1>6 DEF F

LEMMA StandingIs ==
  ASSUME NEW v, School(v), NEW s, NEW rows, rows \subseteq Marked(v, s),
         \A r \in rows : Graded(v.sheet[r[1]][r[2]])
  PROVE  /\ Standing(v, rows) = [graded |-> Cardinality(rows),
                                 marks |-> SumOver(MarksIn100(v), rows),
                                 max |-> SumOver(MaxIn100(v), rows)]
         /\ Whole(MarksIn100(v), rows) /\ Whole(MaxIn100(v), rows) /\ IsFiniteSet(rows)
         /\ Standing(v, rows).graded \in Nat /\ Standing(v, rows).marks \in Nat
         /\ Standing(v, rows).max \in Nat
         /\ Standing(v, rows).graded > 0 <=> rows # {}
         /\ Standing(v, rows).max = 0 <=> rows = {}
<1> DEFINE F == MarksIn100(v)
           G == [r \in rows |-> v.sheet[r[1]][r[2]].marks]
           M == MaxIn100(v)
<1>1. IsFiniteSet(rows) /\ Whole(M, rows) /\ Maxima(v, rows) = SumOver(M, rows)
      /\ SumOver(M, rows) \in Nat
  BY MaximaAre
<1>2. \A r \in rows : G[r] = F[r] /\ F[r] \in Nat
  BY RowIsMarked
<1>3. Whole(F, rows)
  BY <1>1, <1>2 DEF Whole
<1>4. Standing(v, rows) = [graded |-> Cardinality(rows), marks |-> SumOf(G),
                           max |-> Maxima(v, rows)] /\ DOMAIN G = rows
  BY DEF Standing
<1>5. \A r \in rows : M[r] \in Nat \ {0}
  BY RowIsMarked
<1> HIDE DEF F, G, M
<1>6. SumOf(G) = SumOver(F, rows) /\ SumOver(F, rows) \in Nat
  BY <1>2, <1>3, <1>4, SumOfIs, SumSame, SumNatural
<1>7. Standing(v, rows) = [graded |-> Cardinality(rows), marks |-> SumOver(F, rows),
                           max |-> SumOver(M, rows)]
  BY <1>1, <1>4, <1>6
<1>8. Cardinality(rows) \in Nat /\ (Cardinality(rows) = 0 <=> rows = {})
  BY <1>1, FS_CardinalityType, FS_EmptySet
<1>9. SumOver(M, rows) = 0 <=> rows = {}
  <2>1. rows = {} => SumOver(M, rows) = 0
    BY <1>1, SumFirst
  <2>2. ASSUME rows # {} PROVE SumOver(M, rows) # 0
    <3>1. PICK r \in rows : TRUE
      BY <2>2
    <3>2. SumOver(M, rows) = M[r] + SumOver(M, rows \ {r})
      BY <1>1, <3>1, SumSplit
    <3>3. Whole(M, rows \ {r})
      BY <1>1, WholePart
    <3>4. SumOver(M, rows \ {r}) \in Nat
      BY <1>5, <3>3, SumNatural
    <3>5. QED
      BY <1>5, <3>2, <3>4
  <2>3. QED
    BY <2>1, <2>2
<1>10. QED
  BY <1>1, <1>3, <1>6, <1>7, <1>8, <1>9 DEF F, M

--------------------------------------------------------------------------------
\* The rows of a learner that count, and what they are in each report.
LEMMA BookIs ==
  ASSUME NEW v, School(v), NEW s
  PROVE  /\ DOMAIN class_gradebook(v, s) = ImageOf(OfLearner, Marked(v, s))
         /\ \A l \in DOMAIN class_gradebook(v, s) :
               /\ l \in Learners
               /\ class_gradebook(v, s)[l] = Standing(v, KeyIs(CountedRows(v, s), OfLearner, l))
<1>1. \A r \in Marked(v, s) : OfLearner[r] = r[2] /\ r[2] \in Learners
  BY MarkedRows DEF OfLearner, Row
<1>2. {r[2] : r \in Marked(v, s)} = ImageOf(OfLearner, Marked(v, s))
  BY <1>1 DEF ImageOf
<1>3. \A l : {r \in Marked(v, s) : r[2] = l /\ Counts(v.sheet[r[1]][l])}
                 = KeyIs(CountedRows(v, s), OfLearner, l)
  BY <1>1 DEF KeyIs, CountedRows
<1>4. class_gradebook(v, s) = [l \in {r[2] : r \in Marked(v, s)} |->
          Standing(v, {r \in Marked(v, s) : r[2] = l /\ Counts(v.sheet[r[1]][l])})]
  BY DEF class_gradebook
<1>5. DOMAIN class_gradebook(v, s) = {r[2] : r \in Marked(v, s)}
  BY <1>4
<1>6. \A l \in DOMAIN class_gradebook(v, s) : l \in Learners
  BY <1>1, <1>5
<1>7. \A l \in DOMAIN class_gradebook(v, s) : class_gradebook(v, s)[l] =
          Standing(v, {r \in Marked(v, s) : r[2] = l /\ Counts(v.sheet[r[1]][l])})
  BY <1>4, <1>5
<1>8. QED
  BY <1>2, <1>3, <1>5, <1>6, <1>7

\* What a learner's rows that count add up to.
LEMMA OfOneLearner ==
  ASSUME NEW v, School(v), NEW s, NEW l
  PROVE  LET rows == KeyIs(CountedRows(v, s), OfLearner, l)
         IN /\ rows \subseteq Marked(v, s) /\ rows \subseteq CountedRows(v, s)
            /\ \A r \in rows : Graded(v.sheet[r[1]][r[2]])
            /\ Standing(v, rows).marks = SumOver(MarksIn100(v), rows)
            /\ Standing(v, rows).graded > 0 <=> l \in ImageOf(OfLearner, CountedRows(v, s))
<1> DEFINE rows == KeyIs(CountedRows(v, s), OfLearner, l)
<1>1. rows \subseteq Marked(v, s) /\ rows \subseteq CountedRows(v, s)
  BY DEF KeyIs, CountedRows
<1>2. \A r \in rows : Graded(v.sheet[r[1]][r[2]])
  BY DEF KeyIs, CountedRows, Counts
<1>3. rows # {} <=> l \in ImageOf(OfLearner, CountedRows(v, s))
  BY DEF KeyIs, ImageOf
<1> HIDE DEF rows
<1>4. Standing(v, rows).marks = SumOver(MarksIn100(v), rows)
      /\ (Standing(v, rows).graded > 0 <=> rows # {})
  <2>1. /\ Standing(v, rows) = [graded |-> Cardinality(rows),
                                marks |-> SumOver(MarksIn100(v), rows),
                                max |-> SumOver(MaxIn100(v), rows)]
        /\ Standing(v, rows).graded > 0 <=> rows # {}
    BY <1>1, <1>2, StandingIs
  <2>2. QED
    BY <2>1
<1>5. QED
  BY <1>1, <1>2, <1>3, <1>4 DEF rows

\* The class performance against the gradebook.
LEMMA PerformanceIs ==
  ASSUME NEW v, School(v), NEW s
  PROVE  LET perf == class_performance(v, s)
             rows == CountedRows(v, s)
             sat == ImageOf(OfLearner, rows)
         IN /\ perf.students = Cardinality(ImageOf(OfLearner, Marked(v, s)))
            /\ perf.marks = SumOver(MarksIn100(v), rows) /\ perf.graded = Cardinality(rows)
            /\ perf.max = Maxima(v, Marked(v, s))
            /\ perf.rows = Cardinality(Marked(v, s))
            /\ perf.total = Cardinality(sat)
            /\ perf.passing = Cardinality(
                   {l \in sat : Passes(Standing(v, KeyIs(rows, OfLearner, l)))})
<1> DEFINE rows == CountedRows(v, s)
           sat == ImageOf(OfLearner, rows)
<1>1. \A r \in Marked(v, s) : OfLearner[r] = r[2]
  BY MarkedRows DEF OfLearner, Row
<1>2. rows = {r \in Marked(v, s) : Counts(v.sheet[r[1]][r[2]])} /\ rows \subseteq Marked(v, s)
  BY DEF CountedRows
<1>3. {r[2] : r \in Marked(v, s)} = ImageOf(OfLearner, Marked(v, s))
      /\ {r[2] : r \in rows} = sat
  BY <1>1, <1>2 DEF ImageOf
<1>4. \A l : {r \in rows : r[2] = l} = KeyIs(rows, OfLearner, l)
  BY <1>1, <1>2 DEF KeyIs
<1>5. Standing(v, rows).marks = SumOver(MarksIn100(v), rows)
  <2>1. \A r \in rows : Graded(v.sheet[r[1]][r[2]])
    BY <1>2 DEF Counts
  <2> HIDE DEF rows
  <2>2. Standing(v, rows) = [graded |-> Cardinality(rows),
                             marks |-> SumOver(MarksIn100(v), rows),
                             max |-> SumOver(MaxIn100(v), rows)]
    BY <1>2, <2>1, StandingIs
  <2>3. QED
    BY <2>2
<1>6. class_performance(v, s) =
         [students |-> Cardinality({r[2] : r \in Marked(v, s)}),
          marks |-> Standing(v, rows).marks, graded |-> Cardinality(rows),
          max |-> Maxima(v, Marked(v, s)), rows |-> Cardinality(Marked(v, s)),
          total |-> Cardinality({r[2] : r \in rows}),
          passing |-> Cardinality({l \in {r[2] : r \in rows} :
                                      Passes(Standing(v, {r \in rows : r[2] = l}))})]
  BY DEF class_performance, CountedRows
<1>7. {l \in {r[2] : r \in rows} : Passes(Standing(v, {r \in rows : r[2] = l}))}
          = {l \in sat : Passes(Standing(v, KeyIs(rows, OfLearner, l)))}
  BY <1>3, <1>4
<1> HIDE DEF rows, sat
<1>8. class_performance(v, s) =
         [students |-> Cardinality(ImageOf(OfLearner, Marked(v, s))),
          marks |-> SumOver(MarksIn100(v), rows), graded |-> Cardinality(rows),
          max |-> Maxima(v, Marked(v, s)), rows |-> Cardinality(Marked(v, s)),
          total |-> Cardinality(sat),
          passing |-> Cardinality({l \in sat : Passes(Standing(v, KeyIs(rows, OfLearner, l)))})]
  BY <1>3, <1>5, <1>6, <1>7
<1>9. QED
  BY <1>8 DEF rows, sat

\* The marks of the learners add up to those of the class.
LEMMA MarksOfTheClass ==
  ASSUME NEW v, School(v), NEW s
  PROVE  SumOver(MarksIn100(v), CountedRows(v, s))
             = SumOf([l \in DOMAIN class_gradebook(v, s) |-> class_gradebook(v, s)[l].marks])
<1> DEFINE rows == CountedRows(v, s)
           F == MarksIn100(v)
           book == class_gradebook(v, s)
           G == [l \in DOMAIN book |-> book[l].marks]
           K == DOMAIN book
<1>1. /\ IsFiniteSet(rows) /\ rows \subseteq Marked(v, s) /\ IsFiniteSet(Marked(v, s))
      /\ Marked(v, s) \subseteq Row
  BY MarkedRows
<1>2. Whole(F, rows)
  <2>1. \A r \in rows : F[r] \in Int
    BY <1>1, RowIsMarked DEF CountedRows, Counts
  <2>2. QED
    BY <1>1, <2>1 DEF Whole
<1>3. K = ImageOf(OfLearner, Marked(v, s)) /\ IsFiniteSet(K)
  BY <1>1, BookIs, ImageIsFinite
<1>4. \A l \in K : G[l] = SumOver(F, KeyIs(rows, OfLearner, l))
  <2> SUFFICES ASSUME NEW l \in K PROVE G[l] = SumOver(F, KeyIs(rows, OfLearner, l))
    OBVIOUS
  <2>1. G[l] = book[l].marks
    OBVIOUS
  <2>2. book[l] = Standing(v, KeyIs(rows, OfLearner, l))
    BY BookIs
  <2>3. Standing(v, KeyIs(rows, OfLearner, l)).marks = SumOver(F, KeyIs(rows, OfLearner, l))
    BY OfOneLearner
  <2> HIDE DEF G, book, rows, F
  <2>4. QED
    BY <2>1, <2>2, <2>3
<1>5. KeyIn(rows, OfLearner, K) = rows
  BY <1>1, <1>3 DEF KeyIn, ImageOf
<1>6. DOMAIN G = K
  OBVIOUS
<1> HIDE DEF G, K, rows, F
<1>7. SumOver(G, K) = SumOver(F, KeyIn(rows, OfLearner, K))
  BY <1>2, <1>3, <1>4, SumGroups
<1>8. SumOf(G) = SumOver(G, K)
  BY <1>6, SumOfIs
<1>9. SumOf(G) = SumOver(F, rows)
  BY <1>5, <1>7, <1>8
<1>10. QED
  BY <1>9 DEF G, rows, F

\* Papers of one maximum: the average is at most all of it.
LEMMA AverageFits ==
  ASSUME NEW v, School(v), NEW s, Cardinality({v.paper[a].max : a \in PapersOf(v, s)}) = 1
  PROVE  LET perf == class_performance(v, s)
         IN perf.marks * perf.rows <= perf.graded * perf.max
<1> DEFINE marked == Marked(v, s)
           rows == CountedRows(v, s)
           F == MarksIn100(v)
           M == MaxIn100(v)
           tops == {v.paper[a].max : a \in PapersOf(v, s)}
<1>1. /\ IsFiniteSet(rows) /\ rows \subseteq marked /\ IsFiniteSet(marked)
      /\ Cardinality(rows) \in Nat /\ Cardinality(marked) \in Nat
  BY MarkedRows, FS_CardinalityType
<1>2. \A r \in marked : M[r] \in Nat /\ M[r] \in tops
  BY RowIsMarked
<1>3. \A r \in rows : F[r] \in Nat /\ F[r] <= M[r]
  BY <1>1, RowIsMarked DEF CountedRows, Counts
<1>4. PICK m \in Nat : \A r \in marked : M[r] = m
  <2>1. IsFiniteSet(tops)
    <3> DEFINE top == [a \in Papers |-> v.paper[a].max]
    <3>1. PapersOf(v, s) \subseteq Papers /\ IsFiniteSet(PapersOf(v, s))
      BY SchoolIsFinite, FS_Subset DEF PapersOf
    <3>2. tops = ImageOf(top, PapersOf(v, s))
      BY <3>1 DEF ImageOf
    <3> HIDE DEF top, tops
    <3>3. IsFiniteSet(ImageOf(top, PapersOf(v, s)))
      BY <3>1, ImageIsFinite
    <3>4. QED
      BY <3>2, <3>3
  <2>2. Cardinality(tops) = 1
    OBVIOUS
  <2> HIDE DEF tops, M, marked
  <2>3. PICK t : tops = {t}
    BY <2>1, <2>2, FS_Singleton
  <2>4. \A r \in marked : M[r] = t
    BY <1>2, <2>3
  <2>5. CASE marked = {}
    BY <2>5
  <2>6. CASE marked # {}
    BY <1>2, <2>4, <2>6
  <2>7. QED
    BY <2>5, <2>6
<1> HIDE DEF marked, F, M, rows, tops
<1>5. SumOver(M, marked) = m * Cardinality(marked)
  BY <1>1, <1>4, SumConstant
<1>6. SumOver(M, rows) = m * Cardinality(rows) /\ Whole(M, rows)
  <2>1. m \in Int /\ \A r \in rows : M[r] = m
    BY <1>1, <1>4
  <2>2. QED
    BY <1>1, <2>1, SumConstant
<1>7. Whole(F, rows)
  BY <1>1, <1>3 DEF Whole
<1>8. SumOver(F, rows) <= m * Cardinality(rows) /\ SumOver(F, rows) \in Int
  BY <1>3, <1>6, <1>7, SumAtMost, SumFirst
<1>9. Maxima(v, marked) = SumOver(M, marked)
  BY MaximaAre DEF marked, M
<1> DEFINE n == Cardinality(rows)
           q == Cardinality(marked)
           sum == SumOver(F, rows)
<1>10. sum \in Int /\ n \in Nat /\ q \in Nat /\ sum <= m * n
  BY <1>1, <1>8
<1>11. /\ class_performance(v, s).marks = sum /\ class_performance(v, s).rows = q
       /\ class_performance(v, s).graded = n
       /\ class_performance(v, s).max = m * q
  BY <1>5, <1>9, PerformanceIs DEF marked, F, rows
<1> HIDE DEF n, q, sum
<1>12. sum * q <= n * (m * q)
  <2>1. sum * q <= (m * n) * q
    BY <1>10
  <2>2. (m * n) * q = n * (m * q)
    BY <1>10
  <2>3. QED
    BY <1>10, <2>1, <2>2
<1>13. QED
  BY <1>11, <1>12

LEMMA GradeIs ==
  ASSUME NEW pct \in Int
  PROVE  /\ _grade(pct) \in {"A", "B", "C", "D", "E", "U"}
         /\ _grade(pct) \in {"A", "B", "C", "D"} <=> pct >= 500
<1>1. CASE pct >= 800
  BY <1>1 DEF _grade
<1>2. CASE pct \in 700..799
  BY <1>2 DEF _grade
<1>3. CASE pct \in 600..699
  BY <1>3 DEF _grade
<1>4. CASE pct \in 500..599
  BY <1>4 DEF _grade
<1>5. CASE pct \in 400..499
  BY <1>5 DEF _grade
<1>6. CASE pct < 400
  BY <1>6 DEF _grade
<1>7. QED
  BY <1>1, <1>2, <1>3, <1>4, <1>5, <1>6

\* Half of the whole is 50.0%; what rounds to that is less by at most a part in a thousand.
LEMMA TenthsAre ==
  ASSUME NEW part \in Nat, NEW whole \in Nat \ {0}
  PROVE  /\ Tenths(part, whole) \in Int
         /\ 2 * part >= whole => Tenths(part, whole) >= 500
         /\ Tenths(part, whole) >= 500 => 2000 * part >= 999 * whole
<1>1. Tenths(part, whole) \in Int
  BY DEF Tenths
<1>2. ASSUME 2 * part >= whole PROVE Tenths(part, whole) >= 500
  BY <1>2, SMTT(30) DEF Tenths
<1>3. ASSUME Tenths(part, whole) >= 500 PROVE 2000 * part >= 999 * whole
  BY <1>3, SMTT(30) DEF Tenths
<1>4. QED
  BY <1>1, <1>2, <1>3

\* What the report card shows of a learner without a mark beside an absence.
LEMMA CardIs ==
  ASSUME NEW v, School(v), NEW s, NEW l \in DOMAIN class_gradebook(v, s), ~Raced(v, l)
  PROVE  LET book == class_gradebook(v, s)
             card == export_report_card(v, l)[s]
             graded == {k \in DOMAIN book : book[k].graded > 0}
         IN /\ student_marks(v, l, s) = book[l] /\ card.graded = book[l].graded
            /\ (l \in graded) = (card.grade # Nil)
            /\ l \in graded /\ Passes(book[l]) => card.grade \in {"A", "B", "C", "D"}
            /\ card.grade \in {"A", "B", "C", "D"} =>
                   2000 * book[l].marks >= 999 * book[l].max
<1> DEFINE rows == KeyIs(CountedRows(v, s), OfLearner, l)
           book == class_gradebook(v, s)
           card == export_report_card(v, l)[s]
           st == student_marks(v, l, s)
<1>1. l \in Learners /\ book[l] = Standing(v, rows)
      /\ l \in ImageOf(OfLearner, Marked(v, s))
  BY BookIs
<1>2. {r \in Marked(v, s) : r[2] = l /\ Graded(v.sheet[r[1]][l])} = rows
  <2>1. \A r \in Marked(v, s) : OfLearner[r] = r[2]
    BY MarkedRows DEF OfLearner, Row
  <2>2. \A r \in Marked(v, s) : r[1] \in Papers
    BY RowIsMarked
  <2>3. \A a \in Papers : Graded(v.sheet[a][l]) => Counts(v.sheet[a][l])
    BY DEF Raced, Counts
  <2>4. \A r \in Marked(v, s) : r[2] = l =>
            (Graded(v.sheet[r[1]][l]) <=> Counts(v.sheet[r[1]][r[2]]))
    BY <2>2, <2>3 DEF Counts
  <2>5. QED
    BY <2>1, <2>4 DEF KeyIs, CountedRows
<1>3. st = Standing(v, rows)
  BY <1>2 DEF student_marks
<1>4. /\ rows \subseteq Marked(v, s) /\ \A r \in rows : Graded(v.sheet[r[1]][r[2]])
  BY OfOneLearner
<1>5. s \in {v.paper[a].subject : a \in {b \in Papers : v.sheet[b][l] # Nil}}
  <2>1. PICK r \in Marked(v, s) : r[2] = l
    <3>1. PICK r \in Marked(v, s) : OfLearner[r] = l
      BY <1>1 DEF ImageOf
    <3>2. r[2] = l
      BY <3>1, MarkedRows DEF OfLearner, Row
    <3>3. QED
      BY <3>2
  <2>2. r[1] \in Papers /\ v.sheet[r[1]][l] # Nil /\ v.paper[r[1]].subject = s
    BY <2>1, RowIsMarked
  <2>3. QED
    BY <2>2
<1>6. /\ card.graded = st.graded
      /\ card.grade = IF st.max = 0 THEN Nil ELSE _grade(Tenths(st.marks, st.max))
  BY <1>5 DEF export_report_card
<1> HIDE DEF rows, book, card, st
<1>7. /\ st.graded \in Nat /\ st.marks \in Nat /\ st.max \in Nat
      /\ st.graded > 0 <=> rows # {}
      /\ st.max = 0 <=> rows = {}
  BY <1>3, <1>4, StandingIs
<1>8. book[l] = st
  BY <1>1, <1>3
<1>9. (l \in {k \in DOMAIN book : book[k].graded > 0}) <=> st.max # 0
  BY <1>7, <1>8 DEF book
<1>10. st.max = 0 => card.grade = Nil
  BY <1>6
<1>11. Nil \notin {"A", "B", "C", "D", "E", "U"}
  BY ReportsAssumption
<1>12. st.max # 0 => /\ Tenths(st.marks, st.max) \in Int
                     /\ 2 * st.marks >= st.max => Tenths(st.marks, st.max) >= 500
                     /\ Tenths(st.marks, st.max) >= 500 => 2000 * st.marks >= 999 * st.max
  BY <1>7, TenthsAre
<1>13. st.max # 0 => /\ card.grade # Nil
                     /\ card.grade \in {"A", "B", "C", "D"} <=> Tenths(st.marks, st.max) >= 500
  BY <1>6, <1>11, <1>12, GradeIs
<1>14. Passes(st) <=> 2 * st.marks >= st.max
  BY DEF Passes
<1>15. /\ st = book[l] /\ card.graded = book[l].graded
       /\ (l \in {k \in DOMAIN book : book[k].graded > 0}) = (card.grade # Nil)
       /\ l \in {k \in DOMAIN book : book[k].graded > 0} /\ Passes(book[l]) =>
              card.grade \in {"A", "B", "C", "D"}
       /\ card.grade \in {"A", "B", "C", "D"} => 2000 * book[l].marks >= 999 * book[l].max
  <2>1. st = book[l] /\ card.graded = book[l].graded
    BY <1>6, <1>8
  <2>2. (l \in {k \in DOMAIN book : book[k].graded > 0}) = (card.grade # Nil)
    BY <1>9, <1>10, <1>13
  <2>3. l \in {k \in DOMAIN book : book[k].graded > 0} /\ Passes(book[l]) =>
              card.grade \in {"A", "B", "C", "D"}
    BY <1>8, <1>9, <1>12, <1>13, <1>14
  <2>4. card.grade \in {"A", "B", "C", "D"} => 2000 * book[l].marks >= 999 * book[l].max
    BY <1>8, <1>10, <1>11, <1>12, <1>13
  <2>5. QED
    BY <2>1, <2>2, <2>3, <2>4
<1>16. QED
  BY <1>15 DEF book, card, st

LEMMA MarksAgreeNow ==
  ASSUME NEW v, School(v)
  PROVE  MarksAgree(v)
<1> SUFFICES ASSUME NEW s \in SubjectsOf(v)
    PROVE  LET book == class_gradebook(v, s)
               graded == {l \in DOMAIN book : book[l].graded > 0}
               perf == class_performance(v, s)
               card(l) == export_report_card(v, l)[s]
           IN /\ perf.students = Cardinality(DOMAIN book)
              /\ perf.total = Cardinality(graded)
              /\ perf.passing = Cardinality({l \in graded : Passes(book[l])})
              /\ perf.marks = SumOf([l \in DOMAIN book |-> book[l].marks])
              /\ Cardinality({v.paper[a].max : a \in PapersOf(v, s)}) = 1 =>
                     perf.marks * perf.rows <= perf.graded * perf.max
              /\ \A l \in DOMAIN book :
                     Raced(v, l) \/
                     /\ student_marks(v, l, s) = book[l] /\ card(l).graded = book[l].graded
                     /\ (l \in graded) = (card(l).grade # Nil)
                     /\ l \in graded /\ Passes(book[l]) =>
                            card(l).grade \in {"A", "B", "C", "D"}
                     /\ card(l).grade \in {"A", "B", "C", "D"} =>
                            2000 * book[l].marks >= 999 * book[l].max
  BY DEF MarksAgree
<1> DEFINE book == class_gradebook(v, s)
           graded == {l \in DOMAIN book : book[l].graded > 0}
           perf == class_performance(v, s)
           sat == ImageOf(OfLearner, CountedRows(v, s))
<1>1. DOMAIN book = ImageOf(OfLearner, Marked(v, s)) /\ sat \subseteq DOMAIN book
  BY BookIs, MarkedRows DEF ImageOf
<1>2. \A l \in DOMAIN book : /\ book[l] = Standing(v, KeyIs(CountedRows(v, s), OfLearner, l))
                             /\ book[l].graded > 0 <=> l \in sat
  BY BookIs, OfOneLearner
<1>3. graded = sat
  <2> HIDE DEF book, sat
  <2>1. QED
    BY <1>1, <1>2
<1>4. {l \in graded : Passes(book[l])}
          = {l \in sat : Passes(Standing(v, KeyIs(CountedRows(v, s), OfLearner, l)))}
  <2> HIDE DEF book, sat, graded
  <2>1. QED
    BY <1>1, <1>2, <1>3
<1>5. /\ perf.students = Cardinality(DOMAIN book)
      /\ perf.total = Cardinality(graded)
      /\ perf.passing = Cardinality({l \in graded : Passes(book[l])})
  <2>1. /\ perf.students = Cardinality(ImageOf(OfLearner, Marked(v, s)))
        /\ perf.total = Cardinality(sat)
        /\ perf.passing = Cardinality(
               {l \in sat : Passes(Standing(v, KeyIs(CountedRows(v, s), OfLearner, l)))})
    BY PerformanceIs
  <2> HIDE DEF book, sat, graded, perf
  <2>2. QED
    BY <1>1, <1>3, <1>4, <2>1
<1>6. perf.marks = SumOf([l \in DOMAIN book |-> book[l].marks])
  BY PerformanceIs, MarksOfTheClass
<1>7. QED
  BY <1>5, <1>6, AverageFits, CardIs

\* In any school, whatever it commits, its report cards, gradebooks and class averages
\* agree, its registers count every row once by class, learner and period, and its
\* coverage counts every work once under each topic it names (assessment_service.py:186-483,
\* attendance_service.py:217-330, curriculum_index_routes.py:72-269).
THEOREM ReportsAlwaysAgree == ReportsSpec => []ReportsAgree
<1>1. SchoolTypeOK => ReportsAgree
  <2> SUFFICES ASSUME SchoolTypeOK PROVE ReportsAgree
    OBVIOUS
  <2>1. School(school)
    BY SchoolIsTyped DEF School
  <2>2. QED
    BY <2>1, MarksAgreeNow, RegisterAgreesNow, CoverageAgreesNow DEF ReportsAgree
<1>2. QED
  BY <1>1, SchoolIsAlwaysTyped, PTL

--------------------------------------------------------------------------------
(* Dropout risk.                                                               *)
LEMMA MaxIsIn ==
  ASSUME NEW S, IsFiniteSet(S), S \subseteq Int, S # {}
  PROVE  Max(S) \in S /\ \A y \in S : Max(S) >= y
<1> DEFINE Top(s) == \E x \in s : \A y \in s : x >= y
           B == {s \in SUBSET S : s # {} /\ ~Top(s)}
<1>1. ASSUME NEW s \in B, NEW x \in s PROVE s \ {x} \in B
  <2>1. s \ {x} # {}
    <3>1. SUFFICES ASSUME s \ {x} = {} PROVE FALSE
      OBVIOUS
    <3>2. s = {x} /\ x \in Int
      BY <1>1, <3>1
    <3>3. Top(s)
      BY <3>2
    <3>4. QED
      BY <1>1, <3>3
  <2>2. ~Top(s \ {x})
    <3>1. SUFFICES ASSUME NEW z \in s \ {x}, \A y \in s \ {x} : z >= y PROVE FALSE
      OBVIOUS
    <3>2. x \in Int /\ z \in Int
      BY <1>1
    <3>3. CASE z >= x
      BY <1>1, <3>1, <3>3
    <3>4. CASE x > z
      <4>1. \A y \in s : x >= y
        BY <1>1, <3>1, <3>2, <3>4
      <4>2. QED
        BY <1>1, <4>1
    <3>5. QED
      BY <3>2, <3>3, <3>4
  <2>3. QED
    BY <1>1, <2>1, <2>2
<1>2. B = {}
  <2>1. B \subseteq SUBSET S /\ {} \notin B
    OBVIOUS
  <2> HIDE DEF B
  <2>2. QED
    BY <1>1, <2>1, NoLeast
<1>3. Top(S)
  BY <1>2
<1>4. \E x \in S : \A y \in S : x >= y
  BY <1>3
<1>5. QED
  BY <1>4 DEF Max

LEMMA MaxIs ==
  ASSUME NEW S, S \subseteq Int, NEW x \in S, \A y \in S : x >= y
  PROVE  Max(S) = x
<1>1. \A z \in S : (\A y \in S : z >= y) => z = x
  OBVIOUS
<1>2. QED
  BY <1>1 DEF Max

AtMost100(n) == IF n <= 100 THEN n ELSE 100
LEMMA MinIs ==
  ASSUME NEW n \in Int
  PROVE  Min({100, n}) = AtMost100(n)
<1>1. CASE n <= 100
  <2>1. \A x \in {100, n} : (\A y \in {100, n} : x <= y) => x = n
    BY <1>1
  <2>2. n \in {100, n} /\ \A y \in {100, n} : n <= y
    BY <1>1
  <2>3. QED
    BY <1>1, <2>1, <2>2 DEF Min, AtMost100
<1>2. CASE n > 100
  <2>1. \A x \in {100, n} : (\A y \in {100, n} : x <= y) => x = 100
    BY <1>2
  <2>2. 100 \in {100, n} /\ \A y \in {100, n} : 100 <= y
    BY <1>2
  <2>3. QED
    BY <1>2, <2>1, <2>2 DEF Min, AtMost100
<1>3. QED
  BY <1>1, <1>2

\* The absences after which nothing else comes, in the order that makes most of them.
LastAbsences(rows) ==
    {r \in rows : r.status = "A" /\ \A q \in rows : q.status # "A" => q.day <= r.day}

LEMMA TailsAre ==
  ASSUME NEW rows, IsFiniteSet(rows), rows \subseteq AttendanceRow
  PROVE  /\ IsFiniteSet(LastAbsences(rows))
         /\ Cardinality(LastAbsences(rows)) \in AbsentTails(rows)
         /\ \A t \in AbsentTails(rows) : t \in Nat /\ t <= Cardinality(LastAbsences(rows))
<1> DEFINE mixed == {r.day : r \in {q \in rows : q.status # "A"}}
           after(d) == {r \in rows : r.day > d}
           on(d) == {r \in rows : r.day = d /\ r.status = "A"}
<1>1. IsFiniteSet(LastAbsences(rows)) /\ Cardinality(LastAbsences(rows)) \in Nat
  <2>1. LastAbsences(rows) \subseteq rows
    BY DEF LastAbsences
  <2>2. QED
    BY <2>1, FS_Subset, FS_CardinalityType
<1>2. \A r \in rows : r.day \in Nat
  BY DEF AttendanceRow
<1>3. AbsentTails(rows) = IF mixed = {} THEN {Cardinality(rows)}
          ELSE {Cardinality(after(Max(mixed))) + n : n \in 0..Cardinality(on(Max(mixed)))}
  BY DEF AbsentTails
<1>4. CASE mixed = {}
  <2>1. LastAbsences(rows) = rows
    BY <1>4 DEF LastAbsences
  <2>2. AbsentTails(rows) = {Cardinality(rows)}
    BY <1>3, <1>4
  <2>3. QED
    BY <1>1, <2>1, <2>2
<1>5. CASE mixed # {}
  <2> DEFINE m == Max(mixed)
             A == after(m)
             O == on(m)
  <2>1. IsFiniteSet(mixed) /\ mixed \subseteq Int
    <3> DEFINE other == {q \in rows : q.status # "A"}
               day == [r \in rows |-> r.day]
    <3>1. IsFiniteSet(other)
      BY FS_Subset
    <3>2. mixed = ImageOf(day, other)
      BY DEF ImageOf
    <3>3. mixed \subseteq Int
      BY <1>2
    <3> HIDE DEF mixed, other, day
    <3>4. IsFiniteSet(ImageOf(day, other))
      BY <3>1, ImageIsFinite
    <3>5. QED
      BY <3>2, <3>3, <3>4
  <2>2. m \in mixed /\ \A y \in mixed : m >= y
    <3> HIDE DEF mixed
    <3>1. QED
      BY <1>5, <2>1, MaxIsIn
  <2>3. m \in Nat /\ (\A q \in rows : q.status # "A" => q.day <= m)
        /\ (\E q \in rows : q.status # "A" /\ q.day = m)
    BY <1>2, <2>2
  <2> HIDE DEF m, mixed
  <2>4. LastAbsences(rows) = A \cup O
    BY <1>2, <2>3 DEF LastAbsences
  <2>5. A \cap O = {}
    BY <1>2, <2>3
  <2>6. /\ IsFiniteSet(A) /\ IsFiniteSet(O) /\ Cardinality(A) \in Nat /\ Cardinality(O) \in Nat
        /\ Cardinality({}) = 0
    BY FS_Subset, FS_CardinalityType, FS_EmptySet
  <2>7. AbsentTails(rows) = {Cardinality(A) + n : n \in 0..Cardinality(O)}
    BY <1>3, <1>5 DEF m
  <2> HIDE DEF A, O
  <2>8. Cardinality(LastAbsences(rows)) = Cardinality(A) + Cardinality(O)
    <3>1. Cardinality(A \cup O) = Cardinality(A) + Cardinality(O) - Cardinality(A \cap O)
      BY <2>6, FS_Union
    <3>2. Cardinality(A \cap O) = 0
      BY <2>5, <2>6
    <3>3. QED
      BY <2>4, <2>6, <3>1, <3>2
  <2>9. \A t \in AbsentTails(rows) : t \in Nat /\ t <= Cardinality(A) + Cardinality(O)
    BY <2>6, <2>7
  <2>10. Cardinality(A) + Cardinality(O) \in AbsentTails(rows)
    BY <2>6, <2>7
  <2>11. QED
    BY <1>1, <2>8, <2>9, <2>10
<1>6. QED
  BY <1>4, <1>5

\* What the signals of the attendance and of the bills are worth.
TailSignals(t) ==
    CASE t >= 10 -> {"CONSEC_ABSENT_10"} [] t \in 5..9 -> {"CONSEC_ABSENT_5"}
      [] t \in 3..4 -> {"CONSEC_ABSENT_3"} [] t < 3 -> {}
RateSignals(present, total) ==
    CASE present < 50 * total -> {"RATE_BELOW_50"}
      [] present >= 50 * total /\ present < 65 * total -> {"RATE_BELOW_65"}
      [] present >= 65 * total /\ present < 80 * total -> {"RATE_BELOW_80"}
      [] present >= 80 * total -> {}
OwedSignals(owed) == IF owed > 0 THEN {"FEES_OUTSTANDING"} ELSE {}
LateSignals(late) ==
    CASE late > 60 -> {"FEES_OVERDUE_60"} [] late \in 31..60 -> {"FEES_OVERDUE_30"}
      [] late <= 30 -> {}

TailPoints(t) == IF t >= 10 THEN 60 ELSE IF t >= 5 THEN 40 ELSE IF t >= 3 THEN 25 ELSE 0
RatePoints(present, total) ==
    IF present < 50 * total THEN 45 ELSE IF present < 65 * total THEN 30
    ELSE IF present < 80 * total THEN 15 ELSE 0
OwedPoints(owed) == IF owed > 0 THEN 10 ELSE 0
LatePoints(late) == IF late > 60 THEN 30 ELSE IF late > 30 THEN 20 ELSE 0

\* A set of at most one signal.
LEMMA PointsOfOne ==
  ASSUME NEW c \in DOMAIN Points
  PROVE  /\ Whole(Points, {c}) /\ SumOver(Points, {c}) = Points[c]
         /\ Whole(Points, {}) /\ SumOver(Points, {}) = 0
<1>1. Points[c] \in Int
  BY DEF Points
<1>2. Whole(Points, {c})
  BY <1>1, FS_Singleton DEF Whole
<1>3. SumOver(Points, {c}) = Points[c] + SumOver(Points, {c} \ {c})
  BY <1>2, SumSplit
<1>4. {c} \ {c} = {}
  OBVIOUS
<1>5. SumOver(Points, {c} \ {c}) = 0
  BY <1>4, SumEmpty
<1>6. QED
  BY <1>1, <1>2, <1>3, <1>5, SumEmpty

LEMMA PointsAre ==
  /\ DOMAIN Points = {"CONSEC_ABSENT_10", "CONSEC_ABSENT_5", "CONSEC_ABSENT_3",
                      "RATE_BELOW_50", "RATE_BELOW_65", "RATE_BELOW_80",
                      "FEES_OUTSTANDING", "FEES_OVERDUE_60", "FEES_OVERDUE_30"}
  /\ Points["CONSEC_ABSENT_10"] = 60 /\ Points["CONSEC_ABSENT_5"] = 40
  /\ Points["CONSEC_ABSENT_3"] = 25 /\ Points["RATE_BELOW_50"] = 45
  /\ Points["RATE_BELOW_65"] = 30 /\ Points["RATE_BELOW_80"] = 15
  /\ Points["FEES_OUTSTANDING"] = 10 /\ Points["FEES_OVERDUE_60"] = 30
  /\ Points["FEES_OVERDUE_30"] = 20
BY DEF Points

Worth(S, n) == Whole(Points, S) /\ SumOver(Points, S) = n
LEMMA WorthOfOne ==
  /\ Worth({}, 0)
  /\ \A c \in DOMAIN Points : Worth({c}, Points[c])
BY PointsOfOne, SumEmpty DEF Worth

LEMMA TailWorth ==
  ASSUME NEW t \in Nat
  PROVE  Worth(TailSignals(t), TailPoints(t))
<1>1. CASE t >= 10
  BY <1>1, WorthOfOne, PointsAre DEF TailSignals, TailPoints
<1>2. CASE t \in 5..9
  BY <1>2, WorthOfOne, PointsAre DEF TailSignals, TailPoints
<1>3. CASE t \in 3..4
  BY <1>3, WorthOfOne, PointsAre DEF TailSignals, TailPoints
<1>4. CASE t < 3
  BY <1>4, WorthOfOne DEF TailSignals, TailPoints
<1>5. QED
  BY <1>1, <1>2, <1>3, <1>4

LEMMA RateWorth ==
  ASSUME NEW p \in Nat, NEW n \in Nat
  PROVE  Worth(RateSignals(p, n), RatePoints(p, n))
<1>1. CASE p < 50 * n
  <2>1. RateSignals(p, n) = {"RATE_BELOW_50"} /\ RatePoints(p, n) = 45
    BY <1>1 DEF RateSignals, RatePoints
  <2>2. QED
    BY <2>1, WorthOfOne, PointsAre
<1>2. CASE p >= 50 * n /\ p < 65 * n
  <2>1. RateSignals(p, n) = {"RATE_BELOW_65"} /\ RatePoints(p, n) = 30
    BY <1>2 DEF RateSignals, RatePoints
  <2>2. QED
    BY <2>1, WorthOfOne, PointsAre
<1>3. CASE p >= 65 * n /\ p < 80 * n
  <2>1. RateSignals(p, n) = {"RATE_BELOW_80"} /\ RatePoints(p, n) = 15
    BY <1>3 DEF RateSignals, RatePoints
  <2>2. QED
    BY <2>1, WorthOfOne, PointsAre
<1>4. CASE p >= 80 * n
  <2>1. RateSignals(p, n) = {} /\ RatePoints(p, n) = 0
    BY <1>4 DEF RateSignals, RatePoints
  <2>2. QED
    BY <2>1, WorthOfOne
<1>5. QED
  BY <1>1, <1>2, <1>3, <1>4

LEMMA FeeWorth ==
  ASSUME NEW owed \in Int, NEW late \in Int
  PROVE  /\ Worth(OwedSignals(owed), OwedPoints(owed))
         /\ Worth(LateSignals(late), LatePoints(late))
<1>1. Worth(OwedSignals(owed), OwedPoints(owed))
  BY WorthOfOne, PointsAre DEF OwedSignals, OwedPoints
<1>2. CASE late > 60
  BY <1>1, <1>2, WorthOfOne, PointsAre DEF LateSignals, LatePoints
<1>3. CASE late \in 31..60
  BY <1>1, <1>3, WorthOfOne, PointsAre DEF LateSignals, LatePoints
<1>4. CASE late <= 30
  BY <1>1, <1>4, WorthOfOne DEF LateSignals, LatePoints
<1>5. QED
  BY <1>2, <1>3, <1>4

LEMMA WorthTogether ==
  ASSUME NEW S, NEW m, Worth(S, m), NEW T, NEW n, Worth(T, n), S \cap T = {}
  PROVE  Worth(S \cup T, m + n)
BY SumUnion DEF Worth

\* The bills that are open, what they leave to pay and since when.
Open(bills) == {b \in bills : b.status \in {"PENDING", "PARTIAL", "OVERDUE"}}
Lateness(bills) == {0} \cup {b.late : b \in Open(bills)}
Owing == [b \in BillRow |-> b.total - b.paid]
Outstanding(bills) == SumOver(Owing, Open(bills))
Late(bills) == Max(Lateness(bills))
Bills(bills) == IsFiniteSet(bills) /\ bills \subseteq BillRow

LEMMA OpenBills ==
  ASSUME NEW bills, Bills(bills)
  PROVE  /\ Whole(Owing, Open(bills)) /\ \A b \in Open(bills) : Owing[b] \in Nat
         /\ Outstanding(bills) \in Nat
         /\ Late(bills) \in Lateness(bills) /\ Late(bills) \in Nat
         /\ \A n \in Lateness(bills) : n \in Nat /\ Late(bills) >= n
<1>1. Open(bills) \subseteq BillRow /\ IsFiniteSet(Open(bills))
  BY FS_Subset DEF Open, Bills
<1>2. \A b \in BillRow : Owing[b] \in Nat /\ b.late \in Nat
  BY DEF Owing, BillRow
<1>3. Whole(Owing, Open(bills)) /\ \A b \in Open(bills) : Owing[b] \in Nat
  BY <1>1, <1>2 DEF Whole
<1>4. Outstanding(bills) \in Nat
  BY <1>3, SumNatural DEF Outstanding
<1>5. Lateness(bills) \subseteq Nat /\ 0 \in Lateness(bills)
  BY <1>1, <1>2 DEF Lateness
<1>6. IsFiniteSet(Lateness(bills))
  <2> DEFINE late == [b \in BillRow |-> b.late]
  <2>1. Lateness(bills) = ImageOf(late, Open(bills)) \cup {0}
    BY <1>1 DEF Lateness, ImageOf
  <2> HIDE DEF late
  <2>2. IsFiniteSet(ImageOf(late, Open(bills)))
    BY <1>1, ImageIsFinite
  <2>3. QED
    BY <2>1, <2>2, FS_AddElement
<1>7. Late(bills) \in Lateness(bills) /\ \A n \in Lateness(bills) : Late(bills) >= n
  <2>1. Lateness(bills) \subseteq Int /\ Lateness(bills) # {}
    BY <1>5
  <2>2. QED
    BY <1>6, <2>1, MaxIsIn DEF Late
<1>8. QED
  BY <1>3, <1>4, <1>5, <1>7

LEMMA FeeSignalsAre ==
  ASSUME NEW bills, Bills(bills)
  PROVE  _fee_signals(bills) = OwedSignals(Outstanding(bills)) \cup LateSignals(Late(bills))
<1> DEFINE open == Open(bills)
           f == [b \in open |-> b.total - b.paid]
<1>1. DOMAIN f = open /\ \A b \in open : f[b] = Owing[b]
  BY DEF Open, Bills, Owing
<1>2. Whole(Owing, open)
  BY OpenBills
<1>3. SumOf(f) = Outstanding(bills)
  <2> HIDE DEF f, open
  <2>1. SumOf(f) = SumOver(Owing, open)
    BY <1>1, <1>2, SumOfIs, SumSame
  <2>2. QED
    BY <2>1 DEF Outstanding, open
<1>4. {b \in bills : b.status \in {"PENDING", "PARTIAL", "OVERDUE"}} = open
  BY DEF Open
<1>5. Max({0} \cup {b.late : b \in open}) = Late(bills)
  BY DEF Late, Lateness
<1>6. _fee_signals(bills) =
          (IF SumOf(f) > 0 THEN {"FEES_OUTSTANDING"} ELSE {})
          \cup (LET late == Max({0} \cup {b.late : b \in open}) IN
                CASE late > 60 -> {"FEES_OVERDUE_60"} [] late \in 31..60 -> {"FEES_OVERDUE_30"}
                  [] late <= 30 -> {})
  BY <1>4 DEF _fee_signals
<1>7. QED
  BY <1>3, <1>5, <1>6 DEF OwedSignals, LateSignals

\* The score of what was read, for a number of absences at the end.
PresentIn(rows) == {r \in rows : r.status = "P"}
TrendPoints(t, rows) ==
    IF rows = {} THEN 0
    ELSE TailPoints(t) + RatePoints(100 * Cardinality(PresentIn(rows)), Cardinality(rows))
FeePoints(bills) == OwedPoints(Outstanding(bills)) + LatePoints(Late(bills))
Score(t, rows, bills) == AtMost100(TrendPoints(t, rows) + FeePoints(bills))
Trend(rows) == IsFiniteSet(rows) /\ rows \subseteq AttendanceRow

LEMMA TrendWorth ==
  ASSUME NEW rows, Trend(rows), NEW t \in Nat
  PROVE  /\ Worth(_attendance_signals(t, rows), TrendPoints(t, rows))
         /\ TrendPoints(t, rows) \in Nat
         /\ _attendance_signals(t, rows) \subseteq
                {"CONSEC_ABSENT_10", "CONSEC_ABSENT_5", "CONSEC_ABSENT_3",
                 "RATE_BELOW_50", "RATE_BELOW_65", "RATE_BELOW_80"}
<1> DEFINE p == 100 * Cardinality(PresentIn(rows))
           n == Cardinality(rows)
<1>1. p \in Nat /\ n \in Nat /\ (n = 0 <=> rows = {})
  BY FS_Subset, FS_CardinalityType, FS_EmptySet DEF Trend, PresentIn
<1>2. Tally(rows)["P"] = Cardinality(PresentIn(rows))
  BY DEF Tally, PresentIn
<1>3. rows # {} => _attendance_signals(t, rows) = TailSignals(t) \cup RateSignals(p, n)
  BY <1>2 DEF _attendance_signals, TailSignals, RateSignals
<1>4. rows = {} => _attendance_signals(t, rows) = {}
  BY DEF _attendance_signals
<1>5. Worth(TailSignals(t), TailPoints(t)) /\ TailPoints(t) \in Nat
      /\ TailSignals(t) \subseteq {"CONSEC_ABSENT_10", "CONSEC_ABSENT_5", "CONSEC_ABSENT_3"}
  <2>1. TailPoints(t) \in Nat
    BY DEF TailPoints
  <2>2. TailSignals(t) \subseteq {"CONSEC_ABSENT_10", "CONSEC_ABSENT_5", "CONSEC_ABSENT_3"}
    <3>1. t >= 10 \/ t \in 5..9 \/ t \in 3..4 \/ t < 3
      OBVIOUS
    <3>2. QED
      BY <3>1 DEF TailSignals
  <2>3. QED
    BY <2>1, <2>2, TailWorth
<1>6. rows # {} =>
        /\ Worth(RateSignals(p, n), RatePoints(p, n)) /\ RatePoints(p, n) \in Nat
        /\ RateSignals(p, n) \subseteq {"RATE_BELOW_50", "RATE_BELOW_65", "RATE_BELOW_80"}
  <2> HIDE DEF p, n
  <2>1. RatePoints(p, n) \in Nat
    BY DEF RatePoints
  <2>2. \/ p < 50 * n \/ (p >= 50 * n /\ p < 65 * n)
        \/ (p >= 65 * n /\ p < 80 * n) \/ p >= 80 * n
    BY <1>1
  <2>3. RateSignals(p, n) \subseteq {"RATE_BELOW_50", "RATE_BELOW_65", "RATE_BELOW_80"}
    BY <1>1, <2>2 DEF RateSignals
  <2>4. QED
    BY <1>1, <2>1, <2>3, RateWorth
<1>7. TrendPoints(t, rows) = IF rows = {} THEN 0 ELSE TailPoints(t) + RatePoints(p, n)
  BY DEF TrendPoints
<1> HIDE DEF p, n
<1>8. CASE rows = {}
  BY <1>4, <1>7, <1>8, WorthOfOne
<1>9. CASE rows # {}
  <2>1. TailSignals(t) \cap RateSignals(p, n) = {}
    BY <1>5, <1>6, <1>9
  <2>2. Worth(TailSignals(t) \cup RateSignals(p, n), TailPoints(t) + RatePoints(p, n))
    BY <1>5, <1>6, <1>9, <2>1, WorthTogether
  <2>3. QED
    BY <1>3, <1>5, <1>6, <1>7, <1>9, <2>2
<1>10. QED
  BY <1>8, <1>9

LEMMA FeePointsAre ==
  ASSUME NEW bills, Bills(bills)
  PROVE  /\ Worth(_fee_signals(bills), FeePoints(bills)) /\ FeePoints(bills) \in Nat
         /\ _fee_signals(bills) \subseteq
                {"FEES_OUTSTANDING", "FEES_OVERDUE_60", "FEES_OVERDUE_30"}
<1> DEFINE owed == Outstanding(bills)
           late == Late(bills)
<1>1. owed \in Nat /\ late \in Nat
  BY OpenBills
<1>2. _fee_signals(bills) = OwedSignals(owed) \cup LateSignals(late)
  BY FeeSignalsAre
<1>3. FeePoints(bills) = OwedPoints(owed) + LatePoints(late)
  BY DEF FeePoints
<1> HIDE DEF owed, late
<1>4. OwedPoints(owed) \in Nat /\ LatePoints(late) \in Nat
  BY DEF OwedPoints, LatePoints
<1>5. OwedSignals(owed) \subseteq {"FEES_OUTSTANDING"}
  BY DEF OwedSignals
<1>6. LateSignals(late) \subseteq {"FEES_OVERDUE_60", "FEES_OVERDUE_30"}
  <2>1. late > 60 \/ late \in 31..60 \/ late <= 30
    BY <1>1
  <2>2. QED
    BY <2>1 DEF LateSignals
<1>7. Worth(OwedSignals(owed), OwedPoints(owed)) /\ Worth(LateSignals(late), LatePoints(late))
  BY <1>1, FeeWorth
<1>8. OwedSignals(owed) \cap LateSignals(late) = {}
  BY <1>5, <1>6
<1>9. Worth(OwedSignals(owed) \cup LateSignals(late), OwedPoints(owed) + LatePoints(late))
  BY <1>7, <1>8, WorthTogether
<1>10. QED
  BY <1>2, <1>3, <1>4, <1>5, <1>6, <1>9

\* A score is what its signals are worth, at most a hundred, and every score has its band.
LEMMA ScoreIs ==
  ASSUME NEW rows, Trend(rows), NEW bills, Bills(bills), NEW t \in Nat
  PROVE  /\ compute(t, rows, bills).score = Score(t, rows, bills)
         /\ Score(t, rows, bills) \in 0..100
         /\ compute(t, rows, bills).band \in DOMAIN BANDS
         /\ compute(t, rows, bills).score \in BANDS[compute(t, rows, bills).band]
<1> DEFINE S == _attendance_signals(t, rows)
           T == _fee_signals(bills)
           m == TrendPoints(t, rows)
           n == FeePoints(bills)
           f == [c \in S \cup T |-> Points[c]]
           score == Min({100, SumOf(f)})
<1>1. /\ Worth(S, m) /\ Worth(T, n) /\ m \in Nat /\ n \in Nat
      /\ S \cap T = {} /\ S \cup T \subseteq DOMAIN Points
  <2>1. Worth(S, m) /\ m \in Nat
        /\ S \subseteq {"CONSEC_ABSENT_10", "CONSEC_ABSENT_5", "CONSEC_ABSENT_3",
                        "RATE_BELOW_50", "RATE_BELOW_65", "RATE_BELOW_80"}
    BY TrendWorth
  <2>2. Worth(T, n) /\ n \in Nat
        /\ T \subseteq {"FEES_OUTSTANDING", "FEES_OVERDUE_60", "FEES_OVERDUE_30"}
    BY FeePointsAre
  <2> HIDE DEF S, T, m, n
  <2>3. QED
    BY <2>1, <2>2, PointsAre
<1>2. /\ DOMAIN f = S \cup T /\ \A c \in S \cup T : f[c] = Points[c]
  OBVIOUS
<1>3. compute(t, rows, bills) =
          [score |-> score, band |-> CHOOSE b \in DOMAIN BANDS : score \in BANDS[b],
           signals |-> S \cup T]
  BY DEF compute
<1> HIDE DEF S, T, m, n, f
<1>4. SumOf(f) = m + n
  <2>1. Worth(S \cup T, m + n)
    BY <1>1, WorthTogether
  <2>2. Whole(Points, S \cup T) /\ SumOver(Points, S \cup T) = m + n
    BY <2>1 DEF Worth
  <2>3. SumOver(f, S \cup T) = SumOver(Points, S \cup T)
    BY <1>2, <2>2, SumSame
  <2>4. QED
    BY <1>2, <2>2, <2>3, SumOfIs
<1>5. score = AtMost100(m + n) /\ score \in 0..100
  <2>1. m + n \in Nat
    BY <1>1
  <2>2. score = AtMost100(m + n)
    BY <1>4, <2>1, MinIs
  <2>3. AtMost100(m + n) \in 0..100
    BY <2>1 DEF AtMost100
  <2>4. QED
    BY <2>2, <2>3
<1> HIDE DEF score
<1>6. \E b \in DOMAIN BANDS : score \in BANDS[b]
  <2>1. /\ "LOW" \in DOMAIN BANDS /\ BANDS["LOW"] = 0..29
        /\ "MEDIUM" \in DOMAIN BANDS /\ BANDS["MEDIUM"] = 30..59
        /\ "HIGH" \in DOMAIN BANDS /\ BANDS["HIGH"] = 60..79
        /\ "CRITICAL" \in DOMAIN BANDS /\ BANDS["CRITICAL"] = 80..100
    BY DEF BANDS
  <2>2. score \in 0..29 \/ score \in 30..59 \/ score \in 60..79 \/ score \in 80..100
    BY <1>5
  <2>3. QED
    BY <2>1, <2>2
<1>7. compute(t, rows, bills).score = score
      /\ compute(t, rows, bills).band = CHOOSE b \in DOMAIN BANDS : score \in BANDS[b]
  BY <1>3
<1>8. QED
  BY <1>5, <1>6, <1>7 DEF Score, m, n

\* The riskiest order is that with the longest tail.
LEMMA RiskiestIs ==
  ASSUME NEW rows, Trend(rows), NEW bills, Bills(bills)
  PROVE  Riskiest(rows, bills) = Score(Cardinality(LastAbsences(rows)), rows, bills)
<1> DEFINE top == Cardinality(LastAbsences(rows))
           S == {r.score : r \in Risks(rows, bills)}
<1>1. /\ top \in AbsentTails(rows) /\ top \in Nat
      /\ \A t \in AbsentTails(rows) : t \in Nat /\ t <= top
  BY TailsAre DEF Trend
<1>2. S = {compute(t, rows, bills).score : t \in AbsentTails(rows)}
  BY DEF Risks
<1>3. \A t \in AbsentTails(rows) : compute(t, rows, bills).score = Score(t, rows, bills)
                                   /\ Score(t, rows, bills) \in Int
  BY <1>1, ScoreIs
<1> HIDE DEF top
<1>4. \A t \in AbsentTails(rows) : Score(t, rows, bills) <= Score(top, rows, bills)
  <2> SUFFICES ASSUME NEW t \in AbsentTails(rows)
      PROVE  Score(t, rows, bills) <= Score(top, rows, bills)
    OBVIOUS
  <2>1. t \in Nat /\ t <= top
    BY <1>1
  <2>2. TailPoints(t) <= TailPoints(top)
    BY <1>1, <2>1 DEF TailPoints
  <2>3. /\ TrendPoints(t, rows) \in Nat /\ TrendPoints(top, rows) \in Nat
        /\ FeePoints(bills) \in Nat
    BY <1>1, <2>1, TrendWorth, FeePointsAre
  <2>4. TrendPoints(t, rows) <= TrendPoints(top, rows)
    <3> DEFINE rate == RatePoints(100 * Cardinality(PresentIn(rows)), Cardinality(rows))
    <3>1. rate \in Int /\ TailPoints(t) \in Int /\ TailPoints(top) \in Int
      BY DEF RatePoints, TailPoints
    <3>2. /\ TrendPoints(t, rows) = IF rows = {} THEN 0 ELSE TailPoints(t) + rate
          /\ TrendPoints(top, rows) = IF rows = {} THEN 0 ELSE TailPoints(top) + rate
      BY DEF TrendPoints
    <3> HIDE DEF rate
    <3>3. QED
      BY <2>2, <3>1, <3>2
  <2>5. QED
    BY <2>3, <2>4 DEF Score, AtMost100
<1>5. /\ S \subseteq Int /\ Score(top, rows, bills) \in S
      /\ \A y \in S : Score(top, rows, bills) >= y
  BY <1>1, <1>2, <1>3, <1>4
<1> HIDE DEF S
<1>6. Max(S) = Score(top, rows, bills)
  BY <1>5, MaxIs
<1>7. QED
  BY <1>6 DEF Riskiest, S, top

\* Who was there instead of absent has no longer a tail and no lower a rate.
LEMMA PresenceIsFair ==
  ASSUME NEW rows, Trend(rows), NEW bills, Bills(bills), NEW r \in rows, r.status = "A"
  PROVE  Riskiest((rows \ {r}) \cup {[r EXCEPT !.status = "P"]}, bills) <= Riskiest(rows, bills)
<1> DEFINE p == [r EXCEPT !.status = "P"]
           now == (rows \ {r}) \cup {p}
<1>1. p \in AttendanceRow /\ p.status = "P"
  BY DEF AttendanceRow, Trend
<1> HIDE DEF p
<1>2. /\ Trend(now) /\ Cardinality(now) <= Cardinality(rows)
      /\ Cardinality(now) \in Nat /\ Cardinality(rows) \in Nat /\ now # {} /\ rows # {}
  <2>1. IsFiniteSet(rows \ {r}) /\ Cardinality(rows \ {r}) = Cardinality(rows) - 1
        /\ Cardinality(rows) \in Nat
    BY FS_RemoveElement, FS_CardinalityType DEF Trend
  <2>2. IsFiniteSet(now) /\ Cardinality(now) \in Nat
        /\ Cardinality(now) = IF p \in rows \ {r} THEN Cardinality(rows \ {r})
                              ELSE Cardinality(rows \ {r}) + 1
    BY <2>1, FS_AddElement, FS_CardinalityType
  <2>3. now \subseteq AttendanceRow
    BY <1>1 DEF Trend
  <2>4. QED
    BY <2>1, <2>2, <2>3 DEF Trend
<1>3. /\ Cardinality(LastAbsences(now)) <= Cardinality(LastAbsences(rows))
      /\ Cardinality(LastAbsences(now)) \in Nat /\ Cardinality(LastAbsences(rows)) \in Nat
  <2>1. LastAbsences(now) \subseteq LastAbsences(rows)
    BY <1>1 DEF LastAbsences
  <2>2. IsFiniteSet(LastAbsences(rows))
    BY TailsAre DEF Trend
  <2>3. QED
    BY <2>1, <2>2, FS_Subset, FS_CardinalityType
<1>4. /\ Cardinality(PresentIn(rows)) <= Cardinality(PresentIn(now))
      /\ Cardinality(PresentIn(rows)) \in Nat /\ Cardinality(PresentIn(now)) \in Nat
  <2>1. PresentIn(rows) \subseteq PresentIn(now)
    BY DEF PresentIn
  <2>2. IsFiniteSet(PresentIn(now))
    <3>1. PresentIn(now) \subseteq now /\ IsFiniteSet(now)
      BY <1>2 DEF PresentIn, Trend
    <3>2. QED
      BY <3>1, FS_Subset
  <2>3. QED
    BY <2>1, <2>2, FS_Subset, FS_CardinalityType
<1> DEFINE t == Cardinality(LastAbsences(rows))
           u == Cardinality(LastAbsences(now))
           a == Cardinality(PresentIn(rows))
           b == Cardinality(PresentIn(now))
           m == Cardinality(rows)
           n == Cardinality(now)
<1>5. /\ TrendPoints(t, rows) = TailPoints(t) + RatePoints(100 * a, m)
      /\ TrendPoints(u, now) = TailPoints(u) + RatePoints(100 * b, n)
  BY <1>2 DEF TrendPoints
<1>6. /\ Riskiest(rows, bills) = AtMost100(TrendPoints(t, rows) + FeePoints(bills))
      /\ Riskiest(now, bills) = AtMost100(TrendPoints(u, now) + FeePoints(bills))
      /\ FeePoints(bills) \in Nat
  BY <1>2, RiskiestIs, FeePointsAre DEF Score
<1> HIDE DEF t, u, a, b, m, n
<1>7. t \in Nat /\ u \in Nat /\ u <= t /\ a \in Nat /\ b \in Nat /\ a <= b
      /\ m \in Nat /\ n \in Nat /\ n <= m
  BY <1>2, <1>3, <1>4 DEF t, u, a, b, m, n
<1>8. TailPoints(u) <= TailPoints(t) /\ TailPoints(u) \in Nat /\ TailPoints(t) \in Nat
  BY <1>7 DEF TailPoints
<1>9. /\ RatePoints(100 * b, n) <= RatePoints(100 * a, m)
      /\ RatePoints(100 * b, n) \in Nat /\ RatePoints(100 * a, m) \in Nat
  BY <1>7 DEF RatePoints
<1>10. TrendPoints(u, now) <= TrendPoints(t, rows)
       /\ TrendPoints(u, now) \in Nat /\ TrendPoints(t, rows) \in Nat
  BY <1>5, <1>8, <1>9
<1>11. Riskiest(now, bills) <= Riskiest(rows, bills)
  BY <1>6, <1>10 DEF AtMost100
<1>12. QED
  BY <1>11 DEF p

\* A bill that is paid leaves no more to pay, and nothing later.
LEMMA PaymentIsFair ==
  ASSUME NEW rows, Trend(rows), NEW bills, Bills(bills), NEW b \in bills
  PROVE  Riskiest(rows, (bills \ {b}) \cup {[b EXCEPT !.paid = b.total, !.status = "PAID"]})
             <= Riskiest(rows, bills)
<1> DEFINE paid == [b EXCEPT !.paid = b.total, !.status = "PAID"]
           now == (bills \ {b}) \cup {paid}
<1>1. paid \in BillRow /\ paid.status = "PAID"
  <2>1. b \in BillRow
    BY DEF Bills
  <2> DEFINE Base == [learner : Learners, status : {"PENDING", "PARTIAL", "OVERDUE", "PAID"},
                      total : Nat, paid : Nat, late : Nat]
  <2>2. b \in Base /\ b.total \in Nat
    BY <2>1 DEF BillRow
  <2>3. paid \in Base /\ paid.status = "PAID" /\ paid.paid = b.total /\ paid.total = b.total
    BY <2>2
  <2>4. paid.paid <= paid.total
    BY <2>2, <2>3
  <2> HIDE DEF paid
  <2>5. paid \in BillRow
    BY <2>3, <2>4 DEF BillRow
  <2>6. QED
    BY <2>3, <2>5
<1> HIDE DEF paid
<1>2. Bills(now)
  <2>1. IsFiniteSet(bills \ {b}) /\ bills \subseteq BillRow
    BY FS_RemoveElement DEF Bills
  <2>2. IsFiniteSet(now) /\ now \subseteq BillRow
    BY <1>1, <2>1, FS_AddElement
  <2>3. QED
    BY <2>2 DEF Bills
<1>3. Open(now) \subseteq Open(bills)
  BY <1>1 DEF Open
<1> HIDE DEF now
<1>4. /\ Whole(Owing, Open(bills)) /\ \A c \in Open(bills) : Owing[c] \in Nat
      /\ Outstanding(bills) \in Nat /\ Late(bills) \in Nat
      /\ \A n \in Lateness(bills) : n \in Nat /\ Late(bills) >= n
      /\ Outstanding(now) \in Nat /\ Late(now) \in Nat /\ Late(now) \in Lateness(now)
  BY <1>2, OpenBills
<1>5. Outstanding(now) <= Outstanding(bills)
  <2> DEFINE rest == Open(bills) \ Open(now)
  <2>1. Whole(Owing, rest) /\ Whole(Owing, Open(now))
    BY <1>3, <1>4, WholePart
  <2>2. Open(bills) = Open(now) \cup rest /\ Open(now) \cap rest = {}
    BY <1>3
  <2>3. \A c \in rest : Owing[c] \in Nat
    BY <1>4
  <2> HIDE DEF rest
  <2>4. SumOver(Owing, Open(now) \cup rest)
            = SumOver(Owing, Open(now)) + SumOver(Owing, rest)
    BY <2>1, <2>2, SumUnion
  <2>5. SumOver(Owing, rest) \in Nat
    BY <2>1, <2>3, SumNatural
  <2>6. QED
    BY <1>4, <2>2, <2>4, <2>5 DEF Outstanding
<1>6. Late(now) <= Late(bills)
  <2>1. Lateness(now) \subseteq Lateness(bills)
    BY <1>3 DEF Lateness
  <2>2. QED
    BY <1>4, <2>1
<1>7. FeePoints(now) <= FeePoints(bills) /\ FeePoints(now) \in Nat /\ FeePoints(bills) \in Nat
  <2>1. OwedPoints(Outstanding(now)) <= OwedPoints(Outstanding(bills))
    BY <1>4, <1>5 DEF OwedPoints
  <2>2. LatePoints(Late(now)) <= LatePoints(Late(bills))
    BY <1>4, <1>6 DEF LatePoints
  <2>3. /\ OwedPoints(Outstanding(now)) \in Nat /\ OwedPoints(Outstanding(bills)) \in Nat
        /\ LatePoints(Late(now)) \in Nat /\ LatePoints(Late(bills)) \in Nat
    BY DEF OwedPoints, LatePoints
  <2>4. QED
    BY <2>1, <2>2, <2>3 DEF FeePoints
<1>8. Cardinality(LastAbsences(rows)) \in Nat
  BY TailsAre, FS_CardinalityType DEF Trend
<1>9. TrendPoints(Cardinality(LastAbsences(rows)), rows) \in Nat
  BY <1>8, TrendWorth
<1>10. Riskiest(rows, now) <= Riskiest(rows, bills)
  <2>1. /\ Riskiest(rows, bills) = Score(Cardinality(LastAbsences(rows)), rows, bills)
        /\ Riskiest(rows, now) = Score(Cardinality(LastAbsences(rows)), rows, now)
    BY <1>2, RiskiestIs
  <2>2. QED
    BY <1>7, <1>9, <2>1 DEF Score, AtMost100
<1>11. QED
  BY <1>10 DEF now, paid

LEMMA RisksAreFairNow ==
  ASSUME NEW v, School(v), IsFiniteSet(v.bill), v.bill \subseteq BillRow
  PROVE  RisksAreFair(v)
<1> SUFFICES ASSUME NEW l \in Learners
    PROVE  LET rows == TrendRows(v, l, 1, v.today)
               bills == BillsOf(v, l)
               paid(b) == [b EXCEPT !.paid = b.total, !.status = "PAID"]
           IN /\ \A r \in Risks(rows, bills) : r.score \in BANDS[r.band]
              /\ \A r \in {q \in rows : q.status = "A"} :
                     Riskiest((rows \ {r}) \cup {[r EXCEPT !.status = "P"]}, bills)
                         <= Riskiest(rows, bills)
              /\ \A b \in bills :
                     Riskiest(rows, (bills \ {b}) \cup {paid(b)}) <= Riskiest(rows, bills)
  BY DEF RisksAreFair
<1> DEFINE rows == TrendRows(v, l, 1, v.today)
           bills == BillsOf(v, l)
<1>1. Trend(rows)
  <2>1. rows \subseteq v.register
    BY DEF TrendRows, Between
  <2>2. QED
    BY <2>1, SchoolIsFinite, FS_Subset DEF Trend
<1>2. Bills(bills)
  <2>1. bills \subseteq v.bill
    BY DEF BillsOf
  <2>2. QED
    BY <2>1, FS_Subset DEF Bills
<1> HIDE DEF rows, bills
<1>3. \A r \in Risks(rows, bills) : r.score \in BANDS[r.band]
  <2> SUFFICES ASSUME NEW r \in Risks(rows, bills) PROVE r.score \in BANDS[r.band]
    OBVIOUS
  <2>1. PICK t \in AbsentTails(rows) : r = compute(t, rows, bills)
    BY DEF Risks
  <2>2. t \in Nat
    BY <1>1, TailsAre DEF Trend
  <2>3. QED
    BY <1>1, <1>2, <2>1, <2>2, ScoreIs
<1>4. QED
  BY <1>1, <1>2, <1>3, PresenceIsFair, PaymentIsFair DEF rows, bills

--------------------------------------------------------------------------------
\* Whatever was committed since, what is ranked is a risk of some trend and bills: it has a
\* score and a band, and at most one signal of each kind.
ProperRisk(r) ==
    /\ r.score \in 0..100 /\ r.band \in DOMAIN BANDS
    /\ \A kind \in KindsOfSignal : \A c, d \in kind \cap r.signals : c = d
RanksAreProper ==
    enquiryOf("dropout") =>
        /\ Trend(enquiry.trend.rows)
        /\ \A l \in DOMAIN enquiry.ranked : ProperRisk(enquiry.ranked[l])

LEMMA SignalsOfAKind ==
  ASSUME NEW rows, Trend(rows), NEW bills, Bills(bills), NEW t \in Nat,
         NEW kind \in KindsOfSignal,
         NEW c \in kind \cap (_attendance_signals(t, rows) \cup _fee_signals(bills)),
         NEW d \in kind \cap (_attendance_signals(t, rows) \cup _fee_signals(bills))
  PROVE  c = d
<1> DEFINE p == 100 * Cardinality(PresentIn(rows))
           n == Cardinality(rows)
           owed == Outstanding(bills)
           late == Late(bills)
           S == _attendance_signals(t, rows)
           T == _fee_signals(bills)
<1>1. S = {} \/ S = TailSignals(t) \cup RateSignals(p, n)
  <2>1. Tally(rows)["P"] = Cardinality(PresentIn(rows))
    BY DEF Tally, PresentIn
  <2>2. QED
    BY <2>1 DEF _attendance_signals, TailSignals, RateSignals
<1>2. T = OwedSignals(owed) \cup LateSignals(late)
  BY FeeSignalsAre
<1>3. p \in Nat /\ n \in Nat /\ owed \in Nat /\ late \in Nat
  BY FS_Subset, FS_CardinalityType, OpenBills DEF Trend, PresentIn
<1> HIDE DEF p, n, owed, late, S, T
<1>4. TailSignals(t) \in {{}, {"CONSEC_ABSENT_10"}, {"CONSEC_ABSENT_5"}, {"CONSEC_ABSENT_3"}}
  <2>1. t >= 10 \/ t \in 5..9 \/ t \in 3..4 \/ t < 3
    OBVIOUS
  <2>2. QED
    BY <2>1 DEF TailSignals
<1>5. RateSignals(p, n) \in {{}, {"RATE_BELOW_50"}, {"RATE_BELOW_65"}, {"RATE_BELOW_80"}}
  <2>1. \/ p < 50 * n \/ (p >= 50 * n /\ p < 65 * n)
        \/ (p >= 65 * n /\ p < 80 * n) \/ p >= 80 * n
    BY <1>3
  <2>2. QED
    BY <1>3, <2>1 DEF RateSignals
<1>6. OwedSignals(owed) \in {{}, {"FEES_OUTSTANDING"}}
  BY DEF OwedSignals
<1>7. LateSignals(late) \in {{}, {"FEES_OVERDUE_60"}, {"FEES_OVERDUE_30"}}
  <2>1. late > 60 \/ late \in 31..60 \/ late <= 30
    BY <1>3
  <2>2. QED
    BY <1>3, <2>1 DEF LateSignals
<1>8. c \in kind /\ d \in kind /\ c \in S \cup T /\ d \in S \cup T
  BY DEF S, T
<1> DEFINE A == TailSignals(t)
           R == RateSignals(p, n)
           O == OwedSignals(owed)
           L == LateSignals(late)
<1>9. c \in A \cup R \cup O \cup L /\ d \in A \cup R \cup O \cup L
  BY <1>1, <1>2, <1>8
<1> HIDE DEF A, R, O, L
<1>10. CASE kind = {"CONSEC_ABSENT_10", "CONSEC_ABSENT_5", "CONSEC_ABSENT_3"}
  <2>1. c \in A /\ d \in A
    BY <1>5, <1>6, <1>7, <1>8, <1>9, <1>10 DEF R, O, L
  <2>2. QED
    BY <1>4, <2>1 DEF A
<1>11. CASE kind = {"RATE_BELOW_50", "RATE_BELOW_65", "RATE_BELOW_80"}
  <2>1. c \in R /\ d \in R
    BY <1>4, <1>6, <1>7, <1>8, <1>9, <1>11 DEF A, O, L
  <2>2. QED
    BY <1>5, <2>1 DEF R
<1>12. CASE kind = {"FEES_OVERDUE_60", "FEES_OVERDUE_30"}
  <2>1. c \in L /\ d \in L
    BY <1>4, <1>5, <1>6, <1>8, <1>9, <1>12 DEF A, R, O
  <2>2. QED
    BY <1>7, <2>1 DEF L
<1>13. QED
  BY <1>10, <1>11, <1>12 DEF KindsOfSignal

LEMMA RisksAreProper ==
  ASSUME NEW rows, Trend(rows), NEW bills, Bills(bills), NEW r \in Risks(rows, bills)
  PROVE  ProperRisk(r)
<1>1. PICK t \in AbsentTails(rows) : r = compute(t, rows, bills)
  BY DEF Risks
<1>2. t \in Nat
  BY <1>1, TailsAre DEF Trend
<1>3. r.score \in 0..100 /\ r.band \in DOMAIN BANDS
  BY <1>1, <1>2, ScoreIs
<1>4. r.signals = _attendance_signals(t, rows) \cup _fee_signals(bills)
  BY <1>1 DEF compute
<1>5. \A kind \in KindsOfSignal : \A c, d \in kind \cap r.signals : c = d
  BY <1>2, <1>4, SignalsOfAKind
<1>6. QED
  BY <1>3, <1>5 DEF ProperRisk

LEMMA NoTrendIsProper == Trend(NoTrend.rows) /\ Bills({})
BY FS_EmptySet DEF Trend, Bills, NoTrend

\* The trend and the bills of a learner are those of the school.
LEMMA ReadsAreProper ==
  ASSUME SchoolTypeOK, NEW l
  PROVE  Trend(TrendRows(school, l, 1, school.today)) /\ Bills(BillsOf(school, l))
<1>1. /\ IsFiniteSet(school.register) /\ school.register \subseteq AttendanceRow
      /\ IsFiniteSet(school.bill) /\ school.bill \subseteq BillRow
  BY DEF SchoolTypeOK
<1>2. TrendRows(school, l, 1, school.today) \subseteq school.register
      /\ BillsOf(school, l) \subseteq school.bill
  BY DEF TrendRows, Between, BillsOf
<1>3. QED
  BY <1>1, <1>2, FS_Subset DEF Trend, Bills

LEMMA RanksStayProper ==
  ASSUME EnquiryInvariant, RanksAreProper, [EnquiryNext \/ SchoolCommits]_schoolVars
  PROVE  RanksAreProper'
<1>1. ASSUME NEW page, RankThe(page) PROVE RanksAreProper'
  <2> DEFINE nobody == [l \in {} |-> Nil]
  <2>1. enquiry' = [about |-> "dropout", page |-> page, left |-> page, trend |-> NoTrend,
                    ranked |-> nobody]
    BY <1>1 DEF RankThe
  <2>2. DOMAIN nobody = {}
    OBVIOUS
  <2> HIDE DEF nobody
  <2>3. enquiry'.trend = NoTrend /\ enquiry'.ranked = nobody
    BY <2>1
  <2>4. QED
    BY <2>2, <2>3, NoTrendIsProper DEF RanksAreProper
<1>2. ASSUME NEW l \in Learners, fetch_student_trend(l) PROVE RanksAreProper'
  <2> DEFINE trend == [of |-> l, rows |-> TrendRows(school, l, 1, school.today)]
  <2>1. DropoutHolds /\ enquiryOf("dropout")
    BY <1>2, NoEnquiryIsNone DEF fetch_student_trend
  <2>2. enquiry' = TrendOf(enquiry, enquiry.left \ {l}, trend)
    BY <1>2 DEF fetch_student_trend, TrendOf
  <2>3. trend.rows = TrendRows(school, l, 1, school.today)
    OBVIOUS
  <2> HIDE DEF trend
  <2>4. enquiry' = [about |-> "dropout", page |-> enquiry.page, left |-> enquiry.left \ {l},
                    trend |-> trend, ranked |-> enquiry.ranked]
    <3>1. enquiry = [about |-> "dropout", page |-> enquiry.page, left |-> enquiry.left,
                     trend |-> enquiry.trend, ranked |-> enquiry.ranked]
      BY <2>1 DEF DropoutHolds
    <3>2. QED
      BY <2>2, <3>1, TrendSet
  <2>5. enquiry'.trend = trend /\ enquiry'.ranked = enquiry.ranked
    BY <2>4
  <2>6. Trend(trend.rows)
    BY <2>3, ReadsAreProper DEF EnquiryInvariant
  <2>7. QED
    BY <2>1, <2>5, <2>6 DEF RanksAreProper
<1>3. ASSUME fetch_invoices PROVE RanksAreProper'
  <2> DEFINE of == enquiry.trend.of
             ranked(risk) == [l \in DOMAIN enquiry.ranked \cup {of} |->
                                 IF l = of THEN risk ELSE enquiry.ranked[l]]
  <2>1. DropoutHolds /\ enquiryOf("dropout") /\ Trend(enquiry.trend.rows)
        /\ \A l \in DOMAIN enquiry.ranked : ProperRisk(enquiry.ranked[l])
    BY <1>3, NoEnquiryIsNone DEF fetch_invoices, RanksAreProper
  <2>2. PICK bills \in {BillsOf(school, of), {}} : \E risk \in Risks(enquiry.trend.rows, bills) :
            enquiry' = RankedOf(enquiry, NoTrend, ranked(risk))
    BY <1>3 DEF fetch_invoices, RankedOf
  <2>3. PICK risk \in Risks(enquiry.trend.rows, bills) :
            enquiry' = RankedOf(enquiry, NoTrend, ranked(risk))
    BY <2>2
  <2>4. ProperRisk(risk)
    <3>1. Bills(bills)
      BY ReadsAreProper, NoTrendIsProper DEF EnquiryInvariant
    <3>2. QED
      BY <2>1, <2>3, <3>1, RisksAreProper
  <2>5. \A l \in DOMAIN ranked(risk) : ProperRisk(ranked(risk)[l])
    BY <2>1, <2>4
  <2> HIDE DEF ranked
  <2>6. enquiry' = [about |-> "dropout", page |-> enquiry.page, left |-> enquiry.left,
                    trend |-> NoTrend, ranked |-> ranked(risk)]
    <3>1. enquiry = [about |-> "dropout", page |-> enquiry.page, left |-> enquiry.left,
                     trend |-> enquiry.trend, ranked |-> enquiry.ranked]
      BY <2>1 DEF DropoutHolds
    <3>2. QED
      BY <2>3, <3>1, RankedSet
  <2>7. enquiry'.trend = NoTrend /\ enquiry'.ranked = ranked(risk)
    BY <2>6
  <2>8. QED
    BY <2>5, <2>7, NoTrendIsProper DEF RanksAreProper
<1>4. ASSUME (\E actor, event : Opens(event, actor)) \/ Locates \/ _write_rows
      PROVE  RanksAreProper'
  <2>1. enquiry'.about = "archive"
    <3>1. ASSUME NEW actor, NEW event, Opens(event, actor) PROVE enquiry'.about = "archive"
      BY <3>1 DEF Opens
    <3>2. ASSUME Locates PROVE enquiry'.about = "archive"
      <4>1. ArchiveHolds
        BY <3>2, NoEnquiryIsNone DEF Locates
      <4>2. PICK f, c : enquiry' = FilesOf(enquiry, f, c)
        BY <3>2 DEF Locates, FilesOf
      <4>3. enquiry' = [about |-> "archive", of |-> enquiry.of, files |-> f, children |-> c,
                        done |-> enquiry.done]
        <5>1. enquiry = [about |-> "archive", of |-> enquiry.of, files |-> enquiry.files,
                         children |-> enquiry.children, done |-> enquiry.done]
          BY <4>1 DEF ArchiveHolds
        <5>2. QED
          BY <4>2, <5>1, FilesSet
      <4>4. QED
        BY <4>3
    <3>3. ASSUME _write_rows PROVE enquiry'.about = "archive"
      <4>1. ArchiveHolds
        BY <3>3, NoEnquiryIsNone DEF _write_rows
      <4>2. PICK done : enquiry' = [enquiry EXCEPT !.done = done]
        BY <3>3 DEF _write_rows
      <4>3. QED
        BY <4>1, <4>2 DEF ArchiveHolds
    <3>4. QED
      BY <1>4, <3>1, <3>2, <3>3
  <2>2. QED
    BY <2>1 DEF RanksAreProper, enquiryOf
<1>5. ASSUME SchoolCommits \/ UNCHANGED schoolVars PROVE RanksAreProper'
  <2>1. enquiry' = enquiry
    BY <1>5 DEF SchoolCommits, MarkAttendance, PayBill, NewPaper, SaveMark, Leaves, TakeIn,
                PutInClass, LinkGuardian, NewGuardian, Commit, schoolVars
  <2>2. QED
    BY <2>1 DEF RanksAreProper, enquiryOf
<1>6. QED
  <2>1. ASSUME NEW size \in Nat, list_active_students(size) PROVE \E page : RankThe(page)
    BY <2>1 DEF list_active_students
  <2>2. QED
    BY <1>1, <1>2, <1>3, <1>4, <1>5, <2>1
       DEF EnquiryNext, dropout_student_detail, export_school, export_parent_data

\* The summary.
BandOf(ranked) == [l \in DOMAIN ranked |-> ranked[l].band]
With(ranked, c) == {l \in DOMAIN ranked : c \in ranked[l].signals}
LEMMA SummaryAgrees ==
  ASSUME NEW ranked, IsFiniteSet(DOMAIN ranked), \A l \in DOMAIN ranked : ProperRisk(ranked[l])
  PROVE  LET answer == dropout_summary(ranked)
             n == Cardinality(DOMAIN ranked)
         IN /\ SumOf(answer.bands) = n
            /\ answer.at_risk = n - answer.bands["LOW"]
            /\ \A kind \in KindsOfSignal :
                   SumOf([c \in kind \cap DOMAIN answer.frequency |-> answer.frequency[c]]) <= n
<1> DEFINE D == DOMAIN ranked
           h == BandOf(ranked)
           bands == dropout_summary(ranked).bands
           freq == dropout_summary(ranked).frequency
           n == Cardinality(D)
           low == KeyIs(D, h, "LOW")
           risky == {l \in D : ranked[l].band # "LOW"}
<1>1. /\ bands = [b \in DOMAIN BANDS |-> Cardinality({l \in D : ranked[l].band = b})]
      /\ dropout_summary(ranked).at_risk = Cardinality(risky)
      /\ freq = [c \in UNION {ranked[l].signals : l \in D} |-> Cardinality(With(ranked, c))]
  BY DEF dropout_summary, With
<1>2. /\ DOMAIN h = D /\ \A l \in D : h[l] = ranked[l].band
  BY DEF BandOf
<1>3. DOMAIN bands = DOMAIN BANDS /\ \A b \in DOMAIN BANDS : bands[b] = Cardinality(KeyIs(D, h, b))
  BY <1>1, <1>2 DEF KeyIs
<1>4. /\ IsFiniteSet(D) /\ n \in Nat /\ KeyIn(D, h, DOMAIN BANDS) = D
      /\ IsFiniteSet(low) /\ Cardinality(low) \in Nat /\ low \subseteq D
      /\ risky = D \ low
  BY <1>2, FS_Subset, FS_CardinalityType DEF KeyIn, KeyIs, ProperRisk
<1>5. IsFiniteSet(DOMAIN BANDS) /\ "LOW" \in DOMAIN BANDS
  <2>1. DOMAIN BANDS = {"LOW", "MEDIUM", "HIGH", "CRITICAL"}
    BY DEF BANDS
  <2>2. IsFiniteSet({"LOW", "MEDIUM", "HIGH", "CRITICAL"})
    BY FewAreFinite, Zenon
  <2>3. QED
    BY <2>1, <2>2
<1> HIDE DEF D, h, bands, freq, low, risky
<1>6. SumOf(bands) = n
  BY <1>3, <1>4, <1>5, SumOfGroups
<1>7. Cardinality(risky) = n - bands["LOW"]
  <2>1. Cardinality(D \ low) = n - Cardinality(D \cap low)
    BY <1>4, FS_Difference
  <2>2. D \cap low = low /\ bands["LOW"] = Cardinality(low)
    BY <1>3, <1>4, <1>5 DEF low
  <2>3. QED
    BY <1>4, <2>1, <2>2
<1>8. ASSUME NEW kind \in KindsOfSignal
      PROVE  SumOf([c \in kind \cap DOMAIN freq |-> freq[c]]) <= n
  <2> DEFINE K == kind \cap DOMAIN freq
             P == [c \in K |-> With(ranked, c)]
             f == [c \in K |-> freq[c]]
  <2>1. IsFiniteSet(kind)
    <3>1. CASE kind = {"CONSEC_ABSENT_10", "CONSEC_ABSENT_5", "CONSEC_ABSENT_3"}
      BY <3>1, FewAreFinite, Zenon
    <3>2. CASE kind = {"RATE_BELOW_50", "RATE_BELOW_65", "RATE_BELOW_80"}
      BY <3>2, FewAreFinite, Zenon
    <3>3. CASE kind = {"FEES_OVERDUE_60", "FEES_OVERDUE_30"}
      BY <3>3, FewAreFinite, Zenon
    <3>4. QED
      BY <1>8, <3>1, <3>2, <3>3 DEF KindsOfSignal
  <2>2. IsFiniteSet(K)
    BY <2>1, FS_Subset
  <2>3. \A c \in K : With(ranked, c) \subseteq D /\ freq[c] = Cardinality(With(ranked, c))
    BY <1>1 DEF With, D
  <2>4. \A c, d \in K : c # d => With(ranked, c) \cap With(ranked, d) = {}
    BY <1>8 DEF With, ProperRisk
  <2>5. DOMAIN f = K /\ \A c \in K : f[c] = freq[c] /\ P[c] = With(ranked, c)
    OBVIOUS
  <2> HIDE DEF K, P, f
  <2>6. \A c \in K : IsFiniteSet(P[c]) /\ f[c] = Cardinality(P[c])
    BY <1>4, <2>3, <2>5, FS_Subset
  <2>7. SumOver(f, K) = Cardinality(Pool(P, K))
    BY <2>2, <2>4, <2>5, <2>6, CountCover
  <2>8. Pool(P, K) \subseteq D
    BY <2>3, <2>5 DEF Pool
  <2>9. Cardinality(Pool(P, K)) <= n
    BY <1>4, <2>8, FS_Subset
  <2>10. SumOf(f) <= n
    BY <2>5, <2>7, <2>9, SumOfIs
  <2>11. QED
    BY <2>10 DEF f, K
<1>9. QED
  BY <1>1, <1>6, <1>7, <1>8 DEF bands, freq, D

\* There is an order by score: the learner of the least of them last.
LEMMA SortedIs ==
  ASSUME NEW ranked, NEW rows, IsFiniteSet(rows), \A l \in rows : ranked[l].score \in Int
  PROVE  /\ Sorted(ranked, rows) \in Injection(1..Cardinality(rows), rows)
         /\ \A i, j \in DOMAIN Sorted(ranked, rows) : i < j =>
                ranked[Sorted(ranked, rows)[i]].score >= ranked[Sorted(ranked, rows)[j]].score
<1> DEFINE Falls(s) == \A i, j \in DOMAIN s : i < j => ranked[s[i]].score >= ranked[s[j]].score
           Ordered(t) == \E s \in Injection(1..Cardinality(t), t) : Falls(s)
           B == {t \in SUBSET rows : ~Ordered(t)}
<1>1. Ordered({})
  <2> DEFINE nobody == [i \in {} |-> Nil]
  <2>1. Cardinality({}) = 0 /\ 1..0 = {}
    BY FS_EmptySet
  <2>2. nobody \in Injection({}, {}) /\ Falls(nobody)
    BY DEF Injection, IsInjective
  <2>3. QED
    BY <2>1, <2>2
<1>2. SUFFICES ASSUME B # {} PROVE FALSE
  <2>1. Ordered(rows)
    BY <1>2
  <2>2. \E s \in Injection(1..Cardinality(rows), rows) :
            \A i, j \in DOMAIN s : i < j => ranked[s[i]].score >= ranked[s[j]].score
    BY <2>1
  <2>3. QED
    BY <2>2 DEF Sorted
<1>3. PICK t \in B : \A u \in B : u \subseteq t => u = t
  <2>1. B \subseteq SUBSET rows
    OBVIOUS
  <2> HIDE DEF B
  <2>2. QED
    BY <1>2, <2>1, LeastSubset
<1>4. t \subseteq rows /\ t # {} /\ ~Ordered(t) /\ IsFiniteSet(t)
  <2>1. t \subseteq rows /\ ~Ordered(t)
    OBVIOUS
  <2> HIDE DEF Ordered, B
  <2>2. QED
    BY <1>1, <2>1, FS_Subset
<1>5. PICK x \in t : \A y \in t : ranked[y].score >= ranked[x].score
  <2> DEFINE f == [l \in t |-> 0 - ranked[l].score]
             S == ImageOf(f, t)
  <2>1. S \subseteq Int /\ S # {}
    BY <1>4 DEF ImageOf
  <2>2. \A l \in t : f[l] = 0 - ranked[l].score /\ f[l] \in S /\ ranked[l].score \in Int
    BY <1>4 DEF ImageOf
  <2>3. \A n \in S : \E l \in t : n = f[l]
    BY DEF ImageOf
  <2> HIDE DEF f
  <2>4. IsFiniteSet(S)
    BY <1>4, ImageIsFinite
  <2> HIDE DEF S
  <2>5. Max(S) \in S /\ \A n \in S : Max(S) >= n
    BY <2>1, <2>4, MaxIsIn
  <2>6. PICK x \in t : Max(S) = f[x]
    BY <2>3, <2>5
  <2>7. \A y \in t : f[x] >= f[y]
    BY <2>2, <2>5, <2>6
  <2>8. QED
    BY <2>2, <2>7
<1> DEFINE u == t \ {x}
           n == Cardinality(u)
<1>6. Ordered(u)
  <2>1. u \subseteq t /\ u # t /\ u \in SUBSET rows
    BY <1>4
  <2>2. QED
    BY <1>3, <2>1
<1>7. n \in Nat /\ Cardinality(t) = n + 1
  <2>1. Cardinality(u) = Cardinality(t) - 1 /\ Cardinality(t) \in Nat /\ IsFiniteSet(u)
    BY <1>4, FS_RemoveElement, FS_CardinalityType
  <2>2. n \in Nat
    BY <2>1, FS_CardinalityType
  <2>3. QED
    BY <2>1, <2>2
<1>8. PICK s \in Injection(1..n, u) : Falls(s)
  BY <1>6
<1>9. s \in [1..n -> u] /\ \A i, j \in 1..n : s[i] = s[j] => i = j
  BY DEF Injection, IsInjective
<1> DEFINE last == n + 1
           longer == [i \in 1..last |-> IF i = last THEN x ELSE s[i]]
<1> HIDE DEF n
<1>10. \A i \in 1..last : i = last \/ (i \in 1..n /\ i < last)
  BY <1>7
<1>11. longer \in Injection(1..last, t)
  <2>1. longer \in [1..last -> t]
    BY <1>9, <1>10
  <2>2. \A i, j \in 1..last : longer[i] = longer[j] => i = j
    BY <1>9, <1>10
  <2>3. QED
    BY <2>1, <2>2 DEF Injection, IsInjective
<1>12. Falls(longer)
  <2> SUFFICES ASSUME NEW i \in 1..last, NEW j \in 1..last, i < j
      PROVE  ranked[longer[i]].score >= ranked[longer[j]].score
    OBVIOUS
  <2>1. i \in 1..n /\ longer[i] = s[i] /\ s[i] \in t
    BY <1>7, <1>9, <1>10
  <2>2. CASE j = last
    BY <1>5, <2>1, <2>2
  <2>3. CASE j # last
    <3>1. j \in 1..n /\ longer[j] = s[j]
      BY <1>10, <2>3
    <3>2. DOMAIN s = 1..n
      BY <1>9
    <3>3. QED
      BY <1>8, <2>1, <3>1, <3>2
  <2>4. QED
    BY <2>2, <2>3
<1>13. last = Cardinality(t)
  BY <1>7
<1> HIDE DEF Falls, longer, last
<1>14. Ordered(t)
  BY <1>11, <1>12, <1>13
<1>15. QED
  BY <1>4, <1>14

\* On which page, of one or of two, a learner comes.
PageNumber(n, size) == [j \in 1..n |-> IF size = 1 THEN j ELSE (j + 1) \div 2]
OnPage(n, size, i) == KeyIs(1..n, PageNumber(n, size), i)
Lesser(a, b) == IF b <= a THEN b ELSE a

LEMMA LesserIs ==
  ASSUME NEW a \in Int, NEW b \in Int
  PROVE  Min({a, b}) = Lesser(a, b)
<1>1. CASE b <= a
  BY <1>1, LesserOfTwo DEF Lesser
<1>2. CASE ~(b <= a)
  <2>1. a <= b /\ {a, b} = {b, a}
    BY <1>2
  <2>2. Min({b, a}) = a
    BY <2>1, LesserOfTwo
  <2>3. QED
    BY <1>2, <2>1, <2>2 DEF Lesser
<1>3. QED
  BY <1>1, <1>2

LEMMA HalfIs ==
  ASSUME NEW j \in Nat, NEW i \in Nat
  PROVE  (j + 1) \div 2 = i <=> 2 * i <= j + 1 /\ j <= 2 * i
OBVIOUS

LEMMA PageIsInterval ==
  ASSUME NEW n \in Nat, NEW size \in 1..2, NEW i \in Nat \ {0}
  PROVE  /\ OnPage(n, size, i) = ((i - 1) * size + 1)..Lesser(i * size, n)
         /\ \A j \in 1..n : PageNumber(n, size)[j] \in 1..n
<1>1. \A j \in 1..n : (j + 1) \div 2 = i <=> 2 * i <= j + 1 /\ j <= 2 * i
  BY HalfIs
<1>2. \A j \in 1..n : (j + 1) \div 2 \in 1..n
  OBVIOUS
<1>3. CASE size = 1
  <2>1. (i - 1) * size + 1 = i /\ i * size = i
    BY <1>3
  <2>2. OnPage(n, size, i) = {j \in 1..n : j = i}
    BY <1>3 DEF OnPage, KeyIs, PageNumber
  <2>3. {j \in 1..n : j = i} = i..Lesser(i, n)
    BY DEF Lesser
  <2>4. QED
    BY <1>3, <2>1, <2>2, <2>3 DEF PageNumber
<1>4. CASE size = 2
  <2>1. (i - 1) * size + 1 = 2 * i - 1 /\ i * size = 2 * i
    BY <1>4
  <2>2. OnPage(n, size, i) = {j \in 1..n : (j + 1) \div 2 = i}
    BY <1>4 DEF OnPage, KeyIs, PageNumber
  <2>3. {j \in 1..n : (j + 1) \div 2 = i} = (2 * i - 1)..Lesser(2 * i, n)
    <3>1. {j \in 1..n : (j + 1) \div 2 = i} = {j \in 1..n : 2 * i <= j + 1 /\ j <= 2 * i}
      BY <1>1
    <3>2. {j \in 1..n : 2 * i <= j + 1 /\ j <= 2 * i} = (2 * i - 1)..Lesser(2 * i, n)
      BY DEF Lesser
    <3>3. QED
      BY <3>1, <3>2
  <2>4. QED
    BY <1>2, <1>4, <2>1, <2>2, <2>3 DEF PageNumber
<1>5. QED
  BY <1>3, <1>4

\* The learners of a band, or all.
OfBand(ranked, band) == {l \in DOMAIN ranked : band \in {Nil, ranked[l].band}}

LEMMA BandIsFinite ==
  ASSUME NEW ranked, IsFiniteSet(DOMAIN ranked), \A l \in DOMAIN ranked : ProperRisk(ranked[l]),
         NEW band
  PROVE  /\ IsFiniteSet(OfBand(ranked, band)) /\ Cardinality(OfBand(ranked, band)) \in Nat
         /\ \A l \in OfBand(ranked, band) : ranked[l].score \in Int
<1>1. OfBand(ranked, band) \subseteq DOMAIN ranked
  BY DEF OfBand
<1>2. \A l \in OfBand(ranked, band) : ranked[l].score \in Int
  BY <1>1 DEF ProperRisk
<1>3. QED
  BY <1>1, <1>2, FS_Subset, FS_CardinalityType

\* A page holds the learners of its number; there is another if some come after it.
PageFits(page, rows, sorted, size, i) ==
    LET n == Cardinality(rows)
    IN /\ Len(page.data) = Cardinality(OnPage(n, size, i))
       /\ ToSet(page.data) = ImageOf(sorted, OnPage(n, size, i))
       /\ (page.data # <<>>) = ((i - 1) * size < n)
       /\ page.has_next = (i * size < n)
LEMMA PageIs ==
  ASSUME NEW ranked, IsFiniteSet(DOMAIN ranked), \A l \in DOMAIN ranked : ProperRisk(ranked[l]),
         NEW band, NEW size \in 1..2, NEW i \in Nat \ {0}
  PROVE  PageFits(dropout_students(ranked, band, i, size), OfBand(ranked, band),
                  Sorted(ranked, OfBand(ranked, band)), size, i)
<1> DEFINE rows == OfBand(ranked, band)
           n == Cardinality(rows)
           sorted == Sorted(ranked, rows)
           page == dropout_students(ranked, band, i, size)
           first == (i - 1) * size + 1
           last == Lesser(i * size, n)
<1>1. IsFiniteSet(rows) /\ n \in Nat /\ \A l \in rows : ranked[l].score \in Int
  BY BandIsFinite
<1>2. sorted \in [1..n -> rows] /\ Len(sorted) = n
  <2>1. sorted \in Injection(1..n, rows)
    BY <1>1, SortedIs
  <2> HIDE DEF n, sorted, rows
  <2>2. sorted \in [1..n -> rows]
    BY <2>1 DEF Injection
  <2>3. QED
    BY <1>1, <2>2
<1>3. /\ page.data = SubSeq(sorted, first, Min({i * size, Len(sorted)}))
      /\ page.has_next = (i * size < Len(sorted))
  BY DEF dropout_students, OfBand
<1>4. OnPage(n, size, i) = first..last
  BY <1>1, PageIsInterval
<1> HIDE DEF rows, n, sorted, page
<1>5. /\ i * size \in Nat /\ first \in Int /\ first >= 1 /\ first <= i * size
      /\ (i - 1) * size < n <=> first <= n
  <2>1. CASE size = 1
    BY <1>1, <2>1
  <2>2. CASE size = 2
    BY <1>1, <2>2
  <2>3. QED
    BY <2>1, <2>2
<1> HIDE DEF first
<1>6. Min({i * size, n}) = last
  BY <1>1, <1>5, LesserIs
<1>7. last \in Int /\ last <= n /\ (first <= last <=> first <= n)
  BY <1>1, <1>5 DEF Lesser
<1> HIDE DEF last
<1>8. page.data = SubSeq(sorted, first, last)
  BY <1>2, <1>3, <1>6
<1>9. \A j \in first..last : sorted[j] \in rows
  <2>1. \A j \in first..last : j \in 1..n
    BY <1>1, <1>5, <1>7
  <2>2. QED
    BY <1>2, <2>1
<1>10. /\ page.data \in Seq(rows)
       /\ Len(page.data) = IF first <= last THEN last - first + 1 ELSE 0
       /\ \A k \in 1..(last - first + 1) : page.data[k] = sorted[first + k - 1]
  BY <1>5, <1>7, <1>8, <1>9, SubSeqProperties
<1>11. Len(page.data) = Cardinality(first..last)
  BY <1>5, <1>7, <1>10, FS_Interval
<1>12. ToSet(page.data) = ImageOf(sorted, first..last)
  <2>1. DOMAIN page.data = 1..Len(page.data)
    BY <1>10
  <2>2. DOMAIN page.data = IF first <= last THEN 1..(last - first + 1) ELSE {}
    BY <1>5, <1>7, <1>10, <2>1
  <2>3. CASE first <= last
    <3>1. \A k \in DOMAIN page.data : first + k - 1 \in first..last
                                      /\ page.data[k] = sorted[first + k - 1]
      BY <1>5, <1>7, <1>10, <2>2, <2>3
    <3>2. \A j \in first..last : j - first + 1 \in DOMAIN page.data
                                 /\ first + (j - first + 1) - 1 = j
      BY <1>5, <1>7, <2>2, <2>3
    <3>3. \A j \in first..last : page.data[j - first + 1] = sorted[j]
      BY <3>1, <3>2
    <3>4. QED
      BY <3>1, <3>2, <3>3 DEF ToSet, ImageOf
  <2>4. CASE ~(first <= last)
    <3>1. DOMAIN page.data = {} /\ first..last = {}
      BY <1>5, <1>7, <2>2, <2>4
    <3>2. QED
      BY <3>1 DEF ToSet, ImageOf
  <2>5. QED
    BY <2>3, <2>4
<1>13. (page.data # <<>>) = ((i - 1) * size < n)
  <2>1. page.data # <<>> <=> Len(page.data) # 0
    BY <1>10
  <2>2. Len(page.data) # 0 <=> first <= n
    BY <1>1, <1>5, <1>7, <1>10
  <2>3. QED
    BY <1>5, <2>1, <2>2
<1>14. page.has_next = (i * size < n)
  BY <1>2, <1>3
<1>15. QED
  BY <1>4, <1>11, <1>12, <1>13, <1>14 DEF PageFits, rows, n, sorted, page

PagesFit(page, rows, m) ==
    /\ UNION {ToSet(page[i].data) : i \in 1..m} = rows
    /\ SumOf([i \in 1..m |-> Len(page[i].data)]) = Cardinality(rows)
    /\ \A i \in 1..m : page[i].has_next = (page[i + 1].data # <<>>)
LEMMA PagesAgree ==
  ASSUME NEW ranked, IsFiniteSet(DOMAIN ranked), \A l \in DOMAIN ranked : ProperRisk(ranked[l]),
         NEW band, NEW size \in 1..2, NEW m \in Nat, Cardinality(OfBand(ranked, band)) <= m
  PROVE  PagesFit([i \in 1..m \cup {m + 1} |-> dropout_students(ranked, band, i, size)],
                  OfBand(ranked, band), m)
<1> DEFINE rows == OfBand(ranked, band)
           n == Cardinality(rows)
           sorted == Sorted(ranked, rows)
           page == [i \in 1..m \cup {m + 1} |-> dropout_students(ranked, band, i, size)]
           h == PageNumber(n, size)
           sizes == [i \in 1..m |-> Len(page[i].data)]
<1>1. IsFiniteSet(rows) /\ n \in Nat /\ n <= m /\ \A l \in rows : ranked[l].score \in Int
  BY BandIsFinite
<1>2. \A i \in 1..m \cup {m + 1} :
          /\ i \in Nat \ {0} /\ page[i] = dropout_students(ranked, band, i, size)
  OBVIOUS
<1> HIDE DEF page
<1>3. \A i \in 1..m \cup {m + 1} :
          /\ Len(page[i].data) = Cardinality(OnPage(n, size, i))
          /\ ToSet(page[i].data) = ImageOf(sorted, OnPage(n, size, i))
          /\ (page[i].data # <<>>) = ((i - 1) * size < n)
          /\ page[i].has_next = (i * size < n)
  <2> SUFFICES ASSUME NEW i \in 1..m \cup {m + 1}
      PROVE  PageFits(page[i], rows, sorted, size, i)
    BY DEF PageFits
  <2>1. i \in Nat \ {0} /\ page[i] = dropout_students(ranked, band, i, size)
    BY <1>2
  <2>2. QED
    BY <2>1, PageIs
<1>4. \A l \in rows : \E j \in 1..n : sorted[j] = l
  <2>1. sorted \in Injection(1..n, rows)
    BY <1>1, SortedIs
  <2>2. IsFiniteSet(1..n) /\ Cardinality(1..n) = n
    BY <1>1, FS_Interval
  <2> HIDE DEF n, sorted
  <2>3. Cardinality(1..n) = Cardinality(rows)
    BY <2>2 DEF n
  <2>4. sorted \in Surjection(1..n, rows)
    BY <1>1, <2>1, <2>3, FS_Injection
  <2>5. QED
    BY <2>4 DEF Surjection
<1>5. \A j \in 1..n : sorted[j] \in rows
  <2>1. sorted \in Injection(1..n, rows)
    BY <1>1, SortedIs
  <2> HIDE DEF n, sorted
  <2>2. QED
    BY <2>1 DEF Injection
<1>6. \A j \in 1..n : h[j] \in 1..m
  <2>1. \A j \in 1..n : h[j] \in 1..n
    <3>1. 1 \in Nat \ {0}
      OBVIOUS
    <3> HIDE DEF n
    <3>2. QED
      BY <1>1, <3>1, PageIsInterval
  <2>2. QED
    BY <1>1, <2>1
<1> HIDE DEF rows, n, sorted, h
<1>7. \A i \in 1..m : OnPage(n, size, i) = KeyIs(1..n, h, i)
  BY DEF OnPage, h
<1>8. UNION {ToSet(page[i].data) : i \in 1..m} = rows
  <2>1. ASSUME NEW i \in 1..m PROVE ToSet(page[i].data) \subseteq rows
    <3>1. ToSet(page[i].data) = ImageOf(sorted, KeyIs(1..n, h, i))
      BY <1>3, <1>7
    <3>2. KeyIs(1..n, h, i) \subseteq 1..n
      BY DEF KeyIs
    <3>3. QED
      BY <1>5, <3>1, <3>2 DEF ImageOf
  <2>2. ASSUME NEW l \in rows PROVE \E i \in 1..m : l \in ToSet(page[i].data)
    <3>1. PICK j \in 1..n : sorted[j] = l
      BY <1>4
    <3>2. h[j] \in 1..m /\ j \in KeyIs(1..n, h, h[j])
      BY <1>6 DEF KeyIs
    <3>3. l \in ImageOf(sorted, KeyIs(1..n, h, h[j]))
      BY <3>1, <3>2 DEF ImageOf
    <3>4. QED
      BY <1>3, <1>7, <3>2, <3>3
  <2>3. QED
    BY <2>1, <2>2
<1>9. SumOf(sizes) = n
  <2>1. DOMAIN sizes = 1..m /\ \A i \in 1..m : sizes[i] = Cardinality(KeyIs(1..n, h, i))
    BY <1>3, <1>7
  <2> HIDE DEF sizes
  <2>2. IsFiniteSet(1..m) /\ IsFiniteSet(1..n) /\ Cardinality(1..n) = n
    BY <1>1, FS_Interval
  <2>3. SumOf(sizes) = Cardinality(KeyIn(1..n, h, 1..m))
    BY <2>1, <2>2, SumOfGroups
  <2>4. KeyIn(1..n, h, 1..m) = 1..n
    BY <1>6 DEF KeyIn
  <2>5. QED
    BY <2>2, <2>3, <2>4
<1>10. \A i \in 1..m : page[i].has_next = (page[i + 1].data # <<>>)
  <2> SUFFICES ASSUME NEW i \in 1..m PROVE page[i].has_next = (page[i + 1].data # <<>>)
    OBVIOUS
  <2>1. i + 1 \in 1..m \cup {m + 1} /\ i \in 1..m \cup {m + 1} /\ (i + 1) - 1 = i
    OBVIOUS
  <2>2. page[i].has_next = (i * size < n)
    BY <1>3, <2>1
  <2>3. (page[i + 1].data # <<>>) = ((i + 1 - 1) * size < n)
    BY <1>3, <2>1
  <2>4. QED
    BY <2>1, <2>2, <2>3
<1>11. QED
  BY <1>8, <1>9, <1>10 DEF PagesFit, page, rows, n, sizes

LEMMA DropoutAgreesNow ==
  ASSUME EnquiryInvariant, RanksAreProper
  PROVE  DropoutAgrees
<1> SUFFICES ASSUME Ranked PROVE DropoutAgrees
  BY DEF DropoutAgrees
<1> DEFINE ranked == enquiry.ranked
           n == Cardinality(DOMAIN ranked)
           m == Cardinality(Learners)
<1>1. DropoutHolds /\ enquiryOf("dropout")
  BY NoEnquiryIsNone DEF Ranked
<1>2. DOMAIN ranked = enquiry.page /\ DOMAIN ranked \subseteq Learners
      /\ \A l \in DOMAIN ranked : ProperRisk(ranked[l])
  BY <1>1 DEF DropoutHolds, Ranked, RanksAreProper
<1> HIDE DEF ranked
<1>3. IsFiniteSet(DOMAIN ranked) /\ m \in Nat
      /\ \A S \in SUBSET Learners : Cardinality(S) <= m
  BY <1>2, ReportsAssumption, FS_Subset, FS_CardinalityType
<1>4. \A band : OfBand(ranked, band) \subseteq Learners /\ Cardinality(OfBand(ranked, band)) <= m
  BY <1>2, <1>3 DEF OfBand
<1> HIDE DEF m
<1>5. LET answer == dropout_summary(ranked)
      IN /\ SumOf(answer.bands) = n
         /\ answer.at_risk = n - answer.bands["LOW"]
         /\ \A kind \in KindsOfSignal :
                SumOf([c \in kind \cap DOMAIN answer.frequency |-> answer.frequency[c]]) <= n
  BY <1>2, <1>3, SummaryAgrees
<1>6. ASSUME NEW b, NEW size \in 1..2
      PROVE  PagesFit([i \in 1..m \cup {m + 1} |-> dropout_students(ranked, b, i, size)],
                      OfBand(ranked, b), m)
  BY <1>2, <1>3, <1>4, PagesAgree
<1>7. QED
  BY <1>2, <1>5, <1>6 DEF DropoutAgrees, PagesFit, OfBand, m, ranked

\* In any school, and whatever is committed while a dropout report is made: being there or
\* paying a bill never raises a risk and every score has its band; and the summary counts
\* every learner it lists in one band and for at most one signal of a kind, while the pages
\* of a band are its learners, each once, with another page announced exactly when there is
\* one (dropout_engine.py:30-161, reports_query.py:128-232).
THEOREM DropoutsAlwaysAgree == ReportsSpec => []DropoutsAgree
<1> DEFINE Inv == EnquiryInvariant /\ RanksAreProper
<1>1. ReportsInit /\ SchoolTypeOK => Inv
  <2>1. NoEnquiry.about = "none"
    BY DEF NoEnquiry
  <2>2. QED
    BY <2>1 DEF ReportsInit, EnquiryInvariant, RanksAreProper, enquiryOf
<1>2. Inv /\ [EnquiryNext \/ SchoolCommits]_schoolVars => Inv'
  BY EnquiryStepKeeps, RanksStayProper
<1>3. Inv => DropoutsAgree
  <2> SUFFICES ASSUME EnquiryInvariant, RanksAreProper PROVE DropoutsAgree
    OBVIOUS
  <2>1. School(school) /\ IsFiniteSet(school.bill) /\ school.bill \subseteq BillRow
    BY SchoolIsTyped DEF EnquiryInvariant, School, SchoolTypeOK
  <2>2. QED
    BY <2>1, RisksAreFairNow, DropoutAgreesNow DEF DropoutsAgree
<1>4. QED
  BY <1>1, <1>2, <1>3, PTL DEF ReportsSpec

\* In any school and whatever it commits, its reports agree with each other and with its
\* rows, and enquiries of several steps with what was read in each
\* (assessment_service.py:186-483, reports_query.py:128-232, export_routes.py:60-304).
THEOREM SchoolReportsAlwaysAgree == ReportsSpec => []SchoolReportsAgree
<1>1. ReportsAgree /\ EnquiriesAgree /\ DropoutsAgree => SchoolReportsAgree
  BY DEF SchoolReportsAgree
<1>2. QED
  BY <1>1, ReportsAlwaysAgree, EnquiriesAlwaysAgree, DropoutsAlwaysAgree, PTL

================================================================================
