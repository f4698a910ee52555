-------------------------- MODULE CurriculumAdoption --------------------------
(* One national subject and one school's copy of it (academics service):      *)
(* national_curriculum_routes.py, curriculum_routes.py, bulk_curriculum.py.   *)
(* The Ministry authors a tree of units and topics and publishes versions of  *)
(* it; the school clones it (adopt), adds rows of its own, and pulls newer    *)
(* versions (upgrade).  A row is named by its code path: codes are unique in  *)
(* their parent row, on both sides, and no handler changes one.  The columns  *)
(* copied by an upgrade (name, order, level, outcomes) are one value, attr.   *)
(* A request that reads and later writes is two steps; at most MaxVersion     *)
(* versions are published.                                                    *)
EXTENDS Naturals
CONSTANTS Units, Topics,      \* codes of units, codes of topics
          UnitOf,             \* the unit a topic code belongs to
          NoRow, NoParent, Attrs, MaxVersion,
          Ministers, Offices  \* requests in flight, of the Ministry and of the school

Keys == Units \cup Topics
NationalRow == [attr : Attrs, parent : Topics \cup {NoParent}]
LocalRow == [linked : BOOLEAN, attr : Attrs, parent : Topics \cup {NoParent}]

ASSUME CurriculumAssumption ==
    /\ Units \cap Topics = {} /\ UnitOf \in [Topics -> Units]
    /\ NoParent \notin Topics
    /\ NoRow \notin NationalRow \cup LocalRow
    /\ MaxVersion \in Nat \ {0}
    /\ Ministers \cap Offices = {}

VARIABLES national,   \* code -> row of the national tree, or NoRow
          version, published,
          copy,       \* code -> row of the school's tree, or NoRow
          subject,    \* the school's subject row: kind and adopted version
          request,    \* what a request has read so far
          released    \* history: version -> codes in the tree when it was first published
vars == <<national, version, published, copy, subject, request, released>>
ministry == <<national, version, published, released>>
school == <<copy, subject>>

Versions == 1..MaxVersion
Idle == [op |-> "none"]
Requests == [op : {"none"}] \cup [op : {"adopt", "republish"}, at : Versions]
            \cup [op : {"upgrade"}, at : Versions, saw : [Keys -> LocalRow \cup {NoRow}]]

Present(rows, k) == rows[k] # NoRow
Linked(rows, k) == Present(rows, k) /\ rows[k].linked
Siblings(k) == {t \in Topics : UnitOf[t] = UnitOf[k]}

\* The parent a topic may name: a topic that exists in its own unit.
ParentsIn(rows, k) == {NoParent} \cup
    IF k \in Units THEN {} ELSE {t \in Siblings(k) : Present(rows, t)}
\* The checks of the create handlers: the unit exists and the code is free.
MayCreate(rows, k) == ~Present(rows, k) /\ (k \in Topics => Present(rows, UnitOf[k]))

CurriculumInit ==
    /\ national = [k \in Keys |-> NoRow] /\ version = 1 /\ published = FALSE
    /\ copy = [k \in Keys |-> NoRow] /\ subject = [kind |-> "none", at |-> 0]
    /\ request = [r \in Ministers \cup Offices |-> Idle]
    /\ released = [v \in {} |-> {}]

------------------------------------------------------------------------------
\* The Ministry.

CreateNational(k, a) ==
    /\ MayCreate(national, k)
    /\ \E p \in ParentsIn(national, k) :
           national' = [national EXCEPT ![k] = [attr |-> a, parent |-> p]]
    /\ UNCHANGED <<version, published, released, school, request>>

\* Slip: the import keeps a parent it did not find.
ImportKeepsParent(k, a) ==
    /\ k \in Topics /\ Present(national, k)
    /\ \E p \in Siblings(k) :
           national' = [national EXCEPT ![k] = [attr |-> a, parent |-> p]]
    /\ UNCHANGED <<version, published, released, school, request>>

\* One row of a national CSV: the columns of an existing row are overwritten, and a
\* parent that is not found in the unit is dropped.
ImportNational(k, a) ==
    /\ k \in Topics => Present(national, UnitOf[k])
    /\ Present(national, k)
    /\ \E p \in ParentsIn(national, k) :
           national' = [national EXCEPT ![k] = [attr |-> a, parent |-> p]]
    /\ UNCHANGED <<version, published, released, school, request>>

Tree == {k \in Keys : Present(national, k)}
Release(v) ==
    released' = [x \in DOMAIN released \cup {v} |->
                    IF x \in DOMAIN released THEN released[x] ELSE Tree]

PublishNational ==
    /\ ~published
    /\ published' = TRUE
    /\ Release(version)
    /\ UNCHANGED <<national, version, school, request>>

\* republish reads the version, adds one and writes the sum.
RepublishRead(r) ==
    /\ request[r] = Idle /\ version < MaxVersion
    /\ request' = [request EXCEPT ![r] = [op |-> "republish", at |-> version]]
    /\ UNCHANGED <<ministry, school>>

RepublishWrite(r) ==
    /\ request[r].op = "republish"
    /\ version' = request[r].at + 1
    /\ published' = TRUE
    /\ Release(version')
    /\ request' = [request EXCEPT ![r] = Idle]
    /\ UNCHANGED <<national, school>>

------------------------------------------------------------------------------
\* The school.

CreateSubject ==
    /\ subject.kind = "none"
    /\ subject' = [kind |-> "own", at |-> 0]
    /\ UNCHANGED <<copy, ministry, request>>

CreateLocal(k, a) ==
    /\ subject.kind # "none"
    /\ MayCreate(copy, k)
    /\ \E p \in ParentsIn(copy, k) :
           copy' = [copy EXCEPT ![k] = [linked |-> FALSE, attr |-> a, parent |-> p]]
    /\ UNCHANGED <<subject, ministry, request>>

\* One row of the school's CSV, over a row that exists: linked rows are edited too.
ImportLocal(k, a) ==
    /\ subject.kind # "none"
    /\ Present(copy, k)
    /\ \E p \in ParentsIn(copy, k) :
           copy' = [copy EXCEPT ![k].attr = a, ![k].parent = p]
    /\ UNCHANGED <<subject, ministry, request>>

AdoptRead(r) ==
    /\ request[r] = Idle /\ published /\ subject.kind = "none"
    /\ request' = [request EXCEPT ![r] = [op |-> "adopt", at |-> version]]
    /\ UNCHANGED <<ministry, school>>

\* Slip: the clones keep no reference to the national rows.
AdoptsBareRows(r) ==
    /\ request[r].op = "adopt" /\ subject.kind = "none"
    /\ copy' = national
    /\ subject' = [kind |-> "adopted", at |-> request[r].at]
    /\ request' = [request EXCEPT ![r] = Idle]
    /\ UNCHANGED ministry

\* The unique subject code makes the second of two adoptions fail.
AdoptWrite(r) ==
    /\ request[r].op = "adopt"
    /\ IF subject.kind # "none" THEN UNCHANGED school
       ELSE /\ copy' = [k \in Keys |-> IF Present(national, k)
                           THEN [linked |-> TRUE, attr |-> national[k].attr,
                                 parent |-> national[k].parent]
                           ELSE NoRow]
            /\ subject' = [kind |-> "adopted", at |-> request[r].at]
    /\ request' = [request EXCEPT ![r] = Idle]
    /\ UNCHANGED ministry

Stale == subject.kind = "adopted" /\ published /\ subject.at < version

UpgradeRead(r) ==
    /\ request[r] = Idle /\ Stale
    /\ request' = [request EXCEPT ![r] = [op |-> "upgrade", at |-> version, saw |-> copy]]
    /\ UNCHANGED <<ministry, school>>

\* Slip: a local row with the same code is taken for the national one.
NoCollisions(saw) == {}

\* National rows that the upgrade inserts and whose code the school already uses:
\* the unique constraint aborts the whole request.
Collisions(saw) == {k \in Keys : /\ Present(national, k)
                                 /\ ~Linked(saw, k) /\ Present(copy, k)}

\* Slip: new topics come with new units only.
UpgradedUnits(saw, k) ==
    IF ~Linked(saw, k) /\ k \in Topics /\ Linked(saw, UnitOf[k]) THEN copy[k]
    ELSE IF Present(national, k)
         THEN [linked |-> TRUE, attr |-> national[k].attr, parent |-> national[k].parent]
         ELSE copy[k]

\* The row an upgrade leaves at k, from the local rows it saw.  A column that
\* needs no change is not written, so a concurrent edit of it survives.
Upgraded(saw, k) ==
    IF ~Present(national, k) THEN copy[k]
    ELSE LET nat == national[k] IN
         IF Linked(saw, k)
         THEN [copy[k] EXCEPT !.attr = IF saw[k].attr # nat.attr THEN nat.attr ELSE @,
                              !.parent = IF saw[k].parent # nat.parent THEN nat.parent ELSE @]
         ELSE [linked |-> TRUE, attr |-> nat.attr, parent |-> nat.parent]

UpgradeWrite(r) ==
    /\ request[r].op = "upgrade"
    /\ IF Collisions(request[r].saw) # {} THEN UNCHANGED school
       ELSE /\ copy' = [k \in Keys |-> Upgraded(request[r].saw, k)]
            /\ subject' = [subject EXCEPT !.at = request[r].at]
    /\ request' = [request EXCEPT ![r] = Idle]
    /\ UNCHANGED ministry

\* Slip: topics added to a unit the school already has are not counted.
PreviewAddsUnits == {k \in Units : Present(national, k) /\ ~Linked(copy, k)}

\* The preview of an upgrade: rows it lists as added and as updated.
PreviewAdds == {k \in Keys : Present(national, k) /\ ~Linked(copy, k)}
PreviewUpdates == {k \in Keys : /\ Present(national, k) /\ Linked(copy, k)
                                /\ copy[k].attr # national[k].attr}

CurriculumNext ==
    \/ PublishNational \/ CreateSubject
    \/ \E k \in Keys, a \in Attrs : \/ CreateNational(k, a) \/ ImportNational(k, a)
                                    \/ CreateLocal(k, a) \/ ImportLocal(k, a)
    \/ \E r \in Ministers : RepublishRead(r) \/ RepublishWrite(r)
    \/ \E r \in Offices : \/ AdoptRead(r) \/ AdoptWrite(r)
                          \/ UpgradeRead(r) \/ UpgradeWrite(r)

CurriculumSpec == CurriculumInit /\ [][CurriculumNext]_vars

------------------------------------------------------------------------------
\* Every variable stays in its type; the versions published are consecutive.
CurriculumTypeOK ==
    /\ national \in [Keys -> NationalRow \cup {NoRow}]
    /\ version \in Versions /\ published \in BOOLEAN
    /\ copy \in [Keys -> LocalRow \cup {NoRow}]
    /\ subject \in [kind : {"none", "own", "adopted"}, at : 0..MaxVersion]
    /\ request \in [Ministers \cup Offices -> Requests]
    /\ DOMAIN released \subseteq Versions /\ released \in [DOMAIN released -> SUBSET Keys]

\* A school that shows version v has, linked to the national row, every row the
\* Ministry had published with v: a request that read the version before the tree,
\* overlapping republishes and other upgrades never leave a hole that the version
\* comparison of the next upgrade would hide.
CurrentMeansComplete ==
    subject.kind = "adopted" =>
        /\ subject.at \in DOMAIN released
        /\ \A k \in released[subject.at] : Linked(copy, k)

\* Adopting and upgrading never touch, take over or lose a row the school added.
CustomUntouched ==
    [][\A k \in Keys : (Present(copy, k) /\ ~copy[k].linked /\ subject' # subject)
                           => copy'[k] = copy[k]]_vars

\* The parent of every topic, on both sides, is a topic of its own unit that exists,
\* after any mix of imports, creations and upgrades.
ParentsResolve ==
    \A rows \in {national, copy} : \A k \in Keys :
        Present(rows, k) => rows[k].parent \in ParentsIn(rows, k)

\* What an upgrade started and finished now would change; the preview announces it
\* all but for a parent that moves, and announces nothing the upgrade leaves alone.
PreviewForetells ==
    Stale /\ Collisions(copy) = {} =>
        LET changed == {k \in Keys : Upgraded(copy, k) # copy[k]}
            listed == PreviewAdds \cup PreviewUpdates
        IN /\ listed \subseteq changed
           /\ \A k \in changed \ listed :
                  Linked(copy, k) /\ copy[k].parent # national[k].parent
===============================================================================
