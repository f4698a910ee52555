----------------------------- MODULE AcademicsProofs ---------------------------
(***************************************************************************)
(* Proofs about CurriculumAdoption and MarkBook, for every value of their  *)
(* constants.                                                              *)
(*                                                                         *)
(* Curriculum, for any tree shape, any number of versions, ministry        *)
(* requests and school requests.  A request names a version that was       *)
(* published when it was read, whatever was published stays in the         *)
(* national tree, and a linked row of the school is never removed; so a    *)
(* request that arrives late still links every row its version promised.   *)
(*                                                                         *)
(* Marks and question bank, for any students, pages, questions and         *)
(* threads.  What a request has read is still there when it commits, and   *)
(* still the same unless another request worked on it in between.          *)
(***************************************************************************)
EXTENDS CurriculumAdoption, MarkBook, TLAPS, FiniteSetTheorems

\* What was published is still in the national tree.
ReleasesInTree == \A v \in DOMAIN released : released[v] \subseteq Tree
\* The version on show was published.
PublishedIsReleased == published => version \in DOMAIN released
\* A school without the subject has no row.
NoSubjectNoRows == subject.kind = "none" => \A k \in Keys : copy[k] = NoRow
\* What a request in flight has read is still true enough to act on.
RequestsSound == \A r \in Ministers \cup Offices :
    /\ request[r].op = "republish" => request[r].at < MaxVersion
    /\ request[r].op \in {"adopt", "upgrade"} => request[r].at \in DOMAIN released
    /\ request[r].op = "upgrade" =>
          /\ subject.kind = "adopted"
          /\ \A k \in Keys : Linked(request[r].saw, k) => Linked(copy, k)

CurriculumInv ==
    /\ CurriculumTypeOK /\ CurrentMeansComplete /\ ParentsResolve
    /\ ReleasesInTree /\ PublishedIsReleased /\ NoSubjectNoRows /\ RequestsSound

-----------------------------------------------------------------------------

\* A row of the right type is not the missing row.
LEMMA RowIsNotNoRow == NoRow \notin NationalRow /\ NoRow \notin LocalRow
BY CurriculumAssumption

\* The parents a code may name have the type of a parent.
LEMMA ParentsType ==
  ASSUME NEW rows, NEW k \in Keys
  PROVE  ParentsIn(rows, k) \subseteq Topics \cup {NoParent}
BY DEF ParentsIn, Siblings

\* More rows leave every parent available.
LEMMA ParentsGrow ==
  ASSUME NEW rows, NEW more, NEW k \in Keys,
         \A t \in Keys : Present(rows, t) => Present(more, t)
  PROVE  ParentsIn(rows, k) \subseteq ParentsIn(more, k)
BY DEF ParentsIn, Siblings, Keys

\* A publication keeps what earlier ones recorded and adds at most one version.
LEMMA ReleaseKeeps ==
  ASSUME NEW v \in Versions, Release(v), CurriculumTypeOK
  PROVE  /\ DOMAIN released' = DOMAIN released \cup {v}
         /\ \A x \in DOMAIN released : released'[x] = released[x]
         /\ \A x \in DOMAIN released' \ DOMAIN released : released'[x] = Tree
         /\ released' \in [DOMAIN released' -> SUBSET Keys]
BY DEF Release, CurriculumTypeOK, Tree

-----------------------------------------------------------------------------

LEMMA InitInv == CurriculumInit => CurriculumInv
<1> SUFFICES ASSUME CurriculumInit PROVE CurriculumInv
  OBVIOUS
<1> USE DEF CurriculumInit
<1>1. CurriculumTypeOK
  <2>1. version \in Versions /\ 0 \in 0..MaxVersion
    BY CurriculumAssumption DEF Versions
  <2>2. request \in [Ministers \cup Offices -> Requests]
    BY DEF Requests, Idle
  <2> QED
    BY <2>1, <2>2 DEF CurriculumTypeOK
<1>2. CurrentMeansComplete /\ NoSubjectNoRows
  BY DEF CurrentMeansComplete, NoSubjectNoRows
<1>3. ParentsResolve
  BY DEF ParentsResolve, Present
<1>4. ReleasesInTree /\ PublishedIsReleased
  BY DEF ReleasesInTree, PublishedIsReleased
<1>5. RequestsSound
  BY DEF RequestsSound, Idle
<1> QED
  BY <1>1, <1>2, <1>3, <1>4, <1>5 DEF CurriculumInv

\* A write of one national row, by hand or by import.
LEMMA WriteNationalInv ==
  ASSUME CurriculumInv, NEW k \in Keys, NEW a \in Attrs, NEW p \in ParentsIn(national, k),
         national' = [national EXCEPT ![k] = [attr |-> a, parent |-> p]],
         UNCHANGED <<version, published, released, school, request>>
  PROVE  CurriculumInv'
<1> USE DEF CurriculumInv, school
<1>0. p \in Topics \cup {NoParent}
  BY ParentsType
<1>1. CurriculumTypeOK'
  BY <1>0 DEF CurriculumTypeOK, NationalRow
<1>2. \A t \in Keys : Present(national, t) => Present(national', t)
  BY <1>0, RowIsNotNoRow DEF CurriculumTypeOK, Present, NationalRow
<1>3. ParentsResolve'
  <2>1. ASSUME NEW t \in Keys, Present(national', t)
        PROVE  national'[t].parent \in ParentsIn(national', t)
    <3>0. ParentsIn(national, t) \subseteq ParentsIn(national', t)
      BY <1>2, ParentsGrow
    <3>1. CASE t = k
      BY <3>0, <3>1 DEF CurriculumTypeOK
    <3>2. CASE t # k
      <4>1. national[t].parent \in ParentsIn(national, t)
        BY <2>1, <3>2 DEF ParentsResolve, Present, CurriculumTypeOK
      <4> QED
        BY <4>1, <3>0, <3>2 DEF CurriculumTypeOK
    <3> QED
      BY <3>1, <3>2
  <2> QED
    BY <2>1 DEF ParentsResolve
<1>4. ReleasesInTree'
  BY <1>2 DEF ReleasesInTree, Tree, CurriculumTypeOK
<1>5. (/\ CurrentMeansComplete /\ PublishedIsReleased
       /\ NoSubjectNoRows /\ RequestsSound)'
  BY DEF CurrentMeansComplete, PublishedIsReleased, NoSubjectNoRows, RequestsSound
<1> QED
  BY <1>1, <1>3, <1>4, <1>5

\* A publication, the first one or a later one.
LEMMA PublicationInv ==
  ASSUME CurriculumInv, NEW v \in Versions, version' = v, published' = TRUE, Release(v),
         UNCHANGED <<national, school>>,
         request' = request \/ \E r \in Ministers : request' = [request EXCEPT ![r] = Idle]
  PROVE  CurriculumInv'
<1> USE DEF CurriculumInv, school
<1>1. /\ DOMAIN released' = DOMAIN released \cup {v}
      /\ \A x \in DOMAIN released : released'[x] = released[x]
      /\ \A x \in DOMAIN released' \ DOMAIN released : released'[x] = Tree
      /\ released' \in [DOMAIN released' -> SUBSET Keys]
  BY ReleaseKeeps
<1>2. CurriculumTypeOK'
  BY <1>1 DEF CurriculumTypeOK, Requests, Idle
<1>3. CurrentMeansComplete'
  BY <1>1 DEF CurrentMeansComplete
<1>4. ParentsResolve' /\ NoSubjectNoRows'
  BY DEF ParentsResolve, NoSubjectNoRows
<1>5. ReleasesInTree' /\ PublishedIsReleased'
  BY <1>1 DEF ReleasesInTree, PublishedIsReleased, Tree
<1>6. RequestsSound'
  <2> SUFFICES ASSUME NEW s \in Ministers \cup Offices
               PROVE  /\ request'[s].op = "republish" => request'[s].at < MaxVersion
                      /\ request'[s].op \in {"adopt", "upgrade"}
                            => request'[s].at \in DOMAIN released'
                      /\ request'[s].op = "upgrade" =>
                            /\ subject'.kind = "adopted"
                            /\ \A k \in Keys : Linked(request'[s].saw, k) => Linked(copy', k)
    BY DEF RequestsSound
  <2>1. request'[s] = request[s] \/ request'[s].op = "none"
    BY DEF CurriculumTypeOK, Idle
  <2> QED
    BY <2>1, <1>1 DEF RequestsSound
<1> QED
  BY <1>2, <1>3, <1>4, <1>5, <1>6

\* A request that reads.
LEMMA ReadInv ==
  ASSUME CurriculumInv, NEW r \in Ministers \cup Offices, NEW q \in Requests,
         request' = [request EXCEPT ![r] = q], UNCHANGED <<ministry, school>>,
         q.op = "republish" => q.at < MaxVersion,
         q.op \in {"adopt", "upgrade"} => q.at \in DOMAIN released,
         q.op = "upgrade" => subject.kind = "adopted" /\ q.saw = copy
  PROVE  CurriculumInv'
<1> USE DEF CurriculumInv, school, ministry
<1>1. CurriculumTypeOK'
  BY DEF CurriculumTypeOK
<1>2. (/\ CurrentMeansComplete /\ ParentsResolve /\ ReleasesInTree
       /\ PublishedIsReleased /\ NoSubjectNoRows)'
  BY DEF CurrentMeansComplete, ParentsResolve, ReleasesInTree, Tree, PublishedIsReleased,
         NoSubjectNoRows
<1>3. RequestsSound'
  BY DEF RequestsSound, CurriculumTypeOK
<1> QED
  BY <1>1, <1>2, <1>3

\* A write of one row of the school that keeps its link.
LEMMA WriteLocalInv ==
  ASSUME CurriculumInv, subject.kind # "none", NEW k \in Keys, NEW row \in LocalRow,
         copy' = [copy EXCEPT ![k] = row], row.parent \in ParentsIn(copy, k),
         Linked(copy, k) => row.linked,
         UNCHANGED <<subject, ministry, request>>
  PROVE  CurriculumInv'
<1> USE DEF CurriculumInv, ministry
<1>1. CurriculumTypeOK'
  BY DEF CurriculumTypeOK
<1>2. \A t \in Keys : /\ Present(copy, t) => Present(copy', t)
                      /\ Linked(copy, t) => Linked(copy', t)
  BY RowIsNotNoRow DEF CurriculumTypeOK, Present, Linked
<1>3. CurrentMeansComplete'
  BY <1>2 DEF CurrentMeansComplete, CurriculumTypeOK
<1>4. ParentsResolve'
  <2>1. ASSUME NEW t \in Keys, Present(copy', t)
        PROVE  copy'[t].parent \in ParentsIn(copy', t)
    <3>0. ParentsIn(copy, t) \subseteq ParentsIn(copy', t)
      BY <1>2, ParentsGrow
    <3>1. CASE t = k
      BY <3>0, <3>1 DEF CurriculumTypeOK
    <3>2. CASE t # k
      <4>1. copy[t].parent \in ParentsIn(copy, t)
        BY <2>1, <3>2 DEF ParentsResolve, Present, CurriculumTypeOK
      <4> QED
        BY <4>1, <3>0, <3>2 DEF CurriculumTypeOK
    <3> QED
      BY <3>1, <3>2
  <2> QED
    BY <2>1 DEF ParentsResolve
<1>5. (ReleasesInTree /\ PublishedIsReleased /\ NoSubjectNoRows)'
  BY DEF ReleasesInTree, Tree, PublishedIsReleased, NoSubjectNoRows
<1>6. RequestsSound'
  BY <1>2 DEF RequestsSound
<1> QED
  BY <1>1, <1>3, <1>4, <1>5, <1>6

\* A whole adoption: every row present in the national tree is cloned and linked.
LEMMA AdoptWriteInv ==
  ASSUME CurriculumInv, NEW r \in Offices, AdoptWrite(r)
  PROVE  CurriculumInv'
<1> USE DEF CurriculumInv, AdoptWrite, ministry
<1>0. request[r] \in Requests /\ request[r].op = "adopt" /\ request[r].at \in Versions
  <2>1. request[r] \in Requests
    BY DEF CurriculumTypeOK
  <2> QED
    BY <2>1 DEF Requests
<1>1. request[r].at \in DOMAIN released
  BY DEF RequestsSound
<1>2. CurriculumTypeOK'
  <2>1. subject'.kind \in {"none", "own", "adopted"}
           /\ subject' \in [kind : {"none", "own", "adopted"}, at : 0..MaxVersion]
    BY <1>0, CurriculumAssumption DEF CurriculumTypeOK, school, Versions
  <2>2. copy' \in [Keys -> LocalRow \cup {NoRow}]
    <3>1. ASSUME NEW k \in Keys, Present(national, k)
          PROVE  [linked |-> TRUE, attr |-> national[k].attr,
                  parent |-> national[k].parent] \in LocalRow
      BY <3>1 DEF CurriculumTypeOK, Present, NationalRow, LocalRow
    <3> QED
      BY <3>1 DEF CurriculumTypeOK, school
  <2>3. request' \in [Ministers \cup Offices -> Requests]
    BY DEF CurriculumTypeOK, Requests, Idle
  <2> QED
    BY <2>1, <2>2, <2>3 DEF CurriculumTypeOK
<1>3. ASSUME NEW s \in Ministers \cup Offices
      PROVE  request'[s] = request[s] \/ request'[s].op = "none"
  BY DEF CurriculumTypeOK, Idle
<1>4. ReleasesInTree' /\ PublishedIsReleased'
  BY DEF ReleasesInTree, Tree, PublishedIsReleased
<1>5. CASE subject.kind # "none"
  <2>1. UNCHANGED school
    BY <1>5
  <2>2. (CurrentMeansComplete /\ ParentsResolve /\ NoSubjectNoRows)'
    BY <2>1 DEF school, CurrentMeansComplete, ParentsResolve, NoSubjectNoRows
  <2>3. RequestsSound'
    BY <1>3, <2>1 DEF RequestsSound, school
  <2> QED
    BY <1>2, <1>4, <2>2, <2>3
<1>6. CASE subject.kind = "none"
  <2>0. /\ copy' = [k \in Keys |-> IF Present(national, k)
                       THEN [linked |-> TRUE, attr |-> national[k].attr,
                             parent |-> national[k].parent]
                       ELSE NoRow]
        /\ subject' = [kind |-> "adopted", at |-> request[r].at]
    BY <1>6
  <2>1. ASSUME NEW k \in Keys, Present(national, k)
        PROVE  /\ copy'[k] \in LocalRow /\ Linked(copy', k)
               /\ copy'[k].parent = national[k].parent
    <3>1. copy'[k] = [linked |-> TRUE, attr |-> national[k].attr, parent |-> national[k].parent]
      BY <2>0, <2>1
    <3>2. national[k] \in NationalRow
      BY <2>1 DEF CurriculumTypeOK, Present
    <3>3. copy'[k] \in LocalRow
      BY <3>1, <3>2 DEF NationalRow, LocalRow
    <3>4. copy'[k].linked /\ copy'[k].parent = national[k].parent
      BY <3>1
    <3> QED
      BY <3>3, <3>4, RowIsNotNoRow DEF Linked, Present
  <2>2. \A k \in Keys : Present(copy', k) <=> Present(national, k)
    BY <2>0, <2>1 DEF Linked, Present
  <2>3. CurrentMeansComplete'
    <3>1. \A k \in released[request[r].at] : k \in Keys /\ Present(national, k)
      BY <1>1 DEF ReleasesInTree, Tree
    <3> QED
      BY <2>0, <2>1, <3>1, <1>1 DEF CurrentMeansComplete
  <2>4. ParentsResolve'
    <3>1. ASSUME NEW k \in Keys, Present(copy', k)
          PROVE  copy'[k].parent \in ParentsIn(copy', k)
      <4>1. national[k].parent \in ParentsIn(national, k)
        BY <2>2, <3>1 DEF ParentsResolve
      <4>2. ParentsIn(national, k) \subseteq ParentsIn(copy', k)
        BY <2>2, ParentsGrow
      <4> QED
        BY <2>1, <2>2, <3>1, <4>1, <4>2
    <3> QED
      BY <3>1 DEF ParentsResolve
  <2>5. NoSubjectNoRows'
    BY <2>0 DEF NoSubjectNoRows
  <2>6. RequestsSound'
    <3>1. \A s \in Ministers \cup Offices : request[s].op # "upgrade"
      BY <1>6 DEF RequestsSound
    <3> QED
      BY <1>3, <3>1 DEF RequestsSound
  <2> QED
    BY <1>2, <1>4, <2>3, <2>4, <2>5, <2>6
<1> QED
  BY <1>5, <1>6

\* What an upgrade that goes through leaves at a code.
LEMMA UpgradedRow ==
  ASSUME CurriculumInv, NEW r \in Offices, request[r].op = "upgrade", NEW k \in Keys
  PROVE  LET row == Upgraded(request[r].saw, k) IN
         /\ row \in LocalRow \cup {NoRow}
         /\ Present(copy, k) => row # NoRow
         /\ Linked(copy, k) => row # NoRow /\ row.linked
         /\ Present(national, k) => row # NoRow /\ row.linked
         /\ row # NoRow => 
               \/ Present(copy, k) /\ row.parent = copy[k].parent
               \/ Present(national, k) /\ row.parent = national[k].parent
<1> DEFINE row == Upgraded(request[r].saw, k)
<1> USE DEF CurriculumInv
<1>0. /\ national[k] \in NationalRow \cup {NoRow}
      /\ copy[k] \in LocalRow \cup {NoRow}
      /\ Linked(request[r].saw, k) => Linked(copy, k)
  BY DEF CurriculumTypeOK, RequestsSound
<1>1. CASE ~Present(national, k)
  BY <1>0, <1>1, RowIsNotNoRow DEF Upgraded, Present, Linked
<1>2. CASE Present(national, k) /\ ~Linked(request[r].saw, k)
  <2>1. row = [linked |-> TRUE, attr |-> national[k].attr, parent |-> national[k].parent]
    BY <1>2 DEF Upgraded
  <2>2. national[k] \in NationalRow
    BY <1>0, <1>2 DEF Present
  <2>3. row \in LocalRow
    BY <2>1, <2>2 DEF NationalRow, LocalRow
  <2>4. row.linked /\ row.parent = national[k].parent
    BY <2>1
  <2> QED
    BY <1>2, <2>3, <2>4, RowIsNotNoRow
<1>3. CASE Present(national, k) /\ Linked(request[r].saw, k)
  <2>1. national[k] \in NationalRow /\ copy[k] \in LocalRow /\ copy[k].linked
    BY <1>0, <1>3 DEF Present, Linked
  <2>2. PICK a \in Attrs, q \in {copy[k].parent, national[k].parent} :
           row = [copy[k] EXCEPT !.attr = a, !.parent = q]
    BY <1>3, <2>1 DEF Upgraded, NationalRow, LocalRow
  <2>3. row \in LocalRow /\ row.linked /\ row.parent = q
    BY <2>1, <2>2 DEF NationalRow, LocalRow
  <2> QED
    BY <1>3, <2>1, <2>2, <2>3, RowIsNotNoRow DEF Present, Linked
<1> QED
  BY <1>1, <1>2, <1>3

\* An upgrade, whether it goes through or meets a code that is taken.
LEMMA UpgradeWriteInv ==
  ASSUME CurriculumInv, NEW r \in Offices, UpgradeWrite(r)
  PROVE  CurriculumInv'
<1> USE DEF CurriculumInv, UpgradeWrite, ministry
<1> DEFINE saw == request[r].saw
<1>0. request[r].op = "upgrade" /\ request[r].at \in Versions
  <2>1. request[r] \in Requests
    BY DEF CurriculumTypeOK
  <2> QED
    BY <2>1 DEF Requests
<1>1. request[r].at \in DOMAIN released /\ subject.kind = "adopted"
  BY <1>0 DEF RequestsSound
<1>3. ASSUME NEW s \in Ministers \cup Offices
      PROVE  request'[s] = request[s] \/ request'[s].op = "none"
  BY DEF CurriculumTypeOK, Idle
<1>4. ReleasesInTree' /\ PublishedIsReleased'
  BY DEF ReleasesInTree, Tree, PublishedIsReleased
<1>7. request' \in [Ministers \cup Offices -> Requests]
  BY DEF CurriculumTypeOK, Requests, Idle
<1>5. CASE Collisions(saw) # {}
  <2>1. UNCHANGED school
    BY <1>5
  <2>2. (CurriculumTypeOK /\ CurrentMeansComplete /\ ParentsResolve /\ NoSubjectNoRows)'
    BY <2>1, <1>7 DEF school, CurriculumTypeOK, CurrentMeansComplete, ParentsResolve, NoSubjectNoRows
  <2>3. RequestsSound'
    BY <1>3, <2>1 DEF RequestsSound, school
  <2> QED
    BY <1>4, <2>2, <2>3
<1>6. CASE Collisions(saw) = {}
  <2>0. /\ copy' = [k \in Keys |-> Upgraded(saw, k)]
        /\ subject' = [subject EXCEPT !.at = request[r].at]
    BY <1>6
  <2>1. ASSUME NEW k \in Keys
        PROVE  /\ copy'[k] \in LocalRow \cup {NoRow}
               /\ Present(copy, k) => Present(copy', k)
               /\ Linked(copy, k) => Linked(copy', k)
               /\ Present(national, k) => Present(copy', k) /\ Linked(copy', k)
               /\ Present(copy', k) =>
                     \/ Present(copy, k) /\ copy'[k].parent = copy[k].parent
                     \/ Present(national, k) /\ copy'[k].parent = national[k].parent
    <3>1. copy'[k] = Upgraded(saw, k)
      BY <2>0
    <3>2. /\ Upgraded(saw, k) \in LocalRow \cup {NoRow}
          /\ Present(copy, k) => Upgraded(saw, k) # NoRow
          /\ Linked(copy, k) => Upgraded(saw, k) # NoRow /\ Upgraded(saw, k).linked
          /\ Present(national, k) => Upgraded(saw, k) # NoRow /\ Upgraded(saw, k).linked
          /\ Upgraded(saw, k) # NoRow =>
                \/ Present(copy, k) /\ Upgraded(saw, k).parent = copy[k].parent
                \/ Present(national, k) /\ Upgraded(saw, k).parent = national[k].parent
      BY <1>0, UpgradedRow
    <3> HIDE DEF UpgradeWrite, saw
    <3>3. /\ copy'[k] \in LocalRow \cup {NoRow}
          /\ Present(copy, k) => Present(copy', k)
      BY <3>1, <3>2 DEF Present
    <3>4. Linked(copy, k) \/ Present(national, k) => Present(copy', k) /\ Linked(copy', k)
      BY <3>1, <3>2 DEF Present, Linked
    <3>5. Present(copy', k) =>
             \/ Present(copy, k) /\ copy'[k].parent = copy[k].parent
             \/ Present(national, k) /\ copy'[k].parent = national[k].parent
      <4>1. copy'[k].parent = Upgraded(saw, k).parent
        BY <3>1
      <4>2. Present(copy', k) => Upgraded(saw, k) # NoRow
        BY <3>1 DEF Present
      <4> QED
        BY <3>2, <4>1, <4>2
    <3> QED
      BY <3>3, <3>4, <3>5
  <2>2. subject'.kind = "adopted" /\ subject'.at = request[r].at
           /\ subject' \in [kind : {"none", "own", "adopted"}, at : 0..MaxVersion]
    BY <1>0, <1>1, <2>0, CurriculumAssumption DEF CurriculumTypeOK, Versions
  <2>3. CurriculumTypeOK'
    BY <1>7, <2>0, <2>1, <2>2 DEF CurriculumTypeOK
  <2>4. CurrentMeansComplete'
    <3>1. \A k \in released[request[r].at] : k \in Keys /\ Present(national, k)
      BY <1>1 DEF ReleasesInTree, Tree
    <3> QED
      BY <2>1, <2>2, <3>1, <1>1 DEF CurrentMeansComplete
  <2>5. ParentsResolve'
    <3>1. ASSUME NEW k \in Keys, Present(copy', k)
          PROVE  copy'[k].parent \in ParentsIn(copy', k)
      <4>1. ParentsIn(national, k) \subseteq ParentsIn(copy', k)
               /\ ParentsIn(copy, k) \subseteq ParentsIn(copy', k)
        BY <2>1, ParentsGrow
      <4> QED
        BY <2>1, <3>1, <4>1 DEF ParentsResolve
    <3> QED
      BY <3>1 DEF ParentsResolve
  <2>6. NoSubjectNoRows'
    BY <2>2 DEF NoSubjectNoRows
  <2>7. RequestsSound'
    BY <1>3, <2>1, <2>2 DEF RequestsSound
  <2> QED
    BY <1>4, <2>3, <2>4, <2>5, <2>6, <2>7
<1> QED
  BY <1>5, <1>6

-----------------------------------------------------------------------------

\* Every step keeps the invariant.
LEMMA NextInv == CurriculumInv /\ [CurriculumNext]_vars => CurriculumInv'
<1> SUFFICES ASSUME CurriculumInv, [CurriculumNext]_vars PROVE CurriculumInv'
  OBVIOUS
<1>1. CASE PublishNational
  BY <1>1, PublicationInv DEF PublishNational, school, CurriculumInv, CurriculumTypeOK
<1>2. CASE CreateSubject
  <2> USE <1>2 DEF CreateSubject, CurriculumInv, ministry
  <2>1. subject' \in [kind : {"none", "own", "adopted"}, at : 0..MaxVersion]
    BY CurriculumAssumption
  <2>2. CurriculumTypeOK'
    BY <2>1 DEF CurriculumTypeOK
  <2>3. (/\ CurrentMeansComplete /\ ParentsResolve /\ ReleasesInTree
         /\ PublishedIsReleased /\ NoSubjectNoRows)'
    BY DEF CurrentMeansComplete, ParentsResolve, ReleasesInTree, Tree, PublishedIsReleased,
           NoSubjectNoRows
  <2>4. RequestsSound'
    BY DEF RequestsSound
  <2> QED
    BY <2>2, <2>3, <2>4
<1>3. ASSUME NEW k \in Keys, NEW a \in Attrs, CreateNational(k, a) \/ ImportNational(k, a)
      PROVE  CurriculumInv'
  BY <1>3, WriteNationalInv DEF CreateNational, ImportNational
<1>4. ASSUME NEW k \in Keys, NEW a \in Attrs, CreateLocal(k, a)
      PROVE  CurriculumInv'
  <2>1. PICK p \in ParentsIn(copy, k) :
           copy' = [copy EXCEPT ![k] = [linked |-> FALSE, attr |-> a, parent |-> p]]
    BY <1>4 DEF CreateLocal
  <2>2. [linked |-> FALSE, attr |-> a, parent |-> p] \in LocalRow
    BY ParentsType DEF LocalRow
  <2>3. ~Linked(copy, k)
    BY <1>4 DEF CreateLocal, MayCreate, Linked
  <2> QED
    BY <1>4, <2>1, <2>2, <2>3, WriteLocalInv DEF CreateLocal
<1>5. ASSUME NEW k \in Keys, NEW a \in Attrs, ImportLocal(k, a)
      PROVE  CurriculumInv'
  <2>1. PICK p \in ParentsIn(copy, k) : copy' = [copy EXCEPT ![k].attr = a, ![k].parent = p]
    BY <1>5 DEF ImportLocal
  <2>2. copy[k] \in LocalRow /\ copy \in [Keys -> LocalRow \cup {NoRow}]
    BY <1>5 DEF ImportLocal, Present, CurriculumInv, CurriculumTypeOK
  <2> DEFINE row == [copy[k] EXCEPT !.attr = a, !.parent = p]
  <2>3. copy' = [copy EXCEPT ![k] = row]
    BY <2>1, <2>2
  <2>4. row \in LocalRow /\ row.parent = p /\ row.linked = copy[k].linked
    BY <2>2, ParentsType DEF LocalRow
  <2> QED
    BY <1>5, <2>3, <2>4, WriteLocalInv DEF ImportLocal, Linked
<1>6. ASSUME NEW r \in Ministers, RepublishRead(r)
      PROVE  CurriculumInv'
  <2> DEFINE q == [op |-> "republish", at |-> version]
  <2>1. q \in Requests /\ q.at < MaxVersion
    BY <1>6 DEF RepublishRead, Requests, CurriculumInv, CurriculumTypeOK
  <2> QED
    BY <1>6, <2>1, ReadInv DEF RepublishRead
<1>7. ASSUME NEW r \in Ministers, RepublishWrite(r)
      PROVE  CurriculumInv'
  <2>1. request[r] \in Requests /\ request[r].op = "republish" /\ request[r].at < MaxVersion
    BY <1>7 DEF RepublishWrite, CurriculumInv, CurriculumTypeOK, RequestsSound
  <2>2. request[r].at + 1 \in Versions
    BY <2>1, CurriculumAssumption DEF Requests, Versions
  <2> QED
    BY <1>7, <2>2, PublicationInv DEF RepublishWrite, school
<1>8. ASSUME NEW r \in Offices, AdoptRead(r)
      PROVE  CurriculumInv'
  <2> DEFINE q == [op |-> "adopt", at |-> version]
  <2>1. q \in Requests /\ q.at \in DOMAIN released
    BY <1>8 DEF AdoptRead, Requests, CurriculumInv, CurriculumTypeOK, PublishedIsReleased
  <2> QED
    BY <1>8, <2>1, ReadInv DEF AdoptRead
<1>9. ASSUME NEW r \in Offices, UpgradeRead(r)
      PROVE  CurriculumInv'
  <2> DEFINE q == [op |-> "upgrade", at |-> version, saw |-> copy]
  <2>1. q \in Requests /\ q.at \in DOMAIN released /\ subject.kind = "adopted"
    BY <1>9 DEF UpgradeRead, Stale, Requests, CurriculumInv, CurriculumTypeOK, PublishedIsReleased
  <2> QED
    BY <1>9, <2>1, ReadInv DEF UpgradeRead
<1>10. ASSUME NEW r \in Offices, AdoptWrite(r) \/ UpgradeWrite(r)
       PROVE  CurriculumInv'
  BY <1>10, AdoptWriteInv, UpgradeWriteInv
<1>11. CASE UNCHANGED vars
  BY <1>11 DEF vars, CurriculumInv, CurriculumTypeOK, CurrentMeansComplete, ParentsResolve,
               Present, Linked, ParentsIn, ReleasesInTree, Tree, PublishedIsReleased,
               NoSubjectNoRows, RequestsSound
<1> QED
  BY <1>1, <1>2, <1>3, <1>4, <1>5, <1>6, <1>7, <1>8, <1>9, <1>10, <1>11 DEF CurriculumNext

\* The strengthened invariant holds in every behaviour.
THEOREM CurriculumInvariant == CurriculumSpec => []CurriculumInv
BY InitInv, NextInv, PTL DEF CurriculumSpec

\* Every variable keeps its type.
THEOREM CurriculumTypes == CurriculumSpec => []CurriculumTypeOK
BY CurriculumInvariant, PTL DEF CurriculumInv

\* A school that shows a version has, linked, every row first published with it,
\* however requests and publications overlap.
THEOREM CurrentCompleteHolds == CurriculumSpec => []CurrentMeansComplete
BY CurriculumInvariant, PTL DEF CurriculumInv

\* Parents exist, in the topic's own unit, in both trees; here with any number of units.
THEOREM ParentsResolveHolds == CurriculumSpec => []ParentsResolve
BY CurriculumInvariant, PTL DEF CurriculumInv

\* No adoption and no upgrade touches a row the school added itself.
THEOREM CustomRowsAreKept == CurriculumSpec => CustomUntouched
<1>1. CurriculumInv /\ [CurriculumNext]_vars =>
        [\A k \in Keys : (Present(copy, k) /\ ~copy[k].linked /\ subject' # subject)
                             => copy'[k] = copy[k]]_vars
  <2> SUFFICES ASSUME CurriculumInv, CurriculumNext, subject' # subject,
                      NEW k \in Keys, Present(copy, k), ~copy[k].linked
               PROVE  copy'[k] = copy[k]
    BY DEF vars
  <2>1. CASE CreateSubject
    BY <2>1 DEF CreateSubject
  <2>2. ASSUME NEW r \in Offices, AdoptWrite(r)
        PROVE  FALSE
    BY <2>2 DEF AdoptWrite, school, CurriculumInv, NoSubjectNoRows, Present
  <2>3. ASSUME NEW r \in Offices, UpgradeWrite(r)
        PROVE  copy'[k] = copy[k]
    <3>1. ~Linked(request[r].saw, k)
      BY <2>3 DEF UpgradeWrite, CurriculumInv, RequestsSound, Linked
    <3>2. Collisions(request[r].saw) = {}
      BY <2>3 DEF UpgradeWrite, school
    <3>3. ~Present(national, k)
      BY <3>1, <3>2 DEF Collisions
    <3> QED
      BY <2>3, <3>2, <3>3 DEF UpgradeWrite, Upgraded
  <2> QED
    BY <2>1, <2>2, <2>3 DEF CurriculumNext, PublishNational, CreateNational, ImportNational,
       CreateLocal, ImportLocal, RepublishRead, RepublishWrite, AdoptRead, UpgradeRead, school
<1> QED
  BY <1>1, CurriculumInvariant, PTL DEF CurriculumSpec, CustomUntouched

\* Without a collision, an upgrade now changes what its preview lists, and beyond that
\* only parents of rows that are linked.
THEOREM PreviewsForetell == CurriculumSpec => []PreviewForetells
<1>1. CurriculumTypeOK => PreviewForetells
  <2> SUFFICES ASSUME CurriculumTypeOK, Collisions(copy) = {}, NEW k \in Keys
               PROVE  /\ k \in PreviewAdds \cup PreviewUpdates => Upgraded(copy, k) # copy[k]
                      /\ Upgraded(copy, k) # copy[k] /\ k \notin PreviewAdds \cup PreviewUpdates =>
                             Linked(copy, k) /\ copy[k].parent # national[k].parent
    BY DEF PreviewForetells, PreviewAdds, PreviewUpdates
  <2>1. /\ national[k] \in NationalRow \cup {NoRow}
        /\ copy[k] \in LocalRow \cup {NoRow}
    BY DEF CurriculumTypeOK
  <2>2. CASE ~Present(national, k)
    BY <2>2 DEF Upgraded, PreviewAdds, PreviewUpdates
  <2>3. CASE Present(national, k) /\ ~Linked(copy, k)
    <3>1. copy[k] = NoRow
      BY <2>3 DEF Collisions, Present
    <3>2. national[k] \in NationalRow
      BY <2>1, <2>3 DEF Present
    <3>3. Upgraded(copy, k) \in LocalRow
      BY <2>3, <3>2 DEF Upgraded, NationalRow, LocalRow
    <3>4. QED
      BY <2>3, <3>1, <3>3, RowIsNotNoRow DEF PreviewAdds
  <2>4. CASE Present(national, k) /\ Linked(copy, k)
    <3>1. national[k] \in NationalRow /\ copy[k] \in LocalRow
      BY <2>1, <2>4 DEF Present, Linked
    <3>2. Upgraded(copy, k) = [copy[k] EXCEPT !.attr = national[k].attr,
                                              !.parent = national[k].parent]
      BY <2>4, <3>1 DEF Upgraded, LocalRow, NationalRow
    <3>3. /\ Upgraded(copy, k).attr = national[k].attr
          /\ copy[k].attr = national[k].attr /\ copy[k].parent = national[k].parent =>
                 Upgraded(copy, k) = copy[k]
      BY <3>1, <3>2 DEF LocalRow
    <3>4. k \in PreviewUpdates <=> copy[k].attr # national[k].attr
      BY <2>4 DEF PreviewUpdates
    <3>5. k \notin PreviewAdds
      BY <2>4 DEF PreviewAdds
    <3>6. QED
      BY <2>4, <3>3, <3>4, <3>5
  <2>5. QED
    BY <2>2, <2>3, <2>4
<1>2. QED
  BY <1>1, CurriculumTypes, PTL


-----------------------------------------------------------------------------
\* Marks and the question bank.  What a request has read is still there when it
\* commits, and still the same unless another request worked on it, and then it
\* is in raced.

\* What a thread knows that reviews a draft.
ReviewKnows(g) ==
    g.op \in {"approve", "reject"} =>
        \E d \in Drafts :
            /\ g.on = {d} /\ draft[d] # Missing
            /\ d \in raced \/ draft[d].review = "pending"

\* One that grades: the counters it read are those of questions in the bank, and
\* the row it read is the row of its student.
GradeKnows(g) ==
    g.op \in {"grade", "write"} =>
        /\ g.student \in Students \cap g.on
        /\ DOMAIN g.counts \subseteq Banked(question) \cap g.on /\ g.right \subseteq DOMAIN g.counts
        /\ \A q \in DOMAIN g.counts :
              /\ g.counts[q] \in Counters /\ g.counts[q].correct <= g.counts[q].attempts
              /\ g.counts[q].attempts < MaxAnswers
              /\ g.counts[q].attempts <= answered[q].attempts
              /\ q \in raced \/ g.counts[q] = question[q].count
PaperKnows(g) ==
    g.op = "grade" => g.paper \subseteq Questions /\ g.paper # {} /\ DOMAIN g.counts \subseteq g.paper
WriteKnows(g) ==
    g.op = "write" =>
        /\ g.total \in Nat \ {0} /\ Cardinality(g.right) \in 0..g.total
        /\ g.row \in Row \cup {Missing} /\ (g.row # Missing => mark[g.student] # Missing)
        /\ g.student \in raced \/ g.row = mark[g.student]
Knows(g) == ReviewKnows(g) /\ GradeKnows(g) /\ PaperKnows(g) /\ WriteKnows(g)

\* What the save on the event loop knows.
SaveKnows(l) ==
    /\ l.op \in {"none", "read", "keep"}
    /\ l.op # "read" => l.on = {}
    /\ l.op # "none" => l.save \in Saves
    /\ l.op = "read" =>
          /\ l.on = Accepted(l.save) /\ l.save \notin saved
          /\ l.rows \in [Students -> Row \cup {Missing}]
          /\ \A s \in Students : l.rows[s] # Missing => mark[s] # Missing
          /\ \A s \in l.on \ raced : l.rows[s] = mark[s]

WorkInv ==
    /\ thread = [t \in Threads |-> thread[t]]
    /\ \A t, u \in Threads : t # u => thread[t].on \cap thread[u].on \subseteq raced
    /\ \A t \in Threads : thread[t].on \cap loop.on \subseteq raced
    /\ \A t \in Threads : Knows(thread[t])
    /\ SaveKnows(loop)

\* A save whose key is not stored was committed by processes that died since, or it
\* is about to store the key.
SavedOnce ==
    \A r \in Saves :
        /\ applied[r] \in Nat /\ applied[r] <= 1 + deaths
        /\ r \notin saved /\ ~(loop.op = "keep" /\ loop.save = r) => applied[r] <= deaths

BookTyped ==
    /\ mark \in [Students -> Row \cup {Missing}] /\ last \in [Students -> Row \cup {Missing}]
    /\ applied \in [Saves -> Nat] /\ saved \subseteq Saves /\ deaths \in 0..MaxDeaths
BookInv == BookTyped /\ MarksAreLast /\ SavedOnce

BankTyped ==
    /\ question \in [Questions -> QuestionRow \cup {Missing}]
    /\ draft \in [Drafts -> DraftRow \cup {Missing}]
    /\ answered \in [Questions -> [attempts : Nat, correct : Nat]]
    /\ paper \subseteq Banked(question)
QuestionsCount ==
    \A q \in Questions :
        IF question[q] = Missing THEN answered[q] = NoCount
        ELSE /\ question[q].count.correct <= question[q].count.attempts
             /\ question[q].count.attempts <= answered[q].attempts
             /\ q \notin raced => question[q].count = answered[q]
DraftsGiveQuestions ==
    \A d \in Drafts, q \in Questions :
        /\ question[q] # Missing /\ question[q].by = d => draft[d] # Missing
        /\ d \notin raced =>
              ((question[q] # Missing /\ question[q].by = d) <=>
                  (draft[d] # Missing /\ draft[d].review = "approved" /\ draft[d].question = q))
BankInv == BankTyped /\ QuestionsCount /\ DraftsGiveQuestions

MarkBookInv == WorkInv /\ BookInv /\ BankInv

-----------------------------------------------------------------------------
\* Rows stay, and of those that are there only those of S change.
RowsRemain(S) ==
    /\ raced \subseteq raced'
    /\ \A s \in Students : /\ mark[s] # Missing => mark'[s] # Missing
                           /\ s \notin S => mark'[s] = mark[s]
    /\ \A q \in Questions : /\ answered[q].attempts <= answered'[q].attempts
                            /\ question[q] # Missing =>
                                  /\ question'[q] # Missing
                                  /\ q \notin S => question'[q].count = question[q].count
    /\ \A d \in Drafts : draft[d] # Missing =>
           draft'[d] # Missing /\ (d \notin S => draft'[d].review = draft[d].review)

LEMMA KnowledgeStays ==
    ASSUME BankTyped, BankTyped', NEW S, RowsRemain(S), NEW g, Knows(g),
           g.on \cap S \subseteq raced'
    PROVE  Knows(g)'
<1>1. ReviewKnows(g)'
  BY DEF Knows, ReviewKnows, RowsRemain
<1>2. GradeKnows(g)'
  <2> SUFFICES ASSUME g.op \in {"grade", "write"}
               PROVE  /\ DOMAIN g.counts \subseteq Banked(question')
                      /\ \A q \in DOMAIN g.counts :
                            /\ g.counts[q].attempts <= answered'[q].attempts
                            /\ q \in raced' \/ g.counts[q] = question'[q].count
    BY DEF Knows, GradeKnows, Banked
  <2>1. \A q \in DOMAIN g.counts : q \in Questions /\ question[q] # Missing /\ q \in g.on
    BY DEF Knows, GradeKnows, Banked, BankTyped
  <2>2. \A q \in DOMAIN g.counts : question'[q] # Missing
    BY <2>1 DEF RowsRemain
  <2>3. DOMAIN g.counts \subseteq Banked(question')
    BY <2>1, <2>2 DEF Banked, BankTyped
  <2>4. ASSUME NEW q \in DOMAIN g.counts
        PROVE  /\ g.counts[q].attempts <= answered'[q].attempts
               /\ q \in raced' \/ g.counts[q] = question'[q].count
    <3>1. /\ g.counts[q].attempts \in Nat /\ g.counts[q].attempts <= answered[q].attempts
          /\ q \in raced \/ g.counts[q] = question[q].count
      BY MarkBookAssumption DEF Knows, GradeKnows, Counters
    <3>2. /\ answered[q].attempts \in Nat /\ answered'[q].attempts \in Nat
          /\ answered[q].attempts <= answered'[q].attempts
      BY <2>1 DEF BankTyped, RowsRemain
    <3>3. q \in raced' \/ g.counts[q] = question'[q].count
      BY <2>1, <3>1 DEF RowsRemain
    <3>4. QED
      BY <3>1, <3>2, <3>3
  <2>5. QED
    BY <2>3, <2>4
<1>3. PaperKnows(g)'
  BY DEF Knows, PaperKnows
<1>4. WriteKnows(g)'
  BY DEF Knows, WriteKnows, GradeKnows, RowsRemain
<1>5. QED
  BY <1>1, <1>2, <1>3, <1>4 DEF Knows

LEMMA SaveKnowledgeStays ==
    ASSUME NEW S, RowsRemain(S), NEW l, SaveKnows(l), l.on \cap S \subseteq raced',
           l.op = "read" => l.save \notin saved'
    PROVE  SaveKnows(l)'
<1>1. l.op = "read" => l.on \subseteq Students
  BY MarkBookAssumption DEF SaveKnows, Accepted
<1>2. QED
  BY <1>1 DEF SaveKnows, RowsRemain

\* A row that was read and has not changed since is written as it was meant.
LEMMA WrittenAsMeant ==
    ASSUME NEW read \in Row \cup {Missing}, NEW row \in Row
    PROVE  Written(read, read, row) = row
  BY DEF Written, Row

LEMMA WrittenIsRow ==
    ASSUME NEW read \in Row \cup {Missing}, NEW now \in Row \cup {Missing}, NEW row \in Row,
           read # Missing => now # Missing
    PROVE  Written(read, now, row) \in Row
  BY DEF Written, Row

\* Rows of questions and marks are no missing row.
LEMMA RowsAreThere ==
    /\ \A row \in Row : row # Missing
    /\ \A row \in QuestionRow : row # Missing
    /\ \A row \in DraftRow : row # Missing
  BY MarkBookAssumption, BankAssumption

\* The row a save means for a student that it accepts.
LEMMA RowOfIsRow ==
    ASSUME NEW r \in Saves, NEW s \in Accepted(r)
    PROVE  /\ s \in Students /\ RowOf(Body[r][s]) \in Row
           /\ RowOf(Body[r][s]).absent <=> RowOf(Body[r][s]).marks = Null
<1>1. s \in Students /\ Body[r][s] \in Entry /\ Acceptable(Body[r][s])
  BY MarkBookAssumption DEF Accepted
<1>2. QED
  BY <1>1, MarkBookAssumption DEF Entry, Acceptable, RowOf, Row

\* A score is a mark between zero and the maximum.
LEMMA ScoreIsMark ==
    ASSUME NEW total \in Nat \ {0}, NEW n \in 0..total
    PROVE  Score(n, total) \in 0..MaxMarks /\ Score(n, total) # Null
<1> DEFINE T == 2 * total
           X == 2 * n * MaxMarks + total
<1>1. T \in Nat \ {0} /\ X \in Nat /\ MaxMarks \in Nat
  BY MarkBookAssumption
<1>2. X < T * (MaxMarks + 1)
  <2>1. n * MaxMarks <= total * MaxMarks
    BY MarkBookAssumption, SMT
  <2>2. X = 2 * (n * MaxMarks) + total /\ T * (MaxMarks + 1) = 2 * (total * MaxMarks) + 2 * total
    BY MarkBookAssumption, SMT
  <2>3. n * MaxMarks \in Nat /\ total * MaxMarks \in Nat
    BY MarkBookAssumption, SMT
  <2>4. QED
    BY <2>1, <2>2, <2>3, SMT
<1>3. Score(n, total) = X \div T
  BY DEF Score
<1> HIDE DEF X, T
<1>4. X \div T \in Nat /\ X \div T <= MaxMarks
  BY <1>1, <1>2, SMT
<1>5. QED
  BY <1>1, <1>3, <1>4, MarkBookAssumption

-----------------------------------------------------------------------------
\* How a step treats the requests: nothing happens to them, one of a thread ends, or
\* one starts.

\* The actions that touch neither marks nor saves, and those that leave the bank alone.
LEMMA BookUntouched ==
    ASSUME BookInv, UNCHANGED <<mark, last, applied, saved, deaths, loop>>, raced \subseteq raced'
    PROVE  BookInv'
  BY DEF BookInv, BookTyped, MarksAreLast, SavedOnce

LEMMA BankUntouched ==
    ASSUME BankInv, UNCHANGED <<bank, answered>>, raced \subseteq raced'
    PROVE  BankInv'
<1>1. UNCHANGED <<draft, question, paper, answered>>
  BY DEF bank
<1>2. QED
  BY <1>1 DEF BankInv, BankTyped, Banked, QuestionsCount, DraftsGiveQuestions

LEMMA UntouchedRemains ==
    ASSUME BankTyped, BookTyped, UNCHANGED <<mark, bank, answered>>, raced \subseteq raced'
    PROVE  RowsRemain({})
  BY DEF RowsRemain, bank, BankTyped, BookTyped

LEMMA NobodyWorks ==
    ASSUME MarkBookInv, BankTyped', RowsRemain({}), UNCHANGED <<loop, thread, saved>>
    PROVE  WorkInv'
<1>1. raced \subseteq raced'
  BY DEF RowsRemain
<1>2. ASSUME NEW t \in Threads PROVE Knows(thread[t])'
  <2>1. \A g : Knows(g) => Knows(g)'
    BY KnowledgeStays DEF MarkBookInv, BankInv
  <2>2. Knows(thread'[t])
    BY DEF MarkBookInv, WorkInv
  <2>3. QED
    BY <2>1, <2>2
<1>3. SaveKnows(loop)'
  <2>1. \A l : SaveKnows(l) /\ (l.op = "read" => l.save \notin saved') => SaveKnows(l)'
    BY SaveKnowledgeStays
  <2>2. SaveKnows(loop') /\ (loop'.op = "read" => loop'.save \notin saved')
    BY DEF MarkBookInv, WorkInv, SaveKnows
  <2>3. QED
    BY <2>1, <2>2
<1>4. QED
  BY <1>1, <1>2, <1>3 DEF MarkBookInv, WorkInv

\* A thread goes over to what it knows then; the rows it worked on may have changed.
LEMMA ThreadGoesOn ==
    ASSUME MarkBookInv, BankTyped', NEW t \in Threads, NEW g, NEW S \in SUBSET thread[t].on,
           RowsRemain(S), thread' = [thread EXCEPT ![t] = g],
           g.on \subseteq thread[t].on, Knows(g)', UNCHANGED <<loop, saved>>
    PROVE  WorkInv'
<1>1. raced \subseteq raced'
  BY DEF RowsRemain
<1>2. /\ thread' = [u \in Threads |-> thread'[u]] /\ thread'[t] = g
      /\ \A u \in Threads : u # t => thread'[u] = thread[u]
  BY DEF MarkBookInv, WorkInv
<1>3. \A u, v \in Threads : u # v => thread'[u].on \cap thread'[v].on \subseteq raced'
  BY <1>1, <1>2 DEF MarkBookInv, WorkInv
<1>4. \A u \in Threads : thread'[u].on \cap loop'.on \subseteq raced'
  BY <1>1, <1>2 DEF MarkBookInv, WorkInv
<1>5. ASSUME NEW u \in Threads PROVE Knows(thread[u])'
  <2>1. CASE u = t
    <3>1. \A h : h = g => Knows(h)'
      OBVIOUS
    <3>2. QED
      BY <1>2, <2>1, <3>1
  <2>2. CASE u # t
    <3>1. \A h : Knows(h) /\ h.on \cap S \subseteq raced' => Knows(h)'
      BY KnowledgeStays DEF MarkBookInv, BankInv
    <3>2. Knows(thread'[u]) /\ thread'[u].on \cap S \subseteq raced'
      BY <1>1, <1>2, <2>2 DEF MarkBookInv, WorkInv
    <3>3. QED
      BY <3>1, <3>2
  <2>3. QED
    BY <2>1, <2>2
<1>6. SaveKnows(loop)'
  <2>1. \A l : /\ SaveKnows(l) /\ l.on \cap S \subseteq raced'
               /\ (l.op = "read" => l.save \notin saved')
               => SaveKnows(l)'
    BY SaveKnowledgeStays
  <2>2. /\ SaveKnows(loop') /\ loop'.on \cap S \subseteq raced'
        /\ (loop'.op = "read" => loop'.save \notin saved')
    BY <1>1 DEF MarkBookInv, WorkInv, SaveKnows
  <2>3. QED
    BY <2>1, <2>2
<1>7. QED
  BY <1>2, <1>3, <1>4, <1>5, <1>6 DEF WorkInv

LEMMA FreeKnows == Knows(Free) /\ Knows(Free)'
  BY DEF Free, Knows, ReviewKnows, GradeKnows, PaperKnows, WriteKnows

LEMMA ThreadEnds ==
    ASSUME MarkBookInv, BankTyped', NEW t \in Threads, NEW S \in SUBSET thread[t].on,
           RowsRemain(S), Ends(t), saved' = saved
    PROVE  WorkInv'
<1>1. thread' = [thread EXCEPT ![t] = Free] /\ UNCHANGED <<loop, raced, deaths>>
  BY DEF Ends
<1>2. Free.on \subseteq thread[t].on /\ Knows(Free)'
  BY FreeKnows DEF Free
<1> HIDE DEF Free
<1>3. QED
  BY <1>1, <1>2, ThreadGoesOn

\* A request starts in a thread; what others work on as well is raced from now on.
LEMMA ThreadStarts ==
    ASSUME MarkBookInv, NEW t \in Threads, NEW g, Knows(g), Starts(t, g),
           UNCHANGED <<bank, book, answered>>
    PROVE  MarkBookInv'
<1>1. /\ thread' = [thread EXCEPT ![t] = g] /\ raced \subseteq raced'
      /\ \A u \in Threads : thread[u].on \cap g.on \subseteq raced'
      /\ loop.on \cap g.on \subseteq raced'
      /\ UNCHANGED <<loop, deaths, mark, saved, last, applied, bank, answered>>
  BY DEF Starts, InFlight, book
<1>2. BookInv' /\ BankInv'
  BY <1>1, BookUntouched, BankUntouched DEF MarkBookInv
<1>3. RowsRemain({})
  BY <1>1, UntouchedRemains DEF MarkBookInv, BookInv, BankInv
<1>4. /\ thread' = [u \in Threads |-> thread'[u]] /\ thread'[t] = g
      /\ \A u \in Threads : u # t => thread'[u] = thread[u]
  BY <1>1 DEF MarkBookInv, WorkInv
<1>5. ASSUME NEW u \in Threads PROVE Knows(thread[u])'
  <2>1. \A h : Knows(h) => Knows(h)'
    BY <1>2, <1>3, KnowledgeStays DEF MarkBookInv, BankInv
  <2>2. Knows(thread'[u])
    BY <1>4 DEF MarkBookInv, WorkInv
  <2>3. QED
    BY <2>1, <2>2
<1>6. SaveKnows(loop)'
  <2>1. \A l : SaveKnows(l) /\ (l.op = "read" => l.save \notin saved') => SaveKnows(l)'
    BY <1>3, SaveKnowledgeStays
  <2>2. SaveKnows(loop') /\ (loop'.op = "read" => loop'.save \notin saved')
    BY <1>1 DEF MarkBookInv, WorkInv, SaveKnows
  <2>3. QED
    BY <2>1, <2>2
<1>7. \A u, v \in Threads : u # v => thread'[u].on \cap thread'[v].on \subseteq raced'
  <2> SUFFICES ASSUME NEW u \in Threads, NEW v \in Threads, u # v
               PROVE  thread'[u].on \cap thread'[v].on \subseteq raced'
    OBVIOUS
  <2>1. CASE u # t /\ v # t
    BY <1>1, <1>4, <2>1 DEF MarkBookInv, WorkInv
  <2>2. CASE u = t
    BY <1>1, <1>4, <2>2
  <2>3. CASE v = t
    BY <1>1, <1>4, <2>3
  <2>4. QED
    BY <2>1, <2>2, <2>3
<1>8. \A u \in Threads : thread'[u].on \cap loop'.on \subseteq raced'
  BY <1>1, <1>4 DEF MarkBookInv, WorkInv
<1>9. QED
  BY <1>2, <1>4, <1>5, <1>6, <1>7, <1>8 DEF MarkBookInv, WorkInv

-----------------------------------------------------------------------------
\* The question bank.

LEMMA NewQuestionIsRow ==
    ASSUME NEW d \in Drafts \cup {Missing}
    PROVE  /\ NewQuestion(d) \in QuestionRow /\ NewQuestion(d) # Missing
           /\ NewQuestion(d).by = d /\ NewQuestion(d).count = NoCount
<1>1. NewQuestion(d) \in QuestionRow
  BY MarkBookAssumption DEF NewQuestion, QuestionRow, NoCount, Counters
<1>2. QED
  BY <1>1, RowsAreThere DEF NewQuestion

\* A question is new: nobody has answered it.
LEMMA QuestionIsAdded ==
    ASSUME BankInv, NEW q \in Questions, NEW d \in Drafts \cup {Missing}, question[q] = Missing,
           question' = [question EXCEPT ![q] = NewQuestion(d)], UNCHANGED <<answered, raced, paper>>
    PROVE  /\ question' \in [Questions -> QuestionRow \cup {Missing}]
           /\ paper' \subseteq Banked(question') /\ QuestionsCount'
           /\ question'[q] # Missing /\ question'[q].by = d
           /\ \A p \in Questions : p # q => question'[p] = question[p]
<1>1. /\ NewQuestion(d) \in QuestionRow /\ NewQuestion(d) # Missing
      /\ NewQuestion(d).by = d /\ NewQuestion(d).count = NoCount
  BY NewQuestionIsRow
<1>2. /\ question' \in [Questions -> QuestionRow \cup {Missing}]
      /\ question'[q] = NewQuestion(d)
      /\ \A p \in Questions : p # q => question'[p] = question[p]
  BY <1>1 DEF BankInv, BankTyped
<1>3. paper' \subseteq Banked(question')
  BY <1>1, <1>2 DEF BankInv, BankTyped, Banked
<1>4. QuestionsCount'
  <2>1. answered'[q] = NoCount
    BY DEF BankInv, QuestionsCount
  <2>2. NoCount.correct = 0 /\ NoCount.attempts = 0
    BY DEF NoCount
  <2>3. QED
    BY <1>1, <1>2, <2>1, <2>2 DEF BankInv, QuestionsCount
<1>5. QED
  BY <1>1, <1>2, <1>3, <1>4

LEMMA CreateQuestionStep ==
    ASSUME MarkBookInv, NEW q \in Questions, CreateQuestion(q)
    PROVE  MarkBookInv'
<1>1. /\ question[q] = Missing /\ question' = [question EXCEPT ![q] = NewQuestion(Missing)]
      /\ UNCHANGED <<draft, paper, mark, saved, last, applied, loop, thread, answered, raced,
                     deaths>>
  BY DEF CreateQuestion, book
<1>2. /\ question' \in [Questions -> QuestionRow \cup {Missing}]
      /\ paper' \subseteq Banked(question') /\ QuestionsCount'
      /\ question'[q] # Missing /\ question'[q].by = Missing
      /\ \A p \in Questions : p # q => question'[p] = question[p]
  BY <1>1, QuestionIsAdded DEF MarkBookInv
<1>3. BankTyped'
  BY <1>1, <1>2 DEF MarkBookInv, BankInv, BankTyped
<1>4. DraftsGiveQuestions'
  <2>1. Missing \notin Drafts
    BY BankAssumption
  <2>2. QED
    BY <1>1, <1>2, <2>1 DEF MarkBookInv, BankInv, DraftsGiveQuestions
<1>5. RowsRemain({})
  BY <1>1, <1>2 DEF RowsRemain, MarkBookInv, BankInv, BankTyped
<1>6. BookInv'
  BY <1>1, BookUntouched DEF MarkBookInv
<1>7. WorkInv'
  BY <1>1, <1>3, <1>5, NobodyWorks
<1>8. QED
  BY <1>2, <1>3, <1>4, <1>6, <1>7 DEF MarkBookInv, BankInv

LEMMA SubmitDraftStep ==
    ASSUME MarkBookInv, NEW d \in Drafts, SubmitDraft(d)
    PROVE  MarkBookInv'
<1> DEFINE row == [review |-> "pending", question |-> Missing]
<1>1. row \in DraftRow /\ row # Missing /\ row.review = "pending"
  BY RowsAreThere DEF DraftRow
<1>2. /\ draft[d] = Missing /\ draft' = [draft EXCEPT ![d] = row]
      /\ UNCHANGED <<question, paper, mark, saved, last, applied, loop, thread, answered, raced,
                     deaths>>
  BY DEF SubmitDraft, book
<1> HIDE DEF row
<1>3. /\ draft' \in [Drafts -> DraftRow \cup {Missing}] /\ draft'[d] = row
      /\ \A e \in Drafts : e # d => draft'[e] = draft[e]
  BY <1>1, <1>2 DEF MarkBookInv, BankInv, BankTyped
<1>4. BankTyped' /\ QuestionsCount'
  BY <1>2, <1>3 DEF MarkBookInv, BankInv, BankTyped, QuestionsCount
<1>5. DraftsGiveQuestions'
  <2>1. \A q \in Questions : ~(question[q] # Missing /\ question[q].by = d)
    BY <1>2 DEF MarkBookInv, BankInv, DraftsGiveQuestions
  <2>2. QED
    BY <1>1, <1>2, <1>3, <2>1 DEF MarkBookInv, BankInv, DraftsGiveQuestions
<1>6. RowsRemain({})
  BY <1>1, <1>2, <1>3 DEF RowsRemain, MarkBookInv, BankInv, BankTyped
<1>7. BookInv'
  BY <1>2, BookUntouched DEF MarkBookInv
<1>8. WorkInv'
  BY <1>2, <1>4, <1>6, NobodyWorks
<1>9. QED
  BY <1>4, <1>5, <1>7, <1>8 DEF MarkBookInv, BankInv

LEMMA ReadDraftStep ==
    ASSUME MarkBookInv, NEW t \in Threads, NEW d \in Drafts, NEW verdict \in {"approve", "reject"},
           ReadDraft(t, d, verdict)
    PROVE  MarkBookInv'
<1> DEFINE g == [op |-> verdict, on |-> {d}]
<1>1. Knows(g)
  BY DEF ReadDraft, Knows, ReviewKnows, GradeKnows, PaperKnows, WriteKnows
<1>2. Starts(t, g) /\ UNCHANGED <<bank, book, answered>>
  BY DEF ReadDraft
<1> HIDE DEF g
<1>3. QED
  BY <1>1, <1>2, ThreadStarts

\* The draft under review is there, and pending unless raced.
LEMMA DraftUnderReview ==
    ASSUME MarkBookInv, NEW t \in Threads, NEW d \in Drafts, NEW verdict \in {"approve", "reject"},
           thread[t] = [op |-> verdict, on |-> {d}]
    PROVE  /\ thread[t].on = {d} /\ draft[d] \in DraftRow /\ draft[d] # Missing
           /\ d \in raced \/ draft[d].review = "pending"
<1>1. PICK e \in Drafts : /\ thread[t].on = {e} /\ draft[e] # Missing
                          /\ e \in raced \/ draft[e].review = "pending"
  BY DEF MarkBookInv, WorkInv, Knows, ReviewKnows
<1>2. e = d /\ thread[t].on = {d}
  BY <1>1
<1>3. QED
  BY <1>1, <1>2 DEF MarkBookInv, BankInv, BankTyped

LEMMA ApproveDraftStep ==
    ASSUME MarkBookInv, NEW t \in Threads, NEW d \in Drafts, NEW q \in Questions,
           ApproveDraft(t, d, q)
    PROVE  MarkBookInv'
<1> DEFINE row == [review |-> "approved", question |-> q]
<1>1. row \in DraftRow /\ row # Missing /\ row.review = "approved" /\ row.question = q
  BY RowsAreThere DEF DraftRow
<1>2. /\ question[q] = Missing /\ question' = [question EXCEPT ![q] = NewQuestion(d)]
      /\ draft' = [draft EXCEPT ![d] = row] /\ Ends(t)
      /\ UNCHANGED <<paper, mark, saved, last, applied, loop, answered, raced, deaths>>
  BY DEF ApproveDraft, Ends, book
<1>3. /\ thread[t].on = {d} /\ draft[d] \in DraftRow /\ draft[d] # Missing
      /\ d \in raced \/ draft[d].review = "pending"
  BY DraftUnderReview DEF ApproveDraft
<1> HIDE DEF row
<1>4. /\ question' \in [Questions -> QuestionRow \cup {Missing}]
      /\ paper' \subseteq Banked(question') /\ QuestionsCount'
      /\ question'[q] # Missing /\ question'[q].by = d
      /\ \A p \in Questions : p # q => question'[p] = question[p]
  BY <1>2, QuestionIsAdded DEF MarkBookInv
<1>5. /\ draft' \in [Drafts -> DraftRow \cup {Missing}] /\ draft'[d] = row
      /\ \A e \in Drafts : e # d => draft'[e] = draft[e]
  BY <1>1, <1>2 DEF MarkBookInv, BankInv, BankTyped
<1>6. BankTyped'
  BY <1>2, <1>4, <1>5 DEF MarkBookInv, BankInv, BankTyped
<1>7. DraftsGiveQuestions'
  <2>1. d \notin raced => \A p \in Questions : ~(question[p] # Missing /\ question[p].by = d)
    BY <1>3 DEF MarkBookInv, BankInv, DraftsGiveQuestions
  <2>2. ASSUME NEW e \in Drafts, e # d, NEW p \in Questions
        PROVE  /\ question'[p] # Missing /\ question'[p].by = e <=>
                      question[p] # Missing /\ question[p].by = e
    BY <1>2, <1>4, <2>2
  <2>3. QED
    BY <1>1, <1>2, <1>4, <1>5, <2>1, <2>2 DEF MarkBookInv, BankInv, DraftsGiveQuestions
<1>8. RowsRemain({d})
  BY <1>1, <1>2, <1>4, <1>5 DEF RowsRemain, MarkBookInv, BankInv, BankTyped
<1>9. BookInv'
  BY <1>2, BookUntouched DEF MarkBookInv
<1>10. WorkInv'
  BY <1>2, <1>3, <1>6, <1>8, ThreadEnds
<1>11. QED
  BY <1>4, <1>6, <1>7, <1>9, <1>10 DEF MarkBookInv, BankInv

LEMMA RejectDraftStep ==
    ASSUME MarkBookInv, NEW t \in Threads, NEW d \in Drafts, RejectDraft(t, d)
    PROVE  MarkBookInv'
<1>1. /\ draft' = [draft EXCEPT ![d].review = "rejected"] /\ Ends(t)
      /\ UNCHANGED <<question, paper, mark, saved, last, applied, loop, answered, raced, deaths>>
  BY DEF RejectDraft, Ends, book
<1>2. /\ thread[t].on = {d} /\ draft[d] \in DraftRow /\ draft[d] # Missing
      /\ d \in raced \/ draft[d].review = "pending"
  BY DraftUnderReview DEF RejectDraft
<1>3. /\ draft' \in [Drafts -> DraftRow \cup {Missing}] /\ draft'[d] \in DraftRow
      /\ draft'[d].review = "rejected"
      /\ \A e \in Drafts : e # d => draft'[e] = draft[e]
  BY <1>1, <1>2 DEF MarkBookInv, BankInv, BankTyped, DraftRow
<1>4. draft'[d] # Missing
  BY <1>3, RowsAreThere
<1>5. BankTyped' /\ QuestionsCount'
  BY <1>1, <1>3 DEF MarkBookInv, BankInv, BankTyped, QuestionsCount
<1>6. DraftsGiveQuestions'
  <2>1. d \notin raced => \A p \in Questions : ~(question[p] # Missing /\ question[p].by = d)
    BY <1>2 DEF MarkBookInv, BankInv, DraftsGiveQuestions
  <2>2. QED
    BY <1>1, <1>3, <1>4, <2>1 DEF MarkBookInv, BankInv, DraftsGiveQuestions
<1>7. RowsRemain({d})
  BY <1>1, <1>3, <1>4 DEF RowsRemain, MarkBookInv, BankInv, BankTyped
<1>8. BookInv'
  BY <1>1, BookUntouched DEF MarkBookInv
<1>9. WorkInv'
  BY <1>1, <1>2, <1>5, <1>7, ThreadEnds
<1>10. QED
  BY <1>5, <1>6, <1>8, <1>9 DEF MarkBookInv, BankInv

LEMMA ComposeStep ==
    ASSUME MarkBookInv, NEW Q \in SUBSET Questions, Compose(Q)
    PROVE  MarkBookInv'
<1>1. /\ paper' \subseteq Banked(question)
      /\ UNCHANGED <<draft, question, mark, saved, last, applied, loop, thread, answered, raced,
                     deaths>>
  BY DEF Compose, book
<1>2. BankInv'
  BY <1>1 DEF MarkBookInv, BankInv, BankTyped, Banked, QuestionsCount, DraftsGiveQuestions
<1>3. RowsRemain({})
  BY <1>1 DEF RowsRemain, MarkBookInv, BankInv, BankTyped
<1>4. BookInv'
  BY <1>1, BookUntouched DEF MarkBookInv
<1>5. WorkInv'
  BY <1>1, <1>2, <1>3, NobodyWorks DEF BankInv
<1>6. QED
  BY <1>2, <1>4, <1>5 DEF MarkBookInv

-----------------------------------------------------------------------------
\* Automatic grading.

LEMMA CountersAreNat == NoCount \in Counters /\ \A c \in Counters : c.attempts \in Nat /\ c.correct \in Nat
  BY MarkBookAssumption DEF Counters, NoCount

LEMMA GradeReadsStep ==
    ASSUME MarkBookInv, NEW t \in Threads, NEW s \in Students, NEW answers \in AnswerSheets,
           GradeReads(t, s, answers)
    PROVE  MarkBookInv'
<1> DEFINE Q == DOMAIN answers
           g == [op |-> "grade", on |-> {s} \cup Q, student |-> s, paper |-> paper,
                 right |-> {q \in Q : answers[q]},
                 counts |-> [q \in Q |-> question[q].count]]
<1>1. /\ paper # {} /\ Q \subseteq paper /\ \A q \in Q : answered[q].attempts < MaxAnswers
      /\ Starts(t, g) /\ UNCHANGED <<bank, book, answered>>
  BY DEF GradeReads
<1>2. paper \subseteq Questions /\ Q \subseteq Banked(question)
  BY <1>1 DEF MarkBookInv, BankInv, BankTyped, Banked
<1>3. ASSUME NEW q \in Q
      PROVE  /\ question[q].count \in Counters
             /\ question[q].count.correct <= question[q].count.attempts
             /\ question[q].count.attempts < MaxAnswers
             /\ question[q].count.attempts <= answered[q].attempts
  <2>1. q \in Questions /\ question[q] \in QuestionRow /\ question[q] # Missing
    BY <1>2 DEF Banked, MarkBookInv, BankInv, BankTyped
  <2>2. question[q].count \in Counters
    BY <2>1 DEF QuestionRow
  <2>3. /\ question[q].count.correct <= question[q].count.attempts
        /\ question[q].count.attempts <= answered[q].attempts
    BY <2>1 DEF MarkBookInv, BankInv, QuestionsCount
  <2>4. answered[q].attempts \in Nat /\ answered[q].attempts < MaxAnswers
    BY <1>1, <2>1 DEF MarkBookInv, BankInv, BankTyped
  <2>5. QED
    BY <2>2, <2>3, <2>4, CountersAreNat, MarkBookAssumption
<1>4. /\ g.op = "grade" /\ g.on = {s} \cup Q /\ g.student = s /\ g.paper = paper
      /\ g.right \subseteq Q /\ DOMAIN g.counts = Q
      /\ \A q \in Q : g.counts[q] = question[q].count
  OBVIOUS
<1> HIDE DEF g, Q
<1>5. Knows(g)
  BY <1>1, <1>2, <1>3, <1>4 DEF Knows, ReviewKnows, GradeKnows, PaperKnows, WriteKnows
<1>6. QED
  BY <1>1, <1>5, ThreadStarts

LEMMA GradeLooksUpStep ==
    ASSUME MarkBookInv, NEW t \in Threads, GradeLooksUp(t)
    PROVE  MarkBookInv'
<1> DEFINE h == thread[t]
           g == [op |-> "write", on |-> h.on, student |-> h.student, right |-> h.right,
                 counts |-> h.counts, total |-> Cardinality(h.paper), row |-> mark[h.student]]
<1>1. /\ h.op = "grade" /\ Knows(h) /\ thread' = [thread EXCEPT ![t] = g]
      /\ UNCHANGED <<bank, mark, saved, last, applied, loop, answered, raced, deaths>>
  BY DEF GradeLooksUp, MarkBookInv, WorkInv, book
<1>2. BookInv' /\ BankInv'
  BY <1>1, BookUntouched, BankUntouched DEF MarkBookInv
<1>3. RowsRemain({})
  BY <1>1, UntouchedRemains DEF MarkBookInv, BookInv, BankInv
<1>4. /\ g.op = "write" /\ g.on = h.on /\ g.student = h.student /\ g.right = h.right
      /\ g.counts = h.counts /\ g.total = Cardinality(h.paper) /\ g.row = mark[h.student]
  OBVIOUS
<1>5. /\ Cardinality(h.paper) \in Nat \ {0}
      /\ Cardinality(h.right) \in 0..Cardinality(h.paper)
  <2>1. /\ h.paper \subseteq Questions /\ h.paper # {} /\ h.right \subseteq h.paper
    BY <1>1 DEF Knows, PaperKnows, GradeKnows
  <2>2. IsFiniteSet(h.paper)
    BY <2>1, FS_Subset, BankAssumption
  <2>3. /\ Cardinality(h.paper) \in Nat /\ Cardinality(h.paper) # 0
        /\ IsFiniteSet(h.right) /\ Cardinality(h.right) <= Cardinality(h.paper)
    BY <2>1, <2>2, FS_Subset, FS_CardinalityType, FS_EmptySet
  <2>4. Cardinality(h.right) \in Nat
    BY <2>3, FS_CardinalityType
  <2>5. QED
    BY <2>3, <2>4
<1> HIDE DEF g, h
<1>6. Knows(g)
  <2>1. h.student \in Students
    BY <1>1 DEF Knows, GradeKnows
  <2>2. mark[h.student] \in Row \cup {Missing}
    BY <2>1 DEF MarkBookInv, BookInv, BookTyped
  <2>3. GradeKnows(g)
    BY <1>1, <1>4 DEF Knows, GradeKnows
  <2>4. QED
    BY <1>4, <1>5, <2>2, <2>3 DEF Knows, ReviewKnows, PaperKnows, WriteKnows
<1>7. PICK r : r = g
  OBVIOUS
<1>8. WorkInv'
  <2>1. Knows(r)
    BY <1>6, <1>7
  <2>2. Knows(r)'
    BY <1>2, <1>3, <2>1, KnowledgeStays DEF MarkBookInv, BankInv
  <2>3. /\ thread' = [thread EXCEPT ![t] = r] /\ r.on \subseteq thread[t].on
        /\ UNCHANGED <<loop, saved>>
    BY <1>1, <1>4, <1>7 DEF h
  <2>4. BankTyped'
    BY <1>2 DEF BankInv
  <2>5. QED
    BY <1>3, <2>2, <2>3, <2>4, ThreadGoesOn
<1>9. QED
  BY <1>2, <1>8 DEF MarkBookInv

\* The counters that a grading writes, and the answer it is remembered for.
LEMMA TickedCounters ==
    ASSUME NEW c \in Counters, c.correct <= c.attempts, c.attempts < MaxAnswers, NEW right, NEW q
    PROVE  /\ Ticked(c, q \in right) \in Counters
           /\ Ticked(c, q \in right).correct <= Ticked(c, q \in right).attempts
           /\ Ticked(c, q \in right).attempts = c.attempts + 1
           /\ Ticked(c, q \in right) = [attempts |-> c.attempts + 1,
                                        correct |-> c.correct + Cardinality(right \cap {q})]
<1>1. c.attempts \in Nat /\ c.correct \in Nat
  BY CountersAreNat
<1>2. Cardinality(right \cap {q}) = IF q \in right THEN 1 ELSE 0
  <2>1. right \cap {q} = IF q \in right THEN {q} ELSE {}
    OBVIOUS
  <2>2. QED
    BY <2>1, FS_Singleton, FS_EmptySet
<1>3. Ticked(c, q \in right) = [attempts |-> c.attempts + 1,
                                correct |-> c.correct + Cardinality(right \cap {q})]
  BY <1>2 DEF Ticked
<1>4. c.attempts + 1 \in 0..MaxAnswers
      /\ c.correct + Cardinality(right \cap {q}) \in 0..(c.attempts + 1)
  BY <1>1, <1>2, MarkBookAssumption
<1>5. QED
  BY <1>1, <1>3, <1>4, MarkBookAssumption DEF Counters

LEMMA GradeCommitsStep ==
    ASSUME MarkBookInv, NEW t \in Threads, GradeCommits(t)
    PROVE  MarkBookInv'
<1> DEFINE g == thread[t]
           s == g.student
           row == [marks |-> Score(Cardinality(g.right), g.total), absent |-> FALSE]
           counts == g.counts
<1>1. /\ g.op = "write" /\ Knows(g) /\ Ends(t)
      /\ UNCHANGED <<draft, paper, saved, applied, loop, raced, deaths>>
  BY DEF GradeCommits, Ends, MarkBookInv, WorkInv
<1>2. /\ s \in Students /\ s \in g.on /\ DOMAIN counts \subseteq g.on
      /\ g.total \in Nat \ {0} /\ Cardinality(g.right) \in 0..g.total
      /\ g.row \in Row \cup {Missing} /\ (g.row # Missing => mark[s] # Missing)
      /\ s \in raced \/ g.row = mark[s]
  BY <1>1 DEF Knows, GradeKnows, WriteKnows
<1>3. CASE InsertRefused(g.row, mark[s])
  <2>1. UNCHANGED <<question, mark, last, answered>>
    BY <1>3 DEF GradeCommits
  <2>2. BookInv' /\ BankInv'
    BY <1>1, <2>1, BookUntouched, BankUntouched DEF MarkBookInv, bank
  <2>3. RowsRemain({})
    BY <1>1, <2>1, UntouchedRemains DEF MarkBookInv, BookInv, BankInv, bank
  <2>4. WorkInv'
    BY <1>1, <2>2, <2>3, ThreadEnds DEF BankInv
  <2>5. QED
    BY <2>2, <2>4 DEF MarkBookInv
<1>4. CASE ~InsertRefused(g.row, mark[s])
  <2>1. /\ question' = [q \in Questions |->
               IF q \in DOMAIN counts
               THEN [question[q] EXCEPT !.count = Ticked(counts[q], q \in g.right)]
               ELSE question[q]]
        /\ mark' = [mark EXCEPT ![s] = Written(g.row, mark[s], row)]
        /\ last' = [last EXCEPT ![s] = row]
        /\ answered' = [q \in Questions |->
               IF q \in DOMAIN counts
               THEN [attempts |-> answered[q].attempts + 1,
                     correct |-> answered[q].correct + Cardinality(g.right \cap {q})]
               ELSE answered[q]]
    BY <1>4 DEF GradeCommits
  <2>2. /\ row \in Row /\ row.marks # Null /\ row.absent = FALSE
    <3>1. /\ Score(Cardinality(g.right), g.total) \in 0..MaxMarks
          /\ Score(Cardinality(g.right), g.total) # Null
      BY <1>2, ScoreIsMark
    <3>2. QED
      BY <3>1 DEF Row
  <2>3. mark[s] \in Row \cup {Missing}
    BY <1>2 DEF MarkBookInv, BookInv, BookTyped
  <2>4. /\ Written(g.row, mark[s], row) \in Row
        /\ s \notin raced => Written(g.row, mark[s], row) = row
    BY <1>2, <2>2, <2>3, WrittenIsRow, WrittenAsMeant
  <2>5. ASSUME NEW q \in DOMAIN counts
        PROVE  /\ q \in Questions /\ question[q] \in QuestionRow /\ question[q] # Missing
               /\ counts[q] \in Counters /\ counts[q].correct <= counts[q].attempts
               /\ counts[q].attempts < MaxAnswers /\ counts[q].attempts <= answered[q].attempts
               /\ q \in raced \/ counts[q] = question[q].count
               /\ answered[q] \in [attempts : Nat, correct : Nat]
    BY <1>1, <2>5 DEF Knows, GradeKnows, Banked, MarkBookInv, BankInv, BankTyped
  <2> HIDE DEF row, s, counts
  <2>6. /\ mark' \in [Students -> Row \cup {Missing}] /\ mark'[s] \in Row
        /\ s \notin raced => mark'[s] = row
        /\ \A u \in Students : u # s => mark'[u] = mark[u]
    BY <1>2, <2>1, <2>4 DEF MarkBookInv, BookInv, BookTyped
  <2>7. /\ last' \in [Students -> Row \cup {Missing}] /\ last'[s] = row
        /\ \A u \in Students : u # s => last'[u] = last[u]
    BY <1>2, <2>1, <2>2 DEF MarkBookInv, BookInv, BookTyped
  <2>8. BookInv'
    <3>1. BookTyped' /\ SavedOnce'
      BY <1>1, <2>6, <2>7 DEF MarkBookInv, BookInv, BookTyped, SavedOnce
    <3>2. MarksAreLast'
      BY <1>1, <2>2, <2>6, <2>7 DEF MarkBookInv, BookInv, MarksAreLast
    <3>3. QED
      BY <3>1, <3>2 DEF BookInv
  <2>9. ASSUME NEW q \in DOMAIN counts
        PROVE  /\ question'[q] \in QuestionRow /\ question'[q] # Missing
               /\ question'[q].by = question[q].by
               /\ question'[q].count = Ticked(counts[q], q \in g.right)
    <3>1. question'[q] = [question[q] EXCEPT !.count = Ticked(counts[q], q \in g.right)]
      BY <2>1, <2>5
    <3>2. Ticked(counts[q], q \in g.right) \in Counters
      BY <2>5, TickedCounters
    <3>3. question'[q] \in QuestionRow /\ question'[q].by = question[q].by
          /\ question'[q].count = Ticked(counts[q], q \in g.right)
      BY <2>5, <3>1, <3>2 DEF QuestionRow
    <3>4. QED
      BY <3>3, RowsAreThere
  <2>10. ASSUME NEW q \in Questions, q \notin DOMAIN counts
         PROVE  question'[q] = question[q] /\ answered'[q] = answered[q]
    BY <2>1, <2>10
  <2>11. ASSUME NEW q \in DOMAIN counts
         PROVE  /\ answered'[q] \in [attempts : Nat, correct : Nat]
                /\ answered'[q].attempts = answered[q].attempts + 1
                /\ question'[q].count.correct <= question'[q].count.attempts
                /\ question'[q].count.attempts <= answered'[q].attempts
                /\ q \notin raced => question'[q].count = answered'[q]
    <3> DEFINE k == Cardinality(g.right \cap {q})
    <3>1. answered'[q] = [attempts |-> answered[q].attempts + 1, correct |-> answered[q].correct + k]
      BY <2>1, <2>5
    <3>2. k \in Nat
      <4>1. IsFiniteSet({q}) /\ g.right \cap {q} \in SUBSET {q}
        BY FS_Singleton
      <4>2. IsFiniteSet(g.right \cap {q})
        BY <4>1, FS_Subset
      <4>3. QED
        BY <4>2, FS_CardinalityType
    <3>3. /\ question'[q].count = Ticked(counts[q], q \in g.right)
          /\ Ticked(counts[q], q \in g.right).correct <= Ticked(counts[q], q \in g.right).attempts
          /\ Ticked(counts[q], q \in g.right).attempts = counts[q].attempts + 1
          /\ Ticked(counts[q], q \in g.right) =
                [attempts |-> counts[q].attempts + 1, correct |-> counts[q].correct + k]
      <4>1. /\ counts[q] \in Counters /\ counts[q].correct <= counts[q].attempts
            /\ counts[q].attempts < MaxAnswers
        BY <2>5
      <4>2. /\ Ticked(counts[q], q \in g.right).correct <= Ticked(counts[q], q \in g.right).attempts
            /\ Ticked(counts[q], q \in g.right).attempts = counts[q].attempts + 1
            /\ Ticked(counts[q], q \in g.right) =
                  [attempts |-> counts[q].attempts + 1, correct |-> counts[q].correct + k]
        BY <4>1, TickedCounters
      <4>3. QED
        BY <2>9, <4>2
    <3> HIDE DEF k
    <3>4. q \notin raced => counts[q] = answered[q]
      BY <2>5 DEF MarkBookInv, BankInv, QuestionsCount
    <3>5. counts[q].attempts \in Nat /\ counts[q].correct \in Nat
      BY <2>5, CountersAreNat
    <3>6. answered[q].attempts \in Nat /\ answered[q].correct \in Nat
      BY <2>5
    <3>7. answered'[q].attempts = answered[q].attempts + 1
          /\ answered'[q] \in [attempts : Nat, correct : Nat]
      BY <3>1, <3>2, <3>6
    <3>8. question'[q].count.attempts <= answered'[q].attempts
      BY <2>5, <3>3, <3>5, <3>6, <3>7
    <3>9. q \notin raced => question'[q].count = answered'[q]
      BY <3>1, <3>3, <3>4
    <3>10. QED
      BY <3>3, <3>7, <3>8, <3>9
  <2>12. /\ question' \in [Questions -> QuestionRow \cup {Missing}]
         /\ answered' \in [Questions -> [attempts : Nat, correct : Nat]]
    <3>1. /\ question' = [q \in Questions |-> question'[q]]
          /\ answered' = [q \in Questions |-> answered'[q]]
      BY <2>1
    <3>2. \A q \in Questions : /\ question'[q] \in QuestionRow \cup {Missing}
                               /\ answered'[q] \in [attempts : Nat, correct : Nat]
      BY <2>9, <2>10, <2>11 DEF MarkBookInv, BankInv, BankTyped
    <3>3. QED
      BY <3>1, <3>2
  <2>13. BankTyped'
    <3>1. paper' \subseteq Banked(question')
      BY <1>1, <2>9, <2>10, <2>12 DEF MarkBookInv, BankInv, BankTyped, Banked
    <3>2. QED
      BY <1>1, <2>12, <3>1 DEF MarkBookInv, BankInv, BankTyped
  <2>14. QuestionsCount'
    <3> SUFFICES ASSUME NEW q \in Questions
                 PROVE  IF question'[q] = Missing THEN answered'[q] = NoCount
                        ELSE /\ question'[q].count.correct <= question'[q].count.attempts
                             /\ question'[q].count.attempts <= answered'[q].attempts
                             /\ q \notin raced => question'[q].count = answered'[q]
      BY <1>1 DEF QuestionsCount
    <3>1. CASE q \in DOMAIN counts
      BY <2>9, <2>11, <3>1
    <3>2. CASE q \notin DOMAIN counts
      BY <2>10, <3>2 DEF MarkBookInv, BankInv, QuestionsCount
    <3>3. QED
      BY <3>1, <3>2
  <2>15. \A q \in Questions : /\ question'[q] # Missing <=> question[q] # Missing
                              /\ question[q] # Missing => question'[q].by = question[q].by
    BY <2>5, <2>9, <2>10
  <2>16. DraftsGiveQuestions'
    BY <1>1, <2>15 DEF MarkBookInv, BankInv, DraftsGiveQuestions
  <2>17. RowsRemain(g.on)
    <3>1. \A u \in Students : /\ mark[u] # Missing => mark'[u] # Missing
                              /\ u \notin g.on => mark'[u] = mark[u]
      BY <1>2, <2>6, RowsAreThere
    <3>2. \A q \in Questions : /\ answered[q].attempts <= answered'[q].attempts
                               /\ question[q] # Missing =>
                                     /\ question'[q] # Missing
                                     /\ q \notin g.on => question'[q].count = question[q].count
      <4> SUFFICES ASSUME NEW q \in Questions
                   PROVE  /\ answered[q].attempts <= answered'[q].attempts
                          /\ question[q] # Missing =>
                                /\ question'[q] # Missing
                                /\ q \notin g.on => question'[q].count = question[q].count
        OBVIOUS
      <4>1. answered[q].attempts \in Nat
        BY DEF MarkBookInv, BankInv, BankTyped
      <4>2. CASE q \in DOMAIN counts
        BY <1>2, <2>9, <2>11, <4>1, <4>2
      <4>3. CASE q \notin DOMAIN counts
        BY <2>10, <4>1, <4>3
      <4>4. QED
        BY <4>2, <4>3
    <3>3. QED
      BY <1>1, <3>1, <3>2 DEF RowsRemain
  <2>18. WorkInv'
    BY <1>1, <2>13, <2>17, ThreadEnds
  <2>19. QED
    BY <2>8, <2>13, <2>14, <2>16, <2>18 DEF MarkBookInv, BankInv
<1>5. QED
  BY <1>3, <1>4

-----------------------------------------------------------------------------
\* Saving a page of marks.

\* The save goes on, and perhaps starts; threads that work on its students are raced.
LEMMA LoopGoesOn ==
    ASSUME MarkBookInv, BankTyped', NEW S \in SUBSET loop.on, RowsRemain(S), thread' = thread,
           SaveKnows(loop)', loop'.on \subseteq loop.on \/
               \A t \in Threads : thread[t].on \cap loop'.on \subseteq raced'
    PROVE  WorkInv'
<1>1. raced \subseteq raced'
  BY DEF RowsRemain
<1>2. \A t \in Threads : thread'[t].on \cap loop'.on \subseteq raced'
  BY <1>1 DEF MarkBookInv, WorkInv
<1>3. ASSUME NEW u \in Threads PROVE Knows(thread[u])'
  <2>1. \A h : Knows(h) /\ h.on \cap S \subseteq raced' => Knows(h)'
    BY KnowledgeStays DEF MarkBookInv, BankInv
  <2>2. Knows(thread'[u]) /\ thread'[u].on \cap S \subseteq raced'
    BY <1>1 DEF MarkBookInv, WorkInv
  <2>3. QED
    BY <2>1, <2>2
<1>4. QED
  BY <1>1, <1>2, <1>3 DEF MarkBookInv, WorkInv

LEMMA SaveReadsStep ==
    ASSUME MarkBookInv, NEW r \in Saves, SaveReads(r)
    PROVE  MarkBookInv'
<1>1. /\ loop.op = "none" /\ r \notin saved /\ raced \subseteq raced'
      /\ \A t \in Threads : thread[t].on \cap Accepted(r) \subseteq raced'
      /\ UNCHANGED <<bank, mark, saved, last, applied, thread, answered, deaths>>
  BY DEF SaveReads, InFlight, book, Free
<1>2. /\ loop'.op = "read" /\ loop'.on = Accepted(r) /\ loop'.save = r /\ loop'.rows = mark
  BY DEF SaveReads
<1>3. BankInv'
  BY <1>1, BankUntouched DEF MarkBookInv
<1>4. RowsRemain({})
  BY <1>1, UntouchedRemains DEF MarkBookInv, BookInv, BankInv
<1>5. BookInv'
  BY <1>1, <1>2 DEF MarkBookInv, BookInv, BookTyped, MarksAreLast, SavedOnce
<1>6. SaveKnows(loop)'
  <2>1. Accepted(r) \subseteq Students
    BY RowOfIsRow
  <2>2. QED
    BY <1>1, <1>2, <2>1 DEF SaveKnows, MarkBookInv, BookInv, BookTyped
<1>7. WorkInv'
  BY <1>1, <1>2, <1>3, <1>4, <1>6, LoopGoesOn DEF BankInv
<1>8. QED
  BY <1>3, <1>5, <1>7 DEF MarkBookInv

LEMMA SaveCommitsStep ==
    ASSUME MarkBookInv, SaveCommits
    PROVE  MarkBookInv'
<1> DEFINE r == loop.save
           read == loop.rows
           on == loop.on
<1>1. /\ loop.op = "read" /\ r \in Saves /\ on = Accepted(r) /\ r \notin saved
      /\ read \in [Students -> Row \cup {Missing}]
      /\ \A s \in Students : read[s] # Missing => mark[s] # Missing
      /\ \A s \in on \ raced : read[s] = mark[s]
      /\ UNCHANGED <<draft, question, paper, saved, thread, answered, raced, deaths>>
  BY DEF SaveCommits, MarkBookInv, WorkInv, SaveKnows, bank
<1>2. BankInv'
  BY <1>1, BankUntouched DEF MarkBookInv, bank
<1>3. CASE \E s \in on : InsertRefused(read[s], mark[s])
  <2>1. loop' = Free /\ UNCHANGED <<mark, last, applied>>
    BY <1>3 DEF SaveCommits
  <2>2. BookInv'
    BY <1>1, <2>1 DEF MarkBookInv, BookInv, BookTyped, MarksAreLast, SavedOnce
  <2>3. RowsRemain({})
    BY <1>1, <2>1, UntouchedRemains DEF MarkBookInv, BookInv, BankInv, bank
  <2>4. SaveKnows(loop)' /\ loop'.on = {}
    BY <2>1 DEF SaveKnows, Free
  <2>5. WorkInv'
    BY <1>1, <1>2, <2>3, <2>4, LoopGoesOn DEF BankInv
  <2>6. QED
    BY <1>2, <2>2, <2>5 DEF MarkBookInv
<1>4. CASE ~\E s \in on : InsertRefused(read[s], mark[s])
  <2>1. /\ mark' = [s \in Students |->
               IF s \in on THEN Written(read[s], mark[s], RowOf(Body[r][s])) ELSE mark[s]]
        /\ last' = [s \in Students |-> IF s \in on THEN RowOf(Body[r][s]) ELSE last[s]]
        /\ applied' = [applied EXCEPT ![r] = @ + 1]
        /\ loop' = [op |-> "keep", on |-> {}, save |-> r]
    BY <1>4 DEF SaveCommits
  <2>2. ASSUME NEW s \in on
        PROVE  /\ s \in Students /\ RowOf(Body[r][s]) \in Row
               /\ RowOf(Body[r][s]).absent <=> RowOf(Body[r][s]).marks = Null
    BY <1>1, <2>2, RowOfIsRow
  <2> HIDE DEF r, read, on
  <2>3. ASSUME NEW s \in Students
        PROVE  /\ mark'[s] \in Row \cup {Missing} /\ last'[s] \in Row \cup {Missing}
               /\ s \in on => mark'[s] \in Row /\ last'[s] = RowOf(Body[r][s])
               /\ s \in on \ raced => mark'[s] = RowOf(Body[r][s])
               /\ s \notin on => mark'[s] = mark[s] /\ last'[s] = last[s]
    <3>1. /\ mark[s] \in Row \cup {Missing} /\ last[s] \in Row \cup {Missing}
          /\ read[s] \in Row \cup {Missing} /\ (read[s] # Missing => mark[s] # Missing)
      BY <1>1 DEF MarkBookInv, BookInv, BookTyped
    <3>2. CASE s \in on
      <4>1. mark'[s] = Written(read[s], mark[s], RowOf(Body[r][s]))
            /\ last'[s] = RowOf(Body[r][s])
        BY <2>1, <3>2
      <4>2. RowOf(Body[r][s]) \in Row
        BY <2>2, <3>2
      <4>3. mark'[s] \in Row
        BY <3>1, <4>1, <4>2, WrittenIsRow
      <4>4. s \notin raced => mark'[s] = RowOf(Body[r][s])
        <5>1. s \notin raced => read[s] = mark[s]
          BY <1>1, <3>2
        <5>2. Written(read[s], read[s], RowOf(Body[r][s])) = RowOf(Body[r][s])
          BY <3>1, <4>2, WrittenAsMeant
        <5>3. QED
          BY <4>1, <5>1, <5>2
      <4>5. QED
        BY <3>2, <4>1, <4>2, <4>3, <4>4
    <3>3. CASE s \notin on
      BY <2>1, <3>1, <3>3
    <3>4. QED
      BY <3>2, <3>3
  <2>4. BookTyped'
    <3>1. mark' = [s \in Students |-> mark'[s]] /\ last' = [s \in Students |-> last'[s]]
      BY <2>1
    <3>2. mark' \in [Students -> Row \cup {Missing}] /\ last' \in [Students -> Row \cup {Missing}]
      BY <2>3, <3>1
    <3>3. applied' \in [Saves -> Nat]
      BY <1>1, <2>1 DEF MarkBookInv, BookInv, BookTyped
    <3>4. QED
      BY <1>1, <3>2, <3>3 DEF MarkBookInv, BookInv, BookTyped
  <2>5. SavedOnce'
    <3>1. applied[r] \in Nat /\ applied[r] <= deaths /\ deaths \in Nat
      BY <1>1, MarkBookAssumption DEF MarkBookInv, BookInv, BookTyped, SavedOnce
    <3>2. applied'[r] = applied[r] + 1 /\ \A x \in Saves : x # r => applied'[x] = applied[x]
      BY <1>1, <2>1 DEF MarkBookInv, BookInv, BookTyped
    <3>3. loop'.op = "keep" /\ loop'.save = r
      BY <2>1
    <3>4. QED
      BY <1>1, <3>1, <3>2, <3>3 DEF MarkBookInv, BookInv, SavedOnce
  <2>6. MarksAreLast'
    <3>1. ASSUME NEW s \in Students \ raced
          PROVE  /\ mark'[s] = last'[s]
                 /\ mark'[s] # Missing => (mark'[s].absent <=> mark'[s].marks = Null)
      <4>1. CASE s \in on
        BY <2>2, <2>3, <4>1
      <4>2. CASE s \notin on
        BY <2>3, <4>2 DEF MarkBookInv, BookInv, MarksAreLast
      <4>3. QED
        BY <4>1, <4>2
    <3>2. QED
      BY <1>1, <2>5, <3>1 DEF MarksAreLast, SavedOnce
  <2>7. RowsRemain(on)
    BY <1>1, <2>3, RowsAreThere DEF RowsRemain, MarkBookInv, BankInv, BankTyped
  <2>8. SaveKnows(loop)' /\ loop'.on = {}
    BY <1>1, <2>1 DEF SaveKnows
  <2>9. WorkInv'
    BY <1>1, <1>2, <2>7, <2>8, LoopGoesOn DEF BankInv, on
  <2>10. QED
    BY <1>2, <2>4, <2>5, <2>6, <2>9 DEF MarkBookInv, BookInv
<1>5. QED
  BY <1>3, <1>4

LEMMA SaveKeepsKeyStep ==
    ASSUME MarkBookInv, SaveKeepsKey
    PROVE  MarkBookInv'
<1>1. /\ loop.op = "keep" /\ loop.save \in Saves /\ loop' = Free
      /\ saved' = saved \cup {loop.save}
      /\ UNCHANGED <<bank, mark, last, applied, thread, answered, raced, deaths>>
  BY DEF SaveKeepsKey, MarkBookInv, WorkInv, SaveKnows
<1>2. BankInv'
  BY <1>1, BankUntouched DEF MarkBookInv
<1>3. RowsRemain({})
  BY <1>1, UntouchedRemains DEF MarkBookInv, BookInv, BankInv
<1>4. BookInv'
  BY <1>1 DEF MarkBookInv, BookInv, BookTyped, MarksAreLast, SavedOnce
<1>5. SaveKnows(loop)' /\ loop'.on = {}
  BY <1>1 DEF SaveKnows, Free
<1>6. WorkInv'
  BY <1>1, <1>2, <1>3, <1>5, LoopGoesOn DEF BankInv
<1>7. QED
  BY <1>2, <1>4, <1>6 DEF MarkBookInv

\* What a process was about to store it stores no more: the next save of the same
\* request is the one that its death accounts for.
LEMMA ProcessDiesStep ==
    ASSUME MarkBookInv, ProcessDies
    PROVE  MarkBookInv'
<1>1. /\ deaths' = deaths + 1 /\ deaths < MaxDeaths /\ loop' = Free
      /\ thread' = [t \in Threads |-> Free]
      /\ UNCHANGED <<bank, mark, saved, last, applied, answered, raced>>
  BY DEF ProcessDies, book
<1>2. BankInv'
  BY <1>1, BankUntouched DEF MarkBookInv
<1>3. BookInv'
  <2>1. deaths \in Nat /\ deaths' \in 0..MaxDeaths
    BY <1>1, MarkBookAssumption DEF MarkBookInv, BookInv, BookTyped
  <2>2. QED
    BY <1>1, <2>1 DEF MarkBookInv, BookInv, BookTyped, MarksAreLast, SavedOnce
<1>4. WorkInv'
  <2>1. \A t \in Threads : thread'[t] = Free
    BY <1>1
  <2>2. ASSUME NEW t \in Threads PROVE Knows(thread[t])'
    BY <2>1 DEF Free, Knows, ReviewKnows, GradeKnows, PaperKnows, WriteKnows
  <2>3. SaveKnows(loop)'
    BY <1>1 DEF SaveKnows, Free
  <2>4. QED
    BY <1>1, <2>1, <2>2, <2>3 DEF WorkInv, Free
<1>5. QED
  BY <1>2, <1>3, <1>4 DEF MarkBookInv

-----------------------------------------------------------------------------

LEMMA InitMarkBookInv == MarkBookInit => MarkBookInv
<1> SUFFICES ASSUME MarkBookInit PROVE MarkBookInv
  OBVIOUS
<1>1. BookInv
  BY MarkBookAssumption DEF MarkBookInit, BookInv, BookTyped, MarksAreLast, SavedOnce
<1>2. BankInv
  <2>1. NoCount \in [attempts : Nat, correct : Nat]
    BY DEF NoCount
  <2>2. QED
    BY <2>1 DEF MarkBookInit, BankInv, BankTyped, Banked, QuestionsCount, DraftsGiveQuestions
<1>3. WorkInv
  BY DEF MarkBookInit, WorkInv, SaveKnows, Free, Knows, ReviewKnows, GradeKnows, PaperKnows,
     WriteKnows
<1>4. QED
  BY <1>1, <1>2, <1>3 DEF MarkBookInv

LEMMA MarkBookStep == MarkBookInv /\ [MarkBookNext]_markVars => MarkBookInv'
<1> SUFFICES ASSUME MarkBookInv, [MarkBookNext]_markVars PROVE MarkBookInv'
  OBVIOUS
<1>1. CASE BankNext
  BY <1>1, CreateQuestionStep, SubmitDraftStep, ReadDraftStep, ApproveDraftStep, RejectDraftStep,
     ComposeStep DEF BankNext
<1>2. CASE GradeNext
  BY <1>2, GradeReadsStep, GradeLooksUpStep, GradeCommitsStep DEF GradeNext
<1>3. CASE SaveNext
  BY <1>3, SaveReadsStep, SaveCommitsStep, SaveKeepsKeyStep DEF SaveNext
<1>4. CASE ProcessDies
  BY <1>4, ProcessDiesStep
<1>5. CASE UNCHANGED markVars
  <2>1. UNCHANGED <<bank, mark, saved, last, applied, loop, thread, answered, raced, deaths>>
    BY <1>5 DEF markVars, bank
  <2>2. BookInv' /\ BankInv'
    BY <2>1, BookUntouched, BankUntouched DEF MarkBookInv
  <2>3. RowsRemain({})
    BY <2>1, UntouchedRemains DEF MarkBookInv, BookInv, BankInv
  <2>4. WorkInv'
    BY <2>1, <2>2, <2>3, NobodyWorks DEF BankInv
  <2>5. QED
    BY <2>2, <2>4 DEF MarkBookInv
<1>6. QED
  BY <1>1, <1>2, <1>3, <1>4, <1>5 DEF MarkBookNext

LEMMA AlwaysMarkBookInv == MarkBookSpec => []MarkBookInv
<1>1. QED
  BY InitMarkBookInv, MarkBookStep, PTL DEF MarkBookSpec

\* Unless an automatic grading of the student overlapped with another request about it, a
\* mark row is what the last committed request meant; and a repeated save is committed once,
\* but for once more per death of the process: for any class, page of marks and threads.
THEOREM MarksStayLast == MarkBookSpec => []MarksAreLast
<1>1. MarkBookInv => MarksAreLast
  BY DEF MarkBookInv, BookInv
<1>2. QED
  BY <1>1, AlwaysMarkBookInv, PTL

\* No mark is outside 0..max_marks, the counters of a question are exact unless two gradings
\* of it overlapped, and a draft gives one question unless two reviews of it overlapped.
THEOREM BankStaysExact == MarkBookSpec => []BankIsExact
<1>1. MarkBookInv => BankIsExact
  <2>1. MarkBookInv => MarkBookTypeOK
    BY DEF MarkBookInv, BookInv, BookTyped, BankInv, BankTyped, MarkBookTypeOK
  <2>2. MarkBookInv =>
            \A q \in Banked(question) :
                /\ question[q].count.attempts <= answered[q].attempts
                /\ q \notin raced => question[q].count = answered[q]
    BY DEF MarkBookInv, BankInv, BankTyped, QuestionsCount, Banked
  <2>3. QED
    BY <2>1, <2>2 DEF MarkBookInv, BankInv, DraftsGiveQuestions, BankIsExact
<1>2. QED
  BY <1>1, AlwaysMarkBookInv, PTL

===============================================================================
