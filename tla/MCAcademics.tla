------------------------------ MODULE MCAcademics ------------------------------
(* The curriculum and the marks of the academics service.  One behaviour is   *)
(* about the curriculum, with one unit of a topic and a possible subtopic; or *)
(* about reviewing drafts of questions, about grading a paper, or about       *)
(* saving pages of marks beside the grading of a paper of one question.  The  *)
(* bank of questions is there from the start when marks are given.            *)
EXTENDS CurriculumAdoption, MarkBook, TLC
CONSTANTS u1, t1, t2, s1, s2, r1, r2, r3, q1, q2
VARIABLE focus

MCUnitOf == (t1 :> u1) @@ (t2 :> u1)

\* r2 is the save r1 sent again under a new request id, as the offline queue does.
MCBody ==
    LET page == (s1 :> [marks |-> 2, absent |-> FALSE]) @@ (s2 :> [marks |-> 1, absent |-> TRUE])
        other == (s1 :> [marks |-> 1, absent |-> TRUE]) @@ (s2 :> [marks |-> 3, absent |-> FALSE])
    IN (r1 :> page) @@ (r2 :> page) @@ (r3 :> other)

Bank == [q \in Questions |-> NewQuestion(Missing)]
BankIsThere ==
    /\ draft = [d \in Drafts |-> Missing] /\ question = Bank
    /\ paper = {} /\ mark = [s \in Students |-> Missing] /\ saved = {}
    /\ loop = Free /\ thread = [t \in Threads |-> Free]
    /\ last = [s \in Students |-> Missing] /\ answered = [q \in Questions |-> NoCount]
    /\ applied = [r \in Saves |-> 0] /\ raced = {} /\ deaths = 0
MCInit ==
    /\ CurriculumInit
    /\ \/ MarkBookInit /\ focus \in {"curriculum", "reviews"}
       \/ BankIsThere /\ focus \in {"grading", "saving"}
MCNext ==
    /\ \/ focus = "curriculum" /\ CurriculumNext /\ UNCHANGED markVars
       \/ focus = "reviews" /\ BankNext /\ UNCHANGED vars
       \/ focus = "grading" /\ (GradeNext \/ Compose({q1}) \/ Compose(Questions)) /\ UNCHANGED vars
       \/ /\ focus = "saving" /\ UNCHANGED vars
          /\ GradeNext \/ SaveNext \/ ProcessDies \/ Compose({q1})
    /\ UNCHANGED focus

\* Only t1 is edited and only t2 hangs under another topic, in either tree,
FewEdits ==
    \A rows \in {national, copy}, k \in Keys :
        Present(rows, k) => /\ k # t1 => rows[k].attr = 1
                            /\ k # t2 => rows[k].parent = NoParent
\* and two of these edits at most are there at once.
Edited(rows) == {k \in {t1, t2} : Present(rows, k) /\ (rows[k].attr # 1 \/ rows[k].parent # NoParent)}
TwoEdits == Cardinality(Edited(national)) + Cardinality(Edited(copy)) <= 2
\* One student is graded, beside the saves by one thread, and two answers are counted.
FewGradings ==
    /\ answered[q1].attempts + answered[q2].attempts <= 2
    /\ \A t \in Threads : "student" \in DOMAIN thread[t] =>
           /\ thread[t].student = s1
           /\ focus = "saving" => \A u \in Threads \ {t} : thread[u] = Free
Bounds == FewEdits /\ TwoEdits /\ FewGradings
MCSpec == MCInit /\ [][MCNext /\ Bounds']_<<vars, markVars, focus>>
MCSymmetry == Permutations(Offices)
===============================================================================
