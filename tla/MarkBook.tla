-------------------------------- MODULE MarkBook --------------------------------
(* The marks of one assessment and the question bank behind it (academics     *)
(* service): assessment_service.py, assessment_routes.py,                     *)
(* question_bank_routes.py.  Saving a page of marks is an async handler that  *)
(* never gives the event loop away, so saves follow one another; automatic    *)
(* grading and reviews are plain handlers in pool threads beside it.  Nothing *)
(* is locked, and an UPDATE writes the columns that differ from the row as it *)
(* was read.  Marks count hundredths.  The process dies at most MaxDeaths     *)
(* times and a question is answered at most MaxAnswers times.                 *)
EXTENDS Integers, FiniteSets
CONSTANTS Students, Questions, Drafts, Threads,
          Saves,        \* X-Request-Ids of the saves
          Body,         \* save -> the entries it sends, by student
          MaxMarks, Null, Missing, MaxDeaths, MaxAnswers

Row == [marks : 0..MaxMarks \cup {Null}, absent : BOOLEAN]
Entry == [marks : Nat \cup {Null}, absent : BOOLEAN]

ASSUME MarkBookAssumption ==
    /\ MaxMarks \in Nat \ {0} /\ Null \notin Int /\ Missing \notin Row
    /\ MaxDeaths \in Nat /\ MaxAnswers \in Nat
    /\ \A r \in Saves : DOMAIN Body[r] \subseteq Students
                            /\ \A s \in DOMAIN Body[r] : Body[r][s] \in Entry

VARIABLES draft, question,  \* the question bank
          paper,            \* the questions bound to the assessment
          mark,             \* student -> mark row
          saved,            \* idempotency keys of the saves
          loop, thread,     \* the request on the event loop, those in pool threads
          \* history: the row last meant for a student, gradings of a question, how
          \* often a save was committed, what two requests worked on at once, deaths
          last, answered, applied, raced, deaths
markVars == <<draft, question, paper, mark, saved, loop, thread, last, answered, applied,
          raced, deaths>>
bank == <<draft, question, paper>>
book == <<mark, saved, last, applied>>

Free == [op |-> "none", on |-> {}]
NoCount == [attempts |-> 0, correct |-> 0]
Counters == [attempts : 0..MaxAnswers, correct : 0..MaxAnswers]
QuestionRow == [count : Counters, by : Drafts \cup {Missing}]
DraftRow == [review : {"pending", "approved", "rejected"}, question : Questions \cup {Missing}]
ASSUME BankAssumption ==
    IsFiniteSet(Questions) /\ Missing \notin Drafts \cup Questions \cup QuestionRow \cup DraftRow

Banked(rows) == {x \in DOMAIN rows : rows[x] # Missing}

MarkBookInit ==
    /\ draft = [d \in Drafts |-> Missing] /\ question = [q \in Questions |-> Missing]
    /\ paper = {} /\ mark = [s \in Students |-> Missing] /\ saved = {}
    /\ loop = Free /\ thread = [t \in Threads |-> Free]
    /\ last = [s \in Students |-> Missing] /\ answered = [q \in Questions |-> NoCount]
    /\ applied = [r \in Saves |-> 0] /\ raced = {} /\ deaths = 0

InFlight == loop.on \cup UNION {thread[t].on : t \in Threads}
Starts(t, req) ==
    /\ thread[t] = Free
    /\ thread' = [thread EXCEPT ![t] = req]
    /\ raced' = raced \cup (req.on \cap InFlight)
    /\ UNCHANGED <<loop, deaths>>
Ends(t) == thread' = [thread EXCEPT ![t] = Free] /\ UNCHANGED <<loop, raced, deaths>>

------------------------------------------------------------------------------
\* The question bank.

NewQuestion(d) == [count |-> NoCount, by |-> d]

CreateQuestion(q) ==
    /\ question[q] = Missing
    /\ question' = [question EXCEPT ![q] = NewQuestion(Missing)]
    /\ UNCHANGED <<draft, paper, book, loop, thread, answered, raced, deaths>>

SubmitDraft(d) ==
    /\ draft[d] = Missing
    /\ draft' = [draft EXCEPT ![d] = [review |-> "pending", question |-> Missing]]
    /\ UNCHANGED <<question, paper, book, loop, thread, answered, raced, deaths>>

\* Slip: a draft that was reviewed is reviewed again.
ReadDraftAgain(t, d, verdict) ==
    /\ draft[d] # Missing
    /\ Starts(t, [op |-> verdict, on |-> {d}])
    /\ UNCHANGED <<bank, book, answered>>

ReadDraft(t, d, verdict) ==
    /\ draft[d] # Missing /\ draft[d].review = "pending"
    /\ Starts(t, [op |-> verdict, on |-> {d}])
    /\ UNCHANGED <<bank, book, answered>>

ApproveDraft(t, d, q) ==
    /\ thread[t] = [op |-> "approve", on |-> {d}] /\ question[q] = Missing
    /\ question' = [question EXCEPT ![q] = NewQuestion(d)]
    /\ draft' = [draft EXCEPT ![d] = [review |-> "approved", question |-> q]]
    /\ Ends(t)
    /\ UNCHANGED <<paper, book, answered>>

RejectDraft(t, d) ==
    /\ thread[t] = [op |-> "reject", on |-> {d}]
    /\ draft' = [draft EXCEPT ![d].review = "rejected"]
    /\ Ends(t)
    /\ UNCHANGED <<question, paper, book, answered>>

\* The questions are checked and bound; a question never leaves the bank.
Compose(Q) ==
    /\ Q \subseteq Banked(question)
    /\ paper' = Q
    /\ UNCHANGED <<draft, question, book, loop, thread, answered, raced, deaths>>

------------------------------------------------------------------------------
\* Automatic grading of one student.

\* correct / bound * max_marks, rounded to hundredths.
Score(n, total) == (2 * n * MaxMarks + total) \div (2 * total)

\* answers: the bound questions that are answered, and which of them rightly.
GradeReads(t, s, answers) ==
    /\ paper # {} /\ DOMAIN answers \subseteq paper
    /\ \A q \in DOMAIN answers : answered[q].attempts < MaxAnswers
    /\ Starts(t, [op |-> "grade", on |-> {s} \cup DOMAIN answers, student |-> s, paper |-> paper,
                  right |-> {q \in DOMAIN answers : answers[q]},
                  counts |-> [q \in DOMAIN answers |-> question[q].count]])
    /\ UNCHANGED <<bank, book, answered>>

GradeLooksUp(t) ==
    /\ thread[t].op = "grade"
    /\ thread' = [thread EXCEPT ![t] =
           [op |-> "write", on |-> @.on, student |-> @.student, right |-> @.right,
            counts |-> @.counts, total |-> Cardinality(@.paper), row |-> mark[@.student]]]
    /\ UNCHANGED <<bank, book, loop, answered, raced, deaths>>

\* Slips: is_absent is not written; only a right answer is an attempt.
ForgetsAbsence(read, now, row) ==
    IF read = Missing THEN row
    ELSE [now EXCEPT !.marks = IF row.marks = read.marks THEN @ ELSE row.marks]
TicksTheRight(count, right) ==
    [attempts |-> count.attempts + (IF right THEN 1 ELSE 0),
     correct |-> count.correct + (IF right THEN 1 ELSE 0)]

\* What an UPDATE of a row that was read makes of the row there now.
Written(read, now, row) ==
    IF read = Missing THEN row
    ELSE [marks |-> IF row.marks = read.marks THEN now.marks ELSE row.marks,
          absent |-> IF row.absent = read.absent THEN now.absent ELSE row.absent]
Ticked(count, right) ==
    [attempts |-> count.attempts + 1, correct |-> count.correct + (IF right THEN 1 ELSE 0)]

\* A row inserted meanwhile refuses the insert, and with it the whole request.
InsertRefused(read, now) == read = Missing /\ now # Missing

GradeCommits(t) ==
    /\ thread[t].op = "write"
    /\ LET g == thread[t]   s == g.student
           row == [marks |-> Score(Cardinality(g.right), g.total), absent |-> FALSE]
       IN IF InsertRefused(g.row, mark[s])
          THEN UNCHANGED <<question, mark, last, answered>>
          ELSE /\ question' = [q \in Questions |->
                      IF q \in DOMAIN g.counts
                      THEN [question[q] EXCEPT !.count = Ticked(g.counts[q], q \in g.right)]
                      ELSE question[q]]
               /\ mark' = [mark EXCEPT ![s] = Written(g.row, @, row)]
               /\ last' = [last EXCEPT ![s] = row]
               /\ answered' = [q \in Questions |->
                      IF q \in DOMAIN g.counts
                      THEN [attempts |-> answered[q].attempts + 1,
                            correct |-> answered[q].correct + Cardinality(g.right \cap {q})]
                      ELSE answered[q]]
    /\ Ends(t)
    /\ UNCHANGED <<draft, paper, saved, applied>>

------------------------------------------------------------------------------
\* Saving a page of marks.

\* Slip: no mark is too high.
AcceptableAtAnyHeight(entry) == entry.absent \/ entry.marks # Null
Acceptable(entry) == entry.absent \/ (entry.marks # Null /\ entry.marks <= MaxMarks)
\* Slip: an absent student keeps the marks that were sent.
RowAsSent(entry) == [marks |-> entry.marks, absent |-> entry.absent]
RowOf(entry) == [marks |-> IF entry.absent THEN Null ELSE entry.marks, absent |-> entry.absent]
Accepted(r) == {s \in DOMAIN Body[r] : Acceptable(Body[r][s])}

\* Slip: the key of the request is not looked up.
ReadsAnyway(r) ==
    /\ loop = Free
    /\ loop' = [op |-> "read", on |-> Accepted(r), save |-> r, rows |-> mark]
    /\ raced' = raced \cup (Accepted(r) \cap InFlight)
    /\ UNCHANGED <<bank, book, thread, answered, deaths>>

\* A request whose key is stored is answered from it.
SaveReads(r) ==
    /\ loop = Free /\ r \notin saved
    /\ loop' = [op |-> "read", on |-> Accepted(r), save |-> r, rows |-> mark]
    /\ raced' = raced \cup (Accepted(r) \cap InFlight)
    /\ UNCHANGED <<bank, book, thread, answered, deaths>>

SaveCommits ==
    /\ loop.op = "read"
    /\ LET r == loop.save   read == loop.rows IN
       IF \E s \in loop.on : InsertRefused(read[s], mark[s])
       THEN loop' = Free /\ UNCHANGED <<mark, last, applied>>
       ELSE /\ mark' = [s \in Students |->
                   IF s \in loop.on THEN Written(read[s], mark[s], RowOf(Body[r][s])) ELSE mark[s]]
            /\ last' = [s \in Students |->
                   IF s \in loop.on THEN RowOf(Body[r][s]) ELSE last[s]]
            /\ applied' = [applied EXCEPT ![r] = @ + 1]
            /\ loop' = [op |-> "keep", on |-> {}, save |-> r]
    /\ UNCHANGED <<bank, saved, thread, answered, raced, deaths>>

\* The key is a commit of its own.
SaveKeepsKey ==
    /\ loop.op = "keep"
    /\ saved' = saved \cup {loop.save} /\ loop' = Free
    /\ UNCHANGED <<bank, mark, last, applied, thread, answered, raced, deaths>>

------------------------------------------------------------------------------
ProcessDies ==
    /\ deaths < MaxDeaths /\ deaths' = deaths + 1
    /\ loop' = Free /\ thread' = [t \in Threads |-> Free]
    /\ UNCHANGED <<bank, book, answered, raced>>

AnswerSheets == UNION {[Q -> BOOLEAN] : Q \in SUBSET paper}

BankNext ==
    \/ \E q \in Questions : CreateQuestion(q)
    \/ \E d \in Drafts : SubmitDraft(d)
    \/ \E t \in Threads, d \in Drafts :
          \/ ReadDraft(t, d, "approve") \/ ReadDraft(t, d, "reject") \/ RejectDraft(t, d)
          \/ \E q \in Questions : ApproveDraft(t, d, q)
    \/ \E Q \in SUBSET Questions : Compose(Q)

GradeNext ==
    \E t \in Threads :
       \/ \E s \in Students, answers \in AnswerSheets : GradeReads(t, s, answers)
       \/ GradeLooksUp(t) \/ GradeCommits(t)

SaveNext == SaveCommits \/ SaveKeepsKey \/ \E r \in Saves : SaveReads(r)

MarkBookNext == BankNext \/ GradeNext \/ SaveNext \/ ProcessDies
MarkBookSpec == MarkBookInit /\ [][MarkBookNext]_markVars

------------------------------------------------------------------------------
MarkBookTypeOK ==
    /\ mark \in [Students -> Row \cup {Missing}]
    /\ question \in [Questions -> QuestionRow \cup {Missing}]
    /\ draft \in [Drafts -> DraftRow \cup {Missing}]
    /\ paper \subseteq Banked(question) /\ saved \subseteq Saves
    /\ deaths \in 0..MaxDeaths

\* Unless an automatic grading of the student overlapped with another request about
\* it, a mark row is exactly what the last committed request meant, never half of it
\* and never an earlier one, and its marks are null exactly for an absence.  A save is
\* committed once, however often its request is repeated, but for once more per death
\* of the process.
MarksAreLast ==
    /\ \A s \in Students \ raced :
          /\ mark[s] = last[s]
          /\ mark[s] # Missing => (mark[s].absent <=> mark[s].marks = Null)
    /\ \A r \in Saves : applied[r] <= 1 + deaths

\* Every variable stays in its type, so that no mark is outside 0..max_marks; the
\* counters of a question never exceed its gradings, and they are exact unless
\* two gradings of it overlapped; unless two reviews overlapped, a draft gives one
\* question when it is approved and none when it is not.
BankIsExact ==
    /\ MarkBookTypeOK
    /\ \A q \in Banked(question) :
          /\ question[q].count.attempts <= answered[q].attempts
          /\ q \notin raced => question[q].count = answered[q]
    /\ \A d \in Drafts \ raced, q \in Questions :
          (question[q] # Missing /\ question[q].by = d)
              <=> (draft[d] # Missing /\ draft[d].review = "approved" /\ draft[d].question = q)
===============================================================================
