----------------------------- MODULE HomeworkLibrary -----------------------------
(* Homework of one school: national templates it adopts, templates of its own *)
(* that are instantiated for a class, submissions, and the attachments of     *)
(* templates and instances.  Attachments are rows of the communications       *)
(* service and bytes on a disk; to instantiate a template, academics asks     *)
(* communications to clone them and commits the instance afterwards.  Lesson  *)
(* plans are handled alike.  A file is named as it was first uploaded; an      *)
(* upload to an instance is like one to a template and left out.              *)
EXTENDS Integers, FiniteSets, Handlers
CONSTANTS Nationals, Templates, Homeworks, Files, Pupils, Values

NationalRow == [published : BOOLEAN, archived : BOOLEAN]
TemplateRow == [source : Nationals \cup {NoRow}]
HomeworkRow == [template : Templates, error : BOOLEAN, cloned : Nat]
CloneRow == [template : Templates, found : SUBSET Files, made : SUBSET Files, done : BOOLEAN]

ASSUME LibraryAssumption ==
    /\ Templates \cap Homeworks = {} /\ IsFiniteSet(Files)
    /\ NoRow \notin Nationals /\ NoRow \notin Values
    /\ NoRow \notin TemplateRow /\ NoRow \notin HomeworkRow /\ NoRow \notin CloneRow

VARIABLES national,           \* codes of national templates: drafted, published, archived
          template, adopted,  \* templates by source; history: code -> templates answered
          homework, broken,   \* instances; history: those whose request broke
          attached, bytes,    \* rows of attachments by owner and file; files on the disk
          halved,             \* history: attachments whose delete broke half-way
          cloning,            \* instance -> clone at work in communications
          body, grade,        \* columns of submissions, by instance and pupil
          given               \* history: the last body and the last grade answered
adoptions == <<national, template, adopted>>
instances == <<homework, broken, cloning>>
disk == <<attached, bytes, halved>>
submissions == <<body, grade, given>>
homeworkVars == <<adoptions, instances, disk, submissions>>

Owners == Templates \cup Homeworks
Papers == Homeworks \X Pupils
HomeworkInit ==
    /\ national = [n \in Nationals |-> NoRow] /\ template = [t \in Templates |-> NoRow]
    /\ adopted = [n \in Nationals |-> {}]
    /\ homework = [h \in Homeworks |-> NoRow] /\ broken = {} /\ halved = {}
    /\ cloning = [h \in Homeworks |-> NoRow]
    /\ attached = [a \in Owners \X Files |-> "none"] /\ bytes = {}
    /\ body = [p \in Papers |-> NoRow] /\ grade = [p \in Papers |-> NoRow]
    /\ given = [body |-> body, grade |-> grade]

------------------------------------------------------------------------------
\* National templates: `code` is unique; publishing and archiving are for good.

DraftNational(n) ==
    /\ national[n] = NoRow
    /\ national' = [national EXCEPT ![n] = [published |-> FALSE, archived |-> FALSE]]
    /\ UNCHANGED <<template, adopted, callers>>
PublishNational(n) ==
    /\ national[n] # NoRow /\ ~national[n].archived
    /\ national' = [national EXCEPT ![n].published = TRUE]
    /\ UNCHANGED <<template, adopted, callers>>
ArchiveNational(n) ==
    /\ national[n] # NoRow
    /\ national' = [national EXCEPT ![n].archived = TRUE]
    /\ UNCHANGED <<template, adopted, callers>>

CopiesOf(n) == {t \in Templates : template[t] # NoRow /\ template[t].source = n}
AnswersCopy(n, t) == adopted' = [adopted EXCEPT ![n] = @ \cup {t}]

ReadForAdopt(c, n) ==
    /\ national[n] # NoRow /\ national[n].published /\ ~national[n].archived
    /\ CopiesOf(n) = {}
    /\ Reads(c, [op |-> "adopt", on |-> {}, national |-> n])
    /\ UNCHANGED adoptions
\* Slip: a second copy of the same national template goes in.
AnyCopy(n) == TRUE
\* School and source are unique together.
Uncopied(n) == CopiesOf(n) = {}
Adopt(c, t) ==
    /\ request[c].op = "adopt" /\ template[t] = NoRow /\ Uncopied(request[c].national)
    /\ template' = [template EXCEPT ![t] = [source |-> request[c].national]]
    /\ AnswersCopy(request[c].national, t) /\ Ends(c) /\ UNCHANGED national
\* The insert that loses the race is rolled back and the copy that won is answered.
AdoptLoses(c) ==
    /\ request[c].op = "adopt"
    /\ \E t \in CopiesOf(request[c].national) : AnswersCopy(request[c].national, t)
    /\ Ends(c) /\ UNCHANGED <<national, template>>
AdoptAgain(n) ==
    /\ national[n] # NoRow /\ national[n].published /\ ~national[n].archived
    /\ \E t \in CopiesOf(n) : AnswersCopy(n, t)
    /\ UNCHANGED <<national, template, callers>>

CreateTemplate(t) ==
    /\ template[t] = NoRow /\ template' = [template EXCEPT ![t] = [source |-> NoRow]]
    /\ UNCHANGED <<national, adopted, callers>>

------------------------------------------------------------------------------
\* Attachments.

LiveAt(o) == {f \in Files : attached[<<o, f>>] = "live"}

\* The bytes are on the disk before the row is there.
SaveBytes(c, t, f) ==
    /\ attached[<<t, f>>] = "none" /\ <<t, f>> \notin bytes
    /\ Reads(c, [op |-> "upload", on |-> {}, at |-> <<t, f>>])
    /\ bytes' = bytes \cup {<<t, f>>} /\ UNCHANGED <<attached, halved>>
CommitUpload(c) ==
    /\ request[c].op = "upload"
    /\ attached' = [attached EXCEPT ![request[c].at] = "live"]
    /\ Ends(c) /\ UNCHANGED <<bytes, halved>>

ReadForDelete(c, o, f) ==
    /\ attached[<<o, f>>] = "live"
    /\ Reads(c, [op |-> "unlink", on |-> {}, at |-> <<o, f>>])
    /\ UNCHANGED disk
\* The bytes are gone before the row says so.
RemoveBytes(c) ==
    /\ request[c].op = "unlink"
    /\ bytes' = bytes \ {request[c].at}
    /\ request' = [request EXCEPT ![c] = [op |-> "delete", on |-> @.on, at |-> @.at]]
    /\ UNCHANGED <<attached, halved, raced>>
CommitDelete(c) ==
    /\ request[c].op = "delete"
    /\ attached' = [attached EXCEPT ![request[c].at] = "deleted"]
    /\ Ends(c) /\ UNCHANGED <<bytes, halved>>

------------------------------------------------------------------------------
\* Instances.  The row is flushed, the attachments are cloned, and then it is committed.

ReadForInstance(c, t, h) ==
    /\ template[t] # NoRow /\ homework[h] = NoRow /\ h \notin broken
    /\ \A d \in Callers : request[d].op = "clone" => request[d].instance # h
    /\ Reads(c, [op |-> "clone", on |-> {}, template |-> t, instance |-> h])
    /\ UNCHANGED <<instances, disk>>
StartClone(c) ==
    /\ request[c].op = "clone" /\ cloning[request[c].instance] = NoRow
    /\ LET t == request[c].template
       IN cloning' = [cloning EXCEPT ![request[c].instance] =
            [template |-> t, found |-> LiveAt(t), made |-> {}, done |-> FALSE]]
    /\ UNCHANGED <<homework, broken, disk, callers>>
\* Slip: a file that could be read may be left out as well.
CopiedSome(at, made) == made \subseteq cloning[at].found
\* A file found is copied unless its bytes are gone when it is read.
Copied(at, made) ==
    /\ made \subseteq cloning[at].found
    /\ \A f \in cloning[at].found : <<cloning[at].template, f>> \in bytes => f \in made
CommitClone(h, made) ==
    /\ cloning[h] # NoRow /\ ~cloning[h].done /\ Copied(h, made)
    /\ cloning' = [cloning EXCEPT ![h].done = TRUE, ![h].made = made]
    /\ attached' = [a \in Owners \X Files |-> IF a \in {h} \X made THEN "live" ELSE attached[a]]
    /\ bytes' = bytes \cup {h} \X made
    /\ UNCHANGED <<homework, broken, halved, callers>>
\* The clone's answer, or none within five seconds: the instance is made all the same.
Commits(c, row) ==
    /\ homework' = [homework EXCEPT ![request[c].instance] = row]
    /\ Ends(c) /\ UNCHANGED <<broken, cloning, disk>>
CommitInstance(c) ==
    /\ request[c].op = "clone"
    /\ LET h == request[c].instance
       IN /\ cloning[h] # NoRow /\ cloning[h].done
          /\ Commits(c, [template |-> request[c].template, error |-> FALSE,
                         cloned |-> Cardinality(cloning[h].made)])
CommitWithError(c) ==
    /\ request[c].op = "clone"
    /\ Commits(c, [template |-> request[c].template, error |-> TRUE, cloned |-> 0])
\* A request that breaks leaves what other services and the disk have of it.
Breaks(c) ==
    /\ GivesUp(c)
    /\ broken' = IF request[c].op = "clone" THEN broken \cup {request[c].instance} ELSE broken
    /\ halved' = IF request[c].op = "delete" THEN halved \cup {request[c].at} ELSE halved
    /\ UNCHANGED <<adoptions, homework, cloning, attached, bytes, submissions>>

------------------------------------------------------------------------------
\* Submissions: one row for a homework and a pupil.  A row exists once its body is set.

ReadForSubmit(c, p, v) ==
    /\ homework[p[1]] # NoRow
    /\ Reads(c, [op |-> "submit", on |-> {<<"body", p>>}, paper |-> p, seen |-> body[p], new |-> v])
    /\ UNCHANGED submissions
Submit(c) ==
    /\ request[c].op = "submit"
    /\ LET r == request[c]
       IN /\ r.seen = NoRow => body[r.paper] = NoRow
          /\ body' = [body EXCEPT ![r.paper] = Written(@, r.seen, r.new)]
          /\ given' = [given EXCEPT !.body[r.paper] = r.new]
    /\ Ends(c) /\ UNCHANGED grade
ReadForGrade(c, p, v) ==
    /\ body[p] # NoRow
    /\ Reads(c, [op |-> "grade", on |-> {<<"grade", p>>}, paper |-> p, seen |-> grade[p], new |-> v])
    /\ UNCHANGED submissions
GradePaper(c) ==
    /\ request[c].op = "grade"
    /\ LET r == request[c]
       IN /\ grade' = [grade EXCEPT ![r.paper] = Written(@, r.seen, r.new)]
          /\ given' = [given EXCEPT !.grade[r.paper] = r.new]
    /\ Ends(c) /\ UNCHANGED body

AdoptionsNext ==
    /\ \/ \E n \in Nationals : \/ DraftNational(n) \/ PublishNational(n) \/ ArchiveNational(n)
                               \/ AdoptAgain(n) \/ \E c \in Callers : ReadForAdopt(c, n)
       \/ \E t \in Templates : CreateTemplate(t) \/ \E c \in Callers : Adopt(c, t)
       \/ \E c \in Callers : AdoptLoses(c)
    /\ UNCHANGED <<instances, disk, submissions>>
DiskNext ==
    /\ \E c \in Callers : \/ \E t \in Templates, f \in Files : SaveBytes(c, t, f)
                        \/ \E o \in Owners, f \in Files : ReadForDelete(c, o, f)
                        \/ CommitUpload(c) \/ RemoveBytes(c) \/ CommitDelete(c)
    /\ UNCHANGED <<adoptions, instances, submissions>>
InstancesNext ==
    /\ \/ \E c \in Callers : \/ \E t \in Templates, h \in Homeworks : ReadForInstance(c, t, h)
                           \/ StartClone(c) \/ CommitInstance(c) \/ CommitWithError(c)
       \/ \E h \in Homeworks, made \in SUBSET Files : CommitClone(h, made)
    /\ UNCHANGED <<adoptions, submissions>>
SubmissionsNext ==
    /\ \E c \in Callers : \/ \E p \in Papers, v \in Values : ReadForSubmit(c, p, v) \/ ReadForGrade(c, p, v)
                        \/ Submit(c) \/ GradePaper(c)
    /\ UNCHANGED <<adoptions, instances, disk>>
BreaksNext == \E c \in Callers : Breaks(c)
HomeworkNext == AdoptionsNext \/ DiskNext \/ InstancesNext \/ SubmissionsNext \/ BreaksNext
HomeworkSpec == HomeworkInit /\ HandlersInit /\ [][HomeworkNext]_<<homeworkVars, callers>>

------------------------------------------------------------------------------
HomeworkTypeOK ==
    /\ national \in [Nationals -> NationalRow \cup {NoRow}]
    /\ template \in [Templates -> TemplateRow \cup {NoRow}]
    /\ adopted \in [Nationals -> SUBSET Templates]
    /\ homework \in [Homeworks -> HomeworkRow \cup {NoRow}] /\ broken \subseteq Homeworks
    /\ cloning \in [Homeworks -> CloneRow \cup {NoRow}]
    /\ attached \in [Owners \X Files -> {"none", "live", "deleted"}]
    /\ bytes \subseteq Owners \X Files /\ halved \subseteq Owners \X Files
    /\ body \in [Papers -> Values \cup {NoRow}] /\ grade \in [Papers -> Values \cup {NoRow}]
    /\ given \in [body : [Papers -> Values \cup {NoRow}],
                  grade : [Papers -> Values \cup {NoRow}]]

\* However adoptions overlap, a school has one copy of a national template and every
\* adoption was answered with that copy.
AdoptionsAgree ==
    \A n \in Nationals : Cardinality(CopiesOf(n)) <= 1 /\ adopted[n] \subseteq CopiesOf(n)
\* A row that is live has its bytes unless a delete of that very row is at work or broke: the
\* files of an instance never hang on those of its template.
FilesAgree ==
    \A a \in Owners \X Files : attached[a] = "live" =>
        \/ a \in bytes \cup halved
        \/ \E c \in Callers : request[c].op = "delete" /\ request[c].at = a
\* An instance made without an error has a clone of every file that was found at its template
\* and can still be read there, and counted them; attachments of an instance that does not
\* exist are left by a request that broke or is still at it.
InstancesAgree ==
    \A h \in Homeworks :
        /\ homework[h] # NoRow /\ ~homework[h].error =>
              /\ \A f \in cloning[h].found :
                    <<homework[h].template, f>> \in bytes => attached[<<h, f>>] # "none"
              /\ homework[h].cloned = Cardinality(cloning[h].made)
        /\ homework[h] = NoRow /\ cloning[h] # NoRow =>
              \/ h \in broken
              \/ \E c \in Callers : request[c].op = "clone" /\ request[c].instance = h
\* The body is the last one handed in unless two submissions overlapped, and the grade the
\* last one given unless two grades did: a submission and a grade never undo each other.
SubmissionsAgree ==
    \A p \in Papers : /\ <<"body", p>> \in raced \/ body[p] = given.body[p]
                      /\ <<"grade", p>> \in raced \/ grade[p] = given.grade[p]
\* Homework agrees with what was answered, and every row keeps its type.
HomeworkAgrees ==
    HomeworkTypeOK /\ AdoptionsAgree /\ FilesAgree /\ InstancesAgree /\ SubmissionsAgree
===============================================================================
