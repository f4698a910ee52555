------------------------------ MODULE MCServices ------------------------------
(* The request handlers of Handlers that are not desks of the school.  One    *)
(* behaviour is about one kind of them, on one row or two.                    *)
EXTENDS OncePerKey, FeeDesk, MessageDesk, Accounts, HomeworkLibrary, SchoolRecords, Filing, TLC
VARIABLE focus
CONSTANT Chosen

People == {"invites", "sessions", "links"}
Others == {"keys", "invoices", "threads", "notices", "adoptions", "files", "papers", "records",
           "forms"}
communications == <<messaging, invitationOutbox>>
services == <<onceVars, billing, communications, accounts, homeworkVars, recordVars, filing>>

MCInit ==
    /\ HandlersInit /\ OnceInit /\ FeeDeskInit /\ MessagesInit /\ AccountsInit /\ HomeworkInit
    /\ RecordsInit /\ FilingInit /\ focus \in People \cup Others
    /\ focus # "records" => kind = "grant"
    /\ focus # "forms" => form = Plain
AccountsFocus ==
    \/ UsersNext
    \/ focus = "invites" /\ InvitationsNext
    \/ focus = "sessions" /\ SessionsNext
    \/ focus = "links" /\ LinksNext
HomeworkFocus ==
    \/ focus = "adoptions" /\ AdoptionsNext
    \/ focus \in {"files", "papers"} /\ InstancesNext
    \/ /\ focus \in {"files", "papers"} /\ \E t \in Templates : CreateTemplate(t)
       /\ UNCHANGED <<instances, disk, submissions>>
    \/ focus = "files" /\ DiskNext
    \/ focus = "papers" /\ SubmissionsNext
    \/ focus \in {"adoptions", "files", "papers"} /\ BreaksNext
MCSteps ==
    \/ /\ focus = "keys" /\ OnceNext
       /\ UNCHANGED <<billing, communications, accounts, homeworkVars, recordVars>>
    \/ /\ focus = "invoices" /\ FeeDeskNext
       /\ UNCHANGED <<onceVars, communications, accounts, homeworkVars, recordVars>>
    \/ /\ \/ focus = "threads" /\ ThreadsNext
          \/ focus = "notices" /\ NoticesNext
       /\ UNCHANGED <<onceVars, billing, accounts, homeworkVars, recordVars>>
    \/ /\ focus \in People /\ AccountsFocus
       /\ UNCHANGED <<onceVars, billing, communications, homeworkVars, recordVars>>
    \/ HomeworkFocus /\ UNCHANGED <<onceVars, billing, communications, accounts, recordVars>>
    \/ /\ focus = "records" /\ RecordsNext
       /\ UNCHANGED <<onceVars, billing, communications, accounts, homeworkVars>>
    \/ /\ focus \in {"threads", "notices", "records"} \cup People /\ UNCHANGED services
       /\ \E c \in Callers : GivesUp(c)
MCNext ==
    /\ \/ MCSteps /\ UNCHANGED filing
       \/ /\ focus = "forms"
          /\ \/ FilingNext
             \/ UNCHANGED filing /\ \E c \in Callers : GivesUp(c)
          /\ UNCHANGED <<onceVars, billing, communications, accounts, homeworkVars, recordVars>>
    /\ UNCHANGED focus

ServicesSpec == MCInit /\ [][MCNext]_<<callers, services, focus>>

\* What may be repeated without end is counted twice at most; one user logs in and out,
\* one address is invited beside a telephone number, one template has files, papers have none,
\* and few things are raced about.
Bounds ==
    /\ \A k \in WorkKeys : done[k] <= 2
    /\ \A o \in Notices : resends[o] <= 2
    /\ \A i \in Invites : accepts[i] <= 2
    /\ \A r \in Links : redeemed[r] <= 2
    /\ focus \in {"sessions", "links"} =>
          \A u \in Created(user) : u \in Chosen /\ user[u].mail \in Chosen
    /\ focus \in {"sessions", "links", "invites", "records"} => Cardinality(raced) <= 1
    /\ focus = "invites" =>
          /\ \A u \in Created(user) : user[u].active
          /\ \A k \in Mails : InvitesTo(k) # {} => k \in Chosen
          /\ \A c \in Callers : request[c].op = "stage" => request[c].contact \in Phones \cup Chosen
    /\ focus = "files" =>
          /\ \A t \in Created(template) : t \in Chosen
          /\ \A t \in Templates \ Chosen : LiveAt(t) = {} /\ \A f \in Files : <<t, f>> \notin bytes
    /\ focus = "papers" => broken = {} /\ \A h \in Homeworks : cloning[h] = NoRow
    /\ \A p \in Contents : outside[p] <= 2
MCSpec == MCInit /\ [][MCNext /\ Bounds']_<<callers, services, focus>>
MCSymmetry == Permutations(Callers) \cup Permutations(Invoices)

\* What the handlers of fees, messages, keys and records promise: InvoicesAgree, KeysAgree,
\* MessagesAgree and RecordsAgree, each in its module.
ServicesAgree == KeysAgree /\ InvoicesAgree /\ MessagesAgree /\ RecordsAgree /\ FormsAgree
===============================================================================
