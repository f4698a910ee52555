----------------------------- MODULE OfflineQueue -----------------------------
(***************************************************************************)
(* The write queue of the teacher app (packages/offline-core): saves wait  *)
(* in IndexedDB until a SyncManager has sent them.                         *)
(*                                                                         *)
(* The code is one JavaScript thread, but every await lets another         *)
(* callback run, a second manager may be at work (another tab, or a page   *)
(* mounted again while the old pass goes on: stop() does not end it), and  *)
(* the sync-center buttons use the same queue.  A status change is two     *)
(* IndexedDB transactions, a get and a put of the whole record, so it is   *)
(* two steps here.  A tab may be closed at any step; IndexedDB stays.      *)
(***************************************************************************)
EXTENDS Integers

CONSTANTS
    MaxActions, \* bound: how many saves the teacher makes
    RetryLimit, \* attempts before a save is FAILED (5 in queue.ts)
    Managers,   \* the sync managers that may be at work
    User,       \* the sync-center page
    Refusals,   \* error answers of the server: an envelope {"error": ...},
                \* or a body without that field, {"detail": ...}
    NoRow,      \* the queue has no record of the save
    MaxCloses   \* bound: how often a tab is closed

ASSUME BoundsAssumption == MaxActions \in Nat /\ RetryLimit \in Nat \ {0} /\ MaxCloses \in Nat
ASSUME UserAssumption == User \notin Managers
ASSUME RefusalsAssumption == Refusals \subseteq {"error", "detail"}

\* Saves, numbered in the order they are enqueued (createdAt).
Actions == 1..MaxActions

Statuses == {"QUEUED", "SYNCING", "SYNCED", "FAILED"}

\* retryCount is only compared with the limit: it is counted up to there.
Row == [status : Statuses, retries : 0..RetryLimit]
ASSUME NoRowAssumption == NoRow \notin Row

VARIABLES
    store,      \* store[a]: the IndexedDB record of save a
    born,       \* how many saves were enqueued so far
    saved,      \* the saves the server has performed
    online,     \* navigator.onLine
    proc,       \* proc[p]: what manager p, or the page, is doing
    closes,     \* how often a tab was closed
    misread     \* history: saves whose refusal was read as success

vars == <<store, born, saved, online, proc, closes, misread>>

-----------------------------------------------------------------------------

\* A process p walks through the list todo, which it has sorted by createdAt
\* and is kept as a set here: its head is the save enqueued first.  For the
\* save cur it may be in an updateActionStatus, after which it goes on at the
\* place then: copy is the record it got, status and retries what it will put.
Places == {"idle", "list", "each", "get", "put", "waiting", "ok", "detail", "error",
           "retry", "clear"}
Rest == [at |-> "idle", todo |-> {}, attempted |-> {}, cur |-> 0,
         copy |-> NoRow, status |-> "QUEUED", retries |-> -1, then |-> "idle"]
Process == [at : Places, todo : SUBSET Actions, attempted : SUBSET Actions,
            cur : 0..MaxActions, copy : Row \cup {NoRow}, status : Statuses,
            retries : -1..RetryLimit, then : Places]

TypeOK ==
    /\ store \in [Actions -> Row \cup {NoRow}]
    /\ born \in 0..MaxActions
    /\ saved \subseteq Actions
    /\ online \in BOOLEAN
    /\ proc \in [Managers \cup {User} -> Process]
    /\ closes \in 0..MaxCloses
    /\ misread \subseteq Actions

Init ==
    /\ store = [a \in Actions |-> NoRow]
    /\ born = 0
    /\ saved = {}
    /\ online \in BOOLEAN
    /\ proc = [p \in Managers \cup {User} |-> Rest]
    /\ closes = 0
    /\ misread = {}

At(p, place) == proc[p].at = place
Goto(p, place) == proc' = [proc EXCEPT ![p].at = place]

\* The saves with a given status; which of a list comes first.
Having(status) == {a \in Actions : store[a] # NoRow /\ store[a].status = status}
HeadOf(a, list) == a \in list /\ \A b \in list : a =< b

\* updateActionStatus(a, status, ...): start it, and go on at place then.
\* retries = -1 leaves the retry count alone.
Update(p, r, a, status, retries, then) ==
    proc' = [proc EXCEPT ![p] =
                [r EXCEPT !.at = "get", !.cur = a, !.status = status,
                          !.retries = retries, !.then = then]]

\* The update of process p is over.
Updated(p) ==
    LET r == proc[p]
    IN  proc' = [proc EXCEPT ![p] =
           [Rest EXCEPT !.at = r.then, !.todo = r.todo, !.attempted = r.attempted,
                        !.cur = IF r.then = "waiting" THEN r.cur ELSE 0]]

\* db.get: a record that is gone is left alone.
UpdateGets(p) ==
    /\ At(p, "get")
    /\ LET row == store[proc[p].cur]
       IN  IF row = NoRow THEN Updated(p)
           ELSE proc' = [proc EXCEPT ![p].copy = row, ![p].at = "put"]
    /\ UNCHANGED <<store, born, saved, online, closes, misread>>

\* db.put: the whole record as it was got, with the new status.
UpdatePuts(p) ==
    /\ At(p, "put")
    /\ LET r == proc[p]
       IN  store' = [store EXCEPT ![r.cur] =
              [status |-> r.status,
               retries |-> IF r.retries = -1 THEN r.copy.retries ELSE r.retries]]
    /\ Updated(p)
    /\ UNCHANGED <<born, saved, online, closes, misread>>

-----------------------------------------------------------------------------
\* The teacher saves: enqueue.
Enqueue ==
    /\ born < MaxActions
    /\ born' = born + 1
    /\ store' = [store EXCEPT ![born + 1] = [status |-> "QUEUED", retries |-> 0]]
    /\ UNCHANGED <<saved, online, proc, closes, misread>>

\* processQueue begins: not while a pass of this manager runs, nor offline.
StartPass(m) ==
    /\ At(m, "idle") /\ online
    /\ proc' = [proc EXCEPT ![m] = [Rest EXCEPT !.at = "list"]]
    /\ UNCHANGED <<store, born, saved, online, closes, misread>>

\* The next save of the list is marked SYNCING; then its handler sends it.
TakeAction(m) ==
    /\ At(m, "each") /\ online
    /\ \E a \in Actions :
          /\ HeadOf(a, proc[m].todo)
          /\ Update(m, [proc[m] EXCEPT !.todo = @ \ {a}, !.attempted = @ \cup {a}],
                    a, "SYNCING", -1, "waiting")
    /\ UNCHANGED <<store, born, saved, online, closes, misread>>

\* The list is done, or the device went offline.
LeaveList(m) ==
    /\ At(m, "each") /\ (proc[m].todo = {} \/ ~online)
    /\ proc' = [proc EXCEPT ![m].at = "list", ![m].todo = {}]
    /\ UNCHANGED <<store, born, saved, online, closes, misread>>

\* The QUEUED saves are listed, without those this pass has tried; with none,
\* or offline, the pass ends.
List(m) ==
    /\ At(m, "list")
    /\ LET more == Having("QUEUED") \ proc[m].attempted
       IN  proc' = [proc EXCEPT ![m] =
              IF more # {} /\ online
              THEN [proc[m] EXCEPT !.at = "each", !.todo = more] ELSE Rest]
    /\ UNCHANGED <<store, born, saved, online, closes, misread>>

\* The handler has sent the save; the server performs it or refuses.
ServerSaves(m) ==
    /\ At(m, "waiting")
    /\ saved' = saved \cup {proc[m].cur}
    /\ Goto(m, "ok")
    /\ UNCHANGED <<store, born, online, closes, misread>>

ServerRefuses(m) ==
    /\ At(m, "waiting")
    /\ \E answer \in Refusals : Goto(m, answer)
    /\ UNCHANGED <<store, born, saved, online, closes, misread>>

\* The request or its answer is lost: fetch throws.
NetworkFails(m) ==
    /\ proc[m].at \in {"waiting", "ok", "detail"}
    /\ Goto(m, "error")
    /\ UNCHANGED <<store, born, saved, online, closes, misread>>

\* Slip: the client never throws.
NeverThrows(answer) == answer \in {"ok", "detail", "error"}

\* The client throws only for a body with an error field: any other answer
\* reads as success, and the save is marked SYNCED.
ReadsAsSuccess(answer) == answer \in {"ok", "detail"}

MarkSynced(m) ==
    /\ ReadsAsSuccess(proc[m].at)
    /\ misread' = IF At(m, "detail") THEN misread \cup {proc[m].cur} ELSE misread
    /\ Update(m, proc[m], proc[m].cur, "SYNCED", -1, "each")
    /\ UNCHANGED <<store, born, saved, online, closes>>

GiveUp(m) == proc' = [proc EXCEPT ![m].at = "each", ![m].cur = 0]

\* Slips: the failure is not recorded; the limit is forgotten.
FailureIgnored(m) ==
    /\ At(m, "error")
    /\ GiveUp(m)
    /\ UNCHANGED <<store, born, saved, online, closes, misread>>
NeverGivesUp(m) ==
    /\ At(m, "error")
    /\ LET row == store[proc[m].cur]
       IN  IF row = NoRow THEN GiveUp(m)
           ELSE Update(m, proc[m], proc[m].cur, "QUEUED", row.retries + 1, "each")
    /\ UNCHANGED <<store, born, saved, online, closes, misread>>

\* markFailed: one more try is counted; at the limit the save is FAILED.
MarkFailed(m) ==
    /\ At(m, "error")
    /\ LET row == store[proc[m].cur]
       IN  IF row = NoRow THEN GiveUp(m)
           ELSE IF row.retries + 1 >= RetryLimit
           THEN Update(m, proc[m], proc[m].cur, "FAILED", RetryLimit, "each")
           ELSE Update(m, proc[m], proc[m].cur, "QUEUED", row.retries + 1, "each")
    /\ UNCHANGED <<store, born, saved, online, closes, misread>>

-----------------------------------------------------------------------------
\* The sync-center buttons: retry one save shown as FAILED, retry them all,
\* clear the SYNCED ones.  Each lists first and then works through the list.
PressButton ==
    /\ At(User, "idle")
    /\ \/ \E a \in Having("FAILED") :
             proc' = [proc EXCEPT ![User] = [Rest EXCEPT !.at = "retry", !.todo = {a}]]
       \/ /\ Having("FAILED") # {}
          /\ proc' = [proc EXCEPT ![User] =
                [Rest EXCEPT !.at = "retry", !.todo = Having("FAILED")]]
       \/ /\ Having("SYNCED") # {}
          /\ proc' = [proc EXCEPT ![User] =
                [Rest EXCEPT !.at = "clear", !.todo = Having("SYNCED")]]
    /\ UNCHANGED <<store, born, saved, online, closes, misread>>

RetryNext ==
    /\ At(User, "retry")
    /\ \E a \in Actions :
          /\ HeadOf(a, proc[User].todo)
          /\ Update(User, [proc[User] EXCEPT !.todo = @ \ {a}], a, "QUEUED", 0, "retry")
    /\ UNCHANGED <<store, born, saved, online, closes, misread>>

ClearNext ==
    /\ At(User, "clear")
    /\ \E a \in Actions :
          /\ HeadOf(a, proc[User].todo)
          /\ store' = [store EXCEPT ![a] = NoRow]
          /\ proc' = [proc EXCEPT ![User].todo = @ \ {a}]
    /\ UNCHANGED <<born, saved, online, closes, misread>>

ButtonDone ==
    /\ proc[User].at \in {"retry", "clear"} /\ proc[User].todo = {}
    /\ proc' = [proc EXCEPT ![User] = Rest]
    /\ UNCHANGED <<store, born, saved, online, closes, misread>>

-----------------------------------------------------------------------------
\* The browser: connectivity changes; a tab is closed, whatever it was doing.
ConnectivityChanges ==
    /\ online' = ~online
    /\ UNCHANGED <<store, born, saved, proc, closes, misread>>

CloseTab(p) ==
    /\ ~At(p, "idle") /\ closes < MaxCloses
    /\ closes' = closes + 1
    /\ proc' = [proc EXCEPT ![p] = Rest]
    /\ UNCHANGED <<store, born, saved, online, misread>>

\* A step of a pass that has begun.
PassStep(m) ==
    \/ TakeAction(m)
    \/ LeaveList(m)
    \/ List(m)
    \/ UpdateGets(m)
    \/ UpdatePuts(m)
    \/ ServerSaves(m)
    \/ ServerRefuses(m)
    \/ NetworkFails(m)
    \/ MarkSynced(m)
    \/ MarkFailed(m)

PageStep == RetryNext \/ ClearNext \/ ButtonDone \/ UpdateGets(User) \/ UpdatePuts(User)

Next ==
    \/ Enqueue
    \/ \E m \in Managers : StartPass(m) \/ PassStep(m)
    \/ PressButton \/ PageStep
    \/ ConnectivityChanges
    \/ \E p \in Managers \cup {User} : CloseTab(p)

Spec == Init /\ [][Next]_vars

\* Passes are started every 30 s while the device is online, and a pass or a
\* button goes on while its tab is open.
Fairness ==
    /\ \A m \in Managers : WF_vars(StartPass(m)) /\ WF_vars(PassStep(m))
    /\ WF_vars(PageStep)

FairSpec == Spec /\ Fairness

-----------------------------------------------------------------------------

\* A save the queue shows as SYNCED, or has deleted, was performed by the
\* server, or refused with a body the client reads as success: nothing else
\* loses a save silently, whichever managers, buttons and closed tabs got in
\* each other's way.  Every variable keeps its type.
NothingLost ==
    /\ TypeOK
    /\ \A a \in 1..born :
        (store[a] = NoRow \/ store[a].status = "SYNCED") => a \in saved \cup misread

\* A save the server refuses with "Your changes have not been saved; please
\* retry" (attendance_routes.py:82) stays with the device until it is saved.
\* It does not: the body has no error field.
RefusedSavesStay ==
    \A a \in 1..born :
        (store[a] = NoRow \/ store[a].status = "SYNCED") => a \in saved

\* The one way out of the queue's care: a SYNCING record nobody works on any
\* more, because its tab was closed; no pass lists it again.
Orphaned(a) ==
    /\ closes > 0 /\ store[a] # NoRow /\ store[a].status = "SYNCING"
    /\ \A p \in Managers \cup {User} : a # proc[p].cur

\* Once the device stays online and requests stop failing, every save comes to
\* rest: SYNCED, or FAILED and shown to the teacher, or cleared, unless its tab
\* was closed while it was being sent.  (While two managers go on failing they
\* may reset each other's retry count for ever: the update is a get and a put.)
NetworkRecovers == <>[](online /\ \A m \in Managers : ~At(m, "error"))

SavesSettle ==
    NetworkRecovers =>
        \A a \in Actions : a <= born ~>
            \/ store[a] = NoRow \/ store[a].status \in {"SYNCED", "FAILED"}
            \/ Orphaned(a)

===============================================================================
