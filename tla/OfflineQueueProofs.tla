-------------------------- MODULE OfflineQueueProofs --------------------------
(***************************************************************************)
(* No save of the offline queue is lost silently, for any number of saves, *)
(* tabs and closed tabs, any retry limit, and any refusals of the server:  *)
(* the one way to lose a save is a refusal the client reads as success.    *)
(*                                                                         *)
(* A save leaves the queue's care when it is marked SYNCED or deleted.     *)
(* Both are decided some awaits before they are written, so the argument   *)
(* is about what a process has decided: it writes SYNCED only for a save   *)
(* that is settled (the server has performed it, or its refusal was read   *)
(* as success), and clears only saves it has seen as SYNCED.  What is      *)
(* settled stays so, whatever else happens to the record in between.       *)
(***************************************************************************)
EXTENDS OfflineQueue, TLAPS

\* The managers' passes and the sync-center page.
Processes == Managers \cup {User}

\* Performed by the server, or misread by the client.
Settled == saved \cup misread
USE DEF Settled

\* What process p has decided.
Decided(r) ==
    /\ r.at \in {"get", "put", "waiting", "ok", "detail", "error"} => r.cur \in Actions
    /\ r.at = "put" => r.copy \in Row
    /\ r.at \in {"get", "put"} =>
          /\ r.then \in {"waiting", "each", "retry"}
          /\ r.status = "SYNCED" => r.cur \in Settled
    /\ r.at = "ok" => r.cur \in saved
    /\ r.at = "clear" => r.todo \subseteq Settled

QueueInv ==
    /\ TypeOK
    /\ \A p \in Processes : Decided(proc[p])
    /\ \A a \in Actions :
          /\ store[a] # NoRow /\ store[a].status = "SYNCED" => a \in Settled
          /\ store[a] = NoRow /\ a <= born => a \in Settled

LEMMA InitQueue == Init => QueueInv
<1> SUFFICES ASSUME Init PROVE QueueInv
  OBVIOUS
<1>1. TypeOK
  <2>1. Rest \in Process
    BY BoundsAssumption DEF Rest, Process, Places, Statuses
  <2>2. QED
    BY <2>1, BoundsAssumption DEF Init, TypeOK
<1>2. \A p \in Processes : Decided(proc[p])
  BY DEF Init, Decided, Rest, Processes
<1>3. QED
  BY <1>1, <1>2 DEF Init, QueueInv, Actions

\* A step that moves one process to r, and touches no record, keeps the
\* invariant if r has its type and has decided rightly.
LEMMA ProcessMoves ==
  ASSUME QueueInv, NEW p \in Processes, NEW r \in Process, Decided(r),
         proc' = [proc EXCEPT ![p] = r],
         UNCHANGED <<store, born, saved, online, closes, misread>>
  PROVE  QueueInv'
<1>1. TypeOK'
  BY DEF QueueInv, TypeOK, Processes
<1>2. ASSUME NEW q \in Processes PROVE Decided(proc[q])'
  <2>1. proc'[q] = IF q = p THEN r ELSE proc[q]
    BY DEF QueueInv, TypeOK, Processes
  <2>2. QED
    BY <2>1 DEF QueueInv, Decided
<1>3. QED
  BY <1>1, <1>2 DEF QueueInv

\* A process is a record of its type.
LEMMA ProcessType ==
  ASSUME QueueInv, NEW p \in Processes
  PROVE  proc[p] \in Process /\ Decided(proc[p])
BY DEF QueueInv, TypeOK, Processes

\* A process at rest, or back in its list, has decided nothing.
LEMMA RestDecided ==
  /\ Rest \in Process /\ Decided(Rest)
  /\ \A place \in {"list", "each", "retry"} :
        [Rest EXCEPT !.at = place] \in Process /\ Decided([Rest EXCEPT !.at = place])
<1>1. Rest \in Process
  BY BoundsAssumption DEF Rest, Process, Places, Statuses
<1>2. QED
  BY <1>1 DEF Rest, Decided, Process, Places

\* Starting an update: it may write SYNCED only for what the server performed.
LEMMA UpdateStarts ==
  ASSUME QueueInv, NEW p \in Processes, NEW r \in Process, NEW a \in Actions,
         NEW status \in Statuses, NEW retries \in -1..RetryLimit,
         NEW then \in {"waiting", "each", "retry"},
         status = "SYNCED" => a \in Settled,
         Update(p, r, a, status, retries, then),
         UNCHANGED <<store, born, saved, online, closes, misread>>
  PROVE  QueueInv'
<1> DEFINE s == [r EXCEPT !.at = "get", !.cur = a, !.status = status,
                          !.retries = retries, !.then = then]
<1>1. proc' = [proc EXCEPT ![p] = s]
  BY DEF Update
<1>2. /\ s.at = "get" /\ s.cur = a /\ s.status = status /\ s.retries = retries
      /\ s.then = then /\ s \in Process
  <2>1. a \in 0..MaxActions /\ then \in Places /\ "get" \in Places
    BY BoundsAssumption DEF Actions, Places
  <2>2. QED
    BY <2>1 DEF Process
<1> HIDE DEF s
<1>3. Decided(s)
  BY <1>2 DEF Decided
<1>4. QED
  BY <1>1, <1>2, <1>3, ProcessMoves

\* Where an update leaves its process.
LEMMA UpdateEnds ==
  ASSUME QueueInv, NEW p \in Processes, proc[p].at \in {"get", "put"}, Updated(p)
  PROVE  \E r \in Process : Decided(r) /\ proc' = [proc EXCEPT ![p] = r]
<1> DEFINE old == proc[p]
           r == [Rest EXCEPT !.at = old.then, !.todo = old.todo,
                             !.attempted = old.attempted,
                             !.cur = IF old.then = "waiting" THEN old.cur ELSE 0]
<1>1. proc' = [proc EXCEPT ![p] = r]
  BY DEF Updated
<1>2. /\ old \in Process /\ old.then \in {"waiting", "each", "retry"}
      /\ old.cur \in Actions
  BY ProcessType DEF Decided
<1>3. /\ r \in Process /\ r.at = old.then
      /\ r.at = "waiting" => r.cur = old.cur
  <2> HIDE DEF old
  <2> QED
    BY <1>2, RestDecided, BoundsAssumption DEF Process, Rest, Actions
<1> HIDE DEF r, old
<1>4. Decided(r)
  BY <1>2, <1>3 DEF Decided
<1>5. QED
  BY <1>1, <1>3, <1>4

\* A record is written or deleted while one process moves on: the books stay
\* right if what is written may be.
LEMMA RecordWritten ==
  ASSUME QueueInv, NEW p \in Processes, NEW r \in Process, Decided(r),
         proc' = [proc EXCEPT ![p] = r],
         NEW a \in Actions, NEW v \in Row \cup {NoRow}, store' = [store EXCEPT ![a] = v],
         v = NoRow \/ v.status = "SYNCED" => a \in Settled,
         UNCHANGED <<born, saved, online, closes, misread>>
  PROVE  QueueInv'
<1>1. TypeOK'
  BY DEF QueueInv, TypeOK, Processes
<1>2. ASSUME NEW q \in Processes PROVE Decided(proc[q])'
  <2>1. proc'[q] = IF q = p THEN r ELSE proc[q]
    BY DEF QueueInv, TypeOK, Processes
  <2>2. QED
    BY <2>1 DEF QueueInv, Decided
<1>3. \A b \in Actions :
         /\ store'[b] # NoRow /\ store'[b].status = "SYNCED" => b \in Settled
         /\ store'[b] = NoRow /\ b <= born => b \in Settled
  <2>1. \A b \in Actions : store'[b] = IF b = a THEN v ELSE store[b]
    BY DEF QueueInv, TypeOK
  <2>2. QED
    BY <2>1 DEF QueueInv
<1>4. QED
  BY <1>1, <1>2, <1>3 DEF QueueInv

\* updateActionStatus: the get, and the put of the whole record.
LEMMA UpdateInv ==
  ASSUME QueueInv, NEW p \in Processes, UpdateGets(p) \/ UpdatePuts(p)
  PROVE  QueueInv'
<1>1. proc[p] \in Process /\ Decided(proc[p]) /\ store \in [Actions -> Row \cup {NoRow}]
  BY ProcessType DEF QueueInv, TypeOK
<1>2. CASE UpdateGets(p)
  <2>1. proc[p].at = "get" /\ UNCHANGED <<store, born, saved, online, closes, misread>>
    BY <1>2 DEF UpdateGets, At
  <2> DEFINE v == store[proc[p].cur]
  <2>2. CASE v = NoRow
    <3>1. Updated(p)
      BY <1>2, <2>2 DEF UpdateGets
    <3>2. QED
      BY <2>1, <3>1, UpdateEnds, ProcessMoves
  <2>3. CASE v # NoRow
    <3> DEFINE r == [proc[p] EXCEPT !.copy = v, !.at = "put"]
    <3>1. proc' = [proc EXCEPT ![p] = r]
      BY <1>2, <2>3 DEF UpdateGets, QueueInv, TypeOK, Processes
    <3>2. v \in Row
      BY <1>1, <2>1, <2>3 DEF Decided
    <3> HIDE DEF v
    <3>3. /\ r \in Process /\ r.at = "put" /\ r.copy = v /\ r.cur = proc[p].cur
          /\ r.then = proc[p].then /\ r.status = proc[p].status
      BY <1>1, <3>2 DEF Process, Places
    <3> HIDE DEF r
    <3>4. Decided(r)
      BY <1>1, <2>1, <3>2, <3>3 DEF Decided
    <3>5. QED
      BY <2>1, <3>1, <3>3, <3>4, ProcessMoves
  <2>4. QED
    BY <2>2, <2>3
<1>3. CASE UpdatePuts(p)
  <2> DEFINE old == proc[p]
             v == [status |-> old.status,
                   retries |-> IF old.retries = -1 THEN old.copy.retries ELSE old.retries]
  <2>1. /\ old.at = "put" /\ store' = [store EXCEPT ![old.cur] = v] /\ Updated(p)
        /\ UNCHANGED <<born, saved, online, closes, misread>>
    BY <1>3 DEF UpdatePuts, At
  <2>2. old.copy \in Row /\ old.cur \in Actions
    BY <1>1, <2>1 DEF Decided
  <2>3. v \in Row
    BY <1>1, <2>2, BoundsAssumption DEF Row, Process
  <2>4. v.status = "SYNCED" => old.cur \in Settled
    BY <1>1, <2>1 DEF Decided
  <2>5. v # NoRow
    BY <2>3, NoRowAssumption
  <2> HIDE DEF v
  <2>6. QED
    BY <2>1, <2>2, <2>3, <2>4, <2>5, UpdateEnds, RecordWritten
<1>4. QED
  BY <1>2, <1>3

\* A pass over the queue, between its updates.
LEMMA PassInv ==
  ASSUME QueueInv, NEW m \in Managers,
         StartPass(m) \/ PassStep(m)
  PROVE  QueueInv'
<1>1. m \in Processes /\ proc[m] \in Process /\ Decided(proc[m])
  BY ProcessType DEF Processes
<1>2. proc \in [Processes -> Process] /\ store \in [Actions -> Row \cup {NoRow}]
  BY DEF QueueInv, TypeOK, Processes
<1>3. CASE StartPass(m)
  BY <1>1, <1>3, RestDecided, ProcessMoves DEF StartPass
<1>4. CASE TakeAction(m)
  <2>1. PICK a \in Actions :
          Update(m, [proc[m] EXCEPT !.todo = @ \ {a}, !.attempted = @ \cup {a}],
                 a, "SYNCING", -1, "waiting")
    BY <1>4 DEF TakeAction
  <2>2. [proc[m] EXCEPT !.todo = @ \ {a}, !.attempted = @ \cup {a}] \in Process
    BY <1>1 DEF Process
  <2>3. UNCHANGED <<store, born, saved, online, closes, misread>>
    BY <1>4 DEF TakeAction
  <2>4. -1 \in -1..RetryLimit
    BY BoundsAssumption
  <2>5. QED
    BY <1>1, <2>1, <2>2, <2>3, <2>4, UpdateStarts DEF Statuses
<1>5. CASE LeaveList(m)
  <2> DEFINE r == [proc[m] EXCEPT !.at = "list", !.todo = {}]
  <2>1. proc' = [proc EXCEPT ![m] = r] /\ UNCHANGED <<store, born, saved, online, closes, misread>>
    BY <1>2, <1>5 DEF LeaveList
  <2>2. r \in Process /\ r.at = "list"
    BY <1>1 DEF Process, Places
  <2> HIDE DEF r
  <2>3. Decided(r)
    BY <2>2 DEF Decided
  <2>4. QED
    BY <1>1, <2>1, <2>2, <2>3, ProcessMoves
<1>6. CASE List(m)
  <2> DEFINE more == Having("QUEUED") \ proc[m].attempted
             r == [proc[m] EXCEPT !.at = "each", !.todo = more]
  <2>1. /\ proc' = [proc EXCEPT ![m] = r] \/ proc' = [proc EXCEPT ![m] = Rest]
        /\ UNCHANGED <<store, born, saved, online, closes, misread>>
    BY <1>6 DEF List
  <2>2. r \in Process /\ r.at = "each"
    BY <1>1 DEF Process, Places, Having
  <2> HIDE DEF r
  <2>3. Decided(r)
    BY <2>2 DEF Decided
  <2>4. QED
    BY <1>1, <2>1, <2>2, <2>3, RestDecided, ProcessMoves
<1>7. CASE UpdateGets(m) \/ UpdatePuts(m)
  BY <1>1, <1>7, UpdateInv
<1>8. CASE ServerSaves(m)
  <2> DEFINE r == [proc[m] EXCEPT !.at = "ok"]
  <2>1. /\ proc' = [proc EXCEPT ![m] = r] /\ saved' = saved \cup {proc[m].cur}
        /\ UNCHANGED <<store, born, online, closes, misread>> /\ proc[m].at = "waiting"
    BY <1>2, <1>8 DEF ServerSaves, Goto, At
  <2>2. r \in Process /\ r.at = "ok" /\ r.cur = proc[m].cur /\ proc[m].cur \in Actions
    BY <1>1, <2>1 DEF Process, Places, Decided
  <2> HIDE DEF r
  <2>3. TypeOK'
    BY <1>1, <2>1, <2>2 DEF QueueInv, TypeOK, Processes
  <2>4. ASSUME NEW q \in Processes PROVE Decided(proc[q])'
    <3>1. proc'[q] = IF q = m THEN r ELSE proc[q]
      BY <1>2, <2>1
    <3>2. QED
      BY <2>1, <2>2, <3>1 DEF QueueInv, Decided
  <2>5. QED
    BY <2>1, <2>3, <2>4 DEF QueueInv
<1>9. CASE ServerRefuses(m)
  <2>1. PICK answer \in Refusals : Goto(m, answer)
    BY <1>9 DEF ServerRefuses
  <2>2. answer \in {"error", "detail"}
    BY <2>1, RefusalsAssumption
  <2> DEFINE r == [proc[m] EXCEPT !.at = answer]
  <2>3. /\ proc' = [proc EXCEPT ![m] = r] /\ proc[m].at = "waiting"
        /\ UNCHANGED <<store, born, saved, online, closes, misread>>
    BY <1>2, <1>9, <2>1, <2>2 DEF ServerRefuses, Goto, At
  <2>4. r \in Process /\ r.at = answer /\ r.cur = proc[m].cur
    BY <1>1, <2>2 DEF Process, Places
  <2> HIDE DEF r
  <2>5. Decided(r)
    BY <1>1, <2>2, <2>3, <2>4 DEF Decided
  <2>6. QED
    BY <1>1, <2>3, <2>4, <2>5, ProcessMoves
<1>10. CASE NetworkFails(m)
  <2> DEFINE r == [proc[m] EXCEPT !.at = "error"]
  <2>1. /\ proc' = [proc EXCEPT ![m] = r] /\ proc[m].at \in {"waiting", "ok", "detail"}
        /\ UNCHANGED <<store, born, saved, online, closes, misread>>
    BY <1>2, <1>10 DEF NetworkFails, Goto
  <2>2. r \in Process /\ r.at = "error" /\ r.cur = proc[m].cur
    BY <1>1 DEF Process, Places
  <2> HIDE DEF r
  <2>3. Decided(r)
    BY <1>1, <2>1, <2>2 DEF Decided
  <2>4. QED
    BY <1>1, <2>1, <2>2, <2>3, ProcessMoves
<1>11. CASE MarkSynced(m)
  <2> DEFINE a == proc[m].cur
             s == [proc[m] EXCEPT !.at = "get", !.cur = a, !.status = "SYNCED",
                                  !.retries = -1, !.then = "each"]
  <2>1. /\ proc[m].at \in {"ok", "detail"} /\ proc' = [proc EXCEPT ![m] = s]
        /\ misread' = IF proc[m].at = "detail" THEN misread \cup {a} ELSE misread
        /\ UNCHANGED <<store, born, saved, online, closes>>
    BY <1>11 DEF MarkSynced, ReadsAsSuccess, Update, At
  <2>2. a \in Actions /\ (proc[m].at = "ok" => a \in saved)
    BY <1>1, <2>1 DEF Decided
  <2>3. Settled \subseteq Settled' /\ a \in Settled'
    BY <2>1, <2>2 DEF Settled
  <2>4. s \in Process /\ s.at = "get" /\ s.cur = a /\ s.then = "each"
    <3>1. "each" \in Places /\ "get" \in Places /\ "SYNCED" \in Statuses
          /\ -1 \in -1..RetryLimit
      BY BoundsAssumption DEF Places, Statuses
    <3>2. QED
      BY <1>1, <3>1 DEF Process
  <2> HIDE DEF s
  <2>5. TypeOK'
    BY <1>1, <2>1, <2>2, <2>4 DEF QueueInv, TypeOK, Processes
  <2>6. ASSUME NEW q \in Processes PROVE Decided(proc[q])'
    <3>1. proc'[q] = IF q = m THEN s ELSE proc[q]
      BY <1>2, <2>1
    <3>2. CASE q = m
      <4>1. proc'[q] = s
        BY <3>1, <3>2
      <4>2. s.at = "get" /\ s.cur \in Actions /\ s.then = "each" /\ s.cur \in Settled'
        BY <2>2, <2>3, <2>4
      <4>3. QED
        BY <4>1, <4>2 DEF Decided
    <3>3. CASE q # m
      BY <2>1, <2>3, <3>1, <3>3 DEF QueueInv, Decided
    <3>4. QED
      BY <3>2, <3>3
  <2>7. QED
    BY <2>1, <2>3, <2>5, <2>6 DEF QueueInv
<1>12. CASE MarkFailed(m)
  <2> DEFINE v == store[proc[m].cur]
  <2>1. proc[m].cur \in Actions /\ UNCHANGED <<store, born, saved, online, closes, misread>>
    BY <1>1, <1>12 DEF MarkFailed, At, Decided
  <2>2. CASE v = NoRow
    <3> DEFINE r == [proc[m] EXCEPT !.at = "each", !.cur = 0]
    <3>1. proc' = [proc EXCEPT ![m] = r]
      BY <1>2, <1>12, <2>2 DEF MarkFailed, GiveUp
    <3>2. r \in Process /\ r.at = "each"
      <4>1. 0 \in 0..MaxActions /\ "each" \in Places
        BY BoundsAssumption DEF Places
      <4>2. QED
        BY <1>1, <4>1 DEF Process
    <3> HIDE DEF r
    <3>3. Decided(r)
      BY <3>2 DEF Decided
    <3>4. QED
      BY <1>1, <2>1, <3>1, <3>2, <3>3, ProcessMoves
  <2>3. CASE v # NoRow
    <3>1. v.retries \in 0..RetryLimit
      BY <1>2, <2>1, <2>3 DEF Row
    <3>2. PICK status \in {"FAILED", "QUEUED"}, retries \in -1..RetryLimit :
            Update(m, proc[m], proc[m].cur, status, retries, "each")
      <4>1. CASE v.retries + 1 >= RetryLimit
        <5>1. RetryLimit \in -1..RetryLimit
          BY BoundsAssumption
        <5>2. QED
          BY <1>12, <2>3, <4>1, <5>1 DEF MarkFailed
      <4>2. CASE ~(v.retries + 1 >= RetryLimit)
        <5>1. v.retries + 1 \in -1..RetryLimit
          BY <3>1, <4>2, BoundsAssumption
        <5>2. QED
          BY <1>12, <2>3, <4>2, <5>1 DEF MarkFailed
      <4>3. QED
        BY <4>1, <4>2
    <3>3. QED
      BY <1>1, <2>1, <3>2, UpdateStarts DEF Statuses
  <2>4. QED
    BY <2>2, <2>3
<1>13. QED
  BY <1>3, <1>4, <1>5, <1>6, <1>7, <1>8, <1>9, <1>10, <1>11, <1>12 DEF PassStep

\* The buttons of the sync-center page.  What "clear" deletes it has listed as
\* SYNCED: the server performed it, whatever was retried since.
LEMMA PageInv ==
  ASSUME QueueInv, PressButton \/ PageStep
  PROVE  QueueInv'
<1>1. User \in Processes /\ proc[User] \in Process /\ Decided(proc[User])
  BY ProcessType DEF Processes
<1>2. proc \in [Processes -> Process]
  BY DEF QueueInv, TypeOK, Processes
<1>3. CASE PressButton
  <2>1. \E at \in {"retry", "clear"}, list \in SUBSET Actions :
           /\ proc' = [proc EXCEPT ![User] = [Rest EXCEPT !.at = at, !.todo = list]]
           /\ at = "clear" => list \subseteq Settled
    <3>1. Having("SYNCED") \subseteq Settled /\ \A st : Having(st) \subseteq Actions
      BY DEF Having, QueueInv
    <3>2. CASE \E a \in Having("FAILED") :
                 proc' = [proc EXCEPT ![User] = [Rest EXCEPT !.at = "retry", !.todo = {a}]]
      <4>1. PICK a \in Actions :
              proc' = [proc EXCEPT ![User] = [Rest EXCEPT !.at = "retry", !.todo = {a}]]
        BY <3>1, <3>2
      <4>2. {a} \in SUBSET Actions
        OBVIOUS
      <4>3. QED
        BY <4>1, <4>2
    <3>3. CASE proc' = [proc EXCEPT ![User] =
                          [Rest EXCEPT !.at = "retry", !.todo = Having("FAILED")]]
      BY <3>1, <3>3
    <3>4. CASE proc' = [proc EXCEPT ![User] =
                          [Rest EXCEPT !.at = "clear", !.todo = Having("SYNCED")]]
      BY <3>1, <3>4
    <3>5. QED
      BY <1>3, <3>2, <3>3, <3>4 DEF PressButton
  <2>2. PICK at \in {"retry", "clear"}, list \in SUBSET Actions :
           /\ proc' = [proc EXCEPT ![User] = [Rest EXCEPT !.at = at, !.todo = list]]
           /\ at = "clear" => list \subseteq Settled
    BY <2>1
  <2> DEFINE r == [Rest EXCEPT !.at = at, !.todo = list]
  <2>3. r \in Process /\ r.at = at /\ r.todo = list
    BY RestDecided DEF Process, Places, Rest
  <2>4. proc' = [proc EXCEPT ![User] = r]
    BY <2>2
  <2> HIDE DEF r
  <2>5. Decided(r)
    BY <2>2, <2>3 DEF Decided
  <2>6. UNCHANGED <<store, born, saved, online, closes, misread>>
    BY <1>3 DEF PressButton
  <2>7. QED
    BY <1>1, <2>3, <2>4, <2>5, <2>6, ProcessMoves
<1>4. CASE RetryNext
  <2>1. PICK a \in Actions :
          Update(User, [proc[User] EXCEPT !.todo = @ \ {a}], a, "QUEUED", 0, "retry")
    BY <1>4 DEF RetryNext
  <2>2. [proc[User] EXCEPT !.todo = @ \ {a}] \in Process
    BY <1>1 DEF Process
  <2>3. UNCHANGED <<store, born, saved, online, closes, misread>>
    BY <1>4 DEF RetryNext
  <2>4. 0 \in -1..RetryLimit
    BY BoundsAssumption
  <2>5. QED
    BY <1>1, <2>1, <2>2, <2>3, <2>4, UpdateStarts DEF Statuses
<1>5. CASE ClearNext
  <2>1. PICK a \in Actions :
          /\ HeadOf(a, proc[User].todo)
          /\ store' = [store EXCEPT ![a] = NoRow]
          /\ proc' = [proc EXCEPT ![User].todo = @ \ {a}]
    BY <1>5 DEF ClearNext
  <2> DEFINE r == [proc[User] EXCEPT !.todo = @ \ {a}]
  <2>2. proc' = [proc EXCEPT ![User] = r]
    BY <1>2, <2>1
  <2>3. r \in Process /\ r.at = "clear" /\ r.todo = proc[User].todo \ {a}
    BY <1>1, <1>5 DEF Process, ClearNext, At
  <2> HIDE DEF r
  <2>4. proc[User].todo \subseteq Settled
    BY <1>1, <1>5 DEF ClearNext, At, Decided
  <2>5. Decided(r) /\ a \in Settled
    BY <2>1, <2>3, <2>4 DEF Decided, HeadOf
  <2>6. UNCHANGED <<born, saved, online, closes, misread>>
    BY <1>5 DEF ClearNext
  <2>7. QED
    BY <1>1, <2>1, <2>2, <2>3, <2>5, <2>6, RecordWritten
<1>6. CASE ButtonDone
  BY <1>1, <1>6, RestDecided, ProcessMoves DEF ButtonDone
<1>7. CASE UpdateGets(User) \/ UpdatePuts(User)
  BY <1>1, <1>7, UpdateInv
<1>8. QED
  BY <1>3, <1>4, <1>5, <1>6, <1>7 DEF PageStep

\* Saving, connectivity, and a closed tab, which drops what it had decided.
LEMMA OutsideInv ==
  ASSUME QueueInv,
         Enqueue \/ ConnectivityChanges \/ \E p \in Processes : CloseTab(p)
  PROVE  QueueInv'
<1>1. CASE Enqueue
  <2>1. /\ born < MaxActions /\ born' = born + 1
        /\ store' = [store EXCEPT ![born + 1] = [status |-> "QUEUED", retries |-> 0]]
        /\ UNCHANGED <<saved, online, proc, closes, misread>>
    BY <1>1 DEF Enqueue
  <2>2. /\ born \in Nat /\ born + 1 \in Actions /\ born' \in 0..MaxActions
        /\ [status |-> "QUEUED", retries |-> 0] \in Row
    BY <2>1, BoundsAssumption DEF QueueInv, TypeOK, Actions, Row, Statuses
  <2>3. TypeOK'
    BY <2>1, <2>2 DEF QueueInv, TypeOK
  <2>4. \A p \in Processes : Decided(proc[p])'
    BY <2>1 DEF QueueInv, Decided
  <2>5. ASSUME NEW a \in Actions
        PROVE  /\ store'[a] # NoRow /\ store'[a].status = "SYNCED" => a \in Settled
               /\ store'[a] = NoRow /\ a <= born' => a \in Settled
    <3>1. CASE a = born + 1
      <4>1. store'[a] = [status |-> "QUEUED", retries |-> 0]
        BY <2>1, <2>2, <3>1 DEF QueueInv, TypeOK
      <4>2. store'[a] # NoRow /\ store'[a].status = "QUEUED"
        BY <2>2, <4>1, NoRowAssumption
      <4>3. QED
        BY <4>2
    <3>2. CASE a # born + 1
      <4>1. store'[a] = store[a] /\ (a <= born' => a <= born)
        BY <2>1, <2>2, <3>2 DEF QueueInv, TypeOK, Actions
      <4>2. QED
        BY <4>1 DEF QueueInv
    <3>3. QED
      BY <3>1, <3>2
  <2>6. QED
    BY <2>1, <2>3, <2>4, <2>5 DEF QueueInv
<1>2. CASE ConnectivityChanges
  BY <1>2 DEF ConnectivityChanges, QueueInv, TypeOK, Decided
<1>3. ASSUME NEW p \in Processes, CloseTab(p) PROVE QueueInv'
  <2>1. /\ proc' = [proc EXCEPT ![p] = Rest] /\ closes' \in 0..MaxCloses
        /\ UNCHANGED <<store, born, saved, online, misread>>
    BY <1>3, BoundsAssumption DEF CloseTab, QueueInv, TypeOK
  <2>2. TypeOK'
    BY <2>1, RestDecided DEF QueueInv, TypeOK
  <2>3. ASSUME NEW q \in Processes PROVE Decided(proc[q])'
    <3>1. proc'[q] = IF q = p THEN Rest ELSE proc[q]
      BY <2>1 DEF QueueInv, TypeOK, Processes
    <3>2. QED
      BY <2>1, <3>1, RestDecided DEF QueueInv, Decided
  <2>4. QED
    BY <2>1, <2>2, <2>3 DEF QueueInv
<1>4. QED
  BY <1>1, <1>2, <1>3

\* No save is lost silently but by a refusal the client reads as success: what
\* the queue shows as SYNCED or has deleted was performed by the server or so
\* refused, whichever tabs and buttons get in each other's way between the get
\* and the put of a record, and wherever tabs are closed.
THEOREM NoSaveIsLost == Spec => []NothingLost
<1>1. QueueInv /\ [Next]_vars => QueueInv'
  <2> SUFFICES ASSUME QueueInv, [Next]_vars PROVE QueueInv'
    OBVIOUS
  <2>1. CASE UNCHANGED vars
    BY <2>1 DEF vars, QueueInv, TypeOK, Decided
  <2>2. CASE Next
    BY <2>2, PassInv, PageInv, OutsideInv DEF Next, Processes
  <2>3. QED
    BY <2>1, <2>2
<1>2. QueueInv => NothingLost
  <2> SUFFICES ASSUME QueueInv, NEW a \in 1..born,
                      store[a] = NoRow \/ store[a].status = "SYNCED"
               PROVE  a \in saved \cup misread
    BY DEF NothingLost, QueueInv
  <2>1. a \in Actions /\ a <= born
    BY BoundsAssumption DEF QueueInv, TypeOK, Actions
  <2>2. QED
    BY <2>1 DEF QueueInv
<1>3. QED
  BY <1>1, <1>2, InitQueue, PTL DEF Spec

===============================================================================
