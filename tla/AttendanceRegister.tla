-------------------------- MODULE AttendanceRegister --------------------------
(***************************************************************************)
(* What the attendance sync engine promises: one register per cell (a      *)
(* student, a date and a period).  A writer looks at cells and later       *)
(* delivers a batch of marks, whole, judged by what it looked at: a cell   *)
(* takes the latest mark of the batch if that is later than the mark the   *)
(* writer saw.  If nobody delivered in between, the cell so shows the      *)
(* latest mark anybody made, the first to arrive among marks of the same   *)
(* time.  AttendanceSync is shown to implement it.                         *)
(***************************************************************************)
EXTENDS Integers

CONSTANTS
    Cells,      \* the cells of the attendance book of one school
    Marks,      \* all marks: [cell, status, time, id]
    NoRow,      \* nobody has marked the cell yet
    Writers     \* those who deliver batches

VARIABLES
    heard,      \* every mark that has been delivered
    shown,      \* shown[c]: the mark cell c shows, or NoRow
    seen        \* seen[w]: what w looked at, {} unless it is about to deliver

registerVars == <<heard, shown, seen>>

RegisterInit ==
    /\ heard = {}
    /\ shown = [c \in Cells |-> NoRow]
    /\ seen = [w \in Writers |-> {}]

\* A writer looks at some of the cells.
Look(w) ==
    /\ \E S \in SUBSET Cells :
          seen' = [seen EXCEPT ![w] = {[c \in Cells |->
                                          IF c \in S THEN shown[c] ELSE NoRow]}]
    /\ UNCHANGED <<heard, shown>>

\* It gives up: its batch is refused or lost.
Forget(w) ==
    /\ seen' = [seen EXCEPT ![w] = {}]
    /\ UNCHANGED <<heard, shown>>

\* The marks for cell c in the batch being delivered.
NewMarks(c) == {m \in heard' \ heard : m.cell = c}

\* A cell stays when the mark the writer saw there is as late as any it brings.
Kept(c, old) ==
    /\ \A m \in NewMarks(c) : old # NoRow /\ m.time =< old.time
    /\ shown'[c] = shown[c]

\* Otherwise the latest mark it brings takes the cell.  A first mark never
\* takes a cell somebody marked meanwhile; a later one overruns such a mark,
\* whose other columns may stay.
Taken(c, old) ==
    \E m \in heard' :
        /\ m.cell = c
        /\ \A n \in NewMarks(c) : n.time =< m.time
        /\ old # NoRow => old.time < m.time
        /\ old = NoRow => shown[c] = NoRow
        /\ IF old = shown[c] THEN shown'[c] = m
           ELSE /\ shown'[c].time = m.time
                /\ \A f \in DOMAIN m : shown'[c][f] \in {m[f], shown[c][f]}

\* A batch of marks is delivered at once; marks are never taken back.
Deliver(w) ==
    /\ heard \subseteq heard' /\ heard' \subseteq Marks
    /\ shown' \in [Cells -> Marks \cup {NoRow}]
    /\ \E old \in seen[w] : \A c \in Cells : Kept(c, old[c]) \/ Taken(c, old[c])
    /\ seen' = [seen EXCEPT ![w] = {}]

RegisterNext == \E w \in Writers : Look(w) \/ Forget(w) \/ Deliver(w)

RegisterSpec == RegisterInit /\ [][RegisterNext]_registerVars

===============================================================================
