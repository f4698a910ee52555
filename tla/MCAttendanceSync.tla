--------------------------- MODULE MCAttendanceSync ---------------------------
(***************************************************************************)
(* Instances of AttendanceSync for TLC.  Device d1 sends event e1 in one   *)
(* batch and packs it again with an edit into a second; e2 leaves its time *)
(* to the server; the batch of d2 touches both cells, with a mark older    *)
(* than d1's.  Online marking is for the first cell, with and without id.  *)
(***************************************************************************)
EXTENDS AttendanceSync

CONSTANTS c1, c2, d1, d2, web, e1, e2, e3, e4, e5, P, A

Ev(c, st, t, id) == [cell |-> c, status |-> st, time |-> t, id |-> id]

MCSyncs ==
    {[dev |-> d1, batch |-> 1, events |-> <<Ev(c1, P, 2, e1)>>],
     [dev |-> d1, batch |-> 2, events |-> <<Ev(c1, P, 2, e1), Ev(c1, A, Now, e2)>>],
     [dev |-> d2, batch |-> 1, events |-> <<Ev(c2, P, 1, e3), Ev(c1, A, 1, e4)>>]}

MCOnlines ==
    {[dev |-> web, batch |-> 0, events |-> <<Ev(c1, A, 3, e5)>>],
     [dev |-> web, batch |-> 0, events |-> <<Ev(c1, P, 1, NoId), Ev(c1, A, Now, e5)>>]}
===============================================================================
