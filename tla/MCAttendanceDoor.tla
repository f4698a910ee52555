--------------------------- MODULE MCAttendanceDoor ---------------------------
(* The sync of attendance, and the gateway's door in front of it: in one       *)
(* behaviour two devices sync, or three requests pass the door, or readiness   *)
(* probes overlap.                                                             *)
EXTENDS MCAttendanceSync, GatewayDoor, TLC
CONSTANTS caller, v1, v2, v3
VARIABLE focus

MCLimit == "login" :> 1 @@ "sync" :> 1 @@ "default" :> 2
MCServices == <<"identity", "academics">>
Order == <<v1, v2, v3>>

MCInit == Init /\ DoorInit /\ focus \in {"sync", "door", "ready"}
\* Requests come in an order and need no more than two windows; the limiter and the probes
\* share nothing but the clock.
Arrives ==
    /\ Tick \/ VisitNext
    /\ clock' <= Window
    /\ \A k \in 2..3 : visit'[Order[k]] # Unset => visit[Order[k - 1]] # Unset
AllAnswered == clock = Window /\ \A v \in Visits : visit[v] # Unset /\ visit[v].at = "answered"
MCNext ==
    /\ \/ focus = "sync" /\ Next /\ UNCHANGED door
       \/ focus = "door" /\ Arrives /\ UNCHANGED vars
       \/ focus = "door" /\ AllAnswered /\ UNCHANGED <<vars, door>>
       \/ focus = "ready" /\ (Tick \/ ReadyNext) /\ UNCHANGED vars
    /\ UNCHANGED focus
\* A behaviour in which the sync never runs is not fair to it: BatchIsRecorded is asked
\* of the sync's behaviours alone, the other properties of all.
MCSpec == MCInit /\ [][MCNext]_<<vars, door, focus>> /\ Fairness
===============================================================================
