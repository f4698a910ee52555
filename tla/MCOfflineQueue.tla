---------------------------- MODULE MCOfflineQueue ----------------------------
(***************************************************************************)
(* Instances of OfflineQueue for TLC.  Managers are interchangeable; the   *)
(* symmetry is used for invariants only, never with a liveness property.   *)
(***************************************************************************)
EXTENDS OfflineQueue, TLC

ManagersAlike == Permutations(Managers)

\* With more than one save, one manager works at a time, and no refusal has
\* been misread: those interleavings are explored with one save.
OneAtATime ==
    \/ born <= 1
    \/ misread = {} /\ \E m \in Managers : \A n \in Managers \ {m} : At(n, "idle")
===============================================================================
