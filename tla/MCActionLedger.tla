--------------------------- MODULE MCActionLedger ---------------------------
(***************************************************************************)
(* Two server processes, one of them with two threads, and two events that *)
(* any number of calls may log.                                            *)
(***************************************************************************)
EXTENDS ActionLedger, TLC

CONSTANTS p1, p2, t1, t2, t3, e1, e2

MCProcessOf == t1 :> p1 @@ t2 :> p1 @@ t3 :> p2
MCOneProcess == t1 :> p1 @@ t2 :> p1
MCIdOf == [e \in Event \cup {Genesis} |-> IF e = Genesis THEN "evt-genesis-000" ELSE IF e = e1 THEN "evt-1" ELSE "evt-2"]
MCEventId == {"evt-1", "evt-2", "evt-genesis-000"}
=============================================================================
