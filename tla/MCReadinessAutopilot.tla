------------------------ MODULE MCReadinessAutopilot ------------------------
(***************************************************************************)
(* Two jobs, RT-008 and the one that filed patches name; two of the nine   *)
(* results are enough.                                                     *)
(***************************************************************************)
EXTENDS ReadinessAutopilot, TLC

CONSTANTS rt8, job, i1, daemon, r1, r2, d1, d2

MCJobs == rt8 :> Clean @@ job :> Clean
MCStart == {MCJobs, [MCJobs EXCEPT ![job].blocked = TRUE]}
MCReported == {[Clean EXCEPT !.traced = FALSE]}
=============================================================================
