------------------------- MODULE MCPromptGovernance -------------------------
(***************************************************************************)
(* One HIGH-risk prompt and one of each other level, an operator and a     *)
(* test, two processes with a thread each, and a row older than the        *)
(* columns source and expires_at.                                          *)
(***************************************************************************)
EXTENDS PromptGovernance, TLC

CONSTANTS p1, p2, p3, p4, agent1, op, ci, old, a1, a2, t1, t2, s1, s2

MCRisk == [p \in Prompt |-> CASE p = p1 -> "HIGH" [] p = p2 -> "LOW" [] p = p3 -> "MEDIUM"
                             [] OTHER -> "BLOCKED"]
MCSourceOf == op :> "OPERATOR" @@ ci :> "TEST"
MCProcessOf == t1 :> s1 @@ t2 :> s2
MCOneProcessOf == t1 :> s1 @@ t2 :> s1

\* the two processes, each with its thread, are interchangeable
Symmetry == {s1 :> s1 @@ s2 :> s2 @@ t1 :> t1 @@ t2 :> t2,
             s1 :> s2 @@ s2 :> s1 @@ t1 :> t2 @@ t2 :> t1}
=============================================================================
