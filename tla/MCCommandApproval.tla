-------------------------- MODULE MCCommandApproval --------------------------
(* CommandApproval with the fixtures of collaborationFixtures.ts that the   *)
(* page can still change: the pending app-101; the clock counts 10 minutes. *)
EXTENDS CommandApproval

generateMockApprovals ==
    [id \in {"app-101"} |->
        [risk |-> "high", created |-> 0, status |-> "pending", decisions |-> <<>>]]

generateMockOperators ==
    [o \in {"op-3"} |-> "operator"]

\* The two of the fixtures that could sign off in turn.
approverAndAdmin == [o \in {"op-1", "op-2"} |-> IF o = "op-1" THEN "approver" ELSE "admin"]
=============================================================================
