------------------------- MODULE MCRunbookExecution -------------------------
(* RunbookExecution on the runbooks of remediationFixtures.ts that differ  *)
(* in what the store tells apart, and the execution the page starts with.  *)
EXTENDS RunbookExecution

\* Two gated steps in a row, a draft without gates, an approved runbook
\* without gates.
initialRunbooks ==
    [r \in {"privilege-reset", "access-throttle", "phishing-response"} |->
        CASE r = "privilege-reset" ->
                [status |-> "approved", risk |-> "high", len |-> 5, gated |-> {3, 4},
                 reversible |-> TRUE]
          [] r = "access-throttle" ->
                [status |-> "draft", risk |-> "medium", len |-> 3, gated |-> {},
                 reversible |-> TRUE]
          [] r = "phishing-response" ->
                [status |-> "approved", risk |-> "low", len |-> 5, gated |-> {},
                 reversible |-> TRUE]]

\* EXEC-1278 runs at its third step with no timer behind it; EXEC-1275 is over.
initialExecutionsOfFixtures ==
    [e \in {"EXEC-1278", "EXEC-1275"} |->
        IF e = "EXEC-1278"
        THEN [runbook |-> "phishing-response", status |-> "running", current |-> 3,
              results |-> <<"succeeded", "succeeded", "running", "pending", "pending">>,
              available |-> TRUE, triggered |-> FALSE]
        ELSE [runbook |-> "privilege-reset", status |-> "succeeded", current |-> 5,
              results |-> [i \in 1 .. 5 |-> "succeeded"],
              available |-> TRUE, triggered |-> FALSE]]
=============================================================================
