---------------------------- MODULE ErrorBudget ----------------------------
(***************************************************************************)
(* backend/remediation_safety.py: calculate_error_budget_and_burn_rate and *)
(* get_autonomy_level, which decide from the readiness reports how much    *)
(* the autopilot may do by itself.                                         *)
(*                                                                         *)
(* Scores are integers, so that the budget and the burn rate need not be   *)
(* computed: the comparisons with them are multiplied out.  The code's     *)
(* floats agree with that, except that a budget of exactly 10% is computed *)
(* as 9.99...8 and counts as lower, for every window of up to 50 reports.  *)
(***************************************************************************)
EXTENDS Integers, Sequences, Functions

CONSTANTS Window,      \* reports that count for the budget (LIMIT 50)
          ShortWindow  \* reports that count for the burn rate (5)

ASSUME WindowAssumption == Window \in Nat \ {0} /\ ShortWindow \in 1 .. Window

VARIABLE reports  \* hochster_readiness_reports: scores, newest first

Target == 95

\* the window after persist_readiness_report
Recorded(window, score) ==
    LET all == << score >> \o window
    IN  SubSeq(all, 1, IF Len(all) <= Window THEN Len(all) ELSE Window)

ShortLen(window) == IF Len(window) < ShortWindow THEN Len(window) ELSE ShortWindow

Recent(window) == SubSeq(window, 1, ShortLen(window))

Deficit(window) == [i \in DOMAIN window |-> IF window[i] < Target THEN Target - window[i] ELSE 0]

\* sum(max(0.0, 95.0 - s) for s in scores)
Error(window) == SumFunction(Deficit(window))

\* remaining_budget < 10.0 and < 50.0; an empty window has all of its budget
BudgetBelow10(window) == window # << >> /\ 2 * Error(window) >= 9 * Len(window)
BudgetBelow50(window) == 2 * Error(window) > 5 * Len(window)

\* burn_rate >= rate
Burns(window, rate) == window # << >> /\ Error(Recent(window)) >= 5 * rate * ShortLen(window)

\* Mutant of AutonomyLevel: the thresholds are swapped between the levels.
LevelSwapped(score, window) ==
    IF score < Target \/ BudgetBelow50(window) \/ Burns(window, 2) THEN 3
    ELSE IF score \in Target .. 97 \/ BudgetBelow10(window) \/ Burns(window, 5) THEN 1
    ELSE 4

\* get_autonomy_level: 1 stands for "L1/L2", 3 for "L3", 4 for "L4"
AutonomyLevel(score, window) ==
    IF score < Target \/ BudgetBelow10(window) \/ Burns(window, 5) THEN 1
    ELSE IF score \in Target .. 97 \/ BudgetBelow50(window) \/ Burns(window, 2) THEN 3
    ELSE 4

\* what list_readiness_reports(1) makes of an empty table: 100
LatestScore(window) == IF window = << >> THEN 100 ELSE window[1]
=============================================================================
