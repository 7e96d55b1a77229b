-------------------------- MODULE RunbookExecution --------------------------
(***************************************************************************)
(* The remediation page: the zustand store of remediationEngine.ts, whose  *)
(* runbook executions advance by timers of the browser, and the panels of  *)
(* components/remediation that an operator drives it with.                 *)
(*                                                                         *)
(* JavaScript runs one callback at a time, so a store operation is atomic  *)
(* up to its next await.  The only await of the store is a setTimeout of   *)
(* 2000 ms; timers of one delay fire in the order they were set, so they   *)
(* are a queue.  The panels read the store afresh after every change, so   *)
(* a button is offered exactly when its condition holds in the store.      *)
(***************************************************************************)
EXTENDS Naturals, Sequences

CONSTANTS Library,        \* the runbooks: id -> [status, risk, len, gated, reversible]
          Execs,          \* the execution ids that Math.random can draw
          initialExecutions,  \* the executions the page starts with
          None            \* the null of activeExecution and simulatingRb

ASSUME LibraryAssumption ==
    \A r \in DOMAIN Library : /\ Library[r].len \in Nat \ {0}
                              /\ Library[r].gated \subseteq 1 .. Library[r].len
                              /\ Library[r].status \in STRING
                              /\ Library[r].risk \in STRING
                              /\ Library[r].reversible \in BOOLEAN

ASSUME ExecsAssumption ==
    /\ None \notin DOMAIN Library \cup Execs \cup DOMAIN initialExecutions
    /\ Execs \cap DOMAIN initialExecutions = {}

Steps(r) == 1 .. Library[r].len
ExecutionStatus == {"running", "paused", "succeeded", "failed", "rolled_back"}
StepStatus == {"pending", "running", "succeeded"}

\* The executions of runbook r.
Execution(r) ==
    [runbook : {r}, status : ExecutionStatus, current : Steps(r),
     results : [Steps(r) -> StepStatus], available : BOOLEAN, triggered : BOOLEAN]

ASSUME InitialExecutionsAssumption ==
    \A e \in DOMAIN initialExecutions :
        \E r \in DOMAIN Library : initialExecutions[e] \in Execution(r)

VARIABLES
    executions,       \* the executions the store holds, by id
    activeExecution,  \* the id of the execution the timeline shows, or None
    timers,           \* pending 2000 ms timeouts, the oldest first
    audit,            \* what was sent to window.addAuditEvent, by execution
    simulation        \* the simulation panel: None, or [runbook, loading]

vars == <<executions, activeExecution, timers, audit, simulation>>

Ids == Execs \cup DOMAIN initialExecutions

\* Mutant of RequiresApproval: the flag of the following step.
RequiresApprovalOfNext(r, i) == i + 1 \in Library[r].gated
RequiresApproval(r, i) == i \in Library[r].gated

Event == [type : {"STARTED", "PAUSED", "APPROVED", "STEP", "SUCCEEDED", "VERIFIED",
                  "FAILED", "ROLLBACK", "RESTORED"},
          step : Nat]

Log(type, step) == [type |-> type, step |-> step]

\* The step_results of a new execution: the first step runs, the others wait.
FreshResults(r) == [i \in Steps(r) |-> IF i = 1 THEN "running" ELSE "pending"]

NewExecution(r) ==
    [runbook |-> r, status |-> "running", current |-> 1, results |-> FreshResults(r),
     available |-> Library[r].reversible, triggered |-> FALSE]

\* Mutant of StepSucceeded: the step after the last one becomes the current one.
StepSucceededPastEnd(x, i) ==
    [x EXCEPT !.results = [j \in DOMAIN x.results |->
                              IF j = i THEN "succeeded"
                              ELSE IF j = i + 1 THEN "running" ELSE x.results[j]],
              !.current = i + 1]

\* x after step i completed: the next step, when there is one, runs.  The
\* status is left as it is, whatever it has become during the wait.
StepSucceeded(x, i) ==
    [x EXCEPT !.results = [j \in DOMAIN x.results |->
                              IF j = i THEN "succeeded"
                              ELSE IF j = i + 1 THEN "running" ELSE x.results[j]],
              !.current = IF i < Library[x.runbook].len THEN i + 1 ELSE i]

PausedAt(x, i) == [x EXCEPT !.status = "paused", !.current = i, !.results[i] = "pending"]

ResumedAt(x, i) == [x EXCEPT !.status = "running", !.results[i] = "running"]

AllSucceeded(x) == \A i \in DOMAIN x.results : x.results[i] = "succeeded"

RolledBack(x) == [x EXCEPT !.status = "failed", !.triggered = TRUE]

Init ==
    /\ executions = initialExecutions
    /\ activeExecution = None
    /\ timers = <<>>
    /\ audit = [e \in Ids |-> <<>>]
    /\ simulation = None

\* Every store operation that touches execution e also makes e the active one.
Store(e, x) ==
    /\ executions' = [f \in DOMAIN executions \cup {e} |-> IF f = e THEN x ELSE executions[f]]
    /\ activeExecution' = e

Record(e, events) == audit' = [audit EXCEPT ![e] = audit[e] \o events]

Timer(e, loop, i) == [exec |-> e, loop |-> loop, step |-> i]
Timers == [exec : Execs, loop : {"start", "resume", "rollback"}, step : Nat]

-----------------------------------------------------------------------------
(* The two step loops.  "start" is runStepsAsync, which pauses at a step    *)
(* that requires approval; "resume" is runRemainingSteps, which does not.   *)

\* What a loop does when it is left, by its last step, by a pause or because
\* the execution no longer runs: it asks for the results of the steps and
\* never for the status of the execution.
Complete(e, x, queue, events) ==
    /\ timers' = queue
    /\ \/ /\ AllSucceeded(x)
          /\ Store(e, [x EXCEPT !.status = "succeeded"])
          /\ Record(e, events \o <<Log("SUCCEEDED", 0), Log("VERIFIED", 0)>>)
       \/ /\ ~AllSucceeded(x)
          /\ Store(e, x)
          /\ Record(e, events)

\* One turn of a loop that reaches step i of x: leave, pause or wait.  queue
\* is what is left of the timers, events what the callback has logged so far.
Turn(e, x, loop, i, queue, events) ==
    \/ /\ x.status # "running"
       /\ Complete(e, x, queue, events)
    \/ /\ x.status = "running"
       /\ loop = "start"
       /\ RequiresApproval(x.runbook, i)
       /\ Complete(e, PausedAt(x, i), queue, events \o <<Log("PAUSED", i)>>)
    \/ /\ x.status = "running"
       /\ loop = "resume" \/ ~RequiresApproval(x.runbook, i)
       /\ Store(e, x)
       /\ timers' = Append(queue, Timer(e, loop, i))
       /\ Record(e, events)

\* startExecution, up to the first wait.  The buttons of the detail panel and
\* of the recommendations call it for every runbook of the library.
startExecution(r, e) ==
    /\ e \in Execs \ DOMAIN executions
    /\ Turn(e, NewExecution(r), "start", 1, timers, <<Log("STARTED", 0)>>)

Execute(r, e) ==
    /\ startExecution(r, e)
    /\ UNCHANGED simulation

\* The wait of a step is over: its step has succeeded, and the loop goes on.
StepTimeout ==
    /\ timers # <<>>
    /\ LET t == Head(timers)
           x == StepSucceeded(executions[t.exec], t.step)
           done == <<Log("STEP", t.step)>>
       IN /\ t.loop \in {"start", "resume"}
          /\ \/ /\ t.step < Library[x.runbook].len
                /\ Turn(t.exec, x, t.loop, t.step + 1, Tail(timers), done)
             \/ /\ t.step = Library[x.runbook].len
                /\ Complete(t.exec, x, Tail(timers), done)
    /\ UNCHANGED simulation

\* Mutant of CanAuthorize: the button stays when the execution runs again.
CanAuthorizeAlways(e) == activeExecution = e

\* The "Authorize Step" button, offered at the current step of a paused
\* execution that the timeline shows.
CanAuthorize(e) == activeExecution = e /\ executions[e].status = "paused"

approveExecutionStep(e) ==
    /\ e \in DOMAIN executions
    /\ CanAuthorize(e)
    /\ LET i == executions[e].current
       IN Turn(e, ResumedAt(executions[e], i), "resume", i, timers, <<Log("APPROVED", i)>>)
    /\ UNCHANGED simulation

\* The "Trigger Rollback" button.
CanRollback(e) ==
    activeExecution = e /\ executions[e].status = "running" /\ executions[e].available

\* Mutant of triggerRollback: a shorter delay than that of the steps.
triggerRollbackEarly(e) ==
    /\ e \in DOMAIN executions
    /\ CanRollback(e)
    /\ Store(e, RolledBack(executions[e]))
    /\ timers' = <<Timer(e, "rollback", 0)>> \o timers
    /\ Record(e, <<Log("FAILED", 0), Log("ROLLBACK", 0)>>)
    /\ UNCHANGED simulation

triggerRollback(e) ==
    /\ e \in DOMAIN executions
    /\ CanRollback(e)
    /\ Store(e, RolledBack(executions[e]))
    /\ timers' = Append(timers, Timer(e, "rollback", 0))
    /\ Record(e, <<Log("FAILED", 0), Log("ROLLBACK", 0)>>)
    /\ UNCHANGED simulation

\* Mutant of RollbackTimeout: restores only what is still "failed".
RollbackTimeoutIfFailed ==
    /\ timers # <<>>
    /\ Head(timers).loop = "rollback"
    /\ LET e == Head(timers).exec
       IN \/ /\ executions[e].status = "failed"
             /\ Store(e, [executions[e] EXCEPT !.status = "rolled_back"])
             /\ Record(e, <<Log("RESTORED", 0)>>)
          \/ /\ executions[e].status # "failed"
             /\ UNCHANGED <<executions, activeExecution, audit>>
    /\ timers' = Tail(timers)
    /\ UNCHANGED simulation

RollbackTimeout ==
    /\ timers # <<>>
    /\ Head(timers).loop = "rollback"
    /\ LET e == Head(timers).exec
       IN /\ Store(e, [executions[e] EXCEPT !.status = "rolled_back"])
          /\ Record(e, <<Log("RESTORED", 0)>>)
    /\ timers' = Tail(timers)
    /\ UNCHANGED simulation

clearActiveExecution ==
    /\ activeExecution # None
    /\ activeExecution' = None
    /\ UNCHANGED <<executions, timers, audit, simulation>>

-----------------------------------------------------------------------------
(* The simulation panel.                                                    *)

Blockers(r) ==
    (IF Library[r].status # "approved" THEN {"must be approved"} ELSE {})
    \cup (IF Library[r].risk = "critical" THEN {"requires dual approval"} ELSE {})

simulateRunbook(r) == [executable |-> Blockers(r) = {}, required_approvals |-> Library[r].gated]

OpenSimulation(r) ==
    /\ simulation' = [runbook |-> r, loading |-> TRUE]
    /\ UNCHANGED <<executions, activeExecution, timers, audit>>

Simulated ==
    /\ simulation # None
    /\ simulation.loading
    /\ simulation' = [simulation EXCEPT !.loading = FALSE]
    /\ UNCHANGED <<executions, activeExecution, timers, audit>>

CloseSimulation ==
    /\ simulation # None
    /\ simulation' = None
    /\ UNCHANGED <<executions, activeExecution, timers, audit>>

DeployRemediation(e) ==
    /\ simulation # None
    /\ ~simulation.loading
    /\ simulateRunbook(simulation.runbook).executable
    /\ startExecution(simulation.runbook, e)
    /\ simulation' = None

-----------------------------------------------------------------------------
Timeout == StepTimeout \/ RollbackTimeout

Operator ==
    \/ \E r \in DOMAIN Library, e \in Execs : Execute(r, e)
    \/ \E e \in Execs : approveExecutionStep(e) \/ triggerRollback(e) \/ DeployRemediation(e)
    \/ clearActiveExecution
    \/ \E r \in DOMAIN Library : OpenSimulation(r)
    \/ CloseSimulation

Next == Operator \/ Timeout \/ Simulated

Spec == Init /\ [][Next]_vars

\* A timer that was set fires: the browser promises no more, and an operator
\* need never press anything.
FairSpec == Spec /\ WF_vars(Timeout)

-----------------------------------------------------------------------------
(* Properties.                                                              *)

TypeOK ==
    /\ DOMAIN executions \subseteq Ids
    /\ \A e \in DOMAIN executions : \E r \in DOMAIN Library : executions[e] \in Execution(r)
    /\ activeExecution \in DOMAIN executions \cup {None}
    /\ timers \in Seq(Timers)
    /\ audit \in [Ids -> Seq(Event)]
    /\ simulation \in {None} \cup [runbook : DOMAIN Library, loading : BOOLEAN]

Pending(e) == {k \in DOMAIN timers : timers[k].exec = e}
Stepping(e) == {k \in Pending(e) : timers[k].loop # "rollback"}
Logged(e, type) == {k \in DOMAIN audit[e] : audit[e][k].type = type}
Gate(r) == {i \in Library[r].gated : \A j \in Library[r].gated : i <= j}

\* An execution is driven by one loop at a time, and that loop waits for the
\* step that is marked as running: authorising a step never starts a second
\* loop beside the one that paused.
OneLoopPerExecution ==
    \A e \in DOMAIN executions :
       /\ \A k, l \in Stepping(e) : k = l
       /\ \A k \in Stepping(e) : executions[e].results[timers[k].step] = "running"
       /\ executions[e].status = "paused" => Pending(e) = {}

\* Nothing at or past the first step that requires approval is done before
\* an operator authorised that step, and none of it is undone by a pause.
FirstGateHolds ==
    \A e \in DOMAIN executions \ DOMAIN initialExecutions :
       LET x == executions[e]
       IN \A i \in Gate(x.runbook), j \in Steps(x.runbook) :
             j >= i /\ x.results[j] = "succeeded" =>
                \E k \in Logged(e, "APPROVED") : audit[e][k].step = i

\* A restored execution stays as it is: the rollback's timer outlives every
\* step that was under way, so no late step writes into what was restored.
RestoredIsFinal ==
    [][\A e \in DOMAIN executions :
          executions[e].status = "rolled_back" =>
             executions'[e] = executions[e] /\ audit'[e] = audit[e]]_vars

\* An execution the page started comes to rest by its own timers, and a rollback
\* that was triggered ends in "rolled_back" even when the last step completes
\* meanwhile and reports success.
Settled(e) ==
    /\ executions[e].status # "running"
    /\ executions[e].triggered => executions[e].status = "rolled_back"
ExecutionEnds ==
    \A e \in Execs \ DOMAIN initialExecutions :
       (e \in DOMAIN executions) ~> (e \in DOMAIN executions /\ Settled(e))

=============================================================================
