------------------------- MODULE ReadinessAutopilot -------------------------
(***************************************************************************)
(* The readiness autopilot: readiness_daemon.py scores the system every 30 *)
(* seconds and files an incident for every finding; the endpoints          *)
(* /readiness/remediate, /rollback and /diagnose of main.py run in request *)
(* threads beside it.  Remediation is gated by remediation_safety.py: by   *)
(* the kind of the patch, the autonomy level the error budget leaves and   *)
(* the operators' approval gates.                                          *)
(*                                                                         *)
(* All state is in SQLite and every access is a transaction of its own, so *)
(* an action is one of them, and what a call has read may be stale when it *)
(* uses it.  Any of them may fail (database locked for 30 s).  A request   *)
(* is then aborted where it is and nothing is undone; a tick, and the      *)
(* gates, catch the error and go on.  Most accesses begin by setting the   *)
(* file to WAL mode, and a rollback may set it back: Journal says what a   *)
(* step does to the mode.                                                  *)
(*                                                                         *)
(* Abstracted: patches are a few kinds; a job result is blocked or not and *)
(* complete (trace and evidence) or not; the score categories that cannot  *)
(* change while the program runs are constants; incidents are taken in any *)
(* order.  add_event_to_ledger is the ActionLedger's: it loses an event    *)
(* when another call appends at the same time.                             *)
(***************************************************************************)
EXTENDS ErrorBudget, FiniteSets

CONSTANTS Job, RT008,   \* HOCHSTER jobs; the one diagnostic runs are written to
          PatchedJob,   \* the job that filed UPDATE patches name
          MinJobs,      \* results needed for a runtime score (9)
          StartJobs,    \* job tables the program may find
          StartBlocks,  \* lengths of the ledger it may find
          Manifests, Workflow,  \* release manifest and CI workflow files exist
          Incident,     \* incident ids
          NoIncident,   \* no incident; for /remediate: all of them
          Thread, Daemon,
          Decider,      \* processes that serve operators' decisions on gates
          Undecided,    \* a process that is not between reading and writing
          Reported,     \* job rows that are written from outside
          Kinds,        \* kinds of incidents that are filed from outside
          MaxCalls, MaxResults, MaxFailures  \* bounds (for model checking)

VARIABLES jobs,       \* hochster_cluster_job_results
          incidents,  \* hochster_incidents
          gates,      \* hochster_approval_gates, by the incident they are for
          blocks,     \* number of ledger blocks, as far as three
          pc, frame,  \* where each call is, and its locals
          calls, results, failures,  \* how much of the bounds is used
          runs,       \* history: what each incident's last run measured
          started,    \* the startup handler got as far as the daemon
          wal,        \* the database file is in WAL mode
          deciding,   \* the gate and verdict each process is about to write
          approved,   \* history: incidents whose gate was ever approved
          upset       \* history: incidents that two requests had in hand at a
                      \* time, or that one left between two writes

storeVars == << jobs, incidents, gates, blocks, reports >>
boundVars == << calls, results, failures >>
gateVars == << deciding, approved >>
vars == << storeVars, pc, frame, boundVars, runs, started, wal, gateVars, upset >>

JobRow == [blocked : BOOLEAN, traced : BOOLEAN]
NoJob == [blocked |-> FALSE, traced |-> FALSE, absent |-> TRUE]

Clean == [blocked |-> FALSE, traced |-> TRUE]

NoRow == [kind |-> "none", status |-> "none", state |-> "none"]
NewRow(kind) == [kind |-> kind, status |-> "active", state |-> "detected"]
Filed == {i \in Incident : incidents[i] # NoRow}

Idle == [target |-> NoIncident, todo |-> {}, cur |-> NoIncident, pre |-> 0, level |-> 0,
         grants |-> {}, score |-> 0, found |-> {}, back |-> "idle"]

NoRun == [pre |-> 0, post |-> 0]

ASSUME DomainsAssumption ==
    /\ RT008 \in Job /\ PatchedJob \in Job /\ StartJobs \subseteq [Job -> JobRow \cup {NoJob}]
    /\ StartBlocks \subseteq 1 .. 3
    /\ Manifests \in BOOLEAN /\ Workflow \in BOOLEAN
    /\ NoIncident \notin Incident /\ Daemon \in Thread
ASSUME KindsAssumption == Reported \subseteq JobRow /\ Kinds \subseteq {"pragma", "pragma_high", "wal", "heal", "harm", "denied"}
ASSUME BoundsAssumption ==
    MinJobs \in Nat /\ MaxCalls \in Nat /\ MaxResults \in Nat /\ MaxFailures \in Nat

---------------------------------------------------------------------------
(* Kinds of incidents and of their patches *)

\* patches that are commands: for a blocked job, a job without trace or evidence
\* (python3), an unreadable ledger, missing release manifests or CI workflow
\* (echo)
Commands == {"blocked", "untraced", "ledger", "manifests", "workflow"}

\* Findings of the daemon; the SQL ones are WAL mode that is off and a
\* busy_timeout that is not known to be 30 s.
DaemonKinds == Commands \cup {"wal", "pragma"}

\* Incidents that the QA suite files with persist_incident: allowlisted PRAGMA
\* patches, one of them of High severity; PRAGMA journal_mode=WAL; UPDATEs that
\* set a job to pass or to block and whose rollback does the opposite; SQL that
\* the allowlist refuses.
FiledKinds == {"pragma", "pragma_high", "wal", "heal", "harm", "denied"}

LowRisk(kind) == kind \notin {"blocked", "untraced", "denied"}
HighSeverity(kind) == kind \in {"blocked", "pragma_high"}
\* deny by default: whatever is not allowlisted SQL
SideEffects(kind) == kind \in Commands \cup {"denied"}
Denied(kind) == kind = "denied"

\* inside a transaction PRAGMA journal_mode cannot change the mode: neither to
\* WAL, which is the patch, nor away from it, which is the rollback plan
DryRunPasses(kind) == kind = "wal" => wal
DryUndoPasses(kind) == kind = "wal" => ~wal

SetBlocked(blocked) ==
    IF jobs[PatchedJob] = NoJob THEN jobs ELSE [jobs EXCEPT ![PatchedJob].blocked = blocked]
Patched(kind) ==
    CASE kind = "heal" -> SetBlocked(FALSE) [] kind = "harm" -> SetBlocked(TRUE) [] OTHER -> jobs
Restored(kind) ==
    CASE kind = "heal" -> SetBlocked(TRUE) [] kind = "harm" -> SetBlocked(FALSE) [] OTHER -> jobs
IsSQL(kind) == kind \in FiledKinds

---------------------------------------------------------------------------
(* The score *)

Present == {j \in Job : jobs[j] # NoJob}
Blocked == {j \in Present : jobs[j].blocked}
Untraced == {j \in Present : ~jobs[j].traced}

RuntimeScore == IF Cardinality(Present) < MinJobs \/ Blocked # {} THEN 0
                ELSE IF Untraced # {} THEN 10 ELSE 15

\* verify_ledger_chain returns a dict, which is true whatever it says: only the
\* number of blocks counts
AuditScore == IF blocks >= 3 THEN 15 ELSE 0

\* Freshness 15 (the daemon's own ClusterManager never reports a node Offline),
\* policy 10, docker 10 and performance 5.
FixedScore == 40 + (IF Manifests THEN 10 ELSE 5) + (IF Workflow THEN 10 ELSE 0)

JobFindings == (IF Blocked # {} THEN {"blocked"} ELSE {}) \cup (IF Untraced # {} THEN {"untraced"} ELSE {})
FileFindings == (IF Manifests THEN {} ELSE {"manifests"}) \cup (IF Workflow THEN {} ELSE {"workflow"})

---------------------------------------------------------------------------
(* Steps that several calls have in common *)

Goto(t, label) == pc' = [pc EXCEPT ![t] = label]
Keeps(t, locals) == frame' = [frame EXCEPT ![t] = locals]
End(t) == Goto(t, "idle") /\ Keeps(t, Idle)

\* where a call appends to the ledger
Logging == {"tick_log", "tick_job_log", "log_blocked", "log_started", "log_completed", "log_rollback",
            "rb_log", "diag_log"}

\* one operation fails
Failing == failures < MaxFailures /\ failures' = failures + 1

\* add_event_to_ledger, then the statement at label
Log(t, label) ==
    /\ \/ blocks' = IF blocks < 3 THEN blocks + 1 ELSE 3
       \/ (\E u \in Thread \ {t} : pc[u] \in Logging) /\ UNCHANGED blocks
    /\ Goto(t, label)
    /\ UNCHANGED << jobs, incidents, gates, reports, frame, boundVars, runs >>

\* one UPDATE of an incident's status or state column
Write(t, i, row, label) ==
    /\ incidents' = [incidents EXCEPT ![i] = row]
    /\ Goto(t, label)
    /\ UNCHANGED << jobs, gates, blocks, reports, frame, boundVars, runs >>

WithState(i, state) == [incidents[i] EXCEPT !.state = state]
WithStatus(i, status) == [incidents[i] EXCEPT !.status = status]

SetLocals(t, locals, label) ==
    /\ Keeps(t, locals)
    /\ Goto(t, label)
    /\ UNCHANGED << storeVars, boundVars, runs >>

---------------------------------------------------------------------------
(* ReadinessDaemon.tick *)

\* list_hochster_cluster_jobs; an error counts as no jobs
TickJobs(t) ==
    /\ pc[t] = "tick"
    /\ \/ /\ Keeps(t, [frame[t] EXCEPT !.score = FixedScore + RuntimeScore,
                                       !.found = JobFindings \cup FileFindings])
          /\ UNCHANGED failures
       \/ /\ Keeps(t, [frame[t] EXCEPT !.score = FixedScore, !.found = FileFindings])
          /\ Failing
    /\ Goto(t, "tick_ledger")
    /\ UNCHANGED << storeVars, calls, results, runs >>

\* verify_ledger_chain and get_ledger_blocks: what the first returned is kept
\* when the second fails, so the score is lost and there is no finding
TickLedger(t) ==
    /\ pc[t] = "tick_ledger"
    /\ \/ /\ Keeps(t, [frame[t] EXCEPT !.score = @ + AuditScore])
          /\ UNCHANGED failures
       \/ /\ \/ Keeps(t, [frame[t] EXCEPT !.found = @ \cup {"ledger"}])
             \/ UNCHANGED frame
          /\ Failing
    /\ Goto(t, "tick_wal")
    /\ UNCHANGED << storeVars, calls, results, runs >>

DurabilityScore(mode, timeout) == IF ~mode THEN 0 ELSE IF ~timeout THEN 5 ELSE 10
DurabilityFindings(mode, timeout) ==
    (IF mode THEN {} ELSE {"wal"}) \cup (IF timeout THEN {} ELSE {"pragma"})

\* the two PRAGMA queries on a connection whose timeout is 30 s; an error leaves
\* what was not read at False and 0
TickDurability(t) ==
    /\ pc[t] = "tick_wal"
    /\ \E mode \in {wal, FALSE}, timeout \in BOOLEAN :
          /\ Keeps(t, [frame[t] EXCEPT !.score = @ + DurabilityScore(mode, timeout),
                                       !.found = @ \cup DurabilityFindings(mode, timeout)])
          /\ \/ mode = wal /\ timeout /\ UNCHANGED failures
             \/ ~timeout /\ Failing
    /\ Goto(t, "tick_report")
    /\ UNCHANGED << storeVars, calls, results, runs >>

\* no drift: nothing is filed or logged
AfterReport(t) == IF frame[t].found = {} THEN "tick_done" ELSE "tick_incidents"

\* Mutant of TickReport: what is stored is not the score that was measured.
TickReportUnscored(t) ==
    /\ pc[t] = "tick_report"
    /\ reports' = Recorded(reports, frame[t].score - FixedScore)
    /\ Goto(t, AfterReport(t))
    /\ UNCHANGED << jobs, incidents, gates, blocks, frame, boundVars, runs >>

\* persist_readiness_report; an error is printed, here and below
TickReport(t) ==
    /\ pc[t] = "tick_report"
    /\ \/ reports' = Recorded(reports, frame[t].score) /\ UNCHANGED failures
       \/ Failing /\ UNCHANGED reports
    /\ Goto(t, AfterReport(t))
    /\ UNCHANGED << jobs, incidents, gates, blocks, frame, calls, results, runs >>

\* every finding becomes an incident of its own, on every tick
TickIncident(t, kind) ==
    /\ pc[t] = "tick_incidents"
    /\ kind \in frame[t].found
    /\ \/ /\ \E i \in Incident \ Filed :
                incidents' = [incidents EXCEPT ![i] = NewRow(kind)]
          /\ UNCHANGED failures
       \/ Failing /\ UNCHANGED incidents
       \* no incident id left: the bound of the model
       \/ Filed = Incident /\ UNCHANGED << incidents, failures >>
    /\ Keeps(t, [frame[t] EXCEPT !.found = @ \ {kind}])
    /\ Goto(t, IF frame[t].found = {kind} THEN "tick_log" ELSE "tick_incidents")
    /\ UNCHANGED << jobs, gates, blocks, reports, calls, results, runs >>

AfterTickLog(t) == IF frame[t].score < Target THEN "tick_job" ELSE "tick_done"

TickLog(t) == pc[t] = "tick_log" /\ Log(t, AfterTickLog(t))

\* the diagnostic job result replaces whatever RT-008 had reported
WriteDiagnostic(t, label) ==
    /\ jobs' = [jobs EXCEPT ![RT008] = Clean]
    /\ Goto(t, label)
    /\ UNCHANGED << incidents, gates, blocks, reports, frame, boundVars, runs >>

TickJob(t) == pc[t] = "tick_job" /\ WriteDiagnostic(t, "tick_job_log")
TickJobLog(t) == pc[t] = "tick_job_log" /\ Log(t, "tick_done")

\* the audit event or the diagnostic job cannot be written
TickSkips(t) ==
    /\ pc[t] \in {"tick_log", "tick_job", "tick_job_log"}
    /\ Failing
    /\ Goto(t, IF pc[t] = "tick_log" THEN AfterTickLog(t) ELSE "tick_done")
    /\ UNCHANGED << storeVars, frame, calls, results, runs >>

TickDone(t) ==
    /\ pc[t] = "tick_done"
    /\ IF frame[t].back = "idle" THEN End(t)
       ELSE Goto(t, frame[t].back) /\ UNCHANGED frame
    /\ UNCHANGED << storeVars, boundVars, runs >>

\* daemon.tick() called at the end of a step; it returns to back
Ticking(t, back) == [frame[t] EXCEPT !.back = back]

---------------------------------------------------------------------------
(* POST /readiness/remediate *)

\* list_incidents, before anything else; the request is not looked at again
ReadTargets(t) ==
    /\ pc[t] = "targets"
    /\ LET active == {i \in Filed : incidents[i].status = "active"}
           i == frame[t].target
       IN  SetLocals(t, [frame[t] EXCEPT !.target = NoIncident,
                                           !.todo = IF i = NoIncident THEN active ELSE active \cap {i}],
                     "prescore")

ReadScore(t) ==
    /\ pc[t] = "prescore"
    /\ SetLocals(t, [frame[t] EXCEPT !.pre = LatestScore(reports)], "budget")

\* calculate_error_budget_and_burn_rate takes an error for an empty table, and
\* the endpoint an error of list_approval_gates for no approvals
ReadBudget(t) ==
    /\ pc[t] = "budget"
    /\ \/ /\ Keeps(t, [frame[t] EXCEPT !.level = AutonomyLevel(frame[t].pre, reports)])
          /\ UNCHANGED failures
       \/ /\ Keeps(t, [frame[t] EXCEPT !.level = AutonomyLevel(frame[t].pre, << >>)])
          /\ Failing
    /\ Goto(t, "gates")
    /\ UNCHANGED << storeVars, calls, results, runs >>

ReadGates(t) ==
    /\ pc[t] = "gates"
    /\ \/ /\ Keeps(t, [frame[t] EXCEPT !.grants = {i \in Incident : gates[i] = "approved"}])
          /\ UNCHANGED failures
       \/ Failing /\ UNCHANGED frame
    /\ Goto(t, "loop")
    /\ UNCHANGED << storeVars, calls, results, runs >>

\* Mutant of Autonomous: severity is not looked at.
AutonomousAtAnySeverity(level, kind) == level = 4 /\ LowRisk(kind) /\ ~SideEffects(kind)

Autonomous(level, kind) == level = 4 /\ LowRisk(kind) /\ ~SideEffects(kind) /\ ~HighSeverity(kind)

\* the guards of the loop body, for the next of the incidents read before
Consider(t, i) ==
    /\ pc[t] = "loop" /\ i \in frame[t].todo
    /\ LET kind == incidents[i].kind
           allowed == Autonomous(frame[t].level, kind) \/ i \in frame[t].grants
       IN  SetLocals(t, [frame[t] EXCEPT !.todo = @ \ {i}, !.cur = i],
                     IF Denied(kind) THEN "mark_diagnosed" ELSE IF allowed THEN "dry_run" ELSE "mark_proposed")

\* a dry run, which of SQL may also fail because the database is locked
Rehearse(t, passes, label) ==
    /\ \/ Goto(t, IF passes THEN label ELSE "mark_diagnosed") /\ UNCHANGED failures
       \/ IsSQL(incidents[frame[t].cur].kind) /\ Failing /\ Goto(t, "mark_diagnosed")
    /\ UNCHANGED << storeVars, frame, calls, results, runs >>

DryRun(t) == pc[t] = "dry_run" /\ Rehearse(t, DryRunPasses(incidents[frame[t].cur].kind), "dry_undo")
DryUndo(t) == pc[t] = "dry_undo" /\ Rehearse(t, DryUndoPasses(incidents[frame[t].cur].kind), "log_started")

LoopDone(t) ==
    /\ pc[t] = "loop" /\ frame[t].todo = {}
    /\ End(t)
    /\ UNCHANGED << storeVars, boundVars, runs >>

MarkDiagnosed(t) ==
    pc[t] = "mark_diagnosed" /\ Write(t, frame[t].cur, WithState(frame[t].cur, "diagnosed"), "loop")

MarkProposed(t) ==
    pc[t] = "mark_proposed" /\ Write(t, frame[t].cur, WithState(frame[t].cur, "proposed"), "log_blocked")

LogBlocked(t) == pc[t] = "log_blocked" /\ Log(t, "loop")
LogStarted(t) == pc[t] = "log_started" /\ Log(t, "execute")

\* a command is only reported as triggered; SQL is executed
Execute(t) ==
    /\ pc[t] = "execute"
    /\ jobs' = Patched(incidents[frame[t].cur].kind)
    /\ Goto(t, "set_status")
    /\ UNCHANGED << incidents, gates, blocks, reports, frame, boundVars, runs >>

ExecuteFails(t) ==
    /\ pc[t] = "execute" /\ IsSQL(incidents[frame[t].cur].kind)
    /\ Failing
    /\ Goto(t, "mark_diagnosed")
    /\ UNCHANGED << storeVars, frame, calls, results, runs >>

SetStatus(t) ==
    pc[t] = "set_status" /\ Write(t, frame[t].cur, WithStatus(frame[t].cur, "remediated"), "set_state")
SetState(t) ==
    pc[t] = "set_state" /\ Write(t, frame[t].cur, WithState(frame[t].cur, "remediated"), "log_completed")
LogCompleted(t) == pc[t] = "log_completed" /\ Log(t, "posttick")

\* without a daemon the score before the run stands for the one after it
PostTick(t) ==
    /\ pc[t] = "posttick"
    /\ IF started THEN SetLocals(t, Ticking(t, "compare"), "tick")
       ELSE SetLocals(t, [frame[t] EXCEPT !.score = frame[t].pre], "compare")

\* Mutant of Degraded: only a drop counts.
DegradedByDrop(pre, post) == post < pre

Degraded(pre, post) == post < pre \/ post < Target

\* post-fix health check
Compare(t) ==
    /\ pc[t] = "compare"
    /\ runs' = [runs EXCEPT ![frame[t].cur] = [pre |-> frame[t].pre, post |-> frame[t].score]]
    /\ Goto(t, IF Degraded(frame[t].pre, frame[t].score) THEN "undo" ELSE "loop")
    /\ UNCHANGED << storeVars, frame, boundVars >>

\* the rollback plan; an error in it is printed and forgotten
Undo(t) ==
    /\ pc[t] = "undo"
    /\ \/ jobs' = Restored(incidents[frame[t].cur].kind) /\ UNCHANGED failures
       \/ IsSQL(incidents[frame[t].cur].kind) /\ Failing /\ UNCHANGED jobs
    /\ Goto(t, "undo_status")
    /\ UNCHANGED << incidents, gates, blocks, reports, frame, calls, results, runs >>

\* Mutant of UndoStatus: the status stays as it is.
UndoStatusSkipped(t) == pc[t] = "undo_status" /\ SetLocals(t, frame[t], "undo_state")

UndoStatus(t) ==
    pc[t] = "undo_status" /\ Write(t, frame[t].cur, WithStatus(frame[t].cur, "active"), "undo_state")
UndoState(t) ==
    pc[t] = "undo_state" /\ Write(t, frame[t].cur, WithState(frame[t].cur, "rolled_back"), "log_rollback")
LogRollback(t) == pc[t] = "log_rollback" /\ Log(t, "undotick")

\* Mutant of UndoTick: the loop starts over with the incidents now active.
UndoTickRereads(t) == pc[t] = "undotick" /\ SetLocals(t, Ticking(t, "targets"), "tick")

UndoTick(t) ==
    pc[t] = "undotick" /\ SetLocals(t, Ticking(t, "loop"), IF started THEN "tick" ELSE "loop")

---------------------------------------------------------------------------
(* POST /readiness/rollback: of any incident, whatever its status *)

RollbackRun(t) ==
    /\ pc[t] = "rb_run"
    /\ \/ jobs' = Restored(incidents[frame[t].cur].kind) /\ UNCHANGED failures
       \/ IsSQL(incidents[frame[t].cur].kind) /\ Failing /\ UNCHANGED jobs
    /\ Goto(t, "rb_status")
    /\ UNCHANGED << incidents, gates, blocks, reports, frame, calls, results, runs >>

RollbackStatus(t) ==
    pc[t] = "rb_status" /\ Write(t, frame[t].cur, WithStatus(frame[t].cur, "active"), "rb_state")
RollbackState(t) ==
    pc[t] = "rb_state" /\ Write(t, frame[t].cur, WithState(frame[t].cur, "rolled_back"), "rb_log")
RollbackLog(t) == pc[t] = "rb_log" /\ Log(t, "rb_tick")
RollbackTick(t) ==
    pc[t] = "rb_tick" /\ SetLocals(t, Ticking(t, "idle"), IF started THEN "tick" ELSE "tick_done")

(* POST /readiness/diagnose *)

Diagnose(t) == pc[t] = "diag_job" /\ WriteDiagnostic(t, "diag_log")
DiagnoseLog(t) == pc[t] = "diag_log" /\ Log(t, "rb_tick")

---------------------------------------------------------------------------
(* What calls the steps above, and what happens around them *)

Begin(t, locals, label) ==
    /\ pc[t] = "idle" /\ calls < MaxCalls
    /\ calls' = calls + 1
    /\ Keeps(t, locals)
    /\ Goto(t, label)
    /\ UNCHANGED << storeVars, results, failures, runs >>

Remediate(t, i) == t # Daemon /\ Begin(t, [Idle EXCEPT !.target = i], "targets")
Rollback(t, i) == t # Daemon /\ i \in Filed /\ Begin(t, [Idle EXCEPT !.cur = i], "rb_run")
DiagnoseRequest(t) == t # Daemon /\ started /\ Begin(t, Idle, "diag_job")
\* the daemon's loop, or GET /readiness/status before there is any report
Tick(t) == started /\ (t = Daemon \/ reports = << >>) /\ Begin(t, Idle, "tick")

\* an uncaught sqlite3.OperationalError aborts a request
Fail(t) ==
    /\ pc[t] \in {"targets", "prescore", "mark_diagnosed", "mark_proposed", "log_blocked", "log_started",
                  "set_status", "set_state", "log_completed", "undo_status", "undo_state", "log_rollback",
                  "rb_status", "rb_state", "rb_log", "diag_job", "diag_log"}
    /\ Failing
    /\ End(t)
    /\ UNCHANGED << storeVars, calls, results, runs >>

\* where a call connects without apply_pragmas or apply_wal_pragmas, or not at all
PlainLabels == {"idle", "tick", "tick_wal", "tick_job", "tick_done", "budget", "loop", "dry_run", "dry_undo",
                "execute", "posttick", "compare", "undo", "undotick", "rb_run", "rb_tick", "diag_job"}

\* the rollback plan, PRAGMA journal_mode=DELETE, is executed
LeavesWal(t) == pc[t] \in {"undo", "rb_run"} /\ incidents[frame[t].cur].kind = "wal" /\ failures' = failures
EntersWal(t) ==
    \/ pc[t] \notin PlainLabels
    \/ pc[t] = "execute" /\ incidents[frame[t].cur].kind = "wal" /\ failures' = failures
    \* list_incidents of a rollback, list_readiness_reports of a status request
    \/ pc[t] = "idle" /\ t # Daemon /\ pc'[t] \in {"rb_run", "tick"}

\* what a step of t does to the journal mode; one that fails may not come so far
Journal(t) ==
    \/ wal' = ((wal \/ EntersWal(t)) /\ ~LeavesWal(t))
    \/ failures' # failures /\ UNCHANGED wal

InHand(t, i) == i \in frame[t].todo \cup {frame[t].cur}

\* between the update of an incident's status and that of its state
Between == {"set_state", "undo_state", "rb_state"}

Upsetting(t) ==
    upset' = upset \cup {i \in Incident :
                            \/ InHand(t, i)' /\ \E u \in Thread \ {t} : InHand(u, i)
                            \/ pc[t] \in Between /\ pc'[t] = "idle" /\ i = frame[t].cur}

\* what every step of a call does besides
Around(t) == Journal(t) /\ Upsetting(t) /\ UNCHANGED << started, gateVars >>

\* other components write job results, file incidents and gates
Outside ==
    /\ results < MaxResults /\ results' = results + 1
    /\ UNCHANGED << blocks, reports, pc, frame, calls, failures, runs, started, upset >>

JobResult(j, row) ==
    /\ jobs' = [jobs EXCEPT ![j] = row]
    /\ Outside /\ UNCHANGED << incidents, gates, wal, gateVars >>

FileIncident(i, kind) ==
    /\ i \notin Filed
    /\ incidents' = [incidents EXCEPT ![i] = NewRow(kind)]
    /\ wal' = TRUE
    /\ Outside /\ UNCHANGED << jobs, gates, gateVars >>

\* request_changes is like a rejection; any other word leaves the gate pending
Verdicts == {"approved", "rejected", "pending"}

\* api_submit_decision: list_approval_gates finds the gate undecided ...
ReadGate(d, i, verdict) ==
    /\ i \in Filed /\ gates[i] = "pending" /\ deciding[d] = Undecided
    /\ deciding' = [deciding EXCEPT ![d] = [gate |-> i, verdict |-> verdict]]
    /\ wal' = TRUE
    \* for the bound, decisions that race count as one
    /\ IF \E e \in Decider : deciding[e] # Undecided THEN UNCHANGED results
       ELSE results < MaxResults /\ results' = results + 1
    /\ UNCHANGED << jobs, incidents, gates, blocks, reports, pc, frame, calls, failures, runs, started, approved, upset >>

\* ... and persist_approval_gate replaces the row, whatever it has become in
\* another process, or fails
WriteGate(d) ==
    /\ deciding[d] # Undecided
    /\ LET i == deciding[d].gate
           verdict == deciding[d].verdict
       IN  \/ /\ gates' = [gates EXCEPT ![i] = verdict]
              /\ approved' = IF verdict = "approved" THEN approved \cup {i} ELSE approved
              /\ UNCHANGED failures
           \/ Failing /\ UNCHANGED << gates, approved >>
    /\ deciding' = [deciding EXCEPT ![d] = Undecided]
    /\ wal' = TRUE
    /\ UNCHANGED << jobs, incidents, blocks, reports, pc, frame, calls, results, runs, started, upset >>

Init ==
    /\ jobs \in StartJobs
    /\ incidents = [i \in Incident |-> NoRow]
    /\ gates = [i \in Incident |-> "pending"]
    /\ blocks \in StartBlocks
    /\ reports = << >>
    /\ pc = [t \in Thread |-> "idle"]
    /\ frame = [t \in Thread |-> Idle]
    /\ calls = 0 /\ results = 0 /\ failures = 0
    /\ runs = [i \in Incident |-> NoRun]
    /\ started \in BOOLEAN /\ wal = TRUE
    /\ deciding = [d \in Decider |-> Undecided]
    /\ approved = {} /\ upset = {}

TickStep(t) ==
    \/ TickJobs(t) \/ TickLedger(t) \/ TickDurability(t) \/ TickReport(t)
    \/ \E kind \in DaemonKinds : TickIncident(t, kind)
    \/ TickLog(t) \/ TickJob(t) \/ TickJobLog(t) \/ TickSkips(t) \/ TickDone(t)

RemediateStep(t) ==
    \/ ReadTargets(t) \/ ReadScore(t) \/ ReadBudget(t) \/ ReadGates(t)
    \/ \E i \in Incident : Consider(t, i)
    \/ DryRun(t) \/ DryUndo(t) \/ LoopDone(t) \/ MarkDiagnosed(t) \/ MarkProposed(t) \/ LogBlocked(t) \/ LogStarted(t)
    \/ Execute(t) \/ ExecuteFails(t) \/ SetStatus(t) \/ SetState(t) \/ LogCompleted(t) \/ PostTick(t)
    \/ Compare(t) \/ Undo(t) \/ UndoStatus(t) \/ UndoState(t) \/ LogRollback(t) \/ UndoTick(t)

RollbackStep(t) ==
    \/ RollbackRun(t) \/ RollbackStatus(t) \/ RollbackState(t) \/ RollbackLog(t) \/ RollbackTick(t)
    \/ Diagnose(t) \/ DiagnoseLog(t)

Step(t) == TickStep(t) \/ RemediateStep(t) \/ RollbackStep(t)

Environment ==
    \/ \E j \in Job, row \in Reported : JobResult(j, row)
    \/ \E i \in Incident, kind \in Kinds : FileIncident(i, kind)
    \/ \E d \in Decider : \/ \E i \in Incident, verdict \in Verdicts : ReadGate(d, i, verdict)
                          \/ WriteGate(d)

Arrival(t) ==
    \/ Tick(t) \/ DiagnoseRequest(t)
    \/ \E i \in Incident : Rollback(t, i)
    \/ \E i \in Incident \cup {NoIncident} : Remediate(t, i)

Proceed(t) == pc[t] # "idle" /\ Step(t) /\ Around(t)

Next ==
    \/ \E t \in Thread : \/ Proceed(t)
                         \/ (Fail(t) \/ Arrival(t)) /\ Around(t)
    \/ Environment

Spec == Init /\ [][Next]_vars

\* Some call that is under way goes on: nothing in one waits for another.
FairSpec == Spec /\ WF_vars(\E t \in Thread : Proceed(t))

---------------------------------------------------------------------------
(* Properties *)

Labels ==
    {"idle", "tick", "tick_ledger", "tick_wal", "tick_report", "tick_incidents", "tick_log", "tick_job", "tick_job_log", "tick_done",
     "targets", "prescore", "budget", "gates", "loop", "dry_run", "dry_undo", "mark_diagnosed", "mark_proposed", "log_blocked",
     "log_started", "execute", "set_status", "set_state", "log_completed", "posttick", "compare", "undo",
     "undo_status", "undo_state", "log_rollback", "undotick", "rb_run", "rb_status", "rb_state", "rb_log",
     "rb_tick", "diag_job", "diag_log"}

Row == [kind : DaemonKinds \cup FiledKinds, status : {"active", "remediated"},
        state : {"detected", "diagnosed", "proposed", "remediated", "rolled_back"}]

ScoreRange == {45, 50, 55, 60, 65, 70, 75, 80, 85, 90, 95, 100}

Locals == [target : Incident \cup {NoIncident}, todo : SUBSET Incident,
           cur : Incident \cup {NoIncident}, pre : ScoreRange \cup {0}, level : {0, 1, 3, 4},
           grants : SUBSET Incident, score : ScoreRange \cup {0}, found : SUBSET DaemonKinds,
           back : {"idle", "compare", "loop"}]

\* Types; a call that works on an incident works on one that exists.
TypeOK ==
    /\ jobs \in [Job -> JobRow \cup {NoJob}]
    /\ incidents \in [Incident -> Row \cup {NoRow}]
    /\ gates \in [Incident -> {"pending", "approved", "rejected"}]
    /\ blocks \in 1 .. 3
    /\ reports \in Seq(ScoreRange) /\ Len(reports) <= Window
    /\ pc \in [Thread -> Labels]
    /\ frame \in [Thread -> Locals]
    /\ runs \in [Incident -> [pre : ScoreRange \cup {0}, post : ScoreRange \cup {0}]]
    /\ calls \in Nat /\ results \in Nat /\ failures \in Nat
    /\ started \in BOOLEAN /\ wal \in BOOLEAN
    /\ deciding \in [Decider -> [gate : Incident, verdict : Verdicts] \cup {Undecided}]
    /\ approved \subseteq Incident /\ upset \subseteq Incident
    /\ \A t \in Thread : /\ frame[t].todo \subseteq Filed
                         /\ frame[t].cur \in Filed \cup {NoIncident}
                         /\ pc[t] = "execute" => frame[t].cur \in Filed

\* Nothing is executed that policy forbids, for all that was read before and may
\* have changed: an operator approved the incident under execution (even if another
\* decision has replaced that approval since), or it is allowlisted SQL of no high
\* severity in a call that began with full autonomy.
GateRespected ==
    \A t \in Thread : pc[t] = "execute" =>
        LET i == frame[t].cur
        IN  /\ incidents[i].kind # "denied"
            /\ \/ i \in approved
               \/ incidents[i].kind \in {"pragma", "wal", "heal", "harm"} /\ frame[t].level = 4 /\ frame[t].pre > 97

Working(t, i) == pc[t] # "idle" /\ frame[t].cur = i

\* However remediations, rollbacks and ticks interleave, an incident nobody is
\* working on is left "remediated" only if the health check that followed its
\* last run gave at least 95 and no less than before (unless a database error cut
\* a call short; without a daemon the report before the run is all there is).
RemediatedIsHealthy ==
    failures = 0 =>
        \A i \in Filed : incidents[i].status = "remediated" /\ (\A t \in Thread : ~Working(t, i)) =>
            runs[i].post >= Target /\ runs[i].post >= runs[i].pre

\* Requests may work side by side, on stale rows, and be cut short by the database:
\* an incident that no two of them had in hand at the same time, and that none left
\* between its two writes, has a status and a state that agree whenever no call is
\* between writing the one and the other.
StatusAgreesWithState ==
    \A i \in Filed \ upset :
        \/ incidents[i].status = "remediated" <=> incidents[i].state = "remediated"
        \/ \E t \in Thread : pc[t] \in Between /\ frame[t].cur = i

\* Every call returns, although the ticks inside it file new incidents: when no more
\* calls come (their number is bounded) none is left under way.
CallsReturn == (\E t \in Thread : pc[t] # "idle") ~> (\A t \in Thread : pc[t] = "idle")

\* Throttling is monotone although old reports leave the window: a report at
\* least as good as all in it never lowers the autonomy level, one that is no
\* better than any never raises it.
Level == AutonomyLevel(LatestScore(reports), reports)
NewsCounts ==
    [][/\ (\A n \in DOMAIN reports : reports'[1] >= reports[n]) /\ reports # << >> => Level' >= Level
       /\ (\A n \in DOMAIN reports : reports'[1] <= reports[n]) => Level' <= Level]_reports
=============================================================================
