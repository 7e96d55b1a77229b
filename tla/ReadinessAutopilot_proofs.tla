---------------------- MODULE ReadinessAutopilot_proofs ----------------------
(***************************************************************************)
(* Proofs about the readiness autopilot, for any incidents, jobs, threads  *)
(* and failures.  A call works on what it read many transactions before,   *)
(* beside any number of other calls, so the invariant says of each call    *)
(* what still holds of the locals it keeps (Sane), and of each incident    *)
(* marked remediated which call still answers for it (Owes).  For status   *)
(* and state, no two calls have an incident in hand that is not upset      *)
(* (OneHand), so what they have read of it is so (Settled).  At the end,   *)
(* sums over windows of any length, for what a report does to the level.   *)
(***************************************************************************)
EXTENDS ReadinessAutopilot, FiniteSetTheorems, SequenceTheorems, WellFoundedInduction, TLAPS

\* The labels of daemon.tick().
Ticks == {"tick", "tick_ledger", "tick_wal", "tick_report", "tick_incidents", "tick_log", "tick_job",
          "tick_job_log", "tick_done"}

\* The labels at which a call works on frame.cur.
Works == {"dry_run", "dry_undo", "mark_diagnosed", "mark_proposed", "log_blocked", "log_started", "execute", "set_status",
          "set_state", "log_completed", "posttick", "compare", "undo", "undo_status", "undo_state",
          "log_rollback", "undotick", "rb_run", "rb_status", "rb_state", "rb_log"}

\* What policy allows of incident i, as GateRespected asks for it.
Allowed(locals, kind, i, yes) ==
    /\ kind # "denied"
    /\ \/ i \in yes
       \/ kind \in {"pragma", "wal", "heal", "harm"} /\ locals.level = 4 /\ locals.pre > 97

\* Scores of a tick before the ledger is read, and before the journal mode is.
BeforeLedger == {45, 50, 55, 60, 65, 70, 75}
BeforeWal == BeforeLedger \cup {80, 85, 90}

\* What holds of a call's locals, given the incidents and which ever were approved.
Sane(label, locals, rows, yes) ==
    /\ locals \in Locals
    /\ \A i \in locals.todo : rows[i] # NoRow
    /\ locals.cur # NoIncident => rows[locals.cur] # NoRow
    /\ label \in Works \/ (label \in Ticks /\ locals.back = "compare") => locals.cur # NoIncident
    /\ locals.grants \subseteq yes
    /\ locals.level = 4 => locals.pre > 97
    /\ label \in {"targets", "prescore", "budget"} => locals.level = 0
    /\ label \in {"dry_run", "dry_undo", "log_started", "execute"} =>
          Allowed(locals, rows[locals.cur].kind, locals.cur, yes)
    /\ label = "tick_ledger" => locals.score \in BeforeLedger
    /\ label = "tick_wal" => locals.score \in BeforeWal
    /\ label = "tick_report" => locals.score # 0

Healthy(run) == run.post >= Target /\ run.post >= run.pre

\* The call has marked i remediated, or will, and has not compared the scores,
\* or it has and is about to take the mark back.
Owes(label, locals, i) ==
    /\ locals.cur = i
    /\ \/ label \in {"set_state", "log_completed", "posttick", "compare", "undo", "undo_status"}
       \/ label \in Ticks /\ locals.back = "compare"

Stores ==
    /\ jobs \in [Job -> JobRow \cup {NoJob}]
    /\ incidents \in [Incident -> Row \cup {NoRow}]
    /\ gates \in [Incident -> {"pending", "approved", "rejected"}]
    /\ blocks \in 1..3
    /\ reports \in Seq(ScoreRange) /\ Len(reports) <= Window
    /\ runs \in [Incident -> [pre : ScoreRange \cup {0}, post : ScoreRange \cup {0}]]
    /\ calls \in Nat /\ results \in Nat /\ failures \in Nat
    /\ approved \subseteq Incident /\ \A i \in Incident : gates[i] = "approved" => i \in approved

Calls ==
    /\ pc \in [Thread -> Labels]
    /\ frame \in [Thread -> Locals]
    /\ \A t \in Thread : Sane(pc[t], frame[t], incidents, approved)

Answered ==
    failures = 0 =>
        \A i \in Incident : incidents[i].status = "remediated" =>
            Healthy(runs[i]) \/ \E t \in Thread : Owes(pc[t], frame[t], i)

IInv == Stores /\ Calls /\ Answered

\* The types of what the rest does not depend on.
Surroundings ==
    /\ started \in BOOLEAN /\ wal \in BOOLEAN /\ upset \subseteq Incident
    /\ deciding \in [Decider -> [gate : Incident, verdict : Verdicts] \cup {Undecided}]

-----------------------------------------------------------------------------
(* Steps of one call *)

\* Incidents and approvals are only added to, and no incident changes its kind.
Extends(rows, yes) ==
    /\ \A i \in Incident : incidents[i] # NoRow =>
          rows[i] # NoRow /\ rows[i].kind = incidents[i].kind
    /\ approved \subseteq yes

\* What a call has read stays good.
LEMMA StillSane ==
    ASSUME NEW label, NEW locals, NEW rows, NEW yes,
           Sane(label, locals, incidents, approved), Extends(rows, yes)
    PROVE  Sane(label, locals, rows, yes)
  <1>1. locals \in Locals /\ locals.todo \subseteq Incident /\ locals.grants \subseteq Incident
        /\ locals.cur \in Incident \cup {NoIncident}
    BY DEF Sane, Locals
  <1>2. label \in {"dry_run", "dry_undo", "log_started", "execute"} => label \in Works
    BY DEF Works
  <1> QED
    BY <1>1, <1>2 DEF Sane, Extends, Allowed

\* A step of one call leaves the others as they are.
LEMMA CallsStep ==
    ASSUME IInv, NEW t \in Thread,
           pc' \in [Thread -> Labels], frame' \in [Thread -> Locals],
           \A u \in Thread \ {t} : pc'[u] = pc[u] /\ frame'[u] = frame[u],
           Extends(incidents', approved'),
           Sane(pc'[t], frame'[t], incidents', approved')
    PROVE  Calls'
  <1> SUFFICES ASSUME NEW u \in Thread
               PROVE  Sane(pc'[u], frame'[u], incidents', approved')
    BY DEF Calls
  <1>1. CASE u = t
    BY <1>1
  <1>2. CASE u # t
    BY <1>2, StillSane DEF IInv, Calls
  <1> QED
    BY <1>1, <1>2

\* Whoever answered for an incident still does, or need not.
LEMMA AnsweredStep ==
    ASSUME IInv, NEW t \in Thread,
           \A u \in Thread \ {t} : pc'[u] = pc[u] /\ frame'[u] = frame[u],
           failures' = 0 => failures = 0,
           \A i \in Incident : incidents'[i].status = "remediated" =>
              incidents[i].status = "remediated" \/ Owes(pc'[t], frame'[t], i),
           \A i \in Incident : \/ runs'[i] = runs[i]
                               \/ Healthy(runs'[i])
                               \/ Owes(pc'[t], frame'[t], i),
           \A i \in Incident : incidents'[i].status = "remediated" /\ Owes(pc[t], frame[t], i) =>
              Owes(pc'[t], frame'[t], i) \/ Healthy(runs'[i])
    PROVE  Answered'
  <1> SUFFICES ASSUME failures' = 0, NEW i \in Incident, incidents'[i].status = "remediated"
               PROVE  Healthy(runs'[i]) \/ \E u \in Thread : Owes(pc'[u], frame'[u], i)
    BY DEF Answered
  <1>1. CASE Owes(pc'[t], frame'[t], i)
    BY <1>1
  <1>2. CASE ~Owes(pc'[t], frame'[t], i) /\ ~Healthy(runs'[i])
    <2>1. incidents[i].status = "remediated" /\ runs'[i] = runs[i] /\ ~Owes(pc[t], frame[t], i)
      BY <1>2
    <2>2. PICK u \in Thread : Owes(pc[u], frame[u], i)
      BY <1>2, <2>1 DEF IInv, Answered
    <2> QED
      BY <2>1, <2>2
  <1> QED
    BY <1>1, <1>2

\* One step of call t, to a label and with locals of its own.
LEMMA Others ==
    ASSUME IInv, NEW t \in Thread, NEW label \in Labels, NEW locals \in Locals, Goto(t, label),
           Keeps(t, locals) \/ (UNCHANGED frame /\ locals = frame[t])
    PROVE  /\ pc' \in [Thread -> Labels] /\ frame' \in [Thread -> Locals]
           /\ pc'[t] = label /\ frame'[t] = locals
           /\ \A u \in Thread \ {t} : pc'[u] = pc[u] /\ frame'[u] = frame[u]
  BY DEF IInv, Calls, Goto, Keeps

\* A step that leaves the incidents alone.
LEMMA Moves ==
    ASSUME IInv, NEW t \in Thread, NEW label \in Labels, NEW locals, Goto(t, label),
           Keeps(t, locals) \/ (UNCHANGED frame /\ locals = frame[t]),
           UNCHANGED <<incidents, gates, approved, runs>>, Stores', failures' \in {failures, failures + 1},
           Sane(label, locals, incidents, approved),
           \/ failures' # failures
           \/ \A i \in Incident : Owes(pc[t], frame[t], i) => Owes(label, locals, i)
    PROVE  IInv'
  <1>1. locals \in Locals /\ failures \in Nat
    BY DEF Sane, IInv, Stores
  <1>2. /\ pc' \in [Thread -> Labels] /\ frame' \in [Thread -> Locals]
        /\ pc'[t] = label /\ frame'[t] = locals
        /\ \A u \in Thread \ {t} : pc'[u] = pc[u] /\ frame'[u] = frame[u]
    BY <1>1, Others
  <1>3. Calls'
    BY <1>2, CallsStep DEF Extends
  <1>4. Answered'
    <2>1. CASE failures' # failures
      BY <1>1, <2>1 DEF Answered
    <2>2. CASE failures' = failures
      BY <1>2, <2>2, AnsweredStep
    <2> QED
      BY <2>1, <2>2
  <1> QED
    BY <1>3, <1>4 DEF IInv

\* What a step leaves alone keeps its type.
LEMMA StoresKept ==
    ASSUME IInv, UNCHANGED <<incidents, gates, approved, runs>>,
           jobs' \in [Job -> JobRow \cup {NoJob}], blocks' \in 1..3,
           reports' \in Seq(ScoreRange), Len(reports') <= Window,
           calls' \in Nat, results' \in Nat, failures' \in {failures, failures + 1}
    PROVE  Stores'
  BY DEF IInv, Stores

\* The types of what the invariant speaks of.
LEMMA Types ==
    ASSUME IInv
    PROVE  /\ jobs \in [Job -> JobRow \cup {NoJob}] /\ blocks \in 1..3
           /\ reports \in Seq(ScoreRange) /\ Len(reports) <= Window
           /\ calls \in Nat /\ results \in Nat /\ failures \in Nat
           /\ \A t \in Thread : /\ pc[t] \in Labels /\ frame[t] \in Locals
                                /\ Sane(pc[t], frame[t], incidents, approved)
  BY DEF IInv, Stores, Calls

\* Labels.
LEMMA LabelsAre ==
    /\ Ticks \subseteq Labels /\ Works \subseteq Labels /\ Ticks \cap Works = {}
    /\ "idle" \notin Ticks \cup Works
  BY DEF Ticks, Works, Labels

-----------------------------------------------------------------------------
(* ReadinessDaemon.tick *)

\* A step inside a tick changes no locals but the score and the findings.
LEMMA TickMoves ==
    ASSUME IInv, NEW t \in Thread, NEW label \in Ticks, NEW locals \in Locals,
           pc[t] \in Ticks, Goto(t, label),
           Keeps(t, locals) \/ (UNCHANGED frame /\ locals = frame[t]),
           locals.todo = frame[t].todo, locals.cur = frame[t].cur, locals.back = frame[t].back,
           locals.grants = frame[t].grants, locals.level = frame[t].level,
           locals.pre = frame[t].pre,
           label = "tick_ledger" => locals.score \in BeforeLedger,
           label = "tick_wal" => locals.score \in BeforeWal,
           label = "tick_report" => locals.score # 0,
           UNCHANGED <<incidents, gates, approved, runs>>, Stores', failures' \in {failures, failures + 1}
    PROVE  IInv'
  <1>1. Sane(pc[t], frame[t], incidents, approved)
    BY Types
  <1>2. Sane(label, locals, incidents, approved)
    BY <1>1, LabelsAre DEF Sane, Ticks, Works
  <1>3. \A i \in Incident : Owes(pc[t], frame[t], i) => Owes(label, locals, i)
    BY DEF Owes, Ticks
  <1>4. label \in Labels
    BY LabelsAre
  <1> QED
    BY <1>2, <1>3, <1>4, Moves

\* The scores.
LEMMA Scores ==
    /\ FixedScore \in {45, 50, 55, 60}
    /\ RuntimeScore \in {0, 10, 15}
    /\ AuditScore \in {0, 15}
    /\ JobFindings \cup FileFindings \in SUBSET DaemonKinds /\ FileFindings \in SUBSET DaemonKinds
  BY DEF FixedScore, RuntimeScore, AuditScore, JobFindings, FileFindings, DaemonKinds, Commands

\* The locals of a tick that has measured.
Scored(t, score, found) == [frame[t] EXCEPT !.score = score, !.found = found]

\* The first measurement.
LEMMA TickJobsKeeps ==
    ASSUME IInv, NEW t \in Thread, UNCHANGED approved, TickJobs(t)
    PROVE  IInv'
  <1>1. pc[t] = "tick" /\ Goto(t, "tick_ledger") /\ UNCHANGED <<storeVars, calls, results, runs>>
    BY DEF TickJobs
  <1>2. PICK score \in BeforeLedger, found \in SUBSET DaemonKinds :
           /\ Keeps(t, Scored(t, score, found))
           /\ failures' \in {failures, failures + 1}
    <2>1. FixedScore + RuntimeScore \in BeforeLedger
      BY Scores DEF BeforeLedger
    <2>2. FixedScore \in BeforeLedger
      BY Scores DEF BeforeLedger
    <2>3. JobFindings \cup FileFindings \in SUBSET DaemonKinds /\ FileFindings \in SUBSET DaemonKinds
      BY Scores
    <2>4. \/ /\ Keeps(t, Scored(t, FixedScore + RuntimeScore, JobFindings \cup FileFindings))
             /\ UNCHANGED failures
          \/ Keeps(t, Scored(t, FixedScore, FileFindings)) /\ Failing
      BY DEF TickJobs, Scored
    <2> QED
      BY <2>1, <2>2, <2>3, <2>4 DEF Failing
  <1>3. PICK locals : locals = Scored(t, score, found)
    OBVIOUS
  <1>4. /\ locals \in Locals /\ locals.score = score
        /\ locals.todo = frame[t].todo /\ locals.cur = frame[t].cur
        /\ locals.back = frame[t].back /\ locals.grants = frame[t].grants
        /\ locals.level = frame[t].level /\ locals.pre = frame[t].pre
    <2>1. frame[t] \in Locals
      BY Types
    <2>2. score \in ScoreRange \cup {0}
      BY DEF ScoreRange, BeforeLedger
    <2> QED
      BY <1>3, <2>1, <2>2 DEF Locals, Scored
  <1>5. Stores'
    BY <1>1, <1>2, Types, StoresKept DEF storeVars
  <1> QED
    BY <1>1, <1>2, <1>3, <1>4, <1>5, TickMoves DEF Ticks, storeVars

\* What the shared steps leave alone.
LEMMA SharedSteps ==
    ASSUME IInv, NEW t \in Thread, UNCHANGED approved, NEW label, NEW locals
    PROVE  /\ Log(t, label) => /\ Stores' /\ Goto(t, label)
                               /\ UNCHANGED <<incidents, gates, approved, runs, frame, failures>>
           /\ SetLocals(t, locals, label) => /\ Stores' /\ Goto(t, label) /\ Keeps(t, locals)
                                             /\ UNCHANGED <<incidents, gates, approved, runs, failures>>
           /\ WriteDiagnostic(t, label) => /\ Stores' /\ Goto(t, label)
                                           /\ UNCHANGED <<incidents, gates, approved, runs, frame, failures>>
  <1>1. ASSUME Log(t, label)
        PROVE  Stores'
    <2>1. blocks' \in 1..3
      BY <1>1, Types DEF Log
    <2> QED
      BY <1>1, <2>1, Types, StoresKept DEF Log, boundVars
  <1>2. ASSUME SetLocals(t, locals, label)
        PROVE  Stores'
    BY <1>2, Types, StoresKept DEF SetLocals, storeVars, boundVars
  <1>3. ASSUME WriteDiagnostic(t, label)
        PROVE  Stores'
    <2>1. Clean \in JobRow /\ RT008 \in Job
      BY DomainsAssumption DEF Clean, JobRow
    <2>2. jobs' \in [Job -> JobRow \cup {NoJob}]
      BY <1>3, <2>1, Types DEF WriteDiagnostic
    <2> QED
      BY <1>3, <2>2, Types, StoresKept DEF WriteDiagnostic, boundVars
  <1> QED
    BY <1>1, <1>2, <1>3 DEF Log, SetLocals, WriteDiagnostic, storeVars, boundVars

\* A step that measures what the ledger or the journal mode gives.
LEMMA TickMeasures ==
    ASSUME IInv, NEW t \in Thread, UNCHANGED approved, pc[t] \in Ticks,
           NEW label \in {"tick_wal", "tick_report"}, Goto(t, label),
           NEW score \in ScoreRange, NEW found \in SUBSET DaemonKinds, NEW locals,
           locals = Scored(t, score, found), Keeps(t, locals) \/ (UNCHANGED frame /\ locals = frame[t]),
           label = "tick_wal" => score \in BeforeWal,
           UNCHANGED <<storeVars, calls, results, runs>>, failures' \in {failures, failures + 1}
    PROVE  IInv'
  <1>1. frame[t] \in Locals
    BY Types
  <1>2. /\ locals \in Locals /\ locals.score = score
        /\ locals.todo = frame[t].todo /\ locals.cur = frame[t].cur
        /\ locals.back = frame[t].back /\ locals.grants = frame[t].grants
        /\ locals.level = frame[t].level /\ locals.pre = frame[t].pre
    BY <1>1 DEF Locals, Scored
  <1>3. Stores'
    BY Types, StoresKept DEF storeVars
  <1>4. score # 0 /\ label \in Ticks
    BY DEF ScoreRange, Ticks
  <1> QED
    BY <1>2, <1>3, <1>4, TickMoves DEF storeVars

\* The second measurement.
LEMMA TickLedgerKeeps ==
    ASSUME IInv, NEW t \in Thread, UNCHANGED approved, TickLedger(t)
    PROVE  IInv'
  <1>1. /\ pc[t] = "tick_ledger" /\ Goto(t, "tick_wal")
        /\ UNCHANGED <<storeVars, calls, results, runs>>
    BY DEF TickLedger
  <1>2. frame[t] \in Locals /\ frame[t].score \in BeforeLedger
    BY <1>1, Types DEF Sane
  <1>3. PICK score \in BeforeWal, found \in SUBSET DaemonKinds :
           /\ \/ Keeps(t, Scored(t, score, found))
              \/ UNCHANGED frame /\ Scored(t, score, found) = frame[t]
           /\ failures' \in {failures, failures + 1}
    <2>1. PICK first : first = frame[t].score + AuditScore
      OBVIOUS
    <2>2. PICK second : second = frame[t].found \cup {"ledger"}
      OBVIOUS
    <2>3. /\ first \in BeforeWal /\ frame[t].score \in BeforeWal
          /\ second \in SUBSET DaemonKinds /\ frame[t].found \in SUBSET DaemonKinds
      BY <1>2, <2>1, <2>2, Scores DEF BeforeLedger, BeforeWal, Locals, DaemonKinds, Commands
    <2>4. /\ Scored(t, first, frame[t].found) = [frame[t] EXCEPT !.score = first]
          /\ Scored(t, frame[t].score, second) = [frame[t] EXCEPT !.found = second]
          /\ Scored(t, frame[t].score, frame[t].found) = frame[t]
      BY <1>2 DEF Scored, Locals
    <2>5. CASE Keeps(t, [frame[t] EXCEPT !.score = first]) /\ UNCHANGED failures
      BY <2>3, <2>4, <2>5
    <2>6. CASE Keeps(t, [frame[t] EXCEPT !.found = second]) /\ Failing
      BY <2>3, <2>4, <2>6 DEF Failing
    <2>7. CASE UNCHANGED frame /\ Failing
      BY <2>3, <2>4, <2>7 DEF Failing
    <2> QED
      BY <2>1, <2>2, <2>5, <2>6, <2>7 DEF TickLedger
  <1>4. score \in ScoreRange /\ pc[t] \in Ticks
    BY <1>1 DEF BeforeLedger, BeforeWal, ScoreRange, Ticks
  <1>5. PICK locals : locals = Scored(t, score, found)
    OBVIOUS
  <1> QED
    BY <1>1, <1>3, <1>4, <1>5, TickMeasures

\* The third.
LEMMA TickDurabilityKeeps ==
    ASSUME IInv, NEW t \in Thread, UNCHANGED approved, TickDurability(t)
    PROVE  IInv'
  <1>1. /\ pc[t] = "tick_wal" /\ Goto(t, "tick_report")
        /\ UNCHANGED <<storeVars, calls, results, runs>>
    BY DEF TickDurability
  <1>2. frame[t] \in Locals /\ frame[t].score \in BeforeWal
    BY <1>1, Types DEF Sane
  <1>3. PICK mode, timeout :
           /\ Keeps(t, [frame[t] EXCEPT !.score = @ + DurabilityScore(mode, timeout),
                                        !.found = @ \cup DurabilityFindings(mode, timeout)])
           /\ UNCHANGED failures \/ Failing
    BY DEF TickDurability
  <1>4. PICK more, drift : more = DurabilityScore(mode, timeout) /\ drift = DurabilityFindings(mode, timeout)
    OBVIOUS
  <1>5. more \in {0, 5, 10} /\ drift \in SUBSET DaemonKinds
    BY <1>4 DEF DurabilityScore, DurabilityFindings, DaemonKinds
  <1>6. PICK score, found : score = frame[t].score + more /\ found = frame[t].found \cup drift
    OBVIOUS
  <1>7. score \in ScoreRange /\ found \in SUBSET DaemonKinds
    BY <1>2, <1>5, <1>6 DEF BeforeLedger, BeforeWal, ScoreRange, Locals
  <1>8. PICK locals : locals = Scored(t, score, found)
    OBVIOUS
  <1>9. Keeps(t, locals)
    BY <1>2, <1>3, <1>4, <1>6, <1>8 DEF Scored, Locals
  <1>10. failures' \in {failures, failures + 1} /\ pc[t] \in Ticks
    BY <1>1, <1>3 DEF Failing, Ticks
  <1> QED
    BY <1>1, <1>7, <1>8, <1>9, <1>10, TickMeasures

\* The window of reports.
LEMMA RecordedIs ==
    ASSUME NEW window \in Seq(ScoreRange), NEW score \in ScoreRange
    PROVE  Recorded(window, score) \in Seq(ScoreRange) /\ Len(Recorded(window, score)) <= Window
  <1>1. PICK all \in Seq(ScoreRange) : all = <<score>> \o window
    <2>1. PICK one \in Seq(ScoreRange) : one = <<score>>
      <3>1. <<score>> \in Seq(ScoreRange)
        OBVIOUS
      <3> QED
        BY <3>1
    <2>2. one \o window \in Seq(ScoreRange)
      OBVIOUS
    <2> QED
      BY <2>1, <2>2
  <1>2. PICK n \in Nat : n = IF Len(all) <= Window THEN Len(all) ELSE Window
    BY WindowAssumption
  <1>3. n <= Len(all) /\ n <= Window
    BY <1>2, WindowAssumption
  <1>4. Recorded(window, score) = SubSeq(all, 1, n)
    BY <1>1, <1>2 DEF Recorded
  <1>5. SubSeq(all, 1, n) \in Seq(ScoreRange) /\ Len(SubSeq(all, 1, n)) = n
    BY <1>3
  <1> QED
    BY <1>3, <1>4, <1>5

\* The report, the events and the diagnostic job of a tick.
LEMMA TickWritesKeep ==
    ASSUME IInv, NEW t \in Thread, UNCHANGED approved,
           TickReport(t) \/ TickLog(t) \/ TickJob(t) \/ TickJobLog(t) \/ TickSkips(t)
    PROVE  IInv'
  <1>1. /\ frame[t] \in Locals
        /\ pc[t] = "tick_report" => frame[t].score \in ScoreRange
    BY Types DEF Sane, Locals
  <1>2. /\ AfterTickLog(t) \in {"tick_job", "tick_done"}
        /\ AfterReport(t) \in {"tick_incidents", "tick_done"}
    BY DEF AfterTickLog, AfterReport
  <1>3. CASE TickReport(t)
    <2>1. reports' \in Seq(ScoreRange) /\ Len(reports') <= Window
      BY <1>1, <1>3, Types, RecordedIs DEF TickReport
    <2>2. failures' \in {failures, failures + 1}
      BY <1>3 DEF TickReport, Failing
    <2>3. Stores'
      BY <1>3, <2>1, <2>2, Types, StoresKept DEF TickReport
    <2> QED
      BY <1>1, <1>2, <1>3, <2>2, <2>3, TickMoves DEF TickReport, Ticks
  <1>5. CASE TickLog(t)
    BY <1>1, <1>2, <1>5, SharedSteps, TickMoves DEF TickLog, Ticks
  <1>6. CASE TickJob(t)
    BY <1>1, <1>6, SharedSteps, TickMoves DEF TickJob, Ticks
  <1>7. CASE TickJobLog(t)
    BY <1>1, <1>7, SharedSteps, TickMoves DEF TickJobLog, Ticks
  <1>8. CASE TickSkips(t)
    <2>1. PICK label \in {"tick_job", "tick_done"} : Goto(t, label)
      BY <1>2, <1>8 DEF TickSkips
    <2>2. Stores'
      BY <1>8, Types, StoresKept DEF TickSkips, Failing, storeVars
    <2> QED
      BY <1>1, <1>8, <2>1, <2>2, TickMoves DEF TickSkips, Ticks, Failing, storeVars
  <1> QED
    BY <1>3, <1>5, <1>6, <1>7, <1>8

\* Filing an incident changes none of the others.
LEMMA FilingExtends ==
    ASSUME IInv, NEW i \in Incident, i \notin Filed, NEW kind \in DaemonKinds \cup FiledKinds,
           incidents' = [incidents EXCEPT ![i] = NewRow(kind)], UNCHANGED approved
    PROVE  /\ incidents' \in [Incident -> Row \cup {NoRow}]
           /\ Extends(incidents', approved')
           /\ \A j \in Incident : incidents'[j].status = "remediated" =>
                 incidents[j].status = "remediated"
  <1>1. incidents \in [Incident -> Row \cup {NoRow}]
    BY DEF IInv, Stores
  <1>2. PICK row : row = NewRow(kind)
    OBVIOUS
  <1>3. row \in Row /\ row.status = "active"
    BY <1>2 DEF NewRow, Row
  <1>4. incidents[i] = NoRow
    BY DEF Filed
  <1>5. incidents'[i] = row /\ \A j \in Incident \ {i} : incidents'[j] = incidents[j]
    BY <1>1, <1>2
  <1> QED
    BY <1>1, <1>2, <1>3, <1>4, <1>5 DEF Extends

\* The incidents of a tick.
LEMMA TickIncidentKeeps ==
    ASSUME IInv, NEW t \in Thread, UNCHANGED approved, NEW kind \in DaemonKinds, TickIncident(t, kind)
    PROVE  IInv'
  <1>1. /\ pc[t] = "tick_incidents"
        /\ Keeps(t, [frame[t] EXCEPT !.found = @ \ {kind}])
        /\ UNCHANGED <<jobs, gates, blocks, reports, calls, results, runs>>
    BY DEF TickIncident
  <1>2. frame[t] \in Locals /\ Sane(pc[t], frame[t], incidents, approved)
    BY Types
  <1>3. PICK label \in {"tick_log", "tick_incidents"} : Goto(t, label)
    BY DEF TickIncident
  <1>4. PICK locals : locals = [frame[t] EXCEPT !.found = @ \ {kind}]
    OBVIOUS
  <1>5. /\ locals \in Locals /\ locals.score = frame[t].score
        /\ locals.todo = frame[t].todo /\ locals.cur = frame[t].cur
        /\ locals.back = frame[t].back /\ locals.grants = frame[t].grants
        /\ locals.level = frame[t].level /\ locals.pre = frame[t].pre
    BY <1>2, <1>4 DEF Locals
  <1>6. CASE UNCHANGED incidents
    <2>1. failures' \in {failures, failures + 1}
      BY DEF TickIncident, Failing
    <2>2. Stores'
      BY <1>1, <1>6, <2>1, Types, StoresKept
    <2> QED
      BY <1>1, <1>3, <1>4, <1>5, <1>6, <2>1, <2>2, TickMoves DEF Ticks
  <1>7. CASE /\ \E i \in Incident \ Filed : incidents' = [incidents EXCEPT ![i] = NewRow(kind)]
             /\ UNCHANGED failures
    <2>1. PICK i \in Incident \ Filed : incidents' = [incidents EXCEPT ![i] = NewRow(kind)]
      BY <1>7
    <2>2. /\ incidents' \in [Incident -> Row \cup {NoRow}]
          /\ Extends(incidents', approved')
          /\ \A j \in Incident : incidents'[j].status = "remediated" =>
                incidents[j].status = "remediated"
      BY <1>1, <2>1, FilingExtends
    <2>3. /\ pc' \in [Thread -> Labels] /\ frame' \in [Thread -> Locals]
          /\ pc'[t] = label /\ frame'[t] = locals
          /\ \A u \in Thread \ {t} : pc'[u] = pc[u] /\ frame'[u] = frame[u]
      <3>1. label \in Labels
        BY DEF Labels
      <3> QED
        BY <1>1, <1>3, <1>4, <1>5, <3>1, Others
    <2>4. Sane(label, locals, incidents, approved)
      BY <1>1, <1>2, <1>5 DEF Sane, Ticks, Works
    <2>5. Calls'
      BY <2>2, <2>3, <2>4, StillSane, CallsStep
    <2>6. \A j \in Incident : Owes(pc[t], frame[t], j) => Owes(label, locals, j)
      BY <1>1, <1>5 DEF Owes, Ticks
    <2>7. Answered'
      BY <1>1, <1>7, <2>2, <2>3, <2>6, AnsweredStep
    <2>8. Stores'
      BY <1>1, <1>7, <2>2 DEF IInv, Stores
    <2> QED
      BY <2>5, <2>7, <2>8 DEF IInv
  <1> QED
    BY <1>6, <1>7 DEF TickIncident, NewRow

\* A call without locals.
LEMMA IdleIsSane ==
    /\ Idle \in Locals
    /\ Idle.todo = {} /\ Idle.cur = NoIncident /\ Idle.level = 0 /\ Idle.grants = {}
    /\ Idle.back = "idle" /\ Idle.score = 0 /\ Idle.pre = 0
    /\ Sane("idle", Idle, incidents, approved)
  <1>1. Idle \in Locals
    BY DEF Idle, Locals
  <1> QED
    BY <1>1 DEF Idle, Sane, Ticks, Works

\* The end of a call.
LEMMA Ends ==
    ASSUME IInv, NEW t \in Thread, UNCHANGED approved, End(t), UNCHANGED <<storeVars, calls, results, runs>>,
           failures' \in {failures, failures + 1},
           failures' # failures \/ \A i \in Incident : ~Owes(pc[t], frame[t], i)
    PROVE  IInv'
  <1>1. Stores'
    BY Types, StoresKept DEF storeVars
  <1>2. "idle" \in Labels
    BY DEF Labels
  <1> QED
    BY <1>1, <1>2, IdleIsSane, Moves DEF End, storeVars

\* The end of a tick.
LEMMA TickDoneKeeps ==
    ASSUME IInv, NEW t \in Thread, UNCHANGED approved, TickDone(t)
    PROVE  IInv'
  <1>1. pc[t] = "tick_done" /\ UNCHANGED <<storeVars, boundVars, runs>>
    BY DEF TickDone
  <1>2. frame[t] \in Locals /\ Sane(pc[t], frame[t], incidents, approved) /\ failures \in Nat
    BY Types
  <1>3. CASE frame[t].back = "idle"
    <2>1. End(t)
      BY <1>3 DEF TickDone
    <2>2. \A i \in Incident : ~Owes(pc[t], frame[t], i)
      BY <1>1, <1>3 DEF Owes
    <2> QED
      BY <1>1, <2>1, <2>2, Ends DEF boundVars
  <1>4. CASE frame[t].back # "idle"
    <2>1. PICK label \in {"compare", "loop"} : label = frame[t].back
      BY <1>2, <1>4 DEF Locals
    <2>2. Goto(t, label) /\ UNCHANGED frame
      BY <1>4, <2>1 DEF TickDone
    <2>3. Sane(label, frame[t], incidents, approved)
      BY <1>1, <1>2, <2>1 DEF Sane, Ticks, Works
    <2>4. \A i \in Incident : Owes(pc[t], frame[t], i) => Owes(label, frame[t], i)
      BY <1>1, <2>1 DEF Owes
    <2>5. Stores'
      BY <1>1, Types, StoresKept DEF storeVars, boundVars
    <2>6. label \in Labels
      BY DEF Labels
    <2> QED
      BY <1>1, <2>2, <2>3, <2>4, <2>5, <2>6, Moves DEF storeVars, boundVars
  <1> QED
    BY <1>3, <1>4

-----------------------------------------------------------------------------
(* One UPDATE of an incident *)

\* Updates of a row.
LEMMA RowsAre ==
    ASSUME IInv, NEW i \in Incident, incidents[i] # NoRow
    PROVE  /\ \A state \in {"diagnosed", "proposed", "remediated", "rolled_back"} :
                 /\ WithState(i, state) \in Row /\ WithState(i, state).kind = incidents[i].kind
                 /\ WithState(i, state).status = incidents[i].status
                 /\ WithState(i, state).state = state
           /\ \A status \in {"active", "remediated"} :
                 /\ WithStatus(i, status) \in Row /\ WithStatus(i, status).kind = incidents[i].kind
                 /\ WithStatus(i, status).status = status
                 /\ WithStatus(i, status).state = incidents[i].state
  <1>1. incidents[i] \in Row
    BY DEF IInv, Stores
  <1> QED
    BY <1>1 DEF WithState, WithStatus, Row

\* The labels at which policy allows what comes.
Allowing == {"dry_run", "dry_undo", "log_started", "execute"}

\* A call updates the incident it works on.
LEMMA WriteMoves ==
    ASSUME IInv, NEW t \in Thread, UNCHANGED approved, pc[t] \in Works, NEW row \in Row,
           NEW label \in (Works \ Allowing) \cup {"loop"},
           Write(t, frame[t].cur, row, label),
           row.kind = incidents[frame[t].cur].kind,
           row.status = "remediated" =>
              \/ incidents[frame[t].cur].status = "remediated"
              \/ Owes(label, frame[t], frame[t].cur),
           row.status = "remediated" /\ Owes(pc[t], frame[t], frame[t].cur) =>
              Owes(label, frame[t], frame[t].cur)
    PROVE  IInv'
  <1>1. /\ frame[t] \in Locals /\ Sane(pc[t], frame[t], incidents, approved)
        /\ incidents \in [Incident -> Row \cup {NoRow}]
    BY Types DEF IInv, Stores
  <1>2. PICK i \in Incident : i = frame[t].cur /\ incidents[i] # NoRow
    BY <1>1 DEF Sane, Locals
  <1>3. /\ incidents' = [incidents EXCEPT ![i] = row] /\ Goto(t, label)
        /\ UNCHANGED <<jobs, gates, blocks, reports, frame, calls, results, failures, runs>>
    BY <1>2 DEF Write, boundVars
  <1>4. row # NoRow
    BY DEF Row, NoRow
  <1>5. incidents'[i] = row /\ \A j \in Incident \ {i} : incidents'[j] = incidents[j]
    BY <1>1, <1>3
  <1>6. /\ incidents' \in [Incident -> Row \cup {NoRow}]
        /\ Extends(incidents', approved')
    BY <1>1, <1>2, <1>3, <1>4, <1>5 DEF Extends
  <1>7. label \in Labels
    BY LabelsAre DEF Labels
  <1>8. /\ pc' \in [Thread -> Labels] /\ frame' \in [Thread -> Locals]
        /\ pc'[t] = label /\ frame'[t] = frame[t]
        /\ \A u \in Thread \ {t} : pc'[u] = pc[u] /\ frame'[u] = frame[u]
    BY <1>1, <1>3, <1>7, Others
  <1>9. Sane(label, frame[t], incidents, approved)
    BY <1>1, LabelsAre DEF Sane, Works, Ticks, Allowing
  <1>10. Calls'
    BY <1>6, <1>8, <1>9, StillSane, CallsStep
  <1>11. Answered'
    <2>1. \A j \in Incident : j # i => ~Owes(pc[t], frame[t], j)
      BY <1>2 DEF Owes
    <2> QED
      BY <1>2, <1>3, <1>5, <1>8, <2>1, AnsweredStep
  <1>12. Stores'
    BY <1>3, <1>6 DEF IInv, Stores
  <1> QED
    BY <1>10, <1>11, <1>12 DEF IInv

-----------------------------------------------------------------------------
(* POST /readiness/remediate *)

\* Full autonomy needs a score above 97.
LEMMA LevelIs ==
    ASSUME NEW score \in ScoreRange \cup {0}, NEW window
    PROVE  /\ AutonomyLevel(score, window) \in {1, 3, 4}
           /\ AutonomyLevel(score, window) = 4 => score > 97
  BY DEF AutonomyLevel, Target, ScoreRange

\* What a call reads before its loop.
LEMMA ReadsKeep ==
    ASSUME IInv, NEW t \in Thread, UNCHANGED approved, ReadTargets(t) \/ ReadScore(t) \/ ReadBudget(t) \/ ReadGates(t)
    PROVE  IInv'
  <1>1. frame[t] \in Locals /\ Sane(pc[t], frame[t], incidents, approved) /\ failures \in Nat
    BY Types
  <1>2. pc[t] \in {"targets", "prescore", "budget", "gates"}
    BY DEF ReadTargets, ReadScore, ReadBudget, ReadGates
  <1>3. \A i \in Incident : ~Owes(pc[t], frame[t], i)
    BY <1>2 DEF Owes, Ticks
  <1>4. {"prescore", "budget", "gates", "loop"} \subseteq Labels
    BY DEF Labels
  <1>5. CASE ReadTargets(t)
    <2>1. PICK todo \in SUBSET Filed :
             SetLocals(t, [frame[t] EXCEPT !.target = NoIncident, !.todo = todo], "prescore")
      <3>1. PICK active : active = {i \in Filed : incidents[i].status = "active"}
        OBVIOUS
      <3>2. PICK todo : todo = IF frame[t].target = NoIncident THEN active
                               ELSE active \cap {frame[t].target}
        OBVIOUS
      <3>3. todo \in SUBSET Filed
        BY <3>1, <3>2
      <3>4. SetLocals(t, [frame[t] EXCEPT !.target = NoIncident, !.todo = todo], "prescore")
        BY <1>5, <3>1, <3>2 DEF ReadTargets
      <3> QED
        BY <3>3, <3>4
    <2>2. PICK locals : locals = [frame[t] EXCEPT !.target = NoIncident, !.todo = todo]
      OBVIOUS
    <2>3. /\ locals \in Locals /\ locals.todo = todo /\ locals.cur = frame[t].cur
          /\ locals.grants = frame[t].grants /\ locals.level = frame[t].level
          /\ locals.pre = frame[t].pre
      BY <1>1, <2>2 DEF Locals, Filed
    <2>4. Sane("prescore", locals, incidents, approved)
      BY <1>1, <1>5, <2>3 DEF Sane, Ticks, Works, Filed, ReadTargets
    <2>5. SetLocals(t, locals, "prescore")
      BY <2>1, <2>2
    <2> QED
      BY <1>3, <1>4, <2>4, <2>5, SharedSteps, Moves
  <1>6. CASE ReadScore(t)
    <2>1. PICK score \in ScoreRange : score = LatestScore(reports)
      BY Types DEF LatestScore, ScoreRange
    <2>2. PICK locals : locals = [frame[t] EXCEPT !.pre = score]
      OBVIOUS
    <2>3. /\ locals \in Locals /\ locals.todo = frame[t].todo /\ locals.cur = frame[t].cur
          /\ locals.grants = frame[t].grants /\ locals.level = frame[t].level
      BY <1>1, <2>2 DEF Locals
    <2>4. Sane("budget", locals, incidents, approved)
      BY <1>1, <1>6, <2>3 DEF Sane, Ticks, Works, ReadScore
    <2>5. SetLocals(t, locals, "budget")
      BY <1>6, <2>1, <2>2 DEF ReadScore
    <2> QED
      BY <1>3, <1>4, <2>4, <2>5, SharedSteps, Moves
  <1>7. CASE ReadBudget(t)
    <2>1. PICK level \in {1, 3, 4} :
             /\ Keeps(t, [frame[t] EXCEPT !.level = level])
             /\ level = 4 => frame[t].pre > 97
             /\ failures' \in {failures, failures + 1}
      <3>1. frame[t].pre \in ScoreRange \cup {0}
        BY <1>1 DEF Locals
      <3>2. PICK a : a = AutonomyLevel(frame[t].pre, reports)
        OBVIOUS
      <3>3. PICK b : b = AutonomyLevel(frame[t].pre, <<>>)
        OBVIOUS
      <3>4. /\ a \in {1, 3, 4} /\ (a = 4 => frame[t].pre > 97)
            /\ b \in {1, 3, 4} /\ (b = 4 => frame[t].pre > 97)
        BY <3>1, <3>2, <3>3, LevelIs
      <3>5. CASE Keeps(t, [frame[t] EXCEPT !.level = a]) /\ UNCHANGED failures
        BY <3>4, <3>5
      <3>6. CASE Keeps(t, [frame[t] EXCEPT !.level = b]) /\ Failing
        BY <3>4, <3>6 DEF Failing
      <3> QED
        BY <1>7, <3>2, <3>3, <3>5, <3>6 DEF ReadBudget
    <2>2. PICK locals : locals = [frame[t] EXCEPT !.level = level]
      OBVIOUS
    <2>3. /\ locals \in Locals /\ locals.todo = frame[t].todo /\ locals.cur = frame[t].cur
          /\ locals.grants = frame[t].grants /\ locals.level = level /\ locals.pre = frame[t].pre
      BY <1>1, <2>2 DEF Locals
    <2>4. Sane("gates", locals, incidents, approved)
      BY <1>1, <2>1, <2>3 DEF Sane, Ticks, Works
    <2>5. /\ Keeps(t, locals) /\ Goto(t, "gates")
          /\ UNCHANGED <<storeVars, calls, results, runs>>
      BY <1>7, <2>1, <2>2 DEF ReadBudget
    <2>6. Stores'
      BY <2>1, <2>5, Types, StoresKept DEF storeVars
    <2> QED
      BY <1>3, <1>4, <2>1, <2>4, <2>5, <2>6, Moves DEF storeVars
  <1>8. CASE ReadGates(t)
    <2>1. Goto(t, "loop") /\ UNCHANGED <<storeVars, calls, results, runs>>
      BY <1>8 DEF ReadGates
    <2>2. failures' \in {failures, failures + 1}
      BY <1>8 DEF ReadGates, Failing
    <2>3. Stores'
      BY <2>1, <2>2, Types, StoresKept DEF storeVars
    <2>4. PICK granted \in SUBSET Incident : granted = {i \in Incident : gates[i] = "approved"}
      OBVIOUS
    <2>5. PICK locals : locals = [frame[t] EXCEPT !.grants = granted]
      OBVIOUS
    <2>6. Keeps(t, locals) \/ UNCHANGED frame
      BY <1>8, <2>4, <2>5 DEF ReadGates
    <2>7. /\ locals \in Locals /\ locals.todo = frame[t].todo /\ locals.cur = frame[t].cur
          /\ locals.grants = granted /\ locals.level = frame[t].level
          /\ locals.pre = frame[t].pre
      BY <1>1, <2>5 DEF Locals
    <2>8. granted \subseteq approved
      BY <2>4 DEF IInv, Stores
    <2>9. Sane("loop", locals, incidents, approved) /\ Sane("loop", frame[t], incidents, approved)
      BY <1>1, <2>7, <2>8 DEF Sane, Ticks, Works
    <2> QED
      BY <1>3, <1>4, <2>1, <2>2, <2>3, <2>6, <2>9, Moves DEF storeVars
  <1> QED
    BY <1>5, <1>6, <1>7, <1>8

\* The guards of the loop, for the next incident.
LEMMA ConsiderKeeps ==
    ASSUME IInv, NEW t \in Thread, UNCHANGED approved, NEW i \in Incident, Consider(t, i)
    PROVE  IInv'
  <1>1. pc[t] = "loop" /\ i \in frame[t].todo
    BY DEF Consider
  <1>2. frame[t] \in Locals /\ Sane(pc[t], frame[t], incidents, approved) /\ failures \in Nat
    BY Types
  <1>3. incidents[i] \in Row /\ incidents[i] # NoRow /\ i # NoIncident
    <2>1. incidents[i] # NoRow
      BY <1>1, <1>2 DEF Sane
    <2> QED
      BY <2>1, DomainsAssumption DEF IInv, Stores
  <1>4. PICK kind \in DaemonKinds \cup FiledKinds : kind = incidents[i].kind
    BY <1>3 DEF Row
  <1>5. PICK locals : locals = [frame[t] EXCEPT !.todo = @ \ {i}, !.cur = i]
    OBVIOUS
  <1>6. PICK label \in {"mark_diagnosed", "mark_proposed", "dry_run"} :
           /\ SetLocals(t, locals, label)
           /\ label = "dry_run" => /\ ~Denied(kind)
                                   /\ Autonomous(frame[t].level, kind) \/ i \in frame[t].grants
    BY <1>4, <1>5 DEF Consider
  <1>7. /\ locals \in Locals /\ locals.todo = frame[t].todo \ {i} /\ locals.cur = i
        /\ locals.grants = frame[t].grants /\ locals.level = frame[t].level
        /\ locals.pre = frame[t].pre
    BY <1>2, <1>5 DEF Locals
  <1>8. label = "dry_run" => Allowed(locals, kind, i, approved)
    <2> SUFFICES ASSUME label = "dry_run"
                 PROVE  Allowed(locals, kind, i, approved)
      OBVIOUS
    <2>1. kind # "denied"
      BY <1>6 DEF Denied
    <2>2. CASE i \in frame[t].grants
      BY <1>2, <2>1, <2>2 DEF Sane, Allowed
    <2>3. CASE Autonomous(frame[t].level, kind)
      BY <1>2, <1>7, <2>1, <2>3
         DEF Sane, Allowed, Autonomous, LowRisk, SideEffects, HighSeverity, DaemonKinds, FiledKinds, Commands
    <2> QED
      BY <1>6, <2>2, <2>3
  <1>9. Sane(label, locals, incidents, approved)
    BY <1>2, <1>3, <1>4, <1>7, <1>8 DEF Sane, Ticks, Works
  <1>10. \A j \in Incident : ~Owes(pc[t], frame[t], j)
    BY <1>1 DEF Owes, Ticks
  <1>11. label \in Labels
    BY DEF Labels
  <1> QED
    BY <1>6, <1>9, <1>10, <1>11, SharedSteps, Moves

\* The dry runs.
LEMMA DryRunsKeep ==
    ASSUME IInv, NEW t \in Thread, UNCHANGED approved, DryRun(t) \/ DryUndo(t)
    PROVE  IInv'
  <1>1. Sane(pc[t], frame[t], incidents, approved) /\ failures \in Nat
    BY Types
  <1>2. PICK label \in {"dry_undo", "log_started", "mark_diagnosed"} :
           /\ pc[t] \in {"dry_run", "dry_undo"} /\ Goto(t, label)
           /\ UNCHANGED <<storeVars, frame, calls, results, runs>>
           /\ failures' \in {failures, failures + 1}
    BY DEF DryRun, DryUndo, Rehearse, Failing
  <1>3. Sane(label, frame[t], incidents, approved)
    BY <1>1, <1>2 DEF Sane, Ticks, Works
  <1>4. \A i \in Incident : ~Owes(pc[t], frame[t], i)
    BY <1>2 DEF Owes, Ticks
  <1>5. Stores'
    BY <1>2, Types, StoresKept DEF storeVars
  <1>6. label \in Labels
    BY DEF Labels
  <1> QED
    BY <1>2, <1>3, <1>4, <1>5, <1>6, Moves DEF storeVars

\* What a patch and a rollback plan make of the jobs.
LEMMA PatchesAre ==
    ASSUME IInv, NEW kind
    PROVE  /\ Patched(kind) \in [Job -> JobRow \cup {NoJob}]
           /\ Restored(kind) \in [Job -> JobRow \cup {NoJob}]
  <1>1. ASSUME NEW blocked \in BOOLEAN
        PROVE  SetBlocked(blocked) \in [Job -> JobRow \cup {NoJob}]
    <2>1. jobs \in [Job -> JobRow \cup {NoJob}] /\ PatchedJob \in Job
      BY Types, DomainsAssumption
    <2>2. CASE jobs[PatchedJob] = NoJob
      BY <2>1, <2>2 DEF SetBlocked
    <2>3. CASE jobs[PatchedJob] # NoJob
      <3>1. jobs[PatchedJob] \in JobRow
        BY <2>1, <2>3
      <3>2. PICK row : row = [jobs[PatchedJob] EXCEPT !.blocked = blocked]
        OBVIOUS
      <3>3. row \in JobRow
        BY <3>1, <3>2 DEF JobRow
      <3>4. SetBlocked(blocked) = [jobs EXCEPT ![PatchedJob] = row]
        BY <2>3, <3>2 DEF SetBlocked
      <3> QED
        BY <2>1, <3>3, <3>4
    <2> QED
      BY <2>2, <2>3
  <1>2. jobs \in [Job -> JobRow \cup {NoJob}]
    BY Types
  <1>3. CASE kind = "heal"
    BY <1>1, <1>3 DEF Patched, Restored
  <1>4. CASE kind = "harm"
    BY <1>1, <1>4 DEF Patched, Restored
  <1>5. CASE kind \notin {"heal", "harm"}
    BY <1>2, <1>5 DEF Patched, Restored
  <1> QED
    BY <1>3, <1>4, <1>5

\* The updates of incidents, by a remediation and by a rollback.
LEMMA UpdatesKeep ==
    ASSUME IInv, NEW t \in Thread, UNCHANGED approved,
           MarkDiagnosed(t) \/ MarkProposed(t) \/ SetStatus(t) \/ SetState(t) \/ UndoStatus(t)
              \/ UndoState(t) \/ RollbackStatus(t) \/ RollbackState(t)
    PROVE  IInv'
  <1>1. pc[t] \in Works
    BY DEF MarkDiagnosed, MarkProposed, SetStatus, SetState, UndoStatus, UndoState, RollbackStatus,
           RollbackState, Works
  <1>2. PICK i \in Incident : i = frame[t].cur /\ incidents[i] # NoRow
    <2>1. frame[t] \in Locals /\ Sane(pc[t], frame[t], incidents, approved)
      BY Types
    <2> QED
      BY <1>1, <2>1 DEF Sane, Locals
  <1>3. ASSUME NEW label \in {"loop", "log_blocked", "log_completed", "log_rollback", "rb_log"},
               NEW state \in {"diagnosed", "proposed", "remediated", "rolled_back"},
               Write(t, i, WithState(i, state), label),
               Owes(pc[t], frame[t], i) => label = "log_completed"
        PROVE  IInv'
    <2>1. label \in (Works \ Allowing) \cup {"loop"}
      BY DEF Works, Allowing
    <2>2. /\ WithState(i, state) \in Row /\ WithState(i, state).kind = incidents[i].kind
          /\ WithState(i, state).status = incidents[i].status
      BY <1>2, RowsAre
    <2>3. label = "log_completed" => Owes(label, frame[t], i)
      BY <1>2 DEF Owes
    <2> QED
      BY <1>1, <1>2, <1>3, <2>1, <2>2, <2>3, WriteMoves
  <1>4. ASSUME NEW label \in {"set_state", "undo_state", "rb_state"},
               NEW status \in {"active", "remediated"},
               Write(t, i, WithStatus(i, status), label),
               status = "remediated" => label = "set_state"
        PROVE  IInv'
    <2>1. label \in (Works \ Allowing) \cup {"loop"}
      BY DEF Works, Allowing
    <2>2. /\ WithStatus(i, status) \in Row /\ WithStatus(i, status).kind = incidents[i].kind
          /\ WithStatus(i, status).status = status
      BY <1>2, RowsAre
    <2>3. label = "set_state" => Owes(label, frame[t], i)
      BY <1>2 DEF Owes
    <2> QED
      BY <1>1, <1>2, <1>4, <2>1, <2>2, <2>3, WriteMoves
  <1>5. CASE MarkDiagnosed(t) \/ MarkProposed(t) \/ UndoState(t) \/ RollbackState(t)
    <2>1. ~Owes(pc[t], frame[t], i)
      BY <1>5 DEF MarkDiagnosed, MarkProposed, UndoState, RollbackState, Owes, Ticks
    <2> QED
      BY <1>2, <1>3, <1>5, <2>1 DEF MarkDiagnosed, MarkProposed, UndoState, RollbackState
  <1>6. CASE SetState(t)
    BY <1>2, <1>3, <1>6 DEF SetState
  <1>7. CASE SetStatus(t) \/ UndoStatus(t) \/ RollbackStatus(t)
    BY <1>2, <1>4, <1>7 DEF SetStatus, UndoStatus, RollbackStatus
  <1> QED
    BY <1>5, <1>6, <1>7

\* The ledger events of the calls, and the diagnostic job of one.
LEMMA EventsKeep ==
    ASSUME IInv, NEW t \in Thread, UNCHANGED approved,
           LogBlocked(t) \/ LogStarted(t) \/ LogCompleted(t) \/ LogRollback(t) \/ RollbackLog(t)
              \/ Diagnose(t) \/ DiagnoseLog(t)
    PROVE  IInv'
  <1>1. Sane(pc[t], frame[t], incidents, approved) /\ failures \in Nat
    BY Types
  <1>2. PICK label \in {"loop", "execute", "posttick", "undotick", "rb_tick", "diag_log"} :
           /\ Log(t, label) \/ WriteDiagnostic(t, label)
           /\ label = "loop" => pc[t] = "log_blocked"
           /\ label = "execute" => pc[t] = "log_started"
           /\ label = "posttick" => pc[t] = "log_completed"
           /\ label = "undotick" => pc[t] = "log_rollback"
           /\ label = "rb_tick" => pc[t] \in {"rb_log", "diag_log"}
           /\ label = "diag_log" => pc[t] = "diag_job"
    BY DEF LogBlocked, LogStarted, LogCompleted, LogRollback, RollbackLog, Diagnose, DiagnoseLog
  <1>3. label \in Labels
    BY DEF Labels
  <1>4. Sane(label, frame[t], incidents, approved)
    BY <1>1, <1>2 DEF Sane, Ticks, Works
  <1>5. \A i \in Incident : Owes(pc[t], frame[t], i) => Owes(label, frame[t], i)
    BY <1>2 DEF Owes, Ticks
  <1>6. Stores' /\ Goto(t, label) /\ UNCHANGED <<incidents, gates, approved, runs, frame, failures>>
    BY <1>2, SharedSteps
  <1> QED
    BY <1>1, <1>3, <1>4, <1>5, <1>6, Moves

\* The ticks a call ends with, or continues after; without a daemon there are none.
LEMMA TicksBegin ==
    ASSUME IInv, NEW t \in Thread, UNCHANGED approved, PostTick(t) \/ UndoTick(t) \/ RollbackTick(t)
    PROVE  IInv'
  <1>1. frame[t] \in Locals /\ Sane(pc[t], frame[t], incidents, approved) /\ failures \in Nat
    BY Types
  <1>2. PICK label \in {"tick", "tick_done", "loop", "compare"}, locals \in Locals :
           /\ SetLocals(t, locals, label)
           /\ locals.todo = frame[t].todo /\ locals.cur = frame[t].cur
           /\ locals.grants = frame[t].grants /\ locals.level = frame[t].level
           /\ locals.pre = frame[t].pre
           /\ label \in {"tick", "tick_done"} =>
                 (locals.back = "compare" <=> pc[t] = "posttick")
           /\ label = "compare" <=> pc[t] = "posttick" /\ label # "tick"
           /\ pc[t] \in {"posttick", "undotick", "rb_tick"}
    <2>1. ASSUME NEW back \in {"compare", "loop", "idle"}, NEW locals, locals = Ticking(t, back)
          PROVE  /\ locals \in Locals /\ locals.back = back
                 /\ locals.todo = frame[t].todo /\ locals.cur = frame[t].cur
                 /\ locals.grants = frame[t].grants /\ locals.level = frame[t].level
                 /\ locals.pre = frame[t].pre
      BY <1>1, <2>1 DEF Ticking, Locals
    <2>2. PICK same : same = [frame[t] EXCEPT !.score = frame[t].pre]
      OBVIOUS
    <2>3. /\ same \in Locals /\ same.todo = frame[t].todo /\ same.cur = frame[t].cur
          /\ same.grants = frame[t].grants /\ same.level = frame[t].level
          /\ same.pre = frame[t].pre
      BY <1>1, <2>2 DEF Locals
    <2>4. PICK locals : locals = Ticking(t, IF PostTick(t) THEN "compare"
                                            ELSE IF UndoTick(t) THEN "loop" ELSE "idle")
      OBVIOUS
    <2>5. CASE PostTick(t)
      <3>1. CASE started
        BY <2>1, <2>4, <2>5, <3>1 DEF PostTick
      <3>2. CASE ~started
        BY <2>2, <2>3, <2>5, <3>2 DEF PostTick
      <3> QED
        BY <3>1, <3>2
    <2>6. CASE UndoTick(t)
      <3>1. pc[t] = "undotick" /\ ~PostTick(t)
        BY <2>6 DEF UndoTick, PostTick
      <3>2. PICK label \in {"tick", "loop"} : SetLocals(t, locals, label)
        BY <2>4, <2>6, <3>1 DEF UndoTick
      <3> QED
        BY <2>1, <2>4, <2>6, <3>1, <3>2
    <2>7. CASE RollbackTick(t)
      <3>1. pc[t] = "rb_tick" /\ ~PostTick(t) /\ ~UndoTick(t)
        BY <2>7 DEF RollbackTick, UndoTick, PostTick
      <3>2. PICK label \in {"tick", "tick_done"} : SetLocals(t, locals, label)
        BY <2>4, <2>7, <3>1 DEF RollbackTick
      <3> QED
        BY <2>1, <2>4, <2>7, <3>1, <3>2
    <2> QED
      BY <2>5, <2>6, <2>7
  <1>3. Sane(label, locals, incidents, approved)
    BY <1>1, <1>2 DEF Sane, Ticks, Works
  <1>4. \A i \in Incident : Owes(pc[t], frame[t], i) => Owes(label, locals, i)
    BY <1>2 DEF Owes, Ticks
  <1>5. label \in Labels
    BY DEF Labels
  <1> QED
    BY <1>2, <1>3, <1>4, <1>5, SharedSteps, Moves

\* The patches and the rollback plans.
LEMMA PatchesKeep ==
    ASSUME IInv, NEW t \in Thread, UNCHANGED approved, Execute(t) \/ ExecuteFails(t) \/ Undo(t) \/ RollbackRun(t)
    PROVE  IInv'
  <1>1. Sane(pc[t], frame[t], incidents, approved) /\ failures \in Nat
    BY Types
  <1>2. jobs' \in [Job -> JobRow \cup {NoJob}]
    BY PatchesAre, Types DEF Execute, ExecuteFails, Undo, RollbackRun, storeVars
  <1>3. PICK label \in {"set_status", "mark_diagnosed", "undo_status", "rb_status"} :
           /\ Goto(t, label)
           /\ label \in {"set_status", "mark_diagnosed"} => pc[t] = "execute"
           /\ label = "undo_status" => pc[t] = "undo"
           /\ label = "rb_status" => pc[t] = "rb_run"
    BY DEF Execute, ExecuteFails, Undo, RollbackRun
  <1>4. /\ UNCHANGED <<incidents, gates, blocks, reports, frame, calls, results, runs>>
        /\ failures' \in {failures, failures + 1}
    BY DEF Execute, ExecuteFails, Undo, RollbackRun, Failing, boundVars, storeVars
  <1>5. Stores'
    BY <1>2, <1>4, Types, StoresKept
  <1>6. Sane(label, frame[t], incidents, approved)
    BY <1>1, <1>3 DEF Sane, Ticks, Works
  <1>7. \A i \in Incident : Owes(pc[t], frame[t], i) => Owes(label, frame[t], i)
    BY <1>3 DEF Owes, Ticks
  <1>8. label \in Labels
    BY DEF Labels
  <1> QED
    BY <1>3, <1>4, <1>5, <1>6, <1>7, <1>8, Moves

\* The health check: the call answers for a run that did not help until it has
\* taken the mark back.
LEMMA CompareKeeps ==
    ASSUME IInv, NEW t \in Thread, UNCHANGED approved, Compare(t)
    PROVE  IInv'
  <1>1. /\ frame[t] \in Locals /\ Sane(pc[t], frame[t], incidents, approved)
        /\ runs \in [Incident -> [pre : ScoreRange \cup {0}, post : ScoreRange \cup {0}]]
    BY Types DEF IInv, Stores
  <1>2. PICK i \in Incident : i = frame[t].cur /\ pc[t] = "compare"
    BY <1>1 DEF Sane, Locals, Compare, Works
  <1>3. PICK run : run = [pre |-> frame[t].pre, post |-> frame[t].score]
    OBVIOUS
  <1>4. run \in [pre : ScoreRange \cup {0}, post : ScoreRange \cup {0}]
    BY <1>1, <1>3 DEF Locals
  <1>5. runs' = [runs EXCEPT ![i] = run]
    BY <1>2, <1>3 DEF Compare
  <1>6. UNCHANGED <<storeVars, frame, boundVars>>
    BY DEF Compare
  <1>7. PICK label \in {"undo", "loop"} :
           Goto(t, label) /\ (label = "loop" => ~Degraded(frame[t].pre, frame[t].score))
    BY DEF Compare
  <1>8. label = "loop" => Healthy(run)
    <2>1. run.pre = frame[t].pre /\ run.post = frame[t].score
      BY <1>3
    <2>2. frame[t].pre \in Nat /\ frame[t].score \in Nat
      BY <1>1 DEF Locals, ScoreRange
    <2> QED
      BY <1>7, <2>1, <2>2 DEF Degraded, Healthy, Target
  <1>9. /\ pc' \in [Thread -> Labels] /\ frame' \in [Thread -> Locals]
        /\ pc'[t] = label /\ frame'[t] = frame[t]
        /\ \A u \in Thread \ {t} : pc'[u] = pc[u] /\ frame'[u] = frame[u]
    <2>1. label \in Labels
      BY DEF Labels
    <2> QED
      BY <1>1, <1>6, <1>7, <2>1, Others
  <1>10. Calls'
    <2>1. Sane(label, frame[t], incidents, approved)
      BY <1>1, <1>2 DEF Sane, Ticks, Works
    <2> QED
      BY <1>6, <1>9, <2>1, CallsStep DEF Extends, storeVars
  <1>11. Answered'
    <2>1. label = "undo" => Owes(label, frame[t], i)
      BY <1>2 DEF Owes
    <2>2. \A j \in Incident : Owes(pc[t], frame[t], j) => j = i
      BY <1>2 DEF Owes
    <2>3. runs'[i] = run /\ \A j \in Incident \ {i} : runs'[j] = runs[j]
      BY <1>1, <1>5
    <2> QED
      BY <1>6, <1>8, <1>9, <2>1, <2>2, <2>3, AnsweredStep DEF storeVars, boundVars
  <1>12. Stores'
    BY <1>1, <1>4, <1>5, <1>6 DEF IInv, Stores, storeVars, boundVars
  <1> QED
    BY <1>10, <1>11, <1>12 DEF IInv

-----------------------------------------------------------------------------
(* Calls and their surroundings *)

\* The start of a call.
LEMMA Begins ==
    ASSUME IInv, NEW t \in Thread, UNCHANGED approved,
           NEW label \in {"targets", "rb_run", "diag_job", "tick"},
           NEW locals \in Locals, Begin(t, locals, label),
           locals.todo = {}, locals.grants = {}, locals.level = 0, locals.back = "idle",
           locals.cur # NoIncident => incidents[locals.cur] # NoRow,
           label = "rb_run" => locals.cur # NoIncident
    PROVE  IInv'
  <1>1. Stores'
    BY Types, StoresKept DEF Begin, storeVars
  <1>2. Sane(label, locals, incidents, approved)
    BY DEF Sane, Ticks, Works
  <1>3. \A i \in Incident : ~Owes(pc[t], frame[t], i)
    BY DEF Begin, Owes, Ticks
  <1>4. label \in Labels
    BY DEF Labels
  <1> QED
    BY <1>1, <1>2, <1>3, <1>4, Moves DEF Begin, storeVars

\* The four ways to start one.
LEMMA BeginsKeep ==
    ASSUME IInv, NEW t \in Thread, UNCHANGED approved, Arrival(t)
    PROVE  IInv'
  <1>1. CASE Tick(t) \/ DiagnoseRequest(t)
    BY <1>1, IdleIsSane, Begins DEF Tick, DiagnoseRequest
  <1>2. ASSUME NEW i \in Incident, Rollback(t, i)
        PROVE  IInv'
    <2>1. PICK locals : locals = [Idle EXCEPT !.cur = i]
      OBVIOUS
    <2>2. /\ locals \in Locals /\ locals.todo = {} /\ locals.grants = {} /\ locals.level = 0
          /\ locals.back = "idle" /\ locals.cur = i
      BY <2>1, IdleIsSane DEF Locals
    <2>3. incidents[i] # NoRow /\ i # NoIncident
      BY <1>2, DomainsAssumption DEF Rollback, Filed
    <2> QED
      BY <1>2, <2>1, <2>2, <2>3, Begins DEF Rollback
  <1>3. ASSUME NEW i \in Incident \cup {NoIncident}, Remediate(t, i)
        PROVE  IInv'
    <2>1. PICK locals : locals = [Idle EXCEPT !.target = i]
      OBVIOUS
    <2>2. /\ locals \in Locals /\ locals.todo = {} /\ locals.grants = {} /\ locals.level = 0
          /\ locals.back = "idle" /\ locals.cur = NoIncident
      BY <2>1, IdleIsSane DEF Locals
    <2> QED
      BY <1>3, <2>1, <2>2, Begins DEF Remediate
  <1> QED
    BY <1>1, <1>2, <1>3 DEF Arrival

\* The ends of calls, regular and not.
LEMMA EndsKeep ==
    ASSUME IInv, NEW t \in Thread, UNCHANGED approved, LoopDone(t) \/ Fail(t)
    PROVE  IInv'
  <1>1. failures \in Nat
    BY Types
  <1>2. CASE LoopDone(t)
    <2>1. \A i \in Incident : ~Owes(pc[t], frame[t], i)
      BY <1>2 DEF LoopDone, Owes, Ticks
    <2> QED
      BY <1>2, <2>1, Ends DEF LoopDone, boundVars
  <1>3. CASE Fail(t)
    BY <1>1, <1>3, Ends DEF Fail, Failing
  <1> QED
    BY <1>2, <1>3

\* What other components write.
LEMMA EnvironmentKeeps ==
    ASSUME IInv, Surroundings, Environment
    PROVE  IInv'
  <1>1. ASSUME NEW rows, NEW yes, rows = incidents', yes = approved',
               Extends(rows, yes),
               \A i \in Incident : incidents'[i].status = "remediated" =>
                  incidents[i].status = "remediated",
               UNCHANGED <<pc, frame, runs>>, failures' \in {failures, failures + 1}
        PROVE  Calls' /\ Answered'
    <2>1. Calls'
      BY <1>1, StillSane DEF IInv, Calls
    <2>2. failures' = 0 => failures = 0
      BY <1>1, Types
    <2>3. Answered'
      BY <1>1, <2>2 DEF IInv, Answered
    <2> QED
      BY <2>1, <2>3
  <1>2. ASSUME NEW j \in Job, NEW row \in Reported, JobResult(j, row)
        PROVE  IInv'
    <2>1. Extends(incidents', approved')
      BY <1>2 DEF JobResult, Extends, gateVars
    <2>2. Stores'
      BY <1>2, KindsAssumption DEF JobResult, Outside, IInv, Stores, gateVars
    <2> QED
      BY <1>1, <1>2, <2>1, <2>2 DEF JobResult, Outside, IInv
  <1>3. ASSUME NEW i \in Incident, NEW kind \in Kinds, FileIncident(i, kind)
        PROVE  IInv'
    <2>1. kind \in DaemonKinds \cup FiledKinds
      BY KindsAssumption DEF FiledKinds
    <2>2. /\ incidents' \in [Incident -> Row \cup {NoRow}]
          /\ Extends(incidents', approved')
          /\ \A j \in Incident : incidents'[j].status = "remediated" =>
                incidents[j].status = "remediated"
      BY <1>3, <2>1, FilingExtends DEF FileIncident, gateVars
    <2>3. Stores'
      BY <1>3, <2>2 DEF FileIncident, Outside, IInv, Stores, gateVars
    <2> QED
      BY <1>1, <1>3, <2>2, <2>3 DEF FileIncident, Outside, IInv
  <1>4. ASSUME NEW d \in Decider, NEW i \in Incident, NEW verdict \in Verdicts, ReadGate(d, i, verdict)
        PROVE  IInv'
    <2>1. Extends(incidents', approved')
      BY <1>4 DEF ReadGate, Extends
    <2>2. results' \in Nat
      BY <1>4, Types DEF ReadGate
    <2>3. Stores'
      BY <1>4, <2>2 DEF ReadGate, IInv, Stores
    <2> QED
      BY <1>1, <1>4, <2>1, <2>3 DEF ReadGate, IInv
  <1>5. ASSUME NEW d \in Decider, WriteGate(d)
        PROVE  IInv'
    <2>1. deciding[d] \in [gate : Incident, verdict : Verdicts]
      BY <1>5 DEF WriteGate, Surroundings
    <2>2. PICK i \in Incident, verdict \in Verdicts : i = deciding[d].gate /\ verdict = deciding[d].verdict
      BY <2>1
    <2>3. /\ gates \in [Incident -> {"pending", "approved", "rejected"}] /\ approved \subseteq Incident
          /\ \A k \in Incident : gates[k] = "approved" => k \in approved
          /\ failures \in Nat
      BY DEF IInv, Stores
    <2>4. /\ gates' \in [Incident -> {"pending", "approved", "rejected"}] /\ approved' \subseteq Incident
          /\ \A k \in Incident : gates'[k] = "approved" => k \in approved'
          /\ approved \subseteq approved' /\ failures' \in {failures, failures + 1}
      <3>1. CASE UNCHANGED <<gates, approved>> /\ Failing
        BY <2>3, <3>1 DEF Failing
      <3>2. CASE /\ gates' = [gates EXCEPT ![i] = verdict]
                 /\ approved' = IF verdict = "approved" THEN approved \cup {i} ELSE approved
                 /\ UNCHANGED failures
        BY <2>2, <2>3, <3>2 DEF Verdicts
      <3> QED
        BY <1>5, <2>2, <3>1, <3>2 DEF WriteGate
    <2>5. Extends(incidents', approved')
      BY <1>5, <2>4 DEF WriteGate, Extends
    <2>6. Stores'
      BY <1>5, <2>3, <2>4 DEF WriteGate, IInv, Stores
    <2> QED
      BY <1>1, <1>5, <2>4, <2>5, <2>6 DEF WriteGate, IInv
  <1> QED
    BY <1>2, <1>3, <1>4, <1>5 DEF Environment

-----------------------------------------------------------------------------
(* The invariant *)

\* Nothing happens.
LEMMA StutterKeeps ==
    ASSUME IInv, UNCHANGED vars
    PROVE  IInv'
  <1>1. UNCHANGED <<jobs, incidents, gates, blocks, reports, pc, frame, calls, results, failures, runs, approved>>
    BY DEF vars, storeVars, boundVars, gateVars
  <1>2. Stores'
    BY <1>1 DEF IInv, Stores
  <1>3. Calls'
    BY <1>1 DEF IInv, Calls
  <1>4. Answered'
    BY <1>1 DEF IInv, Answered
  <1> QED
    BY <1>2, <1>3, <1>4 DEF IInv

\* A program that starts has no incidents, no reports and no calls.
LEMMA InitIs ==
    ASSUME Init
    PROVE  IInv
  <1>1. reports \in Seq(ScoreRange) /\ Len(reports) <= Window
    <2>1. <<>> \in Seq(ScoreRange) /\ Len(<<>>) = 0
      OBVIOUS
    <2> QED
      BY <2>1, WindowAssumption DEF Init
  <1>2. Stores
    BY <1>1, DomainsAssumption DEF Init, Stores, NoRun
  <1>3. Calls
    BY IdleIsSane DEF Init, Calls, Labels
  <1>4. Answered
    BY DEF Init, Answered, NoRow
  <1> QED
    BY <1>2, <1>3, <1>4 DEF IInv

\* One step of a call.
LEMMA CallKeeps ==
    ASSUME IInv, NEW t \in Thread, Step(t) \/ Fail(t) \/ Arrival(t), UNCHANGED approved
    PROVE  IInv'
  <1>1. CASE TickStep(t)
    BY <1>1, TickJobsKeeps, TickLedgerKeeps, TickDurabilityKeeps, TickWritesKeep, TickIncidentKeeps,
       TickDoneKeeps
       DEF TickStep
  <1>2. CASE RemediateStep(t)
    BY <1>2, ReadsKeep, ConsiderKeeps, DryRunsKeep, EndsKeep, UpdatesKeep, EventsKeep, PatchesKeep,
       TicksBegin, CompareKeeps
       DEF RemediateStep
  <1>3. CASE RollbackStep(t)
    BY <1>3, UpdatesKeep, EventsKeep, PatchesKeep, TicksBegin DEF RollbackStep
  <1>4. CASE Fail(t) \/ Arrival(t)
    BY <1>4, EndsKeep, BeginsKeep
  <1> QED
    BY <1>1, <1>2, <1>3, <1>4 DEF Step

\* The steps of Next.
LEMMA NextIs ==
    ASSUME Next
    PROVE  \/ \E t \in Thread : (Step(t) \/ Fail(t) \/ Arrival(t)) /\ Around(t)
           \/ Environment
  BY DEF Next, Proceed

\* Decisions, the journal mode and what is upset keep their types.
LEMMA SurroundingsHold == Spec => []Surroundings
  <1>1. Init => Surroundings
    BY DEF Init, Surroundings
  <1>2. ASSUME Surroundings, [Next]_vars
        PROVE  Surroundings'
    <2>1. ASSUME NEW t \in Thread, Around(t)
          PROVE  Surroundings'
      <3>1. wal' \in BOOLEAN
        BY <1>2, <2>1 DEF Around, Journal, Surroundings
      <3>2. upset' \subseteq Incident
        BY <1>2, <2>1 DEF Around, Upsetting, Surroundings
      <3> QED
        BY <1>2, <2>1, <3>1, <3>2 DEF Around, Surroundings, gateVars
    <2>2. ASSUME NEW j \in Job, NEW row \in Reported, JobResult(j, row)
          PROVE  Surroundings'
      BY <1>2, <2>2 DEF JobResult, Outside, Surroundings, gateVars
    <2>3. ASSUME NEW i \in Incident, NEW kind \in Kinds, FileIncident(i, kind)
          PROVE  Surroundings'
      BY <1>2, <2>3 DEF FileIncident, Outside, Surroundings, gateVars
    <2>4. ASSUME NEW d \in Decider, NEW i \in Incident, NEW verdict \in Verdicts, ReadGate(d, i, verdict)
          PROVE  Surroundings'
      <3>1. PICK decision : decision = [gate |-> i, verdict |-> verdict]
        OBVIOUS
      <3>2. decision \in [gate : Incident, verdict : Verdicts]
        BY <3>1
      <3>3. deciding' = [deciding EXCEPT ![d] = decision]
        BY <2>4, <3>1 DEF ReadGate
      <3> QED
        BY <1>2, <2>4, <3>2, <3>3 DEF ReadGate, Surroundings
    <2>5. ASSUME NEW d \in Decider, WriteGate(d)
          PROVE  Surroundings'
      BY <1>2, <2>5 DEF WriteGate, Surroundings
    <2>6. CASE UNCHANGED vars
      BY <1>2, <2>6 DEF Surroundings, vars, gateVars
    <2> QED
      BY <1>2, <2>1, <2>2, <2>3, <2>4, <2>5, <2>6, NextIs DEF Environment
  <1> QED
    BY <1>1, <1>2, PTL DEF Spec

\* The invariant is inductive.
LEMMA StepKeeps ==
    ASSUME IInv, Surroundings, [Next]_vars
    PROVE  IInv'
  <1>1. ASSUME NEW t \in Thread, Step(t) \/ Fail(t) \/ Arrival(t), Around(t)
        PROVE  IInv'
    BY <1>1, CallKeeps DEF Around, gateVars
  <1> QED
    BY <1>1, EnvironmentKeeps, StutterKeeps, NextIs

\* Whatever calls, ticks and failures interleave, each call's locals stay good
\* and every mark that no healthy run explains has a call that answers for it.
THEOREM Invariance == Spec => []IInv
  BY InitIs, StepKeeps, SurroundingsHold, PTL DEF Spec

\* All rows and locals have their types, and a call that works on an incident
\* works on one that exists.
THEOREM TypeCorrect == Spec => []TypeOK
  <1>1. IInv /\ Surroundings => TypeOK
    <2> SUFFICES ASSUME IInv, Surroundings
                 PROVE  TypeOK
      OBVIOUS
    <2>1. ASSUME NEW t \in Thread
          PROVE  /\ frame[t].todo \subseteq Filed
                 /\ frame[t].cur \in Filed \cup {NoIncident}
                 /\ pc[t] = "execute" => frame[t].cur \in Filed
      <3>1. frame[t] \in Locals /\ Sane(pc[t], frame[t], incidents, approved)
        BY Types
      <3> QED
        BY <3>1 DEF Sane, Locals, Filed, Works
    <2> QED
      BY <2>1 DEF IInv, Stores, Calls, Surroundings, TypeOK
  <1> QED
    BY <1>1, Invariance, SurroundingsHold, PTL

\* Nothing is executed that policy forbids, whatever has changed since it was
\* read.
THEOREM GatesRespected == Spec => []GateRespected
  <1>1. IInv => GateRespected
    <2> SUFFICES ASSUME IInv, NEW t \in Thread, pc[t] = "execute"
                 PROVE  Allowed(frame[t], incidents[frame[t].cur].kind, frame[t].cur, approved)
      BY DEF GateRespected, Allowed
    <2> QED
      BY Types DEF Sane
  <1> QED
    BY <1>1, Invariance, PTL

\* An incident is left remediated only by a run that helped.
THEOREM HealthyRemediation == Spec => []RemediatedIsHealthy
  <1>1. IInv => RemediatedIsHealthy
    <2> SUFFICES ASSUME IInv, failures = 0, NEW i \in Filed, incidents[i].status = "remediated",
                        \A t \in Thread : ~Working(t, i)
                 PROVE  Healthy(runs[i])
      BY DEF RemediatedIsHealthy, Healthy
    <2>1. i \in Incident
      BY DEF Filed
    <2>2. \A t \in Thread : ~Owes(pc[t], frame[t], i)
      BY DEF Owes, Working, Ticks
    <2> QED
      BY <2>1, <2>2 DEF IInv, Answered
  <1> QED
    BY <1>1, Invariance, PTL

-----------------------------------------------------------------------------
(* Status and state *)

\* Where a call relies on the incident being active.
Counting == {"mark_diagnosed", "mark_proposed", "dry_run", "dry_undo", "log_started", "execute",
             "undo_state", "rb_state"}

\* What a request has read of the incidents it has in hand is still so, unless it
\* was upset: nobody else updates them.
Settled(label, locals, rows, bad) ==
    /\ locals.cur \notin locals.todo
    /\ label = "targets" => locals.cur = NoIncident
    /\ \A i \in locals.todo \ bad : rows[i].status = "active"
    /\ locals.cur \notin bad =>
          /\ label \in Counting => rows[locals.cur].status = "active"
          /\ label = "set_state" => rows[locals.cur].status = "remediated"

Agrees(row) == row.status = "remediated" <=> row.state = "remediated"

OneHand ==
    \A i \in Incident \ upset, t \in Thread : \A u \in Thread \ {t} : ~(InHand(t, i) /\ InHand(u, i))

Agreed ==
    \A i \in Incident \ upset : \/ Agrees(incidents[i])
                                \/ \E t \in Thread : pc[t] \in Between /\ frame[t].cur = i

AInv == OneHand /\ (\A t \in Thread : Settled(pc[t], frame[t], incidents, upset)) /\ Agreed

SInv == IInv /\ AInv

\* No incident that exists is updated.
Files ==
    \A i \in Incident :
        \/ incidents'[i] = incidents[i]
        \/ /\ incidents[i] = NoRow
           /\ incidents'[i].status = "active" /\ incidents'[i].state = "detected"

\* Filing an incident is like that.
LEMMA FilingIs ==
    ASSUME IInv, NEW i \in Incident, i \notin Filed, NEW kind,
           incidents' = [incidents EXCEPT ![i] = NewRow(kind)]
    PROVE  Files
  <1>1. PICK row : row = NewRow(kind)
    OBVIOUS
  <1>2. row.status = "active" /\ row.state = "detected" /\ incidents[i] = NoRow
    BY <1>1 DEF NewRow, Filed
  <1>3. incidents'[i] = row /\ \A j \in Incident \ {i} : incidents'[j] = incidents[j]
    BY <1>1 DEF IInv, Stores
  <1> QED
    BY <1>2, <1>3 DEF Files

\* New incidents disturb no call, and neither does it that more are upset.
LEMMA StillSettled ==
    ASSUME Files, NEW label, NEW locals \in Locals, label \in Works => locals.cur # NoIncident,
           NEW bad, NEW more, bad \subseteq more, Settled(label, locals, incidents, bad)
    PROVE  Settled(label, locals, incidents', more)
  <1>1. /\ locals.todo \subseteq Incident /\ locals.cur \in Incident \cup {NoIncident}
        /\ NoRow.status = "none" /\ Counting \cup {"set_state"} \subseteq Works
    BY DEF Locals, NoRow, Counting, Works
  <1> QED
    BY <1>1 DEF Settled, Files

\* What two requests have in hand is upset.
LEMMA HandsKept ==
    ASSUME OneHand, NEW t \in Thread, Upsetting(t), \A u \in Thread \ {t} : frame'[u] = frame[u]
    PROVE  OneHand' /\ upset \subseteq upset'
  <1>1. upset \subseteq upset'
    BY DEF Upsetting
  <1>2. ASSUME NEW i \in Incident, NEW u \in Thread \ {t}, i \in frame'[t].todo \cup {frame'[t].cur},
               i \in frame[u].todo \cup {frame[u].cur}
        PROVE  i \in upset'
    BY <1>2 DEF Upsetting, InHand
  <1>3. ASSUME NEW i \in Incident, i \notin upset', NEW u \in Thread, NEW v \in Thread \ {u},
               i \in frame'[u].todo \cup {frame'[u].cur}, i \in frame'[v].todo \cup {frame'[v].cur}
        PROVE  FALSE
    <2>1. CASE u # t /\ v # t
      BY <1>1, <1>3, <2>1 DEF OneHand, InHand
    <2>2. CASE u = t
      BY <1>2, <1>3, <2>2
    <2>3. CASE v = t
      BY <1>2, <1>3, <2>3
    <2> QED
      BY <2>1, <2>2, <2>3
  <1> QED
    BY <1>1, <1>3 DEF OneHand, InHand

\* A step of one call that updates no incident.
LEMMA Quiet ==
    ASSUME SInv, IInv', NEW t \in Thread, Upsetting(t), NEW label, NEW locals, Goto(t, label),
           Keeps(t, locals) \/ (UNCHANGED frame /\ locals = frame[t]), Files,
           pc[t] \in Between => label = "idle", Settled(label, locals, incidents, upset)
    PROVE  AInv'
  <1>1. \A u \in Thread : frame[u] \in Locals /\ (pc[u] \in Works => frame[u].cur # NoIncident)
    BY Types DEF SInv, Sane
  <1>2. /\ pc'[t] = label /\ frame'[t] = locals
        /\ \A u \in Thread \ {t} : pc'[u] = pc[u] /\ frame'[u] = frame[u]
        /\ locals \in Locals /\ (label \in Works => locals.cur # NoIncident)
    BY DEF SInv, IInv, Calls, Goto, Keeps, Sane
  <1>3. OneHand' /\ upset \subseteq upset'
    BY <1>2, HandsKept DEF SInv, AInv
  <1>4. ASSUME NEW u \in Thread
        PROVE  Settled(pc'[u], frame'[u], incidents', upset')
    <2>1. CASE u = t
      BY <1>2, <1>3, <2>1, StillSettled
    <2>2. CASE u # t
      <3>1. Settled(pc[u], frame[u], incidents, upset)
        BY DEF SInv, AInv
      <3> QED
        BY <1>1, <1>2, <1>3, <2>2, <3>1, StillSettled
    <2> QED
      BY <2>1, <2>2
  <1>5. ASSUME NEW i \in Incident \ upset', ~Agrees(incidents'[i])
        PROVE  \E u \in Thread : pc'[u] \in Between /\ frame'[u].cur = i
    <2>1. ~Agrees(incidents[i])
      BY <1>5 DEF Files, Agrees, NoRow
    <2>2. PICK u \in Thread : pc[u] \in Between /\ frame[u].cur = i
      BY <1>3, <2>1 DEF SInv, AInv, Agreed
    <2>3. CASE u # t
      BY <1>2, <2>2, <2>3
    <2>4. CASE u = t
      BY <1>2, <2>2, <2>4 DEF Upsetting
    <2> QED
      BY <2>3, <2>4
  <1> QED
    BY <1>3, <1>4, <1>5 DEF AInv, Agreed

\* An update: no other call has the incident in hand, unless it is upset.
LEMMA Update ==
    ASSUME SInv, NEW t \in Thread, Upsetting(t), pc[t] \in Works, NEW row \in Row, NEW label,
           Write(t, frame[t].cur, row, label),
           label \notin (Counting \ {"undo_state", "rb_state"}) \cup {"targets"},
           label \in {"undo_state", "rb_state"} => row.status = "active",
           label = "set_state" => row.status = "remediated",
           frame[t].cur \notin upset => Agrees(row) \/ label \in Between
    PROVE  AInv'
  <1>1. /\ IInv /\ frame[t] \in Locals /\ Sane(pc[t], frame[t], incidents, approved)
        /\ incidents \in [Incident -> Row \cup {NoRow}]
        /\ \A u \in Thread : Settled(pc[u], frame[u], incidents, upset)
    BY Types DEF SInv, AInv, IInv, Stores
  <1>2. PICK i \in Incident : i = frame[t].cur
    BY <1>1 DEF Sane, Locals
  <1>3. incidents'[i] = row /\ \A j \in Incident \ {i} : incidents'[j] = incidents[j]
    BY <1>1, <1>2 DEF Write
  <1>4. /\ pc'[t] = label /\ UNCHANGED frame
        /\ \A u \in Thread \ {t} : pc'[u] = pc[u]
    BY <1>1, <1>2 DEF Write, IInv, Calls, Goto
  <1>5. OneHand' /\ upset \subseteq upset'
    BY <1>4, HandsKept DEF SInv, AInv
  <1>6. Settled(pc'[t], frame'[t], incidents', upset')
    <2>1. frame[t].todo \subseteq Incident /\ i \notin frame[t].todo
      BY <1>1, <1>2 DEF Locals, Settled
    <2>2. Settled(pc[t], frame[t], incidents, upset)
      BY <1>1
    <2>3. \A j \in frame[t].todo \ upset' : incidents'[j].status = "active"
      BY <1>3, <1>5, <2>1, <2>2 DEF Settled
    <2>4. label \in Counting => row.status = "active"
      OBVIOUS
    <2> QED
      BY <1>2, <1>3, <1>4, <2>1, <2>3, <2>4 DEF Settled
  <1>7. ASSUME NEW u \in Thread \ {t}
        PROVE  Settled(pc'[u], frame'[u], incidents', upset')
    <2>1. frame[u] \in Locals /\ Settled(pc[u], frame[u], incidents, upset)
          /\ (pc[u] \in Works => frame[u].cur # NoIncident)
      BY <1>1, Types DEF Sane
    <2>2. i \in frame[u].todo \cup {frame[u].cur} => i \in upset
      BY <1>2 DEF SInv, AInv, OneHand, InHand
    <2>3. /\ frame[u].todo \subseteq Incident /\ frame[u].cur \in Incident \cup {NoIncident}
          /\ Counting \cup {"set_state"} \subseteq Works
      BY <2>1 DEF Locals, Counting, Works
    <2>4. pc'[u] = pc[u] /\ frame'[u] = frame[u]
      BY <1>4
    <2>5. \A j \in frame[u].todo \ upset' : incidents'[j].status = "active"
      BY <1>3, <1>5, <2>1, <2>2, <2>3 DEF Settled
    <2>6. frame[u].cur \notin upset' /\ pc[u] \in Works => incidents'[frame[u].cur] = incidents[frame[u].cur]
      BY <1>3, <1>5, <2>1, <2>2, <2>3
    <2> QED
      BY <1>5, <2>1, <2>3, <2>4, <2>5, <2>6 DEF Settled
  <1>8. ASSUME NEW j \in Incident \ upset', ~Agrees(incidents'[j])
        PROVE  \E u \in Thread : pc'[u] \in Between /\ frame'[u].cur = j
    <2>1. CASE j = i
      BY <1>2, <1>3, <1>4, <1>5, <1>8, <2>1
    <2>2. CASE j # i
      <3>1. PICK u \in Thread : pc[u] \in Between /\ frame[u].cur = j
        BY <1>3, <1>5, <1>8, <2>2 DEF SInv, AInv, Agreed
      <3> QED
        BY <1>2, <1>4, <2>2, <3>1
    <2> QED
      BY <2>1, <2>2
  <1> QED
    BY <1>5, <1>6, <1>7, <1>8 DEF AInv, Agreed

\* The eight updates.
LEMMA UpdatesAgree ==
    ASSUME SInv, NEW t \in Thread, Upsetting(t),
           MarkDiagnosed(t) \/ MarkProposed(t) \/ SetStatus(t) \/ SetState(t) \/ UndoStatus(t)
              \/ UndoState(t) \/ RollbackStatus(t) \/ RollbackState(t)
    PROVE  AInv'
  <1>1. IInv /\ pc[t] \in Works /\ Settled(pc[t], frame[t], incidents, upset)
    BY DEF SInv, AInv, MarkDiagnosed, MarkProposed, SetStatus, SetState, UndoStatus, UndoState,
           RollbackStatus, RollbackState, Works
  <1>2. PICK i \in Incident : i = frame[t].cur /\ incidents[i] # NoRow
    <2>1. frame[t] \in Locals /\ Sane(pc[t], frame[t], incidents, approved)
      BY <1>1, Types
    <2> QED
      BY <1>1, <2>1 DEF Sane, Locals
  <1>3. ASSUME NEW label \in {"loop", "log_blocked", "log_completed", "log_rollback", "rb_log"},
               NEW state \in {"diagnosed", "proposed", "remediated", "rolled_back"},
               Write(t, i, WithState(i, state), label),
               i \notin upset => (state = "remediated" <=> incidents[i].status = "remediated")
        PROVE  AInv'
    <2>1. PICK row : row = WithState(i, state)
      OBVIOUS
    <2>2. row \in Row /\ row.status = incidents[i].status /\ row.state = state
      BY <1>1, <1>2, <2>1, RowsAre
    <2>3. i \notin upset => Agrees(row)
      BY <1>3, <2>2 DEF Agrees
    <2>4. label \notin Counting \cup {"targets", "set_state"}
      BY DEF Counting
    <2> QED
      BY <1>1, <1>2, <1>3, <2>1, <2>2, <2>3, <2>4, Update
  <1>4. ASSUME NEW label \in Between, NEW status \in {"active", "remediated"},
               Write(t, i, WithStatus(i, status), label),
               status = IF label = "set_state" THEN "remediated" ELSE "active"
        PROVE  AInv'
    <2>1. PICK row : row = WithStatus(i, status)
      OBVIOUS
    <2>2. row \in Row /\ row.status = status
      BY <1>1, <1>2, <2>1, RowsAre
    <2>3. label \notin (Counting \ {"undo_state", "rb_state"}) \cup {"targets"}
      BY DEF Counting, Between
    <2> QED
      BY <1>1, <1>2, <1>4, <2>1, <2>2, <2>3, Update DEF Between
  <1>5. CASE MarkDiagnosed(t) \/ MarkProposed(t) \/ UndoState(t) \/ RollbackState(t)
    <2>1. i \notin upset => incidents[i].status = "active"
      BY <1>1, <1>2, <1>5 DEF MarkDiagnosed, MarkProposed, UndoState, RollbackState, Settled, Counting
    <2> QED
      BY <1>2, <1>3, <1>5, <2>1 DEF MarkDiagnosed, MarkProposed, UndoState, RollbackState
  <1>6. CASE SetState(t)
    <2>1. i \notin upset => incidents[i].status = "remediated"
      BY <1>1, <1>2, <1>6 DEF SetState, Settled
    <2> QED
      BY <1>2, <1>3, <1>6, <2>1 DEF SetState
  <1>7. CASE SetStatus(t) \/ UndoStatus(t) \/ RollbackStatus(t)
    BY <1>2, <1>4, <1>7 DEF SetStatus, UndoStatus, RollbackStatus, Between
  <1> QED
    BY <1>5, <1>6, <1>7

\* The ticks, which may file incidents.
LEMMA TicksAgree ==
    ASSUME SInv, IInv', NEW t \in Thread, Upsetting(t), TickStep(t)
    PROVE  AInv'
  <1>1. /\ IInv /\ frame[t] \in Locals /\ pc[t] \in Ticks
        /\ Settled(pc[t], frame[t], incidents, upset)
    BY Types DEF SInv, AInv, TickStep, TickJobs, TickLedger, TickDurability, TickReport,
                 TickIncident, TickLog, TickJob, TickJobLog, TickSkips, TickDone, Ticks
  <1>2. pc[t] \notin Between
    BY <1>1 DEF Ticks, Between
  <1>3. ASSUME NEW label \in Ticks \cup {"compare", "loop"}, NEW locals, Goto(t, label),
               Keeps(t, locals) \/ (UNCHANGED frame /\ locals = frame[t]),
               locals.todo = frame[t].todo, locals.cur = frame[t].cur, Files
        PROVE  AInv'
    <2>1. Settled(label, locals, incidents, upset)
      BY <1>1, <1>3 DEF Settled, Ticks, Counting
    <2> QED
      BY <1>2, <1>3, <2>1, Quiet
  <1>4. ASSUME NEW label \in Ticks, Goto(t, label), NEW score, NEW found,
               Keeps(t, Scored(t, score, found)), Files
        PROVE  AInv'
    <2>1. PICK locals : locals = Scored(t, score, found)
      OBVIOUS
    <2>2. locals.todo = frame[t].todo /\ locals.cur = frame[t].cur
      BY <1>1, <2>1 DEF Locals, Scored
    <2> QED
      BY <1>3, <1>4, <2>1, <2>2
  <1>5. CASE TickJobs(t)
    <2>1. /\ Files /\ Goto(t, "tick_ledger") /\ "tick_ledger" \in Ticks
          /\ \/ Keeps(t, Scored(t, FixedScore + RuntimeScore, JobFindings \cup FileFindings))
             \/ Keeps(t, Scored(t, FixedScore, FileFindings))
      BY <1>5 DEF TickJobs, Scored, Files, storeVars, Ticks
    <2> QED
      BY <1>4, <2>1
  <1>6. CASE TickLedger(t)
    <2>1. PICK first : first = frame[t].score + AuditScore
      OBVIOUS
    <2>2. PICK second : second = frame[t].found \cup {"ledger"}
      OBVIOUS
    <2>3. /\ Scored(t, first, frame[t].found) = [frame[t] EXCEPT !.score = first]
          /\ Scored(t, frame[t].score, second) = [frame[t] EXCEPT !.found = second]
      BY <1>1 DEF Scored, Locals
    <2>4. Files /\ Goto(t, "tick_wal") /\ "tick_wal" \in Ticks
      BY <1>6 DEF TickLedger, Files, storeVars, Ticks
    <2>5. \/ Keeps(t, [frame[t] EXCEPT !.score = first])
          \/ Keeps(t, [frame[t] EXCEPT !.found = second])
          \/ UNCHANGED frame
      BY <1>6, <2>1, <2>2 DEF TickLedger
    <2> QED
      BY <1>3, <1>4, <2>3, <2>4, <2>5
  <1>7. CASE TickDurability(t)
    <2>1. PICK mode, timeout :
             Keeps(t, [frame[t] EXCEPT !.score = @ + DurabilityScore(mode, timeout),
                                       !.found = @ \cup DurabilityFindings(mode, timeout)])
      BY <1>7 DEF TickDurability
    <2>2. PICK score, found : /\ score = frame[t].score + DurabilityScore(mode, timeout)
                              /\ found = frame[t].found \cup DurabilityFindings(mode, timeout)
      OBVIOUS
    <2>3. Keeps(t, Scored(t, score, found))
      BY <1>1, <2>1, <2>2 DEF Scored, Locals
    <2>4. Files /\ Goto(t, "tick_report") /\ "tick_report" \in Ticks
      BY <1>7 DEF TickDurability, Files, storeVars, Ticks
    <2> QED
      BY <1>4, <2>3, <2>4
  <1>8. CASE TickReport(t) \/ TickLog(t) \/ TickJob(t) \/ TickJobLog(t) \/ TickSkips(t)
    <2>1. PICK label \in Ticks : Goto(t, label) /\ UNCHANGED <<incidents, frame>>
      BY <1>8
         DEF TickReport, TickLog, TickJob, TickJobLog, TickSkips, AfterReport, AfterTickLog, Log,
             WriteDiagnostic, Ticks, storeVars
    <2>2. Files
      BY <2>1 DEF Files
    <2> QED
      BY <1>3, <2>1, <2>2
  <1>9. ASSUME NEW kind \in DaemonKinds, TickIncident(t, kind)
        PROVE  AInv'
    <2>1. PICK label \in {"tick_log", "tick_incidents"} : Goto(t, label)
      BY <1>9 DEF TickIncident
    <2>2. PICK locals : locals = [frame[t] EXCEPT !.found = @ \ {kind}]
      OBVIOUS
    <2>3. locals.todo = frame[t].todo /\ locals.cur = frame[t].cur
      BY <1>1, <2>2 DEF Locals
    <2>4. Files
      <3>1. CASE UNCHANGED incidents
        BY <3>1 DEF Files
      <3>2. CASE \E i \in Incident \ Filed : incidents' = [incidents EXCEPT ![i] = NewRow(kind)]
        <4>1. PICK i \in Incident \ Filed : incidents' = [incidents EXCEPT ![i] = NewRow(kind)]
          BY <3>2
        <4> QED
          BY <1>1, <4>1, FilingIs
      <3> QED
        BY <1>9, <3>1, <3>2 DEF TickIncident
    <2>5. Keeps(t, locals)
      BY <1>9, <2>2 DEF TickIncident
    <2> QED
      BY <1>3, <2>1, <2>3, <2>4, <2>5 DEF Ticks
  <1>10. CASE TickDone(t)
    <2>1. CASE frame[t].back = "idle"
      <3>1. Settled("idle", Idle, incidents, upset)
        BY IdleIsSane DEF Settled, Counting
      <3>2. Files /\ Goto(t, "idle") /\ Keeps(t, Idle)
        BY <1>10, <2>1 DEF TickDone, End, Files, storeVars
      <3> QED
        BY <1>2, <3>1, <3>2, Quiet
    <2>2. CASE frame[t].back # "idle"
      <3>1. PICK label \in {"compare", "loop"} : Goto(t, label) /\ UNCHANGED <<frame, incidents>>
        BY <1>1, <1>10, <2>2 DEF TickDone, Locals, storeVars
      <3> QED
        BY <1>3, <3>1 DEF Files
    <2> QED
      BY <2>1, <2>2
  <1> QED
    BY <1>5, <1>6, <1>7, <1>8, <1>9, <1>10 DEF TickStep

\* The locals of a call that has read the budget and the gates.
Read(t, pre, level, grants) ==
    [frame[t] EXCEPT !.pre = pre, !.level = level, !.grants = grants]

\* The rest of a request reads the incidents, or leaves them alone.
LEMMA RequestsAgree ==
    ASSUME SInv, IInv', NEW t \in Thread, Upsetting(t),
           \/ ReadTargets(t) \/ ReadScore(t) \/ ReadBudget(t) \/ ReadGates(t) \/ LoopDone(t)
           \/ \E i \in Incident : Consider(t, i)
           \/ DryRun(t) \/ DryUndo(t)
           \/ LogBlocked(t) \/ LogStarted(t) \/ LogCompleted(t) \/ LogRollback(t) \/ RollbackLog(t)
           \/ Execute(t) \/ ExecuteFails(t) \/ Compare(t) \/ Undo(t) \/ RollbackRun(t)
           \/ Diagnose(t) \/ DiagnoseLog(t) \/ PostTick(t) \/ UndoTick(t) \/ RollbackTick(t)
    PROVE  AInv'
  <1>1. IInv /\ frame[t] \in Locals /\ Settled(pc[t], frame[t], incidents, upset)
    BY Types DEF SInv, AInv
  <1>2. pc[t] \notin Between
    BY DEF ReadTargets, ReadScore, ReadBudget, ReadGates, LoopDone, Consider, DryRun, DryUndo, LogBlocked,
           LogStarted, LogCompleted, LogRollback, RollbackLog, Execute, ExecuteFails, Compare, Undo,
           RollbackRun, Diagnose, DiagnoseLog, PostTick, UndoTick, RollbackTick, Between
  <1>3. ASSUME NEW label, NEW locals, Goto(t, label),
               Keeps(t, locals) \/ (UNCHANGED frame /\ locals = frame[t]),
               UNCHANGED incidents, Settled(label, locals, incidents, upset)
        PROVE  AInv'
    <2>1. Files
      BY <1>3 DEF Files
    <2> QED
      BY <1>2, <1>3, <2>1, Quiet
  <1>4. CASE \/ DryRun(t) \/ DryUndo(t) \/ LogBlocked(t) \/ LogStarted(t) \/ LogCompleted(t)
             \/ LogRollback(t) \/ RollbackLog(t) \/ Execute(t) \/ ExecuteFails(t) \/ Compare(t) \/ Undo(t)
             \/ RollbackRun(t) \/ Diagnose(t) \/ DiagnoseLog(t)
    <2>1. PICK label \in {"dry_undo", "log_started", "loop", "execute", "posttick", "undotick", "rb_tick",
                          "set_status", "diag_log", "mark_diagnosed", "undo", "undo_status", "rb_status"} :
             /\ Goto(t, label) /\ UNCHANGED <<incidents, frame>>
             /\ label \in Counting => pc[t] \in Counting
      BY <1>4
         DEF DryRun, DryUndo, Rehearse, LogBlocked, LogStarted, LogCompleted, LogRollback, RollbackLog,
             Execute, ExecuteFails, Compare, Undo, RollbackRun, Diagnose, DiagnoseLog, Log, WriteDiagnostic,
             storeVars, Counting
    <2>2. Settled(label, frame[t], incidents, upset)
      BY <1>1, <2>1 DEF Settled
    <2> QED
      BY <1>3, <2>1, <2>2
  <1>5. CASE PostTick(t) \/ UndoTick(t) \/ RollbackTick(t)
    <2>1. PICK label \in {"tick", "tick_done", "compare", "loop"} :
             /\ Goto(t, label) /\ UNCHANGED incidents
             /\ \/ \E back \in {"compare", "loop", "idle"} : Keeps(t, Ticking(t, back))
                \/ Keeps(t, [frame[t] EXCEPT !.score = frame[t].pre])
      BY <1>5 DEF PostTick, UndoTick, RollbackTick, SetLocals, storeVars
    <2>2. PICK locals : /\ Keeps(t, locals) /\ locals.todo = frame[t].todo /\ locals.cur = frame[t].cur
      <3>1. CASE \E back \in {"compare", "loop", "idle"} : Keeps(t, Ticking(t, back))
        <4>1. PICK back : Keeps(t, Ticking(t, back))
          BY <3>1
        <4>2. PICK locals : locals = Ticking(t, back)
          OBVIOUS
        <4>3. locals.todo = frame[t].todo /\ locals.cur = frame[t].cur
          BY <1>1, <4>2 DEF Ticking, Locals
        <4> QED
          BY <4>1, <4>2, <4>3
      <3>2. CASE Keeps(t, [frame[t] EXCEPT !.score = frame[t].pre])
        <4>1. PICK locals : locals = [frame[t] EXCEPT !.score = frame[t].pre]
          OBVIOUS
        <4>2. locals.todo = frame[t].todo /\ locals.cur = frame[t].cur
          BY <1>1, <4>1 DEF Locals
        <4> QED
          BY <3>2, <4>1, <4>2
      <3> QED
        BY <2>1, <3>1, <3>2
    <2>3. Settled(label, locals, incidents, upset)
      BY <1>1, <2>1, <2>2 DEF Settled, Counting
    <2> QED
      BY <1>3, <2>1, <2>2, <2>3
  <1>6. CASE ReadTargets(t)
    <2>1. PICK active : active = {i \in Filed : incidents[i].status = "active"}
      OBVIOUS
    <2>2. PICK todo : todo = IF frame[t].target = NoIncident THEN active
                             ELSE active \cap {frame[t].target}
      OBVIOUS
    <2>3. PICK locals : locals = [frame[t] EXCEPT !.target = NoIncident, !.todo = todo]
      OBVIOUS
    <2>4. locals.todo = todo /\ locals.cur = frame[t].cur
      BY <1>1, <2>3 DEF Locals
    <2>5. \A i \in todo : incidents[i].status = "active" /\ i # NoIncident
      BY <2>1, <2>2, DomainsAssumption DEF Filed
    <2>6. Settled("prescore", locals, incidents, upset)
      BY <1>1, <1>6, <2>4, <2>5 DEF Settled, ReadTargets, Counting
    <2>7. SetLocals(t, locals, "prescore")
      BY <1>6, <2>1, <2>2, <2>3 DEF ReadTargets
    <2> QED
      BY <1>3, <2>6, <2>7 DEF SetLocals, storeVars
  <1>7. CASE ReadScore(t) \/ ReadBudget(t) \/ ReadGates(t)
    <2>1. PICK pre, level, grants :
             Keeps(t, Read(t, pre, level, grants)) \/ UNCHANGED frame
      <3>1. PICK score : score = LatestScore(reports)
        OBVIOUS
      <3>2. PICK a : a = AutonomyLevel(frame[t].pre, reports)
        OBVIOUS
      <3>3. PICK b : b = AutonomyLevel(frame[t].pre, <<>>)
        OBVIOUS
      <3>4. PICK granted : granted = {i \in Incident : gates[i] = "approved"}
        OBVIOUS
      <3>5. /\ Read(t, score, frame[t].level, frame[t].grants) = [frame[t] EXCEPT !.pre = score]
            /\ Read(t, frame[t].pre, a, frame[t].grants) = [frame[t] EXCEPT !.level = a]
            /\ Read(t, frame[t].pre, b, frame[t].grants) = [frame[t] EXCEPT !.level = b]
            /\ Read(t, frame[t].pre, frame[t].level, granted) = [frame[t] EXCEPT !.grants = granted]
        BY <1>1 DEF Read, Locals
      <3>6. CASE ReadScore(t)
        BY <3>1, <3>5, <3>6 DEF ReadScore, SetLocals
      <3>7. CASE ReadBudget(t)
        BY <3>2, <3>3, <3>5, <3>7 DEF ReadBudget
      <3>8. CASE ReadGates(t)
        BY <3>4, <3>5, <3>8 DEF ReadGates
      <3> QED
        BY <1>7, <3>6, <3>7, <3>8
    <2>2. PICK label \in {"budget", "gates", "loop"} : Goto(t, label) /\ UNCHANGED incidents
      BY <1>7 DEF ReadScore, ReadBudget, ReadGates, SetLocals, storeVars
    <2>3. PICK locals : locals = Read(t, pre, level, grants)
      OBVIOUS
    <2>4. locals.todo = frame[t].todo /\ locals.cur = frame[t].cur
      BY <1>1, <2>3 DEF Read, Locals
    <2>5. Settled(label, locals, incidents, upset) /\ Settled(label, frame[t], incidents, upset)
      BY <1>1, <2>2, <2>4 DEF Settled, Counting
    <2>6. CASE Keeps(t, locals)
      BY <1>3, <2>2, <2>5, <2>6
    <2>7. CASE UNCHANGED frame
      BY <1>3, <2>2, <2>5, <2>7
    <2> QED
      BY <2>1, <2>3, <2>6, <2>7
  <1>8. ASSUME NEW i \in Incident, Consider(t, i)
        PROVE  AInv'
    <2>1. PICK locals : locals = [frame[t] EXCEPT !.todo = @ \ {i}, !.cur = i]
      OBVIOUS
    <2>2. locals.todo = frame[t].todo \ {i} /\ locals.cur = i
      BY <1>1, <2>1 DEF Locals
    <2>3. PICK label \in {"mark_diagnosed", "mark_proposed", "dry_run"} : SetLocals(t, locals, label)
      BY <1>8, <2>1 DEF Consider
    <2>4. Settled(label, locals, incidents, upset)
      BY <1>1, <1>8, <2>2, <2>3 DEF Settled, Consider
    <2> QED
      BY <1>3, <2>3, <2>4 DEF SetLocals, storeVars
  <1>9. CASE LoopDone(t)
    <2>1. Settled("idle", Idle, incidents, upset)
      BY IdleIsSane DEF Settled, Counting
    <2> QED
      BY <1>3, <1>9, <2>1 DEF LoopDone, End, storeVars
  <1> QED
    BY <1>4, <1>5, <1>6, <1>7, <1>8, <1>9

\* Calls begin with nothing read, and those that fail upset what they had begun.
LEMMA CallsAgree ==
    ASSUME SInv, IInv', NEW t \in Thread, Upsetting(t), Fail(t) \/ Arrival(t)
    PROVE  AInv'
  <1>1. CASE Fail(t)
    <2>1. Settled("idle", Idle, incidents, upset)
      BY IdleIsSane DEF Settled, Counting
    <2>2. Files /\ Goto(t, "idle") /\ Keeps(t, Idle)
      BY <1>1 DEF Fail, End, Files, storeVars
    <2> QED
      BY <2>1, <2>2, Quiet
  <1>2. ASSUME NEW label \in {"targets", "rb_run", "diag_job", "tick"}, NEW locals,
               Begin(t, locals, label), locals.todo = {}, label = "targets" => locals.cur = NoIncident
        PROVE  AInv'
    <2>1. Settled(label, locals, incidents, upset)
      BY <1>2 DEF Settled, Counting
    <2>2. pc[t] \notin Between /\ Files /\ Goto(t, label) /\ Keeps(t, locals)
      BY <1>2 DEF Begin, Between, Files, storeVars
    <2> QED
      BY <2>1, <2>2, Quiet
  <1>3. CASE Tick(t) \/ DiagnoseRequest(t)
    BY <1>2, <1>3, IdleIsSane DEF Tick, DiagnoseRequest
  <1>4. ASSUME NEW i \in Incident, Rollback(t, i)
        PROVE  AInv'
    <2>1. PICK locals : locals = [Idle EXCEPT !.cur = i]
      OBVIOUS
    <2>2. locals.todo = {}
      BY <2>1, IdleIsSane DEF Locals
    <2> QED
      BY <1>2, <1>4, <2>1, <2>2 DEF Rollback
  <1>5. ASSUME NEW i \in Incident \cup {NoIncident}, Remediate(t, i)
        PROVE  AInv'
    <2>1. PICK locals : locals = [Idle EXCEPT !.target = i]
      OBVIOUS
    <2>2. locals.todo = {} /\ locals.cur = NoIncident
      BY <2>1, IdleIsSane DEF Locals
    <2> QED
      BY <1>2, <1>5, <2>1, <2>2 DEF Remediate
  <1> QED
    BY <1>1, <1>3, <1>4, <1>5 DEF Arrival

\* Other components file incidents, but update none.
LEMMA OthersAgree ==
    ASSUME SInv, Environment \/ UNCHANGED vars
    PROVE  AInv'
  <1>1. UNCHANGED <<pc, frame, upset>>
    BY DEF Environment, JobResult, FileIncident, ReadGate, WriteGate, Outside, vars
  <1>2. Files
    <2>1. CASE UNCHANGED incidents
      BY <2>1 DEF Files
    <2>2. ASSUME NEW i \in Incident, NEW kind \in Kinds, FileIncident(i, kind)
          PROVE  Files
      BY <2>2, FilingIs DEF FileIncident, SInv
    <2> QED
      BY <2>1, <2>2 DEF Environment, JobResult, ReadGate, WriteGate, vars, storeVars
  <1>3. ASSUME NEW t \in Thread
        PROVE  Settled(pc[t], frame[t], incidents', upset)
    <2>1. frame[t] \in Locals /\ (pc[t] \in Works => frame[t].cur # NoIncident)
      BY Types DEF SInv, Sane
    <2> QED
      BY <1>2, <2>1, StillSettled DEF SInv, AInv
  <1>4. ASSUME NEW i \in Incident \ upset
        PROVE  Agrees(incidents'[i]) \/ \E t \in Thread : pc[t] \in Between /\ frame[t].cur = i
    BY <1>2, <1>4 DEF SInv, AInv, Agreed, Files, Agrees
  <1>5. OneHand'
    BY <1>1 DEF SInv, AInv, OneHand, InHand
  <1> QED
    BY <1>1, <1>3, <1>4, <1>5 DEF AInv, Agreed

\* Both invariants together are inductive.
LEMMA StepAgrees ==
    ASSUME SInv, Surroundings, [Next]_vars
    PROVE  SInv'
  <1>1. IInv'
    BY StepKeeps DEF SInv
  <1>2. ASSUME NEW t \in Thread, TickStep(t) \/ RemediateStep(t) \/ RollbackStep(t), Upsetting(t)
        PROVE  AInv'
    <2>1. CASE TickStep(t)
      BY <1>1, <1>2, <2>1, TicksAgree
    <2>2. CASE RemediateStep(t)
      BY <1>1, <1>2, <2>2, RequestsAgree, UpdatesAgree DEF RemediateStep
    <2>3. CASE RollbackStep(t)
      BY <1>1, <1>2, <2>3, RequestsAgree, UpdatesAgree DEF RollbackStep
    <2> QED
      BY <1>2, <2>1, <2>2, <2>3
  <1>3. ASSUME NEW t \in Thread, Step(t) \/ Fail(t) \/ Arrival(t), Around(t)
        PROVE  AInv'
    BY <1>1, <1>2, <1>3, CallsAgree DEF Step, Around
  <1> QED
    BY <1>1, <1>3, OthersAgree, NextIs DEF SInv

\* However many requests work side by side, and wherever the database fails them:
\* status and state of an incident never disagree but between the two updates,
\* unless two of them had it in hand or one was cut short between its updates.
THEOREM Agreement == Spec => []StatusAgreesWithState
  <1>1. Init => SInv
    <2> SUFFICES ASSUME Init
                 PROVE  AInv
      BY InitIs DEF SInv
    <2>1. \A t \in Thread : Settled(pc[t], frame[t], incidents, upset)
      BY IdleIsSane DEF Init, Settled, Counting
    <2>2. \A i \in Incident : Agrees(incidents[i])
      BY DEF Init, Agrees, NoRow
    <2>3. OneHand
      BY IdleIsSane, DomainsAssumption DEF Init, OneHand, InHand
    <2> QED
      BY <2>1, <2>2, <2>3 DEF AInv, Agreed
  <1>2. SInv /\ Surroundings /\ [Next]_vars => SInv'
    BY StepAgrees
  <1>3. SInv => StatusAgreesWithState
    BY DEF SInv, AInv, Agreed, StatusAgreesWithState, Agrees, Filed
  <1> QED
    BY <1>1, <1>2, <1>3, SurroundingsHold, PTL DEF Spec

-----------------------------------------------------------------------------
(* Sums, by induction over the set of the numbers that a fact holds of *)

\* Every set of numbers has a least one.
LEMMA LeastNumber ==
    ASSUME NEW S \in SUBSET Nat, S # {}
    PROVE  \E n \in S : \A m \in S : n <= m
  <1>1. PICK less : less = OpToRel(<, Nat)
    OBVIOUS
  <1>2. IsWellFoundedOn(less, Nat)
    BY <1>1, NatLessThanWellFounded
  <1>3. less = {pair \in Nat \X Nat : pair[1] < pair[2]}
    BY <1>1 DEF OpToRel
  <1>4. PICK n \in S : \A m \in S : << m, n >> \notin less
    BY <1>2, WFMin
  <1>5. ASSUME NEW m \in S PROVE n <= m
    <2>1. m \in Nat /\ n \in Nat /\ << m, n >> \in Nat \X Nat
      OBVIOUS
    <2>2. << m, n >>[1] = m /\ << m, n >>[2] = n
      OBVIOUS
    <2>3. ~(m < n)
      BY <1>3, <1>4, <2>1, <2>2
    <2> QED
      BY <2>1, <2>3
  <1> QED
    BY <1>5

\* A set of numbers with 0 and each one's successor holds them all.
LEMMA Induction ==
    ASSUME NEW S \in SUBSET Nat, 0 \in S, \A n \in S : n + 1 \in S
    PROVE  S = Nat
  <1>1. CASE Nat \ S # {}
    <2>1. PICK n \in Nat \ S : \A m \in Nat \ S : n <= m
      BY <1>1, LeastNumber
    <2>2. n - 1 \in Nat /\ n - 1 \in S
      BY <2>1
    <2> QED
      BY <2>1, <2>2
  <1> QED
    BY <1>1

---------------------------------------------------------------------------
(* Sums *)

\* g sums f up over the subsets of S of up to n elements, and takes them away
\* one after the other.
Parts(S, n) == {s \in SUBSET S : Cardinality(s) <= n}
First(s) == CHOOSE x \in s : TRUE
Takes(g, f, P) ==
    g = [s \in P |-> IF s = {} THEN 0 ELSE f[First(s)] + g[s \ {First(s)}]]

\* SumFunctionOnSet takes one element after the other.
LEMMA SumIs ==
    ASSUME NEW f, NEW S
    PROVE  SumFunctionOnSet(f, S) = (CHOOSE g : Takes(g, f, SUBSET S))[S]
  BY DEF SumFunctionOnSet, FoldFunctionOnSet, MapThenFoldSet, Takes, First

\* The parts of a finite set.
LEMMA Smaller ==
    ASSUME NEW S, IsFiniteSet(S), NEW s \in SUBSET S, NEW x \in s
    PROVE  /\ Cardinality(s) \in Nat /\ Cardinality(s \ {x}) \in Nat
           /\ Cardinality(s) = Cardinality(s \ {x}) + 1
           /\ s \ {x} \in SUBSET S
  <1>1. IsFiniteSet(s) /\ IsFiniteSet(s \ {x})
    BY FS_Subset, FS_RemoveElement
  <1>2. Cardinality(s) \in Nat /\ Cardinality(s \ {x}) \in Nat
    BY <1>1, FS_CardinalityType
  <1>3. Cardinality(s \ {x}) = Cardinality(s) - 1
    BY <1>1, FS_RemoveElement
  <1> QED
    BY <1>2, <1>3

\* The sum exists.
LEMMA SumExists ==
    ASSUME NEW f, NEW S, IsFiniteSet(S)
    PROVE  \E g : Takes(g, f, SUBSET S)
  <1> DEFINE Has(n) == \E g : Takes(g, f, Parts(S, n))
             Good == {n \in Nat : Has(n)}
  <1>0. \A s \in SUBSET S : IsFiniteSet(s) /\ Cardinality(s) \in Nat
    BY FS_Subset, FS_CardinalityType
  <1>1. 0 \in Good
    <2>1. \A s \in Parts(S, 0) : s = {}
      BY <1>0, FS_EmptySet DEF Parts
    <2>2. Takes([s \in Parts(S, 0) |-> 0], f, Parts(S, 0))
      BY <2>1 DEF Takes
    <2> QED
      BY <2>2
  <1>2. ASSUME NEW n \in Good PROVE n + 1 \in Good
    <2>1. PICK g : Takes(g, f, Parts(S, n))
      OBVIOUS
    <2>2. PICK h : h = [s \in Parts(S, n + 1) |->
                           IF s = {} THEN 0 ELSE f[First(s)] + g[s \ {First(s)}]]
      OBVIOUS
    <2>3. ASSUME NEW s \in Parts(S, n + 1), s # {}
          PROVE  h[s \ {First(s)}] = g[s \ {First(s)}]
      <3>1. First(s) \in s
        BY <2>3 DEF First
      <3>2. PICK t : t = s \ {First(s)}
        OBVIOUS
      <3>3. t \in Parts(S, n) /\ t \in Parts(S, n + 1)
        BY <3>1, <3>2, Smaller DEF Parts
      <3>4. g[t] = IF t = {} THEN 0 ELSE f[First(t)] + g[t \ {First(t)}]
        BY <2>1, <3>3 DEF Takes
      <3> QED
        BY <2>2, <3>2, <3>3, <3>4
    <2>4. h = [s \in Parts(S, n + 1) |->
                  IF s = {} THEN 0 ELSE f[First(s)] + h[s \ {First(s)}]]
      BY <2>2, <2>3
    <2>5. Takes(h, f, Parts(S, n + 1))
      BY <2>4 DEF Takes
    <2> QED
      BY <2>5
  <1>3. Good = Nat
    <2> HIDE DEF Has
    <2> QED
      BY <1>1, <1>2, Induction
  <1>4. Cardinality(S) \in Good
    BY <1>0, <1>3
  <1>5. Parts(S, Cardinality(S)) = SUBSET S
    <2>1. ASSUME NEW s \in SUBSET S PROVE Cardinality(s) <= Cardinality(S)
      BY FS_Subset
    <2> QED
      BY <2>1 DEF Parts
  <1> QED
    BY <1>4, <1>5

\* What the sum over each part is.
LEMMA SumTakes ==
    ASSUME NEW f, NEW S, IsFiniteSet(S), NEW g, Takes(g, f, SUBSET S),
           NEW s \in SUBSET S
    PROVE  /\ g[{}] = 0
           /\ s # {} => /\ First(s) \in s
                        /\ g[s] = f[First(s)] + g[s \ {First(s)}]
  BY DEF Takes, First

\* The sum of whole numbers is one, and any element may be taken away first.
LEMMA SumOfAny ==
    ASSUME NEW f, NEW S, IsFiniteSet(S), \A x \in S : f[x] \in Int,
           NEW g, Takes(g, f, SUBSET S)
    PROVE  \A s \in SUBSET S : /\ g[s] \in Int
                               /\ \A x \in s : g[s] = f[x] + g[s \ {x}]
  <1> DEFINE Any(s) == g[s] \in Int /\ \A x \in s : g[s] = f[x] + g[s \ {x}]
             Good == {n \in Nat : \A s \in Parts(S, n) : Any(s)}
  <1>e. Any({})
    <2>1. g[{}] = 0
      BY SumTakes
    <2> QED
      BY <2>1
  <1>0. \A s \in SUBSET S : IsFiniteSet(s) /\ Cardinality(s) \in Nat
    BY FS_Subset, FS_CardinalityType
  <1>1. 0 \in Good
    <2>1. \A s \in Parts(S, 0) : s = {}
      BY <1>0, FS_EmptySet DEF Parts
    <2>2. \A s \in Parts(S, 0) : Any(s)
      BY <1>e, <2>1
    <2> QED
      BY <2>2
  <1>2. ASSUME NEW n \in Good PROVE n + 1 \in Good
    <2>0. ASSUME NEW s \in Parts(S, n + 1), NEW x \in s
          PROVE  s \ {x} \in Parts(S, n) /\ s \in SUBSET S
      BY Smaller DEF Parts
    <2> SUFFICES ASSUME NEW s \in Parts(S, n + 1) PROVE Any(s)
      OBVIOUS
    <2>1. CASE s = {}
      BY <1>e, <2>1
    <2>2. CASE s # {}
      <3>1. PICK y \in s : y = First(s) /\ g[s] = f[y] + g[s \ {y}]
        BY <2>2, SumTakes DEF Parts
      <3>2. Any(s \ {y})
        BY <2>0
      <3>3. f[y] \in Int
        BY DEF Parts
      <3>4. g[s] \in Int
        BY <3>1, <3>2, <3>3
      <3>5. ASSUME NEW x \in s PROVE g[s] = f[x] + g[s \ {x}]
        <4>1. CASE x = y
          BY <3>1, <4>1
        <4>2. CASE x # y
          <5>1. Any(s \ {x}) /\ f[x] \in Int
            BY <2>0 DEF Parts
          <5>2. x \in s \ {y} /\ y \in s \ {x} /\ (s \ {y}) \ {x} = (s \ {x}) \ {y}
            BY <4>2
          <5>3. PICK both : both = (s \ {x}) \ {y}
            OBVIOUS
          <5>4. g[s \ {y}] = f[x] + g[both]
            BY <3>2, <5>2, <5>3
          <5>5. g[s \ {x}] = f[y] + g[both]
            BY <5>1, <5>2, <5>3
          <5>6. g[both] \in Int
            <6>1. both \in Parts(S, n)
              <7>1. s \ {x} \in Parts(S, n) /\ s \ {x} \in SUBSET S
                BY <2>0
              <7>2. Cardinality(s \ {x}) = Cardinality(both) + 1 /\ Cardinality(both) \in Nat
                BY <5>2, <5>3, <7>1, Smaller
              <7> QED
                BY <5>3, <7>1, <7>2 DEF Parts
            <6> QED
              BY <6>1
          <5> QED
            BY <3>1, <3>3, <5>1, <5>4, <5>5, <5>6
        <4> QED
          BY <4>1, <4>2
      <3> QED
        BY <3>4, <3>5
    <2> QED
      BY <2>1, <2>2
  <1>3. Good = Nat
    <2> HIDE DEF Any
    <2> QED
      BY <1>1, <1>2, Induction
  <1>4. \A s \in SUBSET S : s \in Parts(S, Cardinality(s)) /\ Cardinality(s) \in Good
    BY <1>0, <1>3 DEF Parts
  <1> QED
    BY <1>4

\* Two functions have the same values on a set.
Same(f, e, S) == \A x \in S : f[x] = e[x]

\* Sums of the same values are the same, within whatever set they are taken.
LEMMA SumsAgree ==
    \A f, S, g, e, T, h :
        /\ IsFiniteSet(S) /\ Takes(g, f, SUBSET S)
        /\ IsFiniteSet(T) /\ Takes(h, e, SUBSET T)
        /\ S \subseteq T /\ Same(f, e, S)
        => g[S] = h[S]
  <1> SUFFICES ASSUME NEW f, NEW S, NEW g, NEW e, NEW T, NEW h,
                      IsFiniteSet(S), Takes(g, f, SUBSET S),
                      IsFiniteSet(T), Takes(h, e, SUBSET T),
                      S \subseteq T, Same(f, e, S)
               PROVE  g[S] = h[S]
    OBVIOUS
  <1> DEFINE Good == {n \in Nat : \A s \in Parts(S, n) : g[s] = h[s]}
  <1>0. \A s \in SUBSET S : IsFiniteSet(s) /\ Cardinality(s) \in Nat
    BY FS_Subset, FS_CardinalityType
  <1>e. g[{}] = 0 /\ h[{}] = 0
    BY SumTakes
  <1>s. \A s \in SUBSET S : s # {} => First(s) \in s /\ g[s] = f[First(s)] + g[s \ {First(s)}]
    BY SumTakes
  <1>t. \A s \in SUBSET T : s # {} => h[s] = e[First(s)] + h[s \ {First(s)}]
    BY SumTakes
  <1>1. 0 \in Good
    <2>1. \A s \in Parts(S, 0) : s = {}
      BY <1>0, FS_EmptySet DEF Parts
    <2> QED
      BY <1>e, <2>1
  <1>2. ASSUME NEW n \in Good PROVE n + 1 \in Good
    <2> SUFFICES ASSUME NEW s \in Parts(S, n + 1) PROVE g[s] = h[s]
      OBVIOUS
    <2>0. s \in SUBSET S /\ s \in SUBSET T
      BY DEF Parts
    <2>1. CASE s = {}
      BY <1>e, <2>1
    <2>2. CASE s # {}
      <3>1. PICK x : x = First(s)
        OBVIOUS
      <3>2. PICK t : t = s \ {x}
        OBVIOUS
      <3>3. x \in s /\ g[s] = f[x] + g[t]
        <4>1. First(s) \in s /\ g[s] = f[First(s)] + g[s \ {First(s)}]
          BY <1>s, <2>0, <2>2
        <4> QED
          BY <3>1, <3>2, <4>1
      <3>4. h[s] = e[x] + h[t]
        <4>1. h[s] = e[First(s)] + h[s \ {First(s)}]
          BY <1>t, <2>0, <2>2
        <4> QED
          BY <3>1, <3>2, <4>1
      <3>5. t \in Parts(S, n)
        BY <2>0, <3>2, <3>3, Smaller DEF Parts
      <3> QED
        BY <2>0, <3>3, <3>4, <3>5 DEF Same
    <2> QED
      BY <2>1, <2>2
  <1>3. Good = Nat
    BY <1>1, <1>2, Induction
  <1>4. S \in Parts(S, Cardinality(S)) /\ Cardinality(S) \in Good
    BY <1>0, <1>3 DEF Parts
  <1> QED
    BY <1>4

\* The sum of the first n values.
Upto(f, n) == SumFunctionOnSet(f, 1..n)

\* An interval of numbers is finite.
LEMMA FirstNumbers ==
    ASSUME NEW n \in Nat
    PROVE  IsFiniteSet(1..n)
  BY FS_Interval

\* It takes one value more each time.
LEMMA SumUpto ==
    ASSUME NEW f, NEW n \in Nat, \A i \in 1..(n + 1) : f[i] \in Int
    PROVE  /\ Upto(f, n) \in Int
           /\ Upto(f, n + 1) = Upto(f, n) + f[n + 1]
  <1>0. PICK S, T : S = 1..n /\ T = 1..(n + 1)
    OBVIOUS
  <1>1. IsFiniteSet(S) /\ IsFiniteSet(T) /\ S \subseteq T /\ n + 1 \in T /\ T \ {n + 1} = S
    BY <1>0, FirstNumbers
  <1>2. PICK g : g = CHOOSE x : Takes(x, f, SUBSET S)
    OBVIOUS
  <1>3. PICK h : h = CHOOSE x : Takes(x, f, SUBSET T)
    OBVIOUS
  <1>4. Takes(g, f, SUBSET S) /\ Takes(h, f, SUBSET T)
    BY <1>1, <1>2, <1>3, SumExists
  <1>5. Upto(f, n) = g[S] /\ Upto(f, n + 1) = h[T]
    BY <1>0, <1>2, <1>3, SumIs DEF Upto
  <1>6. g[S] = h[S]
    <2>1. PICK e : e = f
      OBVIOUS
    <2>2. /\ IsFiniteSet(S) /\ IsFiniteSet(T) /\ S \subseteq T
          /\ Takes(g, f, SUBSET S) /\ Takes(h, e, SUBSET T)
          /\ Same(f, e, S)
      BY <1>1, <1>4, <2>1 DEF Same
    <2> QED
      BY <2>2, SumsAgree
  <1>7. \A i \in T : f[i] \in Int
    BY <1>0
  <1>8. \A s \in SUBSET T : h[s] \in Int /\ \A x \in s : h[s] = f[x] + h[s \ {x}]
    BY <1>1, <1>4, <1>7, SumOfAny
  <1>9. h[S] \in Int /\ h[T] = f[n + 1] + h[T \ {n + 1}] /\ f[n + 1] \in Int
    BY <1>1, <1>7, <1>8
  <1> QED
    BY <1>1, <1>5, <1>6, <1>9

\* The sum of no values.
LEMMA SumOfNothing ==
    ASSUME NEW f
    PROVE  Upto(f, 0) = 0
  <1>1. IsFiniteSet({}) /\ 1..0 = {}
    BY FS_EmptySet
  <1>2. PICK g : g = CHOOSE x : Takes(x, f, SUBSET {})
    OBVIOUS
  <1>3. Takes(g, f, SUBSET {})
    BY <1>1, <1>2, SumExists
  <1>4. g[{}] = 0
    BY <1>1, <1>3, SumTakes
  <1> QED
    BY <1>1, <1>2, <1>4, SumIs DEF Upto

---------------------------------------------------------------------------
(* The error of a window *)

\* How far a score is below the target.
Short(score) == IF score < Target THEN Target - score ELSE 0

\* Two ways of writing the same values have the same sums.
LEMMA SumsOfTheSame ==
    ASSUME NEW f, NEW e, NEW last \in Nat, \A i \in 1..last : f[i] \in Int /\ f[i] = e[i]
    PROVE  \A n \in 0..last : Upto(f, n) = Upto(e, n) /\ Upto(f, n) \in Int
  <1> DEFINE Good == {n \in Nat : n <= last => Upto(f, n) = Upto(e, n) /\ Upto(f, n) \in Int}
  <1>1. 0 \in Good
    BY SumOfNothing
  <1>2. ASSUME NEW n \in Good PROVE n + 1 \in Good
    <2> SUFFICES ASSUME n + 1 <= last
                 PROVE  Upto(f, n + 1) = Upto(e, n + 1) /\ Upto(f, n + 1) \in Int
      OBVIOUS
    <2>1. \A i \in 1..(n + 1) : f[i] \in Int /\ e[i] \in Int /\ f[i] = e[i]
      OBVIOUS
    <2>2. Upto(f, n + 1) = Upto(f, n) + f[n + 1] /\ Upto(e, n + 1) = Upto(e, n) + e[n + 1]
      BY <2>1, SumUpto
    <2> QED
      BY <2>1, <2>2
  <1>3. Good = Nat
    <2> HIDE DEF Good
    <2>1. Good \in SUBSET Nat
      BY DEF Good
    <2> QED
      BY <1>1, <1>2, <2>1, Induction
  <1> QED
    BY <1>3

\* A value before all others is added to every sum.
LEMMA SumsShift ==
    ASSUME NEW f, NEW e, NEW d \in Int, NEW last \in Nat, e[1] = d,
           \A i \in 1..last : f[i] \in Int /\ e[i + 1] = f[i]
    PROVE  \A n \in 0..last : Upto(e, n + 1) = d + Upto(f, n) /\ Upto(f, n) \in Int
  <1> DEFINE Good == {n \in Nat : n <= last => /\ Upto(e, n + 1) = d + Upto(f, n)
                                               /\ Upto(f, n) \in Int}
  <1>0. \A i \in 1..(last + 1) : e[i] \in Int
    <2> SUFFICES ASSUME NEW i \in 1..(last + 1) PROVE e[i] \in Int
      OBVIOUS
    <2>1. CASE i = 1
      BY <2>1
    <2>2. CASE i # 1
      <3>1. PICK j \in 1..last : i = j + 1
        <4>1. i - 1 \in 1..last /\ i = (i - 1) + 1
          BY <2>2
        <4> QED
          BY <4>1
      <3> QED
        BY <3>1
    <2> QED
      BY <2>1, <2>2
  <1>1. 0 \in Good
    <2>1. Upto(f, 0) = 0 /\ Upto(e, 0) = 0
      BY SumOfNothing
    <2>2. \A i \in 1..(0 + 1) : e[i] \in Int
      BY <1>0
    <2>3. Upto(e, 0 + 1) = Upto(e, 0) + e[0 + 1]
      BY <2>2, SumUpto
    <2> QED
      BY <2>1, <2>3
  <1>2. ASSUME NEW n \in Good PROVE n + 1 \in Good
    <2> SUFFICES ASSUME n + 1 <= last
                 PROVE  /\ Upto(e, (n + 1) + 1) = d + Upto(f, n + 1)
                        /\ Upto(f, n + 1) \in Int
      OBVIOUS
    <2>1. n \in Nat /\ n + 1 \in Nat /\ n + 1 \in 1..last
      OBVIOUS
    <2>2. \A i \in 1..((n + 1) + 1) : e[i] \in Int
      BY <1>0, <2>1
    <2>3. \A i \in 1..(n + 1) : f[i] \in Int
      BY <2>1
    <2>4. Upto(e, (n + 1) + 1) = Upto(e, n + 1) + e[(n + 1) + 1]
      BY <2>1, <2>2, SumUpto
    <2>5. Upto(f, n + 1) = Upto(f, n) + f[n + 1] /\ Upto(f, n) \in Int
      BY <2>1, <2>3, SumUpto
    <2>6. f[n + 1] \in Int /\ e[(n + 1) + 1] = f[n + 1]
      BY <2>1
    <2> QED
      BY <2>1, <2>4, <2>5, <2>6
  <1>3. Good = Nat
    <2> HIDE DEF Good
    <2>1. Good \in SUBSET Nat
      BY DEF Good
    <2> QED
      BY <1>1, <1>2, <2>1, Induction
  <1> QED
    BY <1>3

\* A sum is on the same side of a multiple of its length as all its values.
LEMMA SumsBounded ==
    ASSUME NEW f, NEW last \in Nat, NEW a \in {1, 2}, NEW b \in {5, 9, 10, 25},
           \A i \in 1..last : f[i] \in Int
    PROVE  /\ (\A i \in 1..last : a * f[i] >= b)
                  => \A n \in 0..last : a * Upto(f, n) >= b * n
           /\ (\A i \in 1..last : a * f[i] > b)
                  => \A n \in 1..last : a * Upto(f, n) > b * n
           /\ (\A i \in 1..last : a * f[i] <= b)
                  => \A n \in 0..last : a * Upto(f, n) <= b * n
           /\ (\A i \in 1..last : a * f[i] < b)
                  => \A n \in 1..last : a * Upto(f, n) < b * n
  <1>0. Upto(f, 0) = 0
    BY SumOfNothing
  <1>1. ASSUME NEW n \in 0..(last - 1)
        PROVE  /\ n \in Nat /\ n + 1 \in 1..last
               /\ Upto(f, n) \in Int /\ f[n + 1] \in Int
               /\ Upto(f, n + 1) = Upto(f, n) + f[n + 1]
               /\ a * Upto(f, n + 1) = a * Upto(f, n) + a * f[n + 1]
               /\ b * (n + 1) = b * n + b
               /\ a * Upto(f, n) \in Int /\ a * f[n + 1] \in Int /\ b * n \in Int
    <2>1. n \in Nat /\ n + 1 \in 1..last /\ \A i \in 1..(n + 1) : f[i] \in Int
      OBVIOUS
    <2>2. Upto(f, n) \in Int /\ f[n + 1] \in Int
          /\ Upto(f, n + 1) = Upto(f, n) + f[n + 1]
      BY <2>1, SumUpto
    <2> QED
      BY <2>1, <2>2
  <1>2. ASSUME \A i \in 1..last : a * f[i] >= b
        PROVE  \A n \in 0..last : a * Upto(f, n) >= b * n
    <2> DEFINE Good == {n \in Nat : n <= last => a * Upto(f, n) >= b * n}
    <2>1. 0 \in Good
      BY <1>0
    <2>2. ASSUME NEW n \in Good PROVE n + 1 \in Good
      BY <1>1, <1>2
    <2>3. Good \in SUBSET Nat
      OBVIOUS
    <2> HIDE DEF Good
    <2>4. Good = Nat
      BY <2>1, <2>2, <2>3, Induction
    <2> QED
      BY <2>4 DEF Good
  <1>3. ASSUME \A i \in 1..last : a * f[i] <= b
        PROVE  \A n \in 0..last : a * Upto(f, n) <= b * n
    <2> DEFINE Good == {n \in Nat : n <= last => a * Upto(f, n) <= b * n}
    <2>1. 0 \in Good
      BY <1>0
    <2>2. ASSUME NEW n \in Good PROVE n + 1 \in Good
      BY <1>1, <1>3
    <2>3. Good \in SUBSET Nat
      OBVIOUS
    <2> HIDE DEF Good
    <2>4. Good = Nat
      BY <2>1, <2>2, <2>3, Induction
    <2> QED
      BY <2>4 DEF Good
  <1>4. ASSUME \A i \in 1..last : a * f[i] > b, NEW n \in 1..last
        PROVE  a * Upto(f, n) > b * n
    <2>1. \A m \in 0..last : a * Upto(f, m) >= b * m
      BY <1>2, <1>4
    <2>2. n - 1 \in 0..(last - 1) /\ n - 1 \in 0..last /\ (n - 1) + 1 = n
      OBVIOUS
    <2>3. a * Upto(f, n - 1) >= b * (n - 1) /\ a * f[n] > b
      BY <1>4, <2>1, <2>2
    <2> QED
      BY <1>1, <2>2, <2>3
  <1>5. ASSUME \A i \in 1..last : a * f[i] < b, NEW n \in 1..last
        PROVE  a * Upto(f, n) < b * n
    <2>1. \A m \in 0..last : a * Upto(f, m) <= b * m
      BY <1>3, <1>5
    <2>2. n - 1 \in 0..(last - 1) /\ n - 1 \in 0..last /\ (n - 1) + 1 = n
      OBVIOUS
    <2>3. a * Upto(f, n - 1) <= b * (n - 1) /\ a * f[n] < b
      BY <1>5, <2>1, <2>2
    <2> QED
      BY <1>1, <2>2, <2>3
  <1> QED
    BY <1>2, <1>3, <1>4, <1>5

-----------------------------------------------------------------------------
(* The window of reports, its budget and its burn rate, and the level *)

\* The two errors of a window are sums over the same deficits.
LEMMA ErrorsAre ==
    ASSUME NEW w \in Seq(Int)
    PROVE  /\ \A i \in 1..Len(w) : Deficit(w)[i] = Short(w[i]) /\ Deficit(w)[i] \in Int
           /\ Error(w) = Upto(Deficit(w), Len(w))
           /\ ShortLen(w) \in 0..Len(w)
           /\ Error(Recent(w)) = Upto(Deficit(w), ShortLen(w))
  <1> DEFINE k == ShortLen(w)
             r == Recent(w)
  <1>1. ASSUME NEW v \in Seq(Int)
        PROVE  /\ Error(v) = Upto(Deficit(v), Len(v))
               /\ \A i \in 1..Len(v) : /\ Deficit(v)[i] = Short(v[i])
                                       /\ Deficit(v)[i] \in Int
    <2>1. DOMAIN v = 1..Len(v) /\ DOMAIN Deficit(v) = 1..Len(v)
      BY DEF Deficit
    <2>2. ASSUME NEW i \in 1..Len(v)
          PROVE  Deficit(v)[i] = Short(v[i]) /\ Deficit(v)[i] \in Int
      <3>1. v[i] \in Int
        OBVIOUS
      <3> QED
        BY <2>1, <3>1 DEF Deficit, Short, Target
    <2>3. Error(v) = SumFunctionOnSet(Deficit(v), 1..Len(v))
      BY <2>1 DEF Error, SumFunction
    <2> QED
      BY <2>2, <2>3 DEF Upto
  <1>2. Len(w) \in Nat /\ ShortWindow \in Nat
    BY WindowAssumption
  <1>3. k \in 0..Len(w)
    BY <1>2 DEF ShortLen
  <1>4. r \in Seq(Int) /\ Len(r) = k /\ \A i \in 1..k : r[i] = w[i]
    BY <1>2, <1>3, SubSeqProperties DEF Recent
  <1>5. \A i \in 1..k : Deficit(r)[i] \in Int /\ Deficit(r)[i] = Deficit(w)[i]
    BY <1>1, <1>3, <1>4
  <1>6. Upto(Deficit(r), k) = Upto(Deficit(w), k)
    <2>1. PICK f, e, last : f = Deficit(r) /\ e = Deficit(w) /\ last = k
      OBVIOUS
    <2>2. last \in Nat /\ last \in 0..last /\ \A i \in 1..last : f[i] \in Int /\ f[i] = e[i]
      BY <1>2, <1>3, <1>5, <2>1
    <2>3. Upto(f, last) = Upto(e, last)
      BY <2>2, SumsOfTheSame
    <2> QED
      BY <2>1, <2>3
  <1> QED
    BY <1>1, <1>3, <1>4, <1>6

\* What a report does to a window: it comes first, and the last report leaves a
\* window that was full.
LEMMA RecordedWindow ==
    ASSUME NEW w \in Seq(Int), NEW s \in Int, Len(w) <= Window
    PROVE  LET v == Recorded(w, s)
           IN  /\ v \in Seq(Int) /\ v # << >>
               /\ Len(v) = IF Len(w) < Window THEN Len(w) + 1 ELSE Window
               /\ v[1] = s
               /\ \A i \in 1..(Len(v) - 1) : i \in 1..Len(w) /\ v[i + 1] = w[i]
  <1> DEFINE all == << s >> \o w
             n == IF Len(all) <= Window THEN Len(all) ELSE Window
  <1>1. /\ all \in Seq(Int) /\ Len(all) = Len(w) + 1 /\ all[1] = s
        /\ \A i \in 1..Len(w) : all[i + 1] = w[i]
    OBVIOUS
  <1>2. n \in 1..Len(all) /\ n \in Nat /\ Window \in Nat \ {0}
    BY <1>1, WindowAssumption
  <1>3. /\ Recorded(w, s) = SubSeq(all, 1, n)
        /\ n = IF Len(w) < Window THEN Len(w) + 1 ELSE Window
    BY <1>1, <1>2 DEF Recorded
  <1> HIDE DEF all, n
  <1>4. PICK v : v = SubSeq(all, 1, n)
    OBVIOUS
  <1>5. v \in Seq(Int) /\ Len(v) = n /\ \A i \in 1..n : v[i] = all[i]
    BY <1>1, <1>2, <1>4, SubSeqProperties
  <1>6. v[1] = s /\ v # << >>
    BY <1>1, <1>2, <1>5
  <1>7. \A i \in 1..(n - 1) : i \in 1..Len(w) /\ v[i + 1] = w[i]
    BY <1>1, <1>2, <1>5
  <1> QED
    BY <1>3, <1>4, <1>5, <1>6, <1>7

\* A sum of n values is followed by one with d before them, of one value more
\* or with the last value left out.
Follows(f, d, n, sum, m) ==
    \/ m = n + 1 /\ sum = d + Upto(f, n)
    \/ n > 0 /\ m = n /\ sum = d + Upto(f, n - 1)

\* Both errors of a window are followed by those of the next.
LEMMA ErrorsFollow ==
    ASSUME NEW w \in Seq(Int), NEW s \in Int, Len(w) <= Window,
           NEW v, v = Recorded(w, s)
    PROVE  /\ Follows(Deficit(w), Short(s), Len(w), Error(v), Len(v))
           /\ Follows(Deficit(w), Short(s), ShortLen(w), Error(Recent(v)), ShortLen(v))
  <1>1. PICK f, e, d : f = Deficit(w) /\ e = Deficit(v) /\ d = Short(s)
    OBVIOUS
  <1>2. /\ v \in Seq(Int) /\ v # << >> /\ v[1] = s
        /\ Len(v) = IF Len(w) < Window THEN Len(w) + 1 ELSE Window
        /\ \A i \in 1..(Len(v) - 1) : i \in 1..Len(w) /\ v[i + 1] = w[i]
    BY RecordedWindow
  <1>3. /\ Len(w) \in Nat /\ Len(v) \in Nat \ {0}
        /\ Window \in Nat \ {0} /\ ShortWindow \in 1..Window
    BY <1>2, WindowAssumption
  <1>4. PICK last : last = Len(v) - 1
    OBVIOUS
  <1>5. last \in Nat /\ last <= Len(w) /\ d \in Int
    BY <1>1, <1>2, <1>3, <1>4 DEF Short, Target
  <1>6. e[1] = d
    <2>1. 1 \in 1..Len(v)
      BY <1>3
    <2>2. Deficit(v)[1] = Short(v[1])
      BY <1>2, <2>1, ErrorsAre
    <2> QED
      BY <1>1, <1>2, <2>2
  <1>7. \A i \in 1..last : f[i] \in Int /\ e[i + 1] = f[i]
    <2> SUFFICES ASSUME NEW i \in 1..last PROVE f[i] \in Int /\ e[i + 1] = f[i]
      OBVIOUS
    <2>1. i \in 1..Len(w) /\ v[i + 1] = w[i] /\ i + 1 \in 1..Len(v)
      BY <1>2, <1>3, <1>4
    <2>2. f[i] = Short(w[i]) /\ f[i] \in Int
      BY <1>1, <2>1, ErrorsAre
    <2>3. e[i + 1] = Short(v[i + 1])
      BY <1>1, <1>2, <2>1, ErrorsAre
    <2> QED
      BY <2>1, <2>2, <2>3
  <1>8. \A n \in 0..last : Upto(e, n + 1) = d + Upto(f, n)
    BY <1>5, <1>6, <1>7, SumsShift
  <1>9. Error(v) = Upto(e, Len(v)) /\ Error(Recent(v)) = Upto(e, ShortLen(v))
    BY <1>1, <1>2, ErrorsAre
  <1>10. ASSUME NEW n \in Nat, NEW m \in 1..Len(v),
                m = n + 1 \/ (n > 0 /\ m = n)
         PROVE  Follows(f, d, n, Upto(e, m), m)
    <2>1. m - 1 \in 0..last /\ (m - 1) + 1 = m
      BY <1>3, <1>4
    <2>2. Upto(e, m) = d + Upto(f, m - 1)
      BY <1>8, <2>1
    <2>3. CASE m = n + 1
      <3>1. m - 1 = n
        BY <2>3
      <3> QED
        BY <2>2, <2>3, <3>1 DEF Follows
    <2>4. CASE n > 0 /\ m = n
      BY <2>2, <2>4 DEF Follows
    <2> QED
      BY <1>10, <2>3, <2>4
  <1>11. Len(v) \in 1..Len(v) /\ (Len(v) = Len(w) + 1 \/ (Len(w) > 0 /\ Len(v) = Len(w)))
    BY <1>2, <1>3
  <1>12. /\ ShortLen(w) \in Nat /\ ShortLen(v) \in 1..Len(v)
         /\ ShortLen(v) = ShortLen(w) + 1 \/ (ShortLen(w) > 0 /\ ShortLen(v) = ShortLen(w))
    BY <1>2, <1>3 DEF ShortLen
  <1>13. Follows(f, d, Len(w), Error(v), Len(v))
    BY <1>3, <1>9, <1>10, <1>11
  <1>14. Follows(f, d, ShortLen(w), Error(Recent(v)), ShortLen(v))
    BY <1>9, <1>10, <1>12
  <1> QED
    BY <1>1, <1>13, <1>14

\* A value that is no greater than the others takes no average over a bound.
LEMMA LessIsNotOver ==
    ASSUME NEW f, NEW d \in Int, NEW n \in Nat \ {0}, NEW sum, NEW m,
           Follows(f, d, n, sum, m), \A i \in 1..n : f[i] \in Int /\ d <= f[i],
           NEW a \in {1, 2}, NEW b \in {5, 9, 10, 25}
    PROVE  /\ a * sum >= b * m => a * Upto(f, n) >= b * n
           /\ a * sum > b * m => a * Upto(f, n) > b * n
  <1>1. n - 1 \in Nat /\ (n - 1) + 1 = n /\ n \in 1..n /\ \A i \in 1..n : f[i] \in Int
    OBVIOUS
  <1>2. Upto(f, n - 1) \in Int /\ Upto(f, n) = Upto(f, n - 1) + f[n] /\ f[n] \in Int
    BY <1>1, SumUpto
  <1>3. CASE n > 0 /\ m = n /\ sum = d + Upto(f, n - 1)
    <2>1. sum \in Int /\ sum <= Upto(f, n) /\ Upto(f, n) \in Int
      BY <1>1, <1>2, <1>3
    <2>2. a * sum <= a * Upto(f, n) /\ a * sum \in Int /\ a * Upto(f, n) \in Int
      BY <2>1
    <2> QED
      BY <1>3, <2>2
  <1>4. CASE m = n + 1 /\ sum = d + Upto(f, n)
    <2>1. /\ Upto(f, n) \in Int /\ a * sum = a * d + a * Upto(f, n)
          /\ b * m = b * n + b
      BY <1>2, <1>4
    <2>2. (\A i \in 1..n : a * d <= a * f[i] /\ a * f[i] \in Int) /\ a * d \in Int
      OBVIOUS
    <2>3. CASE a * d > b
      <3>1. \A i \in 1..n : a * f[i] > b
        BY <2>2, <2>3
      <3>2. a * Upto(f, n) > b * n
        BY <1>1, <3>1, SumsBounded
      <3> QED
        BY <2>1, <3>2
    <2>4. CASE a * d <= b
      BY <2>1, <2>2, <2>4
    <2> QED
      BY <2>2, <2>3, <2>4
  <1> QED
    BY <1>3, <1>4 DEF Follows

\* One that is no less than the others takes none back under it.
LEMMA MoreIsNotUnder ==
    ASSUME NEW f, NEW d \in Int, NEW n \in Nat \ {0}, NEW sum, NEW m,
           Follows(f, d, n, sum, m), \A i \in 1..n : f[i] \in Int /\ f[i] <= d,
           NEW a \in {1, 2}, NEW b \in {5, 9, 10, 25}
    PROVE  /\ a * Upto(f, n) >= b * n => a * sum >= b * m
           /\ a * Upto(f, n) > b * n => a * sum > b * m
  <1>1. n - 1 \in Nat /\ (n - 1) + 1 = n /\ n \in 1..n /\ \A i \in 1..n : f[i] \in Int
    OBVIOUS
  <1>2. Upto(f, n - 1) \in Int /\ Upto(f, n) = Upto(f, n - 1) + f[n] /\ f[n] \in Int
    BY <1>1, SumUpto
  <1>3. CASE n > 0 /\ m = n /\ sum = d + Upto(f, n - 1)
    <2>1. sum \in Int /\ sum >= Upto(f, n) /\ Upto(f, n) \in Int
      BY <1>1, <1>2, <1>3
    <2>2. a * sum >= a * Upto(f, n) /\ a * sum \in Int /\ a * Upto(f, n) \in Int
      BY <2>1
    <2> QED
      BY <1>3, <2>2
  <1>4. CASE m = n + 1 /\ sum = d + Upto(f, n)
    <2>1. /\ Upto(f, n) \in Int /\ a * sum = a * d + a * Upto(f, n)
          /\ b * m = b * n + b
      BY <1>2, <1>4
    <2>2. (\A i \in 1..n : a * d >= a * f[i] /\ a * f[i] \in Int) /\ a * d \in Int
      OBVIOUS
    <2>3. CASE a * d < b
      <3>1. \A i \in 1..n : a * f[i] < b
        BY <2>2, <2>3
      <3>2. a * Upto(f, n) < b * n
        BY <1>1, <3>1, SumsBounded
      <3>3. ~(a * Upto(f, n) >= b * n) /\ ~(a * Upto(f, n) > b * n)
        BY <1>1, <2>1, <3>2
      <3> QED
        BY <3>3
    <2>4. CASE a * d >= b
      BY <2>1, <2>2, <2>4
    <2> QED
      BY <2>2, <2>3, <2>4
  <1> QED
    BY <1>3, <1>4 DEF Follows

\* The measures of a window that the levels go by, over a bound or not.
Exceeds(w, bound) ==
    \/ bound = "B10" /\ BudgetBelow10(w)
    \/ bound = "B50" /\ BudgetBelow50(w)
    \/ bound = "R5" /\ Burns(w, 5)
    \/ bound = "R2" /\ Burns(w, 2)

Bounds == {"B10", "B50", "R5", "R2"}

\* What the budget and the burn rate say of a window, over its deficits.
LEMMA Measures ==
    ASSUME NEW w \in Seq(Int), w # << >>,
           NEW f, f = Deficit(w), NEW n, n = Len(w), NEW k, k = ShortLen(w)
    PROVE  /\ n \in Nat \ {0} /\ k \in 1..n
           /\ \A i \in 1..n : f[i] \in Int /\ f[i] = Short(w[i])
           /\ Error(w) = Upto(f, n) /\ Error(Recent(w)) = Upto(f, k)
           /\ Upto(f, n) \in Int /\ Upto(f, k) \in Int
  <1>1. /\ \A i \in 1..n : f[i] \in Int /\ f[i] = Short(w[i])
        /\ Error(w) = Upto(f, n) /\ Error(Recent(w)) = Upto(f, k)
    BY ErrorsAre
  <1>2. n \in Nat \ {0} /\ k \in 1..n
    BY WindowAssumption DEF ShortLen
  <1>3. ASSUME NEW last \in 1..n PROVE Upto(f, last) \in Int
    <2>1. PICK before \in Nat : before + 1 = last
      <3>1. last - 1 \in Nat /\ (last - 1) + 1 = last
        BY <1>2
      <3> QED
        BY <3>1
    <2>2. \A i \in 1..(before + 1) : f[i] \in Int
      BY <1>1, <1>2, <2>1
    <2>3. Upto(f, before) \in Int /\ Upto(f, before + 1) = Upto(f, before) + f[before + 1]
      BY <2>2, SumUpto
    <2>4. before + 1 \in 1..(before + 1)
      BY <2>1
    <2> QED
      BY <2>1, <2>2, <2>3, <2>4
  <1>4. Upto(f, n) \in Int /\ Upto(f, k) \in Int
    BY <1>2, <1>3
  <1> QED
    BY <1>1, <1>2, <1>4

\* A report no worse than those of a window takes no measure over its bound,
\* and one no better takes none back.
LEMMA MeasuresFollow ==
    ASSUME NEW w \in Seq(Int), w # << >>, NEW s \in Int, Len(w) <= Window,
           NEW v, v = Recorded(w, s), NEW b \in Bounds
    PROVE  /\ (\A i \in DOMAIN w : s >= w[i]) => (Exceeds(v, b) => Exceeds(w, b))
           /\ (\A i \in DOMAIN w : s <= w[i]) => (Exceeds(w, b) => Exceeds(v, b))
  <1>1. PICK f, n, k : f = Deficit(w) /\ n = Len(w) /\ k = ShortLen(w)
    OBVIOUS
  <1>2. PICK sum, m, recent, j : /\ sum = Error(v) /\ m = Len(v)
                                 /\ recent = Error(Recent(v)) /\ j = ShortLen(v)
    OBVIOUS
  <1>3. PICK d : d = Short(s)
    OBVIOUS
  <1>4. v \in Seq(Int) /\ v # << >>
    BY RecordedWindow
  <1>5. /\ n \in Nat \ {0} /\ k \in 1..n /\ k \in Nat \ {0}
        /\ \A i \in 1..n : f[i] \in Int /\ f[i] = Short(w[i])
        /\ Error(w) = Upto(f, n) /\ Error(Recent(w)) = Upto(f, k)
        /\ Upto(f, n) \in Int /\ Upto(f, k) \in Int
    BY <1>1, Measures
  <1>6. /\ m \in Nat \ {0} /\ j \in 1..m /\ sum \in Int /\ recent \in Int
    BY <1>2, <1>4, Measures
  <1>7. Follows(f, d, n, sum, m) /\ Follows(f, d, k, recent, j)
    BY <1>1, <1>2, <1>3, ErrorsFollow
  <1>8. /\ d \in Int /\ DOMAIN w = 1..n
        /\ \A i \in 1..n : w[i] \in Int
    BY <1>1, <1>3 DEF Short, Target
  <1>9. /\ BudgetBelow10(w) <=> 2 * Upto(f, n) >= 9 * n
        /\ BudgetBelow50(w) <=> 2 * Upto(f, n) > 5 * n
        /\ Burns(w, 5) <=> 1 * Upto(f, k) >= 25 * k
        /\ Burns(w, 2) <=> 1 * Upto(f, k) >= 10 * k
    BY <1>1, <1>5 DEF BudgetBelow10, BudgetBelow50, Burns
  <1>10. /\ BudgetBelow10(v) <=> 2 * sum >= 9 * m
         /\ BudgetBelow50(v) <=> 2 * sum > 5 * m
         /\ Burns(v, 5) <=> 1 * recent >= 25 * j
         /\ Burns(v, 2) <=> 1 * recent >= 10 * j
    BY <1>2, <1>4, <1>6 DEF BudgetBelow10, BudgetBelow50, Burns
  <1>11. ASSUME \A i \in DOMAIN w : s >= w[i], Exceeds(v, b) PROVE Exceeds(w, b)
    <2>1. /\ \A i \in 1..n : f[i] \in Int /\ d <= f[i]
          /\ \A i \in 1..k : f[i] \in Int /\ d <= f[i]
      <3>1. ASSUME NEW i \in 1..n PROVE f[i] \in Int /\ d <= f[i]
        <4>1. w[i] \in Int /\ s >= w[i] /\ f[i] = Short(w[i]) /\ f[i] \in Int
          BY <1>5, <1>8, <1>11
        <4> QED
          BY <1>3, <4>1 DEF Short, Target
      <3>2. 1..k \subseteq 1..n
        BY <1>5
      <3> QED
        BY <3>1, <3>2
    <2>2. /\ 2 * sum >= 9 * m => 2 * Upto(f, n) >= 9 * n
          /\ 2 * sum > 5 * m => 2 * Upto(f, n) > 5 * n
      BY <1>5, <1>7, <1>8, <2>1, LessIsNotOver
    <2>3. /\ 1 * recent >= 25 * j => 1 * Upto(f, k) >= 25 * k
          /\ 1 * recent >= 10 * j => 1 * Upto(f, k) >= 10 * k
      BY <1>5, <1>7, <1>8, <2>1, LessIsNotOver
    <2> QED
      BY <1>9, <1>10, <1>11, <2>2, <2>3 DEF Exceeds
  <1>12. ASSUME \A i \in DOMAIN w : s <= w[i], Exceeds(w, b) PROVE Exceeds(v, b)
    <2>1. /\ \A i \in 1..n : f[i] \in Int /\ f[i] <= d
          /\ \A i \in 1..k : f[i] \in Int /\ f[i] <= d
      <3>1. ASSUME NEW i \in 1..n PROVE f[i] \in Int /\ f[i] <= d
        <4>1. w[i] \in Int /\ s <= w[i] /\ f[i] = Short(w[i]) /\ f[i] \in Int
          BY <1>5, <1>8, <1>12
        <4> QED
          BY <1>3, <4>1 DEF Short, Target
      <3>2. 1..k \subseteq 1..n
        BY <1>5
      <3> QED
        BY <3>1, <3>2
    <2>2. /\ 2 * Upto(f, n) >= 9 * n => 2 * sum >= 9 * m
          /\ 2 * Upto(f, n) > 5 * n => 2 * sum > 5 * m
      BY <1>5, <1>7, <1>8, <2>1, MoreIsNotUnder
    <2>3. /\ 1 * Upto(f, k) >= 25 * k => 1 * recent >= 25 * j
          /\ 1 * Upto(f, k) >= 10 * k => 1 * recent >= 10 * j
      BY <1>5, <1>7, <1>8, <2>1, MoreIsNotUnder
    <2> QED
      BY <1>9, <1>10, <1>12, <2>2, <2>3 DEF Exceeds
  <1> QED
    BY <1>11, <1>12

\* So a report no worse than those of the window does not lower the level, and
\* one no better does not raise it.
LEMMA LevelFollows ==
    ASSUME NEW w \in Seq(Int), NEW s \in Int, Len(w) <= Window,
           NEW v, v = Recorded(w, s)
    PROVE  /\ (\A i \in DOMAIN w : s >= w[i]) /\ w # << >> =>
                  AutonomyLevel(LatestScore(v), v) >= AutonomyLevel(LatestScore(w), w)
           /\ (\A i \in DOMAIN w : s <= w[i]) =>
                  AutonomyLevel(LatestScore(v), v) <= AutonomyLevel(LatestScore(w), w)
  <1>1. v \in Seq(Int) /\ v # << >> /\ LatestScore(v) = s
    BY RecordedWindow DEF LatestScore
  <1>2. \A x, u : AutonomyLevel(x, u) \in {1, 3, 4}
    BY DEF AutonomyLevel
  <1>3. CASE w = << >>
    <2>1. Len(w) = 0 /\ ShortLen(w) = 0
      BY <1>3, WindowAssumption DEF ShortLen
    <2>2. Error(w) = 0
      BY <1>3, <2>1, ErrorsAre, SumOfNothing
    <2>3. AutonomyLevel(LatestScore(w), w) = 4
      BY <1>3, <2>1, <2>2 DEF AutonomyLevel, LatestScore, BudgetBelow10, BudgetBelow50, Burns, Target
    <2> QED
      BY <1>1, <1>2, <1>3, <2>3
  <1>4. CASE w # << >>
    <2>1. 1 \in DOMAIN w /\ LatestScore(w) = w[1] /\ w[1] \in Int
      BY <1>4 DEF LatestScore
    <2>2. ASSUME \A i \in DOMAIN w : s >= w[i]
          PROVE  AutonomyLevel(s, v) >= AutonomyLevel(w[1], w)
      <3>1. \A b \in Bounds : Exceeds(v, b) => Exceeds(w, b)
        BY <1>4, <2>2, MeasuresFollow
      <3>2. /\ BudgetBelow10(v) => BudgetBelow10(w)
            /\ BudgetBelow50(v) => BudgetBelow50(w)
            /\ Burns(v, 5) => Burns(w, 5)
            /\ Burns(v, 2) => Burns(w, 2)
        BY <3>1 DEF Bounds, Exceeds
      <3>3. s >= w[1]
        BY <2>1, <2>2
      <3> QED
        BY <2>1, <3>2, <3>3 DEF AutonomyLevel, Target
    <2>3. ASSUME \A i \in DOMAIN w : s <= w[i]
          PROVE  AutonomyLevel(s, v) <= AutonomyLevel(w[1], w)
      <3>1. \A b \in Bounds : Exceeds(w, b) => Exceeds(v, b)
        BY <1>4, <2>3, MeasuresFollow
      <3>2. /\ BudgetBelow10(w) => BudgetBelow10(v)
            /\ BudgetBelow50(w) => BudgetBelow50(v)
            /\ Burns(w, 5) => Burns(v, 5)
            /\ Burns(w, 2) => Burns(v, 2)
        BY <3>1 DEF Bounds, Exceeds
      <3>3. s <= w[1]
        BY <2>1, <2>3
      <3> QED
        BY <2>1, <3>2, <3>3 DEF AutonomyLevel, Target
    <2> QED
      BY <1>1, <2>1, <2>2, <2>3
  <1> QED
    BY <1>3, <1>4

\* Only a tick's report changes the window, and it adds a whole number.
LEMMA ReportsChange ==
    ASSUME IInv, Next
    PROVE  UNCHANGED reports \/ \E s \in Int : reports' = Recorded(reports, s)
  <1>1. ASSUME NEW t \in Thread, TickReport(t)
        PROVE  UNCHANGED reports \/ \E s \in Int : reports' = Recorded(reports, s)
    <2>1. frame[t].score \in Int
      BY Types DEF Locals, ScoreRange
    <2> QED
      BY <1>1, <2>1 DEF TickReport
  <1>2. ASSUME NEW t \in Thread, TickStep(t), ~TickReport(t)
        PROVE  UNCHANGED reports
    <2>1. CASE TickJobs(t) \/ TickLedger(t) \/ TickDurability(t) \/ TickSkips(t) \/ TickDone(t)
      BY <2>1 DEF TickJobs, TickLedger, TickDurability, TickSkips, TickDone, storeVars
    <2>2. CASE \E kind \in DaemonKinds : TickIncident(t, kind)
      BY <2>2 DEF TickIncident
    <2>3. CASE TickLog(t) \/ TickJob(t) \/ TickJobLog(t)
      BY <2>3 DEF TickLog, TickJob, TickJobLog, WriteDiagnostic, Log
    <2> QED
      BY <1>2, <2>1, <2>2, <2>3 DEF TickStep
  <1>3. ASSUME NEW t \in Thread, RemediateStep(t)
        PROVE  UNCHANGED reports
    <2>1. CASE ReadTargets(t) \/ ReadScore(t) \/ ReadBudget(t) \/ ReadGates(t) \/ LoopDone(t)
      BY <2>1 DEF ReadTargets, ReadScore, ReadBudget, ReadGates, LoopDone, SetLocals, storeVars
    <2>2. CASE DryRun(t) \/ DryUndo(t) \/ \E i \in Incident : Consider(t, i)
      BY <2>2 DEF Consider, DryRun, DryUndo, Rehearse, SetLocals, storeVars
    <2>3. CASE MarkDiagnosed(t) \/ MarkProposed(t) \/ SetStatus(t) \/ SetState(t) \/ UndoStatus(t)
               \/ UndoState(t)
      BY <2>3 DEF MarkDiagnosed, MarkProposed, SetStatus, SetState, UndoStatus, UndoState, Write
    <2>4. CASE LogBlocked(t) \/ LogStarted(t) \/ LogCompleted(t) \/ LogRollback(t)
      BY <2>4 DEF LogBlocked, LogStarted, LogCompleted, LogRollback, Log
    <2>5. CASE Execute(t) \/ ExecuteFails(t) \/ Compare(t) \/ Undo(t)
      BY <2>5 DEF Execute, ExecuteFails, Compare, Undo, storeVars
    <2>6. CASE PostTick(t) \/ UndoTick(t)
      BY <2>6 DEF PostTick, UndoTick, SetLocals, storeVars
    <2> QED
      BY <1>3, <2>1, <2>2, <2>3, <2>4, <2>5, <2>6 DEF RemediateStep
  <1>4. ASSUME NEW t \in Thread, RollbackStep(t)
        PROVE  UNCHANGED reports
    <2>1. CASE RollbackRun(t) \/ RollbackStatus(t) \/ RollbackState(t)
      BY <2>1 DEF RollbackRun, RollbackStatus, RollbackState, Write
    <2>2. CASE RollbackLog(t) \/ RollbackTick(t) \/ Diagnose(t) \/ DiagnoseLog(t)
      BY <2>2 DEF RollbackLog, RollbackTick, Diagnose, DiagnoseLog, WriteDiagnostic, SetLocals, Log,
         storeVars
    <2> QED
      BY <1>4, <2>1, <2>2 DEF RollbackStep
  <1>5. ASSUME NEW t \in Thread, Fail(t) \/ Arrival(t)
        PROVE  UNCHANGED reports
    BY <1>5 DEF Fail, Arrival, Tick, DiagnoseRequest, Rollback, Remediate, Begin, storeVars
  <1>6. Environment => UNCHANGED reports
    BY DEF Environment, JobResult, FileIncident, ReadGate, WriteGate, Outside
  <1> QED
    BY <1>1, <1>2, <1>3, <1>4, <1>5, <1>6, NextIs DEF Step

\* A report that is no worse than any in the window never costs the autopilot
\* autonomy, and one that is no better never wins it any, however long the
\* windows of the budget and of the burn rate are.
THEOREM NewsAlwaysCounts == Spec => NewsCounts
  <1>1. ASSUME IInv, Next, reports' # reports
        PROVE  /\ (\A n \in DOMAIN reports : reports'[1] >= reports[n]) /\ reports # << >> =>
                      Level' >= Level
               /\ (\A n \in DOMAIN reports : reports'[1] <= reports[n]) => Level' <= Level
    <2>1. PICK s \in Int : reports' = Recorded(reports, s)
      BY <1>1, ReportsChange
    <2>2. reports \in Seq(Int) /\ Len(reports) <= Window
      <3>1. reports \in Seq(ScoreRange) /\ Len(reports) <= Window
        BY <1>1, Types
      <3>2. ScoreRange \subseteq Int
        BY DEF ScoreRange
      <3> QED
        BY <3>1, <3>2, SeqMonotonic
    <2>3. PICK w, v : w = reports /\ v = reports'
      OBVIOUS
    <2>4. w \in Seq(Int) /\ Len(w) <= Window /\ v = Recorded(w, s)
      BY <2>1, <2>2, <2>3
    <2>5. v[1] = s
      BY <2>4, RecordedWindow
    <2>6. /\ (\A n \in DOMAIN w : s >= w[n]) /\ w # << >> =>
                 AutonomyLevel(LatestScore(v), v) >= AutonomyLevel(LatestScore(w), w)
          /\ (\A n \in DOMAIN w : s <= w[n]) =>
                 AutonomyLevel(LatestScore(v), v) <= AutonomyLevel(LatestScore(w), w)
      BY <2>4, LevelFollows
    <2>7. Level = AutonomyLevel(LatestScore(w), w) /\ Level' = AutonomyLevel(LatestScore(v), v)
      BY <2>3 DEF Level, AutonomyLevel, LatestScore, BudgetBelow10, BudgetBelow50, Burns, Error,
         Recent, ShortLen, Deficit
    <2> QED
      BY <2>3, <2>5, <2>6, <2>7
  <1>2. IInv /\ [Next]_vars =>
            [/\ (\A n \in DOMAIN reports : reports'[1] >= reports[n]) /\ reports # << >> =>
                    Level' >= Level
             /\ (\A n \in DOMAIN reports : reports'[1] <= reports[n]) => Level' <= Level]_reports
    BY <1>1 DEF vars, storeVars
  <1> QED
    BY <1>2, Invariance, PTL DEF Spec, NewsCounts
=============================================================================
