-------------------------- MODULE PromptGovernance --------------------------
(***************************************************************************)
(* backend/prompt_governance.py: the policy gate in front of the prompt    *)
(* library and the approvals it asks operators for.                        *)
(*                                                                         *)
(* select_prompt runs in a thread of the API server.  For a HIGH-risk      *)
(* prompt it looks for an approval, then (in another critical section)     *)
(* either files a request or goes on, and in a third one writes the usage  *)
(* ledger; approve_prompt and expire_test_approvals run between those      *)
(* sections, time passes, and the process may die there.  Both tables,     *)
(* prompt_approvals and prompt_usage_ledger, are in SQLite and survive.    *)
(*                                                                         *)
(* The lock around a critical section is one process's own.  approve_prompt *)
(* and expire_test_approvals SELECT before SQLite's transaction begins, at *)
(* their first UPDATE, so that another process may commit in between:      *)
(* each is two actions here, and section[p] is what the holder of process  *)
(* p's lock has read and is about to write.                                *)
(*                                                                         *)
(* Abstracted: risk classification is a constant function of the prompt    *)
(* (the library is read once per process); a rationale is long enough or   *)
(* not; a uuid is a fresh member of ApprovalId; time is a counter.         *)
(***************************************************************************)
EXTENDS Naturals, Sequences

CONSTANTS Prompt,      \* library ids
          Risk,        \* the risk level of every prompt
          Spelling,    \* how callers write an id: "canonical" or "lowercase"
          Agent,       \* agents a prompt is selected for
          Person,      \* values of requested_by and reviewed_by
          SourceOf,    \* what _infer_source makes of each of them
          ApprovalId,  \* uuids for approval requests
          Legacy,      \* those of rows older than the columns source and expires_at
          NoApproval,  \* no approval
          Nobody,      \* a NULL or empty name
          Null,        \* a NULL date
          System,      \* the reviewer of the rows expire_test_approvals closes
          Process,     \* processes that have the database open
          Thread,      \* their request-handling threads
          ProcessOf,   \* whose each of them is
          TTL,         \* _APPROVAL_TTL_HOURS
          MaxTime,     \* bound on the clock (for model checking)
          MaxCalls     \* bound on calls of the three operations (for model checking)

RiskLevel == {"LOW", "MEDIUM", "HIGH", "BLOCKED"}

ASSUME DomainsAssumption ==
    /\ Risk \in [Prompt -> RiskLevel]
    /\ SourceOf \in [Person -> {"TEST", "UI", "OPERATOR"}]
    /\ Spelling \subseteq {"canonical", "lowercase"}
    /\ Legacy \subseteq ApprovalId /\ NoApproval \notin ApprovalId
    /\ ProcessOf \in [Thread -> Process]
    /\ Nobody \notin Person /\ System \notin Person
ASSUME TimeAssumption == TTL \in Nat /\ MaxTime \in Nat /\ MaxCalls \in Nat /\ Null \notin Nat

VARIABLES approvals,  \* prompt_approvals: ApprovalId -> row or NoRow
          usage,      \* prompt_usage_ledger, in the order of its INSERTs
          pc, req,    \* where each select_prompt call is, and its arguments
          found,      \* the approval the gate found, or filed, who gave it, and when it looked
          section,    \* the review or expiry each process is in the middle of
          now,        \* the clock
          begun       \* number of calls begun

vars == << approvals, usage, pc, req, found, section, now, begun >>

Request == [prompt : Prompt, spelling : Spelling, agent : Agent, by : Person]

NoRequest == [by |-> Nobody]

NoRow == [status |-> "none"]
Source == {"TEST", "UI", "OPERATOR", "UNKNOWN"}
Status == {"PENDING", "APPROVED", "DENIED", "EXPIRED"}
Filed == {a \in ApprovalId : approvals[a] # NoRow}

\* the columns approval_id and approved_by of a usage row
Cite(approval, by) == [approval |-> approval, by |-> by]
NoCitation == Cite(NoApproval, Nobody)

Found(cited, at) == [cited |-> cited, at |-> at]
NotLooked == Found(NoCitation, 0)

\* A row of the ledger.  at and process are history, no columns: when the call
\* looked for its approval or the review was dated, and who wrote the row.
UsageRow(prompt, agent, decision, looked, process) ==
    [prompt |-> prompt, agent |-> agent, decision |-> decision,
     cited |-> looked.cited, at |-> looked.at, process |-> process]

NoSection == [op |-> "none"]
Free(p) == section[p] = NoSection

---------------------------------------------------------------------------
(* _get_active_approval: newest honoured row, and only then its TTL *)

\* Mutant of Honoured: requests still to be decided count as well.
HonouredPending(p) ==
    {a \in Filed : /\ approvals[a].prompt = p /\ approvals[a].spelling = "canonical"
                   /\ approvals[a].status \in {"PENDING", "APPROVED"}
                   /\ approvals[a].source \in {"OPERATOR", "UI"}}

\* WHERE prompt_id = upper(id) AND status = 'APPROVED' AND source IN (...).
\* The row keeps the id as the requester wrote it, so that a row filed under
\* another spelling is not found.
Honoured(p) ==
    {a \in Filed : /\ approvals[a].prompt = p /\ approvals[a].spelling = "canonical"
                   /\ approvals[a].status = "APPROVED"
                   /\ approvals[a].source \in {"OPERATOR", "UI"}}

\* Mutant of Newest: the oldest review.
Oldest(A) == {a \in A : \A b \in A : approvals[a].reviewed_at <= approvals[b].reviewed_at}

\* ORDER BY reviewed_at DESC LIMIT 1 (any of them if two carry the same time)
Newest(A) == {a \in A : \A b \in A : approvals[b].reviewed_at <= approvals[a].reviewed_at}

\* Mutant of Unexpired: an approval that has no time left still counts as live
\* for another TTL.
UnexpiredLate(a) == approvals[a].expires_at # Null => now <= approvals[a].expires_at + TTL

\* `if expires:`, so that a row without expires_at never expires
Unexpired(a) == approvals[a].expires_at # Null => now <= approvals[a].expires_at

\* what the lookup may return for p: the newest honoured row, if unexpired
ActiveApprovals(p) == {a \in Newest(Honoured(p)) : Unexpired(a)}

---------------------------------------------------------------------------
(* select_prompt; its critical sections wait for the lock of the process *)

Begin == begun < MaxCalls /\ begun' = begun + 1

Goto(t, label) == pc' = [pc EXCEPT ![t] = label]

\* the calls of the threads in T are over
Forget(T) ==
    /\ pc' = [t \in Thread |-> IF t \in T THEN "idle" ELSE pc[t]]
    /\ req' = [t \in Thread |-> IF t \in T THEN NoRequest ELSE req[t]]
    /\ found' = [t \in Thread |-> IF t \in T THEN NotLooked ELSE found[t]]

\* The call has read the library and branches on the prompt's risk: HIGH goes
\* on to look for an approval, MEDIUM without a rationale returns at once, the
\* others are only logged.  An id that is not in the library changes nothing.
Select(t, r, rationale) ==
    /\ pc[t] = "idle"
    /\ Begin
    /\ Risk[r.prompt] = "MEDIUM" => rationale
    /\ req' = [req EXCEPT ![t] = r]
    /\ Goto(t, CASE Risk[r.prompt] = "HIGH" -> "check"
                 [] Risk[r.prompt] = "BLOCKED" -> "log_rejected"
                 [] Risk[r.prompt] = "MEDIUM" -> "log_rationale"
                 [] OTHER -> "log_allowed")
    /\ UNCHANGED << approvals, usage, found, section, now >>

CheckFinds(t, a) ==
    /\ pc[t] = "check" /\ Free(ProcessOf[t])
    /\ a \in ActiveApprovals(req[t].prompt)
    /\ found' = [found EXCEPT ![t] = Found(Cite(a, approvals[a].reviewed_by), now)]
    /\ Goto(t, "log_allowed")
    /\ UNCHANGED << approvals, usage, req, section, now, begun >>

CheckFindsNone(t) ==
    /\ pc[t] = "check" /\ Free(ProcessOf[t])
    /\ ActiveApprovals(req[t].prompt) = {}
    /\ Goto(t, "file")
    /\ UNCHANGED << approvals, usage, req, found, section, now, begun >>

\* _create_approval_request
FileRequest(t, a) ==
    /\ pc[t] = "file" /\ Free(ProcessOf[t])
    /\ a \notin Filed \cup Legacy
    /\ approvals' = [approvals EXCEPT ![a] =
           [prompt |-> req[t].prompt, spelling |-> req[t].spelling, agent |-> req[t].agent,
            status |-> "PENDING", source |-> SourceOf[req[t].by], requested_by |-> req[t].by,
            reviewed_by |-> Nobody, reviewed_at |-> 0, expires_at |-> Null]]
    /\ found' = [found EXCEPT ![t] = Found(Cite(a, Nobody), now)]
    /\ Goto(t, "log_pending")
    /\ UNCHANGED << usage, req, section, now, begun >>

\* the decision column of the row each logged call writes
Decision(label) ==
    CASE label = "log_allowed" -> "ALLOWED"
      [] label = "log_rationale" -> "ALLOWED_WITH_RATIONALE"
      [] label = "log_rejected" -> "REJECTED"
      [] OTHER -> "PENDING_APPROVAL"

LogLabels == {"log_allowed", "log_rationale", "log_rejected", "log_pending"}

\* _write_ledger, the last step of every logged call
WriteLedger(t) ==
    /\ pc[t] \in LogLabels /\ Free(ProcessOf[t])
    /\ usage' = Append(usage, UsageRow(req[t].prompt, req[t].agent, Decision(pc[t]), found[t],
                                       ProcessOf[t]))
    /\ Forget({t})
    /\ UNCHANGED << approvals, section, now, begun >>

\* "database is locked": the exception ends the call.
CallFails(t) ==
    /\ pc[t] # "idle" /\ Free(ProcessOf[t])
    /\ Forget({t})
    /\ UNCHANGED << approvals, usage, section, now, begun >>

---------------------------------------------------------------------------
(* approve_prompt and expire_test_approvals: the SELECT, then a transaction *)

Enter(p, what) == section' = [section EXCEPT ![p] = what]
Leave(p) == Enter(p, NoSection)

\* Mutant of Decidable: a denied request may be decided again.
DecidableAgain(a) == approvals[a].status \in {"PENDING", "DENIED"}

\* approve_prompt refuses everything but PENDING
Decidable(a) == approvals[a].status = "PENDING"

\* approve_prompt up to its UPDATE
ReadRequest(p, a, by, status) ==
    /\ Free(p)
    /\ Begin
    /\ a \in Filed /\ Decidable(a)
    /\ Enter(p, [op |-> "review", approval |-> a, by |-> by, status |-> status, began |-> now])
    /\ UNCHANGED << approvals, usage, pc, req, found, now >>

Expiry(status, at) == IF status = "APPROVED" THEN at + TTL ELSE Null

\* the row after its review
Reviewed(row, status, by, at) ==
    [row EXCEPT !.status = status, !.source = "OPERATOR", !.reviewed_by = by,
                !.reviewed_at = at, !.expires_at = Expiry(status, at)]

\* Mutant of DecisionOf: the status itself.
DecisionOfPlain(status) == status

DecisionOf(status) == IF status = "APPROVED" THEN "APPROVAL_APPROVED" ELSE "APPROVAL_DENIED"

\* The UPDATE, whose WHERE clause asks for the id alone, the INSERT and the
\* commit.  The dates were taken between the SELECT and the transaction.
CommitReview(p, at) ==
    LET review == section[p]
        row == approvals[review.approval]
    IN  /\ review.op = "review" /\ at \in review.began .. now
        /\ approvals' = [approvals EXCEPT ![review.approval] =
                             Reviewed(row, review.status, review.by, at)]
        /\ usage' = Append(usage, UsageRow(row.prompt, row.agent, DecisionOf(review.status),
                                           Found(Cite(review.approval, review.by), at), p))
        /\ Leave(p)
        /\ UNCHANGED << pc, req, found, now, begun >>

\* Mutant of TestApprovals: without the filter on source.
TestApprovalsAll == {a \in Filed : approvals[a].status \in {"PENDING", "APPROVED"}}

TestApprovals == {a \in Filed : /\ approvals[a].source = "TEST"
                                /\ approvals[a].status \in {"PENDING", "APPROVED"}}

\* expire_test_approvals up to its first UPDATE
ReadTestApprovals(p) ==
    /\ Free(p)
    /\ Begin
    /\ TestApprovals # {}
    /\ Enter(p, [op |-> "expire", rows |-> TestApprovals])
    /\ UNCHANGED << approvals, usage, pc, req, found, now >>

CommitExpiry(p) ==
    /\ section[p].op = "expire"
    /\ approvals' = [a \in ApprovalId |->
           IF a \in section[p].rows
           THEN [approvals[a] EXCEPT !.status = "EXPIRED", !.reviewed_by = System, !.reviewed_at = now]
           ELSE approvals[a]]
    /\ Leave(p)
    /\ UNCHANGED << usage, pc, req, found, now, begun >>

\* "database is locked": nothing of the transaction stays.
SectionFails(p) ==
    /\ ~Free(p)
    /\ Leave(p)
    /\ UNCHANGED << approvals, usage, pc, req, found, now, begun >>

---------------------------------------------------------------------------
Tick ==
    /\ now < MaxTime
    /\ now' = now + 1
    /\ UNCHANGED << approvals, usage, pc, req, found, section, begun >>

\* A process dies: its calls in progress are gone, the tables stay.
Crash(p) ==
    /\ ~Free(p) \/ \E t \in Thread : ProcessOf[t] = p /\ pc[t] # "idle"
    /\ Forget({t \in Thread : ProcessOf[t] = p})
    /\ Leave(p)
    /\ UNCHANGED << approvals, usage, now, begun >>

\* The rows ensure_ledger_table finds in an older database and migrates: no
\* expiry, and the source their requester suggests, or UNKNOWN if an earlier
\* migration died before it had filled the new column in.
LegacyRow ==
    {[prompt |-> p, spelling |-> spelling, agent |-> agent, status |-> status, source |-> source,
      requested_by |-> q, reviewed_by |-> by, reviewed_at |-> 0, expires_at |-> Null] :
        p \in {p \in Prompt : Risk[p] = "HIGH"}, spelling \in Spelling, agent \in Agent,
        status \in {"PENDING", "APPROVED", "DENIED"}, source \in Source, q \in Person,
        by \in Person \cup {Nobody}}

Migrated(row) ==
    /\ row.source \in {SourceOf[row.requested_by], "UNKNOWN"}
    /\ row.status = "PENDING" <=> row.reviewed_by = Nobody

Init ==
    /\ approvals \in [ApprovalId -> LegacyRow \cup {NoRow}]
    /\ \A a \in ApprovalId :
          approvals[a] # NoRow => a \in Legacy /\ Migrated(approvals[a])
    /\ usage = << >>
    /\ pc = [t \in Thread |-> "idle"]
    /\ req = [t \in Thread |-> NoRequest]
    /\ found = [t \in Thread |-> NotLooked]
    /\ section = [p \in Process |-> NoSection]
    /\ now = 0
    /\ begun = 0

Next ==
    \/ \E t \in Thread : \/ \E r \in Request, rationale \in BOOLEAN : Select(t, r, rationale)
                         \/ \E a \in ApprovalId : CheckFinds(t, a) \/ FileRequest(t, a)
                         \/ CheckFindsNone(t)
                         \/ WriteLedger(t)
                         \/ CallFails(t)
    \/ \E p \in Process :
          \/ \E a \in ApprovalId, by \in Person, status \in {"APPROVED", "DENIED"} :
                ReadRequest(p, a, by, status)
          \/ \E at \in 0 .. MaxTime : CommitReview(p, at)
          \/ ReadTestApprovals(p)
          \/ CommitExpiry(p)
          \/ SectionFails(p)
          \/ Crash(p)
    \/ Tick

Spec == Init /\ [][Next]_vars

---------------------------------------------------------------------------
(* Properties *)

Row == [prompt : Prompt, spelling : Spelling, agent : Agent, status : Status,
        source : Source, requested_by : Person, reviewed_by : Person \cup {Nobody, System},
        reviewed_at : 0 .. MaxTime, expires_at : (0 .. MaxTime + TTL) \cup {Null}]

Decisions == {"ALLOWED", "ALLOWED_WITH_RATIONALE", "REJECTED", "PENDING_APPROVAL",
              "APPROVAL_APPROVED", "APPROVAL_DENIED"}

Citation == [approval : ApprovalId \cup {NoApproval}, by : Person \cup {Nobody, System}]
UsageRows == [prompt : Prompt, agent : Agent, decision : Decisions, cited : Citation,
              at : 0 .. MaxTime, process : Process]

Section == {NoSection}
    \cup [op : {"review"}, approval : ApprovalId, by : Person, status : {"APPROVED", "DENIED"},
          began : 0 .. MaxTime]
    \cup [op : {"expire"}, rows : SUBSET ApprovalId]

\* Types of the two tables, of the calls and of the sections in progress.
TypeOK ==
    /\ approvals \in [ApprovalId -> Row \cup {NoRow}]
    /\ usage \in Seq(UsageRows)
    /\ pc \in [Thread -> {"idle", "check", "file"} \cup LogLabels]
    /\ req \in [Thread -> Request \cup {NoRequest}]
    /\ \A t \in Thread : pc[t] # "idle" => req[t] \in Request
    /\ found \in [Thread -> [cited : Citation, at : 0 .. MaxTime]]
    /\ section \in [Process -> Section]
    /\ now \in 0 .. MaxTime
    /\ begun \in 0 .. MaxCalls

\* the row is a decision on request a
Decides(row, a) == /\ row.cited.approval = a
                   /\ row.decision \in {"APPROVAL_APPROVED", "APPROVAL_DENIED"}

Decided(a) == \E i \in DOMAIN usage : Decides(usage[i], a)

\* the last decision on a in the ledger
LastDecision(a, i) == /\ Decides(usage[i], a)
                      /\ \A j \in DOMAIN usage : Decides(usage[j], a) => j <= i

\* a row the migration left, reviewed before there was a ledger of it
Settled(a) == a \in Legacy /\ approvals[a].status \in {"APPROVED", "DENIED"} /\ ~Decided(a)

\* The approvals table and the usage ledger tell the same story, although two
\* processes can both decide a request they both read as pending: no process
\* decides it twice, a decided row is what the ledger's last decision on it
\* made it, and a decided request that is not decided any more was a test's.
DecisionsAgree ==
    \A a \in ApprovalId :
        /\ \A i, j \in DOMAIN usage :
              Decides(usage[i], a) /\ Decides(usage[j], a) /\ usage[i].process = usage[j].process => i = j
        /\ approvals[a].status \in {"APPROVED", "DENIED"} =>
              \/ Settled(a)
              \/ \E i \in DOMAIN usage : /\ LastDecision(a, i)
                                         /\ usage[i].decision = DecisionOf(approvals[a].status)
                                         /\ usage[i].cited.by = approvals[a].reviewed_by
        /\ Decided(a) =>
              \/ approvals[a].status \in {"APPROVED", "DENIED"}
              \/ approvals[a].status = "EXPIRED" /\ SourceOf[approvals[a].requested_by] = "TEST"

\* an approval the migration left: honoured, and for ever
Undated(a) == /\ a \in Legacy /\ approvals[a].status = "APPROVED" /\ approvals[a].expires_at = Null
              /\ approvals[a].source \in {"OPERATOR", "UI"}

HighRiskUse(i) == usage[i].decision = "ALLOWED" /\ Risk[usage[i].prompt] = "HIGH"

\* row j approves what use i cites
Approves(j, i) == /\ usage[j].decision = "APPROVAL_APPROVED"
                  /\ usage[j].cited = usage[i].cited /\ usage[j].prompt = usage[i].prompt

\* Whatever the interleaving of gate, operators and crashes, a HIGH-risk use in
\* the ledger is preceded there by the approval it cites, given for the same
\* prompt by the person it names, or cites one the migration left.
UsesFollowApproval ==
    \A i \in DOMAIN usage :
        HighRiskUse(i) => Undated(usage[i].cited.approval) \/ \E j \in 1 .. i - 1 : Approves(j, i)

\* An approval may run out, be overwritten or expire between the look-up and the
\* use it allows, but no later: at the look-up, the approval a HIGH-risk use
\* cites had been given and its TTL had not run out.
UsesWithinTTL ==
    \A i \in DOMAIN usage :
        HighRiskUse(i) /\ ~Undated(usage[i].cited.approval) =>
            \E j \in DOMAIN usage : /\ Approves(j, i)
                                    /\ usage[j].at <= usage[i].at
                                    /\ usage[i].at <= usage[j].at + TTL

\* an approval given for p whose TTL has not run out since its review
Live(p) == {a \in Filed : /\ approvals[a].prompt = p
                          /\ approvals[a].status = "APPROVED"
                          /\ approvals[a].source \in {"OPERATOR", "UI"}
                          /\ approvals[a].expires_at # Null
                          /\ now <= approvals[a].reviewed_at + TTL}

\* The gate looks at the newest approval only and checks its TTL afterwards;
\* even so it misses no approval that is still live.  (ids in their canonical
\* spelling; an approval without expiry can be hidden by one that has run out)
ApprovedIsFound == \A p \in Prompt : Live(p) # {} => ActiveApprovals(p) # {}

\* p has read request a and may write it
Under(p, a) ==
    \/ section[p].op = "review" /\ section[p].approval = a
    \/ section[p].op = "expire" /\ a \in section[p].rows

\* Inductive strengthening.  A row of source TEST was requested by a test; a
\* decided row that has no decision in the ledger has no expiry either, the
\* other approvals run out TTL after their review.
RowOK(a) ==
    LET row == approvals[a]
    IN  /\ row.reviewed_at <= now
        /\ row.source = "TEST" => SourceOf[row.requested_by] = "TEST"
        /\ row.status \in {"APPROVED", "DENIED"} => Settled(a) \/ row.source = "OPERATOR"
        /\ Settled(a) => row.expires_at = Null
        /\ row.status = "APPROVED" => Settled(a) \/ row.expires_at = row.reviewed_at + TTL
RowsOK == \A a \in Filed : RowOK(a)

\* what a process is about to write over it has not decided, and no migrated
\* decision but a test's
DecidedBy(p, a) == \E i \in DOMAIN usage : Decides(usage[i], a) /\ usage[i].process = p
SectionsOK ==
    \A p \in Process :
        /\ section[p].op = "review" => section[p].began <= now
        /\ \A a \in ApprovalId : Under(p, a) =>
              /\ a \in Filed /\ ~DecidedBy(p, a)
              /\ Settled(a) => section[p].op = "expire" /\ a \in TestApprovals
              /\ section[p].op = "expire" => SourceOf[approvals[a].requested_by] = "TEST"

\* row, written before, allows the use of p by a call that found and looked thus
Allows(row, p, looked) ==
    /\ row.decision = "APPROVAL_APPROVED" /\ row.prompt = p /\ row.cited = looked.cited
    /\ row.at <= looked.at /\ looked.at <= row.at + TTL

ApprovedLogged ==
    \A a \in Filed : approvals[a].status = "APPROVED" /\ ~Settled(a) =>
        \E j \in DOMAIN usage :
            /\ usage[j].decision = "APPROVAL_APPROVED" /\ usage[j].prompt = approvals[a].prompt
            /\ usage[j].cited = Cite(a, approvals[a].reviewed_by)
            /\ usage[j].at = approvals[a].reviewed_at
HeldLogged ==
    \A t \in Thread : pc[t] = "log_allowed" /\ Risk[req[t].prompt] = "HIGH" =>
        \/ Undated(found[t].cited.approval)
        \/ \E j \in DOMAIN usage : Allows(usage[j], req[t].prompt, found[t])
UsesAllowed ==
    \A i \in DOMAIN usage : HighRiskUse(i) =>
        \/ Undated(usage[i].cited.approval)
        \/ \E j \in 1 .. i - 1 : Allows(usage[j], usage[i].prompt, usage[i])

IInv == TypeOK /\ RowsOK /\ SectionsOK /\ DecisionsAgree /\ ApprovedLogged /\ HeldLogged /\ UsesAllowed

\* A decision an operator made is changed, if at all, by a process that was
\* already in the middle of its own review or expiry of the request and has
\* never decided it before; a decision the migration left is not changed, save
\* for a test's that expires; and no call rewrites the usage ledger.
DecisionsFinal ==
    [][/\ \A a \in Filed :
             approvals[a].status \in {"APPROVED", "DENIED"} /\ approvals'[a] # approvals[a] =>
                \E p \in Process :
                   /\ Under(p, a) /\ section'[p] = NoSection
                   /\ \A i \in DOMAIN usage : Decides(usage[i], a) => usage[i].process # p
                   /\ Settled(a) => a \in TestApprovals
       /\ Len(usage) <= Len(usage') /\ \A i \in DOMAIN usage : usage'[i] = usage[i]]_vars

\* "TEST approvals are NEVER honoured for live execution."  An approval that
\* only test identities have touched stays a test approval.
TestApprovalsNotHonoured ==
    \A i \in DOMAIN usage :
        usage[i].decision = "ALLOWED" /\ usage[i].cited.approval # NoApproval =>
            LET row == approvals[usage[i].cited.approval]
            IN  \E q \in {row.requested_by, row.reviewed_by} \cap Person : SourceOf[q] # "TEST"
=============================================================================
