---------------------- MODULE PromptGovernance_proofs ----------------------
(***************************************************************************)
(* Proofs about the prompt gate, for any prompts, people, processes,       *)
(* threads, approvals, rows of an older database and TTL.                  *)
(***************************************************************************)
EXTENDS PromptGovernance, TLAPS, WellFoundedInduction

USE DomainsAssumption, TimeAssumption

---------------------------------------------------------------------------
(* Facts about the operators *)

\* A ledger that grows by a row keeps its rows and ends in the new one.
LEMMA GrowByOne ==
    ASSUME NEW ledger \in Seq(UsageRows), NEW row \in UsageRows
    PROVE  /\ Append(ledger, row) \in Seq(UsageRows)
           /\ DOMAIN ledger = 1 .. Len(ledger) /\ Len(ledger) \in Nat
           /\ Len(Append(ledger, row)) = Len(ledger) + 1
           /\ DOMAIN Append(ledger, row) = 1 .. Len(ledger) + 1
           /\ \A i \in DOMAIN ledger : Append(ledger, row)[i] = ledger[i]
           /\ Append(ledger, row)[Len(ledger) + 1] = row
  OBVIOUS

\* A filed row has the type of rows, and no row has none of the four states.
LEMMA FiledIsRow ==
    ASSUME TypeOK, NEW a \in ApprovalId
    PROVE  /\ a \in Filed => approvals[a] \in Row
           /\ approvals[a].status \in Status => a \in Filed
           /\ a \in Filed => approvals[a].status \in Status
  <1>1. approvals[a] \in Row \cup {NoRow}
    BY DEF TypeOK
  <1>2. NoRow.status \notin Status
    BY DEF NoRow, Status
  <1>3. approvals[a] \in Row => approvals[a].status \in Status
    BY DEF Row
  <1> QED
    BY <1>1, <1>2, <1>3 DEF Filed

\* The usage row a call writes has the type of such rows and decides nothing.
LEMMA CallRow ==
    ASSUME TypeOK, NEW t \in Thread, pc[t] \in LogLabels
    PROVE  LET row == UsageRow(req[t].prompt, req[t].agent, Decision(pc[t]), found[t], ProcessOf[t])
           IN  /\ row \in UsageRows
               /\ row.decision \notin {"APPROVAL_APPROVED", "APPROVAL_DENIED"}
               /\ row.decision = "ALLOWED" <=> pc[t] = "log_allowed"
               /\ row.prompt = req[t].prompt /\ row.cited = found[t].cited /\ row.at = found[t].at
  <1>1. req[t] \in Request /\ found[t].cited \in Citation /\ found[t].at \in 0 .. MaxTime
    BY DEF TypeOK, LogLabels
  <1>2. req[t].prompt \in Prompt /\ req[t].agent \in Agent /\ ProcessOf[t] \in Process
    BY <1>1 DEF Request
  <1>3. Decision(pc[t]) \in {"ALLOWED", "ALLOWED_WITH_RATIONALE", "REJECTED", "PENDING_APPROVAL"}
    BY DEF Decision
  <1>4. Decision(pc[t]) = "ALLOWED" <=> pc[t] = "log_allowed"
    BY DEF Decision, LogLabels
  <1> QED
    BY <1>1, <1>2, <1>3, <1>4 DEF UsageRow, UsageRows, Decisions

\* What a process is in the middle of has the type of a review or an expiry.
LEMMA SectionType ==
    ASSUME TypeOK, NEW p \in Process
    PROVE  /\ section[p] = NoSection => section[p].op = "none"
           /\ section[p].op = "none" => section[p] = NoSection
           /\ section[p].op = "review" =>
                 /\ section[p].approval \in ApprovalId /\ section[p].by \in Person
                 /\ section[p].status \in {"APPROVED", "DENIED"} /\ section[p].began \in 0 .. MaxTime
           /\ section[p].op = "expire" => section[p].rows \in SUBSET ApprovalId
  BY DEF TypeOK, Section, NoSection

---------------------------------------------------------------------------
(* The type invariant *)

\* The migrated tables and the idle threads have their types.
LEMMA TypeInit == Init => TypeOK
  <1> SUFFICES ASSUME Init PROVE TypeOK
    OBVIOUS
  <1>1. NotLooked \in [cited : Citation, at : 0 .. MaxTime]
    BY DEF NotLooked, Found, NoCitation, Cite, Citation
  <1>2. LegacyRow \subseteq Row
    BY DEF LegacyRow, Row, Status
  <1>3. approvals \in [ApprovalId -> Row \cup {NoRow}]
    BY <1>2 DEF Init
  <1>4. usage \in Seq(UsageRows) /\ now \in 0 .. MaxTime /\ begun \in 0 .. MaxCalls
    BY DEF Init
  <1>5. /\ pc \in [Thread -> {"idle", "check", "file"} \cup LogLabels]
        /\ \A t \in Thread : pc[t] = "idle"
        /\ req \in [Thread -> Request \cup {NoRequest}]
    BY DEF Init
  <1>6. found \in [Thread -> [cited : Citation, at : 0 .. MaxTime]]
    BY <1>1 DEF Init
  <1>7. section \in [Process -> Section]
    BY DEF Init, Section
  <1> QED
    BY <1>3, <1>4, <1>5, <1>6, <1>7 DEF TypeOK

\* Calls that end leave nothing behind in the threads.
LEMMA ForgetType ==
    ASSUME TypeOK, NEW T \in SUBSET Thread, Forget(T)
    PROVE  /\ pc' \in [Thread -> {"idle", "check", "file"} \cup LogLabels]
           /\ req' \in [Thread -> Request \cup {NoRequest}]
           /\ \A t \in Thread : pc'[t] # "idle" => req'[t] \in Request
           /\ found' \in [Thread -> [cited : Citation, at : 0 .. MaxTime]]
  <1>1. NotLooked \in [cited : Citation, at : 0 .. MaxTime]
    BY DEF NotLooked, Found, NoCitation, Cite, Citation
  <1> QED
    BY <1>1 DEF TypeOK, Forget

\* A process that leaves its section has none.
LEMMA LeaveType ==
    ASSUME TypeOK, NEW p \in Process, Leave(p)
    PROVE  /\ section' \in [Process -> Section]
           /\ section'[p] = NoSection
           /\ \A q \in Process : q # p => section'[q] = section[q]
  BY DEF TypeOK, Leave, Enter, Section

\* The parts of the state a step leaves alone keep their types.
LEMMA TypeParts ==
    ASSUME TypeOK
    PROVE  /\ UNCHANGED approvals => approvals' \in [ApprovalId -> Row \cup {NoRow}]
           /\ UNCHANGED usage => usage' \in Seq(UsageRows)
           /\ UNCHANGED << pc, req, found >> =>
                 /\ pc' \in [Thread -> {"idle", "check", "file"} \cup LogLabels]
                 /\ req' \in [Thread -> Request \cup {NoRequest}]
                 /\ \A t \in Thread : pc'[t] # "idle" => req'[t] \in Request
                 /\ found' \in [Thread -> [cited : Citation, at : 0 .. MaxTime]]
           /\ UNCHANGED section => section' \in [Process -> Section]
           /\ UNCHANGED now => now' \in 0 .. MaxTime
           /\ UNCHANGED begun \/ Begin => begun' \in 0 .. MaxCalls
  BY DEF TypeOK, Begin

\* What a review writes.
LEMMA ReviewEffect ==
    ASSUME TypeOK, NEW p \in Process, NEW at \in 0 .. MaxTime, CommitReview(p, at),
           section[p].approval \in Filed
    PROVE  \E a \in ApprovalId, row \in UsageRows :
              /\ Under(p, a) /\ section[p].op = "review" /\ section[p].approval = a
              /\ section[p].began <= at /\ at <= now
              /\ approvals'[a] \in Row
              /\ approvals'[a].status = section[p].status
              /\ section[p].status \in {"APPROVED", "DENIED"}
              /\ approvals'[a].source = "OPERATOR"
              /\ approvals'[a].requested_by = approvals[a].requested_by
              /\ approvals'[a].prompt = approvals[a].prompt
              /\ approvals'[a].reviewed_by = section[p].by
              /\ approvals'[a].reviewed_at = at
              /\ approvals'[a].expires_at = Expiry(section[p].status, at)
              /\ \A b \in ApprovalId : b # a => approvals'[b] = approvals[b]
              /\ approvals' \in [ApprovalId -> Row \cup {NoRow}]
              /\ usage' = Append(usage, row)
              /\ row.decision = DecisionOf(section[p].status)
              /\ row.cited = Cite(a, section[p].by) /\ row.prompt = approvals[a].prompt
              /\ row.at = at /\ row.process = p
              /\ Leave(p) /\ UNCHANGED << pc, req, found, now, begun >>
  <1> DEFINE a == section[p].approval
             row == UsageRow(approvals[a].prompt, approvals[a].agent, DecisionOf(section[p].status),
                             Found(Cite(a, section[p].by), at), p)
             new == Reviewed(approvals[a], section[p].status, section[p].by, at)
  <1>1. /\ section[p].op = "review" /\ at \in section[p].began .. now
        /\ approvals' = [approvals EXCEPT ![a] = new]
        /\ usage' = Append(usage, row)
        /\ Leave(p) /\ UNCHANGED << pc, req, found, now, begun >>
    BY DEF CommitReview
  <1>2. /\ a \in ApprovalId /\ section[p].by \in Person /\ section[p].status \in {"APPROVED", "DENIED"}
        /\ section[p].began \in 0 .. MaxTime /\ now \in 0 .. MaxTime
    BY <1>1, SectionType DEF TypeOK
  <1>3. approvals[a] \in Row
    BY <1>2, FiledIsRow
  <1>4. section[p].began <= at /\ at <= now
    BY <1>1, <1>2
  <1>5. Expiry(section[p].status, at) \in (0 .. MaxTime + TTL) \cup {Null}
    <2>1. at + TTL \in 0 .. MaxTime + TTL
      OBVIOUS
    <2>2. Expiry(section[p].status, at) = at + TTL \/ Expiry(section[p].status, at) = Null
      BY DEF Expiry
    <2> QED
      BY <2>1, <2>2, Zenon
  <1>6. new \in Row
    BY <1>2, <1>3, <1>5 DEF Reviewed, Row, Status, Source
  <1>7. /\ new.status = section[p].status /\ new.source = "OPERATOR"
        /\ new.requested_by = approvals[a].requested_by /\ new.prompt = approvals[a].prompt
        /\ new.reviewed_by = section[p].by /\ new.reviewed_at = at
        /\ new.expires_at = Expiry(section[p].status, at)
    BY <1>3 DEF Reviewed, Row
  <1>8. approvals[a].prompt \in Prompt /\ approvals[a].agent \in Agent
    BY <1>3 DEF Row
  <1>9. row \in UsageRows
    BY <1>2, <1>8 DEF UsageRow, UsageRows, DecisionOf, Decisions, Found, Cite, Citation
  <1>10. /\ row.decision = DecisionOf(section[p].status) /\ row.cited = Cite(a, section[p].by)
         /\ row.prompt = approvals[a].prompt /\ row.at = at /\ row.process = p
    BY DEF UsageRow, Found
  <1> HIDE DEF new, row
  <1>11. /\ approvals'[a] = new
         /\ \A b \in ApprovalId : b # a => approvals'[b] = approvals[b]
         /\ approvals' \in [ApprovalId -> Row \cup {NoRow}]
    BY <1>1, <1>2, <1>6 DEF TypeOK
  <1>12. Under(p, a)
    BY <1>1 DEF Under
  <1> QED
    BY <1>1, <1>2, <1>4, <1>6, <1>7, <1>9, <1>10, <1>11, <1>12

\* What an expiry writes.
LEMMA ExpireEffect ==
    ASSUME TypeOK, NEW p \in Process, CommitExpiry(p), section[p].rows \subseteq Filed
    PROVE  /\ approvals' \in [ApprovalId -> Row \cup {NoRow}]
           /\ \A a \in ApprovalId :
                 IF Under(p, a)
                 THEN /\ approvals'[a] \in Row /\ approvals'[a].status = "EXPIRED"
                      /\ approvals'[a].reviewed_at = now
                      /\ approvals'[a].source = approvals[a].source
                      /\ approvals'[a].requested_by = approvals[a].requested_by
                 ELSE approvals'[a] = approvals[a]
           /\ section[p].op = "expire" /\ Leave(p)
           /\ UNCHANGED << usage, pc, req, found, now, begun >>
  <1>1. section[p].op = "expire" /\ Leave(p) /\ UNCHANGED << usage, pc, req, found, now, begun >>
    BY DEF CommitExpiry
  <1>2. section[p].rows \in SUBSET ApprovalId /\ now \in 0 .. MaxTime
    BY <1>1, SectionType DEF TypeOK
  <1>3. ASSUME NEW a \in ApprovalId, Under(p, a)
        PROVE  /\ approvals'[a] \in Row /\ approvals'[a].status = "EXPIRED"
               /\ approvals'[a].reviewed_at = now
               /\ approvals'[a].source = approvals[a].source
               /\ approvals'[a].requested_by = approvals[a].requested_by
    <2>1. a \in section[p].rows
      BY <1>1, <1>3 DEF Under
    <2>2. approvals'[a] = [approvals[a] EXCEPT !.status = "EXPIRED", !.reviewed_by = System,
                                               !.reviewed_at = now]
      BY <2>1 DEF CommitExpiry
    <2>3. approvals[a] \in Row
      BY <2>1, FiledIsRow
    <2> QED
      BY <1>2, <2>2, <2>3 DEF Row, Status
  <1>4. ASSUME NEW a \in ApprovalId, ~Under(p, a)
        PROVE  approvals'[a] = approvals[a]
    BY <1>1, <1>4 DEF Under, CommitExpiry
  <1>5. approvals' \in [ApprovalId -> Row \cup {NoRow}]
    <2>1. approvals' = [a \in ApprovalId |-> approvals'[a]]
      BY DEF CommitExpiry
    <2>2. \A a \in ApprovalId : approvals'[a] \in Row \cup {NoRow}
      BY <1>3, <1>4 DEF TypeOK
    <2> QED
      BY <2>1, <2>2
  <1> QED
    BY <1>1, <1>3, <1>4, <1>5

\* A request that is filed is new, and pending.
LEMMA FileEffect ==
    ASSUME TypeOK, NEW t \in Thread, NEW a \in ApprovalId, FileRequest(t, a)
    PROVE  /\ usage' = usage /\ now' = now /\ section' = section
           /\ a \notin Filed /\ a \notin Legacy
           /\ approvals'[a] \in Row
           /\ approvals'[a].status = "PENDING" /\ approvals'[a].reviewed_at = 0
           /\ approvals'[a].source = SourceOf[approvals'[a].requested_by]
           /\ \A b \in ApprovalId : b # a => approvals'[b] = approvals[b]
           /\ approvals' \in [ApprovalId -> Row \cup {NoRow}]
  <1>1. req[t] \in Request
    BY DEF TypeOK, FileRequest
  <1>2. approvals'[a] \in Row
    BY <1>1 DEF TypeOK, FileRequest, Row, Request, Status, Source
  <1>3. approvals' \in [ApprovalId -> Row \cup {NoRow}]
    BY <1>2 DEF TypeOK, FileRequest
  <1> QED
    BY <1>2, <1>3 DEF TypeOK, FileRequest, Filed

\* Sections are entered on filed requests only, so that what commits has rows.
SectionsFiled == \A p \in Process, a \in ApprovalId : Under(p, a) => a \in Filed

\* Every step keeps the types.
LEMMA TypeStep == TypeOK /\ SectionsFiled /\ [Next]_vars => TypeOK'
  <1> SUFFICES ASSUME TypeOK, SectionsFiled, [Next]_vars PROVE TypeOK'
    OBVIOUS
  <1>1. CASE UNCHANGED vars
    BY <1>1, TypeParts DEF TypeOK, vars
  <1>2. ASSUME NEW t \in Thread, NEW r \in Request, NEW rationale \in BOOLEAN, Select(t, r, rationale)
        PROVE  TypeOK'
    <2>1. /\ pc' \in [Thread -> {"idle", "check", "file"} \cup LogLabels]
          /\ req' \in [Thread -> Request \cup {NoRequest}]
          /\ \A u \in Thread : pc'[u] # "idle" => req'[u] \in Request
          /\ found' \in [Thread -> [cited : Citation, at : 0 .. MaxTime]]
      BY <1>2 DEF TypeOK, Select, Goto, LogLabels
    <2> QED
      BY <1>2, <2>1, TypeParts DEF TypeOK, Select
  <1>3. ASSUME NEW t \in Thread, NEW a \in ApprovalId, CheckFinds(t, a) PROVE TypeOK'
    <2>1. approvals[a] \in Row
      BY <1>3, FiledIsRow DEF CheckFinds, ActiveApprovals, Newest, Honoured
    <2>2. Found(Cite(a, approvals[a].reviewed_by), now) \in [cited : Citation, at : 0 .. MaxTime]
      BY <2>1 DEF TypeOK, Row, Found, Cite, Citation
    <2>3. found' \in [Thread -> [cited : Citation, at : 0 .. MaxTime]]
      BY <1>3, <2>2 DEF TypeOK, CheckFinds
    <2> QED
      BY <1>3, <2>3 DEF TypeOK, CheckFinds, Goto, LogLabels
  <1>4. ASSUME NEW t \in Thread, CheckFindsNone(t) PROVE TypeOK'
    BY <1>4 DEF TypeOK, CheckFindsNone, Goto, LogLabels
  <1>5. ASSUME NEW t \in Thread, NEW a \in ApprovalId, FileRequest(t, a) PROVE TypeOK'
    <2>1. Found(Cite(a, Nobody), now) \in [cited : Citation, at : 0 .. MaxTime]
      BY DEF TypeOK, Found, Cite, Citation
    <2>2. found' \in [Thread -> [cited : Citation, at : 0 .. MaxTime]]
      BY <1>5, <2>1 DEF TypeOK, FileRequest
    <2>3. approvals' \in [ApprovalId -> Row \cup {NoRow}]
      BY <1>5, FileEffect
    <2> QED
      BY <1>5, <2>2, <2>3 DEF TypeOK, FileRequest, Goto, LogLabels
  <1>6. ASSUME NEW t \in Thread, WriteLedger(t) PROVE TypeOK'
    <2>1. usage' \in Seq(UsageRows)
      BY <1>6, CallRow, GrowByOne DEF TypeOK, WriteLedger
    <2>2. Forget({t}) /\ {t} \in SUBSET Thread /\ UNCHANGED << approvals, section, now, begun >>
      BY <1>6 DEF WriteLedger
    <2> QED
      BY <2>1, <2>2, ForgetType, TypeParts DEF TypeOK
  <1>7. ASSUME NEW t \in Thread, CallFails(t) PROVE TypeOK'
    <2>1. Forget({t}) /\ {t} \in SUBSET Thread /\ UNCHANGED << approvals, usage, section, now, begun >>
      BY <1>7 DEF CallFails
    <2> QED
      BY <2>1, ForgetType, TypeParts DEF TypeOK
  <1>8. ASSUME NEW p \in Process, NEW a \in ApprovalId, NEW by \in Person,
               NEW status \in {"APPROVED", "DENIED"}, ReadRequest(p, a, by, status)
        PROVE  TypeOK'
    <2>1. section' \in [Process -> Section]
      BY <1>8 DEF TypeOK, ReadRequest, Enter, Section
    <2> QED
      BY <1>8, <2>1, TypeParts DEF TypeOK, ReadRequest
  <1>9. ASSUME NEW p \in Process, NEW at \in 0 .. MaxTime, CommitReview(p, at) PROVE TypeOK'
    <2>1. section[p].approval \in Filed
      BY <1>9, SectionType DEF SectionsFiled, CommitReview, Under
    <2>2. PICK row \in UsageRows :
              /\ approvals' \in [ApprovalId -> Row \cup {NoRow}]
              /\ usage' = Append(usage, row)
              /\ Leave(p) /\ UNCHANGED << pc, req, found, now, begun >>
      BY <1>9, <2>1, ReviewEffect
    <2>3. usage' \in Seq(UsageRows)
      BY <2>2, GrowByOne DEF TypeOK
    <2> QED
      BY <2>2, <2>3, LeaveType, TypeParts DEF TypeOK
  <1>10. ASSUME NEW p \in Process, ReadTestApprovals(p) PROVE TypeOK'
    <2>1. TestApprovals \in SUBSET ApprovalId
      BY DEF TestApprovals, Filed
    <2>2. section' \in [Process -> Section]
      BY <1>10, <2>1 DEF TypeOK, ReadTestApprovals, Enter, Section
    <2> QED
      BY <1>10, <2>2, TypeParts DEF TypeOK, ReadTestApprovals
  <1>11. ASSUME NEW p \in Process, CommitExpiry(p) PROVE TypeOK'
    <2>1. section[p].rows \subseteq Filed
      BY <1>11, SectionType DEF SectionsFiled, CommitExpiry, Under
    <2>2. /\ approvals' \in [ApprovalId -> Row \cup {NoRow}]
          /\ Leave(p) /\ UNCHANGED << usage, pc, req, found, now, begun >>
      BY <1>11, <2>1, ExpireEffect
    <2> QED
      BY <2>2, LeaveType, TypeParts DEF TypeOK
  <1>12. ASSUME NEW p \in Process, SectionFails(p) PROVE TypeOK'
    BY <1>12, LeaveType, TypeParts DEF TypeOK, SectionFails
  <1>13. ASSUME NEW p \in Process, Crash(p) PROVE TypeOK'
    <2>1. /\ Forget({t \in Thread : ProcessOf[t] = p}) /\ {t \in Thread : ProcessOf[t] = p} \in SUBSET Thread
          /\ Leave(p) /\ UNCHANGED << approvals, usage, now, begun >>
      BY <1>13 DEF Crash
    <2> QED
      BY <2>1, ForgetType, LeaveType, TypeParts DEF TypeOK
  <1>14. CASE Tick
    <2>1. now' \in 0 .. MaxTime
      BY <1>14 DEF TypeOK, Tick
    <2> QED
      BY <1>14, <2>1, TypeParts DEF TypeOK, Tick
  <1> QED
    BY <1>1, <1>2, <1>3, <1>4, <1>5, <1>6, <1>7, <1>8, <1>9, <1>10, <1>11, <1>12, <1>13, <1>14 DEF Next

---------------------------------------------------------------------------
(* What the steps do to the two tables *)

SInv == TypeOK /\ RowsOK /\ SectionsOK /\ DecisionsAgree

\* Every step leaves both tables alone, files a request, writes a usage row,
\* or commits a review or an expiry.
LEMMA TableCases ==
    ASSUME [Next]_vars
    PROVE  \/ UNCHANGED << approvals, usage >>
           \/ \E t \in Thread, a \in ApprovalId : FileRequest(t, a)
           \/ \E t \in Thread : WriteLedger(t)
           \/ \E p \in Process, at \in 0 .. MaxTime : CommitReview(p, at)
           \/ \E p \in Process : CommitExpiry(p)
  BY DEF Next, vars, Select, CheckFinds, CheckFindsNone, CallFails, ReadRequest, ReadTestApprovals,
         SectionFails, Tick, Crash

\* A review that commits, from a state of the invariant.
LEMMA Review ==
    ASSUME SInv, NEW p \in Process, NEW at \in 0 .. MaxTime, CommitReview(p, at)
    PROVE  \E a \in ApprovalId, row \in UsageRows :
              /\ Under(p, a) /\ section[p].op = "review" /\ a \in Filed /\ ~Settled(a) /\ ~DecidedBy(p, a)
              /\ at <= now
              /\ a \in Filed' /\ approvals'[a] \in Row
              /\ approvals'[a].status \in {"APPROVED", "DENIED"}
              /\ approvals'[a].source = "OPERATOR"
              /\ approvals'[a].requested_by = approvals[a].requested_by
              /\ approvals'[a].prompt = approvals[a].prompt
              /\ approvals'[a].reviewed_at = at
              /\ approvals'[a].expires_at = Expiry(approvals'[a].status, at)
              /\ \A b \in ApprovalId : b # a => approvals'[b] = approvals[b]
              /\ usage' = Append(usage, row)
              /\ row.decision = DecisionOf(approvals'[a].status)
              /\ row.cited = Cite(a, approvals'[a].reviewed_by) /\ row.prompt = approvals[a].prompt
              /\ row.at = at /\ row.process = p
              /\ Decides(row, a)
              /\ \A b \in ApprovalId : b # a => ~Decides(row, b)
              /\ Leave(p) /\ UNCHANGED << pc, req, found, now, begun >>
  <1>1. TypeOK /\ SectionsOK
    BY DEF SInv
  <1>2. section[p].op = "review" /\ section[p].approval \in ApprovalId
    BY <1>1, SectionType DEF CommitReview
  <1>3. Under(p, section[p].approval)
    BY <1>2 DEF Under
  <1>4. section[p].approval \in Filed /\ ~Settled(section[p].approval) /\ ~DecidedBy(p, section[p].approval)
    BY <1>1, <1>2, <1>3 DEF SectionsOK
  <1>5. PICK a \in ApprovalId, row \in UsageRows :
              /\ Under(p, a) /\ section[p].op = "review" /\ section[p].approval = a
              /\ at <= now
              /\ approvals'[a] \in Row
              /\ approvals'[a].status = section[p].status
              /\ section[p].status \in {"APPROVED", "DENIED"}
              /\ approvals'[a].source = "OPERATOR"
              /\ approvals'[a].requested_by = approvals[a].requested_by
              /\ approvals'[a].prompt = approvals[a].prompt
              /\ approvals'[a].reviewed_by = section[p].by
              /\ approvals'[a].reviewed_at = at
              /\ approvals'[a].expires_at = Expiry(section[p].status, at)
              /\ \A b \in ApprovalId : b # a => approvals'[b] = approvals[b]
              /\ usage' = Append(usage, row)
              /\ row.decision = DecisionOf(section[p].status)
              /\ row.cited = Cite(a, section[p].by) /\ row.prompt = approvals[a].prompt
              /\ row.at = at /\ row.process = p
              /\ Leave(p) /\ UNCHANGED << pc, req, found, now, begun >>
    BY <1>1, <1>4, ReviewEffect
  <1>6. Decides(row, a) /\ \A b \in ApprovalId : b # a => ~Decides(row, b)
    BY <1>5 DEF Decides, DecisionOf, Cite
  <1>7. a \in Filed'
    <2>1. approvals'[a].status # "none"
      BY <1>5
    <2> QED
      BY <2>1 DEF Filed, NoRow
  <1> QED
    BY <1>4, <1>5, <1>6, <1>7

\* An expiry that commits, from a state of the invariant.
LEMMA Expire ==
    ASSUME SInv, NEW p \in Process, CommitExpiry(p)
    PROVE  /\ \A a \in ApprovalId :
                 IF Under(p, a)
                 THEN /\ a \in Filed /\ a \in Filed' /\ approvals'[a].status = "EXPIRED"
                      /\ approvals'[a].reviewed_at = now
                      /\ SourceOf[approvals'[a].requested_by] = "TEST"
                      /\ Settled(a) => a \in TestApprovals
                 ELSE approvals'[a] = approvals[a]
           /\ section[p].op = "expire" /\ Leave(p)
           /\ UNCHANGED << usage, pc, req, found, now, begun >>
  <1>1. TypeOK /\ SectionsOK
    BY DEF SInv
  <1>2. section[p].op = "expire"
    BY DEF CommitExpiry
  <1>3. section[p].rows \in SUBSET ApprovalId
    BY <1>1, <1>2, SectionType
  <1>4. section[p].rows \subseteq Filed
    BY <1>1, <1>2, <1>3 DEF SectionsOK, Under
  <1>5. /\ \A a \in ApprovalId :
                 IF Under(p, a)
                 THEN /\ approvals'[a] \in Row /\ approvals'[a].status = "EXPIRED"
                      /\ approvals'[a].reviewed_at = now
                      /\ approvals'[a].source = approvals[a].source
                      /\ approvals'[a].requested_by = approvals[a].requested_by
                 ELSE approvals'[a] = approvals[a]
        /\ Leave(p)
        /\ UNCHANGED << usage, pc, req, found, now, begun >>
    BY <1>1, <1>4, ExpireEffect
  <1>6. ASSUME NEW a \in ApprovalId, Under(p, a)
        PROVE  /\ a \in Filed /\ a \in Filed'
               /\ SourceOf[approvals'[a].requested_by] = "TEST"
               /\ Settled(a) => a \in TestApprovals
    <2>1. a \in Filed /\ SourceOf[approvals[a].requested_by] = "TEST"
          /\ (Settled(a) => a \in TestApprovals)
      BY <1>1, <1>2, <1>6 DEF SectionsOK
    <2>2. approvals'[a].status # "none" /\ approvals'[a].requested_by = approvals[a].requested_by
      BY <1>5, <1>6
    <2> QED
      BY <2>1, <2>2 DEF Filed, NoRow
  <1> QED
    BY <1>2, <1>5, <1>6

\* A call writes a row that decides nothing.
LEMMA Use ==
    ASSUME TypeOK, NEW t \in Thread, WriteLedger(t)
    PROVE  \E row \in UsageRows :
              /\ usage' = Append(usage, row) /\ UNCHANGED << approvals, section, now, begun >>
              /\ row.decision \notin {"APPROVAL_APPROVED", "APPROVAL_DENIED"}
              /\ \A b \in ApprovalId : ~Decides(row, b)
              /\ row.decision = "ALLOWED" => pc[t] = "log_allowed"
              /\ row.prompt = req[t].prompt /\ row.cited = found[t].cited /\ row.at = found[t].at
  <1> DEFINE row == UsageRow(req[t].prompt, req[t].agent, Decision(pc[t]), found[t], ProcessOf[t])
  <1>1. /\ row \in UsageRows
        /\ row.decision \notin {"APPROVAL_APPROVED", "APPROVAL_DENIED"}
        /\ row.decision = "ALLOWED" => pc[t] = "log_allowed"
        /\ row.prompt = req[t].prompt /\ row.cited = found[t].cited /\ row.at = found[t].at
    BY CallRow DEF WriteLedger
  <1>2. usage' = Append(usage, row) /\ UNCHANGED << approvals, section, now, begun >>
    BY DEF WriteLedger
  <1> HIDE DEF row
  <1> QED
    BY <1>1, <1>2 DEF Decides

\* The ledger stays as it is or grows by a row.
LEMMA UsageGrows ==
    ASSUME SInv, [Next]_vars
    PROVE  usage' = usage \/ \E row \in UsageRows : usage' = Append(usage, row)
  <1>1. CASE UNCHANGED << approvals, usage >>
    BY <1>1
  <1>2. CASE \E t \in Thread, a \in ApprovalId : FileRequest(t, a)
    BY <1>2 DEF FileRequest
  <1>3. CASE \E t \in Thread : WriteLedger(t)
    BY <1>3, Use DEF SInv
  <1>4. CASE \E p \in Process, at \in 0 .. MaxTime : CommitReview(p, at)
    BY <1>4, Review
  <1>5. CASE \E p \in Process : CommitExpiry(p)
    BY <1>5 DEF CommitExpiry
  <1> QED
    BY <1>1, <1>2, <1>3, <1>4, <1>5, TableCases

\* Rows that decide nothing on b leave the decisions on b as they are.
LEMMA SameDecisions ==
    ASSUME TypeOK, NEW b \in ApprovalId,
           \/ usage' = usage
           \/ \E row \in UsageRows : usage' = Append(usage, row) /\ ~Decides(row, b)
    PROVE  /\ DOMAIN usage \subseteq DOMAIN usage' /\ \A i \in DOMAIN usage : usage'[i] = usage[i]
           /\ \A i \in DOMAIN usage' : Decides(usage'[i], b) => i \in DOMAIN usage
           /\ Decided(b)' <=> Decided(b)
           /\ \A p \in Process : DecidedBy(p, b)' <=> DecidedBy(p, b)
           /\ \A i \in DOMAIN usage : LastDecision(b, i) => LastDecision(b, i)'
  <1> usage \in Seq(UsageRows)
    BY DEF TypeOK
  <1>1. CASE usage' = usage
    BY <1>1 DEF Decided, DecidedBy, LastDecision
  <1>2. ASSUME NEW row \in UsageRows, usage' = Append(usage, row), ~Decides(row, b)
        PROVE  /\ DOMAIN usage \subseteq DOMAIN usage' /\ \A i \in DOMAIN usage : usage'[i] = usage[i]
               /\ \A i \in DOMAIN usage' : Decides(usage'[i], b) => i \in DOMAIN usage
    BY <1>2, GrowByOne
  <1>3. CASE \E row \in UsageRows : usage' = Append(usage, row) /\ ~Decides(row, b)
    BY <1>2, <1>3 DEF Decided, DecidedBy, LastDecision
  <1> QED
    BY <1>1, <1>3

\* A decision is the last one on its request and by its process.
LEMMA NewDecision ==
    ASSUME TypeOK, NEW b \in ApprovalId, NEW row \in UsageRows, usage' = Append(usage, row),
           Decides(row, b)
    PROVE  /\ \A i \in DOMAIN usage : i \in DOMAIN usage' /\ usage'[i] = usage[i]
           /\ \A i \in DOMAIN usage' : i \notin DOMAIN usage => usage'[i] = row
           /\ \A i, j \in DOMAIN usage' : i \notin DOMAIN usage /\ j \notin DOMAIN usage => i = j
           /\ Decided(b)'
           /\ \E i \in DOMAIN usage' : LastDecision(b, i)' /\ usage'[i] = row
           /\ \A q \in Process : q # row.process => (DecidedBy(q, b)' <=> DecidedBy(q, b))
  <1> usage \in Seq(UsageRows)
    BY DEF TypeOK
  <1>1. PICK n : n = Len(usage) + 1
    OBVIOUS
  <1>2. /\ n \notin DOMAIN usage /\ n \in DOMAIN usage' /\ usage'[n] = row
        /\ \A i \in DOMAIN usage : i \in DOMAIN usage' /\ usage'[i] = usage[i] /\ i <= n
        /\ \A i \in DOMAIN usage' : i \notin DOMAIN usage => i = n
        /\ n <= n
    BY <1>1, GrowByOne
  <1>3. LastDecision(b, n)'
    BY <1>2 DEF LastDecision
  <1>4. Decided(b)'
    BY <1>2 DEF Decided
  <1>5. ASSUME NEW q \in Process, q # row.process
        PROVE  DecidedBy(q, b)' <=> DecidedBy(q, b)
    <2>1. ASSUME DecidedBy(q, b) PROVE DecidedBy(q, b)'
      BY <1>2, <2>1 DEF DecidedBy
    <2>2. ASSUME DecidedBy(q, b)' PROVE DecidedBy(q, b)
      <3>1. PICK i \in DOMAIN usage' : Decides(usage'[i], b) /\ usage'[i].process = q
        BY <2>2 DEF DecidedBy
      <3>2. i \in DOMAIN usage /\ usage'[i] = usage[i]
        BY <1>2, <1>5, <3>1
      <3> QED
        BY <3>1, <3>2 DEF DecidedBy
    <2> QED
      BY <2>1, <2>2
  <1> QED
    BY <1>2, <1>3, <1>4, <1>5

\* Of the decisions the migration left, a step touches tests' only, and makes
\* none.
LEMMA SettledSteps ==
    ASSUME SInv, [Next]_vars, NEW b \in ApprovalId
    PROVE  /\ Settled(b)' => Settled(b) /\ approvals'[b] = approvals[b]
           /\ Settled(b) /\ b \notin TestApprovals => Settled(b)' /\ approvals'[b] = approvals[b]
  <1> TypeOK
    BY DEF SInv
  <1>1. CASE UNCHANGED << approvals, usage >>
    BY <1>1 DEF Settled, Decided
  <1>2. ASSUME NEW t \in Thread, NEW a \in ApprovalId, FileRequest(t, a)
        PROVE  /\ Settled(b)' => Settled(b) /\ approvals'[b] = approvals[b]
               /\ Settled(b) => Settled(b)' /\ approvals'[b] = approvals[b]
    <2>1. usage' = usage /\ a \notin Legacy /\ \A c \in ApprovalId : c # a => approvals'[c] = approvals[c]
      BY <1>2, FileEffect
    <2>2. Decided(b)' <=> Decided(b)
      BY <2>1, SameDecisions
    <2> QED
      BY <2>1, <2>2 DEF Settled
  <1>3. ASSUME NEW t \in Thread, WriteLedger(t)
        PROVE  /\ Settled(b)' => Settled(b) /\ approvals'[b] = approvals[b]
               /\ Settled(b) => Settled(b)' /\ approvals'[b] = approvals[b]
    <2>1. PICK row \in UsageRows : /\ usage' = Append(usage, row) /\ approvals' = approvals
                                   /\ ~Decides(row, b)
      BY <1>3, Use
    <2>2. Decided(b)' <=> Decided(b)
      BY <2>1, SameDecisions
    <2> QED
      BY <2>1, <2>2 DEF Settled
  <1>4. ASSUME NEW p \in Process, NEW at \in 0 .. MaxTime, CommitReview(p, at)
        PROVE  /\ Settled(b)' => Settled(b) /\ approvals'[b] = approvals[b]
               /\ Settled(b) => Settled(b)' /\ approvals'[b] = approvals[b]
    <2>1. PICK a \in ApprovalId, row \in UsageRows :
              /\ ~Settled(a)
              /\ \A c \in ApprovalId : c # a => approvals'[c] = approvals[c]
              /\ usage' = Append(usage, row)
              /\ Decides(row, a)
              /\ \A c \in ApprovalId : c # a => ~Decides(row, c)
      BY <1>4, Review
    <2>2. CASE b = a
      <3>1. Decided(b)'
        BY <2>1, <2>2, NewDecision
      <3> QED
        BY <2>1, <2>2, <3>1 DEF Settled
    <2>3. CASE b # a
      <3>1. Decided(b)' <=> Decided(b)
        BY <2>1, <2>3, SameDecisions
      <3>2. approvals'[b] = approvals[b]
        BY <2>1, <2>3
      <3> QED
        BY <3>1, <3>2 DEF Settled
    <2> QED
      BY <2>2, <2>3
  <1>5. ASSUME NEW p \in Process, CommitExpiry(p)
        PROVE  /\ Settled(b)' => Settled(b) /\ approvals'[b] = approvals[b]
               /\ Settled(b) /\ b \notin TestApprovals => Settled(b)' /\ approvals'[b] = approvals[b]
    <2>1. /\ IF Under(p, b)
             THEN /\ approvals'[b].status = "EXPIRED"
                  /\ Settled(b) => b \in TestApprovals
             ELSE approvals'[b] = approvals[b]
          /\ usage' = usage
      BY <1>5, Expire
    <2>2. Decided(b)' <=> Decided(b)
      BY <2>1, SameDecisions
    <2> QED
      BY <2>1, <2>2 DEF Settled
  <1> QED
    BY <1>1, <1>2, <1>3, <1>4, <1>5, TableCases

\* Filed requests stay filed, and time does not go back.
LEMMA FiledStays ==
    ASSUME SInv, [Next]_vars
    PROVE  Filed \subseteq Filed' /\ now <= now' /\ now \in Nat /\ now' \in Nat
  <1> TypeOK
    BY DEF SInv
  <1>1. ASSUME NEW b \in Filed PROVE b \in Filed'
    <2>1. b \in ApprovalId /\ approvals[b] # NoRow
      BY DEF Filed
    <2>2. CASE UNCHANGED << approvals, usage >>
      BY <2>1, <2>2 DEF Filed
    <2>3. CASE \E t \in Thread, a \in ApprovalId : FileRequest(t, a)
      BY <2>1, <2>3, FileEffect DEF Filed
    <2>4. CASE \E t \in Thread : WriteLedger(t)
      BY <2>1, <2>4 DEF Filed, WriteLedger
    <2>5. CASE \E p \in Process, at \in 0 .. MaxTime : CommitReview(p, at)
      BY <2>1, <2>5, Review DEF Filed
    <2>6. CASE \E p \in Process : CommitExpiry(p)
      BY <2>1, <2>6, Expire DEF Filed
    <2> QED
      BY <2>2, <2>3, <2>4, <2>5, <2>6, TableCases
  <1>2. now \in Nat
    BY DEF TypeOK
  <1>3. now' = now \/ now' = now + 1
    BY DEF Next, vars, Select, CheckFinds, CheckFindsNone, FileRequest, WriteLedger, CallFails,
           ReadRequest, CommitReview, ReadTestApprovals, CommitExpiry, SectionFails, Crash, Tick
  <1> QED
    BY <1>1, <1>2, <1>3

---------------------------------------------------------------------------
(* The inductive invariant *)

\* The part of DecisionsAgree that is about request a.
Agree(a) ==
    /\ \A i, j \in DOMAIN usage :
          Decides(usage[i], a) /\ Decides(usage[j], a) /\ usage[i].process = usage[j].process => i = j
    /\ approvals[a].status \in {"APPROVED", "DENIED"} =>
          \/ Settled(a)
          \/ \E i \in DOMAIN usage : /\ LastDecision(a, i)
                                     /\ usage[i].decision = DecisionOf(approvals[a].status)
                                     /\ usage[i].cited.by = approvals[a].reviewed_by
    /\ Decided(a) =>
          \/ approvals[a].status \in {"APPROVED", "DENIED"}
          \/ approvals[a].status = "EXPIRED" /\ SourceOf[approvals[a].requested_by] = "TEST"

\* Agreement is kept for a request whose row and decisions stay as they are.
LEMMA AgreeKept ==
    ASSUME TypeOK, NEW b \in ApprovalId, Agree(b), approvals'[b] = approvals[b],
           \/ usage' = usage
           \/ \E row \in UsageRows : usage' = Append(usage, row) /\ ~Decides(row, b)
    PROVE  Agree(b)'
  <1>1. /\ DOMAIN usage \subseteq DOMAIN usage' /\ \A i \in DOMAIN usage : usage'[i] = usage[i]
        /\ \A i \in DOMAIN usage' : Decides(usage'[i], b) => i \in DOMAIN usage
        /\ Decided(b)' <=> Decided(b)
        /\ \A i \in DOMAIN usage : LastDecision(b, i) => LastDecision(b, i)'
    BY SameDecisions
  <1>2. Settled(b) => Settled(b)'
    BY <1>1 DEF Settled
  <1>3. \A i, j \in DOMAIN usage' :
          Decides(usage'[i], b) /\ Decides(usage'[j], b) /\ usage'[i].process = usage'[j].process => i = j
    BY <1>1 DEF Agree
  <1>4. ASSUME approvals'[b].status \in {"APPROVED", "DENIED"}, ~Settled(b)'
        PROVE  \E i \in DOMAIN usage' : /\ LastDecision(b, i)'
                                        /\ usage'[i].decision = DecisionOf(approvals'[b].status)
                                        /\ usage'[i].cited.by = approvals'[b].reviewed_by
    <2>1. PICK i \in DOMAIN usage : /\ LastDecision(b, i)
                                    /\ usage[i].decision = DecisionOf(approvals[b].status)
                                    /\ usage[i].cited.by = approvals[b].reviewed_by
      BY <1>2, <1>4 DEF Agree
    <2>2. i \in DOMAIN usage' /\ usage'[i] = usage[i] /\ LastDecision(b, i)'
      BY <1>1, <2>1
    <2> QED
      BY <2>1, <2>2
  <1> QED
    BY <1>1, <1>3, <1>4 DEF Agree

\* Table and ledger agree after every step.
LEMMA DecisionStep == SInv /\ [Next]_vars => DecisionsAgree'
  <1> SUFFICES ASSUME SInv, [Next]_vars, NEW b \in ApprovalId PROVE Agree(b)'
    BY DEF DecisionsAgree, Agree
  <1> TypeOK /\ Agree(b)
    BY DEF SInv, DecisionsAgree, Agree
  <1>1. CASE UNCHANGED << approvals, usage >>
    BY <1>1, AgreeKept
  <1>2. ASSUME NEW t \in Thread, NEW a \in ApprovalId, FileRequest(t, a) PROVE Agree(b)'
    <2>1. /\ usage' = usage /\ a \notin Filed
          /\ approvals'[a].status = "PENDING"
          /\ \A c \in ApprovalId : c # a => approvals'[c] = approvals[c]
      BY <1>2, FileEffect
    <2>2. CASE b # a
      BY <2>1, <2>2, AgreeKept
    <2>3. CASE b = a
      <3>1. approvals[b].status \notin {"APPROVED", "DENIED", "EXPIRED"}
        BY <2>1, <2>3, FiledIsRow DEF Status
      <3>2. ~Decided(b)
        BY <3>1 DEF Agree
      <3>3. ~Decided(b)'
        BY <2>1, <3>2 DEF Decided
      <3> QED
        BY <2>1, <2>3, <3>2, <3>3 DEF Agree, Decided
    <2> QED
      BY <2>2, <2>3
  <1>3. ASSUME NEW t \in Thread, WriteLedger(t) PROVE Agree(b)'
    <2>1. PICK row \in UsageRows : /\ usage' = Append(usage, row) /\ approvals' = approvals
                                   /\ ~Decides(row, b)
      BY <1>3, Use
    <2> QED
      BY <2>1, AgreeKept
  <1>4. ASSUME NEW p \in Process, NEW at \in 0 .. MaxTime, CommitReview(p, at) PROVE Agree(b)'
    <2>1. PICK a \in ApprovalId, row \in UsageRows :
              /\ ~DecidedBy(p, a)
              /\ approvals'[a].status \in {"APPROVED", "DENIED"}
              /\ \A c \in ApprovalId : c # a => approvals'[c] = approvals[c]
              /\ usage' = Append(usage, row)
              /\ row.decision = DecisionOf(approvals'[a].status)
              /\ row.cited = Cite(a, approvals'[a].reviewed_by)
              /\ row.process = p
              /\ Decides(row, a)
              /\ \A c \in ApprovalId : c # a => ~Decides(row, c)
      BY <1>4, Review
    <2>2. CASE b # a
      BY <2>1, <2>2, AgreeKept
    <2>3. CASE b = a
      <3>1. /\ \A i \in DOMAIN usage : i \in DOMAIN usage' /\ usage'[i] = usage[i]
            /\ \A i \in DOMAIN usage' : i \notin DOMAIN usage => usage'[i] = row
            /\ \A i, j \in DOMAIN usage' : i \notin DOMAIN usage /\ j \notin DOMAIN usage => i = j
            /\ Decided(b)'
            /\ \E i \in DOMAIN usage' : LastDecision(b, i)' /\ usage'[i] = row
        BY <2>1, <2>3, NewDecision
      <3>2. \A i \in DOMAIN usage : Decides(usage[i], b) => usage[i].process # p
        BY <2>1, <2>3 DEF DecidedBy
      <3>3. ASSUME NEW i \in DOMAIN usage', NEW j \in DOMAIN usage',
                   Decides(usage'[i], b), Decides(usage'[j], b), usage'[i].process = usage'[j].process
            PROVE  i = j
        BY <2>1, <3>1, <3>2, <3>3 DEF Agree
      <3>4. row.cited.by = approvals'[b].reviewed_by
        BY <2>1, <2>3 DEF Cite
      <3> QED
        BY <2>1, <2>3, <3>1, <3>3, <3>4 DEF Agree
    <2> QED
      BY <2>2, <2>3
  <1>5. ASSUME NEW p \in Process, CommitExpiry(p) PROVE Agree(b)'
    <2>1. /\ IF Under(p, b)
             THEN /\ approvals'[b].status = "EXPIRED"
                  /\ SourceOf[approvals'[b].requested_by] = "TEST"
             ELSE approvals'[b] = approvals[b]
          /\ usage' = usage
      BY <1>5, Expire
    <2>2. CASE ~Under(p, b)
      BY <2>1, <2>2, AgreeKept
    <2>3. CASE Under(p, b)
      BY <2>1, <2>3 DEF Agree
    <2> QED
      BY <2>2, <2>3
  <1> QED
    BY <1>1, <1>2, <1>3, <1>4, <1>5, TableCases

\* Every step leaves the rows as they ought to be.
LEMMA RowsStep == SInv /\ [Next]_vars => RowsOK'
  <1> SUFFICES ASSUME SInv, [Next]_vars, NEW b \in Filed' PROVE RowOK(b)'
    BY DEF RowsOK
  <1> TypeOK
    BY DEF SInv
  <1> b \in ApprovalId
    BY DEF Filed
  <1>1. now <= now' /\ now \in Nat /\ now' \in Nat
    BY FiledStays
  <1>2. /\ Settled(b)' => Settled(b) /\ approvals'[b] = approvals[b]
        /\ Settled(b) /\ b \notin TestApprovals => Settled(b)' /\ approvals'[b] = approvals[b]
    BY SettledSteps
  <1>3. ASSUME approvals'[b] = approvals[b], Settled(b)' <=> Settled(b) PROVE RowOK(b)'
    <2>1. b \in Filed
      BY <1>3 DEF Filed
    <2>2. RowOK(b) /\ approvals[b].reviewed_at \in 0 .. MaxTime
      BY <2>1, FiledIsRow DEF SInv, RowsOK, Row
    <2> QED
      BY <1>1, <1>3, <2>2 DEF RowOK
  <1>4. CASE UNCHANGED << approvals, usage >>
    BY <1>3, <1>4 DEF Settled, Decided
  <1>5. ASSUME NEW t \in Thread, NEW a \in ApprovalId, FileRequest(t, a) PROVE RowOK(b)'
    <2>1. /\ usage' = usage /\ now' = now /\ a \notin Legacy
          /\ approvals'[a].status = "PENDING" /\ approvals'[a].reviewed_at = 0
          /\ approvals'[a].source = SourceOf[approvals'[a].requested_by]
          /\ \A c \in ApprovalId : c # a => approvals'[c] = approvals[c]
      BY <1>5, FileEffect
    <2>2. CASE b # a
      BY <1>3, <2>1, <2>2 DEF Settled, Decided
    <2>3. CASE b = a
      BY <1>1, <2>1, <2>3 DEF RowOK, Settled
    <2> QED
      BY <2>2, <2>3
  <1>6. ASSUME NEW t \in Thread, WriteLedger(t) PROVE RowOK(b)'
    <2>1. PICK row \in UsageRows : /\ usage' = Append(usage, row) /\ approvals' = approvals
                                   /\ ~Decides(row, b)
      BY <1>6, Use
    <2>2. Decided(b)' <=> Decided(b)
      BY <2>1, SameDecisions
    <2> QED
      BY <1>3, <2>1, <2>2 DEF Settled
  <1>7. ASSUME NEW p \in Process, NEW at \in 0 .. MaxTime, CommitReview(p, at) PROVE RowOK(b)'
    <2>1. PICK a \in ApprovalId, row \in UsageRows :
              /\ at <= now /\ now' = now
              /\ approvals'[a].status \in {"APPROVED", "DENIED"}
              /\ approvals'[a].source = "OPERATOR"
              /\ approvals'[a].reviewed_at = at
              /\ approvals'[a].expires_at = Expiry(approvals'[a].status, at)
              /\ \A c \in ApprovalId : c # a => approvals'[c] = approvals[c]
              /\ usage' = Append(usage, row)
              /\ Decides(row, a)
              /\ \A c \in ApprovalId : c # a => ~Decides(row, c)
      BY <1>7, Review
    <2>2. CASE b # a
      <3>1. Decided(b)' <=> Decided(b)
        BY <2>1, <2>2, SameDecisions
      <3>2. approvals'[b] = approvals[b]
        BY <2>1, <2>2
      <3> QED
        BY <1>3, <3>1, <3>2 DEF Settled
    <2>3. CASE b = a
      <3>1. ~Settled(b)'
        BY <2>1, <2>3, NewDecision DEF Settled
      <3>2. approvals'[b].status = "APPROVED" => approvals'[b].expires_at = at + TTL
        BY <2>1, <2>3 DEF Expiry
      <3> QED
        BY <2>1, <2>3, <3>1, <3>2 DEF RowOK
    <2> QED
      BY <2>2, <2>3
  <1>8. ASSUME NEW p \in Process, CommitExpiry(p) PROVE RowOK(b)'
    <2>1. /\ IF Under(p, b)
             THEN /\ approvals'[b].status = "EXPIRED" /\ approvals'[b].reviewed_at = now
                  /\ SourceOf[approvals'[b].requested_by] = "TEST"
             ELSE approvals'[b] = approvals[b]
          /\ usage' = usage /\ now' = now
      BY <1>8, Expire
    <2>2. CASE ~Under(p, b)
      BY <1>3, <2>1, <2>2 DEF Settled, Decided
    <2>3. CASE Under(p, b)
      BY <1>1, <2>1, <2>3 DEF RowOK, Settled
    <2> QED
      BY <2>2, <2>3
  <1> QED
    BY <1>4, <1>5, <1>6, <1>7, <1>8, TableCases

\* What a process is in the middle of stays its to write.
LEMMA SectionStep == SInv /\ [Next]_vars => SectionsOK'
  <1> SUFFICES ASSUME SInv, [Next]_vars PROVE SectionsOK'
    OBVIOUS
  <1> TypeOK /\ SectionsOK /\ RowsOK /\ DecisionsAgree
    BY DEF SInv
  <1> DEFINE Good(q) ==
        /\ section[q].op = "review" => section[q].began <= now
        /\ \A a \in ApprovalId : Under(q, a) =>
              /\ a \in Filed /\ ~DecidedBy(q, a)
              /\ Settled(a) => section[q].op = "expire" /\ a \in TestApprovals
              /\ section[q].op = "expire" => SourceOf[approvals[a].requested_by] = "TEST"
  <1>1. Filed \subseteq Filed' /\ now <= now' /\ now \in Nat /\ now' \in Nat
    BY FiledStays
  <1>2. \A a \in ApprovalId : Settled(a)' => Settled(a) /\ approvals'[a] = approvals[a]
    BY SettledSteps
  <1>3. ASSUME NEW q \in Process, section'[q] = NoSection PROVE Good(q)'
    BY <1>3 DEF NoSection, Under
  \* a process that neither enters nor leaves its section
  <1>4. ASSUME NEW q \in Process, section'[q] = section[q], section[q] # NoSection,
               \A a \in ApprovalId : Under(q, a) =>
                  /\ DecidedBy(q, a)' <=> DecidedBy(q, a)
                  /\ approvals'[a].requested_by = approvals[a].requested_by
        PROVE  Good(q)'
    <2>1. \A a : Under(q, a)' <=> Under(q, a)
      BY <1>4 DEF Under
    <2>2. Good(q)
      BY DEF SectionsOK
    <2>3. section[q].op = "review" => section[q].began \in 0 .. MaxTime
      BY SectionType
    <2>4. section'[q].op = "review" => section'[q].began <= now'
      BY <1>1, <1>4, <2>2, <2>3
    <2>5. ASSUME NEW a \in ApprovalId, Under(q, a)'
          PROVE  /\ a \in Filed' /\ ~DecidedBy(q, a)'
                 /\ Settled(a)' => section'[q].op = "expire" /\ a \in TestApprovals'
                 /\ section'[q].op = "expire" => SourceOf[approvals'[a].requested_by] = "TEST"
      <3>1. /\ Under(q, a) /\ a \in Filed /\ ~DecidedBy(q, a)
            /\ Settled(a) => section[q].op = "expire" /\ a \in TestApprovals
            /\ section[q].op = "expire" => SourceOf[approvals[a].requested_by] = "TEST"
        BY <2>1, <2>2, <2>5
      <3>2. a \in Filed' /\ ~DecidedBy(q, a)'
        BY <1>1, <1>4, <3>1
      <3>3. section'[q].op = "expire" => SourceOf[approvals'[a].requested_by] = "TEST"
        BY <1>4, <3>1
      <3>4. Settled(a)' => section'[q].op = "expire" /\ a \in TestApprovals'
        BY <1>2, <1>4, <3>1 DEF TestApprovals, Filed
      <3> QED
        BY <3>2, <3>3, <3>4
    <2> QED
      BY <2>4, <2>5
  <1> SUFFICES ASSUME NEW q \in Process PROVE Good(q)'
    BY DEF SectionsOK
  <1> HIDE DEF Good
  <1>5. CASE section'[q] = NoSection
    BY <1>3, <1>5
  <1>6. ASSUME section'[q] = section[q], UNCHANGED << approvals, usage >> PROVE Good(q)'
    <2>1. \A a \in ApprovalId : DecidedBy(q, a)' <=> DecidedBy(q, a)
      BY <1>6, SameDecisions
    <2> QED
      BY <1>3, <1>4, <1>6, <2>1
  <1>7. ASSUME NEW t \in Thread, NEW a \in ApprovalId, FileRequest(t, a) PROVE Good(q)'
    <2>1. /\ usage' = usage /\ section' = section /\ a \notin Filed
          /\ \A c \in ApprovalId : c # a => approvals'[c] = approvals[c]
      BY <1>7, FileEffect
    <2>2. \A c \in ApprovalId : DecidedBy(q, c)' <=> DecidedBy(q, c)
      BY <2>1, SameDecisions
    <2>3. ~Under(q, a)
      BY <2>1 DEF SectionsOK
    <2> QED
      BY <1>3, <1>4, <2>1, <2>2, <2>3
  <1>8. ASSUME NEW t \in Thread, WriteLedger(t) PROVE Good(q)'
    <2>1. PICK row \in UsageRows : /\ usage' = Append(usage, row) /\ UNCHANGED << approvals, section >>
                                   /\ \A b \in ApprovalId : ~Decides(row, b)
      BY <1>8, Use
    <2>2. \A c \in ApprovalId : DecidedBy(q, c)' <=> DecidedBy(q, c)
      BY <2>1, SameDecisions
    <2> QED
      BY <1>3, <1>4, <2>1, <2>2
  <1>9. ASSUME NEW p \in Process, NEW at \in 0 .. MaxTime, CommitReview(p, at) PROVE Good(q)'
    <2>1. PICK a \in ApprovalId, row \in UsageRows :
              /\ approvals'[a].requested_by = approvals[a].requested_by
              /\ \A c \in ApprovalId : c # a => approvals'[c] = approvals[c]
              /\ usage' = Append(usage, row)
              /\ row.process = p
              /\ Decides(row, a)
              /\ \A c \in ApprovalId : c # a => ~Decides(row, c)
              /\ Leave(p)
      BY <1>9, Review
    <2>2. CASE q = p
      BY <1>3, <2>1, <2>2, LeaveType
    <2>3. CASE q # p
      <3>1. section'[q] = section[q]
        BY <2>1, <2>3, LeaveType
      <3>2. DecidedBy(q, a)' <=> DecidedBy(q, a)
        BY <2>1, <2>3, NewDecision
      <3>3. \A c \in ApprovalId : c # a => (DecidedBy(q, c)' <=> DecidedBy(q, c))
        BY <2>1, SameDecisions
      <3>4. \A c \in ApprovalId : approvals'[c].requested_by = approvals[c].requested_by
        BY <2>1
      <3>5. \A c \in ApprovalId : DecidedBy(q, c)' <=> DecidedBy(q, c)
        BY <3>2, <3>3
      <3> QED
        BY <1>3, <1>4, <3>1, <3>4, <3>5
    <2> QED
      BY <2>2, <2>3
  <1>10. ASSUME NEW p \in Process, CommitExpiry(p) PROVE Good(q)'
    <2>1. /\ \A c \in ApprovalId : IF Under(p, c) THEN SourceOf[approvals'[c].requested_by] = "TEST"
                                   ELSE approvals'[c] = approvals[c]
          /\ usage' = usage /\ Leave(p)
      BY <1>10, Expire
    <2>2. CASE q = p
      BY <1>3, <2>1, <2>2, LeaveType
    <2>3. CASE q # p
      <3>1. section'[q] = section[q]
        BY <2>1, <2>3, LeaveType
      <3>2. \A c \in ApprovalId : DecidedBy(q, c)' <=> DecidedBy(q, c)
        BY <2>1, SameDecisions
      <3>3. \A c \in ApprovalId : approvals'[c].requested_by = approvals[c].requested_by
        <4>1. section[p].rows \subseteq Filed
          BY <1>10, SectionType DEF CommitExpiry, SectionsOK, Under
        <4> QED
          BY <1>10, <2>1, <4>1, ExpireEffect
      <3> QED
        BY <1>3, <1>4, <3>1, <3>2, <3>3
    <2> QED
      BY <2>2, <2>3
  <1>11. ASSUME NEW p \in Process, NEW a \in ApprovalId, NEW by \in Person,
                NEW status \in {"APPROVED", "DENIED"}, ReadRequest(p, a, by, status), q = p
         PROVE  Good(q)'
    <2>1. /\ section'[q] = [op |-> "review", approval |-> a, by |-> by, status |-> status, began |-> now]
          /\ a \in Filed /\ approvals[a].status = "PENDING" /\ UNCHANGED << approvals, usage, now >>
      BY <1>11 DEF TypeOK, ReadRequest, Enter, Decidable
    <2>2. ~Decided(a)
      BY <2>1 DEF DecisionsAgree
    <2>3. ~DecidedBy(q, a) /\ ~Settled(a)
      BY <2>1, <2>2 DEF Decided, DecidedBy, Settled
    <2>4. ~DecidedBy(q, a)' /\ ~Settled(a)' /\ a \in Filed'
      BY <2>1, <2>3 DEF DecidedBy, Settled, Decided, Filed
    <2>5. section'[q].op = "review" /\ section'[q].began <= now'
      BY <1>1, <2>1
    <2>6. \A c : Under(q, c)' => c = a
      BY <2>1 DEF Under
    <2> QED
      BY <2>4, <2>5, <2>6 DEF Good
  <1>12. ASSUME NEW p \in Process, ReadTestApprovals(p), q = p PROVE Good(q)'
    <2>1. section'[q] = [op |-> "expire", rows |-> TestApprovals] /\ UNCHANGED << approvals, usage >>
      BY <1>12 DEF TypeOK, ReadTestApprovals, Enter
    <2>2. section'[q].op = "expire"
      BY <2>1
    <2>3. ASSUME NEW a \in ApprovalId, Under(q, a)'
          PROVE  /\ a \in Filed' /\ ~DecidedBy(q, a)' /\ a \in TestApprovals'
                 /\ SourceOf[approvals'[a].requested_by] = "TEST"
      <3>1. a \in TestApprovals
        BY <2>1, <2>3 DEF Under
      <3>2. a \in Filed /\ approvals[a].source = "TEST" /\ approvals[a].status \in {"PENDING", "APPROVED"}
        BY <3>1 DEF TestApprovals
      <3>3. RowOK(a)
        BY <3>2 DEF RowsOK
      <3>4. SourceOf[approvals[a].requested_by] = "TEST"
        BY <3>2, <3>3 DEF RowOK
      <3>5. ~Decided(a)
        <4>1. CASE approvals[a].status = "PENDING"
          BY <4>1 DEF DecisionsAgree
        <4>2. CASE approvals[a].status = "APPROVED"
          BY <3>2, <3>3, <4>2 DEF RowOK, Settled
        <4> QED
          BY <3>2, <4>1, <4>2
      <3>6. ~DecidedBy(q, a)'
        BY <2>1, <3>5 DEF Decided, DecidedBy
      <3> QED
        BY <2>1, <3>1, <3>2, <3>4, <3>6 DEF TestApprovals, Filed
    <2> QED
      BY <2>2, <2>3 DEF Good
  <1>13. ASSUME NEW p \in Process,
                \/ \E a \in ApprovalId, by \in Person, status \in {"APPROVED", "DENIED"} :
                      ReadRequest(p, a, by, status)
                \/ ReadTestApprovals(p)
                \/ SectionFails(p) \/ Crash(p),
                q # p
         PROVE  section'[q] = section[q] /\ UNCHANGED << approvals, usage >>
    BY <1>13 DEF TypeOK, ReadRequest, ReadTestApprovals, SectionFails, Crash, Leave, Enter
  <1>14. ASSUME SectionFails(q) \/ Crash(q) PROVE section'[q] = NoSection
    BY <1>14 DEF TypeOK, SectionFails, Crash, Leave, Enter
  <1>15. ASSUME NEW t \in Thread,
                \/ \E r \in Request, rationale \in BOOLEAN : Select(t, r, rationale)
                \/ \E a \in ApprovalId : CheckFinds(t, a)
                \/ CheckFindsNone(t) \/ CallFails(t)
         PROVE  section'[q] = section[q] /\ UNCHANGED << approvals, usage >>
    BY <1>15 DEF Select, CheckFinds, CheckFindsNone, CallFails
  <1>16. ASSUME Tick \/ UNCHANGED vars
         PROVE  section'[q] = section[q] /\ UNCHANGED << approvals, usage >>
    BY <1>16 DEF Tick, vars
  <1>17. CASE \E t \in Thread :
                 \/ \E r \in Request, rationale \in BOOLEAN : Select(t, r, rationale)
                 \/ \E a \in ApprovalId : CheckFinds(t, a) \/ FileRequest(t, a)
                 \/ CheckFindsNone(t) \/ WriteLedger(t) \/ CallFails(t)
    BY <1>6, <1>7, <1>8, <1>15, <1>17
  <1>18. ASSUME NEW p \in Process,
                \/ \E a \in ApprovalId, by \in Person, status \in {"APPROVED", "DENIED"} :
                      ReadRequest(p, a, by, status)
                \/ \E at \in 0 .. MaxTime : CommitReview(p, at)
                \/ ReadTestApprovals(p) \/ CommitExpiry(p) \/ SectionFails(p) \/ Crash(p)
         PROVE  Good(q)'
    <2>1. CASE q = p
      BY <1>5, <1>9, <1>10, <1>11, <1>12, <1>14, <1>18, <2>1
    <2>2. CASE q # p
      BY <1>6, <1>9, <1>10, <1>13, <1>18, <2>2
    <2> QED
      BY <2>1, <2>2
  <1> QED
    BY <1>6, <1>16, <1>17, <1>18 DEF Next

\* An approval the migration left is honoured for ever.
LEMMA UndatedStays ==
    ASSUME SInv, [Next]_vars, NEW b, Undated(b)
    PROVE  Undated(b)'
  <1>1. b \in ApprovalId
    BY DEF Undated
  <1>2. b \in Filed
    BY <1>1, FiledIsRow DEF SInv, Undated, Status
  <1>3. RowOK(b)
    BY <1>2 DEF SInv, RowsOK
  <1>4. approvals[b].reviewed_at \in Nat /\ approvals[b].reviewed_at + TTL # Null
    BY <1>1, <1>2, FiledIsRow DEF SInv, Row
  <1>5. Settled(b)
    BY <1>3, <1>4 DEF RowOK, Undated
  <1>6. b \notin TestApprovals
    BY DEF TestApprovals, Undated
  <1> QED
    BY <1>1, <1>5, <1>6, SettledSteps DEF Undated

\* A row of the ledger keeps its place.
LEMMA RowsStay ==
    ASSUME SInv, [Next]_vars
    PROVE  /\ Len(usage) <= Len(usage')
           /\ \A i \in DOMAIN usage : i \in DOMAIN usage' /\ usage'[i] = usage[i]
  <1>1. usage \in Seq(UsageRows)
    BY DEF SInv, TypeOK
  <1>2. ASSUME NEW row \in UsageRows, usage' = Append(usage, row)
        PROVE  /\ Len(usage) <= Len(usage')
               /\ \A i \in DOMAIN usage : i \in DOMAIN usage' /\ usage'[i] = usage[i]
    BY <1>1, <1>2, GrowByOne
  <1>3. CASE usage' = usage
    BY <1>1, <1>3
  <1> QED
    BY <1>2, <1>3, UsageGrows

\* An approval an operator gives is in the ledger.
LEMMA ApprovedStep == SInv /\ ApprovedLogged /\ [Next]_vars => ApprovedLogged'
  <1> SUFFICES ASSUME SInv, ApprovedLogged, [Next]_vars,
                      NEW b \in Filed', approvals'[b].status = "APPROVED", ~Settled(b)'
               PROVE  \E j \in DOMAIN usage' :
                          /\ usage'[j].decision = "APPROVAL_APPROVED"
                          /\ usage'[j].prompt = approvals'[b].prompt
                          /\ usage'[j].cited = Cite(b, approvals'[b].reviewed_by)
                          /\ usage'[j].at = approvals'[b].reviewed_at
    BY DEF ApprovedLogged
  <1> TypeOK /\ b \in ApprovalId
    BY DEF SInv, Filed
  <1>1. ASSUME approvals'[b] = approvals[b]
        PROVE  \E j \in DOMAIN usage' :
                   /\ usage'[j].decision = "APPROVAL_APPROVED"
                   /\ usage'[j].prompt = approvals'[b].prompt
                   /\ usage'[j].cited = Cite(b, approvals'[b].reviewed_by)
                   /\ usage'[j].at = approvals'[b].reviewed_at
    <2>1. b \in Filed
      BY <1>1 DEF Filed
    <2>2. ~Settled(b)
      <3>1. SUFFICES ASSUME Settled(b) PROVE FALSE
        OBVIOUS
      <3>2. b \in TestApprovals
        BY <3>1, SettledSteps
      <3>3. Decided(b)'
        BY <1>1, <3>1 DEF Settled
      <3>4. ~Decided(b)
        BY <3>1 DEF Settled
      <3>5. PICK i \in DOMAIN usage' : Decides(usage'[i], b)
        BY <3>3 DEF Decided
      <3>6. usage' # usage
        BY <3>4, <3>5 DEF Decided
      <3>7. PICK p \in Process, at \in 0 .. MaxTime : CommitReview(p, at)
        <4>1. ASSUME NEW t \in Thread, WriteLedger(t) PROVE FALSE
          <5>1. PICK row \in UsageRows : usage' = Append(usage, row) /\ ~Decides(row, b)
            BY <4>1, Use
          <5> QED
            BY <3>3, <3>4, <5>1, SameDecisions
        <4> QED
          BY <3>6, <4>1, TableCases, FileEffect, Expire
      <3>8. PICK a \in ApprovalId, row \in UsageRows :
              /\ ~Settled(a)
              /\ usage' = Append(usage, row)
              /\ \A c \in ApprovalId : c # a => ~Decides(row, c)
        BY <3>7, Review
      <3>9. b # a
        BY <3>1, <3>8
      <3> QED
        BY <3>3, <3>4, <3>8, <3>9, SameDecisions
    <2>3. PICK j \in DOMAIN usage :
              /\ usage[j].decision = "APPROVAL_APPROVED"
              /\ usage[j].prompt = approvals[b].prompt
              /\ usage[j].cited = Cite(b, approvals[b].reviewed_by)
              /\ usage[j].at = approvals[b].reviewed_at
      BY <1>1, <2>1, <2>2 DEF ApprovedLogged
    <2>4. j \in DOMAIN usage' /\ usage'[j] = usage[j]
      BY <2>3, RowsStay
    <2> QED
      BY <1>1, <2>3, <2>4
  <1>2. CASE UNCHANGED << approvals, usage >>
    BY <1>1, <1>2
  <1>3. ASSUME NEW t \in Thread, NEW a \in ApprovalId, FileRequest(t, a)
        PROVE  approvals'[b] = approvals[b]
    BY <1>3, FileEffect
  <1>4. ASSUME NEW t \in Thread, WriteLedger(t)
        PROVE  approvals'[b] = approvals[b]
    BY <1>4 DEF WriteLedger
  <1>5. ASSUME NEW p \in Process, NEW at \in 0 .. MaxTime, CommitReview(p, at),
               approvals'[b] # approvals[b]
        PROVE  \E j \in DOMAIN usage' :
                   /\ usage'[j].decision = "APPROVAL_APPROVED"
                   /\ usage'[j].prompt = approvals'[b].prompt
                   /\ usage'[j].cited = Cite(b, approvals'[b].reviewed_by)
                   /\ usage'[j].at = approvals'[b].reviewed_at
    <2>1. PICK a \in ApprovalId, row \in UsageRows :
              /\ approvals'[a].prompt = approvals[a].prompt
              /\ approvals'[a].reviewed_at = at
              /\ \A c \in ApprovalId : c # a => approvals'[c] = approvals[c]
              /\ usage' = Append(usage, row)
              /\ row.decision = DecisionOf(approvals'[a].status)
              /\ row.cited = Cite(a, approvals'[a].reviewed_by) /\ row.prompt = approvals[a].prompt
              /\ row.at = at
      BY <1>5, Review
    <2>2. b = a
      BY <1>5, <2>1
    <2>3. usage \in Seq(UsageRows)
      BY DEF TypeOK
    <2>4. PICK n : n \in DOMAIN usage' /\ usage'[n] = row
      BY <2>1, <2>3, GrowByOne
    <2>5. row.decision = "APPROVAL_APPROVED"
      BY <2>1, <2>2 DEF DecisionOf
    <2> QED
      BY <2>1, <2>2, <2>4, <2>5
  <1>6. ASSUME NEW p \in Process, CommitExpiry(p)
        PROVE  approvals'[b] = approvals[b]
    BY <1>6, Expire
  <1> QED
    BY <1>1, <1>2, <1>3, <1>4, <1>5, <1>6, TableCases

\* The approval with which a call goes on stays in the ledger until it is used.
LEMMA HeldStep == SInv /\ ApprovedLogged /\ HeldLogged /\ [Next]_vars => HeldLogged'
  <1> SUFFICES ASSUME SInv, ApprovedLogged, HeldLogged, [Next]_vars,
                      NEW t \in Thread, pc'[t] = "log_allowed", Risk[req'[t].prompt] = "HIGH"
               PROVE  \/ Undated(found[t].cited.approval)'
                      \/ \E j \in DOMAIN usage' : Allows(usage'[j], req'[t].prompt, found'[t])
    BY DEF HeldLogged
  <1> TypeOK
    BY DEF SInv
  <1>1. ASSUME pc'[t] = pc[t], req'[t] = req[t], found'[t] = found[t]
        PROVE  \/ Undated(found[t].cited.approval)'
               \/ \E j \in DOMAIN usage' : Allows(usage'[j], req'[t].prompt, found'[t])
    <2>1. PICK a : a = found[t].cited.approval
      OBVIOUS
    <2>2. CASE Undated(a)
      <3>1. Undated(a)'
        BY <2>2, UndatedStays
      <3> QED
        BY <1>1, <2>1, <3>1 DEF Undated
    <2>3. ASSUME NEW j \in DOMAIN usage, Allows(usage[j], req[t].prompt, found[t])
          PROVE  \E i \in DOMAIN usage' : Allows(usage'[i], req'[t].prompt, found'[t])
      <3>1. j \in DOMAIN usage' /\ usage'[j] = usage[j]
        BY RowsStay
      <3> QED
        BY <1>1, <2>3, <3>1
    <2> QED
      BY <1>1, <2>1, <2>2, <2>3 DEF HeldLogged
  <1>2. ASSUME NEW r \in Request, NEW rationale \in BOOLEAN, Select(t, r, rationale) PROVE FALSE
    BY <1>2 DEF TypeOK, Select, Goto
  <1>3. ASSUME NEW a \in ApprovalId, CheckFinds(t, a)
        PROVE  \/ Undated(found[t].cited.approval)'
               \/ \E j \in DOMAIN usage' : Allows(usage'[j], req'[t].prompt, found'[t])
    <2>1. /\ a \in Filed /\ approvals[a].status = "APPROVED" /\ approvals[a].prompt = req[t].prompt
          /\ approvals[a].source \in {"OPERATOR", "UI"} /\ Unexpired(a)
      BY <1>3 DEF CheckFinds, ActiveApprovals, Newest, Honoured
    <2>2. /\ found'[t].cited = Cite(a, approvals[a].reviewed_by) /\ found'[t].at = now
          /\ req' = req /\ usage' = usage /\ approvals' = approvals
      BY <1>3 DEF TypeOK, CheckFinds, Found
    <2>3. found'[t].cited.approval = a
      BY <2>2 DEF Cite
    <2>4. RowOK(a)
      BY <2>1 DEF SInv, RowsOK
    <2>5. CASE Settled(a)
      BY <2>1, <2>2, <2>3, <2>4, <2>5 DEF RowOK, Undated, Settled
    <2>6. CASE ~Settled(a)
      <3>1. PICK j \in DOMAIN usage :
              /\ usage[j].decision = "APPROVAL_APPROVED" /\ usage[j].prompt = approvals[a].prompt
              /\ usage[j].cited = Cite(a, approvals[a].reviewed_by)
              /\ usage[j].at = approvals[a].reviewed_at
        BY <2>1, <2>6 DEF ApprovedLogged
      <3>2. approvals[a].reviewed_at \in Nat /\ approvals[a].reviewed_at + TTL # Null
        BY <2>1, FiledIsRow DEF Filed, Row
      <3>3. approvals[a].expires_at = approvals[a].reviewed_at + TTL /\ approvals[a].reviewed_at <= now
        BY <2>1, <2>4, <2>6 DEF RowOK
      <3>4. now <= approvals[a].reviewed_at + TTL
        BY <2>1, <3>2, <3>3 DEF Unexpired
      <3>5. Allows(usage[j], req[t].prompt, found'[t])
        BY <2>1, <2>2, <3>1, <3>3, <3>4 DEF Allows
      <3> QED
        BY <2>2, <3>1, <3>5
    <2> QED
      BY <2>5, <2>6
  <1>4. ASSUME CheckFindsNone(t) PROVE FALSE
    BY <1>4 DEF TypeOK, CheckFindsNone, Goto
  <1>5. ASSUME NEW a \in ApprovalId, FileRequest(t, a) PROVE FALSE
    BY <1>5 DEF TypeOK, FileRequest, Goto
  <1>6. ASSUME WriteLedger(t) \/ CallFails(t) PROVE FALSE
    BY <1>6 DEF WriteLedger, CallFails, Forget
  <1>7. ASSUME NEW u \in Thread, u # t,
               \/ \E r \in Request, rationale \in BOOLEAN : Select(u, r, rationale)
               \/ \E a \in ApprovalId : CheckFinds(u, a) \/ FileRequest(u, a)
               \/ CheckFindsNone(u) \/ WriteLedger(u) \/ CallFails(u)
        PROVE  pc'[t] = pc[t] /\ req'[t] = req[t] /\ found'[t] = found[t]
    BY <1>7 DEF TypeOK, Select, CheckFinds, CheckFindsNone, FileRequest, WriteLedger, CallFails, Goto, Forget
  <1>8. ASSUME NEW p \in Process,
               \/ \E a \in ApprovalId, by \in Person, status \in {"APPROVED", "DENIED"} :
                     ReadRequest(p, a, by, status)
               \/ \E at \in 0 .. MaxTime : CommitReview(p, at)
               \/ ReadTestApprovals(p) \/ CommitExpiry(p) \/ SectionFails(p)
        PROVE  pc'[t] = pc[t] /\ req'[t] = req[t] /\ found'[t] = found[t]
    BY <1>8 DEF ReadRequest, CommitReview, ReadTestApprovals, CommitExpiry, SectionFails
  <1>9. ASSUME NEW p \in Process, Crash(p)
        PROVE  pc'[t] = pc[t] /\ req'[t] = req[t] /\ found'[t] = found[t]
    BY <1>9 DEF TypeOK, Crash, Forget
  <1>10. ASSUME Tick \/ UNCHANGED vars
         PROVE  pc'[t] = pc[t] /\ req'[t] = req[t] /\ found'[t] = found[t]
    BY <1>10 DEF Tick, vars
  <1> QED
    BY <1>1, <1>2, <1>3, <1>4, <1>5, <1>6, <1>7, <1>8, <1>9, <1>10 DEF Next

\* A use is written after the approval that allows it.
LEMMA UseStep == SInv /\ HeldLogged /\ UsesAllowed /\ [Next]_vars => UsesAllowed'
  <1> SUFFICES ASSUME SInv, HeldLogged, UsesAllowed, [Next]_vars,
                      NEW i \in DOMAIN usage', HighRiskUse(i)'
               PROVE  \/ Undated(usage[i].cited.approval)'
                      \/ \E j \in 1 .. i - 1 : Allows(usage'[j], usage'[i].prompt, usage'[i])
    BY DEF UsesAllowed
  <1> TypeOK /\ usage \in Seq(UsageRows)
    BY DEF SInv, TypeOK
  <1>1. \A k \in DOMAIN usage : k \in DOMAIN usage' /\ usage'[k] = usage[k]
    BY RowsStay
  <1>2. PICK a : a = usage'[i].cited.approval
    OBVIOUS
  <1>3. Undated(a) => Undated(usage[i].cited.approval)'
    BY <1>2, UndatedStays DEF Undated
  <1>4. CASE i \in DOMAIN usage
    <2>1. usage'[i] = usage[i] /\ HighRiskUse(i)
      BY <1>1, <1>4 DEF HighRiskUse
    <2>2. ASSUME NEW j \in 1 .. i - 1, Allows(usage[j], usage[i].prompt, usage[i])
          PROVE  Allows(usage'[j], usage'[i].prompt, usage'[i])
      <3>1. j \in DOMAIN usage
        BY <1>4
      <3> QED
        BY <1>1, <2>1, <2>2, <3>1
    <2> QED
      BY <1>2, <1>3, <1>4, <2>1, <2>2 DEF UsesAllowed
  <1>5. ASSUME NEW t \in Thread, WriteLedger(t), i \notin DOMAIN usage
        PROVE  \/ Undated(usage[i].cited.approval)'
               \/ \E j \in 1 .. i - 1 : Allows(usage'[j], usage'[i].prompt, usage'[i])
    <2>1. PICK row \in UsageRows :
              /\ usage' = Append(usage, row) /\ UNCHANGED << approvals, section, now, begun >>
              /\ row.decision = "ALLOWED" => pc[t] = "log_allowed"
              /\ row.prompt = req[t].prompt /\ row.cited = found[t].cited /\ row.at = found[t].at
      BY <1>5, Use
    <2>2. usage'[i] = row /\ DOMAIN usage = 1 .. i - 1
      BY <1>5, <2>1, GrowByOne
    <2>3. pc[t] = "log_allowed" /\ Risk[req[t].prompt] = "HIGH"
      BY <2>1, <2>2 DEF HighRiskUse
    <2>4. CASE Undated(found[t].cited.approval)
      BY <1>2, <1>3, <2>1, <2>2, <2>4
    <2>5. ASSUME NEW j \in DOMAIN usage, Allows(usage[j], req[t].prompt, found[t])
          PROVE  j \in 1 .. i - 1 /\ Allows(usage'[j], usage'[i].prompt, usage'[i])
      BY <1>1, <2>1, <2>2, <2>5 DEF Allows
    <2> QED
      BY <2>3, <2>4, <2>5 DEF HeldLogged
  <1>6. ASSUME NEW p \in Process, NEW at \in 0 .. MaxTime, CommitReview(p, at), i \notin DOMAIN usage
        PROVE  FALSE
    <2>1. PICK b \in ApprovalId, row \in UsageRows :
              /\ usage' = Append(usage, row)
              /\ row.decision = DecisionOf(approvals'[b].status)
      BY <1>6, Review
    <2>2. usage'[i] = row
      BY <1>6, <2>1, GrowByOne
    <2> QED
      BY <2>1, <2>2 DEF HighRiskUse, DecisionOf
  <1>7. CASE i \notin DOMAIN usage
    BY <1>5, <1>6, <1>7, TableCases, FileEffect, Expire
  <1> QED
    BY <1>4, <1>7

\* The invariant holds of a migrated database.
LEMMA InductiveInit == Init => IInv
  <1> SUFFICES ASSUME Init PROVE IInv
    OBVIOUS
  <1>1. TypeOK
    BY TypeInit
  <1>2. DOMAIN usage = {} /\ now = 0
    BY DEF Init
  <1>3. \A t \in Thread : pc[t] = "idle"
    BY DEF Init
  <1>4. \A p \in Process : section[p].op = "none"
    BY DEF Init, NoSection
  <1>5. \A a \in ApprovalId : ~Decided(a)
    BY <1>2 DEF Decided
  <1>6. ASSUME NEW a \in ApprovalId, approvals[a] # NoRow
        PROVE  /\ a \in Legacy /\ approvals[a].reviewed_at = 0 /\ approvals[a].expires_at = Null
               /\ approvals[a].source \in {SourceOf[approvals[a].requested_by], "UNKNOWN"}
               /\ approvals[a].requested_by \in Person
    <2>1. approvals[a] \in LegacyRow /\ a \in Legacy /\ Migrated(approvals[a])
      BY <1>6 DEF Init
    <2> QED
      BY <2>1 DEF LegacyRow, Migrated
  <1>7. \A a \in ApprovalId : approvals[a].status \in {"APPROVED", "DENIED"} => Settled(a)
    BY <1>5, <1>6 DEF Settled, NoRow
  <1>8. RowsOK
    BY <1>2, <1>6, <1>7 DEF RowsOK, RowOK, Filed
  <1>9. DecisionsAgree
    BY <1>2, <1>5, <1>7 DEF DecisionsAgree
  <1>10. SectionsOK
    BY <1>4 DEF SectionsOK, Under
  <1>11. ApprovedLogged
    BY <1>7 DEF ApprovedLogged, Filed
  <1>12. HeldLogged /\ UsesAllowed
    BY <1>2, <1>3 DEF HeldLogged, UsesAllowed
  <1> QED
    BY <1>1, <1>8, <1>9, <1>10, <1>11, <1>12 DEF IInv

\* It is inductive, by the lemmas above for each of its parts.
LEMMA InductiveInvariant == Spec => []IInv
  <1>1. IInv => SInv
    BY DEF IInv, SInv
  <1>2. SInv => SectionsFiled
    BY DEF SInv, SectionsOK, SectionsFiled
  <1>3. IInv /\ [Next]_vars => IInv'
    BY <1>1, <1>2, TypeStep, RowsStep, SectionStep, DecisionStep, ApprovedStep, HeldStep, UseStep DEF IInv
  <1> QED
    BY <1>3, InductiveInit, PTL DEF Spec

---------------------------------------------------------------------------
(* The results *)

\* The tables, the calls and the sections in progress always have their types.
THEOREM TypeCorrect == Spec => []TypeOK
  <1>1. IInv => TypeOK
    BY DEF IInv
  <1> QED
    BY <1>1, InductiveInvariant, PTL

\* However many processes review and expire at once, no process decides a
\* request twice, and a decided row is what the ledger's last decision on it
\* made it (approve_prompt, expire_test_approvals).
THEOREM DecisionsAgreeAlways == Spec => []DecisionsAgree
  <1>1. IInv => DecisionsAgree
    BY DEF IInv
  <1> QED
    BY <1>1, InductiveInvariant, PTL

\* No HIGH-risk use without an earlier approval for that prompt in the ledger,
\* or one the migration left, whatever the threads, operators and crashes do
\* (select_prompt).
THEOREM UsesAreApproved == Spec => []UsesFollowApproval
  <1>1. IInv => UsesFollowApproval
    BY DEF IInv, UsesAllowed, UsesFollowApproval, Allows, Approves
  <1> QED
    BY <1>1, InductiveInvariant, PTL

\* The approval a HIGH-risk use cites had not run out when the gate looked,
\* however late the use is written (_get_active_approval, _write_ledger).
THEOREM UsesAreInTime == Spec => []UsesWithinTTL
  <1>1. ASSUME IInv PROVE UsesWithinTTL
    <2> SUFFICES ASSUME NEW i \in DOMAIN usage, HighRiskUse(i), ~Undated(usage[i].cited.approval)
                 PROVE  \E j \in DOMAIN usage : /\ Approves(j, i)
                                                /\ usage[j].at <= usage[i].at
                                                /\ usage[i].at <= usage[j].at + TTL
      BY DEF UsesWithinTTL
    <2>1. PICK j \in 1 .. i - 1 : Allows(usage[j], usage[i].prompt, usage[i])
      BY <1>1 DEF IInv, UsesAllowed
    <2>2. usage \in Seq(UsageRows)
      BY <1>1 DEF IInv, TypeOK
    <2>3. j \in DOMAIN usage
      BY <2>1, <2>2
    <2> QED
      BY <2>1, <2>3 DEF Allows, Approves
  <1> QED
    BY <1>1, InductiveInvariant, PTL

\* A decision gives way, if at all, to a process that was already in the middle
\* of its own review or expiry of the request and had not decided it before;
\* rows of the usage ledger never change (approve_prompt, expire_test_approvals).
THEOREM DecidedForGood == Spec => DecisionsFinal
  <1>1. ASSUME IInv, [Next]_vars
        PROVE  /\ \A a \in Filed :
                     approvals[a].status \in {"APPROVED", "DENIED"} /\ approvals'[a] # approvals[a] =>
                        \E p \in Process :
                           /\ Under(p, a) /\ section'[p] = NoSection
                           /\ \A i \in DOMAIN usage : Decides(usage[i], a) => usage[i].process # p
                           /\ Settled(a) => a \in TestApprovals
               /\ Len(usage) <= Len(usage') /\ \A i \in DOMAIN usage : usage'[i] = usage[i]
    <2> SInv /\ TypeOK /\ SectionsOK
      BY <1>1 DEF IInv, SInv
    <2>1. Len(usage) <= Len(usage') /\ \A i \in DOMAIN usage : usage'[i] = usage[i]
      BY <1>1, RowsStay
    <2>2. ASSUME NEW a \in Filed, approvals[a].status \in {"APPROVED", "DENIED"},
                 approvals'[a] # approvals[a]
          PROVE  \E p \in Process :
                     /\ Under(p, a) /\ section'[p] = NoSection
                     /\ \A i \in DOMAIN usage : Decides(usage[i], a) => usage[i].process # p
                     /\ Settled(a) => a \in TestApprovals
      <3>1. a \in ApprovalId /\ approvals[a] # NoRow
        BY DEF Filed
      <3>2. Settled(a) => a \in TestApprovals
        BY <1>1, <2>2, <3>1, SettledSteps
      <3>3. ASSUME NEW p \in Process, Under(p, a), Leave(p)
            PROVE  /\ section'[p] = NoSection
                   /\ \A i \in DOMAIN usage : Decides(usage[i], a) => usage[i].process # p
        BY <3>1, <3>3, LeaveType DEF SectionsOK, DecidedBy
      <3>4. ASSUME NEW t \in Thread, NEW b \in ApprovalId, FileRequest(t, b) PROVE FALSE
        BY <2>2, <3>1, <3>4, FileEffect
      <3>5. ASSUME NEW t \in Thread, WriteLedger(t) PROVE FALSE
        BY <2>2, <3>5 DEF WriteLedger
      <3>6. ASSUME NEW p \in Process, NEW at \in 0 .. MaxTime, CommitReview(p, at)
            PROVE  Under(p, a) /\ Leave(p)
        <4>1. PICK b \in ApprovalId : /\ Under(p, b) /\ Leave(p)
                                      /\ \A c \in ApprovalId : c # b => approvals'[c] = approvals[c]
          BY <3>6, Review
        <4> QED
          BY <2>2, <3>1, <4>1
      <3>7. ASSUME NEW p \in Process, CommitExpiry(p)
            PROVE  Under(p, a) /\ Leave(p)
        BY <2>2, <3>1, <3>7, Expire
      <3> QED
        BY <1>1, <2>2, <3>2, <3>3, <3>4, <3>5, <3>6, <3>7, TableCases
    <2> QED
      BY <2>1, <2>2
  <1> QED
    BY <1>1, InductiveInvariant, PTL DEF Spec, DecisionsFinal

---------------------------------------------------------------------------
(* The newest approval *)

\* Every set of numbers has a least one.
LEMMA LeastNumber ==
    ASSUME NEW S \in SUBSET Nat, S # {}
    PROVE  \E n \in S : \A m \in S : n <= m
  <1>1. PICK less : less = OpToRel(<, Nat)
    OBVIOUS
  <1>2. IsWellFoundedOn(less, Nat)
    BY <1>1, NatLessThanWellFounded
  <1>3. less = {pair \in Nat \X Nat : pair[1] < pair[2]}
    BY <1>1 DEF OpToRel
  <1>4. PICK n \in S : \A m \in S : <<m, n>> \notin less
    BY <1>2, WFMin
  <1>5. ASSUME NEW m \in S
        PROVE  n <= m
    <2>1. m \in Nat /\ n \in Nat /\ <<m, n>> \in Nat \X Nat
      OBVIOUS
    <2>2. <<m, n>>[1] = m /\ <<m, n>>[2] = n
      OBVIOUS
    <2>3. ~(m < n)
      BY <1>3, <1>4, <2>1, <2>2
    <2> QED
      BY <2>1, <2>3
  <1> QED
    BY <1>5

\* However many approvals there are, one of them is the newest: their dates
\* are bounded.
LEMMA NewestExists ==
    ASSUME TypeOK, NEW A \in SUBSET Filed, A # {}
    PROVE  Newest(A) # {}
  <1>1. \A a \in A : approvals[a].reviewed_at \in 0 .. MaxTime
    BY FiledIsRow DEF Filed, Row
  <1>2. PICK ages : ages = {MaxTime - approvals[a].reviewed_at : a \in A}
    OBVIOUS
  <1>3. ages \in SUBSET Nat /\ ages # {}
    BY <1>1, <1>2
  <1>4. PICK age \in ages : \A other \in ages : age <= other
    BY <1>3, LeastNumber
  <1>5. PICK a \in A : age = MaxTime - approvals[a].reviewed_at
    BY <1>2, <1>4
  <1>6. ASSUME NEW b \in A
        PROVE  approvals[b].reviewed_at <= approvals[a].reviewed_at
    <2>1. age <= MaxTime - approvals[b].reviewed_at
      BY <1>2, <1>4
    <2> QED
      BY <1>1, <1>5, <2>1
  <1> QED
    BY <1>6 DEF Newest

\* As all approvals last equally long, the newest one outlives the others: the
\* gate, which looks at it alone, finds it while any is live.  (for ids in
\* their canonical spelling, _get_active_approval)
THEOREM LiveIsFound ==
    ASSUME Spelling = {"canonical"}
    PROVE  Spec => []ApprovedIsFound
  <1>1. IInv => ApprovedIsFound
    <2> SUFFICES ASSUME IInv, NEW p \in Prompt, NEW a \in Live(p)
                 PROVE  ActiveApprovals(p) # {}
      BY DEF ApprovedIsFound
    <2>1. a \in Honoured(p)
      BY FiledIsRow DEF IInv, Live, Honoured, Filed, Row
    <2>2. PICK n : n \in Newest(Honoured(p))
      BY <2>1, NewestExists DEF IInv, Honoured
    <2>3. /\ n \in Filed /\ n \in ApprovalId /\ a \in Filed /\ a \in ApprovalId
          /\ approvals[n].status = "APPROVED"
          /\ approvals[a].reviewed_at <= approvals[n].reviewed_at
      BY <2>1, <2>2 DEF Newest, Honoured, Filed
    <2>4. approvals[n].expires_at = Null \/ approvals[n].expires_at = approvals[n].reviewed_at + TTL
      BY <2>3 DEF IInv, RowsOK, RowOK
    <2>5. /\ approvals[a].reviewed_at \in Nat /\ approvals[n].reviewed_at \in Nat
          /\ now \in Nat /\ now <= approvals[a].reviewed_at + TTL
      BY <2>3, FiledIsRow DEF IInv, TypeOK, Live, Row
    <2>6. Unexpired(n)
      BY <2>3, <2>4, <2>5 DEF Unexpired
    <2> QED
      BY <2>2, <2>6 DEF ActiveApprovals
  <1> QED
    BY <1>1, InductiveInvariant, PTL
=============================================================================
