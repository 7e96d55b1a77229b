# TLA+ specifications of the HOCH agent swarm

The HOCH agent swarm is a FastAPI backend (`src/backend`) that governs what a
swarm of agents may do: it gates prompts, providers, devices, remediations and
releases behind policies and operators' approvals, records what happens in a
hash-chained ledger, and scores its own readiness. Around it are a React
frontend in which operators preview commands, sign requests off and run
remediation runbooks, a CrewAI adapter with a UI server of its own, and some
four hundred scripts that build releases, drive production phases and check
contracts over the files of the repository.

Request handlers written with `def` run in a pool of threads, those written with
`async def` on one event loop, daemons in threads beside them, more than one process may be started on the same files,
and nearly every piece of state is a SQLite table or a JSON file that one
function reads and another transaction writes. What is hard about this program
is therefore not any one function but what may happen between two of its
transactions: that is what the modules here are about. In the browser the same
question arises between a callback and its timer or answer, in the scripts between
two commands that share nothing but files.

## Inventory

| component | code (under `src/backend` unless said otherwise) | state | operations | what is hard | what makes it correct |
|---|---|---|---|---|---|
| action ledger | `ledger_manager.py` | `ledger_blocks` in SQLite, one lock per process | add an event, list, verify, evidence pack, review bundle, handoff packet | three critical sections per call, several processes, crashes, swallowed errors | one intact append-only chain, no duplicate ids, honest verification and exports |
| prompt governance | `prompt_governance.py` | `prompt_approvals`, `prompt_usage_ledger` | select a prompt, approve or deny, expire test approvals | gate and ledger are apart; TTL; two processes that decide at once; rows of an older database; test identities | every use follows an approval that had not run out; table and ledger agree on every decision |
| error budget | `remediation_safety.py` | readiness reports | budget, burn rate, autonomy level | thresholds, sliding windows | throttling follows the reports |
| readiness autopilot | `readiness_daemon.py`, `remediation_safety.py`, `main.py` 7036-7455 | job results, incidents, approval gates, reports | tick, remediate, rollback, diagnose | one loop acting on what it read at its start, ticks nested in it, requests and decisions beside each other, partial failures | nothing runs that policy forbids; what stays applied has passed its health check |
| approval queue | `approval_gate.py` | `queue.json` and one file per decision | create a request, record a decision | unlocked load-modify-save by threads, the event loop and the tests | no lost update authorises anything |
| phase orchestrator, builder | `main.py` 9171-9438, `src/scripts/orchestrator` | phase registry and state, approval files, evidence | request, approve and execute a phase | three places that may authorise; texts that name several phases; four files written in order; kills; several builders | a phase is sealed only if approved, the registry never ahead of the evidence |
| UI contract chain | `src/package.json:84`, `src/scripts/qa` | the evidence it reads; the queue, registry and decisions two of its links change | 122 scripts joined by `&&` | the two that act do so on the live files, beside everybody else | green means that the evidence is intact |
| release pipeline | `src/package.json`, `src/scripts/supply-chain`, `baseline`, `qa` | `dist/`, `artifacts/qa/` | release, verify, sign, candidate packet, readiness | files of earlier runs, kills between any two writes, waivers, a changing backend | a green release agrees with itself, a verdict means a complete release |
| remediation runbooks | `src/frontend/src/lib/remediation`, `components/remediation` | a store and its timers | simulate, execute, authorise, roll back | timers that outlive what started them | no gated step early, rollback final, every execution ends |
| commands, policy, sign-off | `src/frontend/src/components/command`, `collab`, `lib/policy`, `lib/command`, `lib/collab` | three stores | preview, route, dispatch, decide, sweep | state that changes under an open dialog, late answers | only what is permitted is dispatched, every status is explained by the decisions |
| devices, leases, routing | `service_registry.py`, `capability_router.py`, `cluster_manager.py` | nodes, leases, in-memory topology | discover, approve, reject, renew, route | expiry, several transactions, two managers | work is routed only to approved nodes with a live lease |
| model providers | `model_provider_registry.py`, `inference_gateway.py` | providers | register, approve, call | revocation during a 30 s call | only approved providers are called |
| release authority | `main.py` 639-2990, `runtime_execution_store.py` | evidence, tokens, waivers, promotions | authorise, promote, seal | tokens with a lifetime, order of evidence | a promotion has its evidence and its decision |
| approval gates, task gate | `main.py` 4787-5530 | SQLite gates and an in-memory list | create, decide, run a task | the two stores disagree | a decision is taken once |
| escalations | `main.py` 8305-8484, `model_router/` | a JSON file | ask, approve, call | expiry, budget, no lock | paid calls only while approved |
| job results | `hochster_cluster.py`, `hochster_runtime_audit.py` | one table | insert or replace | overwriting | (part of the autopilot) |
| policy gates | `preflight_gate.py`, `skill_gate.py`, `execution_policy.py`, `exclusion_guard.py` | little | evaluate | order of checks | deny wins |
| evidence, discovery, deployment, compliance managers | see `PROJECT.json` | files | collect, probe, report | mostly I/O | reports agree with their sources |
| CrewAI adapter, other views | `src/src/hoch_agent_swarm`, `src/frontend` | files, browser state | run missions, show | subprocesses | not modelled |

Interactions: nearly all components append to the action ledger and none depends
on it succeeding; the autopilot reads job results and approval gates which other
endpoints write; the builder asks the approval queue, the approval files and the checksum
contract; the contract chain runs the approval gate and the builder themselves; the
release scripts query the backend; routing reads leases
and providers; the release authority reads ledger, gates and job results.
The hazards of each component are listed at their lines in `PROJECT.json`.

## Plan

In the order of what the rest of the system leans on; the first seven exist.

1. [x] `AppendOnlyLog`, `ActionLedger`, `LedgerVerification`: what every audit
   claim rests on. Refinement, liveness, proofs.
2. [x] `PromptGovernance`: the approval gate with the most complete life cycle. Proofs.
3. [x] `ErrorBudget`, `ReadinessAutopilot`: the one component that acts by itself. Proofs.
4. [x] `RunbookExecution`: timers and operators in the browser. Liveness, proofs.
5. [x] `CommandApproval`: preview, policy, routing and sign-off. Proofs.
6. [x] `ReleasePipeline`: npm commands over the same files. Proofs.
7. [x] `Contracts`, `InterfaceContracts`, `PreviewContracts`, `ProductionContracts`,
   `PhaseOrchestrator` and their composition `ContractChain`. Proofs.
8. [ ] `ServiceMesh`: registration, approval, leases and their expiry, routing;
   property: no job is sent to a node that was never approved.
9. [ ] `ReleaseAuthority` with the SQLite approval gates: evidence, decision,
   token, promotion; at most one decision per gate, no promotion without one.
10. [ ] `Escalations` and `InferenceGateway`: checks that are stale when used.
11. [x] proofs for 3 to 6, and of the types and the green verdict of 7: every invariant and
   action property of a passing run is a theorem.

## Modules

**AppendOnlyLog** is what the ledger promises: a sequence of events that starts
with genesis, grows at its end and holds no event id twice.

**ActionLedger** models `ledger_manager.py`. `ledger` is the table as a function
from `idx` to the row, `lock` the `_db_lock` of every process, `pc`, `call`,
`latest` and `shots` the calls in progress and their locals. An action is one
critical section: `InitPresent`, `InitEmpty`, `InitGenesis` and `InitCollides` are
`init_db` (COUNT and INSERT are two statements that other processes can come
between), `GetLatest`, `InsertBlock` and `InsertSwallowed` the rest of
`add_event_to_ledger`, `ScanTable` is `get_ledger_blocks`, used twice by every
export. `Crash` kills a process anywhere. `founder` and `height0` are history
variables that properties use. SHA-256 is an injective function: a hash is the
tuple of what was hashed.

**LedgerVerification** models `verify_ledger_chain` on any table, damaged ones included:
`GetBlocks` parses every event before the first block is looked at, and one that does not
parse (`Unparsable`) ends the call with an exception; then the loop runs. `BadRows` says
without a loop what it should report. `Chain` is the chain that had been written before the
damage: what a valid report does and does not exclude is said relative to it.

**PromptGovernance** models `prompt_governance.py`. `approvals` and `usage` are the two
tables, `pc`, `req` and `found` the calls of `select_prompt`. `Select` is its part up
to the first transaction, `CheckFinds`/`CheckFindsNone` are `_get_active_approval`,
`FileRequest` is `_create_approval_request`, `WriteLedger` is `_write_ledger`. `_db_lock` is
one process's own, and both `approve_prompt` and `expire_test_approvals` SELECT before
SQLite begins a transaction at their first UPDATE, whose WHERE clause has no status. So a
review is two actions, `ReadRequest` and `CommitReview`, an expiry two as well
(`ReadTestApprovals`, `CommitExpiry`), and `section[p]` is what the holder of process `p`'s lock
has read and is about to write: another process may decide in between. `Init` has the rows
that the migration of an older database leaves, without `expires_at`; `Unexpired` honours
them for ever, as `if expires:` does. `CallFails` and `SectionFails` are a locked database,
`Tick` and `Crash` happen at any time. The fields `at` and `process` of a usage row are history.

**ErrorBudget** has the arithmetic of `remediation_safety.py` as operators on a
window of scores, without division: budgets and burn rates are only ever compared.

**ReadinessAutopilot** models the tick of `readiness_daemon.py` and the three
endpoints of `main.py`. Its variables are the tables (`jobs`, `incidents`, `gates`,
`reports`), the ledger as far as the score reads it (`blocks`; an append may lose its event, as
`ActionLedger` shows), the journal mode of the file (`wal`), and the calls (`pc`, `frame`).
A tick is a subroutine: `frame[t].back` is where it returns to, as it is called by
the daemon and at the end of every remediation, rollback and diagnosis. It measures the jobs,
the ledger and the durability of the database, each of which may fail and then scores what
the `except` left: nothing, or the first of two results. The loop
of `/remediate` is the labels from `loop` on; what it read once before the loop
(incidents, score, level, approvals) is in the frame. A patch is a kind: the
daemon's own are commands, which the code only reports as triggered; the SQL
ones are those the QA suite files. Dry run and dry undo are steps of their own, for a
PRAGMA cannot change the journal mode inside a transaction, so that both look at the mode there is.
`started` says whether the startup handler got as far as the daemon: without it nothing ticks and the
health check compares the score before the run with itself. `JobResult`, `FileIncident`, `ReadGate` and `WriteGate`
are what the other components do to the tables; a decision reads the gate and replaces its
row in two transactions, and of two that race the second overwrites the first. A database error aborts a request (`Fail`)
and is swallowed where the code has an `except`. `runs`, `approved` and `upset` are history:
what each run measured, whose gate was ever approved, and which incidents two requests had
in hand at once or one left between its two writes.

**RunbookExecution** models `remediationEngine.ts` and the panels that drive it. JavaScript
runs one callback at a time, so a store operation is atomic up to its next
`await`, and the only one is a timer of 2000 ms: `timers` is the queue of those
pending. `startExecution`, `approveExecutionStep`, `triggerRollback`, `simulateRunbook`
and `clearActiveExecution` are the operations up to their first wait, `StepTimeout` and
`RollbackTimeout` what follows a timer. A button is a guard (`CanAuthorize`, `CanRollback`,
`Execute`). The runbooks are those of `remediationFixtures.ts` that differ in what
the store tells apart.

**CommandApproval** models one page of the operator: the preview and its blockers
(`previewBlockers`), the policy (`evaluatePolicy` over posture and environment), the
modal (`RouteToApproval`, `Dispatch`), the answer to its POST as an action of its own (`CallReturns`),
and the sign-off of what was routed (`handleSubmit`, `runEscalationCheck`, a clock). Each
card has a dialog of its own, so `signOff` is a set; a card that leaves the tab that is
shown, after a decision or a sweep, takes its dialog with it (`Mounted`).

**ReleasePipeline** models the commands of `package.json` that make, verify, sign and
score a release, one action per script (`pc` is the
position in `Scripts[cmd.name]`), over files that are known by the write that
produced them (`file[f].by`): every generated file carries a timestamp, so SHA-256
identifies the write. A script that fails stops its command, any may be killed, and the
next command starts from the files there are. Signing is a step per artifact
(`SignArtifact`): each `cosign` may fail, which is a warning, and a kill leaves the
signatures made so far. Of the backend (`main.py` 639-1313) the model has what the scripts ask
it for: `SignatureStatus`, the release channel with its decisions and waivers (`Finalization`,
`ReleaseChannel`), and the blockers of the governance summary (`Governed`), which an approved governance
waiver empties, the failed verification included; they replace the candidate packet's own
(`PacketReady`). The scorecard is computed from the reports on disk (`ScorePasses`), and a
decision memo may be put into the directory by hand (`MemoWritten`).

**Contracts** says what a contract script asks of a file: that it exists, parses, has
what is required or lacks what is forbidden, or has the locked hash; and of damage
whether the script would notice (`Noticed`). **InterfaceContracts**, **PreviewContracts** and
**ProductionContracts** are the 122 links of `npm run qa:ui-contract` in order, one row
each, over 520 files. The wording a script looks for is the difference
between "stale" and "edited" and is not modelled further.

**PhaseOrchestrator** models who may execute a production phase. `queue` is `queue.json`,
`decisions` the decision files, `approval` the file request-execution writes; `job[w]` is what
a writer of the queue holds between loading and saving it. A phase is looked for as a substring
of a description, so an item names a set of phases. Decisions carry any status (`Verdicts`); an
item remembers that it was filed FAIL_CLOSED, as its reason does. The gate of a process looks for
the queue file when it is first needed and creates it in a second step (`OpensGate`, `CreatesQueue`),
which may replace what another process saved meanwhile. A builder is a process
with a program counter (`builder[b].at`): checksum contract, registry, approval, evidence,
registry again, state; killed at a file, it leaves it half written (`Garbled`), and it outlives
the server or the contract that started it (`Orphaned`). `ServerStops` loses what requests hold.
`authorised` is a history variable: what approvals named, and which were of FAIL_CLOSED items.

**ContractChain** composes the two: the chain runs its links in order; a link that
compares is one step, the approval contract and the builder contract are a step per
access to a shared file, one decision file after the other, with the `finally`-less clean-up they have; the
evidence of PR16 that the builder contract produces rests on its mock approval (`mocked`). A kill may
leave half of the file being written and, when it hits npm alone, the builder running. `link` is a position of
`FullChain`. A link that could notice nothing of the `Edited` files, and does not act, passes
and changes nothing, so the chain goes from one `Relevant` position to the next (`After`); the
assumption of `MCContractChain` says over all rows that every kind of file is `Vouched` for by some link.

The `MC` modules give the constants values for TLC, the `_proofs` modules hold the
theorems. Definitions introduced by a comment "Mutant of ..." are not part of the
model: each is the definition it is named after with a plausible mistake, against
which the properties are tested.

## What the runs show

| run | question | bounds |
|---|---|---|
| `ActionLedger.cfg` | do racing calls, retries, exports and crashes of two processes keep the chain, the ids and the exports right, implement `AppendOnlyLog`, and let every call return? | three threads (two share a process), two events that may be asked for again, three calls (`MaxCalls`), exports of block 1 (`Asked`) |
| `ActionLedgerRace.cfg` | (violated) is a swallowed event in the ledger already? | one process, two threads, two events |
| `LedgerVerification.cfg` | is the report exact, and what does a valid one exclude? | every table left of a four-block chain by missing rows and one damaged field, an event that does not parse included |
| `PromptGovernance.cfg` | do table and ledger agree while two processes select, review and expire, and does every HIGH-risk use follow an approval in time? | four prompts, one of each risk; two processes with a thread each; one row of an older database and one request; three calls, two ticks, a TTL of one |
| `PromptGovernanceTest.cfg` | (violated) are approvals that only tests touched never honoured? | one process, two threads, one HIGH-risk prompt, two requests |
| `Readiness.cfg` | is what runs allowed, what stays healthy, do the columns agree, do reports move the level the right way, and does every call return? | daemon and two requests, two calls, one incident of kind `harm`, `pragma_high` or `wal` beside what ticks file, two processes that decide, one outside event, one failure, windows of 2 and 1 |
| `Runbook.cfg` | are executions driven once, held at their first gate, final once restored, and do they end? | two executions beside those of the fixtures, over three runbooks |
| `Command.cfg` | does a page dispatch what is permitted, and do statuses follow from decisions? | three intents, one watched pillar, the pending request of the fixtures and one more, one operator, two ticks |
| `CommandDualSignOff.cfg` | (violated) do two operators sign off a routed command, as its operator is told? | the same, with an approver and an admin |
| `Release.cfg` | does a green release agree with itself, and what do verdict, packet, signatures and scorecard mean over the files of earlier commands? | three commands (`MaxCommands`), one change of the backend, memo, failed request or failed cosign (`MaxChanges`) |
| `Contracts.cfg` | does a green chain mean intact evidence, is what is sealed approved, and is the registry behind the evidence? | three events (`MaxEvents`), of which a chain run takes two; one server thread; requests that name no phase, PR16, or PR16 and PR17; four files that may be damaged in five ways |
| `ContractsFailClosed.cfg` | (violated) is no phase sealed on FAIL_CLOSED requests alone? | four events, no chain run and no edits |

Why the bounds are enough: the races of the ledger are between two calls that
have read the same tip, a third thread in the other process adds the genesis race
and a reader; a third call gives the second chance after a lost race. An approval
can be newest, older, expired, undecided or undated: an old row, a request and a clock that passes
the TTL produce these in any order; two calls decide one request at once and the third is the selection that
uses the result, or the expiry that overwrites it. For the autopilot two requests on one
incident are the race, with a decision that is overwritten between their reading of it and their acting on it; a window of
two reports with a short window of one separates budget from burn rate; two jobs
stand for the nine the score wants. Symmetry is used for the two processes of
`PromptGovernance.cfg`, whose properties are safety.
Two executions are the least for background loops that take the active one from each other.
A third command is needed for a release over the files of an earlier one with a
command in between. The four files of `Contracts.cfg` are one of each kind that
a green chain is taken to vouch for (a manifest, a final seal, a list of blocked actions,
a file under the checksum lock); that every other file of those kinds is noticed
by some link is an assumption TLC evaluates over all 520. The chain and one event, or three
events, produce every pair of writers of the queue, the registry and the decisions that can meet; the initial
states are PR16 next, PR17 next with an approval or with a request, and the one the repository is in.

The states where a run may stop (all calls returned, bounds used up) are
legitimate, hence `CHECK_DEADLOCK FALSE`; that no call is stuck is what
`CallsReturn` says.

### Fairness

`FairSpec` of the ledger is weak fairness of each thread's own steps. Handlers run
in operating-system threads that are always scheduled; the only thing a call
waits for is `_db_lock` (a `with` block around one transaction, so that it is always
released) or SQLite's own lock, whose timeout ends in an error. For the autopilot less is assumed:
that some call under way goes on (`WF_vars(\E t : Proceed(t))`), which suffices as no call waits
for another and every one ends. No fairness is
assumed of new calls, crashes, failures, the clock or operators. `FairSpec` of
`RunbookExecution` is weak fairness of `Timeout`: a timer that was set fires, which is what
a browser promises; nothing is assumed of the operator. The other modules state no
liveness and no fairness.

### Disagreements found

Each is a run that TLC must find violated and quotes the line it refutes
(`PROJECT.json`, findings):

- a call that loses the race for an index is treated as a duplicate and its event
  is dropped (`ledger_manager.py:132`);
- approvals by test identities become OPERATOR approvals (`prompt_governance.py:432`);
- an operator is told that a routed command requires dual sign-off
  (`CommandPreviewModal.tsx:151`), and one approval suffices, as the store asks two of critical
  requests only and a critical command is never routed (`approvalStore.ts:37`);
- "FAIL_CLOSED approval cannot be approved into execution" (`test-approval-gate-contract.ts:117`):
  any other decision in between clears the status that `approval_gate.py:103` looks at, and
  the builder then executes the phase.

### Observations

What follows shows in the models and contradicts no text of the repository, or none that
a run can refute more clearly than reading does; it has no run of its own.

Ledger. One event whose text does not parse ends the verification with an exception, so that
nothing is said of the other rows (`ledger_manager.py:165`).

Prompts. Two processes can both decide a request, and the second decision overwrites the first; an
expiry of test approvals can overwrite an approval that was given since it read the row, though it reports
"Operator approvals unaffected." (`prompt_governance.py:662`). An approval without `expires_at`,
as the migration leaves it, is honoured for ever, and is hidden by a newer one that has run
out. An approval is looked up by prompt only, never by agent
(`prompt_governance.py:553`); the lookup compares with the id in upper case while requests
keep the spelling they were made with, so that a lower-case id is never found once
approved (line 558; `Spelling` is "canonical" in the runs).

Autopilot. The autonomy level
is computed once per request, so a patch that ruins the score does not throttle the next one
(`main.py:7154`); a patch that raises the score, but to less than 95, is rolled back as a
degradation (`main.py:7311`); since an append may be lost, a patch may run without its
STARTED event (`main.py:7258`). Of two decisions on a gate that race, the later row replaces
an approval that was already given and perhaps acted on (`main.py:4893-4943`). The result of
`verify_ledger_chain` is a dict, which is true whatever it says, so a corrupted ledger of
three blocks scores as an intact one (`readiness_daemon.py:129`). Without a daemon the health
check after a patch compares a score with itself (`main.py:7305`).

Runbooks. A gate after the authorised one is skipped by the resumed loop
(`remediationEngine.ts:317`), so `FirstGateHolds` is the strongest that holds. Execute
of the detail panel does not look at the status, so a draft runs although its simulation is
blocked. A paused execution that is no longer shown can never be authorised, and every
background step shows its own. A rollback during the last step is logged as
succeeded first. EXEC-1278 of the fixtures has no timer and never moves.

Commands. The answer of createApproval closes whatever preview is open by then
(`CommandPreviewModal.tsx:152`). What was escalated or has expired can no longer be decided
(`ApprovalRequestCard.tsx:200`), and requests expire only when somebody sweeps. An override passes the policy for every operator. An approved request is
never executed: `executeTaskWithMode` has no caller.

Release. The `.sha256` of the evidence pack never matches it, as the checksum
script writes into the pack after hashing it (`checksum-evidence-pack.ts:13`, 41). From the
second release on, the provenance names the previous pack, and `supply:verify` fails
because the manifest lists the report that it rewrites. A failed fetch keeps the
audit of an earlier run (`generate-release-manifest.ts:37`). Signing follows verification, looks only at
whether a `.sig` is there, and its failures are warnings: a `.sig` made of an earlier release's
bytes counts as well. A governance waiver, whose gate says that it "Waives tag alignment and working tree
checks for release" (`main.py:1164`), also waives `qa_not_passed` (line 1305), so that a candidate packet can be
ready for a formal release without a verification report; one of scope `local_dev`, approved at
once, counts like one of a formal release (line 1265).

Orchestrator and contracts. As a phase is found by its name anywhere in a text, an approval may
cover two phases, and request-execution for one stamps the first item that names it, whatever else
that names (`main.py:9402`); it does so to FAIL_CLOSED items too, without the check of `approval_gate.py:103`.
A server that finds no queue may replace, with an empty one, the queue another process has just saved
(`approval_gate.py:19`).
The approval contract deletes the queue, the operator's requests included, and leaves
a FAIL_CLOSED item in the telemetry. The builder contract deletes the evidence of PR16
whether or not it was there before (`test-builder-runner-contract.ts:137`): the repository has
the seals of PR17 and PR18 and not that of PR16, beside a registry that is past all three.
It can not pass while an approval file for PR16 exists, which it does not hide; killed,
it leaves the mock approval, which the next run hides and puts back as an operator's; and
what it puts back may be older than what builders and operators wrote meanwhile. Two manifests
are only asked to exist (`NeverOpened`). "No file claims execution performed" looks for a
spelling with a space after the colon, which `JSON.stringify` does not produce
(`test-production-decision-contract.ts:136`). The checksum register disagrees with
`package.json` at this commit, so the chain of the repository as it is stops there; the model
starts from the sealed files.

## What is proved

The theorems hold for all values of the constants (any number of processes,
threads, events, prompts, people, incidents, executions, commands, any TTL and any
window), from the named assumptions in the modules. Nearly all of these only type the constants and
keep special values apart. The others say what a fixture or a library is like:
`InitialRequestsAssumption` (every request of the fixtures is undecided, or decided once with
the matching status) and `InitialExecutionsAssumption` (the executions of the fixtures have their types), `ThreadAssumption`
(the chain and the queue's loop are not request threads), `ChainAssumption` (written blocks are
linked, and none has the genesis predecessor as its hash) and `CollisionAssumption` (SHA-256
does not collide on the tables looked at). TLC evaluates each of them on its run. Two theorems
(`LiveIsFound`, `GreenChainsAreIntact`) have a hypothesis of their own, named below.

An invariant is seldom inductive by itself. What had to be added is in each case what the code relies on
without saying so:

- `ActionLedger_proofs`: `ChainIntact` alone says nothing of what a call holds between its critical
  sections. `IInv` adds that indices are contiguous, that what a call remembers as the latest
  block is (still) a block with that hash, so that the row it inserts above it is
  linked to it exactly if its index is free; that a call past `init_db` sees a
  non-empty table; who holds the lock while writing genesis; and that the
  reads of an export are prefixes of the table. From it follow all invariants of the run,
  append-only as an action property, and the refinement of `AppendOnlyLog` with the
  events in index order: genesis is `Found`, an accepted INSERT is `Record`, all else
  stutters.
- `LedgerVerification_proofs`: `LoopInv` (behind the loop lie exactly the bad rows)
  gives `VerificationExact` for tables of any length and any digest, those included on which the call fails without a report. `UndamagedIfValid` goes from one
  row to the next: a row that verifies and has at most one column changed is a written block,
  and its predecessor can only be the block before; the offset at which the table lies in the chain is that of
  its first row, and a least row that lies elsewhere leads to a contradiction.
- `PromptGovernance_proofs`: two processes may both decide a request, so `DecisionsAgree` rests on what
  each is about to write. `SectionsOK` says that a process under way with a review or an expiry has never
  decided that row before, and that an expiry is about rows that tests requested; `RowsOK` that
  an approval has the expiry its review gives it, unless a migration left it. `ApprovedLogged` and
  `HeldLogged` say that the approval a call is about to use is
  already in the usage ledger and had not run out when the call looked: without them `UsesFollowApproval`
  and `UsesWithinTTL` are not inductive,
  since the row is written after the lookup. `LiveIsFound` compares the newest row with all others:
  dates are bounded, so that there is a newest; it supposes ids in the spelling the lookup uses
  (`Spelling = {"canonical"}`), as with others it is false (see Observations).
- `ReadinessAutopilot_proofs`: a call works on what it read many transactions before. `Sane` says
  what still holds of each call's locals: incidents are never removed, and an approval that was read was given, even if another decision
  has replaced it since (`approved`), so what was read stays good whoever else runs. `Owes` says which call still
  answers for an incident marked remediated: it has not compared the scores yet, or is
  about to take the mark back. `GatesRespected` and `HealthyRemediation` follow for any number of calls.
  `Agreement` is about any number of requests and database errors, and is not about incidents that two of
  them had in hand at a time, or that one left between its two writes, for those can disagree
  for good. `OneHand` says that no two calls have any other incident in hand, `Settled` that then what a call has read of
  it is still so, `Agreed` that the columns differ only between the two
  writes. `NewsAlwaysCounts` is about sums over windows of any two lengths: a window is
  followed by one that starts with the new report and may lose the last (`Follows`); a value no
  greater than the others takes no average over a bound, one no less takes none back. The code's `get_autonomy_level`
  is therefore monotone in the news although it compares two averages over different windows.
- `RunbookExecution_proofs`: `Fits` says of one execution with its timers that at most
  one step is waited for and that it is the running one (`Waits`), that a rollback is the last timer of its
  execution (`Last`), and that what lies beyond the first gate was authorised (`Gated`). `Last` is the
  point: a step and a rollback wait the same 2000 ms, so their timers fire in the order
  they were set, and the step that is under way when the operator rolls back comes in before the end of the rollback.
- `CommandApproval_proofs`: `StatusExplained` is inductive with the types, however many dialogs are open: the status after
  a decision depends on the decisions alone (`DecidedFields`), and a sweep changes only what is pending (`SweptFields`).
  Closed requests change only through a dialog opened before, as a dialog opens on a pending request.
  `PermittedDispatch` rests on `RulesAgree`: the two copies of the approval rule, in the preview and
  in the policy, say the same.
- `ReleasePipeline_proofs`: what a green command promises is the sum of what its scripts wrote,
  so `IInv` says which writes of the running command are on disk by its position in the chain
  (`Built`, `Audited`), and that no file is newer than the command (`Dated`). As the next command
  starts from the files of the last one, it also says what a verdict, a packet and a
  pair of manifest and verdict stand for after their command is gone (`Repeatable`, `VerdictMeansComplete`), killed or not,
  and that a manifest counts as signed only what has its signature (`Counted`): signatures are made one by one and never removed.
- `ContractChain_proofs`, on the phases: `AdvanceInv` gives `SealedBeforeAdvanced`. By itself the property
  is not inductive: a builder advances the registry to where its own copy says, the
  contract puts back the registry it read at its start. The invariant adds that a builder past its reading
  holds a phase whose predecessor is sealed, that one about to advance has sealed that
  phase, and that the backup is behind the evidence as well; a registry left half written leads no builder anywhere. PR16 is left out throughout, as
  the contract removes its seal; nothing the registry may say rests on it.
  `SealInv` gives `SealedWasApproved`. It says that every phase named by an APPROVED item, decision or approval file is
  covered: some approval named it, or it is PR16 and a contract has written its mock approval; and so is the phase
  of a builder that is about to write evidence. The contract's own ids stand for requests
  about no phase. The point of the argument is that
  it does not matter how old a copy is when it is saved, nor whether a queue is replaced by an empty one: a lost update may lose an
  approval, and never adds one. `TypeInv` adds to the types that an id stands for one item in every
  copy of the queue (the file, the contract's backup, what a writer is about to save, what it will stamp), and that only the link
  that acts has a job or a backup.
- `ContractChain_proofs`, on the chain: `PassedInv` says that what the links behind the current one would notice
  has not happened to any file nobody edited during the run; by way of the least relevant position after
  the current one, no link is skipped. `GreenChainsNoticeNothing` follows for any links and files.
  `GreenChainsAreIntact` adds the hypothesis `Vouched(Edited)`: each damage to one of these files is noticed by
  some link. That is a statement about the 122 rows and not about any behaviour; TLC evaluates it for
  all files of the rows but the two manifests that are only counted.

Only model-checked: liveness (`CallsReturn`, `ExecutionEnds`), which the prover cannot do under fairness, as it cannot
do `ENABLED`. What the rows of the 122 links say is evaluated, not proved. Induction over data is
done where it was needed by way of sets of numbers (`LeastNumber`, `Induction`): each has a least one.

## What is not modelled

- Ledger and prompts: copying the database into a handoff packet, the text of exports,
  classification of prompts.
- Autopilot: freshness of nodes (the daemon's own manager never changes it), the
  scorecard file, several findings of one kind per tick.
- Browser: views, texts and fetched data; operations that no component calls
  (`registerRunbook`, `updateRunbookStatus`, `selectExecution`, `updateStatus`,
  `executeTaskWithMode`, `submitDecision`).
- Release: the seal bundle, the north-star report, the stale-green regression.
- Orchestrator: the branch check (git is outside), the audit log, prompt rendering and
  reports, a queue or registry file read while another process is in the middle of writing it (what a killed writer leaves is
  modelled).
- Contracts: the wording looked for, and the requests nine live contracts send to
  components that are not modelled (their rows cover the part that looks at files, and the
  mapped lines end there).
- What the plan leaves open and what `PROJECT.json` lists as not modelled, with its reason:
  I/O-bound probes, report generation, views.
