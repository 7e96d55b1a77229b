--------------------------- MODULE ContractChain ---------------------------
(***************************************************************************)
(* npm run qa:ui-contract: 122 contract tests joined by &&. A link compares*)
(* files and stops the chain when it notices damage. Two of them also act: *)
(* the approval gate's contract empties the queue and files requests in it,*)
(* the builder's contract hides what could authorise PR16, rewinds the     *)
(* registry, runs the builder without and with a mock approval, and puts   *)
(* back what it read, one file after the other. Operators, the server,     *)
(* builders and editors go on meanwhile, and the chain may be killed       *)
(* anywhere, the builder it started with it or not.                        *)
(***************************************************************************)
EXTENDS InterfaceContracts, PreviewContracts, PhaseOrchestrator, Sequences,
        FiniteSets

CONSTANTS
    Edited,      \* the files somebody may damage
    RunCosts     \* of the MaxEvents, taken by a run of the chain

VARIABLES
    link,        \* position in the chain, 0 when it does not run
    stage,       \* how far the link is, for the two that act
    failed,      \* the link's `failed` variable
    held,        \* what the builder's contract read and will put back
    own,         \* the approval ids the gate's contract was given, 0 before
    verdict,     \* how the last run ended
    touched,     \* history: the files edited since the run began
    mocked       \* history: a mock approval of PR16 has been written

chainVars == <<link, stage, failed, held, own, verdict, touched, mocked>>
vars == <<orchestratorVars, chainVars>>

\* The chain, and the positions of the links that look at a file that may
\* change and of the two that act; the others pass and change nothing.
FullChain == InterfaceChain \o PreviewChain \o ProductionChain
LooksAtAny(c) ==
    \E file \in Edited, d \in Damages : Noticed(c, file, d)
Relevant ==
    {n \in 1..Len(FullChain) : \/ FullChain[n] \in {ApprovalGateFiles,
                                                   BuilderRunnerFiles}
                               \/ LooksAtAny(FullChain[n])}

\* The relevant link after position n, 0 when there is none.
After(n) ==
    IF \E m \in Relevant : m > n
    THEN CHOOSE m \in Relevant : m > n /\ \A k \in Relevant : k > n => m <= k
    ELSE 0

Notices(c) == \E file \in Edited : Noticed(c, file, damage[file])

Nothing == [registry |-> [last |-> "none", next |-> "none"],
            current |-> "none", listed |-> {}, decisions |-> {}, queue |-> {}]

NoIds == [pending |-> 0, bypass |-> 0]

Running(c, at) == link > 0 /\ FullChain[link] = c /\ stage = at

\* Mutant: the links are joined by a semicolon.
LeavesAnyway(red) ==
    /\ link' = After(link)
    /\ verdict' = IF After(link) > 0 THEN verdict
                  ELSE IF red THEN "red" ELSE "green"
    /\ stage' = "start"
    /\ failed' = FALSE
    /\ held' = Nothing
    /\ own' = NoIds

\* A green link starts the next one, a red one ends the run.
Leaves(red) ==
    /\ link' = IF red THEN 0 ELSE After(link)
    /\ verdict' = IF red THEN "red"
                  ELSE IF After(link) = 0 THEN "green" ELSE verdict
    /\ stage' = "start"
    /\ failed' = FALSE
    /\ held' = Nothing
    /\ own' = NoIds

Goes(at) ==
    stage' = at /\ UNCHANGED <<link, verdict>>

ChainStarts ==
    /\ link = 0
    /\ events + RunCosts <= MaxEvents
    /\ events' = events + RunCosts
    /\ link' = After(0)
    /\ touched' = {}
    /\ verdict' = "none"
    /\ UNCHANGED <<phaseVars, gateVars, damage, approval, builder,
                   authorised, stage, failed, held, own, mocked>>

\* A link that only compares.
Compares ==
    /\ link > 0
    /\ FullChain[link] \notin {ApprovalGateFiles, BuilderRunnerFiles}
    /\ Leaves(Notices(FullChain[link]))
    /\ UNCHANGED <<orchestratorVars, touched, mocked>>

\* At a file it writes the kill may leave half of it; its builder may go on.
ChainKilled ==
    /\ link > 0
    /\ link' = 0
    /\ verdict' = "killed"
    /\ stage' = "start"
    /\ failed' = FALSE
    /\ held' = Nothing
    /\ own' = NoIds
    /\ job' = [job EXCEPT !["contract"] = Idle]
    /\ \/ builder' = [builder EXCEPT !["contract"] = Resting]
       \/ Orphaned("contract")
    /\ \/ UNCHANGED <<queue, exists>>
       \/ /\ stage \in {"filter", "requeue"} \/ job["contract"].does = "save"
          /\ queue' = {}
          /\ exists' = TRUE
    /\ registry' \in {registry} \cup
                     IF stage \in {"rewind", "restore"} THEN {Garbled} ELSE {}
    /\ current' \in {current} \cup
                    IF stage = "record" THEN {"garbled"} ELSE {}
    /\ UNCHANGED <<sealed, damage, approval, opened, decisions, ids, events, authorised, touched, mocked>>

-----------------------------------------------------------------------------
(* test-approval-gate-contract.ts                                          *)

Gate(at) == Running(ApprovalGateFiles, at) /\ Load("contract")

gateFrame == <<phaseVars, damage, approval, builder, events, authorised, held,
               touched, mocked>>

\* "Clean queue before running tests to prevent collision"
GateCleansQueue ==
    /\ Gate("start")
    /\ failed' = Notices(ApprovalGateFiles)
    /\ queue' = {}
    /\ exists' = FALSE
    /\ Goes("request")
    /\ UNCHANGED <<opened, decisions, job, ids, own, gateFrame>>

\* Its process finds no queue, unless a thread of the server saved one first.
GateOpens ==
    /\ Gate("request")
    /\ ~ exists
    /\ job' = [job EXCEPT !["contract"] = Creating]
    /\ UNCHANGED <<queue, exists, opened, decisions, ids, own, failed, link,
                   stage, verdict, gateFrame>>

GateRequests ==
    /\ Gate("request")
    /\ exists
    /\ CreateRequest("contract", {}, "PENDING", "none")
    /\ own' = [own EXCEPT !.pending = ids']
    /\ Goes("look")
    /\ UNCHANGED <<failed, gateFrame>>

\* It expects to be first; an empty queue raises, past everything else.
GateLooks ==
    /\ Gate("look")
    /\ failed' = (failed \/ own.pending \notin {item.id : item \in queue}
                         \/ \E item \in queue : item.id < own.pending)
    /\ Goes(IF queue = {} THEN "end" ELSE "approve")
    /\ UNCHANGED <<gateVars, own, gateFrame>>

GateApproves ==
    /\ Gate("approve")
    /\ IF Decidable(own.pending, "APPROVED")
       THEN RecordDecision("contract", own.pending, "APPROVED")
            /\ Goes("force") /\ UNCHANGED failed
       ELSE failed' = TRUE /\ Goes("end") /\ UNCHANGED gateVars
    /\ UNCHANGED <<own, gateFrame>>

GateRequestsBypass ==
    /\ Gate("force")
    /\ CreateRequest("contract", {}, "FAIL_CLOSED", "none")
    /\ own' = [own EXCEPT !.bypass = ids']
    /\ Goes("refused")
    /\ UNCHANGED <<failed, gateFrame>>

\* Approving it must raise, and does when the item is lost as well.
GateIsRefused ==
    /\ Gate("refused")
    /\ IF Decidable(own.bypass, "APPROVED")
       THEN RecordDecision("contract", own.bypass, "APPROVED") /\ failed' = TRUE
       ELSE UNCHANGED <<gateVars, failed>>
    /\ Goes("telemetry")
    /\ UNCHANGED <<own, gateFrame>>

Count(status) == Cardinality({item \in queue : item.status = status})

GateReadsTelemetry ==
    /\ Gate("telemetry")
    /\ failed' = (failed \/ Count("FAIL_CLOSED") = 0 \/ Count("APPROVED") # 1)
    /\ Goes("end")
    /\ UNCHANGED <<gateVars, own, gateFrame>>

GateEnds ==
    /\ Gate("end")
    /\ Leaves(failed)
    /\ UNCHANGED <<orchestratorVars, touched, mocked>>

ContractWrites ==
    /\ \/ CreatesQueue("contract")
       \/ SaveQueue("contract")
       \/ WriteDecision("contract")
    /\ UNCHANGED <<phaseVars, damage, approval, builder, events, authorised,
                   chainVars>>

GateContract ==
    \/ GateCleansQueue
    \/ GateOpens
    \/ GateRequests
    \/ GateLooks
    \/ GateApproves
    \/ GateRequestsBypass
    \/ GateIsRefused
    \/ GateReadsTelemetry
    \/ GateEnds
    \/ ContractWrites

-----------------------------------------------------------------------------
(* test-builder-runner-contract.ts                                         *)

Test(at) ==
    Running(BuilderRunnerFiles, at) /\ builder["contract"].at \in Ended

MockDecision == Item(0, {"PR16"}, FALSE, "APPROVED")

Keeps(at, next) ==
    /\ Test(at)
    /\ Goes(next)
    /\ UNCHANGED <<failed, own, touched, damage, approval, exists, opened, job,
                   ids, events, authorised>>

KeepsRegistry ==
    /\ Keeps("start", "keep")
    /\ held' = [held EXCEPT !.registry = registry]
    /\ UNCHANGED <<phaseVars, queue, decisions, builder, mocked>>

\* The phase state, and the names of the decision files there are.
KeepsState ==
    /\ Keeps("keep", "hide")
    /\ held' = [held EXCEPT !.current = current,
                            !.listed = {d.id : d \in Naming(decisions, "PR16")}]
    /\ UNCHANGED <<phaseVars, queue, decisions, builder, mocked>>

\* One of the listed files that name PR16 is read and removed.
HidesDecision ==
    /\ Keeps("hide", "hide")
    /\ \E d \in decisions :
           /\ d.id \in held.listed
           /\ held' = [held EXCEPT !.listed = @ \ {d.id},
                                   !.decisions = @ \cup {d}]
           /\ decisions' = decisions \ {d}
    /\ UNCHANGED <<phaseVars, queue, builder, mocked>>

KeepsQueue ==
    /\ Keeps("hide", "filter")
    /\ held.listed = {}
    /\ held' = [held EXCEPT !.queue = queue]
    /\ UNCHANGED <<phaseVars, queue, decisions, builder, mocked>>

FiltersQueue ==
    /\ Keeps("filter", "rewind")
    /\ queue' = held.queue \ Naming(held.queue, "PR16")
    /\ UNCHANGED <<phaseVars, held, decisions, builder, mocked>>

\* What cannot be parsed is left as it is.
RewindsRegistry ==
    /\ Keeps("rewind", "unapproved")
    /\ registry' = IF held.registry = Garbled THEN registry
                   ELSE [held.registry EXCEPT !.next = "PR16"]
    /\ UNCHANGED <<current, sealed, held, queue, decisions, builder, mocked>>

RunsUnapproved ==
    /\ Keeps("unapproved", "pending?")
    /\ StartBuilder("contract", "none")
    /\ UNCHANGED <<phaseVars, held, queue, decisions, mocked>>

\* The builder must have said that it awaits the operator's approval.
SeesPending ==
    /\ Test("pending?")
    /\ failed' = (failed \/ builder["contract"].at # "pending")
    /\ Goes("mock")
    /\ UNCHANGED <<orchestratorVars, held, own, touched, mocked>>

WritesMock ==
    /\ Keeps("mock", "approved")
    /\ decisions' = Filing(decisions, MockDecision)
    /\ mocked' = TRUE
    /\ UNCHANGED <<phaseVars, held, queue, builder>>

RunsApproved ==
    /\ Keeps("approved", "done?")
    /\ StartBuilder("contract", "none")
    /\ UNCHANGED <<phaseVars, held, queue, decisions, mocked>>

SeesDone ==
    /\ Test("done?")
    /\ failed' = (failed \/ builder["contract"].at # "done"
                         \/ "PR16" \notin sealed
                         \/ registry # [last |-> "PR16", next |-> "PR17"])
    /\ Goes("unmock")
    /\ UNCHANGED <<orchestratorVars, held, own, touched, mocked>>

RemovesMock ==
    /\ Keeps("unmock", "unhide")
    /\ decisions' = decisions \ {MockDecision}
    /\ UNCHANGED <<phaseVars, held, queue, builder, mocked>>

\* One file is written back, over one of that name.
RestoresDecision ==
    /\ Keeps("unhide", "unhide")
    /\ \E d \in held.decisions :
           /\ decisions' = Filing(decisions, d)
           /\ held' = [held EXCEPT !.decisions = @ \ {d}]
    /\ UNCHANGED <<phaseVars, queue, builder, mocked>>

DecisionsAreBack ==
    /\ Keeps("unhide", "requeue")
    /\ held.decisions = {}
    /\ UNCHANGED <<phaseVars, held, queue, decisions, builder, mocked>>

RestoresQueue ==
    /\ Keeps("requeue", "restore")
    /\ queue' = held.queue
    /\ UNCHANGED <<phaseVars, held, decisions, builder, mocked>>

RestoresRegistry ==
    /\ Keeps("restore", "record")
    /\ registry' = held.registry
    /\ UNCHANGED <<current, sealed, held, queue, decisions, builder, mocked>>

RestoresState ==
    /\ Keeps("record", "clean")
    /\ current' = held.current
    /\ UNCHANGED <<registry, sealed, held, queue, decisions, builder, mocked>>

\* The evidence of PR16 goes, also when it was there before.
CleansEvidence ==
    /\ Keeps("clean", "end")
    /\ sealed' = sealed \ {"PR16"}
    /\ UNCHANGED <<registry, current, held, queue, decisions, builder, mocked>>

TestEnds ==
    /\ Test("end")
    /\ Leaves(failed \/ Notices(BuilderRunnerFiles))
    /\ UNCHANGED <<orchestratorVars, touched, mocked>>

BuilderContract ==
    \/ KeepsRegistry
    \/ KeepsState
    \/ HidesDecision
    \/ KeepsQueue
    \/ FiltersQueue
    \/ RewindsRegistry
    \/ RunsUnapproved
    \/ SeesPending
    \/ WritesMock
    \/ RunsApproved
    \/ SeesDone
    \/ RemovesMock
    \/ RestoresDecision
    \/ DecisionsAreBack
    \/ RestoresQueue
    \/ RestoresRegistry
    \/ RestoresState
    \/ CleansEvidence
    \/ TestEnds

-----------------------------------------------------------------------------
\* Somebody edits a file, or the backend stops.
Edit ==
    /\ Happens
    /\ \E file \in Edited, d \in Damages :
           /\ damage[file] = "ok"
           /\ damage' = [damage EXCEPT ![file] = d]
           /\ touched' = touched \cup {file}
    /\ UNCHANGED <<phaseVars, gateVars, approval, builder, authorised, link, stage, failed, held, own, verdict, mocked>>

Init ==
    /\ OrchestratorInit
    /\ damage = [file \in Edited |-> "ok"]
    /\ link = 0
    /\ stage = "start"
    /\ failed = FALSE
    /\ held = Nothing
    /\ own = NoIds
    /\ verdict = "none"
    /\ touched = {}
    /\ mocked = FALSE

Next ==
    \/ OrchestratorNext /\ UNCHANGED chainVars
    \/ ChainStarts
    \/ Compares
    \/ ChainKilled
    \/ GateContract
    \/ BuilderContract
    \/ Edit

Spec == Init /\ [][Next]_vars

-----------------------------------------------------------------------------
Status == {"none", "PENDING", "APPROVED", "FAIL_CLOSED"} \cup Verdicts
Items == [id : 0..ids, names : Named \cup SUBSET Requestable, closed : BOOLEAN,
          status : Status]

\* The variables keep to the values the files can hold: every item of the
\* queue, of a writer's copy and of the contract's backup was filed once.
TypeOK ==
    /\ damage \in [Edited -> Damages \cup {"ok"}]
    /\ \/ registry = Garbled
       \/ registry \in [last : Phases \cup {"PR15"}, next : Requestable]
    /\ current \in Phases \cup {"PR15", "garbled"}
    /\ approval \in [Requestable -> Status]
    /\ \A q \in {queue, held.queue} \cup {job[w].copy : w \in Writers} :
           /\ q \subseteq Items
           /\ \A item, other \in q : item.id = other.id => item = other
    /\ decisions \subseteq Items
    /\ sealed \subseteq Phases
    /\ link \in Relevant \cup {0}
    /\ verdict \in {"none", "green", "red", "killed"}
    /\ link = 0 => job["contract"] = Idle /\ held = Nothing

LaterTracks == {"production-readiness-remediation-closure-plan",
                "production-readiness-remediation-execution",
                "production-readiness-remediation-validation",
                FinalCandidate, "production-decision",
                "production-staging-package", "production-staging-validation"}

\* What a reader takes a green chain to mean: manifests and final seals
\* certify, the tracks from PR9 on list what is blocked, nothing under the
\* checksum lock has changed.
MustHold(file, d) ==
    \/ file[2] \in {"manifest", "final_seal"}
           /\ d \in {"missing", "garbled", "stale"}
    \/ file \in LaterTracks \X {"blocked_actions"}
           /\ d \in {"missing", "garbled", "stale"}
    \/ file \in LockedFiles /\ d \in Damages

\* Each of the files is looked at by some link that would notice.
Vouched(files) ==
    \A file \in files, d \in Damages :
        MustHold(file, d) => \E n \in 1..Len(FullChain) : Noticed(FullChain[n], file, d)

\* A green run of the chain had no damaged file under it, other than those
\* edited while it ran, whatever its two acting links met
\* (src/package.json:84).
GreenMeansIntact ==
    verdict = "green" =>
        \A file \in Edited \ touched : ~ MustHold(file, damage[file])

\* Nothing seals a phase that no operator ever approved by name, in the text of
\* a request or in the call for its execution, but for PR16 once a contract has
\* written its mock approval: no race over the queue, no queue emptied or lost
\* on the way, no restored backup, stale registry or orphaned builder does
\* (scripts/orchestrator/builder_runner.py:22-69).
SealedWasApproved ==
    \A phase \in sealed :
        \/ \E grant \in authorised : phase \in grant.names
        \/ phase = "PR16" /\ mocked

\* "FAIL_CLOSED approval cannot be approved into execution"
\* (scripts/qa/test-approval-gate-contract.ts:117): no phase is sealed that
\* was approved in requests filed FAIL_CLOSED alone.
FailClosedIsNotExecuted ==
    \A phase \in sealed :
        \/ \E grant \in authorised : phase \in grant.names /\ ~ grant.closed
        \/ phase = "PR16" /\ mocked

\* The registry never runs ahead of the evidence, although builders advance
\* copies they read earlier, may be killed between any two writes, and a
\* contract rewinds and restores it beside them
\* (scripts/orchestrator/builder_runner.py:243-263).
SealedBeforeAdvanced ==
    /\ registry.next \in {"PR18", "COMPLETED"} => "PR17" \in sealed
    /\ registry.next = "COMPLETED" => "PR18" \in sealed
=============================================================================
