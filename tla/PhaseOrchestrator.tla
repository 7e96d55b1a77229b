------------------------- MODULE PhaseOrchestrator -------------------------
(***************************************************************************)
(* Who may execute a production phase. The approval gate keeps a queue in  *)
(* one JSON file that every request loads, changes and saves again; the    *)
(* control tower's request-execution endpoint writes an approval file and  *)
(* the same queue; the builder reads all of it, writes the evidence of the *)
(* next phase and advances the registry.                                   *)
(*                                                                         *)
(* Requests and decisions run in threads of the server, request-execution  *)
(* and execute-phase on its event loop, the contract tests in a process of *)
(* their own. Builders are separate processes: one the server started, one *)
(* an operator started, one a contract started, one whose parent was killed*)
(***************************************************************************)
EXTENDS ProductionContracts, Naturals

CONSTANTS
    Thread,      \* the server's threads
    Named,       \* the sets of phases a free request's text may name
    Asked,       \* the phases request-execution is called for
    Verdicts,    \* the statuses a decision may carry: any string
    MaxEvents    \* requests, decisions, builders and edits in a behaviour

ASSUME ThreadAssumption == {"loop", "contract"} \cap Thread = {}

VARIABLES
    damage,      \* file -> what has happened to it
    registry,    \* control/phase_registry.json
    current,     \* current_phase of control/phase_state.json
    approval,    \* phase -> status in its decision_<phase>_execute.json
    queue,       \* artifacts/approvals/queue.json: its items, ordered by id
    exists,      \* whether that file is there
    opened,      \* whether the server has made its ApprovalGate
    decisions,   \* the files of artifacts/approvals/decisions
    sealed,      \* the phases with a final seal
    job,         \* writer of the queue -> the operation it is in
    builder,     \* builder -> how far it is
    ids,         \* the last approval id given out
    events,      \* counts towards MaxEvents
    authorised   \* history: what an operator's approvals named

gateVars == <<queue, exists, opened, decisions, job, ids>>
phaseVars == <<registry, current, sealed>>
orchestratorVars ==
    <<damage, registry, current, approval, queue, exists, opened, decisions,
      sealed, job, builder, ids, events, authorised>>

Phases == {"PR16", "PR17", "PR18"}
Requestable == Phases \cup {"COMPLETED"}
ASSUME AskedAssumption == Asked \subseteq Requestable

Successor == [PR16 |-> "PR17", PR17 |-> "PR18", PR18 |-> "COMPLETED"]

Writers == Thread \cup {"loop", "contract"}
Builders == {"server", "operator", "contract", "orphan"}

\* What a file holds whose writer was killed at it: no reader can parse it.
Garbled == [last |-> "garbled", next |-> "garbled"]

\* A phase is recognised by its name anywhere in the text, so that one item may
\* name several. An item is closed when it was filed FAIL_CLOSED, which its
\* reason still tells after a decision.
Item(id, names, closed, status) ==
    [id |-> id, names |-> names, closed |-> closed, status |-> status]
NoItem == Item(0, {}, FALSE, "none")
Naming(q, phase) == {item \in q : phase \in item.names}
Filed(id, names, status) == Item(id, names, status = "FAIL_CLOSED", status)
Stamp(item, status) == Item(item.id, item.names, item.closed, status)

\* What a writer holds between loading the queue and saving it: its copy, the
\* decision file it writes after the queue, the item it stamps afterwards.
Idle == [does |-> "nothing", copy |-> {}, file |-> NoItem, stamp |-> NoItem]
Saving(copy, file, stamp) ==
    [does |-> "save", copy |-> copy, file |-> file, stamp |-> stamp]

\* What it does first when its gate found no queue.
Creating == [Idle EXCEPT !.does = "create"]

Resting == [at |-> "idle", asked |-> "none", phase |-> "none"]

-----------------------------------------------------------------------------
(* The approval gate.                                                      *)

Free(w) == job[w].does = "nothing"
Load(w) == Free(w) /\ (opened \/ w = "contract")

\* A process makes its gate when it first needs it, and the gate looks for the
\* file; the server may need it late, or again after a restart.
OpensGate(w) ==
    /\ Free(w)
    /\ ~ opened
    /\ IF exists THEN opened' = TRUE /\ UNCHANGED job
       ELSE job' = [job EXCEPT ![w] = Creating] /\ UNCHANGED opened
    /\ UNCHANGED <<queue, exists, decisions, ids>>

\* There was no file, so it writes an empty one over whatever is there by now.
CreatesQueue(w) ==
    /\ job[w].does = "create"
    /\ queue' = {}
    /\ exists' = TRUE
    /\ opened' = (opened \/ w # "contract")
    /\ job' = [job EXCEPT ![w] = Idle]
    /\ UNCHANGED <<decisions, ids>>

\* Mutant: an id is given out twice.
CreateRequestReusesId(w, names, status, stamp) ==
    /\ Load(w)
    /\ ids' = ids
    /\ job' = [job EXCEPT ![w] =
                  Saving(queue \cup {Filed(ids, names, status)}, NoItem,
                         IF stamp = "none" THEN NoItem
                         ELSE Stamp(Filed(ids, names, status), stamp))]
    /\ UNCHANGED <<queue, exists, opened, decisions>>

\* create_request: the copy it will save ends with the new item.
CreateRequest(w, names, status, stamp) ==
    /\ Load(w)
    /\ ids' = ids + 1
    /\ job' = [job EXCEPT ![w] =
                  Saving(queue \cup {Filed(ids', names, status)}, NoItem,
                         IF stamp = "none" THEN NoItem
                         ELSE Stamp(Filed(ids', names, status), stamp))]
    /\ UNCHANGED <<queue, exists, opened, decisions>>

\* An unknown id and the approval of a FAIL_CLOSED item raise; what the item
\* was before another decision does not matter.
Decidable(id, status) ==
    \E item \in queue :
        item.id = id /\ ~ (item.status = "FAIL_CLOSED" /\ status = "APPROVED")

Stamped(q, id, status) ==
    {IF item.id = id THEN Stamp(item, status) ELSE item : item \in q}

RecordDecision(w, id, status) ==
    /\ Load(w)
    /\ Decidable(id, status)
    /\ \E item \in queue :
           /\ item.id = id
           /\ job' = [job EXCEPT ![w] =
                         Saving(Stamped(queue, id, status),
                                Stamp(item, status), NoItem)]
    /\ UNCHANGED <<queue, exists, opened, decisions, ids>>

\* A decision has its own file to write after the queue; request-execution has
\* not stamped the item it created yet and goes on.
SaveQueue(w) ==
    /\ job[w].does = "save"
    /\ queue' = job[w].copy
    /\ exists' = TRUE
    /\ job' = [job EXCEPT ![w] =
                  IF job[w].file # NoItem THEN [job[w] EXCEPT !.does = "decide"]
                  ELSE IF job[w].stamp # NoItem
                       THEN [job[w] EXCEPT !.does = "reload"]
                  ELSE Idle]
    /\ UNCHANGED <<opened, decisions, ids>>

\* A file of that name is written over.
Filing(files, d) == {other \in files : other.id # d.id} \cup {d}

WriteDecision(w) ==
    /\ job[w].does = "decide"
    /\ decisions' = Filing(decisions, job[w].file)
    /\ job' = [job EXCEPT ![w] = Idle]
    /\ UNCHANGED <<queue, exists, opened, ids>>

\* It loads the queue again; an item lost in between is not stamped.
ReloadAndStamp(w) ==
    /\ job[w].does = "reload"
    /\ job' = [job EXCEPT ![w] =
                  Saving(Stamped(queue, job[w].stamp.id, job[w].stamp.status),
                         NoItem, NoItem)]
    /\ UNCHANGED <<queue, exists, opened, decisions, ids>>

-----------------------------------------------------------------------------
(* The endpoints of the server.                                            *)

Happens == events < MaxEvents /\ events' = events + 1

\* The loop hands a request to a thread, unless it is waiting for a builder.
Accepts == builder["server"] = Resting

Ended == {"idle", "pending", "failed", "done"}

\* What an approval covers: the phases its text names.
Grant(item) == [names |-> item.names, closed |-> item.closed]
ForPhase(phase) == [names |-> {phase}, closed |-> FALSE]

Authorises(status, grants) ==
    authorised' = IF status = "APPROVED" THEN authorised \cup grants
                  ELSE authorised

RequestEndpoint(t) ==
    /\ Happens
    /\ Accepts
    /\ \E names \in Named, status \in {"PENDING", "FAIL_CLOSED"} :
           CreateRequest(t, names, status, "none")
    /\ UNCHANGED <<phaseVars, damage, approval, builder, authorised>>

DecisionEndpoint(t) ==
    /\ Happens
    /\ Accepts
    /\ \E item \in queue, status \in Verdicts :
           /\ RecordDecision(t, item.id, status)
           /\ Authorises(status, {Grant(item)})
    /\ UNCHANGED <<phaseVars, damage, approval, builder>>

\* request_phase_execution: the approval file, then the first item whose text
\* names the phase, whatever its status and whatever else it names, or a new
\* one. A registry that cannot be parsed ends the call first.
RequestExecution ==
    /\ Happens
    /\ Accepts
    /\ Load("loop")
    /\ registry # Garbled
    /\ \E phase \in Asked, status \in {"APPROVED", "PENDING"} :
           /\ approval' = [approval EXCEPT ![phase] = status]
           /\ \/ \E item \in Naming(queue, phase) :
                     /\ \A other \in Naming(queue, phase) : item.id <= other.id
                     /\ job' = [job EXCEPT !["loop"] =
                                   Saving(Stamped(queue, item.id, status),
                                          NoItem, NoItem)]
                     /\ Authorises(status, {ForPhase(phase), Grant(item)})
                     /\ UNCHANGED <<queue, exists, opened, decisions, ids>>
              \/ /\ Naming(queue, phase) = {}
                 /\ CreateRequest("loop", {phase}, "PENDING", status)
                 /\ Authorises(status, {ForPhase(phase)})
    /\ UNCHANGED <<phaseVars, damage, builder>>

ServerWriter(w) ==
    /\ \/ OpensGate(w)
       \/ CreatesQueue(w)
       \/ SaveQueue(w)
       \/ WriteDecision(w)
       \/ ReloadAndStamp(w)
    /\ UNCHANGED <<phaseVars, damage, approval, builder, events, authorised>>

\* A builder outlives its parent, one at a time.
Orphaned(b) ==
    IF builder[b].at \in Ended
    THEN builder' = [builder EXCEPT ![b] = Resting]
    ELSE /\ builder["orphan"] = Resting
         /\ builder' = [builder EXCEPT ![b] = Resting, !["orphan"] = builder[b]]

\* The server stops: what its requests held is gone, the queue is half written
\* when it was being saved, which reads as empty, and the builder goes on.
ServerStops ==
    /\ \/ opened
       \/ \E w \in Writers \ {"contract"} : job[w] # Idle
       \/ builder["server"] # Resting
    /\ job' = [w \in Writers |-> IF w = "contract" THEN job[w] ELSE Idle]
    /\ opened' = FALSE
    /\ \/ UNCHANGED <<queue, exists>>
       \/ /\ \E w \in Writers \ {"contract"} : job[w].does = "save"
          /\ queue' = {}
          /\ exists' = TRUE
    /\ Orphaned("server")
    /\ UNCHANGED <<phaseVars, damage, approval, decisions, ids, events, authorised>>

-----------------------------------------------------------------------------
(* The builder.                                                            *)

StartBuilder(b, asked) ==
    /\ builder[b].at \in Ended
    /\ builder' = [builder EXCEPT ![b] =
                      [at |-> "drift", asked |-> asked, phase |-> "none"]]

\* Nobody waits for the verdict of a builder but the contract.
Ends(b, verdict) ==
    builder' = [builder EXCEPT ![b] =
                   IF b = "contract" THEN [Resting EXCEPT !.at = verdict]
                   ELSE Resting]

\* execute_orchestrator_phase: only the phase's approval file counts here.
ExecutePhase ==
    /\ Happens
    /\ Accepts
    /\ Free("loop")
    /\ registry # Garbled
    /\ \E phase \in Phases :
           /\ approval[phase] = "APPROVED"
           /\ StartBuilder("server", phase)
    /\ UNCHANGED <<phaseVars, gateVars, damage, approval, authorised>>

OperatorRunsBuilder ==
    /\ Happens
    /\ builder["operator"] = Resting
    /\ StartBuilder("operator", "none")
    /\ UNCHANGED <<phaseVars, gateVars, damage, approval, authorised>>

\* Mutant: a decision file counts whatever was decided.
ApprovedByAnyDecision(phase) ==
    \/ approval[phase] = "APPROVED"
    \/ Naming(decisions, phase) # {}
    \/ \E item \in Naming(queue, phase) : item.status = "APPROVED"

\* check_operator_approval: the approval file, any decision file that names the
\* phase, any queue item that does.
Approved(phase) ==
    \/ approval[phase] = "APPROVED"
    \/ \E d \in Naming(decisions, phase) : d.status = "APPROVED"
    \/ \E item \in Naming(queue, phase) : item.status = "APPROVED"

\* Mutant: the registry is advanced before the evidence is written.
NextStageAdvancesFirst(at) ==
    CASE at = "approved" -> "advance"
      [] at = "advance" -> "evidence"
      [] at = "evidence" -> "record"

\* What the builder does after each of its writes.
NextStage(at) ==
    CASE at = "approved" -> "evidence"
      [] at = "evidence" -> "advance"
      [] at = "advance" -> "record"

Reaches(b, at) == builder' = [builder EXCEPT ![b].at = at]

\* The branch is compared with what the phase state says, then run_drift_check
\* runs the checksum contract.
CheckDrift(b) ==
    /\ builder[b].at = "drift"
    /\ IF \/ current = "garbled"
          \/ \E file \in DOMAIN damage :
              Noticed(NoDriftCurrentState, file, damage[file])
       THEN Ends(b, "failed") ELSE Reaches(b, "read")
    /\ UNCHANGED phaseVars

ReadRegistry(b) ==
    /\ builder[b].at = "read"
    /\ IF \/ builder[b].asked \notin {"none", registry.next}
          \/ registry.next \notin Phases
       THEN Ends(b, "failed")
       ELSE builder' = [builder EXCEPT ![b].at = "check",
                                       ![b].phase = registry.next]
    /\ UNCHANGED phaseVars

CheckApproval(b) ==
    /\ builder[b].at = "check"
    /\ IF Approved(builder[b].phase) THEN Reaches(b, NextStage("approved"))
       ELSE Ends(b, "pending")
    /\ UNCHANGED phaseVars

\* The seal is the last of the files.
WriteEvidence(b) ==
    /\ builder[b].at = "evidence"
    /\ sealed' = sealed \cup {builder[b].phase}
    /\ Reaches(b, NextStage("evidence"))
    /\ UNCHANGED <<registry, current>>

\* The registry it read before the approval is written back, advanced.
AdvanceRegistry(b) ==
    /\ builder[b].at = "advance"
    /\ registry' = [last |-> builder[b].phase,
                    next |-> Successor[builder[b].phase]]
    /\ Reaches(b, NextStage("advance"))
    /\ UNCHANGED <<current, sealed>>

RecordPhase(b) ==
    /\ builder[b].at = "record"
    /\ current' = builder[b].phase
    /\ Ends(b, "done")
    /\ UNCHANGED <<registry, sealed>>

BuilderSteps(b) ==
    /\ \/ CheckDrift(b)
       \/ ReadRegistry(b)
       \/ CheckApproval(b)
       \/ WriteEvidence(b)
       \/ AdvanceRegistry(b)
       \/ RecordPhase(b)
    /\ UNCHANGED <<gateVars, damage, approval, events, authorised>>

\* A builder killed at a file leaves it half written.
BuilderKilled(b) ==
    /\ builder[b].at \notin Ended
    /\ Ends(b, "failed")
    /\ registry' \in {registry} \cup
                     IF builder[b].at = "advance" THEN {Garbled} ELSE {}
    /\ current' \in {current} \cup
                    IF builder[b].at = "record" THEN {"garbled"} ELSE {}
    /\ UNCHANGED <<sealed, gateVars, damage, approval, events, authorised>>

-----------------------------------------------------------------------------
\* What the approval files of the initial states say.
ApprovalFiles(phases) ==
    [phase \in Requestable |-> IF phase \in phases THEN "APPROVED" ELSE "none"]

\* PR16 is next; or it is done and PR17 is approved in its file, or requested
\* after a decision on PR16; or all is done and the builder's contract has
\* removed the evidence of PR16, which is the state the repository is in.
OrchestratorInit ==
    /\ \/ /\ registry = [last |-> "PR15", next |-> "PR16"]
          /\ sealed = {}
          /\ decisions = {}
          /\ queue = {}
          /\ approval = ApprovalFiles({})
       \/ /\ registry = [last |-> "PR16", next |-> "PR17"]
          /\ sealed = {"PR16"}
          /\ \/ /\ decisions = {}
                /\ queue = {}
                /\ approval = ApprovalFiles({"PR16", "PR17"})
             \/ /\ decisions = {Item(1, {"PR16"}, FALSE, "APPROVED")}
                /\ queue = decisions \cup {Item(2, {"PR17"}, FALSE, "PENDING")}
                /\ approval = ApprovalFiles({})
       \/ /\ registry = [last |-> "PR18", next |-> "COMPLETED"]
          /\ sealed = {"PR17", "PR18"}
          /\ decisions = {}
          /\ queue = {}
          /\ approval = ApprovalFiles({"PR17", "PR18"})
    /\ current = registry.last
    /\ exists = (queue # {})
    /\ opened = FALSE
    /\ job = [w \in Writers |-> Idle]
    /\ builder = [b \in Builders |-> Resting]
    /\ ids = 2
    /\ events = 0
    /\ authorised = {ForPhase(phase) : phase \in
                        sealed \cup {p \in Phases : approval[p] = "APPROVED"}}

OrchestratorNext ==
    \/ \E t \in Thread : RequestEndpoint(t) \/ DecisionEndpoint(t)
    \/ RequestExecution
    \/ \E w \in Writers \ {"contract"} : ServerWriter(w)
    \/ ServerStops
    \/ ExecutePhase
    \/ OperatorRunsBuilder
    \/ \E b \in Builders : BuilderSteps(b) \/ BuilderKilled(b)
=============================================================================
