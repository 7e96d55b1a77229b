------------------------ MODULE ContractChain_proofs ------------------------
(***************************************************************************)
(* Proofs about the phases of production, for any threads, any requests,   *)
(* any damaged files and any number of events, builders and chain runs.    *)
(***************************************************************************)
EXTENDS ContractChain, TLAPS, WellFoundedInduction

---------------------------------------------------------------------------
(* The registry and the evidence *)

Registries == [last : Phases \cup {"PR15", "none", "garbled"},
               next : Requestable \cup {"none", "garbled"}]
Stages == {"idle", "pending", "failed", "done", "drift", "read", "check",
           "evidence", "advance", "record"}
Programs == [at : Stages, asked : Phases \cup {"none"},
             phase : Phases \cup {"none"}]

\* What SealedBeforeAdvanced asks of a registry, the one on disk or a copy.
Behind(reg, seals) ==
    /\ reg.next \in {"PR18", "COMPLETED"} => "PR17" \in seals
    /\ reg.next = "COMPLETED" => "PR18" \in seals

\* A builder past its reading of the registry holds a phase the registry had
\* next, and one about to advance the registry has sealed that phase. PR16 is
\* left out, whose seal the builder's contract removes.
Founded(prog, seals) ==
    /\ prog.at \in {"check", "evidence", "advance"} => prog.phase \in Phases
    /\ prog.at \in {"check", "evidence", "advance"} /\ prog.phase = "PR18"
           => "PR17" \in seals
    /\ prog.at = "advance" /\ prog.phase \in {"PR17", "PR18"}
           => prog.phase \in seals

\* The contract's backup is a record whatever it holds.
HeldIsRecord ==
    held = [registry |-> held.registry, current |-> held.current,
            listed |-> held.listed, decisions |-> held.decisions,
            queue |-> held.queue]

AdvanceInv ==
    /\ registry \in Registries
    /\ builder \in [Builders -> Programs]
    /\ HeldIsRecord
    /\ held.registry \in Registries
    /\ Behind(registry, sealed)
    /\ Behind(held.registry, sealed)
    /\ \A b \in Builders : Founded(builder[b], sealed)

\* Sealing more phases takes nothing away.
LEMMA SealsOnlyHelp ==
    ASSUME NEW s, NEW t, s \subseteq t
    PROVE  /\ \A reg : Behind(reg, s) => Behind(reg, t)
           /\ \A prog : Founded(prog, s) => Founded(prog, t)
  BY DEF Behind, Founded

\* Nor does the removal of the evidence of PR16.
LEMMA Pr16DoesNotCount ==
    ASSUME NEW s
    PROVE  /\ \A reg : Behind(reg, s) => Behind(reg, s \ {"PR16"})
           /\ \A prog : Founded(prog, s) => Founded(prog, s \ {"PR16"})
  BY DEF Behind, Founded

\* One builder moves, and its new state is founded.
LEMMA OneBuilderMoves ==
    ASSUME NEW b \in Builders, builder \in [Builders -> Programs],
           NEW prog \in Programs, NEW seals,
           \A c \in Builders : Founded(builder[c], seals),
           Founded(prog, seals), builder' = [builder EXCEPT ![b] = prog]
    PROVE  /\ builder' \in [Builders -> Programs]
           /\ \A c \in Builders : Founded(builder'[c], seals)
  OBVIOUS

\* A builder starts.
LEMMA BuilderStarts ==
    ASSUME AdvanceInv, NEW b \in Builders, NEW asked \in Phases \cup {"none"},
           StartBuilder(b, asked)
    PROVE  /\ builder' \in [Builders -> Programs]
           /\ \A c \in Builders : Founded(builder'[c], sealed)
  <1> DEFINE prog == [at |-> "drift", asked |-> asked, phase |-> "none"]
  <1>1. prog \in Programs
    BY DEF Programs, Stages
  <1>2. Founded(prog, sealed)
    BY DEF Founded
  <1> QED
    BY <1>1, <1>2, OneBuilderMoves DEF AdvanceInv, StartBuilder

\* A builder ends, with a verdict for the contract and with none for others.
LEMMA BuilderEnds ==
    ASSUME NEW b \in Builders, NEW how \in {"failed", "pending", "done"},
           builder \in [Builders -> Programs], NEW seals,
           \A c \in Builders : Founded(builder[c], seals), Ends(b, how)
    PROVE  /\ builder' \in [Builders -> Programs]
           /\ \A c \in Builders : Founded(builder'[c], seals)
  <1> DEFINE prog == IF b = "contract"
                     THEN [at |-> how, asked |-> "none", phase |-> "none"]
                     ELSE Resting
  <1>1. prog \in Programs
    BY DEF Programs, Stages, Resting
  <1>2. Founded(prog, seals)
    BY DEF Founded, Resting
  <1>3. [Resting EXCEPT !.at = how]
          = [at |-> how, asked |-> "none", phase |-> "none"]
    BY DEF Resting
  <1>4. builder' = [builder EXCEPT ![b] = prog]
    BY <1>3 DEF Ends
  <1> QED
    BY <1>1, <1>2, <1>4, OneBuilderMoves

\* A builder that outlives its parent is the same builder in another place.
LEMMA OrphanLives ==
    ASSUME NEW b \in Builders, builder \in [Builders -> Programs], NEW seals,
           \A c \in Builders : Founded(builder[c], seals), Orphaned(b)
    PROVE  /\ builder' \in [Builders -> Programs]
           /\ \A c \in Builders : Founded(builder'[c], seals)
  <1>1. Resting \in Programs /\ Founded(Resting, seals)
    BY DEF Programs, Stages, Founded, Resting
  <1>2. builder[b] \in Programs /\ Founded(builder[b], seals)
    OBVIOUS
  <1>3. "orphan" \in Builders
    BY DEF Builders
  <1> QED
    BY <1>1, <1>2, <1>3 DEF Orphaned

\* A file half written says nothing of any phase.
LEMMA GarbledIsBehind ==
    ASSUME NEW seals
    PROVE  Garbled \in Registries /\ Behind(Garbled, seals)
  BY DEF Garbled, Registries, Behind

\* A builder's step keeps the registry behind the evidence.
LEMMA BuilderAdvances ==
    ASSUME AdvanceInv, NEW b \in Builders, BuilderSteps(b), held' = held
    PROVE  AdvanceInv'
  <1> DEFINE old == builder[b]
  <1>0. old \in Programs /\ Founded(old, sealed)
    BY DEF AdvanceInv
  <1>1. CASE CheckDrift(b)
    <2>1. CASE Ends(b, "failed")
      BY <1>1, <2>1, BuilderEnds DEF CheckDrift, phaseVars, AdvanceInv, HeldIsRecord
    <2>2. CASE Reaches(b, "read")
      <3> DEFINE prog == [old EXCEPT !.at = "read"]
      <3>1. prog \in Programs /\ Founded(prog, sealed)
        BY <1>0 DEF Programs, Stages, Founded
      <3>2. builder' = [builder EXCEPT ![b] = prog]
        BY <2>2 DEF Reaches
      <3> QED
        BY <1>1, <3>1, <3>2, OneBuilderMoves
           DEF CheckDrift, phaseVars, AdvanceInv, HeldIsRecord
    <2> QED
      BY <1>1, <2>1, <2>2 DEF CheckDrift
  <1>2. CASE ReadRegistry(b)
    <2>1. CASE Ends(b, "failed")
      BY <1>2, <2>1, BuilderEnds DEF ReadRegistry, phaseVars, AdvanceInv, HeldIsRecord
    <2>2. CASE /\ registry.next \in Phases
               /\ builder' = [builder EXCEPT ![b].at = "check",
                                             ![b].phase = registry.next]
      <3> DEFINE prog == [old EXCEPT !.at = "check", !.phase = registry.next]
      <3>2. prog \in Programs
        BY <1>0, <2>2 DEF Programs, Stages
      <3>3. Founded(prog, sealed)
        BY <1>0, <2>2 DEF Programs, Stages, Founded, AdvanceInv, Behind
      <3>4. builder' = [builder EXCEPT ![b] = prog]
        BY <2>2 DEF AdvanceInv
      <3> QED
        BY <1>2, <3>2, <3>3, <3>4, OneBuilderMoves
           DEF ReadRegistry, phaseVars, AdvanceInv, HeldIsRecord
    <2> QED
      BY <1>2, <2>1, <2>2 DEF ReadRegistry
  <1>3. CASE CheckApproval(b)
    <2>1. CASE Ends(b, "pending")
      BY <1>3, <2>1, BuilderEnds DEF CheckApproval, phaseVars, AdvanceInv, HeldIsRecord
    <2>2. CASE Reaches(b, "evidence")
      <3> DEFINE prog == [old EXCEPT !.at = "evidence"]
      <3>1. prog \in Programs /\ Founded(prog, sealed)
        BY <1>0, <1>3 DEF Programs, Stages, Founded, CheckApproval
      <3>2. builder' = [builder EXCEPT ![b] = prog]
        BY <2>2 DEF Reaches
      <3> QED
        BY <1>3, <3>1, <3>2, OneBuilderMoves
           DEF CheckApproval, phaseVars, AdvanceInv, HeldIsRecord
    <2> QED
      BY <1>3, <2>1, <2>2 DEF CheckApproval, NextStage
  <1>4. CASE WriteEvidence(b)
    <2> DEFINE prog == [old EXCEPT !.at = "advance"]
    <2>1. /\ sealed' = sealed \cup {old.phase}
          /\ builder' = [builder EXCEPT ![b] = prog]
          /\ registry' = registry
      BY <1>4 DEF WriteEvidence, Reaches, NextStage
    <2>2. prog \in Programs /\ Founded(prog, sealed')
      BY <1>0, <1>4, <2>1 DEF Programs, Stages, Founded, WriteEvidence
    <2>3. \A c \in Builders : Founded(builder[c], sealed')
      BY <2>1, SealsOnlyHelp DEF AdvanceInv
    <2>4. Behind(registry', sealed') /\ Behind(held'.registry, sealed')
      BY <2>1, SealsOnlyHelp DEF AdvanceInv
    <2> QED
      BY <2>1, <2>2, <2>3, <2>4, OneBuilderMoves DEF AdvanceInv, HeldIsRecord
  <1>5. CASE AdvanceRegistry(b)
    <2> DEFINE prog == [old EXCEPT !.at = "record"]
    <2>1. /\ sealed' = sealed
          /\ builder' = [builder EXCEPT ![b] = prog]
          /\ registry' = [last |-> old.phase, next |-> Successor[old.phase]]
          /\ old.phase \in Phases
          /\ old.phase = "PR18" => "PR17" \in sealed
          /\ old.phase \in {"PR17", "PR18"} => old.phase \in sealed
      BY <1>0, <1>5 DEF AdvanceRegistry, Reaches, NextStage, Founded
    <2>2. prog \in Programs /\ Founded(prog, sealed)
      BY <1>0 DEF Programs, Stages, Founded
    <2>3. /\ builder' \in [Builders -> Programs]
          /\ \A c \in Builders : Founded(builder'[c], sealed')
      BY <2>1, <2>2, OneBuilderMoves DEF AdvanceInv
    <2>4. Successor[old.phase] = IF old.phase = "PR16" THEN "PR17"
                                 ELSE IF old.phase = "PR17" THEN "PR18"
                                 ELSE "COMPLETED"
      BY <2>1 DEF Phases, Successor
    <2>5. registry' \in Registries
      BY <2>1, <2>4 DEF Registries, Phases, Requestable
    <2>6. Behind(registry', sealed')
      BY <2>1, <2>4 DEF Behind, Phases
    <2> QED
      BY <2>1, <2>3, <2>5, <2>6 DEF AdvanceInv, HeldIsRecord
  <1>6. CASE RecordPhase(b)
    BY <1>6, BuilderEnds DEF RecordPhase, AdvanceInv, HeldIsRecord
  <1> QED
    BY <1>1, <1>2, <1>3, <1>4, <1>5, <1>6 DEF BuilderSteps

---------------------------------------------------------------------------
(* The other actions *)

\* Most of the system leaves registry, evidence, builders and backup alone.
LEMMA QuietStep ==
    ASSUME AdvanceInv, UNCHANGED <<registry, sealed, builder, held>>
    PROVE  AdvanceInv'
  BY DEF AdvanceInv, HeldIsRecord

\* A link that is left forgets its backup.
LEMMA BackupForgotten ==
    ASSUME AdvanceInv, UNCHANGED <<registry, sealed>>, held' = Nothing,
           builder' \in [Builders -> Programs],
           \A b \in Builders : Founded(builder'[b], sealed)
    PROVE  AdvanceInv'
  <1>1. HeldIsRecord' /\ held'.registry \in Registries
    BY DEF HeldIsRecord, Nothing, Registries
  <1>2. Behind(held'.registry, sealed')
    BY DEF Behind, Nothing
  <1> QED
    BY <1>1, <1>2 DEF AdvanceInv

\* A builder is started; nothing else that counts changes.
LEMMA StartKeeps ==
    ASSUME AdvanceInv, NEW b \in Builders, NEW asked \in Phases \cup {"none"},
           StartBuilder(b, asked), UNCHANGED <<registry, sealed, held>>
    PROVE  AdvanceInv'
  BY BuilderStarts DEF AdvanceInv, HeldIsRecord

\* Requests, decisions, the server and the builders.
LEMMA OrchestratorKeeps ==
    ASSUME AdvanceInv, OrchestratorNext, UNCHANGED chainVars
    PROVE  AdvanceInv'
  <1>0. held' = held
    BY DEF chainVars
  <1>1. ASSUME NEW t \in Thread, RequestEndpoint(t) \/ DecisionEndpoint(t)
        PROVE  AdvanceInv'
    BY <1>0, <1>1, QuietStep DEF RequestEndpoint, DecisionEndpoint, phaseVars
  <1>2. CASE RequestExecution
    BY <1>0, <1>2, QuietStep DEF RequestExecution, phaseVars
  <1>3. ASSUME NEW w \in Writers, ServerWriter(w)
        PROVE  AdvanceInv'
    BY <1>0, <1>3, QuietStep DEF ServerWriter, phaseVars
  <1>4. CASE ServerStops
    <2>1. /\ builder' \in [Builders -> Programs]
          /\ \A c \in Builders : Founded(builder'[c], sealed)
      BY <1>4, OrphanLives DEF ServerStops, AdvanceInv, Builders
    <2> QED
      BY <1>0, <1>4, <2>1 DEF ServerStops, phaseVars, AdvanceInv, HeldIsRecord
  <1>5. CASE ExecutePhase
    <2>1. PICK phase \in Phases : StartBuilder("server", phase)
      BY <1>5 DEF ExecutePhase
    <2> QED
      BY <1>0, <1>5, <2>1, StartKeeps DEF ExecutePhase, phaseVars, Builders
  <1>6. CASE OperatorRunsBuilder
    BY <1>0, <1>6, StartKeeps DEF OperatorRunsBuilder, phaseVars, Builders
  <1>7. ASSUME NEW b \in Builders, BuilderSteps(b)
        PROVE  AdvanceInv'
    BY <1>0, <1>7, BuilderAdvances
  <1>8. ASSUME NEW b \in Builders, BuilderKilled(b)
        PROVE  AdvanceInv'
    <2>1. /\ builder' \in [Builders -> Programs]
          /\ \A c \in Builders : Founded(builder'[c], sealed)
      BY <1>8, BuilderEnds DEF BuilderKilled, AdvanceInv
    <2>2. registry' \in {registry, Garbled} /\ sealed' = sealed
      BY <1>8 DEF BuilderKilled
    <2>3. registry' \in Registries /\ Behind(registry', sealed)
      BY <2>2, GarbledIsBehind DEF AdvanceInv
    <2> QED
      BY <1>0, <2>1, <2>2, <2>3 DEF AdvanceInv, HeldIsRecord
  <1> QED
    BY <1>1, <1>2, <1>3, <1>4, <1>5, <1>6, <1>7, <1>8 DEF OrchestratorNext

\* A kill of the chain takes its builder with it or leaves it an orphan.
LEMMA KillKeeps ==
    ASSUME AdvanceInv, ChainKilled
    PROVE  AdvanceInv'
  <1>1. Resting \in Programs /\ Founded(Resting, sealed)
    BY DEF Programs, Stages, Founded, Resting
  <1>2. /\ builder' \in [Builders -> Programs]
        /\ \A c \in Builders : Founded(builder'[c], sealed)
    <2>1. CASE builder' = [builder EXCEPT !["contract"] = Resting]
      BY <1>1, <2>1, OneBuilderMoves DEF AdvanceInv, Builders
    <2>2. CASE Orphaned("contract")
      BY <2>2, OrphanLives DEF AdvanceInv, Builders
    <2> QED
      BY <2>1, <2>2 DEF ChainKilled
  <1>3. registry' \in {registry, Garbled} /\ sealed' = sealed /\ held' = Nothing
    BY DEF ChainKilled
  <1>4. registry' \in Registries /\ Behind(registry', sealed)
    BY <1>3, GarbledIsBehind DEF AdvanceInv
  <1>5. HeldIsRecord' /\ held'.registry \in Registries
    BY <1>3 DEF HeldIsRecord, Nothing, Registries
  <1>6. Behind(held'.registry, sealed)
    BY <1>3 DEF Behind, Nothing
  <1> QED
    BY <1>2, <1>3, <1>4, <1>5, <1>6 DEF AdvanceInv

\* A link that ends, green or red.
LEMMA LeavingKeeps ==
    ASSUME AdvanceInv, NEW red, Leaves(red), UNCHANGED orchestratorVars
    PROVE  AdvanceInv'
  BY BackupForgotten DEF Leaves, orchestratorVars, AdvanceInv

\* The contract of the approval gate touches the queue alone.
LEMMA GateKeeps ==
    ASSUME AdvanceInv, GateContract
    PROVE  AdvanceInv'
  <1>1. CASE GateCleansQueue
    BY <1>1, QuietStep DEF GateCleansQueue, gateFrame, phaseVars
  <1>0. CASE GateOpens
    BY <1>0, QuietStep DEF GateOpens, gateFrame, phaseVars
  <1>2. CASE GateRequests
    BY <1>2, QuietStep DEF GateRequests, gateFrame, phaseVars
  <1>3. CASE GateLooks
    BY <1>3, QuietStep DEF GateLooks, gateFrame, phaseVars
  <1>4. CASE GateApproves
    BY <1>4, QuietStep DEF GateApproves, gateFrame, phaseVars
  <1>5. CASE GateRequestsBypass
    BY <1>5, QuietStep DEF GateRequestsBypass, gateFrame, phaseVars
  <1>6. CASE GateIsRefused
    BY <1>6, QuietStep DEF GateIsRefused, gateFrame, phaseVars
  <1>7. CASE GateReadsTelemetry
    BY <1>7, QuietStep DEF GateReadsTelemetry, gateFrame, phaseVars
  <1>8. CASE GateEnds
    BY <1>8, LeavingKeeps DEF GateEnds
  <1>9. CASE ContractWrites
    BY <1>9, QuietStep DEF ContractWrites, phaseVars, chainVars
  <1> QED
    BY <1>0, <1>1, <1>2, <1>3, <1>4, <1>5, <1>6, <1>7, <1>8, <1>9
       DEF GateContract

\* The builder's contract backs up a registry that is behind the evidence,
\* rewinds it further, puts the backup back, and removes no seal but PR16's.
LEMMA TestKeeps ==
    ASSUME AdvanceInv, BuilderContract
    PROVE  AdvanceInv'
  <1>1. CASE KeepsRegistry
    <2>1. held' = [registry |-> registry, current |-> held.current,
                   listed |-> held'.listed, decisions |-> held'.decisions,
                   queue |-> held.queue]
      BY <1>1 DEF KeepsRegistry, AdvanceInv, HeldIsRecord
    <2>2. HeldIsRecord' /\ held'.registry = registry
      BY <2>1 DEF HeldIsRecord
    <2> QED
      BY <1>1, <2>2 DEF KeepsRegistry, phaseVars, AdvanceInv
  <1>2. CASE KeepsState
    <2>1. held' = [registry |-> held.registry, current |-> current,
                   listed |-> held'.listed, decisions |-> held'.decisions,
                   queue |-> held.queue]
      BY <1>2 DEF KeepsState, AdvanceInv, HeldIsRecord
    <2>2. HeldIsRecord' /\ held'.registry = held.registry
      BY <2>1 DEF HeldIsRecord
    <2> QED
      BY <1>2, <2>2 DEF KeepsState, phaseVars, AdvanceInv
  <1>2a. CASE HidesDecision
    <2>1. held' = [registry |-> held.registry, current |-> held.current,
                   listed |-> held'.listed, decisions |-> held'.decisions,
                   queue |-> held.queue]
      BY <1>2a DEF HidesDecision, AdvanceInv, HeldIsRecord
    <2>2. HeldIsRecord' /\ held'.registry = held.registry
      BY <2>1 DEF HeldIsRecord
    <2> QED
      BY <1>2a, <2>2 DEF HidesDecision, phaseVars, AdvanceInv
  <1>3. CASE KeepsQueue
    <2>1. held' = [registry |-> held.registry, current |-> held.current,
                   listed |-> held'.listed, decisions |-> held'.decisions,
                   queue |-> queue]
      BY <1>3 DEF KeepsQueue, AdvanceInv, HeldIsRecord
    <2>2. HeldIsRecord' /\ held'.registry = held.registry
      BY <2>1 DEF HeldIsRecord
    <2> QED
      BY <1>3, <2>2 DEF KeepsQueue, phaseVars, AdvanceInv
  <1>4. CASE FiltersQueue
    BY <1>4, QuietStep DEF FiltersQueue, phaseVars
  <1>5. CASE RewindsRegistry
    <2>1. CASE held.registry = Garbled
      BY <1>5, <2>1, QuietStep DEF RewindsRegistry
    <2>2. CASE held.registry # Garbled
      <3>1. /\ registry' = [held.registry EXCEPT !.next = "PR16"]
            /\ UNCHANGED <<sealed, held, builder>>
        BY <1>5, <2>2 DEF RewindsRegistry
      <3>2. registry' \in Registries /\ registry'.next = "PR16"
        BY <3>1 DEF AdvanceInv, Registries, Requestable, Phases
      <3> QED
        BY <3>1, <3>2 DEF AdvanceInv, Behind, HeldIsRecord
    <2> QED
      BY <2>1, <2>2
  <1>6. CASE RunsUnapproved
    BY <1>6, StartKeeps DEF RunsUnapproved, phaseVars, Builders
  <1>7. CASE SeesPending
    BY <1>7, QuietStep DEF SeesPending, orchestratorVars
  <1>8. CASE WritesMock
    BY <1>8, QuietStep DEF WritesMock, phaseVars
  <1>9. CASE RunsApproved
    BY <1>9, StartKeeps DEF RunsApproved, phaseVars, Builders
  <1>10. CASE SeesDone
    BY <1>10, QuietStep DEF SeesDone, orchestratorVars
  <1>11. CASE RemovesMock
    BY <1>11, QuietStep DEF RemovesMock, phaseVars
  <1>11a. CASE RestoresDecision
    <2>1. held' = [registry |-> held.registry, current |-> held.current,
                   listed |-> held'.listed, decisions |-> held'.decisions,
                   queue |-> held.queue]
      BY <1>11a DEF RestoresDecision, AdvanceInv, HeldIsRecord
    <2>2. HeldIsRecord' /\ held'.registry = held.registry
      BY <2>1 DEF HeldIsRecord
    <2> QED
      BY <1>11a, <2>2 DEF RestoresDecision, phaseVars, AdvanceInv
  <1>11b. CASE DecisionsAreBack
    BY <1>11b, QuietStep DEF DecisionsAreBack, phaseVars
  <1>12. CASE RestoresQueue
    BY <1>12, QuietStep DEF RestoresQueue, phaseVars
  <1>13. CASE RestoresRegistry
    BY <1>13 DEF RestoresRegistry, AdvanceInv, HeldIsRecord
  <1>13a. CASE RestoresState
    BY <1>13a, QuietStep DEF RestoresState
  <1>14. CASE CleansEvidence
    <2>1. /\ sealed' = sealed \ {"PR16"}
          /\ UNCHANGED <<registry, builder, held>>
      BY <1>14 DEF CleansEvidence
    <2> QED
      BY <2>1, Pr16DoesNotCount DEF AdvanceInv, HeldIsRecord
  <1>15. CASE TestEnds
    BY <1>15, LeavingKeeps DEF TestEnds
  <1> QED
    BY <1>1, <1>2, <1>2a, <1>3, <1>4, <1>5, <1>6, <1>7, <1>8, <1>9, <1>10,
       <1>11, <1>11a, <1>11b, <1>12, <1>13, <1>13a, <1>14, <1>15
       DEF BuilderContract

---------------------------------------------------------------------------
\* Every step keeps the builders and the registry behind the evidence.
LEMMA AdvanceInvStep == AdvanceInv /\ [Next]_vars => AdvanceInv'
  <1> SUFFICES ASSUME AdvanceInv, [Next]_vars PROVE AdvanceInv'
    OBVIOUS
  <1>1. CASE OrchestratorNext /\ UNCHANGED chainVars
    BY <1>1, OrchestratorKeeps
  <1>2. CASE ChainStarts
    BY <1>2, QuietStep DEF ChainStarts, phaseVars
  <1>3. CASE Compares
    BY <1>3, LeavingKeeps DEF Compares
  <1>4. CASE ChainKilled
    BY <1>4, KillKeeps
  <1>5. CASE GateContract
    BY <1>5, GateKeeps
  <1>6. CASE BuilderContract
    BY <1>6, TestKeeps
  <1>7. CASE Edit
    BY <1>7, QuietStep DEF Edit, phaseVars
  <1>8. CASE UNCHANGED vars
    BY <1>8, QuietStep DEF vars, orchestratorVars, chainVars
  <1> QED
    BY <1>1, <1>2, <1>3, <1>4, <1>5, <1>6, <1>7, <1>8 DEF Next

\* Each of the initial states has the evidence of what it has advanced past.
LEMMA AdvanceInvInit == Init => AdvanceInv
  <1> SUFFICES ASSUME Init PROVE AdvanceInv
    OBVIOUS
  <1>0. \/ registry = [last |-> "PR15", next |-> "PR16"]
        \/ registry = [last |-> "PR16", next |-> "PR17"]
        \/ /\ registry = [last |-> "PR18", next |-> "COMPLETED"]
           /\ sealed = {"PR17", "PR18"}
    BY DEF Init, OrchestratorInit
  <1>1. registry \in Registries /\ Behind(registry, sealed)
    BY <1>0 DEF Registries, Behind, Requestable, Phases
  <1>2. HeldIsRecord /\ held.registry \in Registries
    BY DEF Init, HeldIsRecord, Nothing, Registries
  <1>3. Behind(held.registry, sealed)
    BY DEF Init, Behind, Nothing
  <1>4. Resting \in Programs /\ Founded(Resting, sealed)
    BY DEF Programs, Stages, Founded, Resting
  <1>5. /\ builder \in [Builders -> Programs]
        /\ \A b \in Builders : Founded(builder[b], sealed)
    BY <1>4 DEF Init, OrchestratorInit
  <1> QED
    BY <1>1, <1>2, <1>3, <1>5 DEF AdvanceInv

\* The registry never runs ahead of the evidence: whatever the threads, the
\* requests and the edits, and however builders, their kills, the contract's
\* rewinding of the registry and its backup interleave.
THEOREM EvidenceBeforeRegistry == Spec => []SealedBeforeAdvanced
  <1>1. Init => AdvanceInv
    BY AdvanceInvInit
  <1>2. AdvanceInv /\ [Next]_vars => AdvanceInv'
    BY AdvanceInvStep
  <1>3. AdvanceInv => SealedBeforeAdvanced
    BY DEF AdvanceInv, Behind, SealedBeforeAdvanced
  <1> QED
    BY <1>1, <1>2, <1>3, PTL DEF Spec

---------------------------------------------------------------------------
(* Approvals and seals: no phase is sealed that nobody approved.  The      *)
(* copies of the queue are what is hard: a writer, the contract's backup   *)
(* and a pending stamp may all be older than the file, and each of them    *)
(* may be written over it.                                                 *)

\* The phases named in what operators approved, PR16 after a mock approval too.
Covered(auth, mock) ==
    (UNION {grant.names : grant \in auth}) \cup (IF mock THEN {"PR16"} ELSE {})

\* An approval of the phases it names comes from an operator or from the mock.
Backed(x, cov) == x.status = "APPROVED" => x.names \subseteq cov

\* Every copy of an item: on disk, in the contract's backup, in a writer's
\* hands, or waiting to be stamped.
Copies(q, h, j) ==
    q \cup h \cup (UNION {j[w].copy : w \in Writers})
           \cup {j[w].stamp : w \in Writers}

\* However old the copies, an id stands for one request, the contract's own
\* ids for requests about no phase.
Sound(s, last, cov, mine) ==
    /\ last \in Nat /\ mine.pending \in 0..last /\ mine.bypass \in 0..last
    /\ \A x \in s :
           /\ x.id \in 0..last
           /\ x.id = 0 => x.names = {}
           /\ x.id \in {mine.pending, mine.bypass} => x.names = {}
           /\ Backed(x, cov)
    /\ \A x, y \in s : x.id = y.id => x.names = y.names

IsJob(r) ==
    r = [does |-> r.does, copy |-> r.copy, file |-> r.file, stamp |-> r.stamp]
Jobs(j) == j = [w \in Writers |-> j[w]] /\ \A w \in Writers : IsJob(j[w])

OwnIsRecord(mine) == mine = [pending |-> mine.pending, bypass |-> mine.bypass]

\* The queue's part of the invariant, and the decisions' part.
Written(q, h, j, last, cov, mine) ==
    Jobs(j) /\ Sound(Copies(q, h, j), last, cov, mine)

Files(ds, h, j, cov) ==
    /\ \A d \in ds \cup h : Backed(d, cov)
    /\ \A w \in Writers : Backed(j[w].file, cov)

Cov == Covered(authorised, mocked)

QueueInv ==
    OwnIsRecord(own) /\ Written(queue, held.queue, job, ids, Cov, own)

DecisionInv == Files(decisions, held.decisions, job, Cov)

PhaseInv ==
    /\ approval = [phase \in Requestable |-> approval[phase]]
    /\ \A phase \in Phases : approval[phase] = "APPROVED" => phase \in Cov
    /\ \A b \in Builders : builder[b].at = "evidence" => builder[b].phase \in Cov
    /\ sealed \subseteq Cov

SealInv == QueueInv /\ DecisionInv /\ PhaseInv

---------------------------------------------------------------------------
(* Sets of items *)

\* An item that repeats an older one, but for an approval that is backed.
Repeats(x, s, cov) ==
    \/ x = NoItem
    \/ \E y \in s : /\ x.id = y.id /\ x.names = y.names
                    /\ x.status = y.status \/ Backed(x, cov)

\* The item that stands for none.
LEMMA BlankItem == NoItem.id = 0 /\ NoItem.names = {} /\ NoItem.status = "none"
  BY DEF NoItem, Item

\* Copies of sound items are sound.
LEMMA RepeatsAreSound ==
    ASSUME NEW s, NEW t, NEW last, NEW cov, NEW mine, NEW more,
           Sound(s, last, cov, mine), cov \subseteq more,
           \A x \in t : Repeats(x, s, more)
    PROVE  Sound(t, last, more, mine)
  <1>0. last \in Nat /\ mine.pending \in 0..last /\ mine.bypass \in 0..last
    BY DEF Sound
  <1>1. NoItem.id = 0 /\ NoItem.names = {} /\ NoItem.status = "none"
    BY BlankItem
  <1>2. ASSUME NEW x \in t
        PROVE  /\ x.id \in 0..last
               /\ x.id = 0 => x.names = {}
               /\ x.id \in {mine.pending, mine.bypass} => x.names = {}
               /\ Backed(x, more)
    <2>1. CASE x = NoItem
      BY <1>0, <1>1, <2>1 DEF Backed, Phases
    <2>2. ASSUME NEW y \in s, x.id = y.id, x.names = y.names,
                 x.status = y.status \/ Backed(x, more)
          PROVE  /\ x.id \in 0..last
                 /\ x.id = 0 => x.names = {}
                 /\ x.id \in {mine.pending, mine.bypass} => x.names = {}
                 /\ Backed(x, more)
      BY <2>2 DEF Sound, Backed
    <2> QED
      BY <1>2, <2>1, <2>2 DEF Repeats
  <1>3. ASSUME NEW x \in t, NEW y \in t, x.id = y.id
        PROVE  x.names = y.names
    <2>1. CASE x = NoItem \/ y = NoItem
      BY <1>1, <1>2, <1>3, <2>1
    <2>2. CASE x # NoItem /\ y # NoItem
      <3>1. PICK u \in s : x.id = u.id /\ x.names = u.names
        BY <2>2 DEF Repeats
      <3>2. PICK v \in s : y.id = v.id /\ y.names = v.names
        BY <2>2 DEF Repeats
      <3> QED
        BY <1>3, <3>1, <3>2 DEF Sound
    <2> QED
      BY <2>1, <2>2
  <1> QED
    BY <1>0, <1>2, <1>3 DEF Sound

\* A request under the next id stays apart from all others.
LEMMA NewItemIsSound ==
    ASSUME NEW s, NEW t, NEW last, NEW cov, NEW mine, NEW more, NEW yours,
           NEW names,
           Sound(s, last, cov, mine), cov \subseteq more,
           yours.pending \in {mine.pending, last + 1},
           yours.bypass \in {mine.bypass, last + 1},
           yours = mine \/ names = {},
           \A x \in t : \/ Repeats(x, s, more)
                        \/ x.id = last + 1 /\ x.names = names /\ Backed(x, more)
    PROVE  Sound(t, last + 1, more, yours)
  <1> DEFINE old == {x \in t : Repeats(x, s, more)}
  <1>1. Sound(old, last, more, mine)
    BY RepeatsAreSound
  <1>2. last \in Nat /\ mine.pending \in 0..last /\ mine.bypass \in 0..last
    BY DEF Sound
  <1>3. \A x \in old : /\ x.id \in 0..last
                       /\ x.id = 0 => x.names = {}
                       /\ x.id \in {mine.pending, mine.bypass}
                              => x.names = {}
                       /\ Backed(x, more)
    BY <1>1 DEF Sound
  <1>4. ASSUME NEW x \in t
        PROVE  /\ x.id \in 0..(last + 1)
               /\ x.id = 0 => x.names = {}
               /\ x.id \in {yours.pending, yours.bypass} => x.names = {}
               /\ Backed(x, more)
    <2>1. CASE x \in old
      BY <1>2, <1>3, <2>1
    <2>2. CASE x.id = last + 1 /\ x.names = names /\ Backed(x, more)
      BY <1>2, <2>2
    <2> QED
      BY <2>1, <2>2
  <1>5. ASSUME NEW x \in t, NEW y \in t, x.id = y.id
        PROVE  x.names = y.names
    <2>1. CASE x \in old /\ y \in old
      BY <1>1, <1>5, <2>1 DEF Sound
    <2>2. CASE x \notin old /\ y \notin old
      BY <2>2
    <2>3. CASE x \in old /\ y \notin old
      BY <1>2, <1>3, <1>5, <2>3
    <2>4. CASE x \notin old /\ y \in old
      BY <1>2, <1>3, <1>5, <2>4
    <2> QED
      BY <2>1, <2>2, <2>3, <2>4
  <1>6. yours.pending \in 0..(last + 1) /\ yours.bypass \in 0..(last + 1)
    BY <1>2
  <1> QED
    BY <1>2, <1>4, <1>5, <1>6 DEF Sound

---------------------------------------------------------------------------
(* Writers of the queue *)

\* A writer gets a new job; the others keep theirs.
LEMMA JobReplaced ==
    ASSUME NEW w \in Writers, NEW r, Jobs(job), IsJob(r),
           job' = [job EXCEPT ![w] = r]
    PROVE  /\ Jobs(job')
           /\ job'[w] = r
           /\ \A u \in Writers : u # w => job'[u] = job[u]
  <1>1. job'[w] = r /\ \A u \in Writers : u # w => job'[u] = job[u]
    BY DEF Jobs
  <1>2. \A u \in Writers : IsJob(job'[u])
    BY <1>1 DEF Jobs
  <1>3. job' = [u \in Writers |-> job'[u]]
    BY DEF Jobs
  <1> QED
    BY <1>1, <1>2, <1>3 DEF Jobs

\* What a writer puts in its job is all that is new.
LEMMA CopiedAfterwards ==
    ASSUME NEW h, NEW w \in Writers,
           \A u \in Writers : u # w => job'[u] = job[u],
           NEW x \in Copies(queue', h, job')
    PROVE  \/ x \in queue' \/ x \in job'[w].copy \/ x = job'[w].stamp
           \/ x \in Copies(queue, h, job)
  BY DEF Copies

\* What is filed somewhere is filed.
LEMMA WhereCopied ==
    ASSUME NEW q, NEW h, NEW j
    PROVE  /\ q \subseteq Copies(q, h, j)
           /\ h \subseteq Copies(q, h, j)
           /\ \A w \in Writers : /\ j[w].copy \subseteq Copies(q, h, j)
                                 /\ j[w].stamp \in Copies(q, h, j)
  BY DEF Copies

\* The fields of an item.
LEMMA FieldsOfItem ==
    ASSUME NEW i, NEW names, NEW closed, NEW status
    PROVE  /\ Item(i, names, closed, status).id = i
           /\ Item(i, names, closed, status).names = names
           /\ Item(i, names, closed, status).status = status
  BY DEF Item

\* The fields of an item that is filed.
LEMMA FieldsOfFiled ==
    ASSUME NEW i, NEW names, NEW status
    PROVE  /\ Filed(i, names, status).id = i
           /\ Filed(i, names, status).names = names
           /\ Filed(i, names, status).status = status
  BY FieldsOfItem DEF Filed

\* The fields of an item that is stamped.
LEMMA FieldsOfStamp ==
    ASSUME NEW item, NEW status
    PROVE  /\ Stamp(item, status).id = item.id
           /\ Stamp(item, status).names = item.names
           /\ Stamp(item, status).status = status
  BY FieldsOfItem DEF Stamp

\* The fields of a save that is due.
LEMMA FieldsOfJob ==
    ASSUME NEW copy, NEW file, NEW stamp
    PROVE  /\ IsJob(Saving(copy, file, stamp))
           /\ Saving(copy, file, stamp).copy = copy
           /\ Saving(copy, file, stamp).file = file
           /\ Saving(copy, file, stamp).stamp = stamp
  BY DEF IsJob, Saving

\* A writer without a job holds nothing.
LEMMA FieldsOfIdle ==
    IsJob(Idle) /\ Idle.copy = {} /\ Idle.file = NoItem /\ Idle.stamp = NoItem
  BY DEF IsJob, Idle

\* Nor does one that is about to create the queue.
LEMMA FieldsOfCreating ==
    /\ IsJob(Creating)
    /\ Creating.copy = {} /\ Creating.file = NoItem /\ Creating.stamp = NoItem
  BY DEF IsJob, Creating, Idle

\* An item of the set repeats itself.
LEMMA Itself ==
    ASSUME NEW x, NEW s, x \in s, NEW cov
    PROVE  Repeats(x, s, cov)
  BY DEF Repeats

\* Stamping an item may add an approval, of the phase it names.
LEMMA StampedRepeats ==
    ASSUME NEW q, NEW s, q \subseteq s, NEW i, NEW status, NEW cov,
           \A y \in q : y.id = i => status # "APPROVED" \/ y.names \subseteq cov,
           NEW x \in Stamped(q, i, status)
    PROVE  Repeats(x, s, cov)
  <1>1. PICK y \in q : x = IF y.id = i THEN Stamp(y, status) ELSE y
    BY DEF Stamped
  <1>2. x.id = y.id /\ x.names = y.names
        /\ x.status = (IF y.id = i THEN status ELSE y.status)
    BY <1>1, FieldsOfStamp
  <1> QED
    BY <1>2 DEF Repeats, Backed

\* create_request: the new item is under the next id.
LEMMA CreateKeeps ==
    ASSUME NEW w \in Writers, NEW names, NEW status, NEW stamp, NEW mine,
           NEW yours, NEW cov, NEW more, NEW h, NEW g,
           Written(queue, h, job, ids, cov, mine),
           Files(decisions, g, job, cov), cov \subseteq more,
           CreateRequest(w, names, status, stamp), status # "APPROVED",
           stamp # "APPROVED" \/ names \subseteq more,
           yours.pending \in {mine.pending, ids'},
           yours.bypass \in {mine.bypass, ids'},
           yours = mine \/ names = {}
    PROVE  /\ Written(queue', h, job', ids', more, yours)
           /\ Files(decisions', g, job', more)
  <1> DEFINE new == Filed(ids', names, status)
             late == IF stamp = "none" THEN NoItem ELSE Stamp(new, stamp)
             r == Saving(queue \cup {new}, NoItem, late)
             s == Copies(queue, h, job)
             t == Copies(queue', h, job')
  <1>1. ids' = ids + 1 /\ job' = [job EXCEPT ![w] = r]
        /\ queue' = queue /\ decisions' = decisions
    BY DEF CreateRequest
  <1>2. IsJob(r) /\ r.copy = queue \cup {new} /\ r.file = NoItem /\ r.stamp = late
    BY FieldsOfJob
  <1> HIDE DEF r
  <1>3. Jobs(job') /\ job'[w] = r /\ \A u \in Writers : u # w => job'[u] = job[u]
    <2>1. Jobs(job) /\ IsJob(r) /\ job' = [job EXCEPT ![w] = r]
      BY <1>1, <1>2 DEF Written
    <2> QED
      BY <2>1, JobReplaced
  <1>4. new.id = ids + 1 /\ new.names = names /\ Backed(new, more)
    BY <1>1, FieldsOfFiled DEF Backed
  <1>5. \/ late = NoItem
        \/ /\ late.id = ids + 1 /\ late.names = names
           /\ Backed(late, more)
    BY <1>1, <1>4, FieldsOfStamp DEF Backed
  <1>6. ASSUME NEW x \in t
        PROVE  \/ Repeats(x, s, more)
               \/ x.id = ids + 1 /\ x.names = names /\ Backed(x, more)
    <2>1. x \in queue \/ x = new \/ x = late \/ x \in s
      BY <1>1, <1>2, <1>3, <1>6, CopiedAfterwards
    <2>2. CASE x \in queue \/ x \in s
      BY <2>2, WhereCopied, Itself
    <2>3. CASE x = new
      BY <1>4, <2>3
    <2>4. CASE x = late
      BY <1>5, <2>4 DEF Repeats
    <2> QED
      BY <2>1, <2>2, <2>3, <2>4
  <1>7. Sound(t, ids + 1, more, yours)
    BY <1>1, <1>6, NewItemIsSound DEF Written
  <1>8. Written(queue', h, job', ids', more, yours)
    BY <1>1, <1>3, <1>7 DEF Written
  <1>9. Backed(NoItem, more)
    BY BlankItem DEF Backed
  <1>10. \A u \in Writers : Backed(job'[u].file, more)
    BY <1>2, <1>3, <1>9 DEF Files, Backed
  <1>11. \A d \in decisions' \cup g : Backed(d, more)
    BY <1>1 DEF Files, Backed
  <1> QED
    BY <1>8, <1>10, <1>11 DEF Files

\* A writer takes a copy of the queue with an item stamped.
LEMMA StampKeeps ==
    ASSUME NEW w \in Writers, NEW i, NEW status, NEW file, NEW mine,
           NEW cov, NEW more, NEW h, NEW g,
           Written(queue, h, job, ids, cov, mine),
           Files(decisions, g, job, cov), cov \subseteq more,
           job' = [job EXCEPT ![w] =
                      Saving(Stamped(queue, i, status), file, NoItem)],
           UNCHANGED <<queue, decisions, ids>>, Backed(file, more),
           \A y \in queue : y.id = i => status # "APPROVED" \/ y.names \subseteq more
    PROVE  /\ Written(queue', h, job', ids', more, mine)
           /\ Files(decisions', g, job', more)
  <1> DEFINE r == Saving(Stamped(queue, i, status), file, NoItem)
             s == Copies(queue, h, job)
             t == Copies(queue', h, job')
  <1>1. IsJob(r) /\ r.copy = Stamped(queue, i, status) /\ r.file = file
        /\ r.stamp = NoItem
    BY FieldsOfJob
  <1> HIDE DEF r
  <1>2. job' = [job EXCEPT ![w] = r]
    BY DEF r
  <1>3. Jobs(job') /\ job'[w] = r /\ \A u \in Writers : u # w => job'[u] = job[u]
    BY <1>1, <1>2, JobReplaced DEF Written
  <1>4. ASSUME NEW x \in t
        PROVE  Repeats(x, s, more)
    <2>1. x \in queue \/ x \in Stamped(queue, i, status) \/ x = NoItem \/ x \in s
      BY <1>1, <1>3, <1>4, CopiedAfterwards
    <2>2. CASE x \in queue \/ x \in s
      BY <2>2, WhereCopied, Itself
    <2>3. CASE x \in Stamped(queue, i, status)
      BY <2>3, WhereCopied, StampedRepeats
    <2>4. CASE x = NoItem
      BY <2>4 DEF Repeats
    <2> QED
      BY <2>1, <2>2, <2>3, <2>4
  <1>5. Sound(t, ids, more, mine)
    BY <1>4, RepeatsAreSound DEF Written
  <1>6. \A u \in Writers : Backed(job'[u].file, more)
    BY <1>1, <1>3 DEF Files, Backed
  <1>7. \A d \in decisions' \cup g : Backed(d, more)
    BY DEF Files, Backed
  <1> QED
    BY <1>3, <1>5, <1>6, <1>7 DEF Written, Files

\* record_decision: its file carries the name of the item that was found.
LEMMA RecordKeeps ==
    ASSUME NEW w \in Writers, NEW i, NEW status, NEW mine,
           NEW cov, NEW more, NEW h, NEW g,
           Written(queue, h, job, ids, cov, mine),
           Files(decisions, g, job, cov), cov \subseteq more,
           RecordDecision(w, i, status),
           \A y \in queue : y.id = i => status # "APPROVED" \/ y.names \subseteq more
    PROVE  /\ Written(queue', h, job', ids', more, mine)
           /\ Files(decisions', g, job', more)
  <1>1. PICK item \in queue :
            /\ item.id = i
            /\ job' = [job EXCEPT ![w] = Saving(Stamped(queue, i, status),
                                                Stamp(item, status), NoItem)]
    BY DEF RecordDecision
  <1>2. Backed(Stamp(item, status), more)
    BY <1>1, FieldsOfStamp DEF Backed
  <1> QED
    BY <1>1, <1>2, StampKeeps DEF RecordDecision

\* The second load stamps whatever now has the id; it has the same name.
LEMMA ReloadKeeps ==
    ASSUME NEW w \in Writers, NEW mine, NEW cov, NEW h, NEW g,
           Written(queue, h, job, ids, cov, mine),
           Files(decisions, g, job, cov), ReloadAndStamp(w)
    PROVE  /\ Written(queue', h, job', ids', cov, mine)
           /\ Files(decisions', g, job', cov)
  <1> DEFINE s == Copies(queue, h, job)
             late == job[w].stamp
  <1>1. queue \subseteq s /\ late \in s
    BY WhereCopied
  <1>2. \A y \in queue : y.id = late.id => y.names = late.names
    BY <1>1 DEF Written, Sound
  <1>3. Backed(late, cov)
    BY <1>1 DEF Written, Sound
  <1> DEFINE i == late.id
             status == late.status
  <1>4. \A y \in queue : y.id = i => status # "APPROVED" \/ y.names \subseteq cov
    BY <1>2, <1>3 DEF Backed
  <1>5. Backed(NoItem, cov)
    BY BlankItem DEF Backed
  <1>6. /\ job' = [job EXCEPT ![w] = Saving(Stamped(queue, i, status), NoItem, NoItem)]
        /\ UNCHANGED <<queue, decisions, ids>>
    BY DEF ReloadAndStamp
  <1>7. cov \subseteq cov
    OBVIOUS
  <1> HIDE DEF i, status
  <1> QED
    BY <1>4, <1>5, <1>6, <1>7, StampKeeps

\* Any copy may be saved, however old it is.
LEMMA SaveKeeps ==
    ASSUME NEW w \in Writers, NEW mine, NEW cov, NEW h, NEW g,
           Written(queue, h, job, ids, cov, mine),
           Files(decisions, g, job, cov), SaveQueue(w)
    PROVE  /\ Written(queue', h, job', ids', cov, mine)
           /\ Files(decisions', g, job', cov)
  <1> DEFINE old == job[w]
             r == IF old.file # NoItem THEN [old EXCEPT !.does = "decide"]
                  ELSE IF old.stamp # NoItem THEN [old EXCEPT !.does = "reload"]
                  ELSE Idle
             s == Copies(queue, h, job)
             t == Copies(queue', h, job')
  <1>1. /\ queue' = old.copy /\ ids' = ids
        /\ job' = [job EXCEPT ![w] = r]
        /\ decisions' = decisions
    BY DEF SaveQueue
  <1>2. /\ IsJob(r)
        /\ r.copy \subseteq old.copy
        /\ r.file \in {old.file, NoItem}
        /\ r.stamp \in {old.stamp, NoItem}
    <2>1. old = [does |-> old.does, copy |-> old.copy, file |-> old.file,
                 stamp |-> old.stamp]
      BY DEF Written, Jobs, IsJob
    <2>2. CASE r = Idle
      BY <2>2, FieldsOfIdle
    <2>3. ASSUME NEW does, r = [old EXCEPT !.does = does]
          PROVE  /\ IsJob(r) /\ r.copy = old.copy
                 /\ r.file = old.file /\ r.stamp = old.stamp
      <3>1. r = [does |-> does, copy |-> old.copy, file |-> old.file,
                 stamp |-> old.stamp]
        BY <2>1, <2>3
      <3> QED
        BY <3>1 DEF IsJob
    <2> QED
      BY <2>2, <2>3
  <1> HIDE DEF r
  <1>3. Jobs(job') /\ job'[w] = r /\ \A u \in Writers : u # w => job'[u] = job[u]
    BY <1>1, <1>2, JobReplaced DEF Written
  <1>4. ASSUME NEW x \in t
        PROVE  Repeats(x, s, cov)
    <2>1. x \in old.copy \/ x = old.stamp \/ x = NoItem \/ x \in s
      BY <1>1, <1>2, <1>3, <1>4, CopiedAfterwards
    <2>2. x = NoItem \/ x \in s
      BY <2>1, WhereCopied
    <2> QED
      BY <2>2, Itself DEF Repeats
  <1>5. Sound(t, ids, cov, mine)
    BY <1>4, RepeatsAreSound DEF Written
  <1>6. Backed(NoItem, cov) /\ Backed(old.file, cov)
    BY BlankItem DEF Backed, Files
  <1>7. \A u \in Writers : Backed(job'[u].file, cov)
    BY <1>2, <1>3, <1>6 DEF Files
  <1>8. \A d \in decisions' \cup g : Backed(d, cov)
    BY <1>1, <1>6 DEF Files
  <1> QED
    BY <1>1, <1>3, <1>5, <1>7, <1>8 DEF Written, Files

\* A writer that holds nothing afterwards: it has opened its gate, written an
\* empty queue, or written its decision.
LEMMA EmptyKeeps ==
    ASSUME NEW w \in Writers, NEW mine, NEW cov, NEW h, NEW g, NEW r,
           Written(queue, h, job, ids, cov, mine),
           Files(decisions, g, job, cov), r \in {Idle, Creating},
           job' = [job EXCEPT ![w] = r], queue' \subseteq queue, ids' = ids,
           decisions' \subseteq decisions \cup {job[w].file}
    PROVE  /\ Written(queue', h, job', ids', cov, mine)
           /\ Files(decisions', g, job', cov)
  <1> DEFINE s == Copies(queue, h, job)
             t == Copies(queue', h, job')
             old == job[w]
  <1>1. IsJob(r) /\ r.copy = {} /\ r.file = NoItem /\ r.stamp = NoItem
    BY FieldsOfIdle, FieldsOfCreating
  <1>2. Jobs(job') /\ job'[w] = r /\ \A u \in Writers : u # w => job'[u] = job[u]
    BY <1>1, JobReplaced DEF Written
  <1>3. ASSUME NEW x \in t
        PROVE  Repeats(x, s, cov)
    <2>1. x \in queue \/ x = NoItem \/ x \in s
      BY <1>1, <1>2, <1>3, CopiedAfterwards
    <2>2. x = NoItem \/ x \in s
      BY <2>1, WhereCopied
    <2> QED
      BY <2>2, Itself DEF Repeats
  <1>4. Sound(t, ids, cov, mine)
    BY <1>3, RepeatsAreSound DEF Written
  <1>5. Backed(NoItem, cov) /\ Backed(old.file, cov)
    BY BlankItem DEF Backed, Files
  <1>6. \A u \in Writers : Backed(job'[u].file, cov)
    BY <1>1, <1>2, <1>5 DEF Files
  <1>7. \A d \in decisions' \cup g : Backed(d, cov)
    BY <1>5 DEF Files
  <1> QED
    BY <1>2, <1>4, <1>6, <1>7 DEF Written, Files

\* Whatever a writer does next.
LEMMA WriterKeeps ==
    ASSUME NEW w \in Writers, NEW mine, NEW cov, NEW h, NEW g,
           Written(queue, h, job, ids, cov, mine),
           Files(decisions, g, job, cov),
           \/ OpensGate(w) \/ CreatesQueue(w) \/ SaveQueue(w)
           \/ WriteDecision(w) \/ ReloadAndStamp(w)
    PROVE  /\ Written(queue', h, job', ids', cov, mine)
           /\ Files(decisions', g, job', cov)
  <1>1. CASE OpensGate(w)
    <2>1. CASE job' = job
      BY <1>1, <2>1 DEF OpensGate
    <2>2. CASE job' = [job EXCEPT ![w] = Creating]
      BY <1>1, <2>2, EmptyKeeps DEF OpensGate
    <2> QED
      BY <1>1, <2>1, <2>2 DEF OpensGate
  <1>2. CASE CreatesQueue(w)
    BY <1>2, EmptyKeeps DEF CreatesQueue
  <1>3. CASE SaveQueue(w)
    BY <1>3, SaveKeeps
  <1>4. CASE WriteDecision(w)
    <2>1. decisions' \subseteq decisions \cup {job[w].file}
      BY <1>4 DEF WriteDecision, Filing
    <2> QED
      BY <1>4, <2>1, EmptyKeeps DEF WriteDecision
  <1>5. CASE ReloadAndStamp(w)
    BY <1>5, ReloadKeeps
  <1> QED
    BY <1>1, <1>2, <1>3, <1>4, <1>5

---------------------------------------------------------------------------
(* Steps that file nothing new *)

\* Approvals are never taken back, nor is the mock.
LEMMA CoverageGrows ==
    ASSUME authorised \subseteq authorised', mocked => mocked'
    PROVE  Cov \subseteq Cov'
  BY DEF Cov, Covered

\* What is granted is covered.
LEMMA GrantCovers ==
    ASSUME NEW status, NEW grants, Authorises(status, grants),
           status = "APPROVED", NEW item
    PROVE  /\ Grant(item) \in grants => item.names \subseteq Cov'
           /\ \A phase : ForPhase(phase) \in grants => phase \in Cov'
  <1>1. grants \subseteq authorised'
    BY DEF Authorises
  <1>2. Grant(item).names = item.names
    BY DEF Grant
  <1>3. \A phase : phase \in ForPhase(phase).names
    BY DEF ForPhase
  <1> QED
    BY <1>1, <1>2, <1>3 DEF Cov, Covered

\* The queue and the backup of it are exchanged, or forgotten.
LEMMA QueueQuiet ==
    ASSUME QueueInv, Cov \subseteq Cov', UNCHANGED <<job, ids>>,
           own' \in {own, NoIds},
           queue' \subseteq queue \cup held.queue,
           held'.queue \subseteq queue \cup held.queue
    PROVE  QueueInv'
  <1> DEFINE s == Copies(queue, held.queue, job)
             t == Copies(queue', held'.queue, job')
  <1>1. t \subseteq s
    BY DEF Copies
  <1>2. \A x \in t : Repeats(x, s, Cov')
    BY <1>1, Itself
  <1>3. Sound(t, ids, Cov', own)
    BY <1>2, RepeatsAreSound DEF QueueInv, Written
  <1>4. OwnIsRecord(NoIds) /\ NoIds.pending = 0 /\ NoIds.bypass = 0
    BY DEF OwnIsRecord, NoIds
  <1>5. OwnIsRecord(own')
    BY <1>4 DEF QueueInv
  <1>6. Sound(t, ids, Cov', own')
    <2>1. CASE own' = own
      BY <1>3, <2>1
    <2>2. CASE own' = NoIds
      BY <1>3, <1>4, <2>2 DEF Sound, Phases
    <2> QED
      BY <2>1, <2>2
  <1>7. Jobs(job') /\ ids' = ids
    BY DEF QueueInv, Written
  <1> QED
    BY <1>5, <1>6, <1>7 DEF QueueInv, Written

\* The decision files are exchanged, or backed ones are added.
LEMMA DecisionsQuiet ==
    ASSUME DecisionInv, Cov \subseteq Cov', job' = job,
           \A d \in decisions' \cup held'.decisions :
               d \in decisions \cup held.decisions \/ Backed(d, Cov')
    PROVE  DecisionInv'
  <1>1. \A d \in decisions \cup held.decisions : Backed(d, Cov')
    BY DEF DecisionInv, Files, Backed
  <1>2. \A w \in Writers : Backed(job[w].file, Cov')
    BY DEF DecisionInv, Files, Backed
  <1> QED
    BY <1>1, <1>2 DEF DecisionInv, Files

\* Approval files, builders and seals stay while more is covered.
LEMMA PhasesQuiet ==
    ASSUME PhaseInv, Cov \subseteq Cov', UNCHANGED <<approval, builder, sealed>>
    PROVE  PhaseInv'
  BY DEF PhaseInv

\* Nothing that matters here changes.
LEMMA SealQuiet ==
    ASSUME SealInv,
           UNCHANGED <<queue, decisions, job, ids, held, own, approval, builder,
                       sealed, authorised, mocked>>
    PROVE  SealInv'
  <1>1. Cov' = Cov
    BY DEF Cov
  <1>2. QueueInv'
    BY <1>1, QueueQuiet DEF SealInv
  <1>3. DecisionInv'
    BY <1>1, DecisionsQuiet DEF SealInv
  <1>4. PhaseInv'
    BY <1>1, PhasesQuiet DEF SealInv
  <1> QED
    BY <1>2, <1>3, <1>4 DEF SealInv

\* A link is left: its backup and its ids are forgotten.
LEMMA SealLeaving ==
    ASSUME SealInv, NEW red, Leaves(red), UNCHANGED orchestratorVars,
           mocked' = mocked
    PROVE  SealInv'
  <1>1. Cov' = Cov
    BY DEF Cov, orchestratorVars
  <1>2. held'.queue = {} /\ held'.decisions = {} /\ own' = NoIds
    BY DEF Leaves, Nothing
  <1>3. QueueInv'
    BY <1>1, <1>2, QueueQuiet DEF SealInv, orchestratorVars
  <1>4. DecisionInv'
    BY <1>1, <1>2, DecisionsQuiet DEF SealInv, orchestratorVars
  <1>5. PhaseInv'
    BY <1>1, PhasesQuiet DEF SealInv, orchestratorVars
  <1> QED
    BY <1>3, <1>4, <1>5 DEF SealInv

---------------------------------------------------------------------------
(* The server and the builders *)

\* POST of a request: never approved when it is filed.
LEMMA RequestSeals ==
    ASSUME SealInv, NEW t \in Thread, RequestEndpoint(t), UNCHANGED chainVars
    PROVE  SealInv'
  <1>1. /\ Cov' = Cov
        /\ UNCHANGED <<held, own, approval, builder, sealed>>
    BY DEF RequestEndpoint, chainVars, phaseVars, Cov
  <1>2. PICK names \in Named, status \in {"PENDING", "FAIL_CLOSED"} :
            CreateRequest(t, names, status, "none")
    BY DEF RequestEndpoint
  <1>3. /\ Written(queue', held.queue, job', ids', Cov, own)
        /\ Files(decisions', held.decisions, job', Cov)
    BY <1>2, CreateKeeps DEF SealInv, QueueInv, DecisionInv, Writers
  <1>4. PhaseInv'
    BY <1>1, PhasesQuiet DEF SealInv
  <1> QED
    BY <1>1, <1>3, <1>4 DEF SealInv, QueueInv, DecisionInv

\* An operator decides: the item that was found names what is approved.
LEMMA DecisionSeals ==
    ASSUME SealInv, NEW t \in Thread, DecisionEndpoint(t), UNCHANGED chainVars
    PROVE  SealInv'
  <1>1. UNCHANGED <<held, own, approval, builder, sealed, mocked>>
    BY DEF DecisionEndpoint, chainVars, phaseVars
  <1>2. PICK item \in queue, status \in Verdicts :
            /\ RecordDecision(t, item.id, status)
            /\ Authorises(status, {Grant(item)})
    BY DEF DecisionEndpoint
  <1>3. Cov \subseteq Cov'
    BY <1>1, <1>2, CoverageGrows DEF Authorises
  <1>4. \A y \in queue : y.id = item.id => y.names = item.names
    BY WhereCopied DEF SealInv, QueueInv, Written, Sound
  <1>5. status = "APPROVED" => item.names \subseteq Cov'
    BY <1>1, <1>2, GrantCovers
  <1>6. /\ Written(queue', held.queue, job', ids', Cov', own)
        /\ Files(decisions', held.decisions, job', Cov')
    BY <1>2, <1>3, <1>4, <1>5, RecordKeeps
       DEF SealInv, QueueInv, DecisionInv, Writers
  <1>7. PhaseInv'
    BY <1>1, <1>3, PhasesQuiet DEF SealInv
  <1> QED
    BY <1>1, <1>6, <1>7 DEF SealInv, QueueInv, DecisionInv

\* request-execution approves or revokes a phase before it touches the queue.
LEMMA ExecutionRequestSeals ==
    ASSUME SealInv, RequestExecution, UNCHANGED chainVars
    PROVE  SealInv'
  <1>1. UNCHANGED <<held, own, builder, sealed, mocked>>
    BY DEF RequestExecution, chainVars, phaseVars
  <1>2. PICK phase \in Asked, status \in {"APPROVED", "PENDING"} :
            /\ approval' = [approval EXCEPT ![phase] = status]
            /\ \/ \E item \in Naming(queue, phase) :
                      /\ job' = [job EXCEPT !["loop"] =
                                    Saving(Stamped(queue, item.id, status),
                                           NoItem, NoItem)]
                      /\ Authorises(status, {ForPhase(phase), Grant(item)})
                      /\ UNCHANGED <<queue, decisions, ids>>
               \/ /\ CreateRequest("loop", {phase}, "PENDING", status)
                  /\ Authorises(status, {ForPhase(phase)})
    BY DEF RequestExecution
  <1>3. Cov \subseteq Cov'
    BY <1>1, <1>2, CoverageGrows DEF Authorises
  <1>4. status = "APPROVED" => phase \in Cov'
    <2>1. SUFFICES ASSUME status = "APPROVED"
                   PROVE  phase \in Cov'
      OBVIOUS
    <2>2. PICK grants : Authorises(status, grants) /\ ForPhase(phase) \in grants
      BY <1>2
    <2> QED
      BY <2>1, <2>2, GrantCovers
  <1>5. "loop" \in Writers
    BY DEF Writers
  <1>6. /\ Written(queue', held.queue, job', ids', Cov', own)
        /\ Files(decisions', held.decisions, job', Cov')
    <2>0. /\ Written(queue, held.queue, job, ids, Cov, own)
          /\ Files(decisions, held.decisions, job, Cov)
      BY DEF SealInv, QueueInv, DecisionInv
    <2>1. CASE CreateRequest("loop", {phase}, "PENDING", status)
      <3>1. PICK names : names = {phase}
        OBVIOUS
      <3>2. status # "APPROVED" \/ names \subseteq Cov'
        BY <1>4, <3>1
      <3> QED
        BY <1>3, <1>5, <2>0, <2>1, <3>1, <3>2, CreateKeeps
    <2>2. ASSUME NEW item \in Naming(queue, phase),
                 job' = [job EXCEPT !["loop"] =
                            Saving(Stamped(queue, item.id, status),
                                   NoItem, NoItem)],
                 Authorises(status, {ForPhase(phase), Grant(item)}),
                 UNCHANGED <<queue, decisions, ids>>
          PROVE  /\ Written(queue', held.queue, job', ids', Cov', own)
                 /\ Files(decisions', held.decisions, job', Cov')
      <3>1. item \in queue
        BY DEF Naming
      <3>2. \A y \in queue : y.id = item.id => y.names = item.names
        BY <3>1, WhereCopied DEF SealInv, QueueInv, Written, Sound
      <3>3. Backed(NoItem, Cov')
        BY BlankItem DEF Backed
      <3> DEFINE i == item.id
                 w == "loop"
      <3>4. \A y \in queue : y.id = i => \/ status # "APPROVED"
                                         \/ y.names \subseteq Cov'
        BY <2>2, <3>2, GrantCovers
      <3>5. job' = [job EXCEPT ![w] = Saving(Stamped(queue, i, status), NoItem, NoItem)]
        BY <2>2
      <3>7. w \in Writers
        BY <1>5
      <3> HIDE DEF i, w
      <3> QED
        BY <1>3, <2>0, <2>2, <3>3, <3>4, <3>5, <3>7, StampKeeps
    <2> QED
      BY <1>2, <2>1, <2>2
  <1>7. PhaseInv'
    <2>1. approval' = [p \in Requestable |-> IF p = phase THEN status ELSE approval[p]]
      BY <1>2 DEF SealInv, PhaseInv
    <2>2. Phases \subseteq Requestable /\ phase \in Requestable
      BY AskedAssumption DEF Requestable
    <2>3. \A p \in Phases : approval'[p] = "APPROVED" => p \in Cov'
      BY <1>3, <1>4, <2>1, <2>2 DEF SealInv, PhaseInv
    <2>4. approval' = [p \in Requestable |-> approval'[p]]
      BY <2>1
    <2> QED
      BY <1>1, <1>3, <2>3, <2>4 DEF SealInv, PhaseInv
  <1> QED
    BY <1>1, <1>6, <1>7 DEF SealInv, QueueInv, DecisionInv

\* What a writer does with the queue, of the server or of the contract.
LEMMA WriterSeals ==
    ASSUME SealInv, NEW w \in Writers,
           \/ OpensGate(w) \/ CreatesQueue(w) \/ SaveQueue(w)
           \/ WriteDecision(w) \/ ReloadAndStamp(w),
           UNCHANGED <<held, own, approval, builder, sealed, authorised, mocked>>
    PROVE  SealInv'
  <1>1. Cov' = Cov
    BY DEF Cov
  <1>2. /\ Written(queue', held.queue, job', ids', Cov, own)
        /\ Files(decisions', held.decisions, job', Cov)
    BY WriterKeeps DEF SealInv, QueueInv, DecisionInv
  <1>3. PhaseInv'
    BY <1>1, PhasesQuiet DEF SealInv
  <1> QED
    BY <1>1, <1>2, <1>3 DEF SealInv, QueueInv, DecisionInv

\* Some writers lose what they hold, and the queue with it when they die at it.
LEMMA JobsLost ==
    ASSUME SealInv, NEW lost \in SUBSET Writers,
           job' = [w \in Writers |-> IF w \in lost THEN Idle ELSE job[w]],
           UNCHANGED <<decisions, ids, approval, sealed, authorised, mocked>>,
           queue' \in {queue, {}}, own' \in {own, NoIds}, held' \in {held, Nothing}
    PROVE  QueueInv' /\ DecisionInv'
  <1> DEFINE s == Copies(queue, held.queue, job)
             t == Copies(queue', held'.queue, job')
  <1>1. Cov' = Cov
    BY DEF Cov
  <1>2. \A w \in Writers : job'[w] = Idle \/ job'[w] = job[w]
    OBVIOUS
  <1>3. Jobs(job')
    <2>1. \A w \in Writers : IsJob(job'[w])
      BY <1>2, FieldsOfIdle DEF SealInv, QueueInv, Written, Jobs
    <2>2. job' = [w \in Writers |-> job'[w]]
      OBVIOUS
    <2> QED
      BY <2>1, <2>2 DEF Jobs
  <1>4. held'.queue \subseteq held.queue /\ held'.decisions \subseteq held.decisions
    BY DEF Nothing
  <1>5. \A x \in t : x \in s \/ x = NoItem
    BY <1>2, <1>4, FieldsOfIdle DEF Copies
  <1>6. \A x \in t : Repeats(x, s, Cov)
    BY <1>5 DEF Repeats
  <1>7. Sound(t, ids, Cov, own)
    BY <1>6, RepeatsAreSound DEF SealInv, QueueInv, Written
  <1>8. OwnIsRecord(NoIds) /\ NoIds.pending = 0 /\ NoIds.bypass = 0
    BY DEF OwnIsRecord, NoIds
  <1>9. Sound(t, ids, Cov, own')
    <2>1. CASE own' = own
      BY <1>7, <2>1
    <2>2. CASE own' = NoIds
      BY <1>7, <1>8, <2>2 DEF Sound, Phases
    <2> QED
      BY <2>1, <2>2
  <1>10. QueueInv'
    BY <1>1, <1>3, <1>8, <1>9 DEF SealInv, QueueInv, Written
  <1>11. Backed(NoItem, Cov)
    BY BlankItem DEF Backed
  <1>12. \A w \in Writers : Backed(job'[w].file, Cov)
    BY <1>2, <1>11, FieldsOfIdle DEF SealInv, DecisionInv, Files
  <1>13. \A d \in decisions' \cup held'.decisions : Backed(d, Cov)
    BY <1>4 DEF SealInv, DecisionInv, Files
  <1> QED
    BY <1>1, <1>10, <1>12, <1>13 DEF DecisionInv, Files

\* Builders move and stop, and write nothing.
LEMMA BuildersMoved ==
    ASSUME PhaseInv, Cov' = Cov, UNCHANGED <<approval, sealed>>,
           \A b \in Builders : \/ builder'[b] = Resting
                               \/ \E c \in Builders : builder'[b] = builder[c]
    PROVE  PhaseInv'
  BY DEF PhaseInv, Resting

\* Where an orphan comes from.
LEMMA OrphanMoved ==
    ASSUME AdvanceInv, NEW b \in Builders, Orphaned(b)
    PROVE  \A c \in Builders : \/ builder'[c] = Resting
                               \/ \E d \in Builders : builder'[c] = builder[d]
  BY DEF Orphaned, AdvanceInv

\* The server stops and its requests are lost.
LEMMA StopSeals ==
    ASSUME AdvanceInv, SealInv, ServerStops, UNCHANGED chainVars
    PROVE  SealInv'
  <1> DEFINE lost == Writers \ {"contract"}
  <1>1. /\ UNCHANGED <<decisions, ids, approval, sealed, authorised, mocked,
                       own, held>>
        /\ queue' \in {queue, {}}
        /\ job' = [w \in Writers |-> IF w \in lost THEN Idle ELSE job[w]]
    BY DEF ServerStops, chainVars, phaseVars
  <1>2. lost \in SUBSET Writers
    OBVIOUS
  <1> HIDE DEF lost
  <1>3. QueueInv' /\ DecisionInv'
    BY <1>1, <1>2, JobsLost
  <1>4. Cov' = Cov
    BY <1>1 DEF Cov
  <1>5. PhaseInv'
    BY <1>1, <1>4, OrphanMoved, BuildersMoved DEF SealInv, ServerStops, Builders
  <1> QED
    BY <1>3, <1>5 DEF SealInv

restVars == <<queue, decisions, job, ids, held, own, approval, authorised, mocked>>

\* One builder moves; before it writes evidence it has an approval.
LEMMA BuilderSeals ==
    ASSUME SealInv, UNCHANGED restVars, sealed' \subseteq Cov,
           NEW b \in Builders, \A c \in Builders : c # b => builder'[c] = builder[c],
           builder'[b].at = "evidence" => builder'[b].phase \in Cov
    PROVE  SealInv'
  <1>1. Cov' = Cov
    BY DEF restVars, Cov
  <1>2. QueueInv'
    BY <1>1, QueueQuiet DEF restVars, SealInv
  <1>3. DecisionInv'
    BY <1>1, DecisionsQuiet DEF restVars, SealInv
  <1>4. PhaseInv'
    BY <1>1 DEF restVars, SealInv, PhaseInv
  <1> QED
    BY <1>2, <1>3, <1>4 DEF SealInv

\* A builder that starts is not about to write evidence.
LEMMA StartSeals ==
    ASSUME AdvanceInv, SealInv, NEW b \in Builders, NEW asked,
           StartBuilder(b, asked), UNCHANGED restVars, sealed' = sealed
    PROVE  SealInv'
  <1>1. /\ builder'[b].at = "drift"
        /\ \A c \in Builders : c # b => builder'[c] = builder[c]
    BY DEF StartBuilder, AdvanceInv
  <1>2. sealed' \subseteq Cov
    BY DEF SealInv, PhaseInv
  <1> QED
    BY <1>1, <1>2, BuilderSeals

\* Nor is one that ends.
LEMMA EndSeals ==
    ASSUME AdvanceInv, SealInv, NEW b \in Builders,
           NEW how \in {"failed", "pending", "done"},
           Ends(b, how), UNCHANGED restVars, sealed' = sealed
    PROVE  SealInv'
  <1>1. [Resting EXCEPT !.at = how]
          = [at |-> how, asked |-> "none", phase |-> "none"]
    BY DEF Resting
  <1>2. \A c \in Builders : c # b => builder'[c] = builder[c]
    BY DEF Ends, AdvanceInv
  <1>3. builder'[b] = IF b = "contract"
                      THEN [at |-> how, asked |-> "none", phase |-> "none"]
                      ELSE Resting
    BY <1>1 DEF Ends, AdvanceInv
  <1>4. builder'[b].at # "evidence"
    BY <1>3 DEF Resting
  <1>5. sealed' \subseteq Cov
    BY DEF SealInv, PhaseInv
  <1> QED
    BY <1>2, <1>4, <1>5, BuilderSeals

\* Whatever check_operator_approval reads goes back to an approval.
LEMMA ApprovedIsCovered ==
    ASSUME SealInv, NEW phase \in Phases, Approved(phase)
    PROVE  phase \in Cov
  <1>1. CASE approval[phase] = "APPROVED"
    BY <1>1 DEF SealInv, PhaseInv
  <1>2. CASE \E d \in Naming(decisions, phase) : d.status = "APPROVED"
    BY <1>2 DEF SealInv, DecisionInv, Files, Backed, Naming
  <1>3. ASSUME NEW item \in Naming(queue, phase), item.status = "APPROVED"
        PROVE  phase \in Cov
    <2>1. item \in Copies(queue, held.queue, job) /\ phase \in item.names
      BY WhereCopied DEF Naming
    <2>2. Backed(item, Cov)
      BY <2>1 DEF SealInv, QueueInv, Written, Sound
    <2> QED
      BY <1>3, <2>1, <2>2 DEF Backed
  <1> QED
    BY <1>1, <1>2, <1>3 DEF Approved

\* A builder writes evidence after it has seen an approval.
LEMMA BuilderStepSeals ==
    ASSUME AdvanceInv, SealInv, NEW b \in Builders, BuilderSteps(b),
           UNCHANGED chainVars
    PROVE  SealInv'
  <1> DEFINE old == builder[b]
  <1>0. UNCHANGED restVars
    BY DEF BuilderSteps, chainVars, gateVars, restVars
  <1>1. sealed \subseteq Cov
    BY DEF SealInv, PhaseInv
  <1>2. old \in Programs /\ Founded(old, sealed)
    BY DEF AdvanceInv
  <1>3. ASSUME NEW at \in Stages \ {"evidence"}, Reaches(b, at)
        PROVE  /\ builder'[b].at # "evidence"
               /\ \A c \in Builders : c # b => builder'[c] = builder[c]
    BY <1>2, <1>3 DEF Reaches, AdvanceInv, Programs
  <1>4. CASE CheckDrift(b)
    <2>1. sealed' = sealed
      BY <1>4 DEF CheckDrift, phaseVars
    <2>2. CASE Ends(b, "failed")
      BY <1>0, <2>1, <2>2, EndSeals
    <2>3. CASE Reaches(b, "read")
      BY <1>0, <1>1, <1>3, <2>1, <2>3, BuilderSeals DEF Stages
    <2> QED
      BY <1>4, <2>2, <2>3 DEF CheckDrift
  <1>5. CASE ReadRegistry(b)
    <2>1. sealed' = sealed
      BY <1>5 DEF ReadRegistry, phaseVars
    <2>2. CASE Ends(b, "failed")
      BY <1>0, <2>1, <2>2, EndSeals
    <2>3. CASE builder' = [builder EXCEPT ![b].at = "check",
                                          ![b].phase = registry.next]
      <3> DEFINE prog == [old EXCEPT !.at = "check", !.phase = registry.next]
      <3>1. prog.at = "check"
        BY <1>2 DEF Programs
      <3>2. builder'[b] = prog
            /\ \A c \in Builders : c # b => builder'[c] = builder[c]
        BY <2>3 DEF AdvanceInv
      <3> QED
        BY <1>0, <1>1, <2>1, <3>1, <3>2, BuilderSeals
    <2> QED
      BY <1>5, <2>2, <2>3 DEF ReadRegistry
  <1>6. CASE CheckApproval(b)
    <2>1. sealed' = sealed
      BY <1>6 DEF CheckApproval, phaseVars
    <2>2. CASE Ends(b, "pending")
      BY <1>0, <2>1, <2>2, EndSeals
    <2>3. CASE Approved(old.phase) /\ Reaches(b, "evidence")
      <3>1. old.phase \in Cov
        BY <1>2, <1>6, <2>3, ApprovedIsCovered DEF CheckApproval, Founded
      <3>2. /\ builder'[b].phase = old.phase
            /\ \A c \in Builders : c # b => builder'[c] = builder[c]
        BY <1>2, <2>3 DEF Reaches, AdvanceInv, Programs
      <3> QED
        BY <1>0, <1>1, <2>1, <3>1, <3>2, BuilderSeals
    <2> QED
      BY <1>6, <2>2, <2>3 DEF CheckApproval, NextStage
  <1>7. CASE WriteEvidence(b)
    <2>1. sealed' = sealed \cup {old.phase} /\ Reaches(b, "advance")
      BY <1>7 DEF WriteEvidence, NextStage
    <2>2. old.phase \in Cov
      BY <1>7 DEF WriteEvidence, SealInv, PhaseInv
    <2> QED
      BY <1>0, <1>1, <1>3, <2>1, <2>2, BuilderSeals DEF Stages
  <1>8. CASE AdvanceRegistry(b)
    <2>1. sealed' = sealed /\ Reaches(b, "record")
      BY <1>8 DEF AdvanceRegistry, NextStage
    <2> QED
      BY <1>0, <1>1, <1>3, <2>1, BuilderSeals DEF Stages
  <1>9. CASE RecordPhase(b)
    BY <1>0, <1>9, EndSeals DEF RecordPhase
  <1> QED
    BY <1>4, <1>5, <1>6, <1>7, <1>8, <1>9 DEF BuilderSteps

\* All steps outside the contract chain.
LEMMA OrchestratorSeals ==
    ASSUME AdvanceInv, SealInv, OrchestratorNext, UNCHANGED chainVars
    PROVE  SealInv'
  <1>1. ASSUME NEW t \in Thread, RequestEndpoint(t) \/ DecisionEndpoint(t)
        PROVE  SealInv'
    BY <1>1, RequestSeals, DecisionSeals
  <1>2. CASE RequestExecution
    BY <1>2, ExecutionRequestSeals
  <1>3. ASSUME NEW w \in Writers, ServerWriter(w)
        PROVE  SealInv'
    BY <1>3, WriterSeals DEF ServerWriter, phaseVars, chainVars
  <1>4. CASE ServerStops
    BY <1>4, StopSeals
  <1>5. CASE ExecutePhase
    <2>1. PICK phase \in Phases : StartBuilder("server", phase)
      BY <1>5 DEF ExecutePhase
    <2> QED
      BY <1>5, <2>1, StartSeals
         DEF ExecutePhase, phaseVars, gateVars, chainVars, restVars, Builders
  <1>6. CASE OperatorRunsBuilder
    BY <1>6, StartSeals
       DEF OperatorRunsBuilder, phaseVars, gateVars, chainVars, restVars, Builders
  <1>7. ASSUME NEW b \in Builders, BuilderSteps(b)
        PROVE  SealInv'
    BY <1>7, BuilderStepSeals
  <1>8. ASSUME NEW b \in Builders, BuilderKilled(b)
        PROVE  SealInv'
    BY <1>8, EndSeals DEF BuilderKilled, gateVars, chainVars, restVars
  <1> QED
    BY <1>1, <1>2, <1>3, <1>4, <1>5, <1>6, <1>7, <1>8 DEF OrchestratorNext

---------------------------------------------------------------------------
(* The contract chain *)

\* The chain's writer dies with it; its builder may go on.
LEMMA KillSeals ==
    ASSUME AdvanceInv, SealInv, ChainKilled
    PROVE  SealInv'
  <1> DEFINE lost == {"contract"}
  <1>1. /\ UNCHANGED <<decisions, ids, approval, sealed, authorised, mocked>>
        /\ queue' \in {queue, {}} /\ own' = NoIds /\ held' = Nothing
    BY DEF ChainKilled
  <1>2. "contract" \in Writers /\ "contract" \in Builders
    BY DEF Writers, Builders
  <1>3. job' = [w \in Writers |-> IF w \in lost THEN Idle ELSE job[w]]
    BY <1>2 DEF ChainKilled, SealInv, QueueInv, Written, Jobs
  <1>4. lost \in SUBSET Writers
    BY <1>2
  <1> HIDE DEF lost
  <1>5. QueueInv' /\ DecisionInv'
    BY <1>1, <1>3, <1>4, JobsLost
  <1>6. \A b \in Builders : \/ builder'[b] = Resting
                            \/ \E c \in Builders : builder'[b] = builder[c]
    BY <1>2, OrphanMoved DEF ChainKilled, AdvanceInv
  <1>7. Cov' = Cov
    BY <1>1 DEF Cov
  <1>8. PhaseInv'
    BY <1>1, <1>6, <1>7, BuildersMoved DEF SealInv
  <1> QED
    BY <1>5, <1>8 DEF SealInv

\* The contract's requests are about no phase, so that their approval is none.
LEMMA OwnRequestSeals ==
    ASSUME SealInv, NEW status \in {"PENDING", "FAIL_CLOSED"},
           CreateRequest("contract", {}, status, "none"),
           \/ own' = [own EXCEPT !.pending = ids']
           \/ own' = [own EXCEPT !.bypass = ids'],
           UNCHANGED <<held, approval, builder, sealed, authorised, mocked>>
    PROVE  SealInv'
  <1>1. Cov' = Cov
    BY DEF Cov
  <1>2. own' = [pending |-> ids', bypass |-> own.bypass]
        \/ own' = [pending |-> own.pending, bypass |-> ids']
    BY DEF SealInv, QueueInv, OwnIsRecord
  <1>3. /\ OwnIsRecord(own')
        /\ own'.pending \in {own.pending, ids'}
        /\ own'.bypass \in {own.bypass, ids'}
    BY <1>2 DEF OwnIsRecord
  <1>4. "contract" \in Writers
    BY DEF Writers
  <1>5. /\ Written(queue', held.queue, job', ids', Cov, own')
        /\ Files(decisions', held.decisions, job', Cov)
    <2>1. PICK names : names = {}
      OBVIOUS
    <2>2. /\ Written(queue, held.queue, job, ids, Cov, own)
          /\ Files(decisions, held.decisions, job, Cov)
      BY DEF SealInv, QueueInv, DecisionInv
    <2>3. CreateRequest("contract", names, status, "none")
      BY <2>1
    <2> QED
      BY <1>3, <1>4, <2>1, <2>2, <2>3, CreateKeeps
  <1>6. PhaseInv'
    BY <1>1, PhasesQuiet DEF SealInv
  <1> QED
    BY <1>1, <1>3, <1>5, <1>6 DEF SealInv, QueueInv, DecisionInv

\* The contract approves its own items alone, which are about no phase.
LEMMA OwnApprovalSeals ==
    ASSUME SealInv, NEW i \in {own.pending, own.bypass},
           RecordDecision("contract", i, "APPROVED"),
           UNCHANGED <<held, own, approval, builder, sealed, authorised, mocked>>
    PROVE  SealInv'
  <1>1. Cov' = Cov /\ Cov \subseteq Cov
    BY DEF Cov
  <1>2. \A y \in queue : y.id = i => y.names = {}
    BY WhereCopied DEF SealInv, QueueInv, Written, Sound
  <1>3. "contract" \in Writers
    BY DEF Writers
  <1>4. /\ Written(queue', held.queue, job', ids', Cov, own)
        /\ Files(decisions', held.decisions, job', Cov)
    BY <1>1, <1>2, <1>3, RecordKeeps DEF SealInv, QueueInv, DecisionInv
  <1>5. PhaseInv'
    BY <1>1, PhasesQuiet DEF SealInv
  <1> QED
    BY <1>1, <1>4, <1>5 DEF SealInv, QueueInv, DecisionInv

\* The approval gate's contract.
LEMMA GateSeals ==
    ASSUME SealInv, GateContract
    PROVE  SealInv'
  <1>1. CASE GateCleansQueue
    <2>1. /\ queue' = {} /\ Cov' = Cov
          /\ UNCHANGED <<decisions, job, ids, own, held, approval, builder, sealed>>
      BY <1>1 DEF GateCleansQueue, gateFrame, phaseVars, Cov
    <2>2. QueueInv'
      BY <2>1, QueueQuiet DEF SealInv
    <2> QED
      BY <2>1, <2>2, DecisionsQuiet, PhasesQuiet DEF SealInv
  <1>0. CASE GateOpens
    <2>1. "contract" \in Writers
      BY DEF Writers
    <2>2. /\ Written(queue, held.queue, job, ids, Cov, own)
          /\ Files(decisions, held.decisions, job, Cov)
      BY DEF SealInv, QueueInv, DecisionInv
    <2>3. /\ job' = [job EXCEPT !["contract"] = Creating]
          /\ UNCHANGED <<queue, decisions, ids, own, held, approval, builder,
                         sealed>>
          /\ Cov' = Cov
      BY <1>0 DEF GateOpens, gateFrame, phaseVars, Cov
    <2>4. /\ Written(queue', held.queue, job', ids', Cov, own)
          /\ Files(decisions', held.decisions, job', Cov)
      BY <2>1, <2>2, <2>3, EmptyKeeps
    <2>5. PhaseInv'
      BY <2>3, PhasesQuiet DEF SealInv
    <2> QED
      BY <2>3, <2>4, <2>5 DEF SealInv, QueueInv, DecisionInv
  <1>2. CASE GateRequests
    BY <1>2, OwnRequestSeals DEF GateRequests, gateFrame, phaseVars
  <1>3. CASE GateLooks
    BY <1>3, SealQuiet DEF GateLooks, gateFrame, phaseVars, gateVars
  <1>4. CASE GateApproves
    <2>1. CASE RecordDecision("contract", own.pending, "APPROVED")
      BY <1>4, <2>1, OwnApprovalSeals DEF GateApproves, gateFrame, phaseVars
    <2>2. CASE UNCHANGED gateVars
      BY <1>4, <2>2, SealQuiet DEF GateApproves, gateFrame, phaseVars, gateVars
    <2> QED
      BY <1>4, <2>1, <2>2 DEF GateApproves
  <1>5. CASE GateRequestsBypass
    BY <1>5, OwnRequestSeals DEF GateRequestsBypass, gateFrame, phaseVars
  <1>6. CASE GateIsRefused
    <2>1. CASE RecordDecision("contract", own.bypass, "APPROVED")
      BY <1>6, <2>1, OwnApprovalSeals DEF GateIsRefused, gateFrame, phaseVars
    <2>2. CASE UNCHANGED gateVars
      BY <1>6, <2>2, SealQuiet DEF GateIsRefused, gateFrame, phaseVars, gateVars
    <2> QED
      BY <1>6, <2>1, <2>2 DEF GateIsRefused
  <1>7. CASE GateReadsTelemetry
    BY <1>7, SealQuiet DEF GateReadsTelemetry, gateFrame, phaseVars, gateVars
  <1>8. CASE GateEnds
    BY <1>8, SealLeaving DEF GateEnds
  <1>9. CASE ContractWrites
    <2>1. "contract" \in Writers
      BY DEF Writers
    <2> QED
      BY <1>9, <2>1, WriterSeals DEF ContractWrites, phaseVars, chainVars
  <1> QED
    BY <1>0, <1>1, <1>2, <1>3, <1>4, <1>5, <1>6, <1>7, <1>8, <1>9
       DEF GateContract

\* Files and backups are exchanged; nothing is approved but the mock.
LEMMA ExchangeSeals ==
    ASSUME SealInv, UNCHANGED <<job, ids, own, approval, builder, authorised>>,
           sealed' \subseteq sealed, mocked => mocked',
           queue' \subseteq queue \cup held.queue,
           held'.queue \subseteq queue \cup held.queue,
           \A d \in decisions' \cup held'.decisions :
               d \in decisions \cup held.decisions \/ Backed(d, Cov')
    PROVE  SealInv'
  <1>1. Cov \subseteq Cov'
    BY CoverageGrows
  <1>2. QueueInv'
    BY <1>1, QueueQuiet DEF SealInv
  <1>3. DecisionInv'
    BY <1>1, DecisionsQuiet DEF SealInv
  <1>4. PhaseInv'
    BY <1>1 DEF SealInv, PhaseInv
  <1> QED
    BY <1>2, <1>3, <1>4 DEF SealInv

\* The builder's contract.
LEMMA TestSeals ==
    ASSUME AdvanceInv, SealInv, BuilderContract
    PROVE  SealInv'
  <1>1. CASE KeepsRegistry
    <2>1. held' = [registry |-> held'.registry, current |-> held'.current,
                   listed |-> held'.listed, decisions |-> held.decisions,
                   queue |-> held.queue]
      BY <1>1 DEF KeepsRegistry, AdvanceInv, HeldIsRecord
    <2>2. held'.queue = held.queue /\ held'.decisions = held.decisions
      BY <2>1
    <2> QED
      BY <1>1, <2>2, ExchangeSeals DEF KeepsRegistry, Keeps, phaseVars
  <1>2. CASE KeepsState
    <2>1. held' = [registry |-> held'.registry, current |-> held'.current,
                   listed |-> held'.listed, decisions |-> held.decisions,
                   queue |-> held.queue]
      BY <1>2 DEF KeepsState, AdvanceInv, HeldIsRecord
    <2>2. held'.queue = held.queue /\ held'.decisions = held.decisions
      BY <2>1
    <2> QED
      BY <1>2, <2>2, ExchangeSeals DEF KeepsState, Keeps, phaseVars
  <1>2a. CASE HidesDecision
    <2>1. PICK d \in decisions :
              /\ held' = [held EXCEPT !.listed = @ \ {d.id},
                                     !.decisions = @ \cup {d}]
              /\ decisions' = decisions \ {d}
      BY <1>2a DEF HidesDecision
    <2>2. held' = [registry |-> held.registry, current |-> held.current,
                   listed |-> held'.listed,
                   decisions |-> held.decisions \cup {d}, queue |-> held.queue]
      BY <2>1 DEF AdvanceInv, HeldIsRecord
    <2>3. held'.queue = held.queue /\ held'.decisions = held.decisions \cup {d}
      BY <2>2
    <2> QED
      BY <1>2a, <2>1, <2>3, ExchangeSeals DEF HidesDecision, Keeps, phaseVars
  <1>3. CASE KeepsQueue
    <2>1. held' = [registry |-> held'.registry, current |-> held'.current,
                   listed |-> held'.listed, decisions |-> held.decisions,
                   queue |-> queue]
      BY <1>3 DEF KeepsQueue, AdvanceInv, HeldIsRecord
    <2>2. held'.queue = queue /\ held'.decisions = held.decisions
      BY <2>1
    <2> QED
      BY <1>3, <2>2, ExchangeSeals DEF KeepsQueue, Keeps, phaseVars
  <1>4. CASE FiltersQueue
    <2>1. queue' \subseteq held.queue
      BY <1>4 DEF FiltersQueue
    <2> QED
      BY <1>4, <2>1, ExchangeSeals DEF FiltersQueue, Keeps, phaseVars
  <1>5. CASE RewindsRegistry
    BY <1>5, SealQuiet DEF RewindsRegistry, Keeps
  <1>6. CASE RunsUnapproved
    BY <1>6, StartSeals DEF RunsUnapproved, Keeps, phaseVars, restVars, Builders
  <1>7. CASE SeesPending
    BY <1>7, SealQuiet DEF SeesPending, orchestratorVars
  <1>8. CASE WritesMock
    <2>1. /\ decisions' = Filing(decisions, MockDecision) /\ mocked'
          /\ UNCHANGED <<job, ids, own, approval, builder, authorised, sealed,
                         queue, held>>
      BY <1>8 DEF WritesMock, Keeps, phaseVars
    <2>2. "PR16" \in Cov'
      BY <2>1 DEF Cov, Covered
    <2>3. Backed(MockDecision, Cov')
      BY <2>2 DEF MockDecision, Item, Backed
    <2>4. \A d \in decisions' : d \in decisions \/ d = MockDecision
      BY <2>1 DEF Filing
    <2> QED
      BY <2>1, <2>3, <2>4, ExchangeSeals
  <1>9. CASE RunsApproved
    BY <1>9, StartSeals DEF RunsApproved, Keeps, phaseVars, restVars, Builders
  <1>10. CASE SeesDone
    BY <1>10, SealQuiet DEF SeesDone, orchestratorVars
  <1>11. CASE RemovesMock
    BY <1>11, ExchangeSeals DEF RemovesMock, Keeps, phaseVars
  <1>11a. CASE RestoresDecision
    <2>1. PICK d \in held.decisions :
              /\ held' = [held EXCEPT !.decisions = @ \ {d}]
              /\ decisions' = Filing(decisions, d)
      BY <1>11a DEF RestoresDecision
    <2>2. held' = [registry |-> held.registry, current |-> held.current,
                   listed |-> held.listed,
                   decisions |-> held.decisions \ {d}, queue |-> held.queue]
      BY <2>1 DEF AdvanceInv, HeldIsRecord
    <2>3. held'.queue = held.queue /\ held'.decisions \subseteq held.decisions
      BY <2>2
    <2>4. decisions' \subseteq decisions \cup held.decisions
      BY <2>1 DEF Filing
    <2> QED
      BY <1>11a, <2>3, <2>4, ExchangeSeals DEF RestoresDecision, Keeps, phaseVars
  <1>11b. CASE DecisionsAreBack
    BY <1>11b, SealQuiet DEF DecisionsAreBack, Keeps, phaseVars
  <1>12. CASE RestoresQueue
    BY <1>12, ExchangeSeals DEF RestoresQueue, Keeps, phaseVars
  <1>13. CASE RestoresRegistry
    BY <1>13, SealQuiet DEF RestoresRegistry, Keeps
  <1>13a. CASE RestoresState
    BY <1>13a, SealQuiet DEF RestoresState, Keeps
  <1>14. CASE CleansEvidence
    BY <1>14, ExchangeSeals DEF CleansEvidence, Keeps
  <1>15. CASE TestEnds
    BY <1>15, SealLeaving DEF TestEnds
  <1> QED
    BY <1>1, <1>2, <1>2a, <1>3, <1>4, <1>5, <1>6, <1>7, <1>8, <1>9, <1>10,
       <1>11, <1>11a, <1>11b, <1>12, <1>13, <1>13a, <1>14, <1>15
       DEF BuilderContract

---------------------------------------------------------------------------
\* A phase that is sealed at the start was approved, and no file approves more.
LEMMA SealInvInit == Init => SealInv
  <1> SUFFICES ASSUME Init PROVE SealInv
    OBVIOUS
  <1>1. /\ ids = 2 /\ own = NoIds /\ held = Nothing
        /\ job = [w \in Writers |-> Idle]
        /\ builder = [b \in Builders |-> Resting]
    BY DEF Init, OrchestratorInit
  <1>2. \A phase \in Phases :
            phase \in sealed \/ approval[phase] = "APPROVED" => phase \in Cov
    <2>1. SUFFICES ASSUME NEW phase \in Phases,
                          phase \in sealed \/ approval[phase] = "APPROVED"
                   PROVE  phase \in Cov
      OBVIOUS
    <2>2. ForPhase(phase) \in authorised
      BY <2>1 DEF Init, OrchestratorInit
    <2>3. phase \in ForPhase(phase).names
      BY DEF ForPhase
    <2> QED
      BY <2>2, <2>3 DEF Cov, Covered
  <1>3. Jobs(job)
    BY <1>1, FieldsOfIdle DEF Jobs
  <1>4. \A x \in Copies(queue, held.queue, job) : x = NoItem \/ x \in queue
    BY <1>1, FieldsOfIdle DEF Copies, Nothing
  <1>5. NoItem.id = 0 /\ NoItem.names = {} /\ Backed(NoItem, Cov)
    BY BlankItem DEF Backed
  <1>6. own.pending = 0 /\ own.bypass = 0 /\ OwnIsRecord(own)
    BY <1>1 DEF NoIds, OwnIsRecord
  <1> DEFINE first == Item(1, {"PR16"}, FALSE, "APPROVED")
             second == Item(2, {"PR17"}, FALSE, "PENDING")
  <1>7. \/ queue = {} /\ decisions = {}
        \/ /\ queue = {first, second} /\ decisions = {first}
           /\ sealed = {"PR16"}
    BY DEF Init, OrchestratorInit
  <1>8. /\ first.id = 1 /\ first.names = {"PR16"} /\ first.status = "APPROVED"
        /\ second.id = 2 /\ second.names = {"PR17"} /\ second.status = "PENDING"
    BY DEF Item
  <1> HIDE DEF first, second
  <1>9. \A x \in queue \cup decisions :
            /\ x.id \in 1..2 /\ Backed(x, Cov)
            /\ x \in {first, second}
    BY <1>2, <1>7, <1>8 DEF Backed, Phases
  <1>10. Sound(Copies(queue, held.queue, job), ids, Cov, own)
    <2>1. ASSUME NEW x \in Copies(queue, held.queue, job)
          PROVE  /\ x.id \in 0..ids
                 /\ x.id = 0 => x.names = {}
                 /\ x.id \in {own.pending, own.bypass} => x.names = {}
                 /\ Backed(x, Cov)
      BY <1>1, <1>4, <1>5, <1>6, <1>9
    <2>2. ASSUME NEW x \in Copies(queue, held.queue, job),
                 NEW y \in Copies(queue, held.queue, job), x.id = y.id
          PROVE  x.names = y.names
      BY <1>4, <1>5, <1>8, <1>9, <2>2
    <2> QED
      BY <1>1, <1>6, <2>1, <2>2 DEF Sound
  <1>11. QueueInv
    BY <1>3, <1>6, <1>10 DEF QueueInv, Written
  <1>12. DecisionInv
    BY <1>1, <1>5, <1>9, FieldsOfIdle DEF DecisionInv, Files, Nothing
  <1>13. \E phases : approval = ApprovalFiles(phases)
    BY DEF Init, OrchestratorInit
  <1>14. approval = [phase \in Requestable |-> approval[phase]]
    BY <1>13 DEF ApprovalFiles
  <1>15. sealed \subseteq Phases
    BY DEF Init, OrchestratorInit, Phases
  <1>16. PhaseInv
    BY <1>1, <1>2, <1>14, <1>15 DEF PhaseInv, Resting
  <1> QED
    BY <1>11, <1>12, <1>16 DEF SealInv

\* Every step keeps approvals backed and sealed phases covered.
LEMMA SealInvStep == AdvanceInv /\ SealInv /\ [Next]_vars => SealInv'
  <1> SUFFICES ASSUME AdvanceInv, SealInv, [Next]_vars PROVE SealInv'
    OBVIOUS
  <1>1. CASE OrchestratorNext /\ UNCHANGED chainVars
    BY <1>1, OrchestratorSeals
  <1>2. CASE ChainStarts
    BY <1>2, SealQuiet DEF ChainStarts, phaseVars, gateVars
  <1>3. CASE Compares
    BY <1>3, SealLeaving DEF Compares
  <1>4. CASE ChainKilled
    BY <1>4, KillSeals
  <1>5. CASE GateContract
    BY <1>5, GateSeals
  <1>6. CASE BuilderContract
    BY <1>6, TestSeals
  <1>7. CASE Edit
    BY <1>7, SealQuiet DEF Edit, phaseVars, gateVars
  <1>8. CASE UNCHANGED vars
    BY <1>8, SealQuiet DEF vars, orchestratorVars, chainVars
  <1> QED
    BY <1>1, <1>2, <1>3, <1>4, <1>5, <1>6, <1>7, <1>8 DEF Next

\* No phase is sealed that no operator ever approved by name, but for PR16
\* after a mock approval: whatever the texts name, whatever the order in which
\* stale copies of the queue are saved, an empty one is written over it, backups
\* are restored, servers stopped, builders killed and left running.
THEOREM SealsAreApproved == Spec => []SealedWasApproved
  <1>1. Init => AdvanceInv /\ SealInv
    BY AdvanceInvInit, SealInvInit
  <1>2. AdvanceInv /\ SealInv /\ [Next]_vars => (AdvanceInv /\ SealInv)'
    BY AdvanceInvStep, SealInvStep
  <1>3. AdvanceInv /\ SealInv => SealedWasApproved
    BY DEF SealInv, PhaseInv, Cov, Covered, SealedWasApproved
  <1> QED
    BY <1>1, <1>2, <1>3, PTL DEF Spec

---------------------------------------------------------------------------
(* Positions in the chain *)

\* Every set of numbers has a least one.
LEMMA LeastNumber ==
    ASSUME NEW S \in SUBSET Nat, S # {}
    PROVE  \E n \in S : \A m \in S : n <= m
  <1>1. PICK less : less = OpToRel(<, Nat)
    OBVIOUS
  <1>2. IsWellFoundedOn(less, Nat)
    BY <1>1, NatLessThanWellFounded
  <1>3. less = {pair \in Nat \X Nat : pair[1] < pair[2]}
    BY <1>1 DEF OpToRel
  <1>4. PICK n \in S : \A m \in S : << m, n >> \notin less
    BY <1>2, WFMin
  <1>5. ASSUME NEW m \in S PROVE n <= m
    <2>1. m \in Nat /\ n \in Nat /\ << m, n >> \in Nat \X Nat
      OBVIOUS
    <2>2. << m, n >>[1] = m /\ << m, n >>[2] = n
      OBVIOUS
    <2>3. ~(m < n)
      BY <1>3, <1>4, <2>1, <2>2
    <2> QED
      BY <2>1, <2>3
  <1> QED
    BY <1>5

---------------------------------------------------------------------------
(* What a green chain has looked at *)

Acts(c) == link > 0 /\ FullChain[link] = c

\* The link would notice nothing of a file nobody has edited since the start.
Unnoticed(c) ==
    \A file \in Edited \ touched : ~ Noticed(c, file, damage[file])

\* Every link the chain is past found nothing, or was itself edited under; the
\* approval gate's contract looks first and acts afterwards.
PassedInv ==
    /\ link \in Relevant \cup {0}
    /\ link > 0 => verdict # "green"
    /\ link = 0 => stage = "start"
    /\ \A m \in Relevant : m < link \/ verdict = "green" => Unnoticed(FullChain[m])
    /\ Acts(ApprovalGateFiles) /\ stage # "start"
           => failed \/ Unnoticed(ApprovalGateFiles)

\* Positions are numbers from 1.
LEMMA Positions == Relevant \subseteq Nat \ {0}
  BY DEF Relevant

\* After(n) is the next relevant position, or there is none.
LEMMA NextRelevant ==
    ASSUME NEW n \in Nat
    PROVE  \/ /\ After(n) \in Relevant /\ n < After(n)
              /\ \A k \in Relevant : k < After(n) => k <= n
           \/ /\ After(n) = 0
              /\ \A k \in Relevant : k <= n
  <1> DEFINE later == {m \in Relevant : m > n}
             Nearest(m) == m > n /\ \A k \in Relevant : k > n => m <= k
  <1>0. Relevant \subseteq Nat
    BY Positions
  <1>1. CASE \E m \in Relevant : m > n
    <2>1. later \in SUBSET Nat /\ later # {}
      BY <1>0, <1>1
    <2>2. PICK m \in later : \A k \in later : m <= k
      BY <2>1, LeastNumber
    <2>3. \E x \in Relevant : Nearest(x)
      BY <2>2
    <2>4. After(n) = CHOOSE x \in Relevant : Nearest(x)
      BY <1>1 DEF After
    <2>5. PICK a : a = After(n)
      OBVIOUS
    <2>6. a \in Relevant /\ Nearest(a)
      BY <2>3, <2>4, <2>5
    <2>7. a \in Nat /\ \A k \in Relevant : k \in Nat
      BY <1>0, <2>6
    <2>8. \A k \in Relevant : k < a => k <= n
      BY <2>6, <2>7
    <2> QED
      BY <2>5, <2>6, <2>8
  <1>2. CASE ~ \E m \in Relevant : m > n
    BY <1>0, <1>2 DEF After
  <1> QED
    BY <1>1, <1>2

\* A link that goes on working keeps what was found.
LEMMA PassedWorking ==
    ASSUME PassedInv, UNCHANGED <<damage, touched, link, verdict>>,
           link = 0 => stage' = "start",
           Acts(ApprovalGateFiles) /\ stage' # "start"
               => failed' \/ Unnoticed(ApprovalGateFiles)
    PROVE  PassedInv'
  BY DEF PassedInv, Acts, Unnoticed

\* A link is left green only if it has noticed nothing.
LEMMA PassedLeaving ==
    ASSUME PassedInv, link > 0, NEW red, Leaves(red), UNCHANGED <<damage, touched>>,
           red \/ Unnoticed(FullChain[link])
    PROVE  PassedInv'
  <1>0. link \in Relevant /\ link \in Nat /\ Relevant \subseteq Nat \ {0}
    BY Positions DEF PassedInv
  <1>1. \A c : Unnoticed(c)' <=> Unnoticed(c)
    BY DEF Unnoticed
  <1>2. CASE red
    <2>1. link' = 0 /\ verdict' = "red"
      BY <1>2 DEF Leaves
    <2>2. stage' = "start"
      BY DEF Leaves
    <2> QED
      BY <1>0, <2>1, <2>2 DEF PassedInv, Acts
  <1>3. CASE ~red /\ After(link) \in Relevant
    <2>1. link' = After(link) /\ verdict' = verdict /\ stage' = "start"
      BY <1>0, <1>3 DEF Leaves
    <2>2. verdict # "green"
      BY DEF PassedInv
    <2>3. \A m \in Relevant : m < link' => m < link \/ m = link
      BY <1>0, <1>3, <2>1, NextRelevant
    <2>4. \A m \in Relevant : m < link' => Unnoticed(FullChain[m])
      BY <1>3, <2>3 DEF PassedInv
    <2> QED
      BY <1>1, <1>3, <2>1, <2>2, <2>4 DEF PassedInv, Acts
  <1>4. CASE ~red /\ After(link) = 0
    <2>1. link' = 0 /\ verdict' = "green" /\ stage' = "start"
      BY <1>4 DEF Leaves
    <2>2. \A m \in Relevant : m < link \/ m = link
      BY <1>0, <1>4, NextRelevant
    <2>3. \A m \in Relevant : Unnoticed(FullChain[m])
      BY <1>4, <2>2 DEF PassedInv
    <2> QED
      BY <1>1, <2>1, <2>3 DEF PassedInv, Acts
  <1> QED
    BY <1>0, <1>2, <1>3, <1>4, NextRelevant

\* The two links that act are not the same.
LEMMA TwoAct == ApprovalGateFiles # BuilderRunnerFiles
  <1>1. ApprovalGateFiles.forbids = {MainPy}
    BY DEF ApprovalGateFiles, LooksAt
  <1>2. BuilderRunnerFiles.forbids = {}
    BY DEF BuilderRunnerFiles, LooksAt
  <1> QED
    BY <1>1, <1>2

\* The approval gate's contract forgets no failure.
LEMMA GatePasses ==
    ASSUME PassedInv, GateContract
    PROVE  PassedInv'
  <1>0. ASSUME UNCHANGED <<damage, touched, link, verdict>>, stage # "start",
               failed => failed'
        PROVE  PassedInv'
    <2>1. /\ link # 0
          /\ Acts(ApprovalGateFiles) => failed' \/ Unnoticed(ApprovalGateFiles)
      BY <1>0 DEF PassedInv
    <2> QED
      BY <1>0, <2>1, PassedWorking
  <1>1. CASE GateCleansQueue
    <2>1. UNCHANGED <<damage, touched, link, verdict>>
          /\ failed' = Notices(ApprovalGateFiles) /\ link # 0
      BY <1>1 DEF GateCleansQueue, gateFrame, Goes, Gate, Running
    <2>2. ~Notices(ApprovalGateFiles) => Unnoticed(ApprovalGateFiles)
      BY DEF Notices, Unnoticed
    <2> QED
      BY <2>1, <2>2, PassedWorking
  <1>1a. CASE GateOpens
    BY <1>0, <1>1a DEF GateOpens, gateFrame, Gate, Running
  <1>2. CASE GateRequests
    BY <1>0, <1>2 DEF GateRequests, gateFrame, Goes, Gate, Running
  <1>3. CASE GateLooks
    BY <1>0, <1>3 DEF GateLooks, gateFrame, Goes, Gate, Running
  <1>4. CASE GateApproves
    BY <1>0, <1>4 DEF GateApproves, gateFrame, Goes, Gate, Running
  <1>5. CASE GateRequestsBypass
    BY <1>0, <1>5 DEF GateRequestsBypass, gateFrame, Goes, Gate, Running
  <1>6. CASE GateIsRefused
    BY <1>0, <1>6 DEF GateIsRefused, gateFrame, Goes, Gate, Running
  <1>7. CASE GateReadsTelemetry
    BY <1>0, <1>7 DEF GateReadsTelemetry, gateFrame, Goes, Gate, Running
  <1>8. CASE GateEnds
    <2>1. Acts(ApprovalGateFiles) /\ stage # "start" /\ link > 0
          /\ Leaves(failed) /\ UNCHANGED <<damage, touched>>
      BY <1>8 DEF GateEnds, Gate, Running, Acts, orchestratorVars
    <2>2. failed \/ Unnoticed(FullChain[link])
      BY <2>1 DEF PassedInv, Acts
    <2> QED
      BY <2>1, <2>2, PassedLeaving
  <1>9. CASE ContractWrites
    BY <1>9, PassedWorking DEF ContractWrites, chainVars, PassedInv
  <1> QED
    BY <1>1, <1>1a, <1>2, <1>3, <1>4, <1>5, <1>6, <1>7, <1>8, <1>9 DEF GateContract

\* The builder's contract looks at its files when all is put back.
LEMMA TestPasses ==
    ASSUME PassedInv, BuilderContract
    PROVE  PassedInv'
  <1>0. ASSUME UNCHANGED <<damage, touched, link, verdict>>, Acts(BuilderRunnerFiles)
        PROVE  PassedInv'
    <2>1. ~Acts(ApprovalGateFiles) /\ link # 0
      BY <1>0, TwoAct DEF Acts
    <2> QED
      BY <1>0, <2>1, PassedWorking
  <1>1. CASE KeepsRegistry
    BY <1>0, <1>1 DEF KeepsRegistry, Keeps, Test, Running, Acts, Goes
  <1>2. CASE KeepsState
    BY <1>0, <1>2 DEF KeepsState, Keeps, Test, Running, Acts, Goes
  <1>3. CASE HidesDecision
    BY <1>0, <1>3 DEF HidesDecision, Keeps, Test, Running, Acts, Goes
  <1>4. CASE KeepsQueue
    BY <1>0, <1>4 DEF KeepsQueue, Keeps, Test, Running, Acts, Goes
  <1>5. CASE FiltersQueue
    BY <1>0, <1>5 DEF FiltersQueue, Keeps, Test, Running, Acts, Goes
  <1>6. CASE RewindsRegistry
    BY <1>0, <1>6 DEF RewindsRegistry, Keeps, Test, Running, Acts, Goes
  <1>7. CASE RunsUnapproved
    BY <1>0, <1>7 DEF RunsUnapproved, Keeps, Test, Running, Acts, Goes
  <1>8. CASE SeesPending
    BY <1>0, <1>8 DEF SeesPending, orchestratorVars, Test, Running, Acts, Goes
  <1>9. CASE WritesMock
    BY <1>0, <1>9 DEF WritesMock, Keeps, Test, Running, Acts, Goes
  <1>10. CASE RunsApproved
    BY <1>0, <1>10 DEF RunsApproved, Keeps, Test, Running, Acts, Goes
  <1>11. CASE SeesDone
    BY <1>0, <1>11 DEF SeesDone, orchestratorVars, Test, Running, Acts, Goes
  <1>12. CASE RemovesMock
    BY <1>0, <1>12 DEF RemovesMock, Keeps, Test, Running, Acts, Goes
  <1>13. CASE RestoresDecision
    BY <1>0, <1>13 DEF RestoresDecision, Keeps, Test, Running, Acts, Goes
  <1>14. CASE DecisionsAreBack
    BY <1>0, <1>14 DEF DecisionsAreBack, Keeps, Test, Running, Acts, Goes
  <1>15. CASE RestoresQueue
    BY <1>0, <1>15 DEF RestoresQueue, Keeps, Test, Running, Acts, Goes
  <1>16. CASE RestoresRegistry
    BY <1>0, <1>16 DEF RestoresRegistry, Keeps, Test, Running, Acts, Goes
  <1>17. CASE RestoresState
    BY <1>0, <1>17 DEF RestoresState, Keeps, Test, Running, Acts, Goes
  <1>18. CASE CleansEvidence
    BY <1>0, <1>18 DEF CleansEvidence, Keeps, Test, Running, Acts, Goes
  <1>19. CASE TestEnds
    <2>1. PICK red : red = (failed \/ Notices(BuilderRunnerFiles))
      OBVIOUS
    <2>2. link > 0 /\ FullChain[link] = BuilderRunnerFiles /\ Leaves(red)
          /\ UNCHANGED <<damage, touched>>
      BY <1>19, <2>1 DEF TestEnds, Test, Running, orchestratorVars
    <2>3. red \/ Unnoticed(FullChain[link])
      BY <2>1, <2>2 DEF Notices, Unnoticed
    <2> QED
      BY <2>2, <2>3, PassedLeaving
  <1> QED
    BY <1>1, <1>2, <1>3, <1>4, <1>5, <1>6, <1>7, <1>8, <1>9, <1>10, <1>11,
       <1>12, <1>13, <1>14, <1>15, <1>16, <1>17, <1>18, <1>19
       DEF BuilderContract

\* Operators, the server and the builders edit no file and run no link.
LEMMA OrchestratorPasses ==
    ASSUME PassedInv, OrchestratorNext, UNCHANGED chainVars
    PROVE  PassedInv'
  <1>1. damage' = damage
    BY DEF OrchestratorNext, RequestEndpoint, DecisionEndpoint, RequestExecution,
       ServerWriter, ServerStops, ExecutePhase, OperatorRunsBuilder, BuilderSteps,
       BuilderKilled
  <1> QED
    BY <1>1, PassedWorking DEF chainVars, PassedInv

\* Every step keeps what the chain has looked at unnoticed.
LEMMA PassedStep == PassedInv /\ [Next]_vars => PassedInv'
  <1> SUFFICES ASSUME PassedInv, [Next]_vars PROVE PassedInv'
    OBVIOUS
  <1>1. CASE OrchestratorNext /\ UNCHANGED chainVars
    BY <1>1, OrchestratorPasses
  <1>2. CASE ChainStarts
    <2>1. /\ link' = After(0) /\ verdict' = "none" /\ stage' = stage
      BY <1>2 DEF ChainStarts
    <2>2. stage' = "start" /\ ~(verdict' = "green") /\ link' \in Relevant \cup {0}
      BY <1>2, <2>1, NextRelevant DEF ChainStarts, PassedInv
    <2>3. \A m \in Relevant : ~(m < link')
      BY <2>1, NextRelevant, Positions
    <2> QED
      BY <2>1, <2>2, <2>3 DEF PassedInv, Acts
  <1>3. CASE Compares
    <2>1. link > 0 /\ Leaves(Notices(FullChain[link])) /\ UNCHANGED <<damage, touched>>
      BY <1>3 DEF Compares, orchestratorVars
    <2>2. Notices(FullChain[link]) \/ Unnoticed(FullChain[link])
      BY DEF Notices, Unnoticed
    <2> QED
      BY <2>1, <2>2, PassedLeaving
  <1>4. CASE ChainKilled
    <2>1. link' = 0 /\ verdict' = "killed" /\ stage' = "start"
      BY <1>4 DEF ChainKilled
    <2> QED
      BY <2>1, Positions DEF PassedInv, Acts
  <1>5. CASE GateContract
    BY <1>5, GatePasses
  <1>6. CASE BuilderContract
    BY <1>6, TestPasses
  <1>7. CASE Edit
    <2>1. UNCHANGED <<link, verdict, stage, failed>>
      BY <1>7 DEF Edit
    <2>2. \A file \in Edited \ touched' : file \in Edited \ touched
                                           /\ damage'[file] = damage[file]
      BY <1>7 DEF Edit
    <2>3. \A c : Unnoticed(c) => Unnoticed(c)'
      BY <2>2 DEF Unnoticed
    <2> QED
      BY <2>1, <2>3 DEF PassedInv, Acts
  <1>8. CASE UNCHANGED vars
    BY <1>8, PassedWorking DEF vars, orchestratorVars, chainVars, PassedInv
  <1> QED
    BY <1>1, <1>2, <1>3, <1>4, <1>5, <1>6, <1>7, <1>8 DEF Next

\* No link has passed anything at the start.
LEMMA PassedInit == Init => PassedInv
  <1> SUFFICES ASSUME Init PROVE PassedInv
    OBVIOUS
  <1>1. link = 0 /\ verdict = "none" /\ stage = "start"
    BY DEF Init
  <1>2. \A m \in Relevant : ~(m < link)
    BY <1>1, Positions
  <1> QED
    BY <1>1, <1>2 DEF PassedInv, Acts

\* A link that notices something of a file that may change is relevant.
LEMMA WhoNotices ==
    ASSUME NEW n \in 1..Len(FullChain), NEW file \in Edited, NEW d,
           Noticed(FullChain[n], file, d)
    PROVE  n \in Relevant /\ d \in Damages
  <1>1. d \in Damages
    BY DEF Noticed, Damages
  <1>2. LooksAtAny(FullChain[n])
    BY <1>1 DEF LooksAtAny
  <1> QED
    BY <1>1, <1>2 DEF Relevant

\* A green chain: none of its links would notice anything of a file that was
\* not edited while it ran (src/package.json:84).
GreenMeansUnnoticed ==
    verdict = "green" =>
        \A file \in Edited \ touched, n \in 1..Len(FullChain) :
            ~ Noticed(FullChain[n], file, damage[file])

\* Whatever the two links that act meet, and whoever kills a run, edits beside
\* it or starts the next one: under a green chain no file is damaged in a way
\* one of its 122 links looks for.
THEOREM GreenChainsNoticeNothing == Spec => []GreenMeansUnnoticed
  <1>1. PassedInv => GreenMeansUnnoticed
    BY WhoNotices DEF PassedInv, Unnoticed, GreenMeansUnnoticed
  <1> QED
    BY <1>1, PassedInit, PassedStep, PTL DEF Spec

\* Whenever each file that may be damaged is vouched for by some link, which
\* TLC evaluates over all rows of the chain, a green chain means what a reader
\* takes it to mean.
THEOREM GreenChainsAreIntact ==
    ASSUME Vouched(Edited)
    PROVE  Spec => []GreenMeansIntact
  <1>1. \A file, d : MustHold(file, d) => d \in Damages
    BY DEF MustHold, Damages
  <1>2. GreenMeansUnnoticed => GreenMeansIntact
    BY <1>1 DEF GreenMeansUnnoticed, GreenMeansIntact, Vouched
  <1> QED
    BY <1>2, GreenChainsNoticeNothing, PTL

---------------------------------------------------------------------------
(* Types: what the queue and every copy of it, the backup, the decisions,  *)
(* the jobs and the control files may hold.                                *)

\* What the queue may hold when `last` ids have been given out.
Filable(last) == [id : 0..last, names : Named \cup SUBSET Requestable,
                  closed : BOOLEAN, status : Status]
OneEach(q) == \A item, other \in q : item.id = other.id => item = other
Fits(q, last) == q \subseteq Filable(last) /\ OneEach(q)

\* A job holds a copy of the queue as it may be on disk; one that does nothing
\* holds nothing.
JobFits(j, last) ==
    /\ Fits(j.copy, last)
    /\ j.file \in Filable(last) /\ j.stamp \in Filable(last)
    /\ j.does = "nothing" => j = Idle

QueueTypes ==
    /\ Fits(queue, ids) /\ Fits(held.queue, ids)
    /\ decisions \cup held.decisions \subseteq Filable(ids)
    /\ \A w \in Writers : JobFits(job[w], ids)

ChainTypes ==
    /\ damage \in [Edited -> Damages \cup {"ok"}]
    /\ verdict \in {"none", "green", "red", "killed"}
    /\ job["contract"] # Idle => Acts(ApprovalGateFiles)
    /\ held # Nothing => Acts(BuilderRunnerFiles)

\* What the control files may hold, one half written included.
Readable(reg) ==
    \/ reg = Garbled
    \/ reg.last \in Phases \cup {"PR15"} /\ reg.next \in Requestable
Recordable(cur) == cur \in Phases \cup {"PR15", "garbled"}

\* The builder's contract reads them one after the other and puts them back.
PhaseTypes ==
    /\ Readable(registry) /\ Recordable(current)
    /\ Acts(BuilderRunnerFiles) /\ stage # "start" => Readable(held.registry)
    /\ Acts(BuilderRunnerFiles) /\ stage \notin {"start", "keep"}
           => Recordable(held.current)
    /\ approval \in [Requestable -> Status]
    /\ sealed \subseteq Phases

\* A builder that is about to record its phase has one.
Recorders ==
    \A b \in Builders : builder[b].at = "record" => builder[b].phase \in Phases

---------------------------------------------------------------------------
(* Items and copies of the queue *)

\* What a writer files under an id that was handed out.
LEMMA FilableItem ==
    ASSUME NEW last \in Nat, NEW i \in 0..last,
           NEW names \in Named \cup SUBSET Requestable, NEW status \in Status
    PROVE  Filed(i, names, status) \in Filable(last)
  BY DEF Filed, Item, Filable

\* Stamping an item changes its status and nothing else.
LEMMA FilableStamp ==
    ASSUME NEW last, NEW x \in Filable(last), NEW status \in Status
    PROVE  /\ Stamp(x, status) \in Filable(last)
           /\ Stamp(x, status).id = x.id
  BY DEF Stamp, Item, Filable

\* The empty queue and an idle writer fit any number of ids.
LEMMA FilableNothing ==
    ASSUME NEW last \in Nat
    PROVE  /\ NoItem \in Filable(last) /\ Fits({}, last)
           /\ JobFits(Idle, last) /\ JobFits(Creating, last)
  <1>1. NoItem \in Filable(last)
    BY DEF NoItem, Item, Filable, Status
  <1>2. Fits({}, last)
    BY DEF Fits, OneEach
  <1>3. Creating.does = "create"
    BY DEF Creating, Idle
  <1> QED
    BY <1>1, <1>2, <1>3, FieldsOfIdle, FieldsOfCreating DEF JobFits

\* A further id leaves the items of the earlier ones filable.
LEMMA FilableGrows ==
    ASSUME NEW last \in Nat, NEW more \in {last, last + 1}
    PROVE  Filable(last) \subseteq Filable(more)
  BY DEF Filable

\* So queues and writers that fit still fit after one.
LEMMA FitsGrows ==
    ASSUME NEW last \in Nat, NEW more \in {last, last + 1}
    PROVE  /\ \A q : Fits(q, last) => Fits(q, more)
           /\ \A j : JobFits(j, last) => JobFits(j, more)
  BY FilableGrows DEF Fits, JobFits

\* Stamping an item leaves one item under each id.
LEMMA StampedFits ==
    ASSUME NEW last \in Nat, NEW q, Fits(q, last), NEW i, NEW status \in Status
    PROVE  Fits(Stamped(q, i, status), last)
  <1> DEFINE new(x) == IF x.id = i THEN Stamp(x, status) ELSE x
  <1>1. Stamped(q, i, status) = {new(x) : x \in q}
    BY DEF Stamped
  <1>2. ASSUME NEW x \in q
        PROVE  new(x) \in Filable(last) /\ new(x).id = x.id
    <2>1. x \in Filable(last)
      BY DEF Fits
    <2> QED
      BY <2>1, FilableStamp
  <1>3. \A x, y \in q : new(x).id = new(y).id => x = y
    BY <1>2 DEF Fits, OneEach
  <1> HIDE DEF new
  <1>4. \A a, b \in {new(x) : x \in q} : a.id = b.id => a = b
    BY <1>3
  <1> QED
    BY <1>1, <1>2, <1>4 DEF Fits, OneEach

\* A new item has an id of its own.
LEMMA FiledFits ==
    ASSUME NEW last \in Nat, NEW q, Fits(q, last), NEW new \in Filable(last + 1),
           new.id = last + 1
    PROVE  Fits(q \cup {new}, last + 1)
  <1>1. \A x \in q : x \in Filable(last) /\ x.id \in 0..last
    BY DEF Fits, Filable
  <1>2. \A x \in q : x \in Filable(last + 1) /\ x.id # last + 1
    BY <1>1, FilableGrows
  <1> QED
    BY <1>2 DEF Fits, OneEach

\* A writer gets a new job.
LEMMA JobsFit ==
    ASSUME NEW w \in Writers, NEW r, QueueTypes, SealInv, job' = [job EXCEPT ![w] = r],
           ids' \in {ids, ids + 1}, JobFits(r, ids')
    PROVE  \A u \in Writers : JobFits(job'[u], ids')
  <1>1. ids \in Nat /\ \A u \in Writers : JobFits(job[u], ids)
    BY DEF QueueTypes, SealInv, QueueInv, Written, Sound
  <1>2. job = [u \in Writers |-> job[u]]
    BY DEF SealInv, QueueInv, Written, Jobs
  <1>3. \A u \in Writers : job'[u] = IF u = w THEN r ELSE job[u]
    BY <1>2
  <1> QED
    BY <1>1, <1>3, FitsGrows

\* Queue, decisions and backup stay while ids are given out.
LEMMA RestFits ==
    ASSUME QueueTypes, SealInv, ids' \in {ids, ids + 1},
           UNCHANGED <<queue, decisions, held>>,
           \A u \in Writers : JobFits(job'[u], ids')
    PROVE  QueueTypes'
  <1>1. ids \in Nat
    BY DEF SealInv, QueueInv, Written, Sound
  <1>2. Filable(ids) \subseteq Filable(ids') /\ \A q : Fits(q, ids) => Fits(q, ids')
    BY <1>1, FilableGrows, FitsGrows
  <1> QED
    BY <1>2 DEF QueueTypes

\* create_request: the new item has an id of its own, in the copy and in the queue.
LEMMA CreateTypes ==
    ASSUME QueueTypes, SealInv, NEW w \in Writers,
           NEW names \in Named \cup SUBSET Requestable,
           NEW status \in Status, NEW stamp \in Status,
           CreateRequest(w, names, status, stamp), held' = held
    PROVE  QueueTypes'
  <1> DEFINE new == Filed(ids', names, status)
             copy == queue \cup {new}
             late == IF stamp = "none" THEN NoItem ELSE Stamp(new, stamp)
             r == Saving(copy, NoItem, late)
  <1>1. /\ ids \in Nat /\ ids' = ids + 1 /\ job' = [job EXCEPT ![w] = r]
        /\ UNCHANGED <<queue, decisions>>
    BY DEF CreateRequest, SealInv, QueueInv, Written, Sound
  <1>2. new \in Filable(ids') /\ new.id = ids'
    <2>1. PICK last : last = ids'
      OBVIOUS
    <2>2. last \in Nat /\ last \in 0..last
      BY <1>1, <2>1
    <2>3. Filed(last, names, status) \in Filable(last)
      BY <2>2, FilableItem
    <2> QED
      BY <2>1, <2>3, FieldsOfFiled
  <1>3. Fits(copy, ids')
    BY <1>1, <1>2, FiledFits DEF QueueTypes
  <1>4. late \in Filable(ids') /\ NoItem \in Filable(ids')
    BY <1>1, <1>2, FilableStamp, FilableNothing
  <1>5. r.copy = copy /\ r.file = NoItem /\ r.stamp = late /\ r.does # "nothing"
    BY FieldsOfJob DEF Saving
  <1> HIDE DEF copy, late, r
  <1>6. JobFits(r, ids')
    BY <1>3, <1>4, <1>5 DEF JobFits
  <1> QED
    BY <1>1, <1>6, JobsFit, RestFits

\* A copy of the queue with one status changed still has its types.
LEMMA StampTypes ==
    ASSUME QueueTypes, SealInv, NEW w \in Writers, NEW i, NEW status \in Status,
           NEW file \in Filable(ids),
           job' = [job EXCEPT ![w] = Saving(Stamped(queue, i, status), file, NoItem)],
           UNCHANGED <<queue, decisions, ids, held>>
    PROVE  QueueTypes'
  <1> DEFINE copy == Stamped(queue, i, status)
             r == Saving(copy, file, NoItem)
  <1>1. ids \in Nat
    BY DEF SealInv, QueueInv, Written, Sound
  <1>2. Fits(copy, ids) /\ NoItem \in Filable(ids)
    BY <1>1, StampedFits, FilableNothing DEF QueueTypes
  <1>3. r.copy = copy /\ r.file = file /\ r.stamp = NoItem /\ r.does # "nothing"
    BY FieldsOfJob DEF Saving
  <1>4. job' = [job EXCEPT ![w] = r]
    OBVIOUS
  <1> HIDE DEF copy, r
  <1>5. JobFits(r, ids')
    BY <1>2, <1>3 DEF JobFits
  <1> QED
    BY <1>4, <1>5, JobsFit, RestFits

\* record_decision stamps an item of the queue and files the decision.
LEMMA RecordTypes ==
    ASSUME QueueTypes, SealInv, NEW w \in Writers, NEW i, NEW status \in Status,
           RecordDecision(w, i, status), held' = held
    PROVE  QueueTypes'
  <1>1. PICK item \in queue :
            /\ item.id = i
            /\ job' = [job EXCEPT ![w] = Saving(Stamped(queue, i, status),
                                                Stamp(item, status), NoItem)]
    BY DEF RecordDecision
  <1>2. PICK file : file = Stamp(item, status)
    OBVIOUS
  <1>3. item \in Filable(ids)
    BY DEF QueueTypes, Fits
  <1>4. file \in Filable(ids)
    BY <1>2, <1>3, FilableStamp
  <1> QED
    BY <1>1, <1>2, <1>4, StampTypes DEF RecordDecision

\* What is stamped after a reload is the item created before it.
LEMMA ReloadTypes ==
    ASSUME QueueTypes, SealInv, NEW w \in Writers, ReloadAndStamp(w), held' = held
    PROVE  QueueTypes'
  <1>1. PICK i, status : i = job[w].stamp.id /\ status = job[w].stamp.status
    OBVIOUS
  <1>2. status \in Status
    BY <1>1 DEF QueueTypes, JobFits, Filable
  <1>3. NoItem \in Filable(ids)
    BY FilableNothing DEF SealInv, QueueInv, Written, Sound
  <1>4. /\ job' = [job EXCEPT ![w] = Saving(Stamped(queue, i, status), NoItem, NoItem)]
        /\ UNCHANGED <<queue, decisions, ids>>
    BY <1>1 DEF ReloadAndStamp
  <1> QED
    BY <1>2, <1>3, <1>4, StampTypes

\* Saving puts a copy that fits in the place of the queue.
LEMMA SaveTypes ==
    ASSUME QueueTypes, SealInv, NEW w \in Writers, SaveQueue(w), held' = held
    PROVE  QueueTypes'
  <1> DEFINE old == job[w]
             r == IF old.file # NoItem THEN [old EXCEPT !.does = "decide"]
                  ELSE IF old.stamp # NoItem THEN [old EXCEPT !.does = "reload"]
                  ELSE Idle
  <1>1. /\ queue' = old.copy /\ ids' = ids /\ job' = [job EXCEPT ![w] = r]
        /\ decisions' = decisions
    BY DEF SaveQueue
  <1>2. ids \in Nat /\ JobFits(old, ids)
    BY DEF QueueTypes, SealInv, QueueInv, Written, Sound
  <1>3. JobFits(r, ids)
    <2>1. old = [does |-> old.does, copy |-> old.copy, file |-> old.file,
                 stamp |-> old.stamp]
      BY DEF SealInv, QueueInv, Written, Jobs, IsJob
    <2>2. CASE r = Idle
      BY <1>2, <2>2, FilableNothing
    <2>3. ASSUME NEW does, does # "nothing", r = [old EXCEPT !.does = does]
          PROVE  JobFits(r, ids)
      <3>1. r = [does |-> does, copy |-> old.copy, file |-> old.file,
                 stamp |-> old.stamp]
        BY <2>1, <2>3
      <3>2. r.does = does /\ r.copy = old.copy /\ r.file = old.file
            /\ r.stamp = old.stamp
        BY <3>1
      <3> HIDE DEF old, r
      <3> QED
        BY <1>2, <2>3, <3>2 DEF JobFits
    <2> QED
      BY <2>2, <2>3
  <1> HIDE DEF r
  <1>4. \A u \in Writers : JobFits(job'[u], ids')
    BY <1>1, <1>3, JobsFit
  <1>5. Fits(queue', ids')
    BY <1>1, <1>2 DEF JobFits
  <1> QED
    BY <1>1, <1>4, <1>5 DEF QueueTypes

\* A writer that holds nothing afterwards, and what it wrote.
LEMMA EmptyTypes ==
    ASSUME QueueTypes, SealInv, NEW w \in Writers, NEW r \in {Idle, Creating},
           job' = [job EXCEPT ![w] = r], queue' \in {queue, {}}, ids' = ids,
           decisions' \subseteq decisions \cup {job[w].file}, held' = held
    PROVE  QueueTypes'
  <1>1. ids \in Nat
    BY DEF SealInv, QueueInv, Written, Sound
  <1>2. JobFits(r, ids') /\ Fits({}, ids)
    BY <1>1, FilableNothing
  <1>3. \A u \in Writers : JobFits(job'[u], ids')
    BY <1>2, JobsFit
  <1>4. decisions' \subseteq Filable(ids)
    BY DEF QueueTypes, JobFits
  <1> QED
    BY <1>2, <1>3, <1>4 DEF QueueTypes

\* Whatever a writer does next.
LEMMA WriterTypes ==
    ASSUME QueueTypes, SealInv, NEW w \in Writers, held' = held,
           \/ OpensGate(w) \/ CreatesQueue(w) \/ SaveQueue(w)
           \/ WriteDecision(w) \/ ReloadAndStamp(w)
    PROVE  QueueTypes'
  <1>1. CASE OpensGate(w)
    <2>1. CASE job' = job
      BY <1>1, <2>1 DEF OpensGate, QueueTypes
    <2>2. CASE job' = [job EXCEPT ![w] = Creating]
      BY <1>1, <2>2, EmptyTypes DEF OpensGate
    <2> QED
      BY <1>1, <2>1, <2>2 DEF OpensGate
  <1>2. CASE CreatesQueue(w)
    BY <1>2, EmptyTypes DEF CreatesQueue
  <1>3. CASE SaveQueue(w)
    BY <1>3, SaveTypes
  <1>4. CASE WriteDecision(w)
    <2>1. decisions' \subseteq decisions \cup {job[w].file}
      BY <1>4 DEF WriteDecision, Filing
    <2> QED
      BY <1>4, <2>1, EmptyTypes DEF WriteDecision
  <1>5. CASE ReloadAndStamp(w)
    BY <1>5, ReloadTypes
  <1> QED
    BY <1>1, <1>2, <1>3, <1>4, <1>5

\* Less of the queue or of the backup, the one for the other, or the mock.
LEMMA ExchangeTypes ==
    ASSUME QueueTypes, SealInv, UNCHANGED <<job, ids>>,
           queue' \subseteq queue \/ queue' \subseteq held.queue,
           held'.queue \in {held.queue, queue, {}},
           decisions' \cup held'.decisions
               \subseteq decisions \cup held.decisions \cup {MockDecision}
    PROVE  QueueTypes'
  <1>1. ids \in Nat
    BY DEF SealInv, QueueInv, Written, Sound
  <1>2. \A q, s : Fits(q, ids) /\ s \subseteq q => Fits(s, ids)
    BY DEF Fits, OneEach
  <1>3. Fits({}, ids)
    BY <1>1, FilableNothing
  <1>4. MockDecision \in Filable(ids)
    <2>1. "PR16" \in Requestable /\ "APPROVED" \in Status /\ 0 \in 0..ids
      BY <1>1 DEF Requestable, Phases, Status
    <2> QED
      BY <1>1, <2>1 DEF MockDecision, Item, Filable
  <1>5. Fits(queue', ids) /\ Fits(held'.queue, ids)
    BY <1>2, <1>3 DEF QueueTypes
  <1>6. decisions' \cup held'.decisions \subseteq Filable(ids)
    BY <1>4 DEF QueueTypes
  <1> QED
    BY <1>5, <1>6 DEF QueueTypes

\* Jobs are lost, and the queue with them.
LEMMA LostTypes ==
    ASSUME QueueTypes, SealInv, UNCHANGED <<decisions, ids>>, queue' \in {queue, {}},
           \A w \in Writers : job'[w] \in {job[w], Idle}, held' \in {held, Nothing}
    PROVE  QueueTypes'
  <1>1. ids \in Nat
    BY DEF SealInv, QueueInv, Written, Sound
  <1>2. Fits({}, ids) /\ JobFits(Idle, ids)
    BY <1>1, FilableNothing
  <1>3. Nothing.queue = {} /\ Nothing.decisions = {}
    BY DEF Nothing
  <1> QED
    BY <1>2, <1>3 DEF QueueTypes

\* The endpoints and their threads.
LEMMA OrchestratorQueueTypes ==
    ASSUME QueueTypes, SealInv, OrchestratorNext, held' = held
    PROVE  QueueTypes'
  <1>0. ids \in Nat /\ NoItem \in Filable(ids)
    BY FilableNothing DEF SealInv, QueueInv, Written, Sound
  <1>1. ASSUME NEW t \in Thread, RequestEndpoint(t)
        PROVE  QueueTypes'
    <2>1. PICK names \in Named, status \in {"PENDING", "FAIL_CLOSED"} :
              CreateRequest(t, names, status, "none")
      BY <1>1 DEF RequestEndpoint
    <2>2. t \in Writers /\ status \in Status /\ "none" \in Status
      BY DEF Writers, Status
    <2> QED
      BY <2>1, <2>2, CreateTypes
  <1>2. ASSUME NEW t \in Thread, DecisionEndpoint(t)
        PROVE  QueueTypes'
    <2>1. PICK item \in queue, status \in Verdicts :
              RecordDecision(t, item.id, status)
      BY <1>2 DEF DecisionEndpoint
    <2>2. t \in Writers /\ status \in Status
      BY DEF Writers, Status
    <2>3. PICK i : i = item.id
      OBVIOUS
    <2> QED
      BY <2>1, <2>2, <2>3, RecordTypes
  <1>3. CASE RequestExecution
    <2>1. PICK phase \in Asked, status \in {"APPROVED", "PENDING"} :
              \/ \E item \in Naming(queue, phase) :
                     /\ job' = [job EXCEPT !["loop"] =
                                   Saving(Stamped(queue, item.id, status),
                                          NoItem, NoItem)]
                     /\ UNCHANGED <<queue, decisions, ids>>
              \/ CreateRequest("loop", {phase}, "PENDING", status)
      BY <1>3 DEF RequestExecution
    <2>2. "loop" \in Writers /\ status \in Status /\ "PENDING" \in Status
      BY DEF Writers, Status
    <2>3. CASE CreateRequest("loop", {phase}, "PENDING", status)
      <3>1. PICK names : names = {phase}
        OBVIOUS
      <3>2. names \in Named \cup SUBSET Requestable
        BY <3>1, AskedAssumption
      <3> QED
        BY <2>2, <2>3, <3>1, <3>2, CreateTypes
    <2>4. ASSUME NEW item \in Naming(queue, phase),
                 job' = [job EXCEPT !["loop"] =
                            Saving(Stamped(queue, item.id, status), NoItem, NoItem)],
                 UNCHANGED <<queue, decisions, ids>>
          PROVE  QueueTypes'
      <3>1. PICK i : i = item.id
        OBVIOUS
      <3>2. job' = [job EXCEPT !["loop"] =
                       Saving(Stamped(queue, i, status), NoItem, NoItem)]
        BY <2>4, <3>1
      <3> QED
        BY <1>0, <2>2, <2>4, <3>2, StampTypes
    <2> QED
      BY <2>1, <2>3, <2>4
  <1>4. ASSUME NEW w \in Writers, ServerWriter(w)
        PROVE  QueueTypes'
    BY <1>4, WriterTypes DEF ServerWriter
  <1>5. CASE ServerStops
    <2>1. job' = [w \in Writers |-> IF w = "contract" THEN job[w] ELSE Idle]
      BY <1>5 DEF ServerStops
    <2>2. \A w \in Writers : job'[w] \in {job[w], Idle}
      BY <2>1
    <2> QED
      BY <1>5, <2>2, LostTypes DEF ServerStops
  <1>6. CASE UNCHANGED gateVars
    <2>1. UNCHANGED <<queue, decisions, job, ids>>
      BY <1>6 DEF gateVars
    <2> QED
      BY <2>1, LostTypes
  <1>7. CASE ExecutePhase
    BY <1>6, <1>7 DEF ExecutePhase
  <1>8. CASE OperatorRunsBuilder
    BY <1>6, <1>8 DEF OperatorRunsBuilder
  <1>9. ASSUME NEW b \in Builders, BuilderSteps(b) \/ BuilderKilled(b)
        PROVE  QueueTypes'
    BY <1>6, <1>9 DEF BuilderSteps, BuilderKilled
  <1> QED
    BY <1>1, <1>2, <1>3, <1>4, <1>5, <1>7, <1>8, <1>9 DEF OrchestratorNext

\* The approval gate's contract.
LEMMA GateQueueTypes ==
    ASSUME QueueTypes, SealInv, GateContract
    PROVE  QueueTypes'
  <1>0. "contract" \in Writers /\ {"none", "PENDING", "FAIL_CLOSED", "APPROVED"} \subseteq Status
    BY DEF Writers, Status
  <1>q. ASSUME UNCHANGED <<queue, decisions, job, ids>>, held' \in {held, Nothing}
        PROVE  QueueTypes'
    BY <1>q, LostTypes
  <1>c. ASSUME NEW status \in Status, CreateRequest("contract", {}, status, "none"),
               held' = held
        PROVE  QueueTypes'
    <2>1. PICK names \in Named \cup SUBSET Requestable : names = {}
      OBVIOUS
    <2> QED
      BY <1>0, <1>c, <2>1, CreateTypes
  <1>r. ASSUME NEW i, RecordDecision("contract", i, "APPROVED"), held' = held
        PROVE  QueueTypes'
    BY <1>0, <1>r, RecordTypes
  <1>1. CASE GateCleansQueue
    BY <1>1, ExchangeTypes DEF GateCleansQueue, gateFrame
  <1>1a. CASE GateOpens
    BY <1>0, <1>1a, EmptyTypes DEF GateOpens, gateFrame
  <1>2. CASE GateRequests
    BY <1>0, <1>2, <1>c DEF GateRequests, gateFrame
  <1>3. CASE GateLooks
    BY <1>3, <1>q DEF GateLooks, gateFrame, gateVars
  <1>4. CASE GateApproves
    BY <1>4, <1>q, <1>r DEF GateApproves, gateFrame, gateVars
  <1>5. CASE GateRequestsBypass
    BY <1>0, <1>5, <1>c DEF GateRequestsBypass, gateFrame
  <1>6. CASE GateIsRefused
    BY <1>6, <1>q, <1>r DEF GateIsRefused, gateFrame, gateVars
  <1>7. CASE GateReadsTelemetry
    BY <1>7, <1>q DEF GateReadsTelemetry, gateFrame, gateVars
  <1>8. CASE GateEnds
    BY <1>8, <1>q DEF GateEnds, Leaves, orchestratorVars
  <1>9. CASE ContractWrites
    BY <1>0, <1>9, WriterTypes DEF ContractWrites, chainVars
  <1> QED
    BY <1>1, <1>1a, <1>2, <1>3, <1>4, <1>5, <1>6, <1>7, <1>8, <1>9 DEF GateContract

\* The builder's contract.
LEMMA TestQueueTypes ==
    ASSUME QueueTypes, AdvanceInv, SealInv, BuilderContract
    PROVE  QueueTypes'
  <1>0. HeldIsRecord
    BY DEF AdvanceInv
  <1>q. ASSUME UNCHANGED <<queue, decisions, job, ids>>, held' \in {held, Nothing}
        PROVE  QueueTypes'
    BY <1>q, LostTypes
  <1>1. CASE KeepsRegistry
    <2>1. held' = [registry |-> held'.registry, current |-> held'.current,
                   listed |-> held'.listed, decisions |-> held.decisions,
                   queue |-> held.queue]
      BY <1>0, <1>1 DEF KeepsRegistry, HeldIsRecord
    <2>2. held'.queue = held.queue /\ held'.decisions = held.decisions
      BY <2>1
    <2> QED
      BY <1>1, <2>2, ExchangeTypes DEF KeepsRegistry, Keeps
  <1>2. CASE KeepsState
    <2>1. held' = [registry |-> held'.registry, current |-> held'.current,
                   listed |-> held'.listed, decisions |-> held.decisions,
                   queue |-> held.queue]
      BY <1>0, <1>2 DEF KeepsState, HeldIsRecord
    <2>2. held'.queue = held.queue /\ held'.decisions = held.decisions
      BY <2>1
    <2> QED
      BY <1>2, <2>2, ExchangeTypes DEF KeepsState, Keeps
  <1>3. CASE HidesDecision
    <2>1. PICK d \in decisions :
              /\ held' = [held EXCEPT !.listed = @ \ {d.id},
                                     !.decisions = @ \cup {d}]
              /\ decisions' = decisions \ {d}
      BY <1>3 DEF HidesDecision
    <2>2. held' = [registry |-> held.registry, current |-> held.current,
                   listed |-> held'.listed,
                   decisions |-> held.decisions \cup {d}, queue |-> held.queue]
      BY <1>0, <2>1 DEF HeldIsRecord
    <2>3. held'.queue = held.queue /\ held'.decisions = held.decisions \cup {d}
      BY <2>2
    <2> QED
      BY <1>3, <2>1, <2>3, ExchangeTypes DEF HidesDecision, Keeps
  <1>4. CASE KeepsQueue
    <2>1. held' = [registry |-> held'.registry, current |-> held'.current,
                   listed |-> held'.listed, decisions |-> held.decisions,
                   queue |-> queue]
      BY <1>0, <1>4 DEF KeepsQueue, HeldIsRecord
    <2>2. held'.queue = queue /\ held'.decisions = held.decisions
      BY <2>1
    <2> QED
      BY <1>4, <2>2, ExchangeTypes DEF KeepsQueue, Keeps
  <1>5. CASE FiltersQueue
    BY <1>5, ExchangeTypes DEF FiltersQueue, Keeps
  <1>6. CASE RewindsRegistry
    BY <1>6, <1>q DEF RewindsRegistry, Keeps
  <1>7. CASE RunsUnapproved
    BY <1>7, <1>q DEF RunsUnapproved, Keeps
  <1>8. CASE SeesPending
    BY <1>8, <1>q DEF SeesPending, orchestratorVars
  <1>9. CASE WritesMock
    <2>1. decisions' \subseteq decisions \cup {MockDecision}
      BY <1>9 DEF WritesMock, Filing
    <2> QED
      BY <1>9, <2>1, ExchangeTypes DEF WritesMock, Keeps
  <1>10. CASE RunsApproved
    BY <1>10, <1>q DEF RunsApproved, Keeps
  <1>11. CASE SeesDone
    BY <1>11, <1>q DEF SeesDone, orchestratorVars
  <1>12. CASE RemovesMock
    BY <1>12, ExchangeTypes DEF RemovesMock, Keeps
  <1>13. CASE RestoresDecision
    <2>1. PICK d \in held.decisions :
              /\ held' = [held EXCEPT !.decisions = @ \ {d}]
              /\ decisions' = Filing(decisions, d)
      BY <1>13 DEF RestoresDecision
    <2>2. held' = [registry |-> held.registry, current |-> held.current,
                   listed |-> held.listed,
                   decisions |-> held.decisions \ {d}, queue |-> held.queue]
      BY <1>0, <2>1 DEF HeldIsRecord
    <2>3. held'.queue = held.queue /\ held'.decisions \subseteq held.decisions
      BY <2>2
    <2>4. decisions' \subseteq decisions \cup held.decisions
      BY <2>1 DEF Filing
    <2> QED
      BY <1>13, <2>3, <2>4, ExchangeTypes DEF RestoresDecision, Keeps
  <1>14. CASE DecisionsAreBack
    BY <1>14, <1>q DEF DecisionsAreBack, Keeps
  <1>15. CASE RestoresQueue
    BY <1>15, ExchangeTypes DEF RestoresQueue, Keeps
  <1>16. CASE RestoresRegistry
    BY <1>16, <1>q DEF RestoresRegistry, Keeps
  <1>17. CASE RestoresState
    BY <1>17, <1>q DEF RestoresState, Keeps
  <1>18. CASE CleansEvidence
    BY <1>18, <1>q DEF CleansEvidence, Keeps
  <1>19. CASE TestEnds
    BY <1>19, <1>q DEF TestEnds, Leaves, orchestratorVars
  <1> QED
    BY <1>1, <1>2, <1>3, <1>4, <1>5, <1>6, <1>7, <1>8, <1>9, <1>10, <1>11,
       <1>12, <1>13, <1>14, <1>15, <1>16, <1>17, <1>18, <1>19
       DEF BuilderContract

\* Every step keeps what the queue, its copies and the decisions hold.
LEMMA QueueTypesStep ==
    QueueTypes /\ AdvanceInv /\ SealInv /\ [Next]_vars => QueueTypes'
  <1> SUFFICES ASSUME QueueTypes, AdvanceInv, SealInv, [Next]_vars
               PROVE  QueueTypes'
    OBVIOUS
  <1>q. ASSUME UNCHANGED <<queue, decisions, job, ids>>, held' \in {held, Nothing}
        PROVE  QueueTypes'
    BY <1>q, LostTypes
  <1>1. CASE OrchestratorNext /\ UNCHANGED chainVars
    BY <1>1, OrchestratorQueueTypes DEF chainVars
  <1>2. CASE ChainStarts
    BY <1>2, <1>q DEF ChainStarts, gateVars
  <1>3. CASE Compares
    BY <1>3, <1>q DEF Compares, Leaves, orchestratorVars
  <1>4. CASE ChainKilled
    <2>1. job = [w \in Writers |-> job[w]] /\ job' = [job EXCEPT !["contract"] = Idle]
      BY <1>4 DEF ChainKilled, SealInv, QueueInv, Written, Jobs
    <2>2. \A w \in Writers : job'[w] \in {job[w], Idle}
      BY <2>1
    <2> QED
      BY <1>4, <2>2, LostTypes DEF ChainKilled
  <1>5. CASE GateContract
    BY <1>5, GateQueueTypes
  <1>6. CASE BuilderContract
    BY <1>6, TestQueueTypes
  <1>7. CASE Edit
    BY <1>7, <1>q DEF Edit, gateVars
  <1>8. CASE UNCHANGED vars
    BY <1>8, <1>q DEF vars, orchestratorVars, chainVars
  <1> QED
    BY <1>1, <1>2, <1>3, <1>4, <1>5, <1>6, <1>7, <1>8 DEF Next

\* The link goes on; a job of the contract may have ended.
LEMMA ChainQuiet ==
    ASSUME ChainTypes, UNCHANGED <<damage, link, verdict, held>>,
           job'["contract"] \in {job["contract"], Idle}
    PROVE  ChainTypes'
  BY DEF ChainTypes, Acts

\* One of the links that act goes on.
LEMMA ChainActing ==
    ASSUME ChainTypes, UNCHANGED <<damage, link, verdict>>,
           \/ Acts(ApprovalGateFiles) /\ held' = held
           \/ Acts(BuilderRunnerFiles) /\ job' = job
    PROVE  ChainTypes'
  <1>1. Acts(ApprovalGateFiles)' <=> Acts(ApprovalGateFiles)
    BY DEF Acts
  <1>2. Acts(BuilderRunnerFiles)' <=> Acts(BuilderRunnerFiles)
    BY DEF Acts
  <1>3. ~ (Acts(ApprovalGateFiles) /\ Acts(BuilderRunnerFiles))
    BY TwoAct DEF Acts
  <1> QED
    BY <1>1, <1>2, <1>3 DEF ChainTypes

\* A link is left, its job and its backup are done with.
LEMMA ChainLeaving ==
    ASSUME ChainTypes, NEW red, Leaves(red), damage' = damage,
           job'["contract"] = Idle
    PROVE  ChainTypes'
  <1>1. verdict' \in {"none", "green", "red", "killed"}
    BY DEF Leaves, ChainTypes
  <1>2. held' = Nothing
    BY DEF Leaves
  <1> QED
    BY <1>1, <1>2 DEF ChainTypes

\* The server and its threads touch no job of the contract.
LEMMA ContractsJobStays ==
    ASSUME SealInv, OrchestratorNext
    PROVE  job'["contract"] = job["contract"]
  <1>0. "contract" \in Writers /\ job = [w \in Writers |-> job[w]]
    BY DEF Writers, SealInv, QueueInv, Written, Jobs
  <1>1. ASSUME NEW w, w # "contract", NEW r, job' = [job EXCEPT ![w] = r]
        PROVE  job'["contract"] = job["contract"]
    BY <1>0, <1>1
  <1>2. ASSUME NEW t \in Thread
        PROVE  t # "contract"
    BY ThreadAssumption
  <1>3. ASSUME NEW t \in Thread, RequestEndpoint(t)
        PROVE  job'["contract"] = job["contract"]
    <2>1. PICK r : job' = [job EXCEPT ![t] = r]
      BY <1>3 DEF RequestEndpoint, CreateRequest
    <2> QED
      BY <1>1, <1>2, <2>1
  <1>4. ASSUME NEW t \in Thread, DecisionEndpoint(t)
        PROVE  job'["contract"] = job["contract"]
    <2>1. PICK r : job' = [job EXCEPT ![t] = r]
      BY <1>4 DEF DecisionEndpoint, RecordDecision
    <2> QED
      BY <1>1, <1>2, <2>1
  <1>5. CASE RequestExecution
    <2>1. PICK r : job' = [job EXCEPT !["loop"] = r]
      BY <1>5 DEF RequestExecution, CreateRequest
    <2> QED
      BY <1>1, <2>1
  <1>6. ASSUME NEW w \in Writers \ {"contract"}, ServerWriter(w)
        PROVE  job'["contract"] = job["contract"]
    <2>1. \/ job' = job
          \/ \E r : job' = [job EXCEPT ![w] = r]
      BY <1>6 DEF ServerWriter, OpensGate, CreatesQueue, SaveQueue,
         WriteDecision, ReloadAndStamp
    <2> QED
      BY <1>1, <1>6, <2>1
  <1>7. CASE ServerStops
    BY <1>0, <1>7 DEF ServerStops
  <1>8. CASE ExecutePhase
    BY <1>8 DEF ExecutePhase, gateVars
  <1>9. CASE OperatorRunsBuilder
    BY <1>9 DEF OperatorRunsBuilder, gateVars
  <1>10. ASSUME NEW b \in Builders, BuilderSteps(b) \/ BuilderKilled(b)
         PROVE  job'["contract"] = job["contract"]
    BY <1>10 DEF BuilderSteps, BuilderKilled, gateVars
  <1> QED
    BY <1>3, <1>4, <1>5, <1>6, <1>7, <1>8, <1>9, <1>10 DEF OrchestratorNext

\* The approval gate's contract.
LEMMA GateChainTypes ==
    ASSUME ChainTypes, QueueTypes, GateContract
    PROVE  ChainTypes'
  <1>0. ASSUME Acts(ApprovalGateFiles), UNCHANGED <<damage, link, verdict, held>>
        PROVE  ChainTypes'
    BY <1>0, ChainActing
  <1>1. CASE GateCleansQueue
    BY <1>0, <1>1 DEF GateCleansQueue, gateFrame, Goes, Gate, Running, Acts
  <1>1a. CASE GateOpens
    BY <1>0, <1>1a DEF GateOpens, gateFrame, Gate, Running, Acts
  <1>2. CASE GateRequests
    BY <1>0, <1>2 DEF GateRequests, gateFrame, Goes, Gate, Running, Acts
  <1>3. CASE GateLooks
    BY <1>0, <1>3 DEF GateLooks, gateFrame, Goes, Gate, Running, Acts
  <1>4. CASE GateApproves
    BY <1>0, <1>4 DEF GateApproves, gateFrame, Goes, Gate, Running, Acts
  <1>5. CASE GateRequestsBypass
    BY <1>0, <1>5 DEF GateRequestsBypass, gateFrame, Goes, Gate, Running, Acts
  <1>6. CASE GateIsRefused
    BY <1>0, <1>6 DEF GateIsRefused, gateFrame, Goes, Gate, Running, Acts
  <1>7. CASE GateReadsTelemetry
    BY <1>0, <1>7 DEF GateReadsTelemetry, gateFrame, Goes, Gate, Running, Acts
  <1>8. CASE GateEnds
    <2>1. job["contract"].does = "nothing" /\ "contract" \in Writers
      BY <1>8 DEF GateEnds, Gate, Load, Free, Writers
    <2>2. job["contract"] = Idle
      BY <2>1 DEF QueueTypes, JobFits
    <2> QED
      BY <1>8, <2>2, ChainLeaving DEF GateEnds, orchestratorVars
  <1>9. CASE ContractWrites
    <2>1. job["contract"] # Idle
      BY <1>9 DEF ContractWrites, CreatesQueue, SaveQueue, WriteDecision, Idle
    <2>2. Acts(ApprovalGateFiles)
      BY <2>1 DEF ChainTypes
    <2> QED
      BY <1>0, <1>9, <2>2 DEF ContractWrites, chainVars
  <1> QED
    BY <1>1, <1>1a, <1>2, <1>3, <1>4, <1>5, <1>6, <1>7, <1>8, <1>9 DEF GateContract

\* The builder's contract, which has no job.
LEMMA TestChainTypes ==
    ASSUME ChainTypes, BuilderContract
    PROVE  ChainTypes'
  <1>0. ASSUME Acts(BuilderRunnerFiles), UNCHANGED <<damage, link, verdict, job>>
        PROVE  ChainTypes'
    BY <1>0, ChainActing
  <1>1. CASE KeepsRegistry
    BY <1>0, <1>1 DEF KeepsRegistry, Keeps, Test, Running, Acts, Goes
  <1>2. CASE KeepsState
    BY <1>0, <1>2 DEF KeepsState, Keeps, Test, Running, Acts, Goes
  <1>3. CASE HidesDecision
    BY <1>0, <1>3 DEF HidesDecision, Keeps, Test, Running, Acts, Goes
  <1>4. CASE KeepsQueue
    BY <1>0, <1>4 DEF KeepsQueue, Keeps, Test, Running, Acts, Goes
  <1>5. CASE FiltersQueue
    BY <1>0, <1>5 DEF FiltersQueue, Keeps, Test, Running, Acts, Goes
  <1>6. CASE RewindsRegistry
    BY <1>0, <1>6 DEF RewindsRegistry, Keeps, Test, Running, Acts, Goes
  <1>7. CASE RunsUnapproved
    BY <1>0, <1>7 DEF RunsUnapproved, Keeps, Test, Running, Acts, Goes
  <1>8. CASE SeesPending
    BY <1>0, <1>8 DEF SeesPending, orchestratorVars, Test, Running, Acts, Goes
  <1>9. CASE WritesMock
    BY <1>0, <1>9 DEF WritesMock, Keeps, Test, Running, Acts, Goes
  <1>10. CASE RunsApproved
    BY <1>0, <1>10 DEF RunsApproved, Keeps, Test, Running, Acts, Goes
  <1>11. CASE SeesDone
    BY <1>0, <1>11 DEF SeesDone, orchestratorVars, Test, Running, Acts, Goes
  <1>12. CASE RemovesMock
    BY <1>0, <1>12 DEF RemovesMock, Keeps, Test, Running, Acts, Goes
  <1>13. CASE RestoresDecision
    BY <1>0, <1>13 DEF RestoresDecision, Keeps, Test, Running, Acts, Goes
  <1>14. CASE DecisionsAreBack
    BY <1>0, <1>14 DEF DecisionsAreBack, Keeps, Test, Running, Acts, Goes
  <1>15. CASE RestoresQueue
    BY <1>0, <1>15 DEF RestoresQueue, Keeps, Test, Running, Acts, Goes
  <1>16. CASE RestoresRegistry
    BY <1>0, <1>16 DEF RestoresRegistry, Keeps, Test, Running, Acts, Goes
  <1>17. CASE RestoresState
    BY <1>0, <1>17 DEF RestoresState, Keeps, Test, Running, Acts, Goes
  <1>18. CASE CleansEvidence
    BY <1>0, <1>18 DEF CleansEvidence, Keeps, Test, Running, Acts, Goes
  <1>19. CASE TestEnds
    <2>1. PICK red : red = (failed \/ Notices(BuilderRunnerFiles))
      OBVIOUS
    <2>2. Acts(BuilderRunnerFiles) /\ Leaves(red) /\ UNCHANGED <<damage, job>>
      BY <1>19, <2>1 DEF TestEnds, Test, Running, Acts, orchestratorVars
    <2>3. job'["contract"] = Idle
      BY <2>2, TwoAct DEF ChainTypes, Acts
    <2> QED
      BY <2>2, <2>3, ChainLeaving
  <1> QED
    BY <1>1, <1>2, <1>3, <1>4, <1>5, <1>6, <1>7, <1>8, <1>9, <1>10, <1>11,
       <1>12, <1>13, <1>14, <1>15, <1>16, <1>17, <1>18, <1>19
       DEF BuilderContract

\* Every step keeps the chain's own variables to their values.
LEMMA ChainTypesStep ==
    ChainTypes /\ QueueTypes /\ SealInv /\ [Next]_vars => ChainTypes'
  <1> SUFFICES ASSUME ChainTypes, QueueTypes, SealInv, [Next]_vars
               PROVE  ChainTypes'
    OBVIOUS
  <1>1. CASE OrchestratorNext /\ UNCHANGED chainVars
    <2>1. damage' = damage
      BY <1>1 DEF OrchestratorNext, RequestEndpoint, DecisionEndpoint,
         RequestExecution, ServerWriter, ServerStops, ExecutePhase,
         OperatorRunsBuilder, BuilderSteps, BuilderKilled
    <2> QED
      BY <1>1, <2>1, ContractsJobStays, ChainQuiet DEF chainVars
  <1>2. CASE ChainStarts
    <2>1. job["contract"] = Idle /\ held = Nothing
      BY <1>2 DEF ChainStarts, ChainTypes, Acts
    <2>2. UNCHANGED <<job, held, damage>> /\ verdict' = "none"
      BY <1>2 DEF ChainStarts, gateVars
    <2> QED
      BY <2>1, <2>2 DEF ChainTypes
  <1>3. CASE Compares
    <2>1. job["contract"] = Idle
      BY <1>3 DEF Compares, ChainTypes, Acts
    <2>2. Leaves(Notices(FullChain[link])) /\ UNCHANGED <<job, damage>>
      BY <1>3 DEF Compares, orchestratorVars
    <2> QED
      BY <2>1, <2>2, ChainLeaving
  <1>4. CASE ChainKilled
    <2>1. job'["contract"] = Idle
      BY <1>4 DEF ChainKilled, SealInv, QueueInv, Written, Jobs, Writers
    <2>2. held' = Nothing /\ damage' = damage /\ verdict' = "killed"
      BY <1>4 DEF ChainKilled
    <2> QED
      BY <2>1, <2>2 DEF ChainTypes
  <1>5. CASE GateContract
    BY <1>5, GateChainTypes
  <1>6. CASE BuilderContract
    BY <1>6, TestChainTypes
  <1>7. CASE Edit
    <2>1. UNCHANGED <<job, held, link, verdict>>
      BY <1>7 DEF Edit, gateVars
    <2>2. damage' \in [Edited -> Damages \cup {"ok"}]
      BY <1>7 DEF Edit, ChainTypes
    <2> QED
      BY <2>1, <2>2 DEF ChainTypes, Acts
  <1>8. CASE UNCHANGED vars
    BY <1>8, ChainQuiet DEF vars, orchestratorVars, chainVars
  <1> QED
    BY <1>1, <1>2, <1>3, <1>4, <1>5, <1>6, <1>7, <1>8 DEF Next

\* One builder moves.
LEMMA RecorderMoves ==
    ASSUME AdvanceInv, Recorders, NEW b \in Builders, NEW prog,
           builder' = [builder EXCEPT ![b] = prog],
           prog.at = "record" => prog.phase \in Phases
    PROVE  Recorders'
  <1>1. \A c \in Builders : builder'[c] = IF c = b THEN prog ELSE builder[c]
    BY DEF AdvanceInv
  <1> QED
    BY <1>1 DEF Recorders

\* A builder that outlives its parent still has its phase.
LEMMA RecordersMoved ==
    ASSUME Recorders,
           \A b \in Builders : \/ builder'[b] = Resting
                               \/ \E c \in Builders : builder'[b] = builder[c]
    PROVE  Recorders'
  BY DEF Recorders, Resting

\* A builder starts.
LEMMA RecorderStarts ==
    ASSUME AdvanceInv, Recorders, NEW b \in Builders, NEW asked, StartBuilder(b, asked)
    PROVE  Recorders'
  <1>1. PICK prog : prog = [at |-> "drift", asked |-> asked, phase |-> "none"]
    OBVIOUS
  <1>2. builder' = [builder EXCEPT ![b] = prog] /\ prog.at = "drift"
    BY <1>1 DEF StartBuilder
  <1> QED
    BY <1>2, RecorderMoves

\* A builder ends and records nothing more.
LEMMA RecorderEnds ==
    ASSUME AdvanceInv, Recorders, NEW b \in Builders,
           NEW how \in {"failed", "pending", "done"}, Ends(b, how)
    PROVE  Recorders'
  <1>1. [Resting EXCEPT !.at = how]
          = [at |-> how, asked |-> "none", phase |-> "none"]
    BY DEF Resting
  <1>2. PICK prog : prog = IF b = "contract"
                           THEN [at |-> how, asked |-> "none", phase |-> "none"]
                           ELSE Resting
    OBVIOUS
  <1>3. builder' = [builder EXCEPT ![b] = prog] /\ prog.at # "record"
    BY <1>1, <1>2 DEF Ends, Resting
  <1> QED
    BY <1>3, RecorderMoves

\* A builder advances the registry before it records the phase.
LEMMA RecorderSteps ==
    ASSUME AdvanceInv, Recorders, NEW b \in Builders, BuilderSteps(b)
    PROVE  Recorders'
  <1> DEFINE old == builder[b]
  <1>0. old \in Programs /\ Founded(old, sealed)
    BY DEF AdvanceInv
  <1>1. ASSUME NEW at \in {"read", "evidence", "advance"}, Reaches(b, at)
        PROVE  Recorders'
    <2>1. PICK prog : prog = [old EXCEPT !.at = at]
      OBVIOUS
    <2>2. builder' = [builder EXCEPT ![b] = prog]
      BY <1>1, <2>1 DEF Reaches
    <2>3. prog.at = at
      BY <1>0, <2>1 DEF Programs
    <2> QED
      BY <2>2, <2>3, RecorderMoves
  <1>2. ASSUME NEW how \in {"failed", "pending", "done"}, Ends(b, how)
        PROVE  Recorders'
    BY <1>2, RecorderEnds
  <1>3. CASE CheckDrift(b)
    BY <1>1, <1>2, <1>3 DEF CheckDrift
  <1>4. CASE ReadRegistry(b)
    <2>1. CASE builder' = [builder EXCEPT ![b].at = "check",
                                          ![b].phase = registry.next]
      <3>1. PICK prog : prog = [old EXCEPT !.at = "check", !.phase = registry.next]
        OBVIOUS
      <3>2. builder' = [builder EXCEPT ![b] = prog]
        BY <2>1, <3>1 DEF AdvanceInv
      <3>3. prog.at = "check"
        BY <1>0, <3>1 DEF Programs
      <3> QED
        BY <3>2, <3>3, RecorderMoves
    <2> QED
      BY <1>2, <1>4, <2>1 DEF ReadRegistry
  <1>5. CASE CheckApproval(b)
    BY <1>1, <1>2, <1>5 DEF CheckApproval, NextStage
  <1>6. CASE WriteEvidence(b)
    BY <1>1, <1>6 DEF WriteEvidence, NextStage
  <1>7. CASE AdvanceRegistry(b)
    <2>1. PICK prog : prog = [old EXCEPT !.at = "record"]
      OBVIOUS
    <2>2. builder' = [builder EXCEPT ![b] = prog]
      BY <1>7, <2>1 DEF AdvanceRegistry, Reaches, NextStage
    <2>3. prog.phase = old.phase /\ old.phase \in Phases
      BY <1>0, <1>7, <2>1 DEF AdvanceRegistry, Founded, Programs
    <2> QED
      BY <2>2, <2>3, RecorderMoves
  <1>8. CASE RecordPhase(b)
    BY <1>2, <1>8 DEF RecordPhase
  <1> QED
    BY <1>3, <1>4, <1>5, <1>6, <1>7, <1>8 DEF BuilderSteps

\* Every step keeps what a recording builder holds.
LEMMA RecordersStep == AdvanceInv /\ Recorders /\ [Next]_vars => Recorders'
  <1> SUFFICES ASSUME AdvanceInv, Recorders, [Next]_vars
               PROVE  Recorders'
    OBVIOUS
  <1>q. ASSUME builder' = builder PROVE Recorders'
    BY <1>q DEF Recorders
  <1>1. CASE OrchestratorNext
    <2>1. ASSUME NEW t \in Thread, RequestEndpoint(t) \/ DecisionEndpoint(t)
          PROVE  Recorders'
      BY <1>q, <2>1 DEF RequestEndpoint, DecisionEndpoint
    <2>2. CASE RequestExecution
      BY <1>q, <2>2 DEF RequestExecution
    <2>3. ASSUME NEW w \in Writers, ServerWriter(w)
          PROVE  Recorders'
      BY <1>q, <2>3 DEF ServerWriter
    <2>4. CASE ServerStops
      BY <2>4, OrphanMoved, RecordersMoved DEF ServerStops, Builders
    <2>5. CASE ExecutePhase
      BY <2>5, RecorderStarts DEF ExecutePhase, Builders
    <2>6. CASE OperatorRunsBuilder
      BY <2>6, RecorderStarts DEF OperatorRunsBuilder, Builders
    <2>7. ASSUME NEW b \in Builders, BuilderSteps(b) \/ BuilderKilled(b)
          PROVE  Recorders'
      BY <2>7, RecorderSteps, RecorderEnds DEF BuilderKilled
    <2> QED
      BY <1>1, <2>1, <2>2, <2>3, <2>4, <2>5, <2>6, <2>7 DEF OrchestratorNext
  <1>2. CASE ChainStarts
    BY <1>2, <1>q DEF ChainStarts
  <1>3. CASE Compares
    BY <1>3, <1>q DEF Compares, orchestratorVars
  <1>4. CASE ChainKilled
    <2>1. CASE builder' = [builder EXCEPT !["contract"] = Resting]
      BY <2>1, RecorderMoves DEF Builders, Resting
    <2>2. CASE Orphaned("contract")
      BY <2>2, OrphanMoved, RecordersMoved DEF Builders
    <2> QED
      BY <1>4, <2>1, <2>2 DEF ChainKilled
  <1>5. CASE GateContract
    BY <1>5, <1>q DEF GateContract, GateCleansQueue, GateOpens, GateRequests, GateLooks,
       GateApproves, GateRequestsBypass, GateIsRefused, GateReadsTelemetry,
       GateEnds, ContractWrites, gateFrame, orchestratorVars
  <1>6. CASE BuilderContract
    <2>1. CASE RunsUnapproved
      BY <2>1, RecorderStarts DEF RunsUnapproved, Builders
    <2>2. CASE RunsApproved
      BY <2>2, RecorderStarts DEF RunsApproved, Builders
    <2>3. CASE builder' = builder
      BY <1>q, <2>3
    <2> QED
      BY <1>6, <2>1, <2>2, <2>3
         DEF BuilderContract, KeepsRegistry, KeepsState, HidesDecision,
             KeepsQueue, FiltersQueue, RewindsRegistry, SeesPending, WritesMock,
             SeesDone, RemovesMock, RestoresDecision, DecisionsAreBack,
             RestoresQueue, RestoresRegistry, RestoresState, CleansEvidence,
             TestEnds, orchestratorVars
  <1>7. CASE Edit
    BY <1>7, <1>q DEF Edit
  <1>8. CASE UNCHANGED vars
    BY <1>8, <1>q DEF vars, orchestratorVars
  <1> QED
    BY <1>1, <1>2, <1>3, <1>4, <1>5, <1>6, <1>7, <1>8 DEF Next

---------------------------------------------------------------------------
(* The control files *)

\* They and what is held of them stay.
LEMMA ControlQuiet ==
    ASSUME PhaseTypes, UNCHANGED <<registry, current, held, link, stage>>,
           approval' \in [Requestable -> Status], sealed' \subseteq Phases
    PROVE  PhaseTypes'
  BY DEF PhaseTypes, Acts

\* No link of the builder's is at work, or none has started.
LEMMA ControlFree ==
    ASSUME PhaseTypes, UNCHANGED <<registry, current, approval, sealed>>,
           ~ Acts(BuilderRunnerFiles)' \/ stage' = "start"
    PROVE  PhaseTypes'
  BY DEF PhaseTypes

\* Some of what is held goes on or back.
LEMMA ControlHeld ==
    ASSUME PhaseTypes, approval' = approval, sealed' \subseteq sealed,
           Readable(registry') /\ Recordable(current'),
           Readable(held'.registry),
           stage' = "keep" \/ Recordable(held'.current)
    PROVE  PhaseTypes'
  BY DEF PhaseTypes

\* A builder's step.
LEMMA BuilderControls ==
    ASSUME AdvanceInv, Recorders, PhaseTypes, NEW b \in Builders, BuilderSteps(b),
           UNCHANGED chainVars
    PROVE  PhaseTypes'
  <1>0. UNCHANGED <<held, link, stage, approval>> /\ Founded(builder[b], sealed)
    BY DEF BuilderSteps, chainVars, AdvanceInv
  <1>1. CASE UNCHANGED phaseVars
    BY <1>0, <1>1, ControlQuiet DEF phaseVars, PhaseTypes
  <1>2. CASE WriteEvidence(b)
    <2>1. sealed' \subseteq Phases
      BY <1>0, <1>2 DEF WriteEvidence, Founded, PhaseTypes
    <2> QED
      BY <1>0, <1>2, <2>1, ControlQuiet DEF WriteEvidence, PhaseTypes
  <1>3. CASE AdvanceRegistry(b)
    <2>1. PICK phase \in Phases : phase = builder[b].phase
      BY <1>0, <1>3 DEF AdvanceRegistry, Founded
    <2>2. registry' = [last |-> phase, next |-> Successor[phase]]
      BY <1>3, <2>1 DEF AdvanceRegistry
    <2>3. Successor[phase] \in Requestable
      BY DEF Phases, Successor, Requestable
    <2>4. registry'.last = phase /\ registry'.next = Successor[phase]
      BY <2>2
    <2>5. UNCHANGED <<current, sealed>>
      BY <1>3 DEF AdvanceRegistry
    <2>6. Readable(registry') /\ Recordable(current')
      BY <2>3, <2>4, <2>5 DEF Readable, PhaseTypes
    <2> QED
      BY <1>0, <2>5, <2>6 DEF PhaseTypes, Acts
  <1>4. CASE RecordPhase(b)
    <2>1. current' \in Phases /\ UNCHANGED <<registry, sealed>>
      BY <1>4 DEF RecordPhase, Recorders
    <2>2. Readable(registry') /\ Recordable(current')
      BY <2>1 DEF Recordable, PhaseTypes
    <2> QED
      BY <1>0, <2>1, <2>2 DEF PhaseTypes, Acts
  <1> QED
    BY <1>1, <1>2, <1>3, <1>4 DEF BuilderSteps, CheckDrift, ReadRegistry, CheckApproval

\* The server, its operators and the builders.
LEMMA OrchestratorControls ==
    ASSUME AdvanceInv, Recorders, PhaseTypes, OrchestratorNext, UNCHANGED chainVars
    PROVE  PhaseTypes'
  <1>0. UNCHANGED <<held, link, stage>>
    BY DEF chainVars
  <1>q. ASSUME UNCHANGED phaseVars, approval' = approval PROVE PhaseTypes'
    BY <1>0, <1>q, ControlQuiet DEF phaseVars, PhaseTypes
  <1>1. ASSUME NEW t \in Thread, RequestEndpoint(t) \/ DecisionEndpoint(t)
        PROVE  PhaseTypes'
    BY <1>1, <1>q DEF RequestEndpoint, DecisionEndpoint
  <1>2. CASE RequestExecution
    <2>1. PICK phase \in Requestable, status \in {"APPROVED", "PENDING"} :
              approval' = [approval EXCEPT ![phase] = status]
      BY <1>2, AskedAssumption DEF RequestExecution
    <2>2. approval' \in [Requestable -> Status]
      BY <2>1 DEF PhaseTypes, Status
    <2> QED
      BY <1>0, <1>2, <2>2, ControlQuiet DEF RequestExecution, phaseVars, PhaseTypes
  <1>3. ASSUME NEW w \in Writers, ServerWriter(w)
        PROVE  PhaseTypes'
    BY <1>3, <1>q DEF ServerWriter
  <1>4. CASE ServerStops
    BY <1>4, <1>q DEF ServerStops
  <1>5. CASE ExecutePhase
    BY <1>5, <1>q DEF ExecutePhase
  <1>6. CASE OperatorRunsBuilder
    BY <1>6, <1>q DEF OperatorRunsBuilder
  <1>7. ASSUME NEW b \in Builders, BuilderSteps(b)
        PROVE  PhaseTypes'
    BY <1>7, BuilderControls
  <1>8. ASSUME NEW b \in Builders, BuilderKilled(b)
        PROVE  PhaseTypes'
    <2>1. /\ registry' \in {registry, Garbled} /\ current' \in {current, "garbled"}
          /\ UNCHANGED <<sealed, approval>>
      BY <1>8 DEF BuilderKilled
    <2>2. Readable(registry') /\ Recordable(current')
      BY <2>1 DEF PhaseTypes, Readable, Recordable
    <2> QED
      BY <1>0, <2>1, <2>2 DEF PhaseTypes, Acts
  <1> QED
    BY <1>1, <1>2, <1>3, <1>4, <1>5, <1>6, <1>7, <1>8 DEF OrchestratorNext

\* The builder's contract.
LEMMA TestControls ==
    ASSUME AdvanceInv, PhaseTypes, BuilderContract
    PROVE  PhaseTypes'
  <1>0. /\ Readable(registry) /\ Recordable(current) /\ HeldIsRecord
        /\ Acts(BuilderRunnerFiles) /\ stage # "start" => Readable(held.registry)
        /\ Acts(BuilderRunnerFiles) /\ stage \notin {"start", "keep"}
               => Recordable(held.current)
    BY DEF PhaseTypes, AdvanceInv
  <1>1. CASE KeepsRegistry
    <2>1. held' = [registry |-> registry, current |-> held.current,
                   listed |-> held.listed, decisions |-> held.decisions,
                   queue |-> held.queue]
      BY <1>0, <1>1 DEF KeepsRegistry, HeldIsRecord
    <2>2. held'.registry = registry
      BY <2>1
    <2>3. UNCHANGED <<registry, current, sealed, approval>> /\ stage' = "keep"
      BY <1>1 DEF KeepsRegistry, Keeps, Goes, phaseVars
    <2> QED
      BY <1>0, <2>2, <2>3, ControlHeld
  <1>2. CASE KeepsState
    <2>1. held' = [registry |-> held.registry, current |-> current,
                   listed |-> held'.listed, decisions |-> held.decisions,
                   queue |-> held.queue]
      BY <1>0, <1>2 DEF KeepsState, HeldIsRecord
    <2>2. held'.registry = held.registry /\ held'.current = current
      BY <2>1
    <2>3. UNCHANGED <<registry, current, sealed, approval>>
          /\ Acts(BuilderRunnerFiles) /\ stage # "start"
      BY <1>2 DEF KeepsState, Keeps, Test, Running, Acts, phaseVars
    <2> QED
      BY <1>0, <2>2, <2>3, ControlHeld
  <1>q. ASSUME Acts(BuilderRunnerFiles), stage \notin {"start", "keep"},
               UNCHANGED <<approval, registry, current>>, sealed' \subseteq sealed,
               held'.registry = held.registry, held'.current = held.current
        PROVE  PhaseTypes'
    BY <1>0, <1>q, ControlHeld
  <1>3. CASE HidesDecision
    <2>1. held' = [registry |-> held.registry, current |-> held.current,
                   listed |-> held'.listed, decisions |-> held'.decisions,
                   queue |-> held.queue]
      BY <1>0, <1>3 DEF HidesDecision, HeldIsRecord
    <2>2. held'.registry = held.registry /\ held'.current = held.current
      BY <2>1
    <2> QED
      BY <1>q, <1>3, <2>2 DEF HidesDecision, Keeps, Test, Running, Acts, phaseVars
  <1>4. CASE KeepsQueue
    <2>1. held' = [registry |-> held.registry, current |-> held.current,
                   listed |-> held.listed, decisions |-> held.decisions,
                   queue |-> queue]
      BY <1>0, <1>4 DEF KeepsQueue, HeldIsRecord
    <2>2. held'.registry = held.registry /\ held'.current = held.current
      BY <2>1
    <2> QED
      BY <1>q, <1>4, <2>2 DEF KeepsQueue, Keeps, Test, Running, Acts, phaseVars
  <1>5. CASE FiltersQueue
    BY <1>q, <1>5 DEF FiltersQueue, Keeps, Test, Running, Acts, phaseVars
  <1>6. CASE RewindsRegistry
    <2>1. /\ UNCHANGED <<current, held, approval, sealed>>
          /\ Acts(BuilderRunnerFiles) /\ stage \notin {"start", "keep"}
      BY <1>6 DEF RewindsRegistry, Keeps, Test, Running, Acts
    <2>2. Readable(registry')
      <3>1. CASE held.registry = Garbled
        BY <1>0, <1>6, <3>1 DEF RewindsRegistry
      <3>2. CASE held.registry # Garbled
        <4>1. registry' = [held.registry EXCEPT !.next = "PR16"]
          BY <1>6, <3>2 DEF RewindsRegistry
        <4>2. registry'.last = held.registry.last /\ registry'.next = "PR16"
          BY <4>1 DEF AdvanceInv, Registries
        <4> QED
          BY <1>0, <2>1, <3>2, <4>2 DEF Readable, Requestable, Phases
      <3> QED
        BY <3>1, <3>2
    <2> QED
      BY <1>0, <2>1, <2>2, ControlHeld
  <1>7. CASE RunsUnapproved
    BY <1>q, <1>7 DEF RunsUnapproved, Keeps, Test, Running, Acts, phaseVars
  <1>8. CASE SeesPending
    BY <1>q, <1>8 DEF SeesPending, Test, Running, Acts, orchestratorVars
  <1>9. CASE WritesMock
    BY <1>q, <1>9 DEF WritesMock, Keeps, Test, Running, Acts, phaseVars
  <1>10. CASE RunsApproved
    BY <1>q, <1>10 DEF RunsApproved, Keeps, Test, Running, Acts, phaseVars
  <1>11. CASE SeesDone
    BY <1>q, <1>11 DEF SeesDone, Test, Running, Acts, orchestratorVars
  <1>12. CASE RemovesMock
    BY <1>q, <1>12 DEF RemovesMock, Keeps, Test, Running, Acts, phaseVars
  <1>13. CASE RestoresDecision
    <2>1. held' = [registry |-> held.registry, current |-> held.current,
                   listed |-> held'.listed, decisions |-> held'.decisions,
                   queue |-> held.queue]
      BY <1>0, <1>13 DEF RestoresDecision, HeldIsRecord
    <2>2. held'.registry = held.registry /\ held'.current = held.current
      BY <2>1
    <2> QED
      BY <1>q, <1>13, <2>2 DEF RestoresDecision, Keeps, Test, Running, Acts, phaseVars
  <1>14. CASE DecisionsAreBack
    BY <1>q, <1>14 DEF DecisionsAreBack, Keeps, Test, Running, Acts, phaseVars
  <1>15. CASE RestoresQueue
    BY <1>q, <1>15 DEF RestoresQueue, Keeps, Test, Running, Acts, phaseVars
  <1>16. CASE RestoresRegistry
    <2>1. /\ registry' = held.registry
          /\ UNCHANGED <<current, held, approval, sealed>>
          /\ Acts(BuilderRunnerFiles) /\ stage \notin {"start", "keep"}
      BY <1>16 DEF RestoresRegistry, Keeps, Test, Running, Acts
    <2> QED
      BY <1>0, <2>1, ControlHeld
  <1>17. CASE RestoresState
    <2>1. /\ current' = held.current
          /\ UNCHANGED <<registry, held, approval, sealed>>
          /\ Acts(BuilderRunnerFiles) /\ stage \notin {"start", "keep"}
      BY <1>17 DEF RestoresState, Keeps, Test, Running, Acts
    <2> QED
      BY <1>0, <2>1, ControlHeld
  <1>18. CASE CleansEvidence
    BY <1>q, <1>18 DEF CleansEvidence, Keeps, Test, Running, Acts
  <1>19. CASE TestEnds
    BY <1>19, ControlFree DEF TestEnds, Leaves, orchestratorVars
  <1> QED
    BY <1>1, <1>2, <1>3, <1>4, <1>5, <1>6, <1>7, <1>8, <1>9, <1>10, <1>11,
       <1>12, <1>13, <1>14, <1>15, <1>16, <1>17, <1>18, <1>19
       DEF BuilderContract

\* Every step keeps the control files to what may be read from them.
LEMMA PhaseTypesStep ==
    PhaseTypes /\ Recorders /\ AdvanceInv /\ PassedInv /\ [Next]_vars => PhaseTypes'
  <1> SUFFICES ASSUME PhaseTypes, Recorders, AdvanceInv, PassedInv, [Next]_vars
               PROVE  PhaseTypes'
    OBVIOUS
  <1>1. CASE OrchestratorNext /\ UNCHANGED chainVars
    BY <1>1, OrchestratorControls
  <1>2. CASE ChainStarts
    BY <1>2, ControlFree DEF ChainStarts, phaseVars, PassedInv
  <1>3. CASE Compares
    BY <1>3, ControlFree DEF Compares, Leaves, orchestratorVars
  <1>4. CASE ChainKilled
    <2>1. /\ registry' \in {registry, Garbled} /\ current' \in {current, "garbled"}
          /\ UNCHANGED <<sealed, approval>> /\ stage' = "start"
      BY <1>4 DEF ChainKilled
    <2>2. Readable(registry') /\ Recordable(current')
      BY <2>1 DEF PhaseTypes, Readable, Recordable
    <2> QED
      BY <2>1, <2>2 DEF PhaseTypes
  <1>5. CASE GateContract
    <2>1. CASE GateEnds
      BY <2>1, ControlFree DEF GateEnds, Leaves, orchestratorVars
    <2>2. CASE ContractWrites
      BY <2>2, ControlQuiet DEF ContractWrites, chainVars, phaseVars, PhaseTypes
    <2>3. CASE Acts(ApprovalGateFiles) /\ link' = link
               /\ UNCHANGED <<phaseVars, approval>>
      <3>1. ~ Acts(BuilderRunnerFiles)'
        BY <2>3, TwoAct DEF Acts
      <3> QED
        BY <2>3, <3>1, ControlFree DEF phaseVars
    <2> QED
      BY <1>5, <2>1, <2>2, <2>3
         DEF GateContract, GateCleansQueue, GateOpens, GateRequests, GateLooks, GateApproves,
             GateRequestsBypass, GateIsRefused, GateReadsTelemetry, gateFrame,
             Goes, Gate, Running, Acts
  <1>6. CASE BuilderContract
    BY <1>6, TestControls
  <1>7. CASE Edit
    BY <1>7, ControlQuiet DEF Edit, phaseVars, PhaseTypes
  <1>8. CASE UNCHANGED vars
    BY <1>8, ControlQuiet DEF vars, orchestratorVars, chainVars, PhaseTypes
  <1> QED
    BY <1>1, <1>2, <1>3, <1>4, <1>5, <1>6, <1>7, <1>8 DEF Next

---------------------------------------------------------------------------
\* The types, with what they rest on.
TypeInv == QueueTypes /\ ChainTypes /\ PhaseTypes /\ Recorders

\* The initial states are of the types.
LEMMA TypeInvInit == Init => TypeInv
  <1> SUFFICES ASSUME Init PROVE TypeInv
    OBVIOUS
  <1>1. /\ ids = 2 /\ held = Nothing /\ link = 0 /\ verdict = "none"
        /\ job = [w \in Writers |-> Idle]
        /\ builder = [b \in Builders |-> Resting]
        /\ damage = [file \in Edited |-> "ok"]
        /\ current = registry.last
    BY DEF Init, OrchestratorInit
  <1>2. 2 \in Nat /\ Fits({}, 2) /\ JobFits(Idle, 2)
    BY FilableNothing
  <1>3. held.queue = {} /\ held.decisions = {}
    BY <1>1 DEF Nothing
  <1> DEFINE first == Item(1, {"PR16"}, FALSE, "APPROVED")
             second == Item(2, {"PR17"}, FALSE, "PENDING")
  <1>4. /\ first \in Filable(2) /\ second \in Filable(2)
        /\ first.id = 1 /\ second.id = 2
    BY DEF Item, Filable, Requestable, Phases, Status
  <1>5. \/ queue = {} /\ decisions = {}
        \/ queue = {first, second} /\ decisions = {first}
    BY DEF Init, OrchestratorInit
  <1> HIDE DEF first, second
  <1>6. Fits(queue, ids) /\ decisions \subseteq Filable(ids)
    BY <1>1, <1>2, <1>4, <1>5 DEF Fits, OneEach
  <1>6a. QueueTypes
    BY <1>1, <1>2, <1>3, <1>6 DEF QueueTypes
  <1>7. ChainTypes
    BY <1>1 DEF ChainTypes, Writers
  <1>8. Readable(registry) /\ Recordable(current)
    <2>1. registry \in {[last |-> "PR15", next |-> "PR16"],
                        [last |-> "PR16", next |-> "PR17"],
                        [last |-> "PR18", next |-> "COMPLETED"]}
      BY DEF Init, OrchestratorInit
    <2> QED
      BY <1>1, <2>1 DEF Readable, Recordable, Requestable, Phases
  <1>9. approval \in [Requestable -> Status] /\ sealed \subseteq Phases
    BY DEF Init, OrchestratorInit, ApprovalFiles, Status, Phases
  <1>10. PhaseTypes
    BY <1>1, <1>8, <1>9 DEF PhaseTypes, Acts
  <1>11. Recorders
    BY <1>1 DEF Recorders, Resting
  <1> QED
    BY <1>6a, <1>7, <1>10, <1>11 DEF TypeInv

\* The files hold what they may hold, every copy of the queue one item under
\* each id that was given out, and no job and no backup outlives its link.
THEOREM TypeCorrect == Spec => []TypeOK
  <1> DEFINE IInv == AdvanceInv /\ SealInv /\ PassedInv /\ TypeInv
  <1>1. Init => IInv
    BY AdvanceInvInit, SealInvInit, PassedInit, TypeInvInit
  <1>2. IInv /\ [Next]_vars => IInv'
    BY AdvanceInvStep, SealInvStep, PassedStep, QueueTypesStep, ChainTypesStep,
       RecordersStep, PhaseTypesStep DEF TypeInv
  <1>3. IInv => TypeOK
    <2> SUFFICES ASSUME IInv PROVE TypeOK
      OBVIOUS
    <2>1. Items = Filable(ids)
      BY DEF Items, Filable
    <2>2. \A q \in {queue, held.queue} \cup {job[w].copy : w \in Writers} : Fits(q, ids)
      BY DEF TypeInv, QueueTypes, JobFits
    <2>3. decisions \subseteq Items
      BY <2>1 DEF TypeInv, QueueTypes
    <2>4. link = 0 => job["contract"] = Idle /\ held = Nothing
      BY DEF TypeInv, ChainTypes, Acts
    <2>5. link \in Relevant \cup {0}
      BY DEF PassedInv
    <2>6. \/ registry = Garbled
          \/ registry \in [last : Phases \cup {"PR15"}, next : Requestable]
      BY DEF TypeInv, PhaseTypes, Readable, AdvanceInv, Registries
    <2> QED
      BY <2>1, <2>2, <2>3, <2>4, <2>5, <2>6
         DEF TypeInv, ChainTypes, PhaseTypes, Recordable, Fits, OneEach, TypeOK
  <1> QED
    BY <1>1, <1>2, <1>3, PTL DEF Spec
=============================================================================
