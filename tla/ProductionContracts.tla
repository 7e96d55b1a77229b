------------------------ MODULE ProductionContracts ------------------------
(***************************************************************************)
(* Links 100 to 122 of npm run qa:ui-contract: the evidence packages of    *)
(* the production tracks PR1 to PR15, the checksum lock over them, the     *)
(* phase orchestrator and the control tower that shows it.                 *)
(***************************************************************************)
EXTENDS Contracts

\* A production track with a boundary attestation and a list of blocked
\* actions, following the track whose manifest it looks up.
ProductionTrack(dir, listed, before) ==
    EvidencePhase(dir, {}, {"boundary_attestation", "blocked_actions"}
                           \cup listed, Manifest(before))

ReadinessAuthorization ==
    ProductionTrack("production-readiness-authorization", {"gap_analysis"},
                    "terminal-local-preview-closure")

RequirementsBaseline ==
    ProductionTrack("production-requirements-baseline",
                    {"requirements_baseline"},
                    "production-readiness-authorization")

ArchitectureDesign ==
    ProductionTrack("production-architecture-design",
                    {"architecture_design"},
                    "production-requirements-baseline")

ImplementationPlan ==
    ProductionTrack("production-control-implementation-plan",
                    {"implementation_plan"},
                    "production-architecture-design")

Hardening(names) == At("backend/production_hardening", names)

HardeningModules ==
    Hardening({"tls_scaffolding", "auth_adapter", "audit_ledger_helper",
               "mutation_gate", "observability_scaffolding",
               "backup_recovery_scripts"})

ImplementationExecution ==
    [ProductionTrack("production-control-implementation-execution", {},
                     "production-control-implementation-plan")
        EXCEPT !.exists = @ \cup HardeningModules]

IntegrationValidation ==
    [ProductionTrack("production-control-integration-validation", {},
                     "production-control-implementation-execution")
        EXCEPT !.exists = @ \cup Hardening({"test_scaffolding_validation"})]

EvidenceMapping ==
    ProductionTrack("production-control-evidence-mapping",
                    {"evidence_mapping"},
                    "production-control-integration-validation")

RiskRegister ==
    ProductionTrack("production-readiness-risk-register", {"risk_register"},
                    "production-control-evidence-mapping")

\* From here on the tracks open their blocked actions: every action the
\* project forbids must be listed as BLOCKED and never performed.
BlockingTrack(dir, evidence, before) ==
    [EvidencePhase(dir, {evidence, "blocked_actions"}, {}, Manifest(before))
        EXCEPT !.parses = At(dir, {"boundary_attestation"})]

RemediationClosurePlan ==
    BlockingTrack("production-readiness-remediation-closure-plan",
                  "closure_plan", "production-readiness-risk-register")

RemediationEvidence ==
    BlockingTrack("production-readiness-remediation-execution",
                  "execution_evidence",
                  "production-readiness-remediation-closure-plan")

RemediationValidation ==
    BlockingTrack("production-readiness-remediation-validation",
                  "residual_risk",
                  "production-readiness-remediation-execution")

\* PR12A: the checksum register over the evidence of PR1 to PR11.
FinalCandidate == "production-readiness-final-candidate"
ChecksumRegister == <<FinalCandidate, "checksum_register">>

LockedTracks ==
    {"production-readiness-authorization", "production-requirements-baseline",
     "production-architecture-design",
     "production-control-implementation-plan",
     "production-control-implementation-execution",
     "production-control-integration-validation",
     "production-control-evidence-mapping",
     "production-readiness-risk-register",
     "production-readiness-remediation-closure-plan",
     "production-readiness-remediation-execution",
     "production-readiness-remediation-validation"}

TrackFiles == {"manifest", "final_seal", "boundary_attestation",
               "blocked_actions", "gap_analysis", "requirements_baseline",
               "architecture_design", "implementation_plan",
               "evidence_mapping", "risk_register", "closure_plan",
               "execution_evidence", "residual_risk"}

\* The contract scripts of PR1 to PR12; the lock's own two are not in it.
LockedScripts ==
    At("scripts/qa", {"architecture-design", "evidence-mapping",
                      "implementation-execution", "implementation-plan",
                      "integration-validation", "final-candidate-seal",
                      "readiness-authorization", "risk-register",
                      "remediation-closure-plan", "remediation-execution",
                      "remediation-validation", "requirements-baseline"})

\* A track has some of the TrackFiles; naming the others locks nothing more.
LockedFiles ==
    (LockedTracks \X TrackFiles) \cup LockedScripts \cup {RootPackage}
        \cup HardeningModules \cup Hardening({"test_scaffolding_validation"})

\* It asks that every locked path exists, and leaves the hashes to the next.
NoDriftLock ==
    [EvidencePhase(FinalCandidate,
        {"track_lock", "checksum_register", "blocked_actions"}, {},
        Manifest("production-readiness-remediation-validation"))
        EXCEPT !.parses = At(FinalCandidate,
                             {"no_drift_policy", "boundary_attestation"}),
               !.exists = @ \cup LockedFiles]

NoDriftCurrentState ==
    [LooksAt EXCEPT !.requires = {ChecksumRegister}, !.locks = LockedFiles]

Control(names) == At("control", names)
Orchestrator(names) == At("scripts/orchestrator", names)

OrchestratorScripts ==
    Orchestrator({"next_phase_runner", "render_phase_prompt",
                  "verify_no_drift", "gatekeeper", "write_phase_report"})

\* The scan for bypasses walks the directory, so the builder is in it too.
PhaseOrchestratorFiles ==
    [LooksAt EXCEPT
        !.requires = Control({"blocked_actions", "authority_policy"})
                         \cup {<<"generated-prompts", "PR14">>},
        !.exists = Control({"phase_registry", "phase_state"})
                       \cup OrchestratorScripts
                       \cup At("templates/phases",
                                {"PR14", "PR15", "PR16", "PR17", "PR18"}),
        !.forbids = OrchestratorScripts \cup Orchestrator({"builder_runner"})]

ProductionDecision ==
    BlockingTrack("production-decision", "go_no_go_decision", FinalCandidate)

StagingPackage ==
    BlockingTrack("production-staging-package", "deployment_package",
                  "production-decision")

StagingValidation ==
    BlockingTrack("production-staging-validation", "validation_results",
                  "production-staging-package")

ControlTowerUi ==
    [LooksAt EXCEPT !.requires = {IndexHtml, AppJs, MainPy},
                    !.forbids = {IndexHtml, AppJs}]

\* What the builder's contract reads; its runs of the builder are actions.
BuilderRunnerFiles ==
    [LooksAt EXCEPT !.requires = {MainPy},
                    !.parses = Control({"phase_registry"}),
                    !.exists = Orchestrator({"builder_runner"})
                                   \cup Control({"phase_state"})]

ExecutionWiring ==
    [LooksAt EXCEPT !.requires = {MainPy, IndexHtml, AppJs},
                    !.forbids = {MainPy}]

AuditTimeline ==
    [LooksAt EXCEPT !.requires = {MainPy, IndexHtml, AppJs},
                    !.forbids = {MainPy}]

SecurityAudit ==
    [LooksAt EXCEPT !.requires = {MainPy, IndexHtml, AppJs},
                    !.forbids = {MainPy}]

UxUpgrade == [LooksAt EXCEPT !.requires = {IndexHtml, AppJs}]

ProductionChain ==
    <<ReadinessAuthorization, RequirementsBaseline, ArchitectureDesign,
      ImplementationPlan, ImplementationExecution, IntegrationValidation,
      EvidenceMapping, RiskRegister, RemediationClosurePlan,
      RemediationEvidence, RemediationValidation, NoDriftLock,
      NoDriftCurrentState, PhaseOrchestratorFiles, ProductionDecision,
      StagingPackage, StagingValidation, ControlTowerUi, BuilderRunnerFiles,
      ExecutionWiring, AuditTimeline, SecurityAudit, UxUpgrade>>
=============================================================================
