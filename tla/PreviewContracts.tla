-------------------------- MODULE PreviewContracts --------------------------
(***************************************************************************)
(* Links 47 to 99 of npm run qa:ui-contract: the prompt and visual control *)
(* planes, the local preview from mockup to accepted release, and the      *)
(* sealed evidence packages of the preview tracks P2 to P20. Documents are *)
(* named by their number, generated evidence without its extension.        *)
(***************************************************************************)
EXTENDS Contracts

Config(names) == At("config", names)
Doc(names) == At("docs/visual-control-plane", names)
Mockup(names) == At("mockups/visual-control-plane", names)
Report(names) == At("artifacts/qa", names)
Review(names) == At("artifacts/qa/visual_review", names)
Script(names) == At("scripts/visual", names)
Release(names) == At("releases/visual-control-plane-local", names)
Archived(names) == At("releases/visual-control-plane-local-archive", names)
Installed(names) == At("install-review/visual-control-plane-local", names)

PromptControlPlane ==
    LET docs == "docs/prompt-control-plane" IN
    [LooksAt EXCEPT
        !.requires = Config({"prompt_control_plane"})
                     \cup At(docs, {"01", "04", "09"}),
        !.exists = At(docs, {"00", "02", "03", "05", "06", "07", "08", "10"})]

VisualControlPlane ==
    [LooksAt EXCEPT
        !.requires = Config({"visual_control_plane"}),
        !.exists = Doc({"00", "01", "02", "03", "04", "05", "06", "07", "08",
                        "09", "10"})]

PromptRegistry ==
    [LooksAt EXCEPT
        !.requires = {MainPy} \cup Report({"prompt_registry_report"}),
        !.parses = At("backend", {"prompt_registry.py"}),
        !.forbids = {MainPy}]

VisualMockups ==
    [LooksAt EXCEPT
        !.requires = Mockup({"styles.css", "pages", "agents.html",
                             "approvals.html", "cyber.html", "factory.html"})]

PromptRouter ==
    [LooksAt EXCEPT
        !.requires = {MainPy},
        !.parses = At("backend", {"prompt_router.py"}),
        !.forbids = {MainPy},
        !.exists = Report({"prompt_router_report"})]

VisualComponents ==
    [LooksAt EXCEPT !.requires = Doc({"11"})
                                 \cup Mockup({"components.html", "styles.css"})]

\* Its dealings with the approval queue are actions of ContractChain.
ApprovalGateFiles ==
    [LooksAt EXCEPT
        !.requires = {MainPy},
        !.parses = At("backend", {"approval_gate.py",
                                  "live_runtime_aggregator.py"}),
        !.forbids = {MainPy}]

VisualDataBindings ==
    [LooksAt EXCEPT !.requires = Config({"visual_data_bindings"})
                                 \cup Doc({"12"})]

EvidenceCollector ==
    [LooksAt EXCEPT
        !.requires = {MainPy},
        !.parses = At("backend", {"evidence_collector.py",
                                  "live_runtime_aggregator.py"}),
        !.forbids = {MainPy},
        !.exists = Report({"evidence_collector_report"})]

Adapters == <<"frontend", "visual_adapters.js">>

Fixtures == <<"frontend", "visual_adapters.test-fixtures.json">>

VisualAdapters ==
    [LooksAt EXCEPT
        !.requires = {Adapters, Fixtures},
        !.forbids = {Adapters},
        !.exists = Doc({"13"})]

DashboardPreview ==
    PreviewStep(Mockup({"dashboard-preview.html"})
                \cup {PreviewScript, Adapters, Fixtures}, {},
                Doc({"14"}) \cup Mockup({"control-plane.html"}))

ActivationPlan ==
    [LooksAt EXCEPT !.requires = Config({"visual_activation_plan"})
                                 \cup Doc({"15"})]

SideBySide ==
    [LooksAt EXCEPT
        !.requires = Mockup({"side-by-side-review.html"})
                     \cup Review({"side_by_side_review_checklist"}),
        !.forbids = Mockup({"side-by-side-review.html"}),
        !.exists = Doc({"16"})]

LocalActivation ==
    PreviewStep(Config({"visual_runtime_flags"}) \cup Doc({"17"}), {},
                Mockup({"dashboard-preview.html"}))

ApprovedWithChanges ==
    PreviewStep(Review({"approved_with_changes_closure"})
                \cup Mockup({"dashboard-preview.html"}) \cup {PreviewScript},
                {}, Doc({"18"}))

LocalAlias ==
    LET alias == Mockup({"local-cockpit-alias.html"}) IN
    [LooksAt EXCEPT
        !.requires = Config({"visual_runtime_flags"}) \cup Doc({"19"})
                     \cup alias,
        !.forbids = alias]

ReplacementReadiness ==
    PreviewStep(Config({"visual_replacement_readiness"}) \cup Doc({"20"})
                \cup Review({"live_replacement_readiness_report"}), {}, {})

\* A step of the rehearsal: a plan, the report of the script that carries
\* it out and the script, in which commands that publish are forbidden.
ScriptedStep(plan, report, doc, script, listed) ==
    [PreviewStep(Config({plan}) \cup Review({report}) \cup Script({script}),
                 {}, Doc({doc}) \cup listed)
        EXCEPT !.forbids = @ \cup Script({script})]

DryRun ==
    ScriptedStep("visual_dry_run_plan", "local_replacement_dry_run_report",
                 "21", "dry-run-local-cockpit-replacement.sh", {})

Candidate == Review({"dry_run_candidate/control-plane.candidate.html",
                     "dry_run_candidate/ROLLBACK.md"})

OperatorDryRunReview ==
    PreviewStep(Review({"operator_dry_run_review",
                        "local_replacement_dry_run_report"}), {},
                Doc({"22"}) \cup Candidate)

OperatorDecision ==
    PreviewStep(Review({"operator_decision_record"}),
                Review({"local_replacement_dry_run_report"}),
                Doc({"23"}) \cup Candidate)

ControlledSubstitution ==
    ScriptedStep("visual_controlled_substitution",
                 "controlled_local_substitution_report", "24",
                 "controlled-local-cockpit-substitution.sh",
                 Review({"active_substitution/ROLLBACK.md"}))

RollbackProof ==
    ScriptedStep("visual_rollback_proof",
                 "local_substitution_rollback_proof_report", "25",
                 "verify-local-cockpit-rollback.sh", {})

PostRollbackDecision ==
    PreviewStep(Review({"operator_post_rollback_decision"}), {}, Doc({"26"}))

Reapplied == Review({"reapply_local/ROLLBACK.md"})

ReapplyLocalCockpit ==
    ScriptedStep("visual_reapply_local_cockpit",
                 "reapply_local_visual_cockpit_report", "27",
                 "reapply-local-visual-cockpit.sh", Reapplied)

CockpitStabilization ==
    PreviewStep(Config({"visual_cockpit_stabilization"})
                \cup Review({"local_visual_cockpit_stabilization_report"})
                \cup Mockup({"styles.css", "control-plane.html"}), {},
                Doc({"28"}) \cup Reapplied)

LocalOperatorAcceptance ==
    PreviewStep(Review({"local_operator_acceptance"}), {},
                Doc({"29"}) \cup Mockup({"control-plane.html"})
                \cup Reapplied)

LocalReleasePackage ==
    PreviewStep(Config({"visual_local_release_package"})
                \cup Release({"README.md", "manifest", "provenance"}), {},
                Doc({"30"}) \cup Release({"control-plane.html", "styles.css",
                                         "ROLLBACK.md", "evidence"}))

\* The files whose hashes the package's own manifest records.
Packaged == Release({"control-plane.html", "styles.css", "ROLLBACK.md",
                     "README.md", "evidence"})

LocalReleaseReview ==
    [PreviewStep(Release({"release_review", "manifest", "provenance"}), {},
                 Doc({"31"})) EXCEPT !.locks = Packaged]

\* The hash ledger covers the papers of the package as well.
LocalReleaseFreeze ==
    [PreviewStep(Config({"visual_local_release_freeze"})
                 \cup Release({"freeze_record", "hash_ledger", "FREEZE.md"}),
                 {}, Doc({"32"}))
        EXCEPT !.locks = Packaged \cup Release({"manifest", "provenance",
                                               "release_review"})]

Tarball == Archived({"visual-control-plane-local.tar.gz"})

LocalReleaseArchive ==
    LET script == Script({"archive-local-release-package.sh"}) IN
    [PreviewStep(Config({"visual_local_release_archive"}) \cup script
                 \cup Archived({"archive_manifest", "archive_review",
                               "archive_checksums"})
                 \cup Release({"freeze_record"}), {},
                 Doc({"33"}) \cup Release({"hash_ledger"}))
        EXCEPT !.forbids = @ \cup script, !.locks = Tarball]

LocalReleaseFinalReview ==
    [PreviewStep(Archived({"archive_manifest", "archive_checksums",
                           "final_review"}), {},
                 Doc({"34"}) \cup Archived({"archive_review"}) \cup
                 Release({"freeze_record", "hash_ledger", "manifest",
                          "provenance", "ROLLBACK.md", "evidence"}))
        EXCEPT !.locks = Tarball]

Unpacked == Installed({"control-plane.html", "styles.css", "manifest",
                       "provenance", "ROLLBACK.md", "evidence"})

LocalInstallReview ==
    LET script == Script({"install-review-local-release.sh"}) IN
    [PreviewStep(Config({"visual_local_install_review"}) \cup script
                 \cup Installed({"install_review"})
                 \cup Archived({"archive_manifest"}), {},
                 Doc({"35"}) \cup Unpacked
                 \cup Archived({"archive_review", "archive_checksums"}))
        EXCEPT !.forbids = @ \cup script, !.locks = Tarball]

LocalInstallAcceptance ==
    PreviewStep(Installed({"install_review", "install_acceptance"}), {},
                Doc({"36"}) \cup Unpacked)

\* The archive is only looked up here, its hash is not taken again.
FinalLocalReleaseClosure ==
    PreviewStep(Archived({"final_local_release_closure"}),
                Archived({"archive_manifest"}),
                Doc({"37"}) \cup Tarball
                \cup Archived({"archive_review", "final_review"})
                \cup Installed({"install_review", "install_acceptance"})
                \cup Release({"manifest", "provenance", "hash_ledger",
                             "ROLLBACK.md"}))

MergeStrategy ==
    PreviewStep(Config({"visual_control_plane_merge_strategy"})
                \cup At("merge", {"merge_readiness", "merge_result"}), {},
                At("docs/merge-strategy", {"visual-control-plane-local-v1"}))

SecurityEvidence ==
    PreviewStep(Config({"visual_control_plane_security_evidence"})
                \cup At("security-evidence", {"security_evidence_manifest",
                                             "ato_readiness_report"}), {},
                At("docs/security-evidence", {"visual-control-plane-local-v1"}))

BackendBinding ==
    LET dir == "backend-runtime-binding-readiness" IN
    PreviewStep(Config({"visual_control_plane_backend_binding"})
                \cup At(dir, {"final_seal"}), {},
                At("docs/backend-binding", {"visual-control-plane-local-v1"})
                \cup At(dir, {"manifest", "contract_map", "readiness_report",
                             "endpoint_inventory", "mutation_policy",
                             "test_results"}))

FrontendRuntimeReadiness ==
    EvidencePhase("frontend-runtime-readiness", {},
        {"panel_contract_map", "fixture_inventory", "adapter_report",
         "no_mutation_policy", "test_results"}, {})

ReleaseCandidate ==
    EvidencePhase("local-preview-release-candidate", {},
        {"accepted_track_index", "bundle_inventory", "qa_ci_rollup",
         "boundary_report", "blocked_actions", "risk_register"}, {})

DemoReadiness ==
    EvidencePhase("controlled-local-demo-readiness", {},
        {"runbook", "fixture_inventory", "panel_map", "boundary_attestation",
         "no_execution_policy", "validation_results"}, {})

OperatorAcceptance ==
    EvidencePhase("operator-acceptance-package", {},
        {"track_crosswalk", "human_review", "demo_review", "decision_matrix",
         "risk_acknowledgement", "blocked_actions"}, {})

HandoffPackage ==
    EvidencePhase("local-preview-handoff-package", {},
        {"handoff_index", "archive_inventory", "review_summary",
         "instructions", "boundary_attestation", "risks"}, {})

FinalPreviewClosure ==
    EvidencePhase("final-local-preview-closure", {"closure_memo"},
        {"track_summary", "traceability_matrix", "blocked_actions", "risks",
         "recommendation"}, {})

\* The screenshots are counted against the inventory.
ScreenshotEvidence ==
    EvidencePhase("ui-screenshot-evidence",
        {"screenshots", "screenshot_inventory"},
        {"route_discovery", "capture_results", "missing_routes",
         "review_notes", "boundary_attestation"}, {})

VisualReviewFindings ==
    EvidencePhase("visual-review-findings", {"findings_memo"},
        {"review_matrix", "backlog_register", "classification_policy",
         "operator_attestation"}, {})

RemediationPlan ==
    EvidencePhase("ui-polish-remediation-plan", {},
        {"traceability_matrix", "fix_register", "risk_model",
         "validation_plan", "boundary_attestation", "decision_matrix"}, {})

RemediationExecution ==
    EvidencePhase("ui-polish-remediation-execution", {},
        {"fix_traceability", "changed_files", "visual_only_attestation",
         "screenshot_inventory", "validation_results",
         "boundary_attestation", "screenshots"}, {})

Screenshots ==
    {<<"ui-screenshot-evidence", "screenshot_inventory">>,
     <<"ui-polish-remediation-execution", "screenshot_inventory">>}

ResidualFindings == <<"post-remediation-visual-review", "residual_findings">>

PostRemediationReview ==
    EvidencePhase("post-remediation-visual-review", {"comparison_matrix"},
        {"fix_validation", "residual_findings", "review_notes",
         "boundary_attestation", "decision_record"}, Screenshots)

\* It opens the residual findings of the phase before and compares them.
FinalCandidateSeal ==
    [EvidencePhase("local-preview-final-candidate-seal", {},
        {"track_index", "qa_ci_rollup", "visual_summary",
         "boundary_attestation", "blocked_actions", "decision_record"},
        Screenshots)
        EXCEPT !.requires = @ \cup {ResidualFindings},
               !.parses = At("local-preview-final-candidate-seal",
                             {"bundle_inventory", "risk_register"})]

GoNoGoDecision ==
    [EvidencePhase("operator-go-no-go-decision", {"decision_record"},
        {"traceability_matrix", "options", "boundary_attestation",
         "non_production_attestation"},
        {<<"local-preview-final-candidate-seal", "final_seal">>})
        EXCEPT !.requires = @ \cup {ResidualFindings},
               !.parses = At("operator-go-no-go-decision", {"risk_register"})]

ReviewPackageExport ==
    [EvidencePhase("local-preview-review-package-export", {},
        {"directory_map", "boundary_attestation", "blocked_actions"},
        {<<"operator-go-no-go-decision", "decision_record">>})
        EXCEPT !.parses = At("local-preview-review-package-export",
                             {"checksums"})]

ImmutablePreviewLock ==
    EvidencePhase("immutable-local-preview-lock", {},
        {"directory_map", "checksum_register", "boundary_attestation",
         "blocked_actions"}, Manifest("local-preview-review-package-export"))

TerminalClosure ==
    EvidencePhase("terminal-local-preview-closure", {},
        {"acceptance_log", "boundary_attestation", "blocked_actions",
         "decision_record"}, Manifest("immutable-local-preview-lock"))

PreviewChain ==
    <<PromptControlPlane, VisualControlPlane, PromptRegistry, VisualMockups,
      PromptRouter, VisualComponents, ApprovalGateFiles, VisualDataBindings,
      EvidenceCollector, VisualAdapters, DashboardPreview, ActivationPlan,
      SideBySide, LocalActivation, ApprovedWithChanges, LocalAlias,
      ReplacementReadiness, DryRun, OperatorDryRunReview, OperatorDecision,
      ControlledSubstitution, RollbackProof, PostRollbackDecision,
      ReapplyLocalCockpit, CockpitStabilization, LocalOperatorAcceptance,
      LocalReleasePackage, LocalReleaseReview, LocalReleaseFreeze,
      LocalReleaseArchive, LocalReleaseFinalReview, LocalInstallReview,
      LocalInstallAcceptance, FinalLocalReleaseClosure, MergeStrategy,
      SecurityEvidence, BackendBinding, FrontendRuntimeReadiness,
      ReleaseCandidate, DemoReadiness, OperatorAcceptance, HandoffPackage,
      FinalPreviewClosure, ScreenshotEvidence, VisualReviewFindings,
      RemediationPlan, RemediationExecution, PostRemediationReview,
      FinalCandidateSeal, GoNoGoDecision, ReviewPackageExport,
      ImmutablePreviewLock, TerminalClosure>>
=============================================================================
