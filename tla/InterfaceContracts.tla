------------------------- MODULE InterfaceContracts -------------------------
(***************************************************************************)
(* The first 46 links of npm run qa:ui-contract: the cockpit's pages, the  *)
(* routes behind them and the live backend. The runs, leases, providers    *)
(* and approvals the live ones create belong to other components; here     *)
(* they need a backend that answers.                                       *)
(***************************************************************************)
EXTENDS Contracts

Archive == {ArchiveHtml, ArchiveJs}
Cockpit == {IndexHtml, AppJs}

\* Walks frontend/: a file that is not there has nothing forbidden in it.
NoTailwindCdn ==
    [LooksAt EXCEPT
        !.forbids = Archive \cup Cockpit \cup {Styles, PreviewScript}]

\* The messages speak of frontend/index.html, the files read are archived.
NavContract ==
    [LooksAt EXCEPT !.requires = Archive, !.forbids = {ArchiveHtml}]

NavLive == [LooksAt EXCEPT !.requires = {Backend}]

ViewContent ==
    [LooksAt EXCEPT !.requires = {ArchiveHtml}, !.forbids = {ArchiveHtml}]

\* package.json is read only when it is there.
FrontendEntrypoint ==
    [LooksAt EXCEPT
        !.requires = {IndexHtml},
        !.forbids = {IndexHtml},
        !.exists = {AppJs, <<"frontend/src", "main.tsx">>,
                    <<"frontend", "package.json">>}]

KimiComicSwarm == [LooksAt EXCEPT !.requires = Archive]

GlobalSwarmAnimation == [LooksAt EXCEPT !.requires = Archive]

TopologyAgentOverlay ==
    [LooksAt EXCEPT !.requires = Archive, !.forbids = Archive,
                    !.exists = {Tailwind}]

TopologyAnimation ==
    [LooksAt EXCEPT !.requires = Archive \cup {Styles}]

CybersecurityFactory ==
    [LooksAt EXCEPT !.requires = Archive, !.forbids = {ArchiveHtml},
                    !.exists = {Tailwind}]

FullPageSwarmAudit ==
    [LooksAt EXCEPT !.requires = Archive, !.forbids = {ArchiveHtml}]

RuntimeLedgerDb == [LooksAt EXCEPT !.requires = {LedgerDb}]

BackendRuntimeApi == [LooksAt EXCEPT !.requires = {Backend}]

RuntimeEventSchema == [LooksAt EXCEPT !.requires = {Backend}]

CapabilityEnforcement ==
    [LooksAt EXCEPT !.requires = {MainPy, RuntimeStore}]

SupplyChain == At("scripts/supply-chain",
                  {"generate-release-manifest.ts",
                   "verify-release-artifacts.ts"})

ReleaseSigningPolicy ==
    [LooksAt EXCEPT
        !.requires = {MainPy} \cup SupplyChain \cup Archive,
        !.forbids = {ArchiveHtml},
        !.exists = {Tailwind}]

ReleaseChannelGovernance ==
    [LooksAt EXCEPT
        !.requires = {MainPy} \cup SupplyChain \cup Archive,
        !.forbids = {ArchiveHtml},
        !.exists = {Tailwind}]

OperatorGovernanceCockpit ==
    [LooksAt EXCEPT !.requires = {MainPy} \cup Archive]

CandidateReleasePacket ==
    [LooksAt EXCEPT
        !.requires = {MainPy, RuntimeStore, RootPackage} \cup Archive \cup
                     At("scripts/supply-chain",
                        {"generate-candidate-release-packet.ts"}),
        !.forbids = {MainPy, ArchiveHtml},
        !.exists = {Tailwind}]

FormalReleasePreview ==
    [LooksAt EXCEPT
        !.requires = {MainPy, RuntimeStore, RootPackage} \cup Archive,
        !.forbids = {MainPy},
        !.exists = {Tailwind}]

FormalReleaseApproval ==
    [LooksAt EXCEPT !.requires = {MainPy, RootPackage} \cup Archive,
                    !.forbids = {MainPy}, !.exists = {Tailwind}]

FormalReleaseSealDryRun ==
    [LooksAt EXCEPT !.requires = {MainPy, RootPackage} \cup Archive,
                    !.forbids = {MainPy}, !.exists = {Tailwind}]

SealBundle == At("scripts/supply-chain",
                 {"generate-release-seal-attestation-bundle.ts"})

ReleaseSealAttestation ==
    [LooksAt EXCEPT
        !.requires = {MainPy, RuntimeStore, RootPackage}
                     \cup SealBundle \cup Archive,
        !.forbids = {ArchiveHtml} \cup SealBundle,
        !.exists = {Tailwind}]

DeviceRegistry ==
    [LooksAt EXCEPT
        !.requires = At("backend", {"cluster_manager.py", "running"})
                     \cup Archive \cup {RootPackage},
        !.forbids = {ArchiveHtml},
        !.exists = {Tailwind}]

DeviceServiceRegistry ==
    [LooksAt EXCEPT !.requires = Archive \cup {MainPy, Backend}]

CapabilityRouting ==
    [LooksAt EXCEPT
        !.requires = At("backend", {"capability_router.py",
                                    "cluster_manager.py", "main.py",
                                    "running"})
                     \cup Archive \cup {RootPackage}]

DeviceServiceLease ==
    [LooksAt EXCEPT
        !.requires = At("backend", {"capability_router.py", "main.py",
                                    "runtime_execution_store.py", "running"})
                     \cup {ArchiveJs, RootPackage}]

ModelProviderRegistry ==
    [LooksAt EXCEPT
        !.requires = At("backend", {"inference_gateway.py", "main.py",
                                    "model_provider_registry.py",
                                    "runtime_execution_store.py", "running"})
                     \cup Archive]

CrewaiIngestionBridge ==
    [LooksAt EXCEPT !.requires = {LedgerDb, MainPy}]

EvidenceGraph ==
    [LooksAt EXCEPT !.requires = {LedgerDb, MainPy} \cup Archive]

ArchivePreview ==
    [LooksAt EXCEPT !.requires = {MainPy, RootPackage} \cup Archive]

\* A backend that does not answer is logged as skipped, but the results it
\* would have given are set to false all the same.
ModelRouter ==
    [LooksAt EXCEPT
        !.exists = At("config", {"models.yaml", "escalation.yaml"}) \cup
                   At("backend/model_router",
                      {"router.py", "model_registry.py", "confidence.py",
                       "escalation_policy.py", "audit_log.py"}),
        !.requires = {MainPy, IndexHtml, Styles, Backend,
                      <<"config", "skill_registry.json">>} \cup Archive]

KoiAnimation == [LooksAt EXCEPT !.requires = Cockpit \cup {Styles}]

LiveRuntimeKoi == [LooksAt EXCEPT !.requires = Archive]

\* The rules, playbooks and fixtures of one kind stand or fall together.
DetectionEngineering ==
    [LooksAt EXCEPT
        !.requires = {MainPy},
        !.exists = At("backend", {"detection_events.py"}) \cup
                   At("detections", {"splunk", "sigma", "elastic", "logql",
                                     "playbooks", "fixtures"})]

FeatureMap == <<"config", "live_runtime_feature_map.json">>

LiveRuntimeInstrument ==
    [LooksAt EXCEPT
        !.exists = {FeatureMap} \cup Cockpit \cup
                   At("docs/mission", {"live_runtime_instrument_doctrine.md"}),
        !.forbids = Cockpit]

AiRuntimeDiscovery ==
    [LooksAt EXCEPT
        !.requires = Cockpit \cup
                     At("backend", {"main.py", "live_runtime_aggregator.py",
                                    "live_runtime_discovery.py"}),
        !.forbids = {AppJs}]

DiscoveryScheduler ==
    [LooksAt EXCEPT
        !.requires = Cockpit \cup
                     At("backend", {"main.py", "discovery_daemon.py"})]

MeshSentinel ==
    [LooksAt EXCEPT
        !.requires = Cockpit \cup {Styles, MainPy, RootPackage, FeatureMap}
                     \cup At("backend", {"mesh_sentinel.py"}),
        !.forbids = Cockpit]

MissionControlPond == [LooksAt EXCEPT !.requires = Cockpit \cup {Styles}]

AgentFlightDeck == [LooksAt EXCEPT !.requires = Cockpit \cup {Styles}]

DeviceSwarmPrototype ==
    [LooksAt EXCEPT
        !.requires = Cockpit \cup {Styles, MainPy, RootPackage} \cup
                     At("backend", {"swarm_device_mesh.py"}) \cup
                     At("artifacts/ui", {"hoch_10_device_swarm_prototype.html"})]

AgentSpawnRuntime ==
    [LooksAt EXCEPT !.requires = {MainPy, AppJs, Backend}]

ModelLifecycle ==
    [LooksAt EXCEPT !.requires = {MainPy, RootPackage} \cup
                                 At("backend", {"model_lifecycle.py"})]

ModelImprovement ==
    [LooksAt EXCEPT !.requires = {MainPy, RootPackage} \cup
                                 At("backend", {"model_improvement.py"})]

UbiquitiInventory ==
    [LooksAt EXCEPT !.requires = {MainPy, RootPackage} \cup
                                 At("backend", {"ubiquiti_inventory.py"})]

\* npm runs them in this order and stops at the first that fails.
InterfaceChain ==
    <<NoTailwindCdn, NavContract, NavLive, ViewContent, FrontendEntrypoint,
      KimiComicSwarm, GlobalSwarmAnimation, TopologyAgentOverlay,
      TopologyAnimation, CybersecurityFactory, FullPageSwarmAudit,
      RuntimeLedgerDb, BackendRuntimeApi, RuntimeEventSchema,
      CapabilityEnforcement, ReleaseSigningPolicy, ReleaseChannelGovernance,
      OperatorGovernanceCockpit, CandidateReleasePacket, FormalReleasePreview,
      FormalReleaseApproval, FormalReleaseSealDryRun, ReleaseSealAttestation,
      DeviceRegistry, DeviceServiceRegistry, CapabilityRouting,
      DeviceServiceLease, ModelProviderRegistry, CrewaiIngestionBridge,
      EvidenceGraph, ArchivePreview, ModelRouter, KoiAnimation,
      LiveRuntimeKoi, DetectionEngineering, LiveRuntimeInstrument,
      AiRuntimeDiscovery, DiscoveryScheduler, MeshSentinel,
      MissionControlPond, AgentFlightDeck, DeviceSwarmPrototype,
      AgentSpawnRuntime, ModelLifecycle, ModelImprovement, UbiquitiInventory>>
=============================================================================
