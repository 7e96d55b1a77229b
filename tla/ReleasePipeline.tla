--------------------------- MODULE ReleasePipeline ---------------------------
(* The release scripts of package.json: npm chains of node scripts that     *)
(* share nothing but files (dist/, dist/releases/<version>/, artifacts/qa/) *)
(* and a backend they query.  A chain stops at its first failing script and *)
(* leaves what was written before; any script may also be killed.  The next *)
(* command starts from whatever files are there.                            *)
(*                                                                          *)
(* A file is known by the write that produced it: every generated file      *)
(* carries a timestamp, so two writes never have equal bytes, and sha256    *)
(* identifies the write.                                                    *)
EXTENDS Naturals, Sequences

CONSTANTS
    MaxCommands,    \* bound: npm commands started
    MaxChanges      \* bound: changes of the backend's answers, decision memos
                    \* written, scripts' requests and cosign calls that fail

ASSUME BoundsAssumption == MaxCommands \in Nat /\ MaxChanges \in Nat

\* "approval_report" stands for the three reports that are fetched, required
\* and signed alike; the budget report is fetched and listed only.
Fetched == {"runtime_audit", "approval_report", "budget_report"}
Copied  == {"pack", "pack.sha256"}
Made    == {"provenance", "sbom"}
Report  == "verification_report"
Listable == Copied \cup Made \cup Fetched \cup {Report, "decision_memo"}  \* candidateArtifacts
Required == Copied \cup Made \cup (Fetched \ {"budget_report"})
SignOrder == <<"pack", "manifest", "provenance", "sbom", "runtime_audit", "approval_report">>
Signed   == {SignOrder[i] : i \in DOMAIN SignOrder}
QA       == {"localhost_audit", "runtime_evidence", "scorecard"}
Files    == {"dist/pack", "dist/pack.sha256"} \cup Listable \cup QA

Scripts ==
    [release   |-> <<"validate_api", "validate_audit", "digests", "evidence", "checksum", "evaluate",
                     "sbom", "provenance", "collect", "manifest", "verify", "sign">>,
     manifest  |-> <<"collect", "manifest">>,
     verify    |-> <<"verify">>,
     sign      |-> <<"sign">>,
     candidate |-> <<"candidate">>,
     score     |-> <<"readiness_score">>,
     readiness |-> <<"audit_localhost", "validate_evidence", "readiness_score">>]

VARIABLES
    backend,    \* what the server on localhost:8000 answers
    file,       \* the files: which write, its status and what it refers to
    manifest,   \* release_manifest.json
    sig,        \* the artifacts with a .sig beside them
    signing,    \* how many artifacts the running signing script is through with
    packet,     \* candidate_packet_manifest.json of the last candidate packet
    cmd,        \* the npm command that runs, or ran last
    pc,         \* which of its scripts runs, 0: none
    changes
vars == <<backend, file, manifest, sig, signing, packet, cmd, pc, changes>>

Verdict == {"PASS", "BLOCK"}
Checks  == {"PASS", "WARN", "BLOCK"}        \* the audit, policy and database endpoints
Write   == 0 .. 2 * MaxCommands + MaxChanges
Jobs    == {"ok", "untraced", "blocked"}    \* HOCHSTER cluster jobs
Waivers == {"local_signing", "formal_signing", "governance"}
Channel == {"local_dev", "candidate", "formal"}
Tree    == {"aligned", "untagged", "dirty"} \* aligned: clean, the tag at its head
Backend == [up : BOOLEAN, lock : Verdict, audit : Verdict, jobs : Jobs, checks : Checks,
            formal : BOOLEAN,                   \* FORMAL_RELEASE or GITHUB_ACTIONS
            tree : Tree,
            waivers : SUBSET Waivers,           \* the approved waiver gates
            forced : BOOLEAN,                   \* RELEASE_CHANNEL is "formal"
            decided : Channel \cup {"none"}]    \* the newest channel decision, if approved
Content == [by : Write, status : Verdict \cup {"none"}, of : Write, jobs : Jobs, checks : Checks]
Absent  == [by |-> 0, status |-> "none", of |-> 0, jobs |-> "ok", checks |-> "PASS"]
NoManifest ==
    [by |-> 0, decision |-> "BLOCK", hash |-> [f \in Listable |-> 0], jobs |-> "ok",
     signature |-> "unsigned", finalization |-> "local_dev_pass"]
NoPacket == [ready |-> FALSE, waived |-> FALSE]

Exists(f) == file[f].by # 0
Passes(f) == Exists(f) /\ file[f].status = "PASS"
Running   == pc # 0
Doing(script) == Running /\ Scripts[cmd.name][pc] = script

\* The writes of command n are 2n-1 and 2n; only the evidence pack takes two.
Last  == 2 * cmd.n
First == 2 * cmd.n - 1
Wrote(f, status, of) ==
    [file EXCEPT ![f] = [Absent EXCEPT !.by = Last, !.status = status, !.of = of]]

LastScript == pc = Len(Scripts[cmd.name])
Proceed == /\ pc' = IF LastScript THEN 0 ELSE pc + 1
           /\ cmd' = [cmd EXCEPT !.green = LastScript]
Stop    == pc' = 0 /\ UNCHANGED cmd          \* && : the rest does not run
ExitIf(ok) == IF ok THEN Proceed ELSE Stop

\* something fails by itself, or nothing does
Fails(failed) == /\ failed => changes < MaxChanges
                 /\ changes' = IF failed THEN changes + 1 ELSE changes
-----------------------------------------------------------------------------
(* baseline:hardening *)

ValidateApi ==
    Doing("validate_api") /\ ExitIf(backend.up)
    /\ UNCHANGED <<backend, file, manifest, sig, signing, packet, changes>>

ValidateAudit ==
    /\ Doing("validate_audit")
    /\ ExitIf(backend.up /\ backend.lock = "PASS")
    /\ UNCHANGED <<backend, file, manifest, sig, signing, packet, changes>>

\* Missing image digests stop the chain under CI=true only.
CaptureDigests ==
    Doing("digests") /\ (Proceed \/ Stop)
    /\ UNCHANGED <<backend, file, manifest, sig, signing, packet, changes>>

\* The decision is written, not exited with: a BLOCK pack is checksummed next.
PackDecision == IF backend.lock = "PASS" /\ backend.jobs # "untraced" THEN "PASS" ELSE "BLOCK"
EvidenceGenerated ==
    [file EXCEPT !["dist/pack"] = [by |-> First, status |-> PackDecision, of |-> 0,
                                   jobs |-> backend.jobs, checks |-> "PASS"]]
GenerateEvidence ==
    /\ Doing("evidence")
    /\ IF backend.up THEN file' = EvidenceGenerated /\ Proceed
                     ELSE Stop /\ UNCHANGED file
    /\ UNCHANGED <<backend, manifest, sig, signing, packet, changes>>

\* The checksum is of the bytes before the integrity block is injected into
\* them; a kill in between leaves the pack as it was hashed.
PackHashed == Wrote("dist/pack.sha256", "none", file["dist/pack"].by)
ChecksumPack ==
    /\ Doing("checksum")
    /\ \/ /\ file' = [PackHashed EXCEPT !["dist/pack"].by = Last]
          /\ Proceed
       \/ file' = PackHashed /\ Stop
    /\ UNCHANGED <<backend, manifest, sig, signing, packet, changes>>

EvaluateGate ==
    /\ Doing("evaluate")
    /\ ExitIf(Passes("dist/pack") /\ file["dist/pack"].jobs # "blocked")
    /\ UNCHANGED <<backend, file, manifest, sig, signing, packet, changes>>

-----------------------------------------------------------------------------
(* supply:release *)

GenerateSbom ==
    /\ Doing("sbom")
    /\ file' = Wrote("sbom", "none", 0)
    /\ Proceed
    /\ UNCHANGED <<backend, manifest, sig, signing, packet, changes>>

\* The subject is the pack in the release directory, copied there only when
\* it holds none: that of an earlier release is attested again.
Attested == IF Exists("pack") THEN file["pack"] ELSE file["dist/pack"]
CopiedForProvenance ==
    IF Exists("pack") THEN file
    ELSE [file EXCEPT !["pack"] = file["dist/pack"], !["pack.sha256"] = file["dist/pack.sha256"]]
GenerateProvenance ==
    /\ Doing("provenance")
    /\ file' = [CopiedForProvenance EXCEPT
                   !["provenance"] = [Absent EXCEPT !.by = Last, !.of = Attested.by]]
    /\ Proceed
    /\ UNCHANGED <<backend, manifest, sig, signing, packet, changes>>

\* where the hardening left what is copied
Dist(f) == IF f = "pack" THEN "dist/pack" ELSE "dist/pack.sha256"

\* Mutant of Collected: what the release directory holds is not copied again.
CollectedOnce(got) ==
    [f \in Files |->
        IF f \in Copied /\ ~Exists(f) THEN file[Dist(f)]
        ELSE IF f \in got THEN [Absent EXCEPT !.by = Last, !.status = backend.audit]
        ELSE file[f]]

\* copyIfExists, then fetchAndSave: a request that fails (each on its own)
\* leaves the report of an earlier run where it is.
Collected(got) ==
    [f \in Files |->
        IF f \in Copied /\ Exists(Dist(f)) THEN file[Dist(f)]
        ELSE IF f \in got THEN [Absent EXCEPT !.by = Last, !.status = backend.audit]
        ELSE file[f]]
CollectArtifacts ==
    /\ Doing("collect")
    /\ \E got \in SUBSET Fetched :
           /\ got = {} \/ backend.up
           /\ Fails(backend.up /\ got # Fetched)
           /\ file' = Collected(got)
    /\ Proceed
    /\ UNCHANGED <<backend, manifest, sig, signing, packet>>

\* What the three endpoints count alike: a .sig file counts, whatever it was
\* made of.
Present(f) == IF f = "manifest" THEN manifest.by # 0 ELSE Exists(f)

\* Mutant of AllSigned: one signature suffices.
AnySigned == \E f \in Signed : Present(f) /\ f \in sig

AllSigned == /\ \E f \in Signed : Present(f)
             /\ \A f \in Signed : Present(f) => f \in sig
SomeSigned == \E f \in Signed : Present(f) /\ f \in sig

\* get_release_signing_policy: a waiver counts for its own kind of release.
SignatureStatus ==
    IF (IF backend.formal THEN "formal_signing" ELSE "local_signing") \in backend.waivers
    THEN "waived"
    ELSE IF AllSigned THEN "signed" ELSE IF SomeSigned THEN "partially_signed" ELSE "unsigned"

\* The other two endpoints take any of the two signing waivers.
SigningWaived    == backend.waivers \cap {"local_signing", "formal_signing"} # {}
GovernanceWaived == "governance" \in backend.waivers

\* The governance waiver covers the verification report as well.
Governed == GovernanceWaived \/ (backend.tree = "aligned" /\ Passes(Report))

\* get_release_channel_governance
ReleaseChannel == IF backend.forced THEN "formal"
                  ELSE IF backend.decided = "none" THEN "local_dev" ELSE backend.decided
ChannelReady ==
    /\ Governed
    /\ backend.formal => AllSigned \/ SigningWaived
    /\ ReleaseChannel = "formal" => backend.decided # "none"
Finalization ==
    CASE ReleaseChannel = "local_dev" -> "local_dev_pass"
      [] ~ChannelReady -> "formal_release_blocked"
      [] OTHER -> IF ReleaseChannel = "formal" THEN "formal_release_ready" ELSE "candidate_ready"

ManifestBlocked == ~(Exists("pack") /\ Exists("pack.sha256") /\ Passes("runtime_audit"))
Hashes == [f \in Listable |-> file[f].by]
ManifestOf(policy, governance) ==
    [by |-> Last, decision |-> IF ManifestBlocked THEN "BLOCK" ELSE "PASS", hash |-> Hashes,
     jobs |-> file["pack"].jobs,
     signature |-> IF policy THEN SignatureStatus ELSE "unsigned",
     finalization |-> IF governance THEN Finalization ELSE "local_dev_pass"]
\* The manifest is written also when its decision is BLOCK.
GenerateManifest ==
    /\ Doing("manifest")
    /\ \E policy, governance \in BOOLEAN :
           /\ (policy \/ governance) => backend.up
           /\ Fails(backend.up /\ ~(policy /\ governance))
           /\ manifest' = ManifestOf(policy, governance)
    /\ ExitIf(~ManifestBlocked)
    /\ UNCHANGED <<backend, file, sig, signing, packet>>

\* Mutant of HashMismatch: a file the manifest does not list mismatches too.
HashMismatchOfUnlisted == \E f \in Listable : manifest.hash[f] # file[f].by
HashMismatch == \E f \in Listable : manifest.hash[f] \notin {0, file[f].by}
\* Mutant of MissingRequired: only what the backend reports is required.
MissingFetched == \E f \in Fetched : ~Exists(f)
MissingRequired == \E f \in Required : ~Exists(f)
AuditBlocked    == Exists("runtime_audit") /\ ~Passes("runtime_audit")
FormalBlocked ==
    /\ cmd.formal
    /\ \/ manifest.signature \notin {"signed", "waived"}
       \/ manifest.finalization = "formal_release_blocked"
VerifyBlocked ==
    HashMismatch \/ MissingRequired \/ AuditBlocked \/ manifest.jobs # "ok" \/ FormalBlocked
\* The verdict replaces the previous one, which the manifest may have hashed.
VerifyArtifacts ==
    /\ Doing("verify")
    /\ IF manifest.by = 0
       THEN Stop /\ UNCHANGED file
       ELSE /\ file' = Wrote(Report, IF VerifyBlocked THEN "BLOCK" ELSE "PASS", 0)
            /\ ExitIf(~VerifyBlocked)
    /\ UNCHANGED <<backend, manifest, sig, signing, packet, changes>>

\* The artifacts that exist are signed one after another; a cosign that fails
\* is a warning, and what is killed in between leaves the .sig files so far.
SignArtifact ==
    /\ Doing("sign") /\ cmd.cosign /\ signing < Len(SignOrder)
    /\ signing' = signing + 1
    /\ LET f == SignOrder[signing + 1]
       IN  IF Present(f)
           THEN \/ sig' = sig \cup {f} /\ Fails(FALSE)
                \/ sig' = sig /\ Fails(TRUE)
           ELSE sig' = sig /\ Fails(FALSE)
    /\ UNCHANGED <<backend, file, manifest, packet, cmd, pc>>

SigningEnds ==
    /\ Doing("sign") /\ (cmd.cosign => signing = Len(SignOrder))
    /\ signing' = 0
    /\ Proceed
    /\ UNCHANGED <<backend, file, manifest, sig, packet, changes>>

-----------------------------------------------------------------------------
(* candidate:release-packet and qa:readiness *)

\* Mutant of PacketReady: the report is not asked for.
PacketReadyUnverified ==
    backend.up /\ (GovernanceWaived \/ backend.tree = "aligned") /\ (AllSigned \/ SigningWaived)

\* The blockers of get_governance_summary replace the script's own.  Without
\* the backend no tag is known, so the packet cannot be ready.
PacketReady == backend.up /\ Governed /\ (AllSigned \/ SigningWaived)
CandidatePacket ==
    /\ Doing("candidate")
    /\ packet' = [ready |-> PacketReady, waived |-> GovernanceWaived]
    /\ Proceed
    /\ UNCHANGED <<backend, file, manifest, sig, signing, changes>>

\* Mutant of LocalhostVerdict: findings of the lock only warn.
LocalhostVerdictWarns == IF ~backend.up THEN "BLOCK"
                         ELSE IF backend.lock = "PASS" THEN "PASS" ELSE "WARN"

LocalhostVerdict ==
    IF /\ backend.up /\ backend.lock = "PASS" /\ backend.jobs = "ok"
       /\ backend.checks # "BLOCK"
    THEN "PASS" ELSE "BLOCK"
LocalhostChecks == IF backend.up THEN backend.checks ELSE "BLOCK"
AuditLocalhost ==
    /\ Doing("audit_localhost")
    /\ file' = [Wrote("localhost_audit", LocalhostVerdict, 0)
                    EXCEPT !["localhost_audit"].checks = LocalhostChecks]
    /\ ExitIf(LocalhostVerdict = "PASS")
    /\ UNCHANGED <<backend, manifest, sig, signing, packet, changes>>

\* Mutant of ValidateEvidence: a request that fails is only reported.
ValidateEvidenceWarns ==
    /\ Doing("validate_evidence")
    /\ IF backend.up THEN /\ file' = Wrote("runtime_evidence", backend.audit, 0)
                          /\ ExitIf(backend.audit = "PASS")
                     ELSE Proceed /\ UNCHANGED file
    /\ UNCHANGED <<backend, manifest, sig, signing, packet, changes>>

\* A request that fails leaves the report of an earlier run.
ValidateEvidence ==
    /\ Doing("validate_evidence")
    /\ IF backend.up THEN /\ file' = Wrote("runtime_evidence", backend.audit, 0)
                          /\ ExitIf(backend.audit = "PASS")
                     ELSE Stop /\ UNCHANGED file
    /\ UNCHANGED <<backend, manifest, sig, signing, packet, changes>>

\* 95 of 100 points.  The audit's own verdict is not read: what its audit,
\* policy and database checks came to is, and a warning of the database costs
\* ten points.  (Slow answers cost two, and the workflow file is there.)
ScorePasses ==
    /\ Exists("localhost_audit") /\ file["localhost_audit"].checks = "PASS"
    /\ Passes("runtime_evidence")
ReadinessScore ==
    /\ Doing("readiness_score")
    /\ file' = Wrote("scorecard", IF ScorePasses THEN "PASS" ELSE "BLOCK", 0)
    /\ ExitIf(ScorePasses)
    /\ UNCHANGED <<backend, manifest, sig, signing, packet, changes>>

-----------------------------------------------------------------------------
Init ==
    /\ backend \in [up : {TRUE}, lock : {"PASS"}, audit : {"PASS"}, jobs : {"ok"},
                    checks : {"PASS"}, formal : BOOLEAN, tree : {"aligned"}, waivers : {{}},
                    forced : BOOLEAN, decided : {"none"}]
    /\ file = [f \in Files |-> Absent]
    /\ manifest = NoManifest
    /\ sig = {}
    /\ signing = 0
    /\ packet = NoPacket
    /\ cmd = [n |-> 0, name |-> "none", formal |-> FALSE, cosign |-> FALSE, green |-> FALSE]
    /\ pc = 0
    /\ changes = 0

\* npm run <name>, with or without FORMAL_RELEASE / ENABLE_COSIGN_SIGNING.
Start(name) ==
    /\ ~Running /\ cmd.n < MaxCommands
    /\ \E formal, cosign \in BOOLEAN :
           /\ formal => name \in {"release", "verify"}
           /\ cosign => name \in {"release", "sign"}
           /\ cmd' = [n |-> cmd.n + 1, name |-> name, formal |-> formal, cosign |-> cosign,
                      green |-> FALSE]
    /\ pc' = 1
    /\ UNCHANGED <<backend, file, manifest, sig, signing, packet, changes>>

\* Ctrl-C, or a script that dies before it writes.
Killed ==
    /\ Running
    /\ signing' = 0
    /\ Stop
    /\ UNCHANGED <<backend, file, manifest, sig, packet, changes>>

\* What the endpoints report of the lock, the runtime, the jobs and the rest.
FindingsChange ==
    \/ \E v \in Verdict : backend' = [backend EXCEPT !.lock = v]
    \/ \E v \in Verdict : backend' = [backend EXCEPT !.audit = v]
    \/ \E j \in Jobs : backend' = [backend EXCEPT !.jobs = j]
    \/ \E v \in Checks : backend' = [backend EXCEPT !.checks = v]

\* A waiver is approved: a local one at once, the others by their gate.
WaiverApproved == \E w \in Waivers : backend' = [backend EXCEPT !.waivers = @ \cup {w}]

\* A channel is requested; the formal one awaits its gate first.
ChannelDecided ==
    \/ \E c \in {"none", "local_dev", "formal"} : backend' = [backend EXCEPT !.decided = c]
    \/ /\ Passes(Report) /\ backend.tree # "dirty"
       /\ backend' = [backend EXCEPT !.decided = "candidate"]

\* The server is stopped or started; work goes on, or is tagged.
ServerStopsOrStarts == backend' = [backend EXCEPT !.up = ~@]
TreeChanges == \E t \in Tree : backend' = [backend EXCEPT !.tree = t]

BackendChanges ==
    /\ changes < MaxChanges
    /\ changes' = changes + 1
    /\ \/ ServerStopsOrStarts \/ TreeChanges
       \/ backend.up /\ (FindingsChange \/ WaiverApproved \/ ChannelDecided)
    /\ UNCHANGED <<file, manifest, sig, signing, packet, cmd, pc>>

\* The decision memo is nobody's output: it is put into the directory by hand.
MemoWritten ==
    /\ changes < MaxChanges
    /\ changes' = changes + 1
    /\ file' = [file EXCEPT !["decision_memo"] =
                    [Absent EXCEPT !.by = 2 * MaxCommands + changes']]
    /\ UNCHANGED <<backend, manifest, sig, signing, packet, cmd, pc>>

Script ==
    \/ ValidateApi \/ ValidateAudit \/ CaptureDigests \/ GenerateEvidence \/ ChecksumPack
    \/ EvaluateGate \/ GenerateSbom \/ GenerateProvenance \/ CollectArtifacts
    \/ GenerateManifest \/ VerifyArtifacts \/ SignArtifact \/ SigningEnds \/ CandidatePacket
    \/ AuditLocalhost \/ ValidateEvidence \/ ReadinessScore

Next == Script \/ Killed \/ BackendChanges \/ MemoWritten \/ \E name \in DOMAIN Scripts : Start(name)

Spec == Init /\ [][Next]_vars

-----------------------------------------------------------------------------
TypeOK ==
    /\ backend \in Backend
    /\ file \in [Files -> Content]
    /\ manifest \in [by : Write, decision : Verdict, hash : [Listable -> Write],
                     jobs : Jobs,
                     signature : {"unsigned", "partially_signed", "signed", "waived"},
                     finalization : {"local_dev_pass", "candidate_ready", "formal_release_ready",
                                     "formal_release_blocked"}]
    /\ sig \subseteq Signed
    /\ signing \in 0 .. Len(SignOrder)
    /\ packet \in [ready : BOOLEAN, waived : BOOLEAN]
    /\ cmd \in [n : 0 .. MaxCommands, name : DOMAIN Scripts \cup {"none"}, formal : BOOLEAN,
                cosign : BOOLEAN, green : BOOLEAN]
    /\ Running => cmd.name \in DOMAIN Scripts /\ pc \in DOMAIN Scripts[cmd.name]
    /\ changes \in 0 .. MaxChanges

\* The command ran all its scripts.
Ended(name) == cmd.name = name /\ cmd.green

\* A supply:release that ended green left a release directory that agrees with
\* itself: the manifest passed, every file it lists has the hash it lists, the
\* verification report apart (which the check rewrote), and pack, provenance,
\* SBOM, manifest and verdict are of this very run, whatever earlier runs left.
GreenReleaseAgrees ==
    Ended("release") =>
        /\ manifest.decision = "PASS"
        /\ Passes(Report) /\ Passes("runtime_audit")
        /\ \A f \in Required : manifest.hash[f] = file[f].by
        /\ {file[f].by : f \in Copied \cup Made \cup {Report}} \cup {manifest.by} = {Last}

\* A PASS verdict never stands beside a release directory that lacks a
\* required artifact, whichever commands were run, killed or repeated since;
\* nor does a candidate packet that counts as ready for a formal release,
\* unless a governance waiver was approved: that one waives the verdict too.
VerdictMeansComplete ==
    Passes(Report) \/ (packet.ready /\ ~packet.waived) => \A f \in Required : Exists(f)

\* A manifest that says "signed" has a .sig beside every artifact it lists,
\* whichever cosign calls failed and wherever the signing was killed; and a
\* formal release that ended green is waived or has one beside every artifact
\* but the manifest, which may have been absent when the others were counted.
\* (Which bytes a .sig was made of is nobody's question: see README.)
FormalIsSigned ==
    /\ manifest.signature = "signed" =>
          \A f \in Signed \ {"manifest"} : manifest.hash[f] # 0 => f \in sig
    /\ Ended("release") /\ cmd.formal =>
          manifest.signature = "waived" \/ Signed \ {"manifest"} \subseteq sig

\* A green qa:readiness rests on reports its own run wrote, not on those an
\* earlier run left behind.
ReadinessOfThisRun ==
    Ended("readiness") => \A f \in QA : Passes(f) /\ file[f].by = Last

\* supply:verify right after a green supply:release repeats its verdict when
\* the manifest had no older verification report to list, and nobody has put
\* another decision memo there.
VerifiedInPreviousCommand ==
    /\ Passes(Report) /\ file[Report].by = Last - 2
    /\ manifest.by = Last - 2 /\ manifest.hash[Report] = 0
    /\ manifest.hash["decision_memo"] \in {0, file["decision_memo"].by}
VerifyRepeats ==
    [][ cmd.name = "verify" /\ VerifyArtifacts /\ VerifiedInPreviousCommand /\ ~cmd.formal
            => file'[Report].status = "PASS" ]_vars
=============================================================================
