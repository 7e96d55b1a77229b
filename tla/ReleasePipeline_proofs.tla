----------------------- MODULE ReleasePipeline_proofs -----------------------
(***************************************************************************)
(* Proofs about the release scripts, for any number of commands and of     *)
(* changes and failures.  What a green command promises is the sum of      *)
(* what its scripts wrote, so the invariant says which writes of the       *)
(* running command are on disk by its position in the chain; and since the *)
(* next command starts from the files of the last one, it also says what   *)
(* a verdict, a packet and a pair of manifest and verdict stand for after  *)
(* their command is gone.                                                  *)
(***************************************************************************)
EXTENDS ReleasePipeline, TLAPS

\* supply:release has script k behind it.
Past(k) == cmd.name = "release" /\ (pc > k \/ cmd.green)

\* This run of qa:readiness has script k behind it.
Ready(k) == cmd.name = "readiness" /\ (pc > k \/ cmd.green)

\* The files that the scripts write: the decision memo is put there by hand.
Generated == Files \ {"decision_memo"}

OfThisRun(f) == file[f].by = Last
PassesNow(f) == file[f].status = "PASS" /\ OfThisRun(f)

\* Nothing on disk is newer than the command, and the verdict is older until
\* a verification has run.
Dated ==
    /\ Running => cmd.n > 0 /\ ~cmd.green
    /\ cmd.green => cmd.n > 0
    /\ \A f \in Generated : file[f].by <= Last
    /\ manifest.by <= Last
    /\ Running /\ ~(cmd.name = "release" /\ pc = 12) => file[Report].by < Last

\* What the manifest says of the files that make a release.
Recorded ==
    /\ manifest.by = Last /\ manifest.decision = "PASS"
    /\ Passes("runtime_audit")
    /\ \A f \in Required : manifest.hash[f] = file[f].by

\* What "signed" means in a manifest.
Counted ==
    manifest.signature = "signed" =>
        \A f \in Signed \ {"manifest"} : manifest.hash[f] # 0 => f \in sig

Judged ==
    /\ PassesNow(Report)
    /\ \A f \in Required : Exists(f)
    /\ cmd.formal => manifest.signature \in {"signed", "waived"}

\* What a release has written by each of its scripts.
Built ==
    /\ Past(5) => OfThisRun("dist/pack") /\ OfThisRun("dist/pack.sha256")
    /\ Past(7) => OfThisRun("sbom")
    /\ Past(8) => OfThisRun("provenance")
    /\ Past(9) => OfThisRun("pack") /\ OfThisRun("pack.sha256")
    /\ Past(10) => Recorded
    /\ Past(11) => Judged

Audited ==
    /\ Ready(1) => PassesNow("localhost_audit")
    /\ Ready(2) => PassesNow("runtime_evidence")
    /\ Ready(3) => PassesNow("scorecard")

\* Nothing but the report itself, and a memo, stands between the directory and
\* a verdict.
Verified ==
    /\ \A f \in Listable \ {Report, "decision_memo"} : manifest.hash[f] \in {0, file[f].by}
    /\ \A f \in Required : Exists(f)
    /\ file["runtime_audit"].status = "PASS"
    /\ manifest.jobs = "ok"

\* A PASS verdict of the command that also wrote the manifest means so, and
\* does so still when the next command is a verification.
Repeatable ==
    /\ Passes(Report) /\ OfThisRun(Report) /\ manifest.by = Last => Verified
    /\ cmd.name = "verify" /\ Running /\ Passes(Report)
          /\ file[Report].by = Last - 2 /\ manifest.by = Last - 2 => Verified

IInv == TypeOK /\ Dated /\ Built /\ Audited /\ Repeatable /\ Counted /\ VerdictMeansComplete

-----------------------------------------------------------------------------
(* Where the scripts stand in their chains, and what ending one does *)

\* The chains, script by script.
LEMMA Chains ==
    /\ Scripts["release"] = <<"validate_api", "validate_audit", "digests", "evidence", "checksum",
                              "evaluate", "sbom", "provenance", "collect", "manifest", "verify",
                              "sign">>
    /\ Scripts["manifest"] = <<"collect", "manifest">>
    /\ Scripts["verify"] = <<"verify">>
    /\ Scripts["sign"] = <<"sign">>
    /\ Scripts["candidate"] = <<"candidate">>
    /\ Scripts["score"] = <<"readiness_score">>
    /\ Scripts["readiness"] = <<"audit_localhost", "validate_evidence", "readiness_score">>
    /\ DOMAIN Scripts = {"release", "manifest", "verify", "sign", "candidate", "score", "readiness"}
  BY DEF Scripts

\* The running script has a number.
LEMMA Numbered ==
    ASSUME TypeOK, Running
    PROVE  pc \in Nat /\ pc # 0
  <1>1. \A name \in DOMAIN Scripts : Len(Scripts[name]) \in Nat
                                    /\ DOMAIN Scripts[name] = 1..Len(Scripts[name])
    BY Chains
  <1>2. cmd.name \in DOMAIN Scripts /\ pc \in DOMAIN Scripts[cmd.name]
    BY DEF TypeOK
  <1> QED
    BY <1>1, <1>2

\* A script runs at its place in a chain only.
LEMMA Places ==
    ASSUME TypeOK, Running
    PROVE  /\ Doing("validate_api") => cmd.name = "release" /\ pc = 1
           /\ Doing("validate_audit") => cmd.name = "release" /\ pc = 2
           /\ Doing("digests") => cmd.name = "release" /\ pc = 3
           /\ Doing("evidence") => cmd.name = "release" /\ pc = 4
           /\ Doing("checksum") => cmd.name = "release" /\ pc = 5
           /\ Doing("evaluate") => cmd.name = "release" /\ pc = 6
           /\ Doing("sbom") => cmd.name = "release" /\ pc = 7
           /\ Doing("provenance") => cmd.name = "release" /\ pc = 8
           /\ Doing("collect") => \/ cmd.name = "release" /\ pc = 9
                                  \/ cmd.name = "manifest" /\ pc = 1
           /\ Doing("manifest") => \/ cmd.name = "release" /\ pc = 10
                                   \/ cmd.name = "manifest" /\ pc = 2
           /\ Doing("verify") => \/ cmd.name = "release" /\ pc = 11
                                 \/ cmd.name = "verify" /\ pc = 1
           /\ Doing("sign") => \/ cmd.name = "release" /\ pc = 12
                               \/ cmd.name = "sign" /\ pc = 1
           /\ Doing("candidate") => cmd.name = "candidate" /\ pc = 1
           /\ Doing("audit_localhost") => cmd.name = "readiness" /\ pc = 1
           /\ Doing("validate_evidence") => cmd.name = "readiness" /\ pc = 2
           /\ Doing("readiness_score") =>
                 (cmd.name = "readiness" /\ pc = 3) \/ (cmd.name = "score" /\ pc = 1)
  <1>1. PICK script : script = Scripts[cmd.name][pc]
    OBVIOUS
  <1>2. \A name : Doing(name) => name = script
    BY <1>1 DEF Doing
  <1>3. CASE cmd.name = "release"
    <2>1. pc \in 1..12
      BY <1>3, Chains DEF TypeOK
    <2> QED
      BY <1>1, <1>2, <1>3, <2>1, Chains
  <1>4. CASE cmd.name = "manifest"
    <2>1. pc \in 1..2
      BY <1>4, Chains DEF TypeOK
    <2> QED
      BY <1>1, <1>2, <1>4, <2>1, Chains
  <1>5. CASE cmd.name \in {"verify", "sign", "candidate", "score"}
    <2>1. pc = 1
      BY <1>5, Chains DEF TypeOK
    <2> QED
      BY <1>1, <1>2, <1>5, <2>1, Chains
  <1>6. CASE cmd.name = "readiness"
    <2>1. pc \in 1..3
      BY <1>6, Chains DEF TypeOK
    <2> QED
      BY <1>1, <1>2, <1>6, <2>1, Chains
  <1> QED
    BY <1>3, <1>4, <1>5, <1>6, Chains DEF TypeOK

\* The end of a script leaves the command as it is but for its result, and
\* only a script that succeeded is behind it.
LEMMA Advance ==
    ASSUME TypeOK, Running, Proceed \/ Stop
    PROVE  /\ cmd' \in [n : 0..MaxCommands, name : DOMAIN Scripts \cup {"none"},
                        formal : BOOLEAN, cosign : BOOLEAN, green : BOOLEAN]
           /\ cmd'.n = cmd.n /\ cmd'.name = cmd.name /\ cmd'.formal = cmd.formal
           /\ Last' = Last
           /\ pc' \in Nat /\ pc' \in {0, pc + 1}
           /\ pc' # 0 => ~cmd'.green /\ pc' \in DOMAIN Scripts[cmd.name] /\ Proceed
           /\ cmd'.green => cmd.green \/ Proceed
  <1>1. cmd.name \in DOMAIN Scripts /\ pc \in DOMAIN Scripts[cmd.name] /\ pc # 0
    BY DEF TypeOK, Running
  <1>2. DOMAIN Scripts[cmd.name] = 1..Len(Scripts[cmd.name]) /\ Len(Scripts[cmd.name]) \in Nat
    BY <1>1, Chains
  <1>3. CASE Stop
    BY <1>3 DEF Stop, TypeOK, Last
  <1>4. CASE Proceed
    <2>1. cmd' = [cmd EXCEPT !.green = LastScript] /\ LastScript \in BOOLEAN
      BY <1>4 DEF Proceed, LastScript
    <2>2. /\ cmd'.n = cmd.n /\ cmd'.name = cmd.name /\ cmd'.formal = cmd.formal
          /\ cmd'.green = LastScript
          /\ cmd' \in [n : 0..MaxCommands, name : DOMAIN Scripts \cup {"none"},
                       formal : BOOLEAN, cosign : BOOLEAN, green : BOOLEAN]
      BY <2>1 DEF TypeOK
    <2>3. Last' = Last
      BY <2>2 DEF Last
    <2>4. pc' = IF LastScript THEN 0 ELSE pc + 1
      BY <1>4 DEF Proceed
    <2> QED
      BY <1>1, <1>2, <1>4, <2>2, <2>3, <2>4 DEF LastScript
  <1> QED
    BY <1>3, <1>4

\* What a script of a release must leave for each part of Built: what the
\* scripts before it wrote, and what it writes itself.
LEMMA Passed ==
    ASSUME IInv, Running, Proceed \/ Stop
    PROVE  /\ \A k \in 1..12 : (cmd'.name = "release" /\ (pc' > k \/ cmd'.green)) =>
                                  cmd.name = "release" /\ pc >= k /\ Proceed
           /\ \A k \in 1..3 : (cmd'.name = "readiness" /\ (pc' > k \/ cmd'.green)) =>
                                  cmd.name = "readiness" /\ pc >= k /\ Proceed
  <1>1. TypeOK /\ Dated
    BY DEF IInv
  <1>2. ~cmd.green
    BY <1>1 DEF Dated
  <1>3. pc \in Nat /\ pc # 0 /\ pc \in DOMAIN Scripts[cmd.name] /\ cmd.name \in DOMAIN Scripts
    BY <1>1, Chains DEF TypeOK, Running
  <1>4. cmd'.green => Proceed /\ LastScript
    BY <1>1, <1>2 DEF Proceed, Stop, TypeOK
  <1>5. pc' > 0 => Proceed /\ pc' = pc + 1
    BY <1>1, <1>3, Advance
  <1>6. cmd'.name = cmd.name /\ pc' \in Nat
    BY <1>1, Advance
  <1>7. cmd.name = "release" /\ LastScript => pc = 12
    BY <1>3, Chains DEF LastScript
  <1>8. cmd.name = "readiness" /\ LastScript => pc = 3
    BY <1>3, Chains DEF LastScript
  <1> QED
    BY <1>3, <1>4, <1>5, <1>6, <1>7, <1>8

\* A script that failed did not succeed: the command does not become green.
LEMMA StopsShort ==
    ASSUME IInv, Running, Stop
    PROVE  ~Proceed
  <1>1. TypeOK /\ ~cmd.green /\ cmd' = cmd /\ pc' = 0
    BY DEF IInv, Dated, Stop
  <1>2. pc \in Nat /\ pc # 0
    BY <1>1, Numbered
  <1>3. Proceed => LastScript /\ cmd'.green
    BY <1>1, <1>2 DEF Proceed, TypeOK
  <1> QED
    BY <1>1, <1>3

-----------------------------------------------------------------------------
(* What the scripts write *)

ManifestType ==
    [by : Write, decision : Verdict, hash : [Listable -> Write], jobs : Jobs,
     signature : {"unsigned", "partially_signed", "signed", "waived"},
     finalization : {"local_dev_pass", "candidate_ready", "formal_release_ready",
                     "formal_release_blocked"}]
PacketType == [ready : BOOLEAN, waived : BOOLEAN]

\* What hardly a script touches.
Elsewhere == /\ UNCHANGED backend
             /\ changes' \in 0..MaxChanges
             /\ signing' \in 0..Len(SignOrder)

\* The numbers of the writes.
LEMMA Writes ==
    ASSUME TypeOK
    PROVE  /\ Last \in Write /\ Last \in Nat /\ cmd.n \in Nat
           /\ 0 \in Write
           /\ cmd.n > 0 => Last > 0 /\ First \in Write \cap Nat /\ First > 0 /\ First < Last
           /\ \A f \in Files : file[f].by \in Nat
           /\ manifest.by \in Nat
  BY BoundsAssumption DEF TypeOK, Write, Last, First, Content

\* Failures are counted up to their bound.
LEMMA Counts ==
    ASSUME TypeOK
    PROVE  /\ UNCHANGED <<backend, signing, changes>> => Elsewhere
           /\ \A failed \in BOOLEAN : Fails(failed) => changes' \in 0..MaxChanges
           /\ Len(SignOrder) = 6 /\ 0 \in 0..Len(SignOrder)
  BY BoundsAssumption DEF TypeOK, Elsewhere, Fails, SignOrder

\* The files that are told apart.
LEMMA FilesAre ==
    /\ Listable \subseteq Files /\ QA \subseteq Files
    /\ {"dist/pack", "dist/pack.sha256"} \subseteq Files
    /\ Required \subseteq Listable \ {Report, "decision_memo"} /\ Report \in Listable
    /\ Copied \subseteq Required /\ Made \subseteq Required /\ Fetched \subseteq Listable \ {Report}
    /\ Generated \subseteq Files /\ Report \in Generated /\ Required \subseteq Generated
    /\ Signed \ {"manifest"} \subseteq Required
    /\ Signed = {"pack", "manifest", "provenance", "sbom", "runtime_audit", "approval_report"}
    /\ "manifest" \notin Files
    /\ Required = {"pack", "pack.sha256", "provenance", "sbom", "runtime_audit", "approval_report"}
  <1>1. Signed = {"pack", "manifest", "provenance", "sbom", "runtime_audit", "approval_report"}
    <2>1. DOMAIN SignOrder = 1..6
      BY DEF SignOrder
    <2> QED
      BY <2>1 DEF Signed, SignOrder
  <1> QED
    BY <1>1 DEF Files, Listable, QA, Required, Copied, Made, Fetched, Report, Generated

\* A write replaces one file by one of this command.
LEMMA WroteIs ==
    ASSUME TypeOK, NEW f \in Files, NEW status \in Verdict \cup {"none"}, NEW of \in Write
    PROVE  /\ Wrote(f, status, of) \in [Files -> Content]
           /\ Wrote(f, status, of)[f].by = Last
           /\ Wrote(f, status, of)[f].status = status
           /\ \A g \in Files \ {f} : Wrote(f, status, of)[g] = file[g]
  <1>1. PICK x : x = [Absent EXCEPT !.by = Last, !.status = status, !.of = of]
    OBVIOUS
  <1>2. x = [by |-> Last, status |-> status, of |-> of, jobs |-> "ok", checks |-> "PASS"]
    BY <1>1 DEF Absent
  <1>3. x \in Content /\ x.by = Last /\ x.status = status
    BY <1>2, Writes DEF Content, Jobs, Checks
  <1>4. Wrote(f, status, of) = [file EXCEPT ![f] = x]
    BY <1>1 DEF Wrote
  <1> QED
    BY <1>3, <1>4 DEF TypeOK

-----------------------------------------------------------------------------
(* The parts of the invariant, for any script *)

\* What is on disk is no newer than the command.
LEMMA OldDates ==
    ASSUME IInv
    PROVE  /\ \A f \in Generated : file[f].by \in 0..Last
           /\ manifest.by \in 0..Last /\ Last \in 0..Last
           /\ Generated \subseteq Files
  BY Writes, FilesAre DEF IInv, Dated

\* Types.
LEMMA Typed ==
    ASSUME IInv, Running, Proceed \/ Stop, Elsewhere,
           file' \in [Files -> Content], manifest' \in ManifestType,
           sig' \subseteq Signed, packet' \in PacketType
    PROVE  TypeOK'
  <1>1. TypeOK /\ cmd.name \in DOMAIN Scripts
    BY DEF IInv, TypeOK
  <1>2. Running' => cmd'.name \in DOMAIN Scripts /\ pc' \in DOMAIN Scripts[cmd'.name]
    BY <1>1, Advance DEF Running
  <1> QED
    BY <1>1, <1>2, Advance DEF TypeOK, Elsewhere, ManifestType, PacketType

\* Dates.
LEMMA StillDated ==
    ASSUME IInv, Running, Proceed \/ Stop,
           \A f \in Generated : file'[f].by \in 0..Last,
           manifest'.by \in 0..Last,
           \/ file'[Report].by = file[Report].by
           \/ Doing("verify")
    PROVE  Dated'
  <1>1. TypeOK /\ Dated
    BY DEF IInv
  <1>2. /\ Running' => cmd'.n > 0 /\ ~cmd'.green
        /\ cmd'.green => cmd'.n > 0
    BY <1>1, Advance DEF Dated, Running
  <1>3. /\ \A f \in Generated : file'[f].by <= Last'
        /\ manifest'.by <= Last'
    BY <1>1, Advance, Writes
  <1>4. ASSUME Running', ~(cmd'.name = "release" /\ pc' = 12)
        PROVE  file'[Report].by < Last'
    <2>1. pc' = pc + 1 /\ cmd'.name = cmd.name /\ pc \in Nat /\ pc # 0
      BY <1>1, <1>4, Advance, Numbered DEF Running
    <2>2. ~(cmd.name = "release" /\ pc = 11)
      BY <1>4, <2>1
    <2>3. ~(cmd.name = "release" /\ pc = 12)
      <3>1. cmd.name = "release" => pc' \in 1..12
        BY <1>1, <1>4, Advance, Chains DEF Running
      <3> QED
        BY <2>1, <3>1
    <2>4. ~(cmd.name = "verify" /\ pc = 1)
      <3>1. cmd.name = "verify" => pc' \in 1..1
        BY <1>1, <1>4, Advance, Chains DEF Running
      <3> QED
        BY <2>1, <3>1
    <2>5. ~Doing("verify")
      BY <1>1, <2>2, <2>4, Places
    <2> QED
      BY <1>1, <2>3, <2>5, Advance DEF Dated
  <1> QED
    BY <1>2, <1>3, <1>4 DEF Dated

\* A directory that is left alone keeps what its verdict stands for.
LEMMA StillRepeatable ==
    ASSUME IInv, Running, Proceed \/ Stop, UNCHANGED manifest,
           \A f \in Listable : file'[f] = file[f]
    PROVE  Repeatable'
  <1>1. Report \in Listable /\ Required \subseteq Listable /\ "runtime_audit" \in Listable
    BY FilesAre
  <1>2. Verified => Verified'
    BY <1>1 DEF Verified, Exists
  <1>3. Passes(Report)' = Passes(Report) /\ OfThisRun(Report)' = OfThisRun(Report)
    BY <1>1, Advance DEF IInv, Passes, OfThisRun, Exists
  <1>4. Last' = Last /\ cmd'.name = cmd.name
    BY Advance DEF IInv
  <1> QED
    BY <1>1, <1>2, <1>3, <1>4 DEF Repeatable, IInv

\* No signature goes.
LEMMA StillCounted ==
    ASSUME IInv, UNCHANGED manifest, sig \subseteq sig'
    PROVE  Counted'
  BY DEF IInv, Counted

\* Files do not go, and a packet becomes ready on a verdict only.
LEMMA StillComplete ==
    ASSUME IInv, UNCHANGED packet,
           \A f \in Required : Exists(f) => file'[f].by # 0,
           file'[Report] = file[Report]
    PROVE  VerdictMeansComplete'
  BY DEF IInv, VerdictMeansComplete, Passes, Exists

\* What a release has behind it after a script that succeeded.
LEMMA StillBuilt ==
    ASSUME IInv, Running, Proceed \/ Stop,
           cmd.name = "release" /\ Proceed =>
              /\ pc >= 5 => file'["dist/pack"].by = Last /\ file'["dist/pack.sha256"].by = Last
              /\ pc >= 7 => file'["sbom"].by = Last
              /\ pc >= 8 => file'["provenance"].by = Last
              /\ pc >= 9 => file'["pack"].by = Last /\ file'["pack.sha256"].by = Last
              /\ pc >= 10 => Recorded'
              /\ pc >= 11 => Judged'
    PROVE  Built'
  <1>1. Last' = Last
    BY Advance DEF IInv
  <1> QED
    BY <1>1, Passed DEF Built, Past, OfThisRun

\* What a run of qa:readiness has behind it after a script that succeeded.
LEMMA StillAudited ==
    ASSUME IInv, Running, Proceed \/ Stop,
           cmd.name = "readiness" /\ Proceed =>
              /\ pc >= 1 => file'["localhost_audit"].status = "PASS"
                            /\ file'["localhost_audit"].by = Last
              /\ pc >= 2 => file'["runtime_evidence"].status = "PASS"
                            /\ file'["runtime_evidence"].by = Last
              /\ pc >= 3 => file'["scorecard"].status = "PASS"
                            /\ file'["scorecard"].by = Last
    PROVE  Audited'
  <1>1. Last' = Last
    BY Advance DEF IInv
  <1> QED
    BY <1>1, Passed DEF Audited, Ready, PassesNow, OfThisRun

-----------------------------------------------------------------------------
(* The scripts *)

\* The types of what a script leaves alone.
LEMMA LeftAlone ==
    ASSUME TypeOK
    PROVE  /\ UNCHANGED file => file' \in [Files -> Content]
           /\ UNCHANGED manifest => manifest' \in ManifestType
           /\ UNCHANGED sig => sig' \subseteq Signed
           /\ UNCHANGED packet => packet' \in PacketType
  BY DEF TypeOK, ManifestType, PacketType

\* What the scripts before it wrote is still behind a script.
LEMMA Behind ==
    ASSUME IInv, cmd.name = "release"
    PROVE  /\ pc > 5 => OfThisRun("dist/pack") /\ OfThisRun("dist/pack.sha256")
           /\ pc > 7 => OfThisRun("sbom")
           /\ pc > 8 => OfThisRun("provenance")
           /\ pc > 9 => OfThisRun("pack") /\ OfThisRun("pack.sha256")
           /\ pc > 10 => Recorded
           /\ pc > 11 => Judged
  BY DEF IInv, Built, Past

\* A script that writes nothing.
LEMMA NothingWritten ==
    ASSUME IInv, Running, Proceed \/ Stop, Elsewhere, UNCHANGED <<file, manifest, sig, packet>>,
           Stop \/ (cmd.name = "release" /\ pc \in {1, 2, 3, 6, 12}) \/ cmd.name = "sign"
    PROVE  IInv'
  <1>1. TypeOK
    BY DEF IInv
  <1>2. \A f \in Generated : file'[f].by \in 0..Last
    BY <1>1, OldDates
  <1>3. TypeOK'
    BY <1>1, LeftAlone, Typed
  <1>4. Dated'
    BY <1>1, <1>2, OldDates, StillDated
  <1>5. Built'
    <2>1. Stop => ~Proceed
      BY StopsShort
    <2>2. /\ Recorded => Recorded'
          /\ Judged => Judged'
      BY <1>1, Advance DEF Recorded, Judged, Passes, PassesNow, OfThisRun, Exists
    <2> QED
      BY <2>1, <2>2, Behind, StillBuilt DEF OfThisRun
  <1>6. Audited'
    <2>1. Stop => ~Proceed
      BY StopsShort
    <2> QED
      BY <2>1, StillAudited
  <1>7. Repeatable'
    BY FilesAre, StillRepeatable
  <1>8. VerdictMeansComplete'
    BY FilesAre, StillComplete DEF Exists
  <1>9. Counted'
    BY StillCounted
  <1> QED
    BY <1>3, <1>4, <1>5, <1>6, <1>7, <1>8, <1>9 DEF IInv

\* The checks of the hardening, the end of the signing, and a kill.
LEMMA ChecksKeep ==
    ASSUME IInv, ValidateApi \/ ValidateAudit \/ CaptureDigests \/ EvaluateGate \/ SigningEnds \/ Killed
    PROVE  IInv'
  <1>1. Running /\ TypeOK
    BY DEF ValidateApi, ValidateAudit, CaptureDigests, EvaluateGate, SigningEnds, Killed, Doing, IInv
  <1>2. Elsewhere /\ UNCHANGED <<file, manifest, sig, packet>>
    BY <1>1, Counts
       DEF ValidateApi, ValidateAudit, CaptureDigests, EvaluateGate, SigningEnds, Killed, Elsewhere,
           TypeOK
  <1>3. Proceed \/ Stop
    BY DEF ValidateApi, ValidateAudit, CaptureDigests, EvaluateGate, SigningEnds, Killed, ExitIf
  <1>4. Stop \/ (cmd.name = "release" /\ pc \in {1, 2, 3, 6, 12}) \/ cmd.name = "sign"
    BY <1>1, Places DEF ValidateApi, ValidateAudit, CaptureDigests, EvaluateGate, SigningEnds, Killed
  <1> QED
    BY <1>1, <1>2, <1>3, <1>4, NothingWritten

\* A script that writes outside the release directory.
LEMMA Outside ==
    ASSUME IInv, Running, Proceed \/ Stop, Elsewhere, UNCHANGED <<manifest, sig, packet>>,
           file' \in [Files -> Content],
           \A f \in Files : file'[f] = file[f] \/ file'[f].by \in {First, Last},
           \A f \in Listable : file'[f] = file[f]
    PROVE  TypeOK' /\ Dated' /\ Repeatable' /\ Counted' /\ VerdictMeansComplete'
  <1>1. TypeOK /\ cmd.n > 0
    BY DEF IInv, Dated
  <1>2. ASSUME NEW f \in Generated
        PROVE  file'[f].by \in 0..Last
    <2>1. f \in Files /\ file[f].by \in 0..Last
      BY <1>1, Writes, FilesAre DEF IInv, Dated
    <2>2. First \in 0..Last /\ Last \in 0..Last
      BY <1>1, Writes
    <2> QED
      BY <2>1, <2>2
  <1>3. TypeOK'
    BY <1>1, LeftAlone, Typed
  <1>4. Dated'
    <2>1. manifest'.by \in 0..Last
      BY <1>1, Writes DEF IInv, Dated
    <2> QED
      BY <1>2, <2>1, FilesAre, StillDated
  <1>5. Repeatable'
    BY StillRepeatable
  <1>6. VerdictMeansComplete'
    BY FilesAre, StillComplete DEF Exists
  <1>7. Counted'
    BY StillCounted
  <1> QED
    BY <1>3, <1>4, <1>5, <1>6, <1>7

\* The evidence pack.
LEMMA GenerateEvidenceKeeps ==
    ASSUME IInv, GenerateEvidence
    PROVE  IInv'
  <1>1. Running /\ TypeOK /\ Elsewhere /\ UNCHANGED <<manifest, sig, packet>>
    BY Counts DEF GenerateEvidence, Doing, IInv
  <1>2. cmd.name = "release" /\ pc = 4 /\ cmd.n > 0
    BY <1>1, Places DEF GenerateEvidence, IInv, Dated
  <1>3. CASE Stop /\ UNCHANGED file
    BY <1>1, <1>3, NothingWritten
  <1>4. CASE Proceed /\ file' = EvidenceGenerated
    <2>1. PICK x : x = [by |-> First, status |-> PackDecision, of |-> 0, jobs |-> backend.jobs,
                       checks |-> "PASS"]
      OBVIOUS
    <2>2. x \in Content /\ x.by = First
      BY <1>1, <1>2, <2>1, Writes DEF Content, PackDecision, Verdict, TypeOK, Backend, Checks
    <2>3. file' = [file EXCEPT !["dist/pack"] = x]
      BY <1>4, <2>1 DEF EvidenceGenerated
    <2>4. /\ file' \in [Files -> Content]
          /\ \A f \in Files : file'[f] = file[f] \/ file'[f].by \in {First, Last}
      BY <1>1, <2>2, <2>3 DEF TypeOK
    <2>5. \A f \in Listable : file'[f] = file[f]
      BY <1>1, <2>3, FilesAre DEF TypeOK, Listable, Copied, Made, Fetched, Report
    <2>6. TypeOK' /\ Dated' /\ Repeatable' /\ Counted' /\ VerdictMeansComplete'
      BY <1>1, <1>4, <2>4, <2>5, Outside
    <2>7. Built' /\ Audited'
      BY <1>1, <1>2, <1>4, StillBuilt, StillAudited
    <2> QED
      BY <2>6, <2>7 DEF IInv
  <1> QED
    BY <1>3, <1>4 DEF GenerateEvidence

\* Its checksum, and its second write.
LEMMA ChecksumPackKeeps ==
    ASSUME IInv, ChecksumPack
    PROVE  IInv'
  <1>1. Running /\ TypeOK /\ Elsewhere /\ UNCHANGED <<manifest, sig, packet>>
    BY Counts DEF ChecksumPack, Doing, IInv
  <1>2. cmd.name = "release" /\ pc = 5 /\ cmd.n > 0
    BY <1>1, Places DEF ChecksumPack, IInv, Dated
  <1>3. PICK hashed : hashed = PackHashed
    OBVIOUS
  <1>4. /\ hashed \in [Files -> Content]
        /\ hashed["dist/pack.sha256"].by = Last
        /\ \A f \in Files \ {"dist/pack.sha256"} : hashed[f] = file[f]
    <2>1. file["dist/pack"].by \in Write
      BY <1>1, FilesAre DEF TypeOK, Content
    <2> QED
      BY <1>1, <1>3, <2>1, FilesAre, WroteIs DEF PackHashed
  <1>5. /\ Proceed \/ Stop
        /\ file' \in [Files -> Content]
        /\ file'["dist/pack.sha256"].by = Last
        /\ \A f \in Files \ {"dist/pack", "dist/pack.sha256"} : file'[f] = file[f]
        /\ file'["dist/pack"] = file["dist/pack"] \/ file'["dist/pack"].by = Last
        /\ Proceed => file'["dist/pack"].by = Last
    <2>1. CASE Stop /\ file' = hashed
      <3>1. ~Proceed
        BY <1>1, <2>1, StopsShort
      <3> QED
        BY <1>4, <2>1, <3>1, FilesAre
    <2>2. CASE Proceed /\ file' = [hashed EXCEPT !["dist/pack"].by = Last]
      <3>1. PICK x : x = [hashed["dist/pack"] EXCEPT !.by = Last]
        OBVIOUS
      <3>2. x \in Content /\ x.by = Last
        BY <1>1, <1>4, <3>1, FilesAre, Writes DEF Content
      <3>3. file' = [hashed EXCEPT !["dist/pack"] = x]
        BY <2>2, <3>1
      <3> QED
        BY <1>4, <2>2, <3>2, <3>3, FilesAre
    <2> QED
      BY <1>3, <2>1, <2>2 DEF ChecksumPack
  <1>6. \A f \in Listable : file'[f] = file[f]
    BY <1>5, FilesAre DEF Listable, Copied, Made, Fetched, Report
  <1>7. TypeOK' /\ Dated' /\ Repeatable' /\ Counted' /\ VerdictMeansComplete'
    BY <1>1, <1>5, <1>6, Outside
  <1>8. Built' /\ Audited'
    BY <1>1, <1>2, <1>5, StillBuilt, StillAudited
  <1> QED
    BY <1>7, <1>8 DEF IInv

\* The three reports of qa:readiness.
LEMMA ReadinessKeeps ==
    ASSUME IInv, AuditLocalhost \/ ValidateEvidence \/ ReadinessScore
    PROVE  IInv'
  <1>1. Running /\ TypeOK /\ Elsewhere /\ UNCHANGED <<manifest, sig, packet>>
    BY Counts DEF AuditLocalhost, ValidateEvidence, ReadinessScore, Doing, IInv
  <1>2. \/ cmd.name = "readiness" /\ pc \in 1..3
        \/ cmd.name = "score"
    BY <1>1, Places DEF AuditLocalhost, ValidateEvidence, ReadinessScore
  <1>3. cmd.name = "readiness" =>
          /\ pc > 1 => PassesNow("localhost_audit")
          /\ pc > 2 => PassesNow("runtime_evidence")
    BY <1>2 DEF IInv, Audited, Ready
  <1>4. QA \subseteq Files /\ QA \cap Listable = {} /\ 0 \in Write
    BY <1>1, FilesAre, Writes DEF QA, Listable, Copied, Made, Fetched, Report
  <1>5. ASSUME NEW f \in QA, NEW status \in Verdict,
               file' \in [Files -> Content], file'[f].by = Last, file'[f].status = status,
               \A g \in Files \ {f} : file'[g] = file[g],
               ExitIf(status = "PASS"),
               Proceed /\ cmd.name = "readiness" =>
                   f = <<"localhost_audit", "runtime_evidence", "scorecard">>[pc]
        PROVE  IInv'
    <2>1. Proceed \/ Stop
      BY <1>5 DEF ExitIf
    <2>2. TypeOK' /\ Dated' /\ Repeatable' /\ Counted' /\ VerdictMeansComplete'
      <3>1. /\ \A g \in Files : file'[g] = file[g] \/ file'[g].by \in {First, Last}
            /\ \A g \in Listable : file'[g] = file[g]
        BY <1>4, <1>5, FilesAre
      <3> QED
        BY <1>1, <1>5, <2>1, <3>1, Outside
    <2>3. Built'
      BY <1>1, <1>2, <2>1, StillBuilt
    <2>4. Proceed => status = "PASS"
      BY <1>1, <1>5, StopsShort DEF ExitIf
    <2>5. Audited'
      BY <1>1, <1>2, <1>3, <1>5, <2>1, <2>4, FilesAre, StillAudited
         DEF PassesNow, OfThisRun, QA
    <2> QED
      BY <2>2, <2>3, <2>5 DEF IInv
  <1>6. ASSUME NEW f \in QA, NEW status \in Verdict
        PROVE  /\ Wrote(f, status, 0) \in [Files -> Content]
               /\ Wrote(f, status, 0)[f].by = Last
               /\ Wrote(f, status, 0)[f].status = status
               /\ \A g \in Files \ {f} : Wrote(f, status, 0)[g] = file[g]
    BY <1>1, <1>4, WroteIs
  <1>7. CASE AuditLocalhost
    <2>1. pc = 1 /\ LocalhostVerdict \in Verdict /\ "localhost_audit" \in QA
      BY <1>1, <1>7, Places DEF AuditLocalhost, LocalhostVerdict, Verdict, QA
    <2>2. PICK checks \in Checks : checks = LocalhostChecks
      BY <1>1 DEF LocalhostChecks, TypeOK, Backend, Checks
    <2>3. PICK wrote : wrote = Wrote("localhost_audit", LocalhostVerdict, 0)
      OBVIOUS
    <2>4. /\ wrote \in [Files -> Content]
          /\ wrote["localhost_audit"].by = Last
          /\ wrote["localhost_audit"].status = LocalhostVerdict
          /\ \A g \in Files \ {"localhost_audit"} : wrote[g] = file[g]
      BY <1>6, <2>1, <2>3
    <2>5. PICK x : x = [wrote["localhost_audit"] EXCEPT !.checks = checks]
      OBVIOUS
    <2>6. x \in Content /\ x.by = Last /\ x.status = LocalhostVerdict
      BY <1>4, <2>1, <2>2, <2>4, <2>5 DEF Content
    <2>7. file' = [wrote EXCEPT !["localhost_audit"] = x]
      BY <1>7, <2>2, <2>3, <2>5 DEF AuditLocalhost
    <2>8. /\ file' \in [Files -> Content]
          /\ file'["localhost_audit"].by = Last
          /\ file'["localhost_audit"].status = LocalhostVerdict
          /\ \A g \in Files \ {"localhost_audit"} : file'[g] = file[g]
      BY <1>4, <2>1, <2>4, <2>6, <2>7
    <2>9. ExitIf(LocalhostVerdict = "PASS")
      BY <1>7 DEF AuditLocalhost
    <2> QED
      BY <1>5, <2>1, <2>8, <2>9
  <1>8. CASE ValidateEvidence
    <2>1. pc = 2 /\ backend.audit \in Verdict /\ "runtime_evidence" \in QA
      BY <1>1, <1>8, Places DEF ValidateEvidence, TypeOK, Backend, QA
    <2>2. CASE Stop /\ UNCHANGED file
      BY <1>1, <2>2, NothingWritten
    <2>3. CASE file' = Wrote("runtime_evidence", backend.audit, 0) /\ ExitIf(backend.audit = "PASS")
      BY <1>5, <1>6, <2>1, <2>3
    <2> QED
      BY <1>8, <2>2, <2>3 DEF ValidateEvidence
  <1>9. CASE ReadinessScore
    <2>1. PICK status \in Verdict : status = IF ScorePasses THEN "PASS" ELSE "BLOCK"
      BY DEF Verdict
    <2>2. (cmd.name = "readiness" => pc = 3) /\ "scorecard" \in QA
      BY <1>1, <1>9, Places DEF ReadinessScore, QA
    <2>3. ExitIf(status = "PASS") /\ file' = Wrote("scorecard", status, 0)
      BY <1>9, <2>1 DEF ReadinessScore, ExitIf
    <2> QED
      BY <1>5, <1>6, <2>1, <2>2, <2>3
  <1> QED
    BY <1>7, <1>8, <1>9

\* A script that writes into the release directory before the verification:
\* no file of it goes, and the verdict is older than the command.
LEMMA Inside ==
    ASSUME IInv, Running, Proceed \/ Stop, Elsewhere, UNCHANGED <<sig, packet>>,
           cmd.name \in {"release", "manifest"}, ~(cmd.name = "release" /\ pc = 12),
           file' \in [Files -> Content], manifest' \in ManifestType, manifest'.by \in 0..Last,
           \A f \in Generated : file'[f].by \in 0..Last,
           \A f \in Required : Exists(f) => file'[f].by # 0,
           file'[Report] = file[Report]
    PROVE  TypeOK' /\ Dated' /\ Repeatable' /\ VerdictMeansComplete' /\ Audited'
  <1>1. TypeOK
    BY DEF IInv
  <1>2. TypeOK'
    BY <1>1, LeftAlone, Typed
  <1>3. Dated'
    BY StillDated
  <1>4. Repeatable'
    <2>1. file[Report].by < Last
      BY DEF IInv, Dated
    <2>2. Last' = Last /\ cmd'.name = cmd.name
      BY <1>1, Advance
    <2>3. file[Report].by # Last
      BY <1>1, <2>1, Writes, FilesAre
    <2> QED
      BY <2>2, <2>3 DEF Repeatable, OfThisRun
  <1>5. VerdictMeansComplete'
    BY StillComplete
  <1>6. Audited'
    BY StillAudited
  <1> QED
    BY <1>2, <1>3, <1>4, <1>5, <1>6

\* The list of materials.
LEMMA GenerateSbomKeeps ==
    ASSUME IInv, GenerateSbom
    PROVE  IInv'
  <1>1. Running /\ TypeOK /\ Elsewhere /\ UNCHANGED <<manifest, sig, packet>> /\ Proceed
    BY Counts DEF GenerateSbom, Doing, IInv
  <1>2. cmd.name = "release" /\ pc = 7 /\ cmd.n > 0
    BY <1>1, Places DEF GenerateSbom, IInv, Dated
  <1>3. /\ file' \in [Files -> Content]
        /\ file'["sbom"].by = Last
        /\ \A f \in Files \ {"sbom"} : file'[f] = file[f]
    BY <1>1, Writes, FilesAre, WroteIs DEF GenerateSbom
  <1>4. \A f \in Generated : file'[f].by \in 0..Last
    BY <1>3, OldDates
  <1>5. \A f \in Required : Exists(f) => file'[f].by # 0
    BY <1>1, <1>2, <1>3, Writes, FilesAre DEF Exists
  <1>6. manifest' \in ManifestType /\ manifest'.by \in 0..Last
    BY <1>1, Writes, LeftAlone DEF IInv, Dated
  <1>7. file'[Report] = file[Report]
    BY <1>3, FilesAre DEF Report
  <1>8. TypeOK' /\ Dated' /\ Repeatable' /\ VerdictMeansComplete' /\ Audited'
    BY <1>1, <1>2, <1>3, <1>4, <1>5, <1>6, <1>7, Inside
  <1>9. Built'
    BY <1>1, <1>2, <1>3, FilesAre, Behind, StillBuilt DEF OfThisRun
  <1>10. Counted'
    BY <1>1, StillCounted
  <1> QED
    BY <1>8, <1>9, <1>10 DEF IInv

\* The attestation, of a pack that may be copied for it.
LEMMA GenerateProvenanceKeeps ==
    ASSUME IInv, GenerateProvenance
    PROVE  IInv'
  <1>1. Running /\ TypeOK /\ Elsewhere /\ UNCHANGED <<manifest, sig, packet>> /\ Proceed
    BY Counts DEF GenerateProvenance, Doing, IInv
  <1>2. cmd.name = "release" /\ pc = 8 /\ cmd.n > 0
    BY <1>1, Places DEF GenerateProvenance, IInv, Dated
  <1>3. OfThisRun("dist/pack") /\ OfThisRun("dist/pack.sha256")
    BY <1>2, Behind
  <1>4. PICK copied : copied = CopiedForProvenance
    OBVIOUS
  <1>5. /\ copied \in [Files -> Content]
        /\ \A f \in Files \ {"pack", "pack.sha256"} : copied[f] = file[f]
        /\ \A f \in {"pack", "pack.sha256"} : copied[f] = file[f] \/ copied[f].by = Last
    BY <1>1, <1>3, <1>4, FilesAre DEF CopiedForProvenance, TypeOK, OfThisRun
  <1>6. PICK x : x = [Absent EXCEPT !.by = Last, !.of = Attested.by]
    OBVIOUS
  <1>7. x \in Content /\ x.by = Last
    <2>1. Attested.by \in Write
      BY <1>1, FilesAre DEF Attested, TypeOK, Content
    <2>2. x = [by |-> Last, status |-> "none", of |-> Attested.by, jobs |-> "ok",
              checks |-> "PASS"]
      BY <1>6 DEF Absent
    <2> QED
      BY <1>1, <2>1, <2>2, Writes DEF Content, Jobs, Checks
  <1>8. file' = [copied EXCEPT !["provenance"] = x]
    BY <1>4, <1>6 DEF GenerateProvenance
  <1>9. /\ file' \in [Files -> Content]
        /\ file'["provenance"].by = Last
        /\ \A f \in Files \ {"pack", "pack.sha256", "provenance"} : file'[f] = file[f]
        /\ \A f \in {"pack", "pack.sha256"} : file'[f] = file[f] \/ file'[f].by = Last
    BY <1>5, <1>7, <1>8, FilesAre
  <1>10. \A f \in Generated : file'[f].by \in 0..Last
    BY <1>9, OldDates
  <1>11. \A f \in Required : Exists(f) => file'[f].by # 0
    BY <1>1, <1>2, <1>9, Writes, FilesAre DEF Exists
  <1>12. manifest' \in ManifestType /\ manifest'.by \in 0..Last
    BY <1>1, Writes, LeftAlone DEF IInv, Dated
  <1>13. file'[Report] = file[Report]
    BY <1>9, FilesAre DEF Report
  <1>14. TypeOK' /\ Dated' /\ Repeatable' /\ VerdictMeansComplete' /\ Audited'
    BY <1>1, <1>2, <1>9, <1>10, <1>11, <1>12, <1>13, Inside
  <1>15. Built'
    BY <1>1, <1>2, <1>3, <1>9, FilesAre, Behind, StillBuilt DEF OfThisRun
  <1>16. Counted'
    BY <1>1, StillCounted
  <1> QED
    BY <1>14, <1>15, <1>16 DEF IInv

\* What is copied and fetched.
LEMMA CollectArtifactsKeeps ==
    ASSUME IInv, CollectArtifacts
    PROVE  IInv'
  <1>1. Running /\ TypeOK /\ Elsewhere /\ UNCHANGED <<manifest, sig, packet>> /\ Proceed
    BY Counts DEF CollectArtifacts, Doing, IInv, Elsewhere, TypeOK
  <1>2. /\ \/ cmd.name = "release" /\ pc = 9
           \/ cmd.name = "manifest" /\ pc = 1
        /\ cmd.n > 0
    BY <1>1, Places DEF CollectArtifacts, IInv, Dated
  <1>3. PICK got \in SUBSET Fetched : file' = Collected(got)
    BY DEF CollectArtifacts
  <1>4. PICK x : x = [Absent EXCEPT !.by = Last, !.status = backend.audit]
    OBVIOUS
  <1>5. x \in Content /\ x.by = Last
    <2>1. x = [by |-> Last, status |-> backend.audit, of |-> 0, jobs |-> "ok", checks |-> "PASS"]
      BY <1>4 DEF Absent
    <2> QED
      BY <1>1, <2>1, Writes DEF Content, Jobs, Checks, TypeOK, Backend
  <1>6. file' = [f \in Files |-> IF f \in Copied /\ Exists(Dist(f)) THEN file[Dist(f)]
                                 ELSE IF f \in got THEN x ELSE file[f]]
    BY <1>3, <1>4 DEF Collected
  <1>7. \A f \in Copied : Dist(f) \in Files
    BY FilesAre DEF Dist
  <1>8. file' \in [Files -> Content]
    BY <1>1, <1>5, <1>6, <1>7 DEF TypeOK
  <1>9. \A f \in Files : \/ file'[f] = file[f]
                         \/ f \in got /\ file'[f].by = Last
                         \/ f \in Copied /\ Exists(Dist(f)) /\ file'[f] = file[Dist(f)]
    BY <1>5, <1>6
  <1>10. \A f \in Generated : file'[f].by \in 0..Last
    <2>1. \A f \in Copied : Dist(f) \in Generated
      BY FilesAre DEF Dist, Generated, Files
    <2> QED
      BY <1>9, <2>1, OldDates
  <1>11. \A f \in Required : Exists(f) => file'[f].by # 0
    BY <1>1, <1>2, <1>9, Writes, FilesAre DEF Exists
  <1>12. manifest' \in ManifestType /\ manifest'.by \in 0..Last
    BY <1>1, Writes, LeftAlone DEF IInv, Dated
  <1>13. file'[Report] = file[Report]
    BY <1>3, <1>9, FilesAre
  <1>14. TypeOK' /\ Dated' /\ Repeatable' /\ VerdictMeansComplete' /\ Audited'
    BY <1>1, <1>2, <1>8, <1>10, <1>11, <1>12, <1>13, Inside
  <1>15. Built'
    <2> SUFFICES ASSUME cmd.name = "release"
                 PROVE  Built'
      BY <1>1, StillBuilt
    <2>1. pc = 9
      BY <1>2
    <2>2. /\ OfThisRun("dist/pack") /\ OfThisRun("dist/pack.sha256")
          /\ OfThisRun("sbom") /\ OfThisRun("provenance")
      BY <2>1, Behind
    <2>3. \A f \in {"dist/pack", "dist/pack.sha256", "sbom", "provenance"} : file'[f] = file[f]
      BY <1>3, <1>6, FilesAre DEF Copied, Fetched
    <2>4. Exists(Dist("pack")) /\ Exists(Dist("pack.sha256"))
      BY <1>1, <1>2, <2>2, Writes DEF Exists, Dist, OfThisRun
    <2>5. file'["pack"].by = Last /\ file'["pack.sha256"].by = Last
      BY <1>6, <2>2, <2>4, FilesAre DEF Dist, OfThisRun, Copied
    <2> QED
      BY <1>1, <2>1, <2>2, <2>3, <2>5, StillBuilt DEF OfThisRun
  <1>16. Counted'
    BY <1>1, StillCounted
  <1> QED
    BY <1>14, <1>15, <1>16 DEF IInv

\* The statuses of a release, and what "signed" means.
LEMMA SignatureStatusIs ==
    /\ SignatureStatus \in {"unsigned", "partially_signed", "signed", "waived"}
    /\ SignatureStatus = "signed" =>
          \A f \in Signed \ {"manifest"} : Exists(f) => f \in sig
  BY DEF SignatureStatus, AllSigned, Present

\* The manifest.
LEMMA GenerateManifestKeeps ==
    ASSUME IInv, GenerateManifest
    PROVE  IInv'
  <1>1. Running /\ TypeOK /\ Elsewhere /\ UNCHANGED <<file, sig, packet>> /\ ExitIf(~ManifestBlocked)
    BY Counts DEF GenerateManifest, Doing, IInv, Elsewhere, TypeOK
  <1>2. /\ \/ cmd.name = "release" /\ pc = 10
           \/ cmd.name = "manifest" /\ pc = 2
        /\ cmd.n > 0
    BY <1>1, Places DEF GenerateManifest, IInv, Dated
  <1>3. (Proceed \/ Stop) /\ (Proceed => ~ManifestBlocked)
    BY <1>1, StopsShort DEF ExitIf
  <1>4. PICK policy \in BOOLEAN, governance \in BOOLEAN : manifest' = ManifestOf(policy, governance)
    BY DEF GenerateManifest
  <1>5. PICK signature \in {"unsigned", "partially_signed", "signed", "waived"} :
              signature = IF policy THEN SignatureStatus ELSE "unsigned"
    BY SignatureStatusIs
  <1>6. PICK finalization \in {"local_dev_pass", "candidate_ready", "formal_release_ready",
                              "formal_release_blocked"} :
              finalization = IF governance THEN Finalization ELSE "local_dev_pass"
    <2>1. Finalization \in {"local_dev_pass", "candidate_ready", "formal_release_ready",
                            "formal_release_blocked"}
      BY DEF Finalization
    <2> QED
      BY <2>1
  <1>7. PICK decision \in Verdict : decision = IF ManifestBlocked THEN "BLOCK" ELSE "PASS"
    BY DEF Verdict
  <1>8. /\ Hashes \in [Listable -> Write]
        /\ \A f \in Listable : Hashes[f] = file[f].by
    BY <1>1, FilesAre DEF Hashes, TypeOK, Content
  <1>9. manifest' = [by |-> Last, decision |-> decision, hash |-> Hashes,
                     jobs |-> file["pack"].jobs, signature |-> signature,
                     finalization |-> finalization]
    BY <1>4, <1>5, <1>6, <1>7 DEF ManifestOf
  <1>10. manifest' \in ManifestType /\ manifest'.by \in 0..Last
    BY <1>1, <1>8, <1>9, FilesAre, Writes DEF ManifestType, TypeOK, Content
  <1>11. /\ file' \in [Files -> Content]
         /\ \A f \in Generated : file'[f].by \in 0..Last
         /\ \A f \in Required : Exists(f) => file'[f].by # 0
         /\ file'[Report] = file[Report]
    BY <1>1, OldDates, LeftAlone DEF Exists
  <1>12. TypeOK' /\ Dated' /\ Repeatable' /\ VerdictMeansComplete' /\ Audited'
    BY <1>1, <1>2, <1>3, <1>10, <1>11, Inside
  <1>13. Built'
    <2> SUFFICES ASSUME cmd.name = "release", Proceed
                 PROVE  Built'
      BY <1>1, <1>3, StillBuilt
    <2>1. pc = 10
      BY <1>2
    <2>2. Last' = Last
      BY <1>1, <1>3, Advance
    <2>3. decision = "PASS" /\ Passes("runtime_audit")
      BY <1>3, <1>7 DEF ManifestBlocked
    <2>4. Recorded'
      BY <1>1, <1>8, <1>9, <2>2, <2>3, FilesAre DEF Recorded, Passes, Exists
    <2> QED
      BY <1>1, <1>3, <2>1, <2>4, Behind, StillBuilt DEF OfThisRun
  <1>14. Counted'
    BY <1>1, <1>5, <1>8, <1>9, SignatureStatusIs, FilesAre DEF Counted, Exists
  <1> QED
    BY <1>12, <1>13, <1>14 DEF IInv

\* The verdict.
LEMMA VerifyArtifactsKeeps ==
    ASSUME IInv, VerifyArtifacts
    PROVE  IInv'
  <1>1. Running /\ TypeOK /\ Elsewhere /\ UNCHANGED <<manifest, sig, packet>>
    BY Counts DEF VerifyArtifacts, Doing, IInv
  <1>2. /\ \/ cmd.name = "release" /\ pc = 11
           \/ cmd.name = "verify" /\ pc = 1
        /\ cmd.n > 0
    BY <1>1, Places DEF VerifyArtifacts, IInv, Dated
  <1>3. CASE Stop /\ UNCHANGED file
    BY <1>1, <1>3, NothingWritten
  <1>4. CASE /\ file' = Wrote(Report, IF VerifyBlocked THEN "BLOCK" ELSE "PASS", 0)
             /\ ExitIf(~VerifyBlocked)
    <2>1. (Proceed \/ Stop) /\ (Proceed => ~VerifyBlocked)
      BY <1>1, <1>4, StopsShort DEF ExitIf
    <2>2. PICK status \in Verdict : status = IF VerifyBlocked THEN "BLOCK" ELSE "PASS"
      BY DEF Verdict
    <2>3. /\ file' \in [Files -> Content]
          /\ file'[Report].by = Last /\ file'[Report].status = status
          /\ \A f \in Files \ {Report} : file'[f] = file[f]
      BY <1>1, <1>4, <2>2, Writes, FilesAre, WroteIs
    <2>4. \A f \in Generated : file'[f].by \in 0..Last
      BY <2>3, OldDates
    <2>5. TypeOK'
      BY <1>1, <2>1, <2>3, LeftAlone, Typed
    <2>6. Dated'
      <3>1. manifest'.by \in 0..Last /\ Doing("verify")
        BY <1>1, Writes DEF IInv, Dated, VerifyArtifacts
      <3> QED
        BY <1>1, <2>1, <2>4, <3>1, StillDated
    <2>7. Last' = Last /\ cmd'.name = cmd.name /\ cmd'.formal = cmd.formal
      BY <1>1, <2>1, Advance
    <2>8. ~VerifyBlocked => Verified'
      BY <1>1, <2>3, FilesAre
         DEF VerifyBlocked, HashMismatch, MissingRequired, AuditBlocked, Verified, Passes, Exists
    <2>9. Repeatable'
      <3>1. Passes(Report)' => Verified'
        BY <2>2, <2>3, <2>8 DEF Passes
      <3> QED
        BY <3>1 DEF Repeatable
    <2>10. VerdictMeansComplete'
      <3>1. \A f \in Required : Exists(f) => file'[f].by # 0
        BY <2>3, FilesAre DEF Exists
      <3>2. Passes(Report)' => \A f \in Required : Exists(f)
        BY <2>2, <2>3 DEF Passes, VerifyBlocked, MissingRequired
      <3> QED
        BY <1>1, <3>1, <3>2 DEF IInv, VerdictMeansComplete, Exists
    <2>11. Audited'
      BY <1>1, <1>2, <2>1, StillAudited
    <2>12. Built'
      <3> SUFFICES ASSUME cmd.name = "release", Proceed
                   PROVE  Built'
        BY <1>1, <2>1, StillBuilt
      <3>1. pc = 11
        BY <1>2
      <3>2. Recorded /\ Recorded'
        <4>1. Recorded
          BY <3>1, Behind
        <4>2. "runtime_audit" # Report /\ Report \notin Required
          BY DEF Report, Required, Copied, Made, Fetched
        <4> QED
          BY <1>1, <2>3, <2>7, <4>1, <4>2, FilesAre DEF Recorded, Passes, Exists
      <3>3. Judged'
        <4>1. status = "PASS"
          BY <2>1, <2>2
        <4>2. \A f \in Required : Exists(f)'
          BY <2>1, <2>3, FilesAre DEF VerifyBlocked, MissingRequired, Exists
        <4>3. cmd'.formal => manifest'.signature \in {"signed", "waived"}
          BY <1>1, <2>1, <2>7 DEF VerifyBlocked, FormalBlocked
        <4> QED
          BY <2>3, <2>7, <4>1, <4>2, <4>3 DEF Judged, PassesNow, OfThisRun
      <3>4. \A f \in {"dist/pack", "dist/pack.sha256", "sbom", "provenance", "pack", "pack.sha256"} :
               file'[f] = file[f]
        BY <2>3, FilesAre DEF Report
      <3> QED
        BY <1>1, <2>1, <3>1, <3>2, <3>3, <3>4, Behind, StillBuilt DEF OfThisRun
    <2>13. Counted'
      BY <1>1, StillCounted
    <2> QED
      BY <2>5, <2>6, <2>9, <2>10, <2>11, <2>12, <2>13 DEF IInv
  <1> QED
    BY <1>3, <1>4 DEF VerifyArtifacts

\* A signature more, or a cosign that failed: none is taken away.
LEMMA SignArtifactKeeps ==
    ASSUME IInv, SignArtifact
    PROVE  IInv'
  <1>1. TypeOK /\ UNCHANGED <<backend, file, manifest, packet, cmd, pc>>
    BY DEF SignArtifact, IInv
  <1>2. signing \in 0..6 /\ signing < 6 /\ signing' = signing + 1
    BY <1>1, Counts DEF SignArtifact, TypeOK
  <1>3. SignOrder[signing + 1] \in Signed
    BY <1>2 DEF Signed, SignOrder
  <1>4. sig \subseteq sig' /\ sig' \subseteq Signed
    BY <1>1, <1>3 DEF SignArtifact, TypeOK
  <1>5. changes' \in 0..MaxChanges
    BY <1>1, Counts DEF SignArtifact
  <1>6. TypeOK'
    <2>1. signing' \in 0..Len(SignOrder)
      BY <1>1, <1>2, Counts
    <2> QED
      BY <1>1, <1>4, <1>5, <2>1 DEF TypeOK, Running
  <1>7. Counted'
    BY <1>1, <1>4, StillCounted
  <1> QED
    BY <1>1, <1>6, <1>7
       DEF IInv, Dated, Built, Audited, Repeatable, VerdictMeansComplete, Past, Ready, OfThisRun,
           PassesNow, Recorded, Judged, Verified, Passes, Exists, Last, Running

\* The candidate packet: it is ready on the verdict on disk.
LEMMA CandidatePacketKeeps ==
    ASSUME IInv, CandidatePacket
    PROVE  IInv'
  <1>1. Running /\ TypeOK /\ Elsewhere /\ UNCHANGED <<file, manifest, sig>> /\ Proceed
    BY Counts DEF CandidatePacket, Doing, IInv
  <1>2. cmd.name = "candidate"
    BY <1>1, Places DEF CandidatePacket
  <1>3. PICK ready, waived : ready = PacketReady /\ waived = GovernanceWaived
    OBVIOUS
  <1>4. packet' = [ready |-> ready, waived |-> waived]
    BY <1>3 DEF CandidatePacket
  <1>5. packet' \in PacketType /\ packet'.ready = ready /\ packet'.waived = waived
    <2>1. ready \in BOOLEAN /\ waived \in BOOLEAN
      <3>1. backend.up \in BOOLEAN
        BY <1>1 DEF TypeOK, Backend
      <3>2. PacketReady \in BOOLEAN
        BY <3>1 DEF PacketReady
      <3>3. GovernanceWaived \in BOOLEAN
        BY DEF GovernanceWaived
      <3> QED
        BY <1>3, <3>2, <3>3
    <2> QED
      BY <1>4, <2>1 DEF PacketType
  <1>6. TypeOK'
    BY <1>1, <1>5, LeftAlone, Typed
  <1>7. Dated'
    BY <1>1, OldDates, StillDated
  <1>8. Built' /\ Audited'
    BY <1>1, <1>2, StillBuilt, StillAudited
  <1>9. Repeatable'
    BY <1>1, FilesAre, StillRepeatable
  <1>10. VerdictMeansComplete'
    <2>1. packet'.ready /\ ~packet'.waived => Passes(Report)
      BY <1>3, <1>5 DEF PacketReady, Governed
    <2> QED
      BY <1>1, <2>1 DEF IInv, VerdictMeansComplete, Passes, Exists
  <1>11. Counted'
    BY <1>1, StillCounted
  <1> QED
    BY <1>6, <1>7, <1>8, <1>9, <1>10, <1>11 DEF IInv

-----------------------------------------------------------------------------
(* Commands and the backend *)

\* The next command: what its predecessor wrote is older now.
LEMMA StartKeeps ==
    ASSUME IInv, NEW name \in DOMAIN Scripts, Start(name)
    PROVE  IInv'
  <1>1. TypeOK /\ UNCHANGED <<file, manifest, sig, signing, packet, backend, changes>>
    BY DEF Start, IInv
  <1>2. PICK formal \in BOOLEAN, cosign \in BOOLEAN :
           cmd' = [n |-> cmd.n + 1, name |-> name, formal |-> formal, cosign |-> cosign,
                   green |-> FALSE]
    BY DEF Start
  <1>3. cmd.n \in Nat /\ cmd.n < MaxCommands /\ pc' = 1
    BY <1>1, Writes DEF Start
  <1>4. cmd' \in [n : 0..MaxCommands, name : DOMAIN Scripts \cup {"none"}, formal : BOOLEAN,
                  cosign : BOOLEAN, green : BOOLEAN]
    BY <1>2, <1>3, BoundsAssumption
  <1>5. cmd'.n = cmd.n + 1 /\ cmd'.name = name /\ ~cmd'.green
    BY <1>2
  <1>6. 1 \in DOMAIN Scripts[name]
    BY Chains
  <1>7. TypeOK'
    BY <1>1, <1>3, <1>4, <1>5, <1>6 DEF TypeOK
  <1>8. Last' = Last + 2 /\ Last \in Nat
    BY <1>3, <1>5 DEF Last
  <1>9. Dated'
    <2>1. \A f \in Generated : file[f].by \in Nat /\ file[f].by <= Last
      BY <1>1, Writes, FilesAre DEF IInv, Dated
    <2>2. manifest.by \in Nat /\ manifest.by <= Last
      BY <1>1, Writes DEF IInv, Dated
    <2> QED
      BY <1>1, <1>3, <1>5, <1>8, <2>1, <2>2, FilesAre DEF Dated
  <1>10. Built' /\ Audited'
    BY <1>3, <1>5 DEF Built, Audited, Past, Ready
  <1>11. Repeatable'
    <2>1. file[Report].by # Last' /\ Last' - 2 = Last
      BY <1>1, <1>8, Writes, FilesAre DEF IInv, Dated
    <2>2. Passes(Report)' = Passes(Report) /\ Verified' = Verified
      BY <1>1 DEF Passes, Exists, Verified
    <2> QED
      BY <1>1, <2>1, <2>2 DEF Repeatable, OfThisRun, IInv
  <1>12. VerdictMeansComplete'
    BY <1>1 DEF IInv, VerdictMeansComplete, Passes, Exists
  <1>13. Counted'
    BY <1>1, StillCounted
  <1> QED
    BY <1>7, <1>9, <1>10, <1>11, <1>12, <1>13 DEF IInv

\* What the backend answers from now on is in no file.
LEMMA BackendChangesKeeps ==
    ASSUME IInv, BackendChanges
    PROVE  IInv'
  <1>1. TypeOK /\ UNCHANGED <<file, manifest, sig, signing, packet, cmd, pc>>
    BY DEF BackendChanges, IInv
  <1>2. backend' \in Backend
    <2>1. PICK down \in BOOLEAN : down = ~backend.up
      OBVIOUS
    <2>2. CASE ServerStopsOrStarts
      BY <1>1, <2>1, <2>2 DEF TypeOK, Backend, ServerStopsOrStarts
    <2>3. CASE TreeChanges
      BY <1>1, <2>3 DEF TypeOK, Backend, TreeChanges
    <2>4. CASE FindingsChange
      BY <1>1, <2>4 DEF TypeOK, Backend, FindingsChange
    <2>5. CASE WaiverApproved
      <3>1. PICK w \in Waivers : backend' = [backend EXCEPT !.waivers = @ \cup {w}]
        BY <2>5 DEF WaiverApproved
      <3>2. PICK granted \in SUBSET Waivers : granted = backend.waivers \cup {w}
        BY <1>1 DEF TypeOK, Backend
      <3>3. backend' = [backend EXCEPT !.waivers = granted]
        BY <3>1, <3>2
      <3> QED
        BY <1>1, <3>3 DEF TypeOK, Backend
    <2>6. CASE ChannelDecided
      BY <1>1, <2>6 DEF TypeOK, Backend, ChannelDecided, Channel
    <2> QED
      BY <2>2, <2>3, <2>4, <2>5, <2>6 DEF BackendChanges
  <1>3. changes' \in 0..MaxChanges
    BY <1>1, BoundsAssumption DEF BackendChanges, TypeOK
  <1>4. TypeOK'
    BY <1>1, <1>2, <1>3 DEF TypeOK, Running
  <1> QED
    BY <1>1, <1>4
       DEF IInv, Dated, Built, Audited, Repeatable, Counted, VerdictMeansComplete, Past, Ready,
           OfThisRun, PassesNow, Recorded, Judged, Verified, Passes, Exists, Last, Running

\* A memo is no script's file.
LEMMA MemoWrittenKeeps ==
    ASSUME IInv, MemoWritten
    PROVE  IInv'
  <1>1. TypeOK /\ UNCHANGED <<backend, manifest, sig, signing, packet, cmd, pc>>
    BY DEF MemoWritten, IInv
  <1>2. changes' \in 0..MaxChanges
    BY <1>1, BoundsAssumption DEF MemoWritten, TypeOK
  <1>3. PICK x : x = [Absent EXCEPT !.by = 2 * MaxCommands + changes']
    OBVIOUS
  <1>4. x \in Content
    <2>1. x = [by |-> 2 * MaxCommands + changes', status |-> "none", of |-> 0, jobs |-> "ok",
               checks |-> "PASS"]
      BY <1>3 DEF Absent
    <2>2. 2 * MaxCommands + changes' \in Write /\ 0 \in Write
      <3> DEFINE now == changes'
      <3>1. now \in Nat /\ now <= MaxChanges
        BY <1>2, BoundsAssumption
      <3> HIDE DEF now
      <3>2. 2 * MaxCommands + now \in 0 .. 2 * MaxCommands + MaxChanges
        BY <3>1, BoundsAssumption
      <3>3. 0 \in 0 .. 2 * MaxCommands + MaxChanges
        BY BoundsAssumption
      <3> QED
        BY <3>2, <3>3 DEF Write, now
    <2> QED
      BY <2>1, <2>2 DEF Content, Jobs, Checks
  <1>5. file' = [file EXCEPT !["decision_memo"] = x]
    BY <1>3 DEF MemoWritten
  <1>6. /\ file' \in [Files -> Content]
        /\ \A f \in Generated : file'[f] = file[f]
    BY <1>1, <1>4, <1>5, FilesAre DEF TypeOK, Generated
  <1>7. TypeOK'
    BY <1>1, <1>2, <1>6 DEF TypeOK, Running
  <1>8. /\ \A f \in Required \cup QA : file'[f] = file[f]
        /\ file'[Report] = file[Report]
        /\ file'["dist/pack"] = file["dist/pack"]
        /\ file'["dist/pack.sha256"] = file["dist/pack.sha256"]
        /\ \A f \in Listable \ {Report, "decision_memo"} : file'[f] = file[f]
    BY <1>6, FilesAre DEF Generated, QA
  <1>9. Dated'
    BY <1>1, <1>6, <1>8 DEF IInv, Dated, Running, Last
  <1>10. Built'
    BY <1>1, <1>8, FilesAre
       DEF IInv, Built, Past, OfThisRun, PassesNow, Recorded, Judged, Passes, Exists, Last
  <1>11. Audited'
    BY <1>1, <1>8 DEF IInv, Audited, Ready, PassesNow, OfThisRun, Last, QA
  <1>12. Repeatable'
    BY <1>1, <1>8, FilesAre DEF IInv, Repeatable, Verified, Passes, OfThisRun, Exists, Last, Running
  <1>13. VerdictMeansComplete'
    BY <1>1, <1>8 DEF IInv, VerdictMeansComplete, Passes, Exists
  <1>14. Counted'
    BY <1>1, StillCounted
  <1> QED
    BY <1>7, <1>9, <1>10, <1>11, <1>12, <1>13, <1>14 DEF IInv

\* A step that changes nothing.
LEMMA StutterKeeps ==
    ASSUME IInv, UNCHANGED vars
    PROVE  IInv'
  BY DEF vars, IInv, TypeOK, Dated, Built, Audited, Repeatable, Counted, VerdictMeansComplete, Past, Ready,
         OfThisRun, PassesNow, Recorded, Judged, Verified, Passes, Exists, Last, Running

\* Nothing is on disk, and no command has run.
LEMMA InitIs ==
    ASSUME Init
    PROVE  IInv
  <1>1. /\ 0 \in Write /\ 0 \in 0..MaxCommands /\ 0 \in 0..MaxChanges
        /\ Absent \in Content /\ Absent.by = 0 /\ Absent.status = "none"
    BY BoundsAssumption DEF Write, Absent, Content, Jobs, Checks
  <1>2. \A f \in Files : file[f] = Absent
    BY DEF Init
  <1>3. cmd.n = 0 /\ cmd.name = "none" /\ ~cmd.green /\ ~Running
    BY DEF Init, Running
  <1>4. manifest \in ManifestType /\ manifest.by = 0
    BY <1>1 DEF Init, NoManifest, ManifestType, Verdict, Jobs
  <1>5. packet \in PacketType /\ ~packet.ready
    BY <1>1 DEF Init, NoPacket, PacketType
  <1>6. TypeOK
    <2>1. backend \in Backend /\ signing \in 0..Len(SignOrder)
      <3>1. backend \in Backend
        BY DEF Init, Verdict, Jobs, Checks, Tree, Backend, Waivers, Channel
      <3>2. Len(SignOrder) = 6
        BY DEF SignOrder
      <3> QED
        BY <3>1, <3>2 DEF Init
    <2>2. file \in [Files -> Content] /\ sig \subseteq Signed
      BY <1>1 DEF Init
    <2>3. cmd \in [n : 0..MaxCommands, name : DOMAIN Scripts \cup {"none"}, formal : BOOLEAN,
                   cosign : BOOLEAN, green : BOOLEAN]
      BY <1>1 DEF Init
    <2> QED
      BY <1>1, <1>3, <1>4, <1>5, <2>1, <2>2, <2>3 DEF TypeOK, ManifestType, PacketType, Init
  <1>7. Dated
    BY <1>1, <1>2, <1>3, <1>4, FilesAre DEF Dated, Last
  <1>8. Built /\ Audited
    BY <1>3 DEF Built, Audited, Past, Ready
  <1>9. ~Passes(Report)
    BY <1>1, <1>2, FilesAre DEF Passes, Exists
  <1>10. Counted
    BY DEF Init, NoManifest, Counted
  <1> QED
    BY <1>3, <1>5, <1>6, <1>7, <1>8, <1>9, <1>10 DEF IInv, Repeatable, VerdictMeansComplete

\* Every step keeps the invariant.
LEMMA StepKeeps == IInv /\ [Next]_vars => IInv'
  <1> SUFFICES ASSUME IInv, [Next]_vars
               PROVE  IInv'
    OBVIOUS
  <1>1. CASE Script
    BY <1>1, ChecksKeep, GenerateEvidenceKeeps, ChecksumPackKeeps, GenerateSbomKeeps,
       GenerateProvenanceKeeps, CollectArtifactsKeeps, GenerateManifestKeeps, VerifyArtifactsKeeps,
       SignArtifactKeeps, CandidatePacketKeeps, ReadinessKeeps
       DEF Script
  <1>2. ASSUME NEW name \in DOMAIN Scripts, Start(name)
        PROVE  IInv'
    BY <1>2, StartKeeps
  <1> QED
    BY <1>1, <1>2, ChecksKeep, BackendChangesKeeps, MemoWrittenKeeps, StutterKeeps DEF Next

-----------------------------------------------------------------------------
(* The theorems *)

\* The invariant holds.
THEOREM Invariance == Spec => []IInv
  BY InitIs, StepKeeps, PTL DEF Spec

\* Every file, manifest, packet and command has its type, and a running
\* command stands in its chain.
THEOREM TypeCorrect == Spec => []TypeOK
  <1>1. IInv => TypeOK
    BY DEF IInv
  <1> QED
    BY <1>1, Invariance, PTL

\* A green supply:release left a directory that agrees with itself.
THEOREM GreenReleases == Spec => []GreenReleaseAgrees
  <1>1. IInv => GreenReleaseAgrees
    <2> SUFFICES ASSUME IInv, Ended("release")
                 PROVE  /\ manifest.decision = "PASS"
                        /\ Passes(Report) /\ Passes("runtime_audit")
                        /\ \A f \in Required : manifest.hash[f] = file[f].by
                        /\ {file[f].by : f \in Copied \cup Made \cup {Report}} \cup {manifest.by}
                              = {Last}
      BY DEF GreenReleaseAgrees
    <2>1. \A k \in 1..12 : Past(k)
      BY DEF Ended, Past
    <2>2. Recorded /\ Judged
      BY <2>1 DEF IInv, Built
    <2>3. Last # 0
      BY Writes DEF IInv, Dated, Ended
    <2>4. \A f \in Copied \cup Made \cup {Report} : file[f].by = Last
      BY <2>1, <2>2 DEF IInv, Built, Judged, PassesNow, OfThisRun, Copied, Made
    <2> QED
      BY <2>2, <2>3, <2>4 DEF Recorded, Judged, PassesNow, OfThisRun, Passes, Exists
  <1> QED
    BY <1>1, Invariance, PTL

\* No verdict and no ready packet stands beside a directory that lacks a
\* required artifact.
THEOREM CompleteVerdicts == Spec => []VerdictMeansComplete
  <1>1. IInv => VerdictMeansComplete
    BY DEF IInv
  <1> QED
    BY <1>1, Invariance, PTL

\* "signed" in a manifest means every artifact it lists, and a formal release
\* that ended green is waived or signed throughout.
THEOREM SignedReleases == Spec => []FormalIsSigned
  <1>1. IInv => FormalIsSigned
    <2> SUFFICES ASSUME IInv
                 PROVE  FormalIsSigned
      OBVIOUS
    <2>1. ASSUME Ended("release"), cmd.formal, manifest.signature # "waived",
                 NEW f \in Signed \ {"manifest"}
          PROVE  f \in sig
      <3>1. Recorded /\ Judged
        BY <2>1 DEF IInv, Built, Ended, Past
      <3>2. manifest.signature = "signed" /\ f \in Required /\ manifest.hash[f] # 0
        BY <2>1, <3>1, FilesAre DEF Recorded, Judged, Exists
      <3> QED
        BY <2>1, <3>2 DEF IInv, Counted
    <2> QED
      BY <2>1 DEF IInv, Counted, FormalIsSigned
  <1> QED
    BY <1>1, Invariance, PTL

\* A green qa:readiness rests on its own reports.
THEOREM OwnReadiness == Spec => []ReadinessOfThisRun
  <1>1. IInv => ReadinessOfThisRun
    <2> SUFFICES ASSUME IInv, Ended("readiness"), NEW f \in QA
                 PROVE  Passes(f) /\ file[f].by = Last
      BY DEF ReadinessOfThisRun
    <2>1. PassesNow(f)
      BY DEF IInv, Audited, Ended, Ready, QA
    <2>2. Last # 0
      BY Writes DEF IInv, Dated, Ended
    <2> QED
      BY <2>1, <2>2 DEF PassesNow, OfThisRun, Passes, Exists
  <1> QED
    BY <1>1, Invariance, PTL

\* supply:verify repeats the verdict of the release before it.
THEOREM RepeatedVerdicts == Spec => VerifyRepeats
  <1>1. IInv /\ [Next]_vars =>
           [cmd.name = "verify" /\ VerifyArtifacts /\ VerifiedInPreviousCommand /\ ~cmd.formal
               => file'[Report].status = "PASS"]_vars
    <2> SUFFICES ASSUME IInv, cmd.name = "verify", VerifyArtifacts, VerifiedInPreviousCommand,
                        ~cmd.formal
                 PROVE  file'[Report].status = "PASS"
      OBVIOUS
    <2>1. TypeOK /\ Running /\ cmd.n > 0
      BY DEF VerifyArtifacts, Doing, IInv, Dated
    <2>2. Verified /\ manifest.hash[Report] = 0 /\ manifest.by = Last - 2
      BY <2>1 DEF IInv, Repeatable, VerifiedInPreviousCommand
    <2>3. ~VerifyBlocked
      BY <2>2, FilesAre
         DEF VerifiedInPreviousCommand, VerifyBlocked, HashMismatch, MissingRequired, AuditBlocked, FormalBlocked, Verified,
             Passes, Exists
    <2>4. manifest.by # 0
      BY DEF VerifiedInPreviousCommand, Passes, Exists
    <2>5. file' = Wrote(Report, "PASS", 0)
      BY <2>3, <2>4 DEF VerifyArtifacts
    <2> QED
      BY <2>1, <2>5, FilesAre, Writes, WroteIs DEF Verdict
  <1> QED
    BY <1>1, Invariance, PTL DEF Spec, VerifyRepeats
=============================================================================
