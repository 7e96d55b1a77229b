----------------------------- MODULE Contracts -----------------------------
(***************************************************************************)
(* What a contract test of scripts/qa asks of the files of the repository. *)
(* A file is a pair <<directory, name>>; the wording a script looks for is *)
(* not modelled, only whether it would notice that the file                *)
(*   "missing"  is not there,                                              *)
(*   "garbled"  no longer parses,                                          *)
(*   "stale"    has lost a value or a line the project relies on,          *)
(*   "claims"   has gained text that is forbidden in it,                   *)
(*   "edited"   has changed in any other way ("ok": it has not).           *)
(***************************************************************************)

Damages == {"missing", "garbled", "stale", "claims", "edited"}

At(dir, names) == {<<dir, name>> : name \in names}

\* A script that looks at nothing; the tables say what each one adds.
LooksAt == [exists |-> {}, parses |-> {}, requires |-> {}, forbids |-> {},
            locks |-> {}]

\* existsSync; JSON.parse or an import; includes and ===; ! includes; sha256.
Noticed(c, file, d) ==
    \/ d = "missing" /\ file \in c.exists
    \/ d \in {"missing", "garbled"} /\ file \in c.parses
    \/ d \in {"missing", "garbled", "stale"} /\ file \in c.requires
    \/ d = "claims" /\ file \in c.forbids
    \/ d \in Damages /\ file \in c.locks

\* Files several tables name.
PreviewScript == <<"frontend", "visual_dashboard_preview.js">>
MainPy == <<"backend", "main.py">>
RuntimeStore == <<"backend", "runtime_execution_store.py">>
LedgerDb == <<"backend", "swarm_ledger.db">>
RootPackage == <<".", "package.json">>
Tailwind == <<"frontend/dist", "tailwind.css">>
ArchiveHtml == <<"frontend/archive", "unused_views.html">>
ArchiveJs == <<"frontend/archive", "unused_views.js">>
IndexHtml == <<"frontend", "index.html">>
AppJs == <<"frontend", "app.js">>
Styles == <<"frontend", "styles.css">>

\* The server on localhost:8000, "missing" when it does not answer.
Backend == <<"backend", "running">>

\* One evidence package: its manifest and final seal must parse and carry
\* the certification, `required` must too, `listed` must only be there. The
\* manifest of the phase before it must be there, and the preview script,
\* which is read without a check, must not open sockets or send mutations.
EvidencePhase(dir, required, listed, before) ==
    [LooksAt EXCEPT
        !.requires = At(dir, {"manifest", "final_seal"} \cup required),
        !.exists = At(dir, listed) \cup before \cup {PreviewScript},
        !.forbids = {PreviewScript}]

Manifest(dir) == {<<dir, "manifest">>}

\* A contract of the local preview: it reads the preview script unguarded.
PreviewStep(required, parsed, listed) ==
    [LooksAt EXCEPT !.requires = required, !.parses = parsed,
                    !.exists = listed \cup {PreviewScript},
                    !.forbids = {PreviewScript}]
=============================================================================
