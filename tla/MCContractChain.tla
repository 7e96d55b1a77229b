-------------------------- MODULE MCContractChain --------------------------
(* A manifest, a final seal, a list of blocked actions and a locked file    *)
(* may be damaged: one file of each kind, and the assumption says that the  *)
(* chain as a whole would notice the same of every other file of its kind,  *)
(* two manifests excepted that are only asked to be there.                  *)
EXTENDS ContractChain

MCEdited == {<<"immutable-local-preview-lock", "manifest">>,
             <<"production-staging-validation", "final_seal">>,
             <<"production-staging-package", "blocked_actions">>,
             RootPackage}

\* A text may name no phase, one, or two.
MCNamed == {{}, {"PR16"}, {"PR16", "PR17"}}

Links == {FullChain[n] : n \in DOMAIN FullChain}
LookedAt ==
    UNION {c.exists \cup c.parses \cup c.requires \cup c.forbids \cup c.locks :
               c \in Links}

NeverOpened == {<<"backend-runtime-binding-readiness", "manifest">>,
                <<"install-review/visual-control-plane-local", "manifest">>}

ASSUME EveryKindIsNoticed == Vouched((LookedAt \ NeverOpened) \cup Edited)
=============================================================================
