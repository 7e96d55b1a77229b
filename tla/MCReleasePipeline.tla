-------------------------- MODULE MCReleasePipeline --------------------------
(* ReleasePipeline with three commands: enough for a release over the files *)
(* of an earlier one, with a command in between.                            *)
EXTENDS ReleasePipeline
=============================================================================
