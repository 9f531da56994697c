----------------------------- MODULE MCMlxWorker -----------------------------
(* Constants for model checking MlxWorker.                                 *)
EXTENDS MlxWorker, TLC

CONSTANTS a, b

\* Prompts that share nothing, a prefix, or everything.
MCPrompts == {<<a>>, <<a, b>>, <<b, a>>}
=============================================================================
