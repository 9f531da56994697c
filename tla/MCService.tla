----------------------------- MODULE MCService -----------------------------
(***************************************************************************)
(* Two models of different weight whose reservations fit together only if  *)
(* the first is loaded with its small context, one session at a time, one  *)
(* conversation and the one-shot key, a cache for two contexts.            *)
(***************************************************************************)
EXTENDS ServiceHistory

CONSTANTS m1, m2

MCModels == {m1, m2}
MCContextLength == [m \in MCModels |-> IF m = m1 THEN 6 ELSE 4]
MCWeights == [m \in MCModels |-> IF m = m1 THEN 2 ELSE 3]

\* availableRamBytes(): no answer, less than the reserve, or plenty.
MCAvailable == {Unknown, 0, 100}
=============================================================================
