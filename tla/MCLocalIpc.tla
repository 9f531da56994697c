----------------------------- MODULE MCLocalIpc -----------------------------
(***************************************************************************)
(* Peers and request ids are interchangeable.                              *)
(***************************************************************************)
EXTENDS LocalIpc

Symmetry == Permutations(Clients) \cup Permutations(Ids)
=============================================================================
