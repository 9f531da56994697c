------------------------------ MODULE MCDaemon ------------------------------
(***************************************************************************)
(* Two processes on one directory and one endpoint, two ids of which the   *)
(* registry knows one, packages of up to two files, local sources with and *)
(* without an inventory of their own.                                      *)
(***************************************************************************)
EXTENDS Daemon, TLC

CONSTANTS x, y, f, g, a

MCIds == {x, y}
MCFiles == {f, g}
MCPins == [id \in {x} |-> [file \in MCFiles |-> a]]
MCInventories == {NoFiles, [file \in {f} |-> a]}
Symmetry == Permutations(Processes)
=============================================================================
