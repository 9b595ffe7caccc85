---------------------------- MODULE MCRRefProtocol ----------------------------
(***************************************************************************)
(* Small instances of RRefProtocol.                                        *)
(***************************************************************************)
EXTENDS RRefProtocol, TLC

CONSTANTS b, c, o, f1, f2

NoType == {}

AllSlow == {"remote", "fetch", "shutdown"} \cup Control

Symmetry == Permutations(ForkId) \cup Permutations(Worker \ {Owner})
==============================================================================
