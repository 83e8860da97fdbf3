------------------------------- MODULE MCSync -------------------------------
(***************************************************************************)
(* Instances of the synchronization agent for TLC.                         *)
(***************************************************************************)
EXTENDS Rpc, TLC

CONSTANTS p1, p2, none

MCProposers == {p1, p2}
MCSymmetry == Permutations(MCProposers)
=============================================================================
