------------------------------ MODULE MCKailua ------------------------------
(***************************************************************************)
(* Instances of the on-chain protocol for TLC.                             *)
(***************************************************************************)
EXTENDS KailuaLiveness, KailuaLedger, TLC

CONSTANTS o, a1, a2, a3, q1, ok, bad, none, nosig

MCAccounts == {o, a1, a2, a3, q1}
MCProposers == {a1, a2, a3}
MCTwoAccounts == {o, a1, a2, q1}
MCTwoProposers == {a1, a2}
MCProvers == {q1}

MCSigs == {ok, bad}
MCClaimOf == [s \in MCSigs |-> s]
MCOutputFaulty == {bad}
MCTrailFaulty == {}
\* Signatures that differ in their blobs only.
MCSameClaim == [s \in MCSigs |-> ok]

\* Proposers are interchangeable.
MCSymmetry == Permutations(MCProposers)
=============================================================================
