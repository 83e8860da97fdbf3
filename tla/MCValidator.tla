---------------------------- MODULE MCValidator ----------------------------
(***************************************************************************)
(* Instances of the validator for TLC.                                     *)
(***************************************************************************)
EXTENDS ValidatorSafety

CONSTANTS p1, p2, none

MCProposers == {p1, p2}

\* Validity proofs at height 1, fault proofs where no correct proposal is known and at height
\* 2, where the wrong claims repeat an output; and a deployment with one output per proposal.
MCConfigs ==
  { [forward |-> {1}, single |-> FALSE, repeats |-> {2}],
    [forward |-> {}, single |-> TRUE, repeats |-> {}] }
=============================================================================
