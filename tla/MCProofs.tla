------------------------------ MODULE MCProofs ------------------------------
(***************************************************************************)
(* How a proof comes about: the program that is proven, the prover that    *)
(* has it run, and the services that run it.  A behaviour is one of them.  *)
(***************************************************************************)
EXTENDS MCGuest, MCProving

GuestOff == OracleOff /\ ClientOff /\ DisputeOff
ProvingOff == ProverOff /\ ServicesOff

ProofsSpec ==
  /\ (GuestInit /\ ProvingOff) \/ (ProvingInit /\ GuestOff)
  /\ [][\/ GuestNext /\ UNCHANGED ProvingVars
        \/ ProvingNext /\ UNCHANGED GuestVars]_<<GuestVars, ProvingVars>>
  /\ ProvingFairness
=============================================================================
