---------------------------- MODULE MCContracts ----------------------------
(***************************************************************************)
(* The contracts in detail: the protocol with its bonds, or one call of    *)
(* pruneChildren with its loops.  A behaviour is one of the two.           *)
(***************************************************************************)
EXTENDS MCKailua, PruneLoop

\* No call is looked at.
LoopOff ==
  /\ T = <<>> /\ limit = 0 /\ pc = "off" /\ u = 0 /\ v = 0 /\ k = 0
  /\ contender = NoChild /\ contenderSignature = NoChild /\ out = <<>> /\ dups = <<>>
  /\ ci = 0 /\ oi = 0 /\ ret = NoChild

ContractsSpec ==
  /\ Init /\ (LoopOff \/ PruneInit)
  /\ [][\/ pc = "off" /\ Next /\ UNCHANGED callVars
        \/ PruneNext /\ UNCHANGED vars]_<<vars, callVars>>
  /\ WF_callVars(PruneNext)

\* Every call of pruneChildren ends.
CallTerminates == pc # "off" => Terminates
=============================================================================
