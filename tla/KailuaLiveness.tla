--------------------------- MODULE KailuaLiveness ---------------------------
(***************************************************************************)
(* Progress of the on-chain protocol.  Blocks keep coming; the root is     *)
(* resolved by the deployment; a validator agent keeps trying to prove     *)
(* every faulty proposal faulty, and a proposer agent keeps trying to      *)
(* resolve (both agents are endless loops that retry failed transactions). *)
(* Everyone else may do anything or nothing: prune with any step limit,    *)
(* propose on any parent, withdraw, prove validity or not.                 *)
(***************************************************************************)
EXTENDS KailuaSafety

\* A validator's fault proof for child i of t, paid to q.
ProveFault(t, i, q) ==
  /\ ProveOutputFault(t, i, q) \/ ProveTrailFault(t, i, q)
  /\ UNCHANGED <<treasuryVars, now>>

Fairness ==
  /\ WF_vars(Tick)
  /\ WF_vars(ResolveTreasury)
  /\ WF_vars(PayReturns /\ UNCHANGED <<tournamentVars, now>>)
  /\ WF_vars(\E t \in Games, q \in Provers : \E i \in Positions(t) : ProveFault(t, i, q))
  /\ WF_vars(\E g \in Games : Resolve(g))

FairSpec == Spec /\ Fairness

\* Tournament t is live and has a correct child whose proposer is in good standing.
Contested(t) ==
  /\ t \in resolved
  /\ \E i \in Positions(t) : sig[Child(t, i)] = ValidSig /\ ~IsChildEliminated(Child(t, i))

\* A tournament with a correct proposal is decided: no sequence of rival proposals,
\* partial prunings, duplicates or eliminations can stall it for ever.
CorrectProposalDecidesTournament ==
  \A t \in Games : Contested(t) ~> ContenderResolved(t)
=============================================================================
