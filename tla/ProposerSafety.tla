--------------------------- MODULE ProposerSafety ---------------------------
(***************************************************************************)
(* What the operator of a proposer expects of it.                          *)
(***************************************************************************)
EXTENDS Proposer

Mine == {i \in Indices : games[i].proposer = Me}

\* The proposer's bond is safe: whatever it knew when it sent a transaction and whenever
\* the transaction was mined, its proposals extend correct ones, and it is never
\* eliminated.
BondIsSafe ==
  /\ round[Me] = 0
  /\ \A i \in Mine : \A j \in Ancestry(i) : games[j].good

\* The proposer never pays for a proposal that somebody in good standing already made:
\* an earlier correct proposal next to its own is by a proposer with a fault behind it.
OwnProposalIsNeeded ==
  \A i \in Mine : \A d \in Children(games[i].parent) : d < i /\ games[d].good =>
    \E b \in 1..(d - 1) : games[b].proposer = games[d].proposer /\ ~games[b].good

-----------------------------------------------------------------------------
(***************************************************************************)
(* The inductive invariant behind BondIsSafe: see AgentProofs.             *)
(***************************************************************************)

\* A transaction that does no harm whenever it is mined.
Harmless(x) ==
  \/ x.call = "propose" /\ Sound(x.game)
  \/ x.call = "resolve" /\ x.game \in Indices

OwnInv ==
  /\ \A i \in Mine : Sound(i)
  /\ round[Me] = 0
  /\ turn # "sync" => pc # "off"
  /\ turn \in Sending \cup Waiting => Harmless(awaited)
  /\ \A x \in sent : Harmless(x)

-----------------------------------------------------------------------------
(***************************************************************************)
(* The inductive invariant behind OwnProposalIsNeeded: see AgentProofs.    *)
(***************************************************************************)

\* The proposer of d has a fault behind it.
Spoilt(d) == \E b \in 1..(d - 1) : games[b].proposer = games[d].proposer /\ ~games[b].good

\* A transaction that counts the dupes as they were when there was none in good standing.
Fresh(x) ==
  x.call = "propose" =>
    /\ x.game \in Indices /\ x.dup \in 0..Cardinality(Dupes(x.game))
    /\ x.dup = Cardinality(Dupes(x.game)) =>
         \A d \in Dupes(x.game) : games[d].good => Spoilt(d)

NeededInv ==
  /\ \A i \in Indices : games[i].good => games[i].claim
  /\ turn \in Sending \cup Waiting => Fresh(awaited)
  /\ \A x \in sent : Fresh(x)
  /\ OwnProposalIsNeeded

-----------------------------------------------------------------------------
(***************************************************************************)
(* Progress, when the loop is endless and every transaction is mined or    *)
(* given up: WF_proposeVars(Act) and WF_proposeVars(MineSome).             *)
(***************************************************************************)
MineSome == \E x \in sent : Mined(x)

Due(g) == g \in Indices /\ CanResolve(g) /\ Ripe(g)

\* A surviving proposal whose challenge period and whose rivals' are over is resolved,
\* unless new rivals appear: the proposer finds it and gets its transaction through.
DueIsResolved ==
  \A g \in 1..(MaxGames - 1) : Due(g) ~> (g \in resolved \/ ~Due(g))
=============================================================================
