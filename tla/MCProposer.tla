----------------------------- MODULE MCProposer -----------------------------
(***************************************************************************)
(* Instances of the proposer for TLC: with an op-node that is ahead of all *)
(* proposals, or with one that lags behind them.                           *)
(***************************************************************************)
EXTENDS ProposerSafety

CONSTANTS me, r1, none

VARIABLE lags  \* which of the two

MCProposers == {me, r1}

RivalGames == {i \in Indices : games[i].proposer \in Rivals}

\* A lagging op-node leaves more to interleave: it goes with fewer games, the other without
\* restarts.
Bounded ==
  IF lags THEN Cardinality(Indices) < MaxGames /\ Cardinality(RivalGames) < MaxRivalGames
  ELSE crashes = 0

MCSpec ==
  /\ lags \in BOOLEAN /\ ProposerInit /\ safe = (IF lags THEN 0 ELSE MaxSafe)
  /\ [][ProposerNext /\ UNCHANGED lags /\ Bounded']_<<proposeVars, lags>>
  /\ WF_proposeVars(~lags /\ Act) /\ WF_proposeVars(~lags /\ MineSome)

\* A proposer whose op-node is ahead never pays for a proposal that somebody in good standing
\* already made.  One whose op-node lags may lose a game that it has put off, and repeat it.
ProposesOnlyNeeded == ~lags => OwnProposalIsNeeded

\* A proposer whose op-node is ahead resolves what is due.  Games that the op-node has not
\* reached are put off, and their resolution with them.
ResolvesWhatIsDue == ~lags => DueIsResolved
=============================================================================
