---------------------------- MODULE KailuaSafety ----------------------------
(***************************************************************************)
(* What the on-chain protocol promises.                                    *)
(***************************************************************************)
EXTENDS KailuaProtocol

Created == 0..(gameCount - 1)

\* The resolved proposals are one chain from the root, one per height, and
\* lastResolved is its tip: two branches of the proposal tree are never both
\* final, however resolve and pruneChildren calls on them interleave.
ResolvedFormOneChain ==
  /\ resolved # {} => Root \in resolved
  /\ \A g \in resolved : g # Root => parent[g] \in resolved
  /\ \A g, h \in resolved : height[g] = height[h] => g = h
  /\ \A g \in resolved : /\ lastResolved \in resolved
                         /\ height[g] <= height[lastResolved]
                         /\ g = lastResolved \/ ContenderResolved(g)

\* Nobody is eliminated for a correct proposal: a recorded elimination round is a
\* game of that proposer, in a tournament that was live, with a wrong signature.
\* (isChildEliminated and the duplicate loop of pruneChildren are what threatens it.)
HonestNeverEliminated ==
  \A a \in Accounts : LET g == eliminationRound[a] IN
    g # 0 => proposerOf[g] = a /\ sig[g] # ValidSig /\ parent[g] \in resolved

\* eliminate() never reverts with AlreadyEliminated under pruneChildren, which would
\* block a tournament for ever: in a tournament still to be decided a child that does
\* not count as eliminated has a proposer that never was, and no two share one.
EliminateNeverBlocks ==
  \A t \in resolved : ~ContenderResolved(t) =>
    \A i, j \in Positions(t) :
      /\ ~IsChildEliminated(Child(t, i)) => eliminationRound[proposerOf[Child(t, i)]] = 0
      /\ i # j => proposerOf[Child(t, i)] # proposerOf[Child(t, j)]

\* What pruneChildren's comments say of the progress it stores between calls holds of
\* every tournament, whatever happens between two calls: proposals and proofs in the
\* same tournament, and eliminations of the same proposers in others.
PruneProgress == \A t \in Created : Resumable(Tournament(t))

\* A proposal is final only as the sole survivor: its signature is viable, and every
\* other child of its tournament is eliminated, or commits to the same signature, or
\* was proposed after its challenge period.
ResolvedIsSoleSurvivor ==
  \A g \in resolved \ {Root} : LET t == parent[g] IN
    /\ IsViableSignature(t, sig[g]) /\ ~IsChildEliminated(g)
    /\ \A i \in Positions(t) : LET c == Child(t, i) IN
         \/ IsChildEliminated(c)
         \/ sig[c] = sig[g]
         \/ c > g /\ createdAt[c] - createdAt[g] >= MaxClock

\* The ETH the treasury holds is exactly the collateral it records, also while a
\* claim's recipient has control and calls back.
BondsBacked == balance = SumBonds(Accounts)

\* The amount is at least the lowest bond ever required.
CoversLowestBond(amount) ==
  \A b \in BondAmounts \cup {InitialBond} :
    (\A c \in BondAmounts \cup {InitialBond} : b <= c) => amount >= b

\* Every elimination has a bond to pay its prover with: a proposer cannot withdraw and
\* then be eliminated, nor be eliminated below the lowest bond ever required.
BondedStep ==
  \A a \in Accounts :
    eliminationRound[a] = 0 /\ eliminationRound'[a] # 0 => CoversLowestBond(paidBonds[a])

EliminationIsBonded == [][BondedStep]_vars

\* The bond of an eliminated proposer leaves the treasury only towards the prover it
\* is owed to, and then completely.
SlashedStep ==
  \A a \in Accounts :
    eliminationRound[a] # 0 /\ paidBonds'[a] # paidBonds[a] =>
      /\ paidBonds'[a] = 0
      /\ \E q \in Accounts : /\ a \in eliminations[q] \ eliminationsPaid[q]
                             /\ a \in eliminationsPaid'[q]

SlashedBondOnlyToProver == [][SlashedStep]_vars

\* "Ensure survivor decision finality after resolution": once a child is final its
\* tournament is closed to proposals, proofs and pruning, nobody is eliminated in it
\* any more, and the decision stays.
FinalityStep ==
  \A t \in Created : ContenderResolved(t) =>
    /\ children'[t] = children[t]
    /\ contenderIndex'[t] = contenderIndex[t]
    /\ contenderDuplicates'[t] = contenderDuplicates[t]
    /\ validChildSignature'[t] = validChildSignature[t]
    /\ proofStatus'[t] = proofStatus[t]
    /\ \A a \in Accounts : eliminationRound[a] = 0 /\ eliminationRound'[a] # 0 =>
         parent[eliminationRound'[a]] # t
    /\ Child(t, contenderIndex[t]) \in resolved'

DecisionIsFinal == [][FinalityStep]_vars

-----------------------------------------------------------------------------
(***************************************************************************)
(* The inductive invariant behind the first four properties.               *)
(***************************************************************************)

\* The shape of the proposal tree, and games that do not exist yet are blank.
Tree ==
  /\ parent[Root] = Root /\ height[Root] = 0
  /\ \A g \in Created : proposerOf[g] \in Accounts
  /\ \A g \in Created \ {Root} : /\ parent[g] \in Created /\ sig[g] \in Sigs
                                 /\ height[g] = height[parent[g]] + 1
  /\ \A g \in Games \ Created : /\ proposerOf[g] = NoAccount /\ children[g] = <<>>
                                /\ g \notin resolved
  /\ \A t \in Games : \A i \in Positions(t) :
       Child(t, i) \in Created \ {Root} /\ parent[Child(t, i)] = t
  /\ \A t \in Games : \A i, j \in Positions(t) : i < j => Child(t, i) < Child(t, j)

\* "Proposers may only extend the proposal set incrementally": a proposer's games climb.
Progression ==
  /\ \A a \in Accounts : lastProposal[a] # NoGame =>
       lastProposal[a] \in Created /\ proposerOf[lastProposal[a]] = a
  /\ \A g \in Created : LET l == lastProposal[proposerOf[g]] IN l # NoGame /\ g <= l
  /\ \A g, h \in Created : proposerOf[g] = proposerOf[h] /\ g < h => height[g] < height[h]

\* The verifier's soundness, in what the contract stores.
SoundProofs ==
  \A t \in Games : /\ proofStatus[t][ValidSig] # "FAULT"
                   /\ validChildSignature[t] \in {NoSig, ValidSig}

\* A tournament is not pruned before its own game resolves.
Unstarted ==
  \A t \in Games \ resolved :
    contenderIndex[t] = 0 /\ opponentIndex[t] = 0 /\ contenderDuplicates[t] = {}

\* Inductive: see KailuaProofs.
IInv ==
  /\ TypeOK /\ Tree /\ Progression /\ SoundProofs /\ Unstarted
  /\ ResolvedFormOneChain /\ HonestNeverEliminated /\ PruneProgress

\* Games are created in the order of their indices, none in the future.  With IInv and
\* ResolvedIsSoleSurvivor inductive: see KailuaProofs.
Clocks ==
  /\ \A g \in Created : createdAt[g] <= now
  /\ \A g, h \in Created : g < h => createdAt[g] <= createdAt[h]

\* A proposer with a pending proposal has its bond locked, and only the eliminated are
\* on a prover's list.  With IInv inductive: see KailuaBonds.
PendingIsBonded ==
  /\ participationBond \in BondAmounts \cup {InitialBond}
  /\ \A q \in Accounts \cup {NoAccount} : \A a \in eliminations[q] : eliminationRound[a] # 0
  /\ \A a \in Accounts : LET l == lastProposal[a] IN
       /\ eliminationRound[a] = 0 /\ l \notin {NoGame, Root}
       /\ ~ContenderResolved(parent[l])
       => CoversLowestBond(paidBonds[a])
=============================================================================
