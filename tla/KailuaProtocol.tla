--------------------------- MODULE KailuaProtocol ---------------------------
(***************************************************************************)
(* The on-chain protocol: treasury, factory and proposal tree as one       *)
(* system.  Each action is one transaction; a transaction that reverts is  *)
(* not a step.  Anyone may send any transaction at any time, in any order. *)
(***************************************************************************)
EXTENDS KailuaTournament

CONSTANTS
  Proposers,     \* accounts that propose
  Provers,       \* payout recipients named in proofs
  MaxTime,       \* bound on block.timestamp
  ProposalTime,  \* seconds of L2 a proposal covers
  LastProposal,  \* bound: no proposal after this time
  MaxSteps       \* bound on the stepLimit of a direct pruneChildren call

ASSUME ProtocolAssumption ==
  /\ Proposers \subseteq Accounts /\ Provers \subseteq Accounts
  /\ MaxTime \in Nat /\ ProposalTime \in Nat /\ LastProposal \in Nat /\ MaxSteps \in Nat

VARIABLE now    \* block.timestamp

vars == <<treasuryVars, tournamentVars, now>>

GenesisTime == 1

TypeOK == TreasuryTypeOK /\ TournamentTypeOK /\ now \in Nat

Init == TreasuryInit /\ TournamentInit(GenesisTime) /\ now = GenesisTime

-----------------------------------------------------------------------------
\* minCreationTime of a proposal at height h.
MinCreationTime(h) == GenesisTime + h * ProposalTime

\* getChallengerDuration(block.timestamp) == 0
ClockExpired(g) == now - createdAt[g] >= MaxClock

\* The vanguard leads: another proposer may not make the first proposal of t
\* until the advantage has passed.
VanguardAllows(a, t) ==
  \/ vanguard \in {NoAccount, a}
  \/ ChildCount(t) > 0
  \/ now - MinCreationTime(height[t] + 1) >= vanguardAdvantage

\* Mutant: a proposer may propose twice at a height.
IncrementalOrSame(a, h) ==
  lastProposal[a] # NoGame => height[lastProposal[a]] <= h

\* "Proposers may only extend the proposal set incrementally"
Incremental(a, h) ==
  lastProposal[a] # NoGame => height[lastProposal[a]] < h

\* KailuaTreasury.propose
Propose(a, t, s, d, deposit) ==
  /\ gameCount < MaxGames /\ now <= LastProposal
  /\ t < gameCount
  /\ Initialize(gameCount, t, s, d, now)
  /\ now >= MinCreationTime(height[t] + 1)
  /\ Incremental(a, height[t] + 1)
  /\ VanguardAllows(a, t)
  /\ RecordProposal(a, gameCount, deposit)
  /\ now' = now

\* KailuaTournament.proveValidity, proveOutputFault and proveTrailFault
Prove(t, i, q) ==
  /\ t < gameCount
  /\ \/ ProveValidity(t, i, q)
     \/ ProveOutputFault(t, i, q)
     \/ ProveTrailFault(t, i, q)
  /\ UNCHANGED <<treasuryVars, now>>

\* KailuaTournament.pruneChildren, called by anyone
PruneChildren(t, k) ==
  /\ \E ret \in Games \cup {NoGame} : Prune(t, k, ret)
  /\ UNCHANGED <<gameVars, resolved, children, proofVars, proposerOf, eliminationsPaid,
                 paidBonds, participationBond, lastProposal, lastResolved, vanguard,
                 vanguardAdvantage, balance, isLocked, now>>

\* Mutant: resolve prunes one step only.
OneStep(t) == 1

\* The stepLimit that resolve passes to pruneChildren.
ResolveSteps(t) == 2 * ChildCount(t)

\* KailuaGame.resolve
Resolve(g) ==
  LET t == parent[g] IN
  /\ g # Root /\ g < gameCount /\ g \notin resolved
  /\ IF validChildSignature[t] # NoSig
     THEN sig[g] = validChildSignature[t]
     ELSE ClockExpired(g)
  /\ Prune(t, ResolveSteps(t), g)
  /\ resolved' = resolved \cup {g}
  /\ lastResolved' = g
  /\ UNCHANGED <<gameVars, children, proofVars, proposerOf, eliminationsPaid, paidBonds,
                 participationBond, lastProposal, vanguard, vanguardAdvantage, balance,
                 isLocked, now>>

\* KailuaTreasury.resolve of the root instance, by the factory owner
ResolveTreasury ==
  /\ Root \notin resolved
  /\ resolved' = resolved \cup {Root}
  /\ lastResolved' = Root
  /\ UNCHANGED <<gameVars, children, pruneVars, proofVars, proposerOf, eliminationRound,
                 eliminations, eliminationsPaid, paidBonds, participationBond,
                 lastProposal, vanguard, vanguardAdvantage, balance, isLocked, now>>

\* Mutant: it is enough that the tournament of its last proposal has started.
NoPendingParent(a) ==
  lastProposal[a] # NoGame => parent[lastProposal[a]] \in resolved

\* No proposal of a is pending: the tournament of its last one is decided.
NoPendingProposal(a) ==
  lastProposal[a] # NoGame => ContenderResolved(parent[lastProposal[a]])

\* Transactions that only the treasury takes part in.
TreasuryCall ==
  /\ \/ \E a \in Accounts : ClaimProposerBond(a, NoPendingProposal(a))
     \/ \E q \in Accounts : ClaimEliminationBonds(q)
     \/ PayReturns
     \/ \E amount \in BondAmounts : SetParticipationBond(amount)
     \/ \E a \in Vanguards, d \in Advantages : AssignVanguard(a, d)
  /\ UNCHANGED <<tournamentVars, now>>

\* The next block; a transfer in progress is part of the current one.
Tick ==
  /\ now < MaxTime /\ ~isLocked
  /\ now' = now + 1
  /\ UNCHANGED <<treasuryVars, tournamentVars>>

Next ==
  \/ \E a \in Proposers, t \in Games, s \in Sigs, d \in Games, v \in Deposits :
       Propose(a, t, s, d, v)
  \/ \E t \in Games, q \in Provers : \E i \in Positions(t) : Prove(t, i, q)
  \/ \E t \in Games, k \in 0..MaxSteps : PruneChildren(t, k)
  \/ \E g \in Games : Resolve(g)
  \/ ResolveTreasury
  \/ TreasuryCall
  \/ Tick

Spec == Init /\ [][Next]_vars
=============================================================================
