---------------------------- MODULE KailuaLedger ----------------------------
(***************************************************************************)
(* The contracts implement the ledger, provided that every faulty proposal *)
(* is proven faulty within its challenge period.                           *)
(***************************************************************************)
EXTENDS KailuaSafety

\* There is time to prove a fault: with no challenge period nobody could.
ASSUME TimelyAssumption == MaxClock > 0

\* A block is mined only when the faults whose clock it would run out are
\* proven: validators are given the challenge period to prove a fault.
FaultsProvenInTime ==
  \A g \in Created \ {Root} :
    /\ sig[g] # ValidSig /\ now + 1 - createdAt[g] >= MaxClock
    => ~IsViableSignature(parent[g], sig[g])

TimelyNext == Next /\ (now' # now => FaultsProvenInTime)

TimelySpec == Init /\ [][TimelyNext]_vars

\* The ledger's view of the games and of the eliminations.
LedgerGames ==
  [g \in Created |->
     [parent |-> parent[g], proposer |-> proposerOf[g],
      good |-> g = Root \/ sig[g] = ValidSig, claim |-> g = Root \/ sig[g] = ValidSig,
      height |-> height[g], at |-> createdAt[g] - GenesisTime, ours |-> TRUE,
      kailua |-> TRUE]]

LedgerRound == [p \in Proposers |-> eliminationRound[p]]

L == INSTANCE Ledger WITH
       NoProposer <- Owner,
       Timeout <- MaxClock,
       FaultyClaims <- {FALSE},
       MaxForeign <- 0,
       games <- LedgerGames,
       round <- LedgerRound,
       now <- now - GenesisTime

\* Every behaviour of the contracts with timely fault proofs is one of the ledger: a
\* tournament is won by its earliest correct proposal in good standing, and exactly its
\* faulty rivals within the challenge period are eliminated, whatever partial prunings,
\* duplicates and proofs came before (pruneChildren and resolve).
ImplementsLedger == L!LedgerSpec

\* With IInv and Clocks inductive under timely proofs: see KailuaRefines.  Every game is
\* in its parent's array, its proposer may propose, and no fault outlives its clock.
Timely ==
  /\ \A g \in Created \ {Root} :
       /\ \E i \in Positions(parent[g]) : Child(parent[g], i) = g
       /\ proposerOf[g] \in Proposers
       /\ sig[g] # ValidSig /\ now - createdAt[g] >= MaxClock
            => ~IsViableSignature(parent[g], sig[g])
  /\ createdAt[Root] = GenesisTime
=============================================================================
