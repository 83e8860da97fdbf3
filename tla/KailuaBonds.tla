----------------------------- MODULE KailuaBonds -----------------------------
(***************************************************************************)
(* What happens to bonds: a pending proposal keeps its proposer's bond     *)
(* locked, so every elimination is paid for; and a slashed bond goes to    *)
(* the prover it is owed to and nowhere else.                              *)
(***************************************************************************)
EXTENDS KailuaProofs, WellFoundedInduction

(***************************************************************************)
(* Sums of bonds, as claimEliminationBonds adds them up one by one: the    *)
(* total does not depend on the order, and paying some bonds out takes     *)
(* exactly their sum away.                                                 *)
(***************************************************************************)

\* Induction over the subsets of a finite set, with the induction predicate as a set.
LEMMA SubsetInduction ==
  ASSUME NEW S, IsFiniteSet(S), NEW G,
         \A X \in SUBSET S : (\A Y \in SUBSET X : Y # X => Y \in G) => X \in G
  PROVE  \A X \in SUBSET S : X \in G
<1> DEFINE Bad == {X \in SUBSET S : X \notin G}
<1> SUFFICES ASSUME Bad # {} PROVE FALSE
  OBVIOUS
<1>1. IsWellFoundedOn(StrictSubsetOrdering(S), SUBSET S)
  <2>1. FiniteSubsetsOf(S) = SUBSET S
    BY FS_FiniteSubsetsOfFinite
  <2>2. IsWellFoundedOn(StrictSubsetOrdering(S), FiniteSubsetsOf(S))
    BY FS_StrictSubsetOrderingWellFounded
  <2> QED
    BY <2>1, <2>2
<1>2. PICK X \in Bad : \A Y \in Bad : <<Y, X>> \notin StrictSubsetOrdering(S)
  <2>1. Bad \subseteq SUBSET S
    OBVIOUS
  <2> HIDE DEF Bad
  <2> QED
    BY <1>1, <2>1, WFMin
<1>3. ASSUME NEW Y \in SUBSET X, Y # X PROVE Y \in G
  <2>1. Y \in SUBSET S /\ X \in SUBSET S
    OBVIOUS
  <2>2. <<Y, X>> \in StrictSubsetOrdering(S)
    BY <1>3, <2>1 DEF StrictSubsetOrdering
  <2> QED
    BY <1>2, <2>1, <2>2
<1> QED
  BY <1>3

-----------------------------------------------------------------------------
\* The element that a sum takes first.
Pick(X) == CHOOSE x \in X : TRUE

\* f gives the sum of the bonds of every part of Y.
IsTotal(f, b, Y) ==
  f = [X \in SUBSET Y |-> IF X = {} THEN 0 ELSE b[Pick(X)] + f[X \ {Pick(X)}]]

Total(b, Y) == CHOOSE f : IsTotal(f, b, Y)

LEMMA PickFacts ==
  ASSUME NEW X, X # {}
  PROVE  /\ Pick(X) \in X
         /\ X \ {Pick(X)} \in SUBSET X /\ X \ {Pick(X)} # X
<1>1. Pick(X) \in X
  BY DEF Pick
<1> QED
  BY <1>1

\* Two totals agree where both are defined.
LEMMA TotalsAgree ==
  ASSUME NEW S, IsFiniteSet(S), NEW b, NEW f, IsTotal(f, b, S),
         NEW Y \in SUBSET S, NEW g, IsTotal(g, b, Y)
  PROVE  \A X \in SUBSET Y : f[X] = g[X]
<1> DEFINE G == {X \in SUBSET Y : f[X] = g[X]}
<1>1. IsFiniteSet(Y)
  BY FS_Subset
<1>2. ASSUME NEW X \in SUBSET Y, \A Z \in SUBSET X : Z # X => Z \in G
      PROVE  X \in G
  <2>0. X \in SUBSET S
    OBVIOUS
  <2>1. /\ f[X] = IF X = {} THEN 0 ELSE b[Pick(X)] + f[X \ {Pick(X)}]
        /\ g[X] = IF X = {} THEN 0 ELSE b[Pick(X)] + g[X \ {Pick(X)}]
    BY <2>0 DEF IsTotal
  <2>2. X # {} => X \ {Pick(X)} \in G
    BY <1>2, PickFacts
  <2> QED
    BY <2>1, <2>2
<1> HIDE DEF G
<1>3. \A X \in SUBSET Y : X \in G
  BY <1>1, <1>2, SubsetInduction
<1> QED
  BY <1>3 DEF G

\* What the total of a set is built from.
LEMMA TotalExists ==
  ASSUME NEW S, IsFiniteSet(S), NEW b
  PROVE  IsTotal(Total(b, S), b, S)
<1> DEFINE G == {X \in SUBSET S : IsTotal(Total(b, X), b, X)}
<1>1. ASSUME NEW X \in SUBSET S, \A Z \in SUBSET X : Z # X => Z \in G
      PROVE  X \in G
  <2> DEFINE T(W) == Total(b, W)[W]
             F == [Z \in SUBSET X |-> IF Z = {} THEN 0
                                      ELSE b[Pick(Z)] + T(Z \ {Pick(Z)})]
  <2>1. ASSUME NEW W \in SUBSET X, W # X
        PROVE  T(W) = IF W = {} THEN 0 ELSE b[Pick(W)] + T(W \ {Pick(W)})
    <3>1. IsTotal(Total(b, W), b, W) /\ IsFiniteSet(W)
      BY <1>1, <2>1, FS_Subset
    <3>2. T(W) = IF W = {} THEN 0 ELSE b[Pick(W)] + Total(b, W)[W \ {Pick(W)}]
      BY <3>1 DEF IsTotal
    <3>3. ASSUME W # {} PROVE Total(b, W)[W \ {Pick(W)}] = T(W \ {Pick(W)})
      <4>1. PICK V : V = W \ {Pick(W)}
        OBVIOUS
      <4>2. V \in SUBSET W /\ V \in SUBSET X /\ V # X
        BY <3>3, <4>1, <2>1, PickFacts
      <4>3. IsTotal(Total(b, V), b, V)
        BY <1>1, <4>2
      <4>4. \A Z \in SUBSET V : Total(b, W)[Z] = Total(b, V)[Z]
        BY <3>1, <4>2, <4>3, TotalsAgree, SMTT(30)
      <4> QED
        BY <4>1, <4>4
    <3> QED
      BY <3>2, <3>3
  <2>2. ASSUME NEW Z \in SUBSET X, Z # {}
        PROVE  F[Z \ {Pick(Z)}] = T(Z \ {Pick(Z)})
    <3>1. PICK W : W = Z \ {Pick(Z)}
      OBVIOUS
    <3>2. W \in SUBSET X /\ W # X
      BY <2>2, <3>1, PickFacts
    <3>3. F[W] = IF W = {} THEN 0 ELSE b[Pick(W)] + T(W \ {Pick(W)})
      BY <3>2
    <3> QED
      BY <2>1, <3>1, <3>2, <3>3
  <2>3. IsTotal(F, b, X)
    <3>1. ASSUME NEW Z \in SUBSET X
          PROVE  (IF Z = {} THEN 0 ELSE b[Pick(Z)] + T(Z \ {Pick(Z)}))
                   = IF Z = {} THEN 0 ELSE b[Pick(Z)] + F[Z \ {Pick(Z)}]
      <4> HIDE DEF F, T
      <4> QED
        BY <2>2
    <3> QED
      BY <3>1 DEF IsTotal
  <2> HIDE DEF F
  <2>4. IsTotal(Total(b, X), b, X)
    BY <2>3 DEF Total
  <2> QED
    BY <2>4
<1> HIDE DEF G
<1>2. \A X \in SUBSET S : X \in G
  BY <1>1, SubsetInduction
<1> QED
  BY <1>2 DEF G

-----------------------------------------------------------------------------
\* A sum takes some element first and adds the sum of the others.
LEMMA SumTakesOne ==
  ASSUME NEW S, IsFiniteSet(S), NEW b
  PROVE  SumOver(b, S) = IF S = {} THEN 0
                         ELSE b[Pick(S)] + SumOver(b, S \ {Pick(S)})
<1>0. ASSUME NEW X PROVE SumOver(b, X) = Total(b, X)[X]
  BY DEF SumOver, Total, IsTotal, Pick
<1>1. IsTotal(Total(b, S), b, S)
  BY TotalExists
<1>2. Total(b, S)[S] = IF S = {} THEN 0 ELSE b[Pick(S)] + Total(b, S)[S \ {Pick(S)}]
  BY <1>1 DEF IsTotal
<1>3. ASSUME S # {} PROVE Total(b, S)[S \ {Pick(S)}] = Total(b, S \ {Pick(S)})[S \ {Pick(S)}]
  <2>1. PICK V \in SUBSET S : V = S \ {Pick(S)}
    OBVIOUS
  <2>2. IsTotal(Total(b, V), b, V)
    BY FS_Subset, TotalExists
  <2>3. \A Z \in SUBSET V : Total(b, S)[Z] = Total(b, V)[Z]
    BY <1>1, <2>2, TotalsAgree
  <2> QED
    BY <2>1, <2>3
<1> QED
  BY <1>0, <1>2, <1>3

\* Bonds are amounts, so their sum is one.
LEMMA SumIsNat ==
  ASSUME NEW A, IsFiniteSet(A), NEW b \in [A -> Nat]
  PROVE  \A S \in SUBSET A : SumOver(b, S) \in Nat
<1> DEFINE G == {X \in SUBSET A : SumOver(b, X) \in Nat}
<1>1. ASSUME NEW X \in SUBSET A, \A Z \in SUBSET X : Z # X => Z \in G
      PROVE  X \in G
  <2>1. SumOver(b, X) = IF X = {} THEN 0 ELSE b[Pick(X)] + SumOver(b, X \ {Pick(X)})
    BY FS_Subset, SumTakesOne
  <2>2. CASE X # {}
    <3>1. SumOver(b, X \ {Pick(X)}) \in Nat /\ b[Pick(X)] \in Nat
      BY <1>1, <2>2, PickFacts
    <3> QED
      BY <2>1, <2>2, <3>1
  <2> QED
    BY <2>1, <2>2
<1> HIDE DEF G
<1>2. \A X \in SUBSET A : X \in G
  BY <1>1, SubsetInduction
<1> QED
  BY <1>2 DEF G

\* The order does not matter: any element may be taken first.
LEMMA SumTakesAny ==
  ASSUME NEW A, IsFiniteSet(A), NEW b \in [A -> Nat]
  PROVE  \A S \in SUBSET A : \A c \in S : SumOver(b, S) = b[c] + SumOver(b, S \ {c})
<1> DEFINE G == {X \in SUBSET A : \A c \in X : SumOver(b, X) = b[c] + SumOver(b, X \ {c})}
<1>1. ASSUME NEW X \in SUBSET A, \A Z \in SUBSET X : Z # X => Z \in G
      PROVE  X \in G
  <2> SUFFICES ASSUME NEW c \in X PROVE SumOver(b, X) = b[c] + SumOver(b, X \ {c})
    OBVIOUS
  <2>1. PICK a \in X : /\ a = Pick(X)
                       /\ SumOver(b, X) = b[a] + SumOver(b, X \ {a})
    BY FS_Subset, SumTakesOne, PickFacts
  <2>2. CASE c # a
    <3>1. PICK U \in SUBSET X, V \in SUBSET X, W \in SUBSET X :
            /\ U = X \ {a} /\ V = X \ {c} /\ W = U \ {c} /\ W = V \ {a}
            /\ U # X /\ V # X /\ c \in U /\ a \in V
      <4>1. /\ X \ {a} \in SUBSET X /\ X \ {c} \in SUBSET X
            /\ (X \ {a}) \ {c} \in SUBSET X /\ (X \ {a}) \ {c} = (X \ {c}) \ {a}
            /\ X \ {a} # X /\ X \ {c} # X /\ c \in X \ {a} /\ a \in X \ {c}
        BY <2>2
      <4> QED
        BY <4>1
    <3>2. SumOver(b, U) = b[c] + SumOver(b, W) /\ SumOver(b, V) = b[a] + SumOver(b, W)
      BY <1>1, <3>1
    <3>3. b[a] \in Nat /\ b[c] \in Nat /\ SumOver(b, W) \in Nat
      BY SumIsNat
    <3> QED
      BY <2>1, <3>1, <3>2, <3>3
  <2> QED
    BY <2>1, <2>2
<1> HIDE DEF G
<1>2. \A X \in SUBSET A : X \in G
  BY <1>1, SubsetInduction
<1> QED
  BY <1>2 DEF G

\* Clearing the bonds of the members of S takes their sum from every total.
LEMMA SumAfterClearing ==
  ASSUME NEW A, IsFiniteSet(A), NEW b \in [A -> Nat], NEW S \in SUBSET A,
         NEW r \in [A -> Nat], \A a \in A : r[a] = IF a \in S THEN 0 ELSE b[a]
  PROVE  SumOver(r, A) = SumOver(b, A) - SumOver(b, S)
<1> DEFINE G == {X \in SUBSET A : SumOver(b, X) = SumOver(r, X) + SumOver(b, X \cap S)}
<1>1. ASSUME NEW X \in SUBSET A, \A Z \in SUBSET X : Z # X => Z \in G
      PROVE  X \in G
  <2>1. CASE X = {}
    <3>1. X \cap S = {}
      BY <2>1
    <3>2. SumOver(b, {}) = 0 /\ SumOver(r, {}) = 0
      BY SumTakesOne, FS_EmptySet
    <3> QED
      BY <2>1, <3>1, <3>2
  <2>2. ASSUME NEW a \in X PROVE X \in G
    <3>1. PICK Y \in SUBSET X : Y = X \ {a} /\ Y # X
      <4>1. X \ {a} \in SUBSET X /\ X \ {a} # X
        OBVIOUS
      <4> QED
        BY <4>1
    <3>2. SumOver(b, Y) = SumOver(r, Y) + SumOver(b, Y \cap S)
      BY <1>1, <3>1
    <3>3. SumOver(b, X) = b[a] + SumOver(b, Y) /\ SumOver(r, X) = r[a] + SumOver(r, Y)
      BY <3>1, SumTakesAny
    <3>4. SumOver(b, X \cap S) = (IF a \in S THEN b[a] ELSE 0) + SumOver(b, Y \cap S)
      <4>0. Y \cap S \in SUBSET A /\ X \cap S \in SUBSET A
        OBVIOUS
      <4>1. CASE a \in S
        <5>1. a \in X \cap S /\ Y \cap S = (X \cap S) \ {a}
          BY <3>1, <4>1
        <5> QED
          BY <4>0, <4>1, <5>1, SumTakesAny
      <4>2. CASE a \notin S
        <5>1. Y \cap S = X \cap S
          BY <3>1, <4>2
        <5>2. PICK n \in Nat : n = SumOver(b, X \cap S)
          BY <4>0, SumIsNat
        <5>3. n = SumOver(b, Y \cap S)
          BY <5>1, <5>2
        <5> QED
          BY <4>2, <5>2, <5>3
      <4> QED
        BY <4>1, <4>2
    <3>5. /\ b[a] \in Nat /\ r[a] = IF a \in S THEN 0 ELSE b[a]
          /\ SumOver(r, Y) \in Nat /\ SumOver(b, Y \cap S) \in Nat
      BY SumIsNat
    <3>6. SumOver(b, X) = SumOver(r, X) + SumOver(b, X \cap S)
      BY <3>2, <3>3, <3>4, <3>5
    <3> QED
      BY <3>6
  <2> QED
    BY <2>1, <2>2
<1> HIDE DEF G
<1>2. A \in G
  BY <1>1, SubsetInduction
<1>3. SumOver(b, A) = SumOver(r, A) + SumOver(b, A \cap S) /\ A \cap S = S
  BY <1>2 DEF G
<1>4. SumOver(r, A) \in Nat /\ SumOver(b, S) \in Nat
  BY SumIsNat
<1> QED
  BY <1>3, <1>4

\* A change of one bond changes the total by as much.
LEMMA SumAfterChange ==
  ASSUME NEW A, IsFiniteSet(A), NEW b \in [A -> Nat], NEW a \in A, NEW r \in [A -> Nat],
         \A c \in A : c # a => r[c] = b[c]
  PROVE  SumOver(r, A) = SumOver(b, A) - b[a] + r[a]
<1> DEFINE G == {X \in SUBSET (A \ {a}) : SumOver(r, X) = SumOver(b, X)}
           B == A \ {a}
<1>1. ASSUME NEW X \in SUBSET B, \A Z \in SUBSET X : Z # X => Z \in G
      PROVE  X \in G
  <2>1. /\ SumOver(r, X) = IF X = {} THEN 0 ELSE r[Pick(X)] + SumOver(r, X \ {Pick(X)})
        /\ SumOver(b, X) = IF X = {} THEN 0 ELSE b[Pick(X)] + SumOver(b, X \ {Pick(X)})
    BY FS_Subset, SumTakesOne
  <2>2. CASE X # {}
    <3>1. X \ {Pick(X)} \in G /\ r[Pick(X)] = b[Pick(X)]
      BY <1>1, <2>2, PickFacts
    <3> QED
      BY <2>1, <2>2, <3>1
  <2> QED
    BY <2>1, <2>2
<1>2. IsFiniteSet(B) /\ B \in SUBSET A
  BY FS_Subset
<1>3. B \in G
  <2> HIDE DEF G, B
  <2>1. \A X \in SUBSET B : X \in G
    BY <1>1, <1>2, SubsetInduction
  <2> QED
    BY <2>1
<1>4. SumOver(r, A) = r[a] + SumOver(r, B) /\ SumOver(b, A) = b[a] + SumOver(b, B)
  BY SumTakesAny
<1>5. SumOver(b, B) \in Nat /\ b[a] \in Nat /\ r[a] \in Nat
  BY <1>2, SumIsNat
<1> QED
  BY <1>3, <1>4, <1>5

-----------------------------------------------------------------------------
(***************************************************************************)
(* The bonds behind pending proposals, and where slashed bonds go.         *)
(***************************************************************************)

BondInv == IInv /\ PendingIsBonded

\* Proofs, blocks and the root's resolution leave the treasury's books alone.
LEMMA BooksUnchanged ==
  ASSUME \/ Tick \/ ResolveTreasury
         \/ \E t \in Games, q \in Provers : \E i \in Positions(t) : Prove(t, i, q)
  PROVE  UNCHANGED <<eliminationRound, eliminations, eliminationsPaid, paidBonds,
                     participationBond, lastProposal, balance>>
BY DEF Tick, ResolveTreasury, Prove, treasuryVars

\* Pruning moves no bond, and lists on the provers' accounts only whom it eliminates.
LEMMA PruneBooks ==
  ASSUME IInv, NEW t \in Games, NEW k \in Nat, NEW o, PruneStep(t, k, o)
  PROVE  /\ UNCHANGED <<eliminationsPaid, paidBonds, participationBond, lastProposal>>
         /\ \A a \in Accounts : eliminationRound[a] # 0 =>
              eliminationRound'[a] = eliminationRound[a]
         /\ \A q \in Accounts \cup {NoAccount} : \A a \in eliminations'[q] :
              \/ a \in eliminations[q]
              \/ eliminationRound[a] = 0 /\ eliminationRound'[a] # 0
<1>1. TypeOK /\ Tree
  BY DEF IInv
<1>2. \A a \in Accounts : eliminationRound[a] # 0 =>
        eliminationRound'[a] = eliminationRound[a]
  BY PruneRounds
<1>3. ASSUME NEW q \in Accounts \cup {NoAccount}, NEW a \in eliminations'[q],
             a \notin eliminations[q]
      PROVE  eliminationRound[a] = 0 /\ eliminationRound'[a] # 0
  <2> DEFINE E == {Child(t, i) : i \in o.elim}
             payee == [g \in E |-> GetPayoutRecipient(t, sig[g])]
  <2>1. /\ CanEliminate(E)
        /\ eliminations' = [p \in Accounts \cup {NoAccount} |->
             eliminations[p] \cup {proposerOf[g] : g \in {h \in E : payee[h] = p}}]
    BY DEF PruneStep, Eliminate
  <2>2. PICK g \in E : a = proposerOf[g]
    BY <1>3, <2>1
  <2>3. PICK i \in o.elim : a = proposerOf[Child(t, i)]
    BY <2>2
  <2>4. a \in Accounts
    BY <1>1, <2>3, PruneEliminates, ChildFacts
  <2>5. PICK j \in o.elim : eliminationRound'[a] = Child(t, j) /\ eliminationRound[a] = 0
    BY <2>3, <2>4, PruneRounds
  <2>6. Child(t, j) # 0
    BY <1>1, <2>5, PruneEliminates, ChildFacts DEF Root
  <2> QED
    BY <2>5, <2>6
<1> QED
  BY <1>2, <1>3 DEF PruneStep

\* The claim functions clear bonds; nothing else of what TreasuryCall does touches them.
LEMMA CallBooks ==
  ASSUME TypeOK, TreasuryCall
  PROVE  /\ UNCHANGED <<eliminationRound, eliminations, lastProposal, tournamentVars>>
         /\ participationBond' = participationBond \/ participationBond' \in BondAmounts
         /\ \A a \in Accounts :
              \/ paidBonds'[a] = paidBonds[a]
              \/ /\ paidBonds'[a] = 0 /\ eliminationRound[a] = 0 /\ NoPendingProposal(a)
              \/ /\ paidBonds'[a] = 0
                 /\ \E q \in Accounts : /\ a \in eliminations[q] \ eliminationsPaid[q]
                                        /\ a \in eliminationsPaid'[q]
<1>1. ASSUME NEW a \in Accounts, ClaimProposerBond(a, NoPendingProposal(a))
      PROVE  /\ UNCHANGED <<eliminationRound, eliminations, lastProposal, participationBond>>
             /\ eliminationRound[a] = 0 /\ NoPendingProposal(a)
             /\ \A b \in Accounts : paidBonds'[b] = IF b = a THEN 0 ELSE paidBonds[b]
  BY <1>1 DEF ClaimProposerBond, TypeOK, TreasuryTypeOK
<1>2. ASSUME NEW q \in Accounts, ClaimEliminationBonds(q), NEW a \in Accounts
      PROVE  /\ UNCHANGED <<eliminationRound, eliminations, lastProposal, participationBond>>
             /\ \/ paidBonds'[a] = paidBonds[a]
                \/ /\ paidBonds'[a] = 0
                   /\ a \in eliminations[q] \ eliminationsPaid[q]
                   /\ a \in eliminationsPaid'[q]
  BY <1>2 DEF ClaimEliminationBonds, TypeOK, TreasuryTypeOK
<1>3. ASSUME PayReturns \/ (\E amount \in BondAmounts : SetParticipationBond(amount))
             \/ (\E a \in Vanguards, d \in Advantages : AssignVanguard(a, d))
      PROVE  /\ UNCHANGED <<eliminationRound, eliminations, lastProposal, paidBonds>>
             /\ participationBond' = participationBond \/ participationBond' \in BondAmounts
  BY <1>3 DEF PayReturns, SetParticipationBond, AssignVanguard
<1>4. UNCHANGED tournamentVars
  BY DEF TreasuryCall
<1>5. CASE \E q \in Accounts : ClaimEliminationBonds(q)
  BY <1>2, <1>4, <1>5
<1> QED
  BY <1>1, <1>3, <1>4, <1>5 DEF TreasuryCall

\* The bond of an eliminated proposer leaves the treasury only through
\* claimEliminationBonds of the prover it is owed to: propose() and
\* claimProposerBond() turn the eliminated away.
THEOREM SlashedBondsReachProvers ==
  Spec => SlashedBondOnlyToProver
<1>1. ASSUME IInv, [Next]_vars PROVE [SlashedStep]_vars
  <2> SUFFICES ASSUME Next PROVE SlashedStep
    BY <1>1
  <2>0. TypeOK
    BY <1>1 DEF IInv
  <2>1. ASSUME NEW a \in Proposers, NEW r \in Games, NEW s \in Sigs, NEW d \in Games,
               NEW v \in Deposits, Propose(a, r, s, d, v), NEW b \in Accounts
        PROVE  eliminationRound[b] # 0 => paidBonds'[b] = paidBonds[b]
    BY <2>0, <2>1 DEF Propose, RecordProposal, TypeOK, TreasuryTypeOK
  <2>2. ASSUME NEW r \in Games, NEW q \in Provers, NEW i \in Positions(r), Prove(r, i, q)
        PROVE  paidBonds' = paidBonds
    BY <2>2, BooksUnchanged
  <2>3. ASSUME NEW r \in Games, NEW k \in 0..MaxSteps, PruneChildren(r, k)
        PROVE  paidBonds' = paidBonds
    BY <2>3 DEF PruneChildren
  <2>4. ASSUME NEW g \in Games, Resolve(g) PROVE paidBonds' = paidBonds
    BY <2>4 DEF Resolve
  <2>5. CASE Tick \/ ResolveTreasury
    BY <2>5, BooksUnchanged DEF SlashedStep
  <2>6. CASE TreasuryCall
    BY <2>0, <2>6, CallBooks DEF SlashedStep
  <2> QED
    BY <2>1, <2>2, <2>3, <2>4, <2>5, <2>6 DEF Next, SlashedStep
<1> QED
  BY <1>1, Invariance, PTL DEF Spec, SlashedBondOnlyToProver

-----------------------------------------------------------------------------
(***************************************************************************)
(* Eliminations are bonded.                                                *)
(***************************************************************************)

\* A tournament that is decided stays decided.
LEMMA SettledStays ==
  ASSUME IInv, Next, NEW t \in Created, ContenderResolved(t)
  PROVE  ContenderResolved(t)'
<1>1. /\ children'[t] = children[t] /\ contenderIndex'[t] = contenderIndex[t]
      /\ Child(t, contenderIndex[t]) \in resolved'
  BY NextIsFinal DEF FinalityStep
<1> QED
  BY <1>1 DEF ContenderResolved, ChildCount, Child

\* Whoever is eliminated has a pending proposal: the tournament of the last one is not
\* decided, because it is the live one or above it.
LEMMA EliminatedIsPending ==
  ASSUME IInv, NEW t \in Games, NEW k \in Nat, NEW o, PruneStep(t, k, o),
         NEW a \in Accounts, eliminationRound[a] = 0, eliminationRound'[a] # 0
  PROVE  /\ lastProposal[a] \notin {NoGame, Root}
         /\ ~ContenderResolved(parent[lastProposal[a]])
<1>1. TypeOK /\ Tree /\ Progression /\ ResolvedFormOneChain
  BY DEF IInv
<1>2. PICK i \in o.elim : eliminationRound'[a] = Child(t, i) /\ proposerOf[Child(t, i)] = a
  BY PruneRounds
<1>3. i \in Positions(t) /\ t = lastResolved
  BY PruneEliminates
<1>4. ~ContenderResolved(t)
  <2>1. Tournament(t).settled => o.elim = {}
    BY DEF PruneStep, Outcomes
  <2> QED
    BY <1>1, <2>1, TournamentFacts
<1> DEFINE c == Child(t, i)
           l == lastProposal[a]
           p == parent[l]
<1>5. /\ c \in Created \ {Root} /\ parent[c] = t /\ c \in Nat
      /\ height[c] = height[t] + 1 /\ height[t] \in Nat
  BY <1>1, <1>3, ChildFacts, CreatedAreGames DEF TypeOK, TournamentTypeOK
<1>6. l # NoGame /\ c <= l /\ l \in Created /\ proposerOf[l] = a /\ l \in Nat
  BY <1>1, <1>2, <1>5, CreatedAreGames DEF Progression
<1>7. l # Root
  BY <1>5, <1>6 DEF Root
<1>8. /\ p \in Created /\ p \in Games /\ height[l] = height[p] + 1 /\ height[p] \in Nat
      /\ contenderIndex[p] \in Nat
  BY <1>1, <1>6, <1>7, CreatedAreGames DEF Tree, TypeOK, TournamentTypeOK
<1>9. ASSUME ContenderResolved(p) PROVE FALSE
  <2>1. PICK j \in Positions(p) : Child(p, j) \in resolved
    <3>1. contenderIndex[p] \in Positions(p)
      BY <1>1, <1>8, <1>9, TournamentFacts DEF ContenderResolved, Positions
    <3> QED
      BY <1>9, <3>1 DEF ContenderResolved
  <2>2. height[Child(p, j)] = height[p] + 1
    BY <1>1, <1>8, <2>1, ChildFacts
  <2>3. height[p] + 1 <= height[t]
    BY <1>1, <1>3, <2>1, <2>2 DEF ResolvedFormOneChain
  <2>4. c # l
    BY <1>4, <1>5, <1>9
  <2>5. height[c] < height[l]
    BY <1>1, <1>2, <1>5, <1>6, <2>4 DEF Progression
  <2> QED
    BY <1>5, <1>8, <2>3, <2>5
<1> QED
  BY <1>6, <1>7, <1>9

\* A pending proposal was pending before the step.
LEMMA WasPending ==
  ASSUME IInv, Next, NEW a \in Accounts, lastProposal'[a] = lastProposal[a],
         lastProposal[a] \notin {NoGame, Root},
         ~ContenderResolved(parent[lastProposal[a]])'
  PROVE  ~ContenderResolved(parent[lastProposal[a]])
<1>1. lastProposal[a] \in Created /\ Tree
  BY DEF IInv, Progression
<1>2. PICK p \in Created : p = parent[lastProposal[a]] /\ p = parent'[lastProposal'[a]]
  BY <1>1, GamesKept DEF Tree
<1>3. ~ContenderResolved(p)'
  BY <1>2 DEF ContenderResolved, ChildCount, Child
<1> QED
  BY <1>2, <1>3, SettledStays

\* Pruning keeps the books in order: the lists grow by the newly eliminated only.
LEMMA PruneKeepsBonded ==
  ASSUME BondInv, Next, NEW t \in Games, NEW k \in Nat, NEW o, PruneStep(t, k, o)
  PROVE  PendingIsBonded'
<1>1. IInv /\ PendingIsBonded /\ TypeOK /\ Tree /\ Progression
  BY DEF BondInv, IInv
<1>2. /\ UNCHANGED <<paidBonds, participationBond, lastProposal>>
      /\ \A a \in Accounts : eliminationRound[a] # 0 =>
           eliminationRound'[a] = eliminationRound[a]
      /\ \A q \in Accounts \cup {NoAccount} : \A a \in eliminations'[q] :
           \/ a \in eliminations[q]
           \/ eliminationRound[a] = 0 /\ eliminationRound'[a] # 0
  BY <1>1, PruneBooks
<1>3. \A q \in Accounts \cup {NoAccount} : \A a \in eliminations'[q] :
        eliminationRound'[a] # 0
  <2> SUFFICES ASSUME NEW q \in Accounts \cup {NoAccount}, NEW a \in eliminations[q]
               PROVE  eliminationRound'[a] # 0
    BY <1>2
  <2>1. a \in Accounts /\ eliminationRound[a] # 0
    BY <1>1 DEF TypeOK, TreasuryTypeOK, PendingIsBonded
  <2> QED
    BY <1>2, <2>1
<1>4. ASSUME NEW a \in Accounts, eliminationRound'[a] = 0,
             lastProposal[a] \notin {NoGame, Root},
             ~ContenderResolved(parent[lastProposal[a]])'
      PROVE  CoversLowestBond(paidBonds[a])
  <2>1. eliminationRound[a] = 0 /\ lastProposal'[a] = lastProposal[a]
    BY <1>2, <1>4
  <2>2. ~ContenderResolved(parent[lastProposal[a]])
    BY <1>1, <1>4, <2>1, WasPending
  <2> QED
    BY <1>1, <1>4, <2>1, <2>2 DEF PendingIsBonded
<1> QED
  BY <1>1, <1>2, <1>3, <1>4 DEF PendingIsBonded, CoversLowestBond

\* A proposal locks the participation bond of the day.
LEMMA ProposeKeepsBonded ==
  ASSUME BondInv, NEW a \in Proposers, NEW t \in Games, NEW s \in Sigs, NEW d \in Games,
         NEW deposit \in Deposits, Propose(a, t, s, d, deposit)
  PROVE  PendingIsBonded'
<1>1. IInv /\ PendingIsBonded /\ TypeOK /\ Next /\ a \in Accounts
  BY ProtocolAssumption DEF BondInv, IInv, Next
<1>2. /\ UNCHANGED <<eliminationRound, eliminations, participationBond>>
      /\ paidBonds[a] + deposit >= participationBond
      /\ paidBonds'[a] = paidBonds[a] + deposit
      /\ \A b \in Accounts \ {a} :
           paidBonds'[b] = paidBonds[b] /\ lastProposal'[b] = lastProposal[b]
  BY <1>1 DEF Propose, RecordProposal, TypeOK, TreasuryTypeOK
<1>3. /\ paidBonds[a] + deposit \in Int /\ participationBond \in BondAmounts \cup {InitialBond}
      /\ BondAmounts \cup {InitialBond} \subseteq Int
  BY <1>1, TreasuryAssumption DEF TypeOK, TreasuryTypeOK, PendingIsBonded
<1>4. CoversLowestBond(paidBonds[a] + deposit)
  BY <1>2, <1>3 DEF CoversLowestBond
<1>5. ASSUME NEW b \in Accounts, eliminationRound'[b] = 0,
             lastProposal'[b] \notin {NoGame, Root},
             ~ContenderResolved(parent[lastProposal[b]])'
      PROVE  CoversLowestBond(paidBonds'[b])
  <2>1. CASE b = a
    BY <1>2, <1>4, <2>1
  <2>2. CASE b # a
    BY <1>1, <1>2, <1>5, <2>2, WasPending DEF PendingIsBonded
  <2> QED
    BY <2>1, <2>2
<1> QED
  BY <1>1, <1>2, <1>5 DEF PendingIsBonded, CoversLowestBond

\* The treasury's own calls: a bond is given back when nothing is pending.
LEMMA CallKeepsBonded ==
  ASSUME BondInv, TreasuryCall
  PROVE  PendingIsBonded'
<1>1. IInv /\ PendingIsBonded /\ TypeOK /\ Next
  BY DEF BondInv, IInv, Next
<1>2. /\ UNCHANGED <<eliminationRound, eliminations, lastProposal, tournamentVars>>
      /\ participationBond' = participationBond \/ participationBond' \in BondAmounts
      /\ \A a \in Accounts :
           \/ paidBonds'[a] = paidBonds[a]
           \/ eliminationRound[a] = 0 /\ NoPendingProposal(a)
           \/ \E q \in Accounts : a \in eliminations[q] \ eliminationsPaid[q]
  BY <1>1, CallBooks
<1>3. ASSUME NEW a \in Accounts, eliminationRound'[a] = 0,
             lastProposal'[a] \notin {NoGame, Root},
             ~ContenderResolved(parent[lastProposal[a]])'
      PROVE  CoversLowestBond(paidBonds'[a])
  <2>1. ~ContenderResolved(parent[lastProposal[a]])
    BY <1>1, <1>2, <1>3, WasPending
  <2>2. paidBonds'[a] = paidBonds[a]
    <3>1. ~NoPendingProposal(a)
      BY <1>2, <1>3, <2>1 DEF NoPendingProposal
    <3>2. \A q \in Accounts : a \notin eliminations[q]
      BY <1>1, <1>2, <1>3 DEF PendingIsBonded
    <3> QED
      BY <1>2, <3>1, <3>2
  <2> QED
    BY <1>1, <1>2, <1>3, <2>1, <2>2 DEF PendingIsBonded
<1> QED
  BY <1>1, <1>2, <1>3 DEF PendingIsBonded, CoversLowestBond

\* Steps that leave the books alone.
LEMMA QuietKeepsBonded ==
  ASSUME BondInv, Next,
         \/ Tick \/ ResolveTreasury
         \/ \E t \in Games, q \in Provers : \E i \in Positions(t) : Prove(t, i, q)
  PROVE  PendingIsBonded'
<1>1. IInv /\ PendingIsBonded
  BY DEF BondInv
<1>2. UNCHANGED <<eliminationRound, eliminations, paidBonds, participationBond, lastProposal>>
  BY BooksUnchanged
<1>3. ASSUME NEW a \in Accounts, eliminationRound'[a] = 0,
             lastProposal'[a] \notin {NoGame, Root},
             ~ContenderResolved(parent[lastProposal[a]])'
      PROVE  CoversLowestBond(paidBonds'[a])
  <2>1. ~ContenderResolved(parent[lastProposal[a]])
    BY <1>1, <1>2, <1>3, WasPending
  <2> QED
    BY <1>1, <1>2, <1>3, <2>1 DEF PendingIsBonded
<1> QED
  BY <1>1, <1>2, <1>3 DEF PendingIsBonded, CoversLowestBond

LEMMA BondInvKept ==
  BondInv /\ [Next]_vars => BondInv'
<1> SUFFICES ASSUME BondInv, [Next]_vars PROVE PendingIsBonded'
  BY NextIInv DEF BondInv
<1>1. CASE UNCHANGED vars
  BY <1>1 DEF BondInv, PendingIsBonded, vars, treasuryVars, tournamentVars, gameVars,
       pruneVars, ContenderResolved, ChildCount, Child, CoversLowestBond
<1>2. ASSUME NEW a \in Proposers, NEW r \in Games, NEW s \in Sigs, NEW d \in Games,
             NEW v \in Deposits, Propose(a, r, s, d, v)
      PROVE  PendingIsBonded'
  BY <1>2, ProposeKeepsBonded
<1>3. ASSUME Next, NEW r \in Games, NEW k \in 0..MaxSteps, PruneChildren(r, k)
      PROVE  PendingIsBonded'
  <2>1. k \in Nat
    BY ProtocolAssumption
  <2>2. PICK o : PruneStep(r, k, o)
    BY <1>3 DEF PruneChildren, Prune, PruneStep
  <2> QED
    BY <1>3, <2>1, <2>2, PruneKeepsBonded
<1>4. ASSUME Next, NEW g \in Games, Resolve(g)
      PROVE  PendingIsBonded'
  <2>1. PICK k, o : k \in Nat /\ PruneStep(parent[g], k, o) /\ parent[g] \in Games
    BY <1>4, ResolvePrunes DEF BondInv
  <2> QED
    BY <1>4, <2>1, PruneKeepsBonded
<1>5. CASE TreasuryCall
  BY <1>5, CallKeepsBonded
<1> QED
  BY <1>1, <1>2, <1>3, <1>4, <1>5, QuietKeepsBonded DEF Next

\* No proposer is eliminated without a bond to slash: claimProposerBond() gives
\* nothing back while a proposal is pending, and only pending proposals fall.
THEOREM EliminationsAreBonded ==
  Spec => EliminationIsBonded
<1>1. Init => BondInv
  <2> SUFFICES ASSUME Init PROVE BondInv
    OBVIOUS
  <2>1. \A a \in Accounts : lastProposal[a] \in {NoGame, Root}
    BY DEF Init, TreasuryInit
  <2> QED
    BY <2>1, InitIInv DEF BondInv, PendingIsBonded, Init, TreasuryInit
<1>2. ASSUME BondInv, [Next]_vars PROVE [BondedStep]_vars
  <2> SUFFICES ASSUME Next, NEW a \in Accounts,
                      eliminationRound[a] = 0, eliminationRound'[a] # 0
               PROVE  CoversLowestBond(paidBonds[a])
    BY <1>2 DEF BondedStep
  <2>1. IInv /\ PendingIsBonded /\ TypeOK
    BY <1>2 DEF BondInv, IInv
  <2>2. \E t \in Games, k \in Nat : \E o : PruneStep(t, k, o)
    <3>1. ASSUME NEW b \in Proposers, NEW r \in Games, NEW s \in Sigs, NEW d \in Games,
                 NEW v \in Deposits, Propose(b, r, s, d, v)
          PROVE  FALSE
      BY <2>1, <3>1, ProposeEffect
    <3>2. ASSUME NEW r \in Games, NEW k \in 0..MaxSteps, PruneChildren(r, k)
          PROVE  \E n \in Nat : \E o : PruneStep(r, n, o)
      <4>1. k \in Nat
        BY ProtocolAssumption
      <4> QED
        BY <3>2, <4>1 DEF PruneChildren, Prune, PruneStep
    <3>3. ASSUME NEW g \in Games, Resolve(g)
          PROVE  \E t \in Games, k \in Nat : \E o : PruneStep(t, k, o)
      BY <2>1, <3>3, ResolvePrunes
    <3>4. ~TreasuryCall
      BY <2>1, CallBooks
    <3> QED
      BY <3>1, <3>2, <3>3, <3>4, BooksUnchanged DEF Next
  <2>3. /\ lastProposal[a] \notin {NoGame, Root}
        /\ ~ContenderResolved(parent[lastProposal[a]])
    BY <2>1, <2>2, EliminatedIsPending
  <2> QED
    BY <2>1, <2>3 DEF PendingIsBonded
<1> QED
  BY <1>1, <1>2, BondInvKept, PTL DEF Spec, EliminationIsBonded

-----------------------------------------------------------------------------
(***************************************************************************)
(* The treasury's balance.                                                 *)
(***************************************************************************)

\* What a deposit adds and a claim takes away is what the record of bonds changes by.
LEMMA BalanceKept ==
  ASSUME IInv, BondsBacked, [Next]_vars
  PROVE  BondsBacked'
<1>0. TypeOK /\ IsFiniteSet(Accounts) /\ paidBonds \in [Accounts -> Nat]
      /\ balance = SumOver(paidBonds, Accounts)
  BY TreasuryAssumption DEF IInv, TypeOK, TreasuryTypeOK, BondsBacked, SumBonds
<1> SUFFICES balance' = SumOver(paidBonds', Accounts)
  BY DEF BondsBacked, SumBonds
<1>1. CASE balance' = balance /\ paidBonds' = paidBonds
  BY <1>0, <1>1
<1>2. ASSUME NEW a \in Proposers, NEW r \in Games, NEW s \in Sigs, NEW d \in Games,
             NEW v \in Deposits, Propose(a, r, s, d, v)
      PROVE  balance' = SumOver(paidBonds', Accounts)
  <2>1. a \in Accounts /\ v \in Nat /\ paidBonds[a] \in Nat /\ paidBonds[a] + v \in Nat
    BY <1>0, ProtocolAssumption, TreasuryAssumption
  <2>2. /\ paidBonds' \in [Accounts -> Nat] /\ paidBonds'[a] = paidBonds[a] + v
        /\ \A c \in Accounts : c # a => paidBonds'[c] = paidBonds[c]
        /\ balance' = balance + v
    BY <1>0, <1>2, <2>1 DEF Propose, RecordProposal
  <2>3. SumOver(paidBonds', Accounts)
          = SumOver(paidBonds, Accounts) - paidBonds[a] + (paidBonds[a] + v)
    BY <1>0, <2>1, <2>2, SumAfterChange
  <2>4. SumOver(paidBonds, Accounts) \in Nat
    BY <1>0, SumIsNat
  <2> QED
    BY <1>0, <2>1, <2>2, <2>3, <2>4
<1>3. ASSUME NEW a \in Accounts, ClaimProposerBond(a, NoPendingProposal(a))
      PROVE  balance' = SumOver(paidBonds', Accounts)
  <2>1. /\ paidBonds' \in [Accounts -> Nat] /\ paidBonds'[a] = 0
        /\ \A c \in Accounts : c # a => paidBonds'[c] = paidBonds[c]
        /\ balance' = balance - paidBonds[a]
    BY <1>0, <1>3 DEF ClaimProposerBond
  <2>2. SumOver(paidBonds', Accounts) = SumOver(paidBonds, Accounts) - paidBonds[a] + 0
    BY <1>0, <2>1, SumAfterChange
  <2>3. SumOver(paidBonds, Accounts) \in Nat /\ paidBonds[a] \in Nat
    BY <1>0, SumIsNat
  <2> QED
    BY <1>0, <2>1, <2>2, <2>3
<1>4. ASSUME NEW q \in Accounts, ClaimEliminationBonds(q)
      PROVE  balance' = SumOver(paidBonds', Accounts)
  <2>1. PICK S \in SUBSET (eliminations[q] \ eliminationsPaid[q]) :
          /\ paidBonds' = [a \in Accounts |-> IF a \in S THEN 0 ELSE paidBonds[a]]
          /\ balance' = balance - SumOver(paidBonds, S)
    BY <1>4 DEF ClaimEliminationBonds, SumBonds
  <2>2. S \in SUBSET Accounts
    BY <1>0 DEF TypeOK, TreasuryTypeOK
  <2>3. /\ paidBonds' \in [Accounts -> Nat]
        /\ \A a \in Accounts : paidBonds'[a] = IF a \in S THEN 0 ELSE paidBonds[a]
    BY <1>0, <2>1
  <2>4. SumOver(paidBonds', Accounts) = SumOver(paidBonds, Accounts) - SumOver(paidBonds, S)
    BY <1>0, <2>2, <2>3, SumAfterClearing
  <2> QED
    BY <1>0, <2>1, <2>4
<1>5. CASE TreasuryCall
  <2>1. CASE \/ PayReturns
             \/ \E amount \in BondAmounts : SetParticipationBond(amount)
             \/ \E a \in Vanguards, d \in Advantages : AssignVanguard(a, d)
    BY <1>1, <2>1 DEF PayReturns, SetParticipationBond, AssignVanguard
  <2> QED
    BY <1>3, <1>4, <1>5, <2>1 DEF TreasuryCall
<1>6. CASE UNCHANGED vars
  BY <1>1, <1>6 DEF vars, treasuryVars
<1>7. ASSUME NEW r \in Games, NEW k \in 0..MaxSteps, PruneChildren(r, k)
      PROVE  balance' = SumOver(paidBonds', Accounts)
  BY <1>1, <1>7 DEF PruneChildren
<1>8. ASSUME NEW g \in Games, Resolve(g)
      PROVE  balance' = SumOver(paidBonds', Accounts)
  BY <1>1, <1>8 DEF Resolve
<1> QED
  BY <1>1, <1>2, <1>5, <1>6, <1>7, <1>8, BooksUnchanged DEF Next

\* The ETH in the treasury is exactly the sum of the bonds it records, for any number of
\* accounts: no claim, also one made from inside another's payment, takes more than is
\* recorded, and no deposit goes unrecorded.
THEOREM CollateralIsBacked ==
  Spec => []BondsBacked
<1>1. Init => BondsBacked
  <2> SUFFICES ASSUME Init PROVE BondsBacked
    OBVIOUS
  <2>1. IsFiniteSet(Accounts) /\ balance = 0 /\ paidBonds = [a \in Accounts |-> 0]
    BY TreasuryAssumption DEF Init, TreasuryInit
  <2>2. paidBonds \in [Accounts -> Nat]
    BY <2>1
  <2>3. SumOver(paidBonds, Accounts)
          = SumOver(paidBonds, Accounts) - SumOver(paidBonds, Accounts)
    BY <2>1, <2>2, SumAfterClearing
  <2>4. SumOver(paidBonds, Accounts) \in Nat
    BY <2>1, <2>2, SumIsNat
  <2> QED
    BY <2>1, <2>3, <2>4 DEF BondsBacked, SumBonds
<1> QED
  BY <1>1, BalanceKept, Invariance, PTL DEF Spec
=============================================================================
