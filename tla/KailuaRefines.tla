---------------------------- MODULE KailuaRefines ----------------------------
(***************************************************************************)
(* With timely fault proofs the contracts implement the ledger: every      *)
(* transaction is a step of the ledger or does not show in it.             *)
(***************************************************************************)
EXTENDS KailuaLedger, KailuaProofs

RefInv == IInv /\ Clocks /\ Timely

\* The ledger sees the games that were created.
LEMMA LedgerView ==
  ASSUME TypeOK
  PROVE  /\ L!Indices = Created /\ L!GameCount = gameCount /\ L!Root = Root
         /\ \A g \in Created :
              /\ LedgerGames[g].parent = parent[g] /\ LedgerGames[g].proposer = proposerOf[g]
              /\ LedgerGames[g].good = (g = Root \/ sig[g] = ValidSig)
              /\ LedgerGames[g].height = height[g] /\ LedgerGames[g].ours = TRUE
              /\ LedgerGames[g].at = createdAt[g] - GenesisTime
<1>1. DOMAIN LedgerGames = Created
  BY DEF LedgerGames
<1>2. Cardinality(Created) = gameCount
  <2>1. gameCount \in Nat /\ gameCount > 0
    BY CreatedAreGames DEF TypeOK, TournamentTypeOK
  <2>2. Cardinality(0..(gameCount - 1)) =
          IF 0 > gameCount - 1 THEN 0 ELSE (gameCount - 1) - 0 + 1
    <3>1. 0 \in Int /\ gameCount - 1 \in Int
      BY <2>1
    <3> QED
      BY ONLY <3>1, FS_Interval, Zenon
  <2> QED
    BY <2>1, <2>2 DEF Created
<1>3. L!Cardinality(Created) = Cardinality(Created)
  BY DEF L!Cardinality, Cardinality
<1> QED
  BY <1>1, <1>2, <1>3 DEF L!Indices, L!GameCount, L!Root, Root, LedgerGames

\* A tournament's children are the games listed in its array.
LEMMA LedgerChildren ==
  ASSUME TypeOK, Tree, Timely, NEW t \in Created
  PROVE  /\ L!Children(t) = {Child(t, i) : i \in Positions(t)}
         /\ \A c \in L!Children(t) : c \in Created \ {Root} /\ c \in Nat /\ parent[c] = t
<1>0. t \in Games
  BY CreatedAreGames
<1>1. L!Children(t) = {c \in Created \ {Root} : parent[c] = t}
  BY LedgerView DEF L!Children
<1>2. ASSUME NEW c \in Created \ {Root}, parent[c] = t
      PROVE  c \in {Child(t, i) : i \in Positions(t)}
  BY <1>2 DEF Timely
<1>3. ASSUME NEW i \in Positions(t) PROVE Child(t, i) \in Created \ {Root} /\ parent[Child(t, i)] = t
  BY <1>0, ChildFacts
<1> QED
  BY <1>1, <1>2, <1>3, CreatedAreGames

\* A tournament is decided for the ledger when its contender is final.
LEMMA LedgerDecided ==
  ASSUME IInv, Timely, NEW t \in Created
  PROVE  L!Decided(t) <=> ContenderResolved(t)
<1>0. TypeOK /\ Tree /\ t \in Games /\ contenderIndex[t] \in Nat
  BY CreatedAreGames DEF IInv, TypeOK, TournamentTypeOK
<1>1. L!Children(t) = {Child(t, i) : i \in Positions(t)}
  BY <1>0, LedgerChildren
<1>2. ASSUME ContenderResolved(t) PROVE L!Decided(t)
  <2>1. contenderIndex[t] \in Positions(t) /\ Child(t, contenderIndex[t]) \in resolved
    BY <1>0, <1>2, TournamentFacts DEF ContenderResolved, Positions
  <2> QED
    BY <1>1, <2>1 DEF L!Decided
<1>3. ASSUME L!Decided(t) PROVE ContenderResolved(t)
  <2>1. PICK i \in Positions(t) : Child(t, i) \in resolved
    BY <1>1, <1>3 DEF L!Decided
  <2>2. Child(t, i) # Root /\ parent[Child(t, i)] = t
    BY <1>0, ChildFacts
  <2> QED
    BY <2>1, <2>2, FinalIsContender
<1> QED
  BY <1>2, <1>3

\* The ledger counts the same games as eliminated.
LEMMA LedgerOut ==
  ASSUME TypeOK, Tree, Timely, NEW c \in Created \ {Root}
  PROVE  L!Out(c) <=> IsChildEliminated(c)
<1>1. proposerOf[c] \in Proposers /\ proposerOf[c] \in Accounts /\ proposerOf[c] # NoAccount
  BY TreasuryAssumption DEF Timely, Tree
<1>2. LedgerRound[LedgerGames[c].proposer] = eliminationRound[proposerOf[c]]
  BY <1>1, LedgerView DEF LedgerRound
<1> QED
  BY <1>1, <1>2 DEF L!Out, IsChildEliminated

\* Eliminating children of one tournament is the same in both: none share a proposer.
LEMMA LedgerEliminates ==
  ASSUME IInv, Timely, NEW t \in Games, NEW k \in Nat, NEW o, PruneStep(t, k, o)
  PROVE  /\ L!Eliminate({Child(t, i) : i \in o.elim})
         /\ UNCHANGED LedgerGames
         /\ o.elim = {} => UNCHANGED LedgerRound
<1>0. TypeOK /\ Tree /\ Progression
  BY DEF IInv
<1>1. PICK E : E = {Child(t, i) : i \in o.elim}
  OBVIOUS
<1>2. /\ E \subseteq Created /\ (\A c \in E : height[c] = height[t] + 1)
  BY <1>0, <1>1, PruneEliminates, ChildFacts
<1>3. \A c, d \in E : proposerOf[c] = proposerOf[d] => c = d
  BY <1>0, <1>2, OneGamePerHeight
<1>4. ASSUME NEW p \in Proposers
      PROVE  LedgerRound'[p] = IF \E c \in E : LedgerGames[c].proposer = p
                               THEN CHOOSE c \in E : LedgerGames[c].proposer = p
                               ELSE LedgerRound[p]
  <2>0. p \in Accounts /\ LedgerRound'[p] = eliminationRound'[p]
        /\ LedgerRound[p] = eliminationRound[p]
    BY ProtocolAssumption DEF LedgerRound
  <2>1. \A c \in E : LedgerGames[c].proposer = proposerOf[c]
    BY <1>0, <1>2, LedgerView
  <2>2. CASE \E c \in E : proposerOf[c] = p
    <3>1. PICK c \in E : proposerOf[c] = p
      BY <2>2
    <3>2. eliminationRound'[p] = c
      <4>1. PICK i \in o.elim : c = Child(t, i)
        BY <1>1
      <4>2. PICK j \in o.elim : eliminationRound'[p] = Child(t, j) /\ proposerOf[Child(t, j)] = p
        BY <2>0, <3>1, <4>1, PruneRounds
      <4> QED
        BY <1>1, <1>3, <3>1, <4>2
    <3>3. (CHOOSE d \in E : LedgerGames[d].proposer = p) = c
      BY <1>3, <2>1, <3>1
    <3> QED
      BY <2>0, <2>1, <3>1, <3>2, <3>3
  <2>3. CASE ~\E c \in E : proposerOf[c] = p
    <3>1. eliminationRound'[p] = eliminationRound[p]
      BY <1>1, <2>0, <2>3, PruneRounds
    <3> QED
      BY <2>0, <2>1, <2>3, <3>1
  <2> QED
    BY <2>2, <2>3
<1>5. LedgerRound' = [p \in Proposers |-> LedgerRound'[p]]
  BY DEF LedgerRound
<1>6. L!Eliminate(E)
  BY <1>4, <1>5 DEF L!Eliminate
<1>7. UNCHANGED LedgerGames
  BY DEF PruneStep, LedgerGames, Created, gameVars
<1>8. ASSUME o.elim = {} PROVE UNCHANGED LedgerRound
  <2>1. E = {}
    BY <1>1, <1>8
  <2>2. \A p \in Proposers : LedgerRound'[p] = LedgerRound[p]
    BY <1>4, <2>1
  <2>3. LedgerRound = [p \in Proposers |-> LedgerRound[p]]
    BY DEF LedgerRound
  <2> QED
    BY <1>5, <2>2, <2>3
<1> QED
  BY <1>1, <1>6, <1>7, <1>8

-----------------------------------------------------------------------------
(***************************************************************************)
(* RefInv is inductive when faults are proven in time.                     *)
(***************************************************************************)

LEMMA InitRefines ==
  Init => RefInv /\ L!LedgerInit
<1> SUFFICES ASSUME Init PROVE RefInv /\ L!LedgerInit
  OBVIOUS
<1>1. IInv /\ TypeOK
  BY InitIInv DEF IInv
<1>2. Created = {Root} /\ Root \in Games
  BY <1>1, CreatedAreGames DEF Created, Root, Init, TournamentInit
<1>3. /\ now = GenesisTime /\ now \in Nat /\ createdAt[Root] = GenesisTime /\ height[Root] = 0
      /\ parent[Root] = Root /\ proposerOf[Root] = Owner /\ resolved = {}
      /\ \A a \in Accounts : eliminationRound[a] = 0
  BY <1>2 DEF Init, TreasuryInit, TournamentInit, GenesisTime
<1>4. Clocks /\ Timely
  BY <1>2, <1>3 DEF Clocks, Timely, Root
<1>5. LedgerGames = [i \in {L!Root} |-> L!GameOf(L!Root, Owner, TRUE, TRUE, 0)]
  BY <1>2, <1>3 DEF LedgerGames, L!GameOf, L!Root, Root
<1>6. LedgerRound = [p \in Proposers |-> 0]
  BY <1>3, ProtocolAssumption DEF LedgerRound
<1>7. now - GenesisTime = 0
  BY <1>3
<1> QED
  BY <1>1, <1>3, <1>4, <1>5, <1>6, <1>7 DEF RefInv, L!LedgerInit

\* A signature known to be wrong stays so.
LEMMA FaultStays ==
  ASSUME IInv, Next, NEW t \in Games, NEW s \in Sigs, s # ValidSig,
         ~IsViableSignature(t, s)
  PROVE  ~IsViableSignature(t, s)'
<1>1. ASSUME UNCHANGED proofVars PROVE ~IsViableSignature(t, s)'
  BY <1>1 DEF IsViableSignature, proofVars
<1>2. ASSUME NEW r \in Games, NEW q \in Provers, NEW i \in Positions(r), Prove(r, i, q)
      PROVE  ~IsViableSignature(t, s)'
  <2>1. /\ validChildSignature \in [Games -> Sigs \cup {NoSig}]
        /\ proofStatus \in [Games -> [Sigs -> {"NONE", "FAULT", "VALIDITY"}]]
        /\ NoSig # ValidSig
    BY TournamentAssumption DEF IInv, TypeOK, TournamentTypeOK
  <2>2. CASE ProveValidity(r, i, q)
    <3>1. /\ validChildSignature' = [validChildSignature EXCEPT ![r] = ValidSig]
          /\ proofStatus' = [proofStatus EXCEPT ![r][ValidSig] = "VALIDITY"]
      BY <2>2 DEF ProveValidity, UpdateProofStatus
    <3>2. proofStatus'[t][s] = proofStatus[t][s]
      BY <2>1, <3>1
    <3>3. validChildSignature'[t] \in {validChildSignature[t], ValidSig}
      BY <2>1, <3>1
    <3> QED
      BY <2>1, <3>2, <3>3 DEF IsViableSignature
  <2>3. CASE ProveOutputFault(r, i, q) \/ ProveTrailFault(r, i, q)
    <3>1. validChildSignature' = validChildSignature
      BY <2>3 DEF ProveOutputFault, ProveTrailFault
    <3>2. PICK w : proofStatus' = [proofStatus EXCEPT ![r][w] = "FAULT"]
      BY <2>3 DEF ProveOutputFault, ProveTrailFault, UpdateProofStatus
    <3>3. proofStatus[t][s] = "FAULT" => proofStatus'[t][s] = "FAULT"
      BY <2>1, <3>2
    <3> QED
      BY <3>1, <3>3 DEF IsViableSignature
  <2> QED
    BY <1>2, <2>2, <2>3 DEF Prove
<1>3. ASSUME NEW a \in Proposers, NEW r \in Games, NEW z \in Sigs, NEW d \in Games,
             NEW v \in Deposits, Propose(a, r, z, d, v)
      PROVE  UNCHANGED proofVars
  BY <1>3, ProposeEffect
<1>4. ASSUME NEW r \in Games, NEW k \in 0..MaxSteps, PruneChildren(r, k)
      PROVE  UNCHANGED proofVars
  BY <1>4 DEF PruneChildren
<1>5. ASSUME NEW g \in Games, Resolve(g) PROVE UNCHANGED proofVars
  BY <1>5 DEF Resolve
<1>6. ASSUME ResolveTreasury \/ TreasuryCall \/ Tick PROVE UNCHANGED proofVars
  BY <1>6 DEF ResolveTreasury, TreasuryCall, Tick, tournamentVars
<1> QED
  BY <1>1, <1>2, <1>3, <1>4, <1>5, <1>6 DEF Next

\* A game that is timely, as Timely says of all.
TimelyGame(g) ==
  /\ \E i \in Positions(parent[g]) : Child(parent[g], i) = g
  /\ proposerOf[g] \in Proposers
  /\ sig[g] # ValidSig /\ now - createdAt[g] >= MaxClock
       => ~IsViableSignature(parent[g], sig[g])

\* A game stays timely unless a block ends its clock, and then its fault is proven.
LEMMA GameStaysTimely ==
  ASSUME IInv, Next, now' # now => FaultsProvenInTime,
         NEW g \in Created \ {Root}, TimelyGame(g)
  PROVE  TimelyGame(g)'
<1>1. PICK t \in Games : t = parent[g]
  BY CreatedAreGames DEF IInv, TypeOK, TournamentTypeOK
<1>2. /\ parent'[g] = t /\ sig'[g] = sig[g] /\ createdAt'[g] = createdAt[g]
      /\ proposerOf'[g] = proposerOf[g] /\ sig[g] \in Sigs
  BY <1>1, GamesKept DEF IInv, Tree
<1>3. PICK i \in Positions(t) : Child(t, i) = g
  BY <1>1 DEF TimelyGame
<1>4. i \in Positions(t)' /\ Child(t, i)' = g
  <2>1. ASSUME NEW a \in Proposers, NEW r \in Games, NEW z \in Sigs, NEW d \in Games,
               NEW v \in Deposits, Propose(a, r, z, d, v)
        PROVE  i \in Positions(t)' /\ Child(t, i)' = g
    BY <1>3, <2>1, ProposeChildren
  <2>2. ASSUME children' = children PROVE i \in Positions(t)' /\ Child(t, i)' = g
    BY <1>3, <2>2 DEF Positions, ChildCount, Child
  <2>3. ASSUME NEW r \in Games, NEW q \in Provers, NEW j \in Positions(r), Prove(r, j, q)
        PROVE  children' = children
    BY <2>3 DEF Prove, ProveValidity, ProveOutputFault, ProveTrailFault
  <2>4. ASSUME NEW r \in Games, NEW k \in 0..MaxSteps, PruneChildren(r, k)
        PROVE  children' = children
    BY <2>4 DEF PruneChildren
  <2>5. ASSUME NEW h \in Games, Resolve(h) PROVE children' = children
    BY <2>5 DEF Resolve
  <2>6. ASSUME ResolveTreasury \/ TreasuryCall \/ Tick PROVE children' = children
    BY <2>6 DEF ResolveTreasury, TreasuryCall, Tick, tournamentVars
  <2> QED
    BY <2>1, <2>2, <2>3, <2>4, <2>5, <2>6 DEF Next
<1>5. ASSUME sig[g] # ValidSig, now' - createdAt[g] >= MaxClock
      PROVE  ~IsViableSignature(t, sig[g])'
  <2>1. ~IsViableSignature(t, sig[g])
    <3>1. CASE now' = now
      BY <1>1, <1>5, <3>1 DEF TimelyGame
    <3>2. CASE now' # now
      <4>1. now' = now + 1
        BY <3>2 DEF Next, Propose, Prove, PruneChildren, Resolve, ResolveTreasury,
                    TreasuryCall, Tick
      <4>2. now + 1 - createdAt[g] >= MaxClock
        <5>1. now \in Nat /\ createdAt[g] \in Nat
          BY CreatedAreGames DEF IInv, TypeOK, TournamentTypeOK
        <5> QED
          BY <1>5, <4>1, <5>1, ClockAssumption
      <4>3. FaultsProvenInTime
        BY <3>2
      <4> QED
        BY <1>1, <1>5, <4>2, <4>3 DEF FaultsProvenInTime
    <3> QED
      BY <3>1, <3>2
  <2>2. PICK s \in Sigs : s = sig[g]
    BY <1>2
  <2>3. ~IsViableSignature(t, s)'
    BY <1>5, <2>1, <2>2, FaultStays
  <2> QED
    BY <1>2, <2>2, <2>3
<1> QED
  BY <1>2, <1>3, <1>4, <1>5 DEF TimelyGame

LEMMA TimelyKept ==
  ASSUME RefInv, TimelyNext
  PROVE  Timely'
<1>1. /\ IInv /\ Next /\ TypeOK /\ (now' # now => FaultsProvenInTime)
      /\ Root \in Created /\ createdAt \in [Games -> Nat] /\ now \in Nat
  BY CreatedAreGames DEF RefInv, IInv, TimelyNext, TypeOK, TournamentTypeOK
<1>2. ASSUME NEW g \in Created \ {Root} PROVE TimelyGame(g)'
  <2>1. TimelyGame(g)
    BY DEF RefInv, Timely, TimelyGame
  <2> QED
    BY <1>1, <2>1, GameStaysTimely
<1>3. createdAt'[Root] = GenesisTime
  BY <1>1, GamesKept DEF RefInv, Timely
<1>4. ASSUME NEW a \in Proposers, NEW t \in Games, NEW s \in Sigs, NEW d \in Games,
             NEW v \in Deposits, Propose(a, t, s, d, v)
      PROVE  \E c : Created' = Created \cup {c} /\ TimelyGame(c)'
  <2>0. PICK c : c = gameCount
    OBVIOUS
  <2>1. /\ c \in Games /\ Created' = Created \cup {c}
        /\ parent'[c] = t /\ proposerOf'[c] = a
        /\ children'[t] = Append(children[t], c)
    BY <1>1, <1>4, <2>0, ProposeEffect
  <2>2. createdAt'[c] = now /\ now' = now
    BY <1>1, <1>4, <2>0, <2>1 DEF Propose, Initialize
  <2>3. PICK n \in Nat : n = ChildCount(t)
    BY <1>1, TournamentFacts DEF IInv
  <2>4. n \in Positions(t)' /\ Child(t, n)' = c
    <3>1. children[t] \in Seq(Games) /\ n = Len(children[t])
      BY <1>1, <2>3 DEF TypeOK, TournamentTypeOK, ChildCount
    <3> QED
      BY <2>1, <2>3, <3>1 DEF Positions, Child, ChildCount
  <2>5. ~(now' - createdAt'[c] >= MaxClock)
    BY <1>1, <2>2, TimelyAssumption, ClockAssumption
  <2> QED
    BY <2>1, <2>4, <2>5 DEF TimelyGame
<1>5. Created' = Created \/ \E c : Created' = Created \cup {c} /\ TimelyGame(c)'
  <2>1. ASSUME NEW r \in Games, NEW q \in Provers, NEW i \in Positions(r), Prove(r, i, q)
        PROVE  UNCHANGED gameVars
    BY <2>1 DEF Prove, ProveValidity, ProveOutputFault, ProveTrailFault
  <2>2. ASSUME NEW r \in Games, NEW k \in 0..MaxSteps, PruneChildren(r, k)
        PROVE  UNCHANGED gameVars
    BY <2>2 DEF PruneChildren
  <2>3. ASSUME NEW h \in Games, Resolve(h) PROVE UNCHANGED gameVars
    BY <2>3 DEF Resolve
  <2>4. ASSUME ResolveTreasury \/ TreasuryCall \/ Tick PROVE UNCHANGED gameVars
    BY <2>4 DEF ResolveTreasury, TreasuryCall, Tick, tournamentVars
  <2>5. ASSUME UNCHANGED gameVars PROVE Created' = Created
    BY <2>5 DEF gameVars, Created
  <2> QED
    BY <1>1, <1>4, <2>1, <2>2, <2>3, <2>4, <2>5 DEF Next
<1>6. \A g \in Created' \ {Root} : TimelyGame(g)'
  BY <1>2, <1>5
<1> QED
  BY <1>3, <1>6 DEF Timely, TimelyGame

LEMMA RefInvKept ==
  RefInv /\ [TimelyNext]_vars => RefInv'
<1> SUFFICES ASSUME RefInv, [TimelyNext]_vars PROVE RefInv'
  OBVIOUS
<1>1. [Next]_vars /\ IInv /\ Clocks
  BY DEF TimelyNext, RefInv
<1>2. IInv' /\ Clocks'
  BY <1>1, NextIInv, ClocksKept
<1>3. Timely'
  <2>1. CASE TimelyNext
    BY <2>1, TimelyKept
  <2>2. CASE UNCHANGED vars
    BY <2>2 DEF RefInv, Timely, vars, treasuryVars, tournamentVars, gameVars, proofVars,
                Created, Positions, ChildCount, Child, IsViableSignature
  <2> QED
    BY <2>1, <2>2
<1> QED
  BY <1>2, <1>3 DEF RefInv

-----------------------------------------------------------------------------
(***************************************************************************)
(* Every transaction is a step of the ledger or does not show in it.       *)
(***************************************************************************)

LedgerStep == L!LedgerNext \/ UNCHANGED L!ledgerVars

\* Transactions that the ledger does not see.
LEMMA UnseenStep ==
  ASSUME UNCHANGED <<gameVars, sig, proposerOf, eliminationRound, resolved, now>>
  PROVE  LedgerStep
BY DEF LedgerStep, L!ledgerVars, LedgerGames, LedgerRound, gameVars, Created

LEMMA TickRefines ==
  ASSUME RefInv, Tick
  PROVE  LedgerStep
<1>1. now \in Nat /\ now < MaxTime /\ now' = now + 1 /\ MaxTime \in Nat /\ GenesisTime \in Nat
  BY ProtocolAssumption DEF RefInv, IInv, TypeOK, Tick, GenesisTime
<1>2. /\ UNCHANGED <<LedgerGames, LedgerRound, resolved>>
  BY DEF Tick, LedgerGames, LedgerRound, treasuryVars, tournamentVars, gameVars, Created
<1>3. now - GenesisTime < MaxTime /\ now' - GenesisTime = (now - GenesisTime) + 1
  BY <1>1
<1> QED
  BY <1>2, <1>3 DEF LedgerStep, L!LedgerNext, L!LedgerTick

LEMMA ResolveTreasuryRefines ==
  ASSUME RefInv, ResolveTreasury
  PROVE  LedgerStep
<1>1. resolved = {}
  BY DEF RefInv, IInv, ResolvedFormOneChain, ResolveTreasury
<1>2. L!Root \notin resolved /\ resolved' = {L!Root}
  BY <1>1 DEF ResolveTreasury, L!Root, Root
<1>3. UNCHANGED <<LedgerGames, LedgerRound, now>>
  BY DEF ResolveTreasury, LedgerGames, LedgerRound, gameVars, Created
<1> QED
  BY <1>2, <1>3 DEF LedgerStep, L!LedgerNext, L!ResolveRoot

\* A proposal is a submission: good when its signature is the correct one.
LEMMA ProposeRefines ==
  ASSUME RefInv, NEW a \in Proposers, NEW t \in Games, NEW s \in Sigs, NEW d \in Games,
         NEW v \in Deposits, Propose(a, t, s, d, v)
  PROVE  LedgerStep
<1>1. IInv /\ TypeOK /\ Timely /\ gameCount \in Nat /\ Games \subseteq Nat
      /\ Created \subseteq Games /\ Root \in Created
  BY CreatedAreGames DEF RefInv, IInv
<1>2. PICK n \in Nat : n = gameCount
  BY <1>1
<1>3. /\ n \in Games /\ t \in Created /\ a \in Accounts /\ n \notin Created
      /\ Created' = Created \cup {n} /\ parent'[n] = t /\ sig'[n] = s
      /\ height'[n] = height[t] + 1 /\ proposerOf'[n] = a
      /\ \A h \in Created : /\ parent'[h] = parent[h] /\ sig'[h] = sig[h]
                            /\ height'[h] = height[h] /\ proposerOf'[h] = proposerOf[h]
      /\ UNCHANGED <<resolved, eliminationRound>>
  BY <1>1, <1>2, ProposeEffect
<1>4. /\ createdAt'[n] = now /\ now' = now
      /\ \A h \in Created : createdAt'[h] = createdAt[h]
  BY <1>1, <1>2, <1>3 DEF Propose, Initialize, TypeOK, TournamentTypeOK
<1>5. PICK ok \in BOOLEAN : ok = (s = ValidSig)
  OBVIOUS
<1>6. L!CanSubmit(a, t)
  <2>1. LedgerGames[t].ours /\ ~L!Decided(t)
    <3>1. ~ContenderResolved(t)
      BY DEF Propose, Initialize
    <3> QED
      BY <1>1, <1>3, <3>1, LedgerView, LedgerDecided
  <2>2. LedgerRound[a] = 0
    BY <1>3 DEF LedgerRound, Propose, RecordProposal
  <2>3. ASSUME NEW i \in Created, proposerOf[i] = a PROVE height[i] <= height[t]
    <3>1. PICK l : l = lastProposal[a]
      OBVIOUS
    <3>2. l # NoGame /\ i <= l /\ l \in Created /\ proposerOf[l] = a
      BY <1>1, <1>3, <2>3, <3>1 DEF IInv, Progression
    <3>3. height[l] < height[t] + 1
      BY <3>1, <3>2 DEF Propose, Incremental
    <3>4. i = l \/ height[i] < height[l]
      <4>1. i \in Nat /\ l \in Nat
        BY <1>1, <3>2
      <4> QED
        BY <1>1, <2>3, <3>2, <4>1 DEF IInv, Progression
    <3>5. height[i] \in Nat /\ height[l] \in Nat /\ height[t] \in Nat
      BY <1>1, <3>2 DEF TypeOK, TournamentTypeOK
    <3> QED
      BY <3>3, <3>4, <3>5
  <2>4. \A i \in L!Indices :
          LedgerGames[i].proposer = a => LedgerGames[i].height <= LedgerGames[t].height
    <3>1. /\ L!Indices = Created
          /\ \A i \in Created : /\ LedgerGames[i].proposer = proposerOf[i]
                                /\ LedgerGames[i].height = height[i]
      BY <1>1, LedgerView
    <3> QED
      BY <1>3, <2>3, <3>1
  <2> QED
    BY <2>1, <2>2, <2>4 DEF L!CanSubmit
<1>7. L!AddGame(L!GameOf(t, a, ok, ok, LedgerGames[t].height + 1))
  <2>1. L!GameCount = n /\ n < MaxGames /\ LedgerGames[t].height = height[t]
    BY <1>1, <1>2, <1>3, LedgerView DEF Propose
  <2>2. Created' = 0..n /\ \A i \in 0..n : i # n => i \in Created
    <3>1. PICK C : C = Created
      OBVIOUS
    <3>2. C = 0..(n - 1)
      BY <1>2, <3>1 DEF Created
    <3>3. Created' = C \cup {n}
      BY <1>3, <3>1
    <3>4. C \cup {n} = 0..n /\ \A i \in 0..n : i # n => i \in C
      BY <3>2
    <3> QED
      BY <3>1, <3>3, <3>4
  <2>3. PICK g : g = L!GameOf(t, a, ok, ok, height[t] + 1)
    OBVIOUS
  <2>4. LedgerGames'[n] = g
    <3>1. n # Root
      BY <1>1, <1>3
    <3> QED
      BY <1>3, <1>4, <1>5, <2>3, <3>1 DEF LedgerGames, L!GameOf
  <2>5. \A i \in Created : LedgerGames'[i] = LedgerGames[i]
    BY <1>3, <1>4 DEF LedgerGames
  <2>6. LedgerGames' = [i \in Created' |-> LedgerGames'[i]]
    BY DEF LedgerGames
  <2>7. LedgerGames' = [i \in 0..n |-> IF i = n THEN g ELSE LedgerGames[i]]
    BY <2>2, <2>4, <2>5, <2>6
  <2> QED
    BY <2>1, <2>3, <2>7 DEF L!AddGame
<1>8. UNCHANGED <<resolved, LedgerRound, now>>
  BY <1>3, <1>4 DEF LedgerRound
<1>9. L!Submit(a, t, ok)
  BY <1>6, <1>7, <1>8 DEF L!Submit
<1>10. t \in L!Indices
  BY <1>1, <1>3, LedgerView
<1> QED
  BY <1>9, <1>10 DEF LedgerStep, L!LedgerNext

\* What the ledger's operators say of the children of a tournament.
LEMMA ChildView ==
  ASSUME RefInv, NEW t \in Created, NEW i \in Positions(t), NEW c, c = Child(t, i)
  PROVE  /\ c \in L!Children(t) /\ c \in Nat /\ c \in Created \ {Root}
         /\ LedgerGames[c].parent = t
         /\ LedgerGames[c].good <=> sig[c] = ValidSig
         /\ L!Out(c) <=> IsChildEliminated(c)
         /\ c \in L!Faulty(t) <=> sig[c] # ValidSig /\ ~IsChildEliminated(c)
         /\ createdAt[c] \in Nat /\ LedgerGames[c].at = createdAt[c] - GenesisTime
<1>1. TypeOK /\ Tree /\ Timely /\ t \in Games
  BY CreatedAreGames DEF RefInv, IInv
<1>2. c \in Created \ {Root} /\ c \in Games /\ c \in Nat /\ parent[c] = t
  BY <1>1, ChildFacts, CreatedAreGames
<1>3. c \in L!Children(t)
  BY <1>1, LedgerChildren
<1>4. /\ LedgerGames[c].parent = t
      /\ LedgerGames[c].good = (c = Root \/ sig[c] = ValidSig)
      /\ LedgerGames[c].at = createdAt[c] - GenesisTime
  BY <1>1, <1>2, LedgerView
<1>5. L!Out(c) <=> IsChildEliminated(c)
  BY <1>1, <1>2, LedgerOut
<1>6. createdAt[c] \in Nat
  BY <1>1, <1>2 DEF TypeOK, TournamentTypeOK
<1> QED
  BY <1>2, <1>3, <1>4, <1>5, <1>6 DEF L!Faulty

\* How late one child was proposed after another, for the ledger and for the tournament.
LEMMA BeatenView ==
  ASSUME RefInv, NEW t \in Created, NEW i \in Positions(t), NEW j \in Positions(t),
         NEW c, NEW w, c = Child(t, i), w = Child(t, j)
  PROVE  c \in L!Beaten(w) <=>
           /\ sig[c] # ValidSig /\ ~IsChildEliminated(c)
           /\ i < j \/ ~Late(Tournament(t), j, i)
<1>1. /\ LedgerGames[w].parent = t
      /\ c \in L!Faulty(t) <=> sig[c] # ValidSig /\ ~IsChildEliminated(c)
      /\ createdAt[c] \in Nat /\ LedgerGames[c].at = createdAt[c] - GenesisTime
      /\ createdAt[w] \in Nat /\ LedgerGames[w].at = createdAt[w] - GenesisTime
      /\ c \in Nat /\ w \in Nat
  BY ChildView
<1>2. c < w <=> i < j
  <2>1. TypeOK /\ Tree /\ t \in Games /\ ChildCount(t) \in Nat
    BY CreatedAreGames, TournamentFacts DEF RefInv, IInv
  <2>2. i \in Int /\ j \in Int
    BY <2>1 DEF Positions
  <2>3. i < j => c < w
    BY <2>1 DEF Tree
  <2>4. j < i => w < c
    BY <2>1 DEF Tree
  <2> QED
    BY <1>1, <2>2, <2>3, <2>4
<1>3. Late(Tournament(t), j, i) <=> createdAt[c] - createdAt[w] >= MaxClock
  <2>1. /\ Tournament(t).created[i] = createdAt[c]
        /\ Tournament(t).created[j] = createdAt[w]
    BY DEF Tournament
  <2> QED
    BY <2>1 DEF Late
<1>4. LedgerGames[c].at - LedgerGames[w].at < MaxClock <=>
        ~(createdAt[c] - createdAt[w] >= MaxClock)
  BY <1>1, ClockAssumption DEF GenesisTime
<1> QED
  BY <1>1, <1>2, <1>3, <1>4 DEF L!Beaten

\* pruneChildren eliminates faulty children only, and spares those proposed after the
\* challenge period of the survivor.
LEMMA PruneBeats ==
  ASSUME RefInv, NEW t \in Games, NEW k \in Nat, NEW o, PruneStep(t, k, o)
  PROVE  /\ t \in Created
         /\ {Child(t, i) : i \in o.elim} \subseteq L!Faulty(t)
         /\ \A w \in L!Children(t) :
              L!Survivor(w) => {Child(t, i) : i \in o.elim} \subseteq L!Beaten(w)
<1>1. IInv /\ TypeOK /\ Tree /\ Timely /\ SoundProofs
  BY DEF RefInv, IInv
<1>2. t \in Created
  BY <1>1 DEF PruneStep, Tree
<1>3. \A i \in o.elim : /\ i \in Positions(t) /\ ~IsChildEliminated(Child(t, i))
                        /\ sig[Child(t, i)] # ValidSig
  BY <1>1, PruneEliminates
<1>4. ASSUME NEW i \in o.elim PROVE Child(t, i) \in L!Faulty(t)
  BY <1>2, <1>3, ChildView
<1>5. ASSUME NEW w \in L!Children(t), L!Survivor(w), NEW i \in o.elim
      PROVE  Child(t, i) \in L!Beaten(w)
  <2>1. PICK j \in Positions(t) : w = Child(t, j)
    BY <1>1, <1>2, LedgerChildren
  <2>2. sig[w] = ValidSig /\ ~IsChildEliminated(w) /\ LedgerGames[w].parent = t
    BY <1>2, <1>5, <2>1, ChildView DEF L!Survivor
  <2>3. /\ IsTournament(Tournament(t)) /\ Tournament(t).n = ChildCount(t)
        /\ ChildCount(t) \in Nat /\ 0..(Tournament(t).n - 1) = Positions(t)
        /\ \A h \in Positions(t) :
             /\ Tournament(t).sig[h] = sig[Child(t, h)]
             /\ Tournament(t).out[h] = IsChildEliminated(Child(t, h))
             /\ Tournament(t).viable[h] = IsViableSignature(t, sig[Child(t, h)])
    BY <1>1, TournamentFacts
  <2>4. Survives(Tournament(t), j)
    <3>1. IsViableSignature(t, ValidSig)
      BY <1>1 DEF SoundProofs, IsViableSignature
    <3> QED
      BY <2>1, <2>2, <2>3, <3>1 DEF Survives
  <2>5. ASSUME NEW h \in 0..(j - 1), Tournament(t).sig[h] = Tournament(t).sig[j]
        PROVE  Tournament(t).out[h]
    <3>1. h \in Positions(t) /\ h < j
      BY <2>3 DEF Positions
    <3>2. sig[Child(t, h)] = ValidSig
      BY <2>1, <2>2, <2>3, <2>5, <3>1
    <3>3. Child(t, h) < w
      BY <1>1, <2>1, <3>1 DEF Tree
    <3>4. /\ Child(t, h) \in L!Children(t) /\ LedgerGames[Child(t, h)].good
          /\ L!Out(Child(t, h)) <=> IsChildEliminated(Child(t, h))
      BY <1>2, <3>1, <3>2, ChildView
    <3>5. L!Out(Child(t, h))
      BY <1>5, <2>2, <3>3, <3>4 DEF L!Survivor
    <3> QED
      BY <2>3, <3>1, <3>4, <3>5
  <2>6. Resumable(Tournament(t)) /\ o \in Outcomes(Tournament(t), k)
    BY <1>1, <1>2 DEF IInv, PruneProgress, PruneStep
  <2>7. j \in 0..(Tournament(t).n - 1)
    BY <2>3
  <2>8. i < j \/ ~Late(Tournament(t), j, i)
    BY <2>3, <2>4, <2>5, <2>6, <2>7, PruneSparesLate
  <2> QED
    BY <1>2, <1>3, <2>1, <2>8, BeatenView
<1> QED
  BY <1>2, <1>4, <1>5

\* A direct call of pruneChildren.
LEMMA PruneChildrenRefines ==
  ASSUME RefInv, NEW t \in Games, NEW k \in Nat, PruneChildren(t, k)
  PROVE  LedgerStep
<1>1. PICK o \in Outcomes(Tournament(t), k) : PruneStep(t, k, o)
  BY DEF PruneChildren, Prune, PruneStep
<1>2. IInv /\ Timely /\ UNCHANGED <<resolved, now>> /\ t \in resolved
  BY <1>1 DEF RefInv, PruneChildren, PruneStep
<1>3. PICK E : E = {Child(t, i) : i \in o.elim}
  OBVIOUS
<1>4. /\ L!Eliminate(E) /\ UNCHANGED LedgerGames
      /\ o.elim = {} => UNCHANGED LedgerRound
  BY <1>1, <1>2, <1>3, LedgerEliminates
<1>5. CASE o.elim = {}
  BY <1>2, <1>4, <1>5 DEF LedgerStep, L!ledgerVars
<1>6. CASE o.elim # {}
  <2>1. /\ t \in Created /\ E \subseteq L!Faulty(t)
        /\ \A w \in L!Children(t) : L!Survivor(w) => E \subseteq L!Beaten(w)
    BY <1>1, <1>3, PruneBeats
  <2>2. ~L!Decided(t)
    <3>1. Tournament(t).settled = ContenderResolved(t)
      BY <1>2, TournamentFacts DEF IInv
    <3>2. ~Tournament(t).settled
      BY <1>1, <1>6 DEF Outcomes
    <3> QED
      BY <1>2, <2>1, <3>1, <3>2, LedgerDecided
  <2>3. L!PruneSome(t)
    <3>1. E # {}
      BY <1>3, <1>6
    <3> QED
      BY <1>2, <1>4, <2>1, <2>2, <3>1 DEF L!PruneSome
  <2>4. t \in L!Indices
    BY <1>2, <2>1, LedgerView DEF IInv
  <2> QED
    BY <2>3, <2>4 DEF LedgerStep, L!LedgerNext
<1> QED
  BY <1>5, <1>6

\* resolve of g: its pruning names g as the survivor of an undecided tournament, has
\* eliminated everything before it, and leaves only duplicates and latecomers.
LEMMA ResolveFacts ==
  ASSUME RefInv, NEW g \in Games, Resolve(g), NEW t, t = parent[g]
  PROVE  \E k \in Nat, r \in Positions(t) : \E o :
           /\ t \in Games /\ PruneStep(t, k, o) /\ g = Child(t, r)
           /\ ~ContenderResolved(t)
           /\ Survives(Tournament(t), r)
           /\ \A i \in 0..(r - 1) : Tournament(t).out[i] \/ i \in o.elim
           /\ \A i \in Positions(t) :
                \/ Tournament(t).out[i] \/ i \in o.elim
                \/ Tournament(t).sig[i] = Tournament(t).sig[r]
                \/ i > r /\ Late(Tournament(t), r, i)
<1>1. t \in Games /\ IInv /\ TypeOK /\ Tree /\ g \notin resolved
  BY DEF RefInv, IInv, TypeOK, TournamentTypeOK, Resolve
<1>2. PICK T : T = Tournament(t)
  OBVIOUS
<1>3. PICK k, o :
        /\ k \in Nat
        /\ k >= 2 * ChildCount(t) /\ PruneStep(t, k, o)
        /\ o.ret # NoChild /\ g = Child(t, o.ret)
  BY <1>1, ResolvePrunes
<1>4. o \in Outcomes(T, k) /\ t \in Created
  BY <1>1, <1>2, <1>3 DEF PruneStep, Tree
<1>5. /\ IsTournament(T) /\ T.n = ChildCount(t) /\ 0..(T.n - 1) = Positions(t)
      /\ T.settled = ContenderResolved(t) /\ T.ci = contenderIndex[t]
  BY <1>1, <1>2, TournamentFacts
<1>6. Resumable(T)
  BY <1>1, <1>2, <1>4 DEF IInv, PruneProgress
<1>7. ~T.settled
  <2> SUFFICES ASSUME T.settled PROVE FALSE
    OBVIOUS
  <2>1. o.ret = T.ci
    BY <1>3, <1>4 DEF Outcomes
  <2> QED
    BY <1>1, <1>3, <1>5, <2>1 DEF ContenderResolved
<1>8. \A i, j \in 0..(T.n - 1) : i < j => T.created[i] <= T.created[j]
  <2> SUFFICES ASSUME NEW i \in Positions(t), NEW j \in Positions(t), i < j
               PROVE  T.created[i] <= T.created[j]
    BY <1>5
  <2>1. T.created[i] = createdAt[Child(t, i)] /\ T.created[j] = createdAt[Child(t, j)]
    BY <1>2 DEF Tournament
  <2>2. Child(t, i) < Child(t, j)
    BY <1>1 DEF Tree
  <2>3. Child(t, i) \in Created /\ Child(t, j) \in Created
    BY <1>1, ChildFacts
  <2> QED
    BY <2>1, <2>2, <2>3 DEF RefInv, Clocks
<1>9. o.ret = o.ci /\ o.ret \in 0..(T.n - 1) /\ Survives(T, o.ret)
  BY <1>3, <1>4, <1>5, <1>6, <1>7, ResolveNamesContender
<1>10. \A i \in 0..(T.n - 1) :
         \/ T.out[i] \/ i \in o.elim
         \/ T.sig[i] = T.sig[o.ret]
         \/ i > o.ret /\ Late(T, o.ret, i)
  BY <1>3, <1>4, <1>5, <1>6, <1>7, <1>8, ResolveLeavesSoleSurvivor
<1>11. \A i \in 0..(o.ret - 1) : T.out[i] \/ i \in o.elim
  <2>1. Resumable(After(T, o))
    BY <1>3, <1>4, <1>5, <1>6, PruneIsGood DEF GoodOutcome
  <2>2. \A i \in 0..(o.ci - 1) : After(T, o).out[i]
    BY <2>1 DEF Resumable, After
  <2>3. T.n \in Nat
    BY <1>5 DEF IsTournament
  <2>4. \A i \in 0..(o.ret - 1) : i \in 0..(T.n - 1)
    BY <1>9, <2>3
  <2> QED
    BY <1>9, <2>2, <2>4 DEF After
<1>12. PICK r \in Positions(t) : r = o.ret
  BY <1>5, <1>9
<1> QED
  BY <1>1, <1>2, <1>3, <1>5, <1>7, <1>9, <1>10, <1>11, <1>12

LEMMA ResolveRefines ==
  ASSUME RefInv, NEW g \in Games, Resolve(g)
  PROVE  LedgerStep
<1>1. PICK t : t = parent[g]
  OBVIOUS
<1>2. PICK k, r, o :
        /\ k \in Nat /\ r \in Positions(t)
        /\ t \in Games /\ PruneStep(t, k, o) /\ g = Child(t, r)
        /\ ~ContenderResolved(t)
        /\ Survives(Tournament(t), r)
        /\ \A i \in 0..(r - 1) : Tournament(t).out[i] \/ i \in o.elim
        /\ \A i \in Positions(t) :
             \/ Tournament(t).out[i] \/ i \in o.elim
             \/ Tournament(t).sig[i] = Tournament(t).sig[r]
             \/ i > r /\ Late(Tournament(t), r, i)
  BY <1>1, ResolveFacts
<1>3. IInv /\ TypeOK /\ Tree /\ Timely /\ SoundProofs
  BY DEF RefInv, IInv
<1>4. /\ t \in Created /\ t \in resolved /\ t \in Games
  BY <1>2, <1>3 DEF PruneStep, Tree
<1>5. /\ 0..(ChildCount(t) - 1) = Positions(t) /\ ChildCount(t) \in Nat
      /\ \A i \in Positions(t) :
           /\ Tournament(t).sig[i] = sig[Child(t, i)]
           /\ Tournament(t).out[i] = IsChildEliminated(Child(t, i))
           /\ Tournament(t).viable[i] = IsViableSignature(t, sig[Child(t, i)])
  BY <1>3, <1>4, TournamentFacts
<1>6. /\ g \in L!Children(t) /\ g \in Nat /\ g \in Created \ {Root}
      /\ LedgerGames[g].parent = t
      /\ LedgerGames[g].good <=> sig[g] = ValidSig
      /\ L!Out(g) <=> IsChildEliminated(g)
  BY <1>2, <1>4, ChildView
<1>7. IsViableSignature(t, sig[g]) /\ ~IsChildEliminated(g)
  BY <1>2, <1>5 DEF Survives
<1>8. sig[g] = ValidSig
  <2>1. CASE validChildSignature[t] # NoSig
    BY <1>1, <1>3, <1>4, <2>1 DEF Resolve, SoundProofs
  <2>2. CASE validChildSignature[t] = NoSig
    <3>1. now - createdAt[g] >= MaxClock
      BY <1>1, <2>2 DEF Resolve, ClockExpired
    <3> QED
      BY <1>1, <1>3, <1>6, <1>7, <3>1 DEF Timely
  <2> QED
    BY <2>1, <2>2
<1>9. \A i \in o.elim : i \in Positions(t) /\ sig[Child(t, i)] # ValidSig
  BY <1>2, <1>3, <1>4, PruneEliminates
<1>10. L!Survivor(g)
  <2>1. ASSUME NEW c \in L!Children(t), c < g
        PROVE  ~LedgerGames[c].good \/ L!Out(c)
    <3>1. PICK i \in Positions(t) : c = Child(t, i)
      BY <1>3, <1>4, LedgerChildren
    <3>2. i < r
      <4>1. i \in Int /\ r \in Int /\ c \in Nat
        BY <1>2, <1>4, <1>5, <3>1, ChildView
      <4>2. r < i => g < c
        BY <1>2, <1>3, <1>4, <3>1 DEF Tree
      <4> QED
        BY <1>2, <1>6, <2>1, <3>1, <4>1, <4>2
    <3>3. IsChildEliminated(c) \/ i \in o.elim
      <4>1. i \in 0..(r - 1)
        BY <1>2, <1>5, <3>1, <3>2
      <4> QED
        BY <1>2, <1>5, <3>1, <4>1
    <3> QED
      BY <1>4, <1>9, <3>1, <3>3, ChildView
  <2> QED
    BY <1>6, <1>7, <1>8, <2>1 DEF L!Survivor
<1>11. PICK E : E = {Child(t, i) : i \in o.elim}
  OBVIOUS
<1>12. E = L!Beaten(g)
  <2>1. E \subseteq L!Beaten(g)
    BY <1>2, <1>4, <1>6, <1>10, <1>11, PruneBeats
  <2>2. ASSUME NEW c \in L!Beaten(g) PROVE c \in E
    <3>1. c \in L!Children(t)
      BY <1>6 DEF L!Beaten, L!Faulty
    <3>2. PICK i \in Positions(t) : c = Child(t, i)
      BY <1>3, <1>4, <3>1, LedgerChildren
    <3>3. /\ sig[c] # ValidSig /\ ~IsChildEliminated(c)
          /\ i < r \/ ~Late(Tournament(t), r, i)
      BY <1>2, <1>4, <3>2, BeatenView
    <3>4. i \in Int /\ r \in Int
      BY <1>2, <1>5
    <3>5. i \in o.elim
      BY <1>2, <1>5, <1>8, <3>2, <3>3, <3>4
    <3> QED
      BY <1>11, <3>2, <3>5
  <2> QED
    BY <2>1, <2>2
<1>13. L!Eliminate(E) /\ UNCHANGED LedgerGames
  BY <1>2, <1>3, <1>4, <1>11, LedgerEliminates
<1>14. resolved' = resolved \cup {g} /\ now' = now
  BY DEF Resolve
<1>15. L!CanResolve(g)
  <2>1. ~L!Decided(t)
    BY <1>2, <1>3, <1>4, LedgerDecided
  <2>2. g # L!Root /\ LedgerGames[g].ours
    BY <1>3, <1>6, LedgerView
  <2> QED
    BY <1>4, <1>6, <1>10, <2>1, <2>2 DEF L!CanResolve
<1>16. L!ResolveGame(g)
  BY <1>12, <1>13, <1>14, <1>15 DEF L!ResolveGame
<1>17. g \in L!Indices
  BY <1>3, <1>6, LedgerView
<1> QED
  BY <1>16, <1>17 DEF LedgerStep, L!LedgerNext

LEMMA StepRefines ==
  RefInv /\ [TimelyNext]_vars => LedgerStep
<1> SUFFICES ASSUME RefInv, [TimelyNext]_vars PROVE LedgerStep
  OBVIOUS
<1>1. ASSUME NEW a \in Proposers, NEW t \in Games, NEW s \in Sigs, NEW d \in Games,
             NEW v \in Deposits, Propose(a, t, s, d, v)
      PROVE  LedgerStep
  BY <1>1, ProposeRefines
<1>2. ASSUME NEW t \in Games, NEW q \in Provers, NEW i \in Positions(t), Prove(t, i, q)
      PROVE  LedgerStep
  <2>1. UNCHANGED <<gameVars, sig, proposerOf, eliminationRound, resolved, now>>
    BY <1>2 DEF Prove, ProveValidity, ProveOutputFault, ProveTrailFault, treasuryVars,
                gameVars
  <2> QED
    BY <2>1, UnseenStep
<1>3. ASSUME NEW t \in Games, NEW k \in 0..MaxSteps, PruneChildren(t, k)
      PROVE  LedgerStep
  BY <1>3, PruneChildrenRefines, ProtocolAssumption
<1>4. ASSUME NEW g \in Games, Resolve(g) PROVE LedgerStep
  BY <1>4, ResolveRefines
<1>5. CASE ResolveTreasury
  BY <1>5, ResolveTreasuryRefines
<1>6. CASE TreasuryCall
  <2>1. UNCHANGED <<gameVars, sig, resolved, now>>
    BY <1>6 DEF TreasuryCall, tournamentVars, gameVars
  <2>2. UNCHANGED <<proposerOf, eliminationRound>>
    BY <1>6 DEF TreasuryCall, ClaimProposerBond, ClaimEliminationBonds, PayReturns,
                SetParticipationBond, AssignVanguard
  <2> QED
    BY <2>1, <2>2, UnseenStep
<1>7. CASE Tick
  BY <1>7, TickRefines
<1>8. CASE UNCHANGED vars
  <2>1. UNCHANGED <<gameVars, sig, proposerOf, eliminationRound, resolved, now>>
    BY <1>8 DEF vars, treasuryVars, tournamentVars, gameVars
  <2> QED
    BY <2>1, UnseenStep
<1> QED
  BY <1>1, <1>2, <1>3, <1>4, <1>5, <1>6, <1>7, <1>8 DEF TimelyNext, Next

\* When faults are proven in time, the contracts implement the ledger: whatever the order
\* of proposals, proofs, prunings and resolutions, each tournament is won by its earliest
\* correct proposal in good standing (KailuaGame.resolve and pruneChildren).
THEOREM ContractsImplementLedger ==
  TimelySpec => ImplementsLedger
<1>1. Init => RefInv /\ L!LedgerInit
  BY InitRefines
<1>2. RefInv /\ [TimelyNext]_vars => RefInv'
  BY RefInvKept
<1>3. RefInv /\ [TimelyNext]_vars => [L!LedgerNext]_(L!ledgerVars)
  BY StepRefines DEF LedgerStep
<1> QED
  BY <1>1, <1>2, <1>3, PTL DEF TimelySpec, ImplementsLedger, L!LedgerSpec
=============================================================================
