---------------------------- MODULE KailuaProofs ----------------------------
(***************************************************************************)
(* IInv is inductive, for any number of games, proposers and signatures    *)
(* and any bounds: so every reachable state has the safety properties it   *)
(* contains, EliminateNeverBlocks follows from it, and with FinalInv no    *)
(* decision is ever changed.                                               *)
(***************************************************************************)
EXTENDS KailuaSafety, PruneProofs

-----------------------------------------------------------------------------
(***************************************************************************)
(* Facts about one state.                                                  *)
(***************************************************************************)

\* Created games are games, and games are numbers.
LEMMA CreatedAreGames ==
  ASSUME TypeOK
  PROVE  /\ Created \subseteq Games /\ Games \subseteq Nat /\ Root \in Created
         /\ gameCount \in Nat /\ \A g \in Games : g \in Created <=> g < gameCount
<1>1. gameCount \in 1..MaxGames /\ MaxGames \in Nat
  BY TreasuryAssumption DEF TypeOK, TournamentTypeOK
<1> QED
  BY <1>1 DEF Created, Games, Root

\* Children are created games below their tournament.
LEMMA ChildFacts ==
  ASSUME TypeOK, Tree, NEW t \in Games, NEW i \in Positions(t)
  PROVE  /\ Child(t, i) \in Created \ {Root} /\ Child(t, i) \in Games
         /\ parent[Child(t, i)] = t /\ t \in Created
         /\ proposerOf[Child(t, i)] \in Accounts /\ sig[Child(t, i)] \in Sigs
         /\ height[Child(t, i)] = height[t] + 1
<1>1. Child(t, i) \in Created \ {Root} /\ parent[Child(t, i)] = t
  BY DEF Tree
<1>2. Created \subseteq Games
  BY CreatedAreGames
<1> QED
  BY <1>1, <1>2 DEF Tree

\* What a tournament's record holds.
LEMMA TournamentFacts ==
  ASSUME TypeOK, Tree, NEW t \in Games
  PROVE  /\ IsTournament(Tournament(t))
         /\ Tournament(t).n = ChildCount(t) /\ ChildCount(t) \in Nat
         /\ Tournament(t).ci = contenderIndex[t] /\ Tournament(t).oi = opponentIndex[t]
         /\ Tournament(t).dups = contenderDuplicates[t]
         /\ Tournament(t).settled = ContenderResolved(t)
         /\ 0..(ChildCount(t) - 1) = Positions(t)
         /\ \A i \in Positions(t) :
              /\ Tournament(t).sig[i] = sig[Child(t, i)]
              /\ Tournament(t).out[i] = IsChildEliminated(Child(t, i))
              /\ Tournament(t).viable[i] = IsViableSignature(t, sig[Child(t, i)])
<1>1. ChildCount(t) \in Nat
  BY DEF ChildCount, TypeOK, TournamentTypeOK
<1>2. \A i \in Positions(t) : createdAt[Child(t, i)] \in Int
  BY ChildFacts DEF TypeOK, TournamentTypeOK
<1>3. \A g : IsChildEliminated(g) \in BOOLEAN
  BY DEF IsChildEliminated
<1>4. \A s : IsViableSignature(t, s) \in BOOLEAN
  BY DEF IsViableSignature
<1> QED
  BY <1>1, <1>2, <1>3, <1>4 DEF IsTournament, Tournament, Positions

\* A proposer has at most one game per height.
LEMMA OneGamePerHeight ==
  ASSUME TypeOK, Progression, NEW g \in Created, NEW h \in Created,
         proposerOf[g] = proposerOf[h], height[g] = height[h]
  PROVE  g = h
<1>1. g \in Games /\ h \in Games /\ g \in Int /\ h \in Int
  BY CreatedAreGames
<1>2. height[g] \in Nat
  BY <1>1 DEF TypeOK, TournamentTypeOK
<1>3. ~(g < h) /\ ~(h < g)
  BY <1>2 DEF Progression
<1> QED
  BY <1>1, <1>3

\* Positions name children uniquely.
LEMMA ChildInjective ==
  ASSUME TypeOK, Tree, NEW t \in Games, NEW i \in Positions(t), NEW j \in Positions(t),
         Child(t, i) = Child(t, j)
  PROVE  i = j
<1>1. i \in Int /\ j \in Int
  BY DEF Positions, ChildCount, TypeOK, TournamentTypeOK
<1>2. Child(t, i) \in Int
  BY ChildFacts DEF Created
<1>3. ~(i < j) /\ ~(j < i)
  BY <1>2 DEF Tree
<1> QED
  BY <1>1, <1>3

\* The tournament still to be decided is the one of the last resolved game.
LEMMA LiveIsLast ==
  ASSUME ResolvedFormOneChain, NEW t \in resolved, ~ContenderResolved(t)
  PROVE  t = lastResolved
BY DEF ResolvedFormOneChain

\* The record of a tournament in the state after a step.
LEMMA NextTournament ==
  ASSUME NEW t
  PROVE  /\ Tournament(t)'.n = ChildCount(t)'
         /\ Tournament(t)'.ci = contenderIndex'[t] /\ Tournament(t)'.oi = opponentIndex'[t]
         /\ Tournament(t)'.dups = contenderDuplicates'[t]
         /\ \A i \in Positions(t)' :
              /\ Tournament(t)'.sig[i] = sig'[Child(t, i)']
              /\ Tournament(t)'.out[i] = IsChildEliminated(Child(t, i))'
BY DEF Tournament

-----------------------------------------------------------------------------
\* A step that keeps the tree, the progress and the eliminations keeps PruneProgress.
LEMMA ProgressKept ==
  ASSUME IInv, NEW t \in Created,
         UNCHANGED <<children, sig, proposerOf, eliminationRound, pruneVars>>
  PROVE  Resumable(Tournament(t))'
<1>1. TypeOK /\ Tree /\ Resumable(Tournament(t)) /\ t \in Games
  BY CreatedAreGames DEF IInv, PruneProgress
<1>2. /\ ChildCount(t)' = ChildCount(t) /\ Positions(t)' = Positions(t)
      /\ \A i : /\ Child(t, i)' = Child(t, i)
               /\ IsChildEliminated(Child(t, i))' = IsChildEliminated(Child(t, i))
  BY DEF Positions, ChildCount, Child, IsChildEliminated
<1> DEFINE S == Tournament(t)'
<1>3. /\ S.n = Tournament(t).n /\ S.ci = Tournament(t).ci /\ S.oi = Tournament(t).oi
      /\ S.dups = Tournament(t).dups /\ Tournament(t).n \in Nat
      /\ \A i \in 0..(Tournament(t).n - 1) : /\ S.sig[i] = Tournament(t).sig[i]
                                             /\ S.out[i] = Tournament(t).out[i]
  BY <1>1, <1>2, TournamentFacts, NextTournament DEF pruneVars
<1>4. Tournament(t).dups # {} => ~Tournament(t).out[Tournament(t).ci]
                                 /\ Tournament(t).ci \in 0..(Tournament(t).n - 1)
  BY <1>1, <1>3 DEF Resumable
<1> HIDE DEF S
<1>5. Resumable(S)
  BY <1>1, <1>3, <1>4, ResumableKept
<1> QED
  BY <1>5 DEF S

-----------------------------------------------------------------------------
(***************************************************************************)
(* IInv is inductive: the initial states, then one lemma per action.       *)
(***************************************************************************)

LEMMA InitIInv ==
  Init => IInv
<1> SUFFICES ASSUME Init PROVE IInv
  OBVIOUS
<1>1. MaxGames \in Nat /\ MaxGames > 0 /\ Root \in Games /\ Games \subseteq Nat
  BY TreasuryAssumption DEF Games, Root
<1>2. TypeOK
  <2>1. TreasuryTypeOK
    BY <1>1, TreasuryAssumption DEF Init, TreasuryInit, TreasuryTypeOK, NoGame, Root
  <2>2. children \in [Games -> Seq(Games)]
    BY DEF Init, TournamentInit
  <2>3. TournamentTypeOK
    BY <1>1, <2>2 DEF Init, TournamentInit, TournamentTypeOK, GenesisTime
  <2> QED
    BY <2>1, <2>3 DEF TypeOK, Init, GenesisTime
<1>3. Created = {Root}
  BY DEF Created, Root, Init, TournamentInit
<1>4. \A t \in Games : ChildCount(t) = 0 /\ Positions(t) = {}
  BY DEF ChildCount, Positions, Init, TournamentInit
<1>5. Tree
  BY <1>1, <1>3, <1>4, TreasuryAssumption DEF Tree, Init, TreasuryInit, TournamentInit
<1>6. Progression
  BY <1>1, <1>3, TreasuryAssumption
  DEF Progression, Init, TreasuryInit, TournamentInit, Root, NoGame
<1>7. SoundProofs /\ Unstarted
  BY TournamentAssumption DEF SoundProofs, Unstarted, Init, TournamentInit
<1>8. ResolvedFormOneChain /\ HonestNeverEliminated
  BY DEF ResolvedFormOneChain, HonestNeverEliminated, Init, TreasuryInit, TournamentInit
<1>9. PruneProgress
  <2>1. /\ Tournament(Root).n = 0 /\ Tournament(Root).ci = 0
        /\ Tournament(Root).oi = 0 /\ Tournament(Root).dups = {}
    BY <1>1, <1>4 DEF Tournament, Init, TournamentInit
  <2> QED
    BY <1>3, <2>1 DEF PruneProgress, Resumable
<1> QED
  BY <1>2, <1>5, <1>6, <1>7, <1>8, <1>9 DEF IInv

\* The variables that IInv is about, apart from the proofs and the types of the rest.
coreVars ==
  <<gameCount, parent, sig, height, resolved, children, pruneVars, proposerOf,
    eliminationRound, lastProposal, lastResolved>>

\* A step that leaves them alone has to keep only types and the soundness of proofs.
LEMMA CoreUnchanged ==
  ASSUME IInv, UNCHANGED coreVars, TypeOK', SoundProofs'
  PROVE  IInv'
<1>1. Created' = Created
  BY DEF Created, coreVars
<1>2. Tree'
  BY <1>1, ZenonT(60) DEF IInv, Tree, coreVars, Positions, ChildCount, Child
<1>3. Progression'
  BY <1>1 DEF IInv, Progression, coreVars
<1>4. Unstarted'
  BY DEF IInv, Unstarted, coreVars, pruneVars
<1>5. ResolvedFormOneChain'
  BY DEF IInv, ResolvedFormOneChain, coreVars, pruneVars, ContenderResolved, ChildCount, Child
<1>6. HonestNeverEliminated'
  BY DEF IInv, HonestNeverEliminated, coreVars
<1>7. PruneProgress'
  <2> SUFFICES ASSUME NEW t \in Created PROVE Resumable(Tournament(t))'
    BY <1>1 DEF PruneProgress
  <2> QED
    BY ProgressKept DEF coreVars
<1> QED
  BY <1>2, <1>3, <1>4, <1>5, <1>6, <1>7 DEF IInv

LEMMA TreasuryCallIInv ==
  IInv /\ TreasuryCall => IInv'
<1> SUFFICES ASSUME IInv, TreasuryCall PROVE IInv'
  OBVIOUS
<1>1. UNCHANGED <<tournamentVars, now>>
  BY DEF TreasuryCall
<1>2. ASSUME NEW a \in Accounts, ClaimProposerBond(a, NoPendingProposal(a))
      PROVE  TreasuryTypeOK' /\ UNCHANGED coreVars
  BY <1>1, <1>2 DEF ClaimProposerBond, IInv, TypeOK, TreasuryTypeOK, coreVars,
       tournamentVars, gameVars
<1>3. ASSUME NEW q \in Accounts, ClaimEliminationBonds(q)
      PROVE  TreasuryTypeOK' /\ UNCHANGED coreVars
  <2>1. PICK S \in SUBSET (eliminations[q] \ eliminationsPaid[q]) :
          /\ eliminationsPaid' = [eliminationsPaid EXCEPT ![q] = @ \cup S]
          /\ paidBonds' = [a \in Accounts |-> IF a \in S THEN 0 ELSE paidBonds[a]]
          /\ isLocked' = (\E a \in S : paidBonds[a] > 0)
    BY <1>3 DEF ClaimEliminationBonds
  <2>2. S \subseteq Accounts
    BY <2>1 DEF IInv, TypeOK, TreasuryTypeOK
  <2>3. isLocked' \in BOOLEAN
    BY <2>1
  <2>4. /\ eliminationsPaid' \in [Accounts \cup {NoAccount} -> SUBSET Accounts]
        /\ paidBonds' \in [Accounts -> Nat]
    BY <2>1, <2>2 DEF IInv, TypeOK, TreasuryTypeOK
  <2> QED
    BY <1>1, <1>3, <2>3, <2>4 DEF ClaimEliminationBonds, IInv, TypeOK, TreasuryTypeOK,
         coreVars, tournamentVars, gameVars
<1>4. ASSUME PayReturns
      PROVE  TreasuryTypeOK' /\ UNCHANGED coreVars
  BY <1>1, <1>4 DEF PayReturns, IInv, TypeOK, TreasuryTypeOK, coreVars, tournamentVars,
       gameVars
<1>5. ASSUME NEW amount \in BondAmounts, SetParticipationBond(amount)
      PROVE  TreasuryTypeOK' /\ UNCHANGED coreVars
  BY <1>1, <1>5, TreasuryAssumption DEF SetParticipationBond, IInv, TypeOK,
       TreasuryTypeOK, coreVars, tournamentVars, gameVars
<1>6. ASSUME NEW a \in Vanguards, NEW d \in Advantages, AssignVanguard(a, d)
      PROVE  TreasuryTypeOK' /\ UNCHANGED coreVars
  BY <1>1, <1>6, TreasuryAssumption DEF AssignVanguard, IInv, TypeOK, TreasuryTypeOK,
       coreVars, tournamentVars, gameVars
<1>7. TreasuryTypeOK' /\ UNCHANGED coreVars
  BY <1>2, <1>3, <1>4, <1>5, <1>6 DEF TreasuryCall
<1>8. TypeOK' /\ SoundProofs'
  BY <1>1, <1>7 DEF IInv, TypeOK, TournamentTypeOK, SoundProofs, tournamentVars, gameVars,
       pruneVars, proofVars
<1> QED
  BY <1>7, <1>8, CoreUnchanged

LEMMA TickIInv ==
  IInv /\ (Tick \/ UNCHANGED vars) => IInv'
<1> SUFFICES ASSUME IInv, Tick \/ UNCHANGED vars PROVE IInv'
  OBVIOUS
<1>1. UNCHANGED <<treasuryVars, tournamentVars>> /\ now' \in Nat
  BY DEF Tick, vars, IInv, TypeOK
<1>2. TypeOK' /\ SoundProofs' /\ UNCHANGED coreVars
  BY <1>1 DEF IInv, TypeOK, TreasuryTypeOK, TournamentTypeOK, SoundProofs, coreVars,
       treasuryVars, tournamentVars, gameVars, pruneVars, proofVars
<1> QED
  BY <1>2, CoreUnchanged

LEMMA ProveIInv ==
  ASSUME IInv, NEW t \in Games, NEW q \in Provers, NEW i \in Positions(t), Prove(t, i, q)
  PROVE  IInv'
<1> DEFINE s == sig[Child(t, i)]
<1>1. s \in Sigs
  BY ChildFacts DEF IInv
<1>2. q \in Accounts
  BY ProtocolAssumption
<1>3. UNCHANGED <<treasuryVars, now, gameVars, resolved, children, pruneVars>>
  BY DEF Prove, ProveValidity, ProveOutputFault, ProveTrailFault
<1>4. PICK outcome \in {"FAULT", "VALIDITY"} :
        /\ proofStatus' = [proofStatus EXCEPT ![t][s] = outcome]
        /\ prover' = [prover EXCEPT ![t][s] = q]
        /\ outcome = "FAULT" => s # ValidSig /\ validChildSignature' = validChildSignature
        /\ outcome = "VALIDITY" => validChildSignature' = [validChildSignature EXCEPT ![t] = ValidSig]
  BY <1>1, TournamentAssumption
  DEF Prove, ProveValidity, ProveOutputFault, ProveTrailFault, UpdateProofStatus
<1> HIDE DEF s
<1>5. /\ proofStatus' \in [Games -> [Sigs -> {"NONE", "FAULT", "VALIDITY"}]]
      /\ prover' \in [Games -> [Sigs -> Accounts \cup {NoAccount}]]
      /\ validChildSignature' \in [Games -> Sigs \cup {NoSig}]
  <2>1. /\ proofStatus \in [Games -> [Sigs -> {"NONE", "FAULT", "VALIDITY"}]]
        /\ prover \in [Games -> [Sigs -> Accounts \cup {NoAccount}]]
        /\ validChildSignature \in [Games -> Sigs \cup {NoSig}]
    BY DEF IInv, TypeOK, TournamentTypeOK
  <2>2. proofStatus' \in [Games -> [Sigs -> {"NONE", "FAULT", "VALIDITY"}]]
    BY <1>1, <1>4, <2>1
  <2>3. prover' \in [Games -> [Sigs -> Accounts \cup {NoAccount}]]
    BY <1>1, <1>2, <1>4, <2>1
  <2>4. validChildSignature' \in [Games -> Sigs \cup {NoSig}]
    BY <1>4, <2>1, TournamentAssumption
  <2> QED
    BY <2>2, <2>3, <2>4
<1>6. TypeOK'
  BY <1>3, <1>5 DEF IInv, TypeOK, TreasuryTypeOK, TournamentTypeOK, treasuryVars, gameVars,
       pruneVars
<1>7. SoundProofs'
  BY <1>1, <1>4, TournamentAssumption DEF IInv, TypeOK, TournamentTypeOK, SoundProofs
<1> QED
  BY <1>3, <1>6, <1>7, CoreUnchanged DEF coreVars, treasuryVars, gameVars

-----------------------------------------------------------------------------
(***************************************************************************)
(* Pruning, as pruneChildren and resolve do it: what the call changes, and *)
(* why it leaves the tournament and all others in order.                   *)
(***************************************************************************)
PruneStep(t, k, o) ==
  /\ t \in resolved
  /\ o \in Outcomes(Tournament(t), k)
  /\ contenderIndex' = [contenderIndex EXCEPT ![t] = o.ci]
  /\ opponentIndex' = [opponentIndex EXCEPT ![t] = o.oi]
  /\ contenderDuplicates' = [contenderDuplicates EXCEPT ![t] = o.dups]
  /\ LET E == {Child(t, i) : i \in o.elim}
     IN Eliminate(E, [g \in E |-> GetPayoutRecipient(t, sig[g])])
  /\ UNCHANGED <<gameVars, children, proofVars, proposerOf, eliminationsPaid, paidBonds,
                 participationBond, lastProposal, vanguard, vanguardAdvantage, isLocked, now>>

\* The call eliminates children of the live tournament only, with wrong signatures.
LEMMA PruneEliminates ==
  ASSUME IInv, NEW t \in Games, NEW k \in Nat, NEW o, PruneStep(t, k, o)
  PROVE  /\ GoodOutcome(Tournament(t), o)
         /\ o.elim # {} => t = lastResolved
         /\ \A i \in o.elim : /\ i \in Positions(t)
                              /\ ~IsChildEliminated(Child(t, i))
                              /\ sig[Child(t, i)] # ValidSig
<1> DEFINE T == Tournament(t)
<1>1. TypeOK /\ Tree /\ t \in Created
  BY DEF IInv, PruneStep, Tree
<1>2. IsTournament(T) /\ Resumable(T) /\ o \in Outcomes(T, k)
  BY <1>1, TournamentFacts DEF IInv, PruneProgress, PruneStep
<1>3. GoodOutcome(T, o)
  BY <1>2, PruneIsGood
<1>4. o.elim # {} => t = lastResolved
  <2>1. T.settled => o.elim = {}
    BY <1>2 DEF Outcomes
  <2>2. o.elim # {} => ~ContenderResolved(t)
    BY <1>1, <2>1, TournamentFacts
  <2> QED
    BY <2>2, LiveIsLast DEF IInv, PruneStep
<1>5. ASSUME NEW i \in o.elim
      PROVE  /\ i \in Positions(t) /\ ~IsChildEliminated(Child(t, i))
             /\ sig[Child(t, i)] # ValidSig
  <2>1. i \in 0..(T.n - 1) /\ ~T.out[i] /\ ~T.viable[i]
    BY <1>3 DEF GoodOutcome, Eliminable
  <2>2. i \in Positions(t)
    BY <1>1, <2>1, TournamentFacts
  <2>3. ~IsChildEliminated(Child(t, i)) /\ ~IsViableSignature(t, sig[Child(t, i)])
    BY <1>1, <2>1, <2>2, TournamentFacts
  <2>4. sig[Child(t, i)] # ValidSig
    BY <2>3 DEF IsViableSignature, IInv, SoundProofs
  <2> QED
    BY <2>2, <2>3, <2>4
<1> QED
  BY <1>3, <1>4, <1>5

\* Elimination rounds change for proposers of eliminated children only, from none
\* to that child.
LEMMA PruneRounds ==
  ASSUME IInv, NEW t \in Games, NEW k \in Nat, NEW o, PruneStep(t, k, o),
         NEW a \in Accounts
  PROVE  \/ /\ eliminationRound'[a] = eliminationRound[a]
            /\ \A i \in o.elim : proposerOf[Child(t, i)] # a
         \/ /\ eliminationRound[a] = 0
            /\ \E i \in o.elim : /\ eliminationRound'[a] = Child(t, i)
                                 /\ proposerOf[Child(t, i)] = a
<1> DEFINE E == {Child(t, i) : i \in o.elim}
<1>1. /\ CanEliminate(E)
      /\ eliminationRound'[a] = IF \E g \in E : proposerOf[g] = a
                                THEN CHOOSE g \in E : proposerOf[g] = a
                                ELSE eliminationRound[a]
  BY DEF PruneStep, Eliminate
<1>2. CASE \E g \in E : proposerOf[g] = a
  <2>1. eliminationRound'[a] \in E /\ proposerOf[eliminationRound'[a]] = a
    BY <1>1, <1>2
  <2>2. eliminationRound[a] = 0
    BY <1>1, <2>1 DEF CanEliminate
  <2> QED
    BY <2>1, <2>2
<1>3. CASE ~ \E g \in E : proposerOf[g] = a
  BY <1>1, <1>3
<1> QED
  BY <1>2, <1>3

\* Who counts as eliminated after the call: in t exactly the children it eliminated,
\* elsewhere only later games of their proposers.
LEMMA PruneOut ==
  ASSUME IInv, NEW t \in Games, NEW k \in Nat, NEW o, PruneStep(t, k, o)
  PROVE  /\ \A g \in Created :
              /\ IsChildEliminated(g) => IsChildEliminated(g)'
              /\ IsChildEliminated(g)' /\ ~IsChildEliminated(g) =>
                   \E i \in o.elim : /\ Child(t, i) <= g
                                    /\ proposerOf[Child(t, i)] = proposerOf[g]
         /\ \A i \in Positions(t) :
              IsChildEliminated(Child(t, i))' <=>
                IsChildEliminated(Child(t, i)) \/ i \in o.elim
<1>1. TypeOK /\ Tree /\ Progression
  BY DEF IInv
<1>2. proposerOf' = proposerOf
  BY DEF PruneStep
<1>3. ASSUME NEW g \in Created
      PROVE  /\ IsChildEliminated(g) => IsChildEliminated(g)'
             /\ IsChildEliminated(g)' /\ ~IsChildEliminated(g) =>
                  \E i \in o.elim : /\ Child(t, i) <= g
                                   /\ proposerOf[Child(t, i)] = proposerOf[g]
  <2>1. proposerOf[g] \in Accounts
    BY <1>1 DEF Tree
  <2>2. \/ eliminationRound'[proposerOf[g]] = eliminationRound[proposerOf[g]]
        \/ /\ eliminationRound[proposerOf[g]] = 0
           /\ \E i \in o.elim : /\ eliminationRound'[proposerOf[g]] = Child(t, i)
                                /\ proposerOf[Child(t, i)] = proposerOf[g]
    BY <2>1, PruneRounds
  <2> QED
    BY <1>2, <2>2 DEF IsChildEliminated
<1>4. ASSUME NEW i \in Positions(t)
      PROVE  IsChildEliminated(Child(t, i))' <=>
               IsChildEliminated(Child(t, i)) \/ i \in o.elim
  <2>1. Child(t, i)' = Child(t, i)
    BY DEF Child, PruneStep
  <2>2. Child(t, i) \in Created /\ Child(t, i) # 0 /\ Child(t, i) \in Nat
    BY <1>1, ChildFacts, CreatedAreGames DEF Root
  <2>3. ASSUME NEW j \in o.elim, proposerOf[Child(t, j)] = proposerOf[Child(t, i)]
        PROVE  i = j
    <3>1. j \in Positions(t)
      BY PruneEliminates
    <3>2. Child(t, i) = Child(t, j)
      BY <1>1, <2>3, <3>1, ChildFacts, OneGamePerHeight
    <3> QED
      BY <1>1, <3>1, <3>2, ChildInjective
  <2>4. IsChildEliminated(Child(t, i))' => IsChildEliminated(Child(t, i)) \/ i \in o.elim
    BY <1>3, <2>1, <2>2, <2>3 DEF IsChildEliminated
  <2>5. i \in o.elim => IsChildEliminated(Child(t, i))'
    <3> HAVE i \in o.elim
    <3> DEFINE a == proposerOf[Child(t, i)]
    <3>1. a \in Accounts /\ a # NoAccount
      BY <1>1, ChildFacts, TreasuryAssumption
    <3>2. PICK j \in o.elim : /\ eliminationRound'[a] = Child(t, j)
                              /\ proposerOf[Child(t, j)] = a
      BY <3>1, PruneRounds
    <3>3. eliminationRound'[a] = Child(t, i)
      BY <2>3, <3>2
    <3> QED
      BY <1>2, <2>1, <2>2, <3>1, <3>3 DEF IsChildEliminated
  <2>6. IsChildEliminated(Child(t, i)) => IsChildEliminated(Child(t, i))'
    BY <1>3, <2>1, <2>2 DEF IsChildEliminated
  <2> QED
    BY <2>4, <2>5, <2>6
<1> QED
  BY <1>3, <1>4

\* The call's own tournament is left as After says.
LEMMA PruneProgressHere ==
  ASSUME IInv, NEW t \in Games, NEW k \in Nat, NEW o, PruneStep(t, k, o)
  PROVE  Resumable(Tournament(t))'
<1> DEFINE A == After(Tournament(t), o)
           S == Tournament(t)'
<1>1. TypeOK /\ Tree
  BY DEF IInv
<1>2. Resumable(A)
  BY PruneEliminates DEF GoodOutcome
<1>3. /\ ChildCount(t)' = ChildCount(t) /\ Positions(t)' = Positions(t) /\ sig' = sig
      /\ \A i : Child(t, i)' = Child(t, i)
  BY DEF PruneStep, gameVars, Positions, ChildCount, Child
<1>4. t \in DOMAIN contenderIndex /\ t \in DOMAIN opponentIndex
      /\ t \in DOMAIN contenderDuplicates
  BY <1>1 DEF TypeOK, TournamentTypeOK
<1>5. S.n = A.n /\ S.ci = A.ci /\ S.oi = A.oi /\ S.dups = A.dups /\ A.n \in Nat
  BY <1>1, <1>3, <1>4, TournamentFacts, NextTournament DEF PruneStep, After
<1>6. \A i \in 0..(A.n - 1) : S.sig[i] = A.sig[i] /\ (A.out[i] <=> S.out[i])
  <2>1. ASSUME NEW i \in Positions(t)
        PROVE  /\ S.sig[i] = sig[Child(t, i)] /\ A.sig[i] = sig[Child(t, i)]
               /\ S.out[i] = IsChildEliminated(Child(t, i))'
               /\ A.out[i] = (IsChildEliminated(Child(t, i)) \/ i \in o.elim)
    <3>1. i \in Positions(t)' /\ i \in 0..(Tournament(t).n - 1)
      BY <1>1, <1>3, TournamentFacts
    <3>2. S.sig[i] = sig[Child(t, i)] /\ S.out[i] = IsChildEliminated(Child(t, i))'
      BY <1>3, <3>1, NextTournament
    <3>3. /\ A.sig[i] = sig[Child(t, i)]
          /\ A.out[i] = (IsChildEliminated(Child(t, i)) \/ i \in o.elim)
      BY <1>1, <3>1, TournamentFacts DEF After
    <3> QED
      BY <3>2, <3>3
  <2>2. 0..(A.n - 1) = Positions(t)
    BY <1>1, TournamentFacts DEF After
  <2> QED
    BY <2>1, <2>2, PruneOut
<1>7. A.dups # {} => ~A.out[A.ci] /\ A.ci \in 0..(A.n - 1)
  BY <1>2, <1>5 DEF Resumable
<1> HIDE DEF A, S
<1>8. Resumable(S)
  BY <1>2, <1>5, <1>6, <1>7, ResumableKept
<1> QED
  BY <1>8 DEF S

\* Another tournament may lose children, but not a contender with duplicates: such a
\* tournament has started, so its games are no higher than those of the live one.
LEMMA PruneProgressElsewhere ==
  ASSUME IInv, NEW t \in Games, NEW k \in Nat, NEW o, PruneStep(t, k, o),
         NEW r \in Created, r # t
  PROVE  Resumable(Tournament(r))'
<1> DEFINE T == Tournament(r)
           S == Tournament(r)'
<1>1. TypeOK /\ Tree /\ Progression /\ r \in Games
  BY CreatedAreGames DEF IInv
<1>2. Resumable(T)
  BY DEF IInv, PruneProgress
<1>3. /\ ChildCount(r)' = ChildCount(r) /\ Positions(r)' = Positions(r) /\ sig' = sig
      /\ \A i : Child(r, i)' = Child(r, i)
      /\ proposerOf' = proposerOf
  BY DEF PruneStep, gameVars, Positions, ChildCount, Child
<1>4. /\ contenderIndex'[r] = contenderIndex[r] /\ opponentIndex'[r] = opponentIndex[r]
      /\ contenderDuplicates'[r] = contenderDuplicates[r]
  BY <1>1 DEF PruneStep, TypeOK, TournamentTypeOK
<1>5. S.n = T.n /\ S.ci = T.ci /\ S.oi = T.oi /\ S.dups = T.dups /\ T.n \in Nat
      /\ Positions(r) = 0..(T.n - 1)
  BY <1>1, <1>3, <1>4, TournamentFacts, NextTournament
<1>6. \A i \in Positions(r) :
        /\ S.sig[i] = T.sig[i]
        /\ T.out[i] = IsChildEliminated(Child(r, i))
        /\ S.out[i] = IsChildEliminated(Child(r, i))'
  BY <1>1, <1>3, TournamentFacts, NextTournament
<1>7. \A i \in Positions(r) : T.out[i] => S.out[i]
  <2> SUFFICES ASSUME NEW i \in Positions(r), IsChildEliminated(Child(r, i))
               PROVE  IsChildEliminated(Child(r, i))'
    BY <1>6
  <2>1. Child(r, i) \in Created
    BY <1>1, ChildFacts
  <2> QED
    BY <1>3, <2>1, PruneOut DEF IsChildEliminated
<1>8. T.dups # {} => ~S.out[T.ci]
  <2> SUFFICES ASSUME T.dups # {}, S.out[T.ci] PROVE FALSE
    OBVIOUS
  <2>1. PICK x \in Positions(r) : x = T.ci /\ ~T.out[x] /\ S.out[x]
    BY <1>2, <1>5 DEF Resumable
  <2> DEFINE c == Child(r, x)
  <2>2. c \in Created /\ c \in Nat /\ parent[c] = r /\ height[c] = height[r] + 1
    BY <1>1, <2>1, ChildFacts, CreatedAreGames
  <2>3. PICK i \in o.elim : Child(t, i) <= c /\ proposerOf[Child(t, i)] = proposerOf[c]
    <3>1. /\ ~IsChildEliminated(c)
          /\ proposerOf[c] # NoAccount /\ eliminationRound'[proposerOf[c]] # 0
          /\ eliminationRound'[proposerOf[c]] <= c
      BY <1>3, <1>6, <2>1, ZenonT(30) DEF IsChildEliminated
    <3> HIDE DEF c
    <3>2. \A z \in Created : /\ ~IsChildEliminated(z)
                            /\ proposerOf'[z] # NoAccount
                            /\ eliminationRound'[proposerOf'[z]] # 0
                            /\ eliminationRound'[proposerOf'[z]] <= z
             => \E i \in o.elim : Child(t, i) <= z /\ proposerOf[Child(t, i)] = proposerOf[z]
      BY PruneOut DEF IsChildEliminated
    <3> QED
      BY <1>3, <2>2, <3>1, <3>2
  <2> DEFINE g == Child(t, i)
  <2>4. i \in Positions(t) /\ t = lastResolved
    BY PruneEliminates
  <2>5. g \in Created /\ g \in Nat /\ parent[g] = t /\ height[g] = height[t] + 1
    BY <1>1, <2>4, ChildFacts, CreatedAreGames
  <2>6. g < c
    BY <2>2, <2>3, <2>5
  <2>7. height[g] < height[c]
    BY <1>1, <2>2, <2>3, <2>5, <2>6 DEF Progression
  <2>8. r \in resolved
    BY <1>1, TournamentFacts DEF IInv, Unstarted
  <2>9. height[r] <= height[t]
    BY <2>4, <2>8 DEF IInv, ResolvedFormOneChain
  <2>10. height[r] \in Nat /\ height[t] \in Nat
    BY <1>1 DEF TypeOK, TournamentTypeOK
  <2> QED
    BY <2>2, <2>5, <2>7, <2>9, <2>10
<1> HIDE DEF T, S
<1>9. Resumable(S)
  BY <1>2, <1>5, <1>6, <1>7, <1>8, ResumableKept
<1> QED
  BY <1>9 DEF S

\* So pruning keeps IInv, if what the call does to resolved is in order.
LEMMA PruneIInv ==
  ASSUME IInv, NEW t \in Games, NEW k \in Nat, NEW o, PruneStep(t, k, o),
         resolved \subseteq resolved', resolved' \subseteq Created,
         lastResolved' \in Games \cup {NoGame}, ResolvedFormOneChain'
  PROVE  IInv'
<1>1. TypeOK /\ Tree /\ Progression /\ SoundProofs /\ Unstarted /\ HonestNeverEliminated
  BY DEF IInv
<1>2. /\ UNCHANGED <<gameVars, children, proofVars, proposerOf, lastProposal>>
      /\ Created' = Created
  BY DEF PruneStep, gameVars, Created
<1>3. \A i \in o.elim : /\ i \in Positions(t) /\ Child(t, i) \in Games
                        /\ Child(t, i) # Root
                        /\ proposerOf[Child(t, i)] \in Accounts
                        /\ parent[Child(t, i)] = t /\ sig[Child(t, i)] # ValidSig
  BY <1>1, PruneEliminates, ChildFacts
<1>4. TypeOK'
  <2>1. Resumable(After(Tournament(t), o))
    BY PruneEliminates DEF GoodOutcome
  <2>2. o.ci \in Nat /\ o.oi \in Nat /\ o.dups \subseteq Nat
    <3>1. After(Tournament(t), o).n = ChildCount(t) /\ ChildCount(t) \in Nat
      BY <1>1, TournamentFacts DEF After
    <3>2. /\ After(Tournament(t), o).ci = o.ci /\ After(Tournament(t), o).oi = o.oi
          /\ After(Tournament(t), o).dups = o.dups
      BY DEF After
    <3>3. o.ci \in 0..ChildCount(t) /\ o.oi \in 0..ChildCount(t)
          /\ o.dups \subseteq (o.ci + 1)..(o.oi - 1)
      BY <2>1, <3>1, <3>2 DEF Resumable
    <3> QED
      BY <3>1, <3>3
  <2>3. /\ contenderIndex' \in [Games -> Nat] /\ opponentIndex' \in [Games -> Nat]
        /\ contenderDuplicates' \in [Games -> SUBSET Nat]
    BY <1>1, <2>2 DEF PruneStep, TypeOK, TournamentTypeOK
  <2>4. eliminationRound' \in [Accounts -> Games]
    <3>1. \A a \in Accounts : eliminationRound'[a] \in Games
      BY <1>1, <1>3, PruneRounds DEF TypeOK, TreasuryTypeOK
    <3>2. eliminationRound' = [a \in Accounts |-> eliminationRound'[a]]
      BY DEF PruneStep, Eliminate
    <3> QED
      BY <3>1, <3>2
  <2>5. eliminations' \in [Accounts \cup {NoAccount} -> SUBSET Accounts]
    <3> DEFINE E == {Child(t, i) : i \in o.elim}
               payee == [g \in E |-> GetPayoutRecipient(t, sig[g])]
               owed(q) == {proposerOf[g] : g \in {h \in E : payee[h] = q}}
    <3>1. eliminations' = [q \in Accounts \cup {NoAccount} |-> eliminations[q] \cup owed(q)]
      BY DEF PruneStep, Eliminate
    <3>2. \A q : owed(q) \subseteq Accounts
      BY <1>3
    <3>3. \A q \in Accounts \cup {NoAccount} : eliminations[q] \subseteq Accounts
      BY <1>1 DEF TypeOK, TreasuryTypeOK
    <3> HIDE DEF owed
    <3> QED
      BY <3>1, <3>2, <3>3
  <2>6. TreasuryTypeOK'
    BY <1>1, <2>4, <2>5 DEF PruneStep, TypeOK, TreasuryTypeOK
  <2>7. TournamentTypeOK'
    BY <1>1, <2>3, CreatedAreGames DEF PruneStep, TypeOK, TournamentTypeOK, gameVars, proofVars
  <2> QED
    BY <1>1, <2>6, <2>7 DEF PruneStep, TypeOK
<1>5. Tree'
  BY <1>1, <1>2 DEF Tree, gameVars, Positions, ChildCount, Child
<1>6. Progression'
  BY <1>1, <1>2 DEF Progression, gameVars
<1>7. SoundProofs'
  BY <1>1, <1>2 DEF SoundProofs, proofVars
<1>8. Unstarted'
  BY <1>1 DEF Unstarted, PruneStep, TypeOK, TournamentTypeOK
<1>9. HonestNeverEliminated'
  <2> SUFFICES ASSUME NEW a \in Accounts, eliminationRound'[a] # 0
               PROVE  /\ proposerOf[eliminationRound'[a]] = a
                      /\ sig[eliminationRound'[a]] # ValidSig
                      /\ parent[eliminationRound'[a]] \in resolved'
    BY <1>2 DEF HonestNeverEliminated, gameVars
  <2>1. CASE eliminationRound'[a] = eliminationRound[a]
    BY <1>1, <2>1 DEF HonestNeverEliminated
  <2>2. CASE \E i \in o.elim : eliminationRound'[a] = Child(t, i) /\ proposerOf[Child(t, i)] = a
    BY <1>3, <2>2 DEF PruneStep
  <2> QED
    BY <2>1, <2>2, PruneRounds
<1>10. PruneProgress'
  BY <1>2, PruneProgressHere, PruneProgressElsewhere DEF PruneProgress
<1> QED
  BY <1>4, <1>5, <1>6, <1>7, <1>8, <1>9, <1>10 DEF IInv

LEMMA PruneChildrenIInv ==
  ASSUME IInv, NEW t \in Games, NEW k \in Nat, PruneChildren(t, k)
  PROVE  IInv'
<1>1. PICK o \in Outcomes(Tournament(t), k) : PruneStep(t, k, o)
  BY DEF PruneChildren, Prune, PruneStep
<1>2. /\ UNCHANGED <<resolved, lastResolved, parent, height, children>>
      /\ TypeOK /\ Tree
  BY DEF PruneChildren, IInv, gameVars
<1>3. \A g \in resolved : g # lastResolved => ContenderResolved(g)'
  <2> SUFFICES ASSUME NEW g \in resolved, g # lastResolved PROVE ContenderResolved(g)'
    OBVIOUS
  <2>1. ContenderResolved(g) /\ g \in Games
    BY <1>2 DEF IInv, ResolvedFormOneChain, TypeOK, TournamentTypeOK
  <2>2. contenderIndex'[g] = contenderIndex[g]
    <3>1. CASE g = t
      <4>1. Tournament(t).settled /\ Tournament(t).ci = contenderIndex[t]
        BY <1>2, <2>1, <3>1, TournamentFacts
      <4>2. o.ci = contenderIndex[t]
        BY <1>1, <4>1 DEF Outcomes
      <4> QED
        BY <1>1, <1>2, <3>1, <4>2 DEF PruneStep, TypeOK, TournamentTypeOK
    <3>2. CASE g # t
      BY <1>1, <1>2, <2>1, <3>2 DEF PruneStep, TypeOK, TournamentTypeOK
    <3> QED
      BY <3>1, <3>2
  <2> QED
    BY <1>2, <2>1, <2>2 DEF ContenderResolved, ChildCount, Child
<1>4. ResolvedFormOneChain'
  BY <1>2, <1>3 DEF IInv, ResolvedFormOneChain
<1>5. resolved \subseteq Created /\ lastResolved \in Games \cup {NoGame}
  BY <1>2 DEF Tree, TypeOK, TournamentTypeOK, TreasuryTypeOK
<1> QED
  BY <1>1, <1>2, <1>4, <1>5, PruneIInv

LEMMA ResolveIInv ==
  ASSUME IInv, NEW g \in Games, Resolve(g)
  PROVE  IInv'
<1>0. PICK t \in Games : t = parent[g]
  BY DEF IInv, TypeOK, TournamentTypeOK
<1> DEFINE k == 2 * ChildCount(t)
<1>1. /\ TypeOK /\ Tree /\ ResolvedFormOneChain
      /\ g # Root /\ g < gameCount /\ g \notin resolved
      /\ resolved' = resolved \cup {g} /\ lastResolved' = g
      /\ UNCHANGED <<parent, height, children>>
  BY DEF Resolve, IInv, gameVars
<1>2. /\ g \in Created /\ g \in Nat
      /\ height[g] = height[t] + 1 /\ height[t] \in Nat
  BY <1>0, <1>1, CreatedAreGames DEF Tree, TypeOK, TournamentTypeOK
<1>3. k \in Nat /\ k >= 2 * Tournament(t).n
  <2>1. ChildCount(t) \in Nat /\ Tournament(t).n = ChildCount(t)
    BY <1>1, TournamentFacts
  <2> QED
    BY <2>1
<1>4. PICK o \in Outcomes(Tournament(t), k) :
        /\ PruneStep(t, k, o)
        /\ g = IF o.ret = NoChild THEN NoGame ELSE Child(t, o.ret)
  <2>1. Prune(t, k, g)
    BY <1>0 DEF Resolve, ResolveSteps
  <2>2. UNCHANGED <<gameVars, children, proofVars, proposerOf, eliminationsPaid, paidBonds,
                    participationBond, lastProposal, vanguard, vanguardAdvantage, isLocked,
                    now>>
    BY DEF Resolve
  <2> HIDE DEF k
  <2> QED
    BY <2>1, <2>2 DEF Prune, PruneStep
<1>5. o.ret # NoChild /\ g = Child(t, o.ret)
  BY <1>2, <1>4 DEF NoGame
<1>6. ~ContenderResolved(t)
  <2> SUFFICES ASSUME ContenderResolved(t) PROVE FALSE
    OBVIOUS
  <2>1. Tournament(t).settled /\ Tournament(t).ci = contenderIndex[t]
    BY <1>1, <1>2, TournamentFacts
  <2>2. o.ret = contenderIndex[t]
    BY <1>4, <1>5, <2>1 DEF Outcomes
  <2> QED
    BY <1>1, <1>5, <2>2 DEF ContenderResolved
<1>7. t = lastResolved /\ t \in resolved
  BY <1>1, <1>4, <1>6, LiveIsLast DEF PruneStep
<1>8. o.ret = o.ci /\ o.ci \in 0..(ChildCount(t) - 1)
  <2>1. IsTournament(Tournament(t)) /\ Resumable(Tournament(t)) /\ ~Tournament(t).settled
    <3>1. t \in Created
      BY <1>1, <1>2, <1>7 DEF Tree
    <3> QED
      BY <1>1, <1>2, <1>6, <3>1, TournamentFacts DEF IInv, PruneProgress
  <2>2. o.ret = o.ci /\ o.ret \in 0..(Tournament(t).n - 1)
    BY <1>3, <1>4, <1>5, <2>1, ResolveNamesContender
  <2> QED
    BY <1>1, <1>2, <2>2, TournamentFacts
<1>9. ContenderResolved(t)'
  <2>1. contenderIndex'[t] = o.ci
    BY <1>1, <1>2, <1>4 DEF PruneStep, TypeOK, TournamentTypeOK
  <2>2. o.ci < ChildCount(t)
    BY <1>1, <1>8, TournamentFacts
  <2>3. Child(t, o.ci) \in resolved'
    BY <1>1, <1>5, <1>8
  <2> QED
    BY <1>1, <2>1, <2>2, <2>3 DEF ContenderResolved, ChildCount, Child
<1>10. \A h \in resolved : ContenderResolved(h)'
  <2> SUFFICES ASSUME NEW h \in resolved, h # t PROVE ContenderResolved(h)'
    BY <1>9
  <2>1. ContenderResolved(h) /\ h \in Games
    BY <1>1, <1>7 DEF ResolvedFormOneChain, TypeOK, TournamentTypeOK
  <2>2. contenderIndex'[h] = contenderIndex[h]
    BY <1>1, <1>4, <2>1 DEF PruneStep, TypeOK, TournamentTypeOK
  <2> QED
    BY <1>1, <2>1, <2>2 DEF ContenderResolved, ChildCount, Child
<1>11. \A h \in resolved : height[h] < height[g] /\ height[h] \in Nat
  <2> SUFFICES ASSUME NEW h \in resolved PROVE height[h] < height[g] /\ height[h] \in Nat
    OBVIOUS
  <2>1. height[h] \in Nat
    BY <1>1 DEF TypeOK, TournamentTypeOK
  <2>2. height[h] <= height[t]
    BY <1>1, <1>7 DEF ResolvedFormOneChain
  <2> QED
    BY <1>2, <2>1, <2>2
<1> HIDE DEF k
<1>12. ResolvedFormOneChain'
  <2>1. (resolved # {} => Root \in resolved)'
    BY <1>1, <1>7 DEF ResolvedFormOneChain
  <2>2. (\A h \in resolved : h # Root => parent[h] \in resolved)'
    BY <1>0, <1>1, <1>7 DEF ResolvedFormOneChain
  <2>3. (\A h, j \in resolved : height[h] = height[j] => h = j)'
    BY <1>1, <1>2, <1>11 DEF ResolvedFormOneChain
  <2>4. (\A h \in resolved : /\ lastResolved \in resolved
                             /\ height[h] <= height[lastResolved]
                             /\ h = lastResolved \/ ContenderResolved(h))'
    BY <1>1, <1>2, <1>10, <1>11
  <2> QED
    BY <2>1, <2>2, <2>3, <2>4 DEF ResolvedFormOneChain
<1>13. resolved \subseteq resolved' /\ resolved' \subseteq Created
  BY <1>1, <1>2 DEF Tree, TypeOK, TournamentTypeOK
<1> QED
  BY <1>1, <1>2, <1>3, <1>4, <1>12, <1>13, PruneIInv

LEMMA ResolveTreasuryIInv ==
  IInv /\ ResolveTreasury => IInv'
<1> SUFFICES ASSUME IInv, ResolveTreasury PROVE IInv'
  OBVIOUS
<1>1. TypeOK /\ Tree /\ Progression /\ SoundProofs /\ Unstarted /\ HonestNeverEliminated
  BY DEF IInv
<1>2. resolved = {} /\ resolved' = {Root} /\ lastResolved' = Root
  BY DEF IInv, ResolvedFormOneChain, ResolveTreasury
<1>3. /\ UNCHANGED <<gameVars, children, pruneVars, proofVars, proposerOf,
                      eliminationRound, lastProposal>>
      /\ Created' = Created /\ Root \in Created /\ Root \in Games
  BY <1>1, CreatedAreGames DEF ResolveTreasury, gameVars, Created
<1>4. TypeOK'
  BY <1>1, <1>2, <1>3 DEF ResolveTreasury, TypeOK, TreasuryTypeOK, TournamentTypeOK,
       gameVars, pruneVars, proofVars
<1>5. Tree'
  BY <1>1, <1>2, <1>3, ZenonT(60) DEF Tree, gameVars, Positions, ChildCount, Child
<1>6. Progression' /\ SoundProofs' /\ Unstarted'
  BY <1>1, <1>2, <1>3 DEF Progression, SoundProofs, Unstarted, gameVars, proofVars, pruneVars
<1>7. HonestNeverEliminated'
  BY <1>1, <1>2, <1>3 DEF HonestNeverEliminated, gameVars
<1>8. ResolvedFormOneChain'
  <2>1. height'[Root] <= height'[Root]
    BY <1>3, <1>4 DEF TypeOK, TournamentTypeOK
  <2> QED
    BY <1>2, <2>1 DEF ResolvedFormOneChain
<1>9. PruneProgress'
  BY <1>3, ProgressKept DEF PruneProgress, gameVars
<1> QED
  BY <1>4, <1>5, <1>6, <1>7, <1>8, <1>9 DEF IInv

-----------------------------------------------------------------------------
(***************************************************************************)
(* A proposal: game g = gameCount is added below t, at the end of its      *)
(* children.                                                               *)
(***************************************************************************)

\* What a proposal leaves as it was, and what it adds.
LEMMA ProposeEffect ==
  ASSUME IInv, NEW a \in Proposers, NEW t \in Games, NEW s \in Sigs, NEW d \in Games,
         NEW deposit \in Deposits, Propose(a, t, s, d, deposit)
  PROVE  /\ gameCount \in Games /\ t \in Created /\ a \in Accounts
         /\ gameCount \notin Created /\ Created' = Created \cup {gameCount}
         /\ \A h \in Created : /\ h < gameCount /\ h \in Nat
                               /\ parent'[h] = parent[h] /\ sig'[h] = sig[h]
                               /\ height'[h] = height[h]
                               /\ proposerOf'[h] = proposerOf[h]
         /\ parent'[gameCount] = t /\ sig'[gameCount] = s
         /\ height'[gameCount] = height[t] + 1 /\ proposerOf'[gameCount] = a
         /\ \A h \in Games : /\ h # t => children'[h] = children[h]
                             /\ h # gameCount => proposerOf'[h] = proposerOf[h]
         /\ children'[t] = Append(children[t], gameCount)
         /\ UNCHANGED <<resolved, lastResolved, eliminationRound, pruneVars, proofVars>>
<1>1. TypeOK /\ Created \subseteq Games /\ Games \subseteq Nat /\ gameCount \in Nat
      /\ \A h \in Games : h \in Created <=> h < gameCount
  BY CreatedAreGames DEF IInv
<1>2. gameCount < MaxGames /\ MaxGames \in Nat /\ gameCount' = gameCount + 1 /\ t < gameCount
  BY TreasuryAssumption DEF Propose, Initialize
<1>3. gameCount \in Games /\ gameCount \notin Created /\ Created' = Created \cup {gameCount}
  BY <1>1, <1>2 DEF Games, Created
<1>4. a \in Accounts /\ t \in Created
  BY <1>1, <1>2, ProtocolAssumption
<1>5. /\ parent' = [parent EXCEPT ![gameCount] = t]
      /\ sig' = [sig EXCEPT ![gameCount] = s]
      /\ height' = [height EXCEPT ![gameCount] = height[t] + 1]
      /\ proposerOf' = [proposerOf EXCEPT ![gameCount] = a]
      /\ children' = [children EXCEPT ![t] = Append(@, gameCount)]
      /\ UNCHANGED <<resolved, lastResolved, eliminationRound, pruneVars, proofVars>>
  BY DEF Propose, Initialize, RecordProposal
<1>6. \A h \in Created : h \in Games /\ h # gameCount /\ h < gameCount /\ h \in Nat
  BY <1>1, <1>3
<1> QED
  BY <1>1, <1>3, <1>4, <1>5, <1>6 DEF TypeOK, TreasuryTypeOK, TournamentTypeOK

\* The children of every tournament after a proposal.
LEMMA ProposeChildren ==
  ASSUME IInv, NEW a \in Proposers, NEW t \in Games, NEW s \in Sigs, NEW d \in Games,
         NEW deposit \in Deposits, Propose(a, t, s, d, deposit), NEW r \in Games
  PROVE  /\ ChildCount(r)' = ChildCount(r) + (IF r = t THEN 1 ELSE 0)
         /\ ChildCount(r) \in Nat
         /\ \A i \in Positions(r) : i \in Positions(r)' /\ Child(r, i)' = Child(r, i)
         /\ \A i \in Positions(r)' : i \in Positions(r) \/
              (r = t /\ i = ChildCount(r) /\ Child(r, i)' = gameCount)
<1>1. children[r] \in Seq(Games) /\ gameCount \in Games
  BY ProposeEffect DEF IInv, TypeOK, TournamentTypeOK
<1>2. CASE r = t
  <2>1. children'[r] = Append(children[r], gameCount)
    BY <1>2, ProposeEffect
  <2> DEFINE c == children[r]
  <2>2. /\ Len(Append(c, gameCount)) = Len(c) + 1 /\ Len(c) \in Nat
        /\ \A j \in 1..Len(c) : Append(c, gameCount)[j] = c[j]
        /\ Append(c, gameCount)[Len(c) + 1] = gameCount
    BY <1>1
  <2> HIDE DEF c
  <2>3. /\ ChildCount(r)' = Len(c) + 1 /\ ChildCount(r) = Len(c)
        /\ Positions(r)' = 0..Len(c) /\ Positions(r) = 0..(Len(c) - 1)
        /\ \A i : /\ Child(r, i) = c[i + 1]
                 /\ Child(r, i)' = Append(c, gameCount)[i + 1]
    BY <2>1, <2>2 DEF ChildCount, Positions, Child, c
  <2> QED
    BY <1>2, <2>2, <2>3
<1>3. CASE r # t
  <2>1. children'[r] = children[r]
    BY <1>3, ProposeEffect
  <2> QED
    BY <1>1, <1>3, <2>1 DEF ChildCount, Positions, Child
<1> QED
  BY <1>2, <1>3

LEMMA ProposeType ==
  ASSUME IInv, NEW a \in Proposers, NEW t \in Games, NEW s \in Sigs, NEW d \in Games,
         NEW deposit \in Deposits, Propose(a, t, s, d, deposit)
  PROVE  TypeOK'
<1>1. TypeOK /\ gameCount \in Games /\ a \in Accounts
  BY ProposeEffect DEF IInv
<1>2. gameCount' \in 1..MaxGames
  BY <1>1, TreasuryAssumption DEF Propose, Initialize, TypeOK, TournamentTypeOK
<1>3. d \in Nat /\ deposit \in Nat
  BY TreasuryAssumption DEF Games
<1>4. TreasuryTypeOK'
  BY <1>1, <1>3 DEF Propose, RecordProposal, TypeOK, TreasuryTypeOK
<1>5. children' \in [Games -> Seq(Games)]
  <2>1. children' = [children EXCEPT ![t] = Append(children[t], gameCount)]
    BY DEF Propose, Initialize
  <2>2. children \in [Games -> Seq(Games)]
    BY <1>1 DEF TypeOK, TournamentTypeOK
  <2>3. Append(children[t], gameCount) \in Seq(Games)
    BY <1>1, <2>2
  <2> QED
    BY <2>1, <2>2, <2>3
<1>6. /\ parent' \in [Games -> Games] /\ sig' \in [Games -> Sigs \cup {NoSig}]
      /\ dup' \in [Games -> Nat] /\ height' \in [Games -> Nat]
      /\ createdAt' \in [Games -> Nat]
  <2>1. /\ parent \in [Games -> Games] /\ sig \in [Games -> Sigs \cup {NoSig}]
        /\ dup \in [Games -> Nat] /\ height \in [Games -> Nat]
        /\ createdAt \in [Games -> Nat] /\ now \in Nat
    BY <1>1 DEF TypeOK, TournamentTypeOK
  <2>2. /\ parent' = [parent EXCEPT ![gameCount] = t]
        /\ sig' = [sig EXCEPT ![gameCount] = s]
        /\ dup' = [dup EXCEPT ![gameCount] = d]
        /\ height' = [height EXCEPT ![gameCount] = height[t] + 1]
        /\ createdAt' = [createdAt EXCEPT ![gameCount] = now]
    BY DEF Propose, Initialize
  <2>3. height[t] + 1 \in Nat
    BY <2>1
  <2> QED
    BY <1>1, <1>3, <2>1, <2>2, <2>3
<1>7. TournamentTypeOK'
  BY <1>1, <1>2, <1>5, <1>6 DEF Propose, Initialize, TypeOK, TournamentTypeOK, pruneVars, proofVars
<1> QED
  BY <1>1, <1>4, <1>7 DEF TypeOK, Propose

LEMMA ProposeTree ==
  ASSUME IInv, NEW a \in Proposers, NEW t \in Games, NEW s \in Sigs, NEW d \in Games,
         NEW deposit \in Deposits, Propose(a, t, s, d, deposit)
  PROVE  Tree'
<1>1. TypeOK /\ Tree /\ Root \in Created
  BY CreatedAreGames DEF IInv
<1>2. parent'[Root] = Root /\ height'[Root] = 0
  BY <1>1, ProposeEffect DEF Tree
<1>3. \A g \in Created' : proposerOf'[g] \in Accounts
  BY <1>1, ProposeEffect DEF Tree
<1>4. ASSUME NEW g \in Created', g # Root
      PROVE  /\ parent'[g] \in Created' /\ sig'[g] \in Sigs
             /\ height'[g] = height'[parent'[g]] + 1
  <2>1. CASE g = gameCount
    BY <2>1, ProposeEffect
  <2>2. CASE g \in Created
    <3>1. parent[g] \in Created /\ sig[g] \in Sigs /\ height[g] = height[parent[g]] + 1
      BY <1>1, <1>4, <2>2 DEF Tree
    <3> QED
      BY <2>2, <3>1, ProposeEffect
  <2> QED
    BY <1>4, <2>1, <2>2, ProposeEffect
<1>5. ASSUME NEW g \in Games, g \notin Created'
      PROVE  proposerOf'[g] = NoAccount /\ children'[g] = <<>> /\ g \notin resolved'
  <2>1. g \notin Created /\ g # gameCount /\ g # t
    BY <1>5, ProposeEffect
  <2> QED
    BY <1>1, <2>1, ProposeEffect DEF Tree
<1>6. ASSUME NEW r \in Games, NEW i \in Positions(r)'
      PROVE  Child(r, i)' \in Created' \ {Root} /\ parent'[Child(r, i)'] = r
  <2>1. CASE i \in Positions(r)
    <3>1. Child(r, i)' = Child(r, i)
      BY <2>1, ProposeChildren
    <3>2. Child(r, i) \in Created \ {Root} /\ parent[Child(r, i)] = r
      BY <1>1, <2>1, ChildFacts
    <3> QED
      BY <3>1, <3>2, ProposeEffect
  <2>2. CASE r = t /\ Child(r, i)' = gameCount
    <3>1. gameCount # Root
      BY <1>1, ProposeEffect
    <3> QED
      BY <2>2, <3>1, ProposeEffect
  <2> QED
    BY <2>1, <2>2, ProposeChildren
<1>7. ASSUME NEW r \in Games, NEW i \in Positions(r)', NEW j \in Positions(r)', i < j
      PROVE  Child(r, i)' < Child(r, j)'
  <2>1. ChildCount(r) \in Nat
    BY ProposeChildren
  <2>2. i \in Positions(r)
    <3>1. i \in Positions(r) \/ i = ChildCount(r)
      BY ProposeChildren
    <3>2. j \in Positions(r) \/ j = ChildCount(r)
      BY ProposeChildren
    <3> QED
      BY <1>7, <2>1, <3>1, <3>2 DEF Positions
  <2>3. Child(r, i)' = Child(r, i) /\ Child(r, i) \in Created
    BY <1>1, <2>2, ProposeChildren, ChildFacts
  <2>4. CASE j \in Positions(r)
    <3>1. Child(r, j)' = Child(r, j)
      BY <2>4, ProposeChildren
    <3> QED
      BY <1>1, <1>7, <2>2, <2>3, <2>4, <3>1 DEF Tree
  <2>5. CASE Child(r, j)' = gameCount
    BY <2>3, <2>5, ProposeEffect
  <2> QED
    BY <2>4, <2>5, ProposeChildren
<1> QED
  BY <1>2, <1>3, <1>4, <1>5, <1>6, <1>7 DEF Tree

\* The new game is higher than every earlier one of its proposer.
LEMMA ProposeProgression ==
  ASSUME IInv, NEW a \in Proposers, NEW t \in Games, NEW s \in Sigs, NEW d \in Games,
         NEW deposit \in Deposits, Propose(a, t, s, d, deposit)
  PROVE  Progression'
<1>1. TypeOK /\ Tree /\ Progression
  BY DEF IInv
<1>2. a \in Accounts /\ gameCount \in Nat /\ gameCount \in Games /\ gameCount # NoGame
  BY <1>1, ProposeEffect, CreatedAreGames DEF NoGame
<1>3. \A b \in Accounts : lastProposal'[b] = IF b = a THEN gameCount ELSE lastProposal[b]
  BY <1>1 DEF Propose, RecordProposal, TypeOK, TreasuryTypeOK
<1>4. ASSUME NEW b \in Accounts, lastProposal'[b] # NoGame
      PROVE  lastProposal'[b] \in Created' /\ proposerOf'[lastProposal'[b]] = b
  <2>1. CASE b = a
    BY <1>3, <2>1, ProposeEffect
  <2>2. CASE b # a
    BY <1>1, <1>3, <1>4, <2>2, ProposeEffect DEF Progression
  <2> QED
    BY <2>1, <2>2
<1>5. ASSUME NEW g \in Created'
      PROVE  lastProposal'[proposerOf'[g]] # NoGame /\ g <= lastProposal'[proposerOf'[g]]
  <2>1. CASE g = gameCount
    BY <1>2, <1>3, <2>1, ProposeEffect
  <2>2. CASE g \in Created
    <3>1. proposerOf'[g] = proposerOf[g] /\ proposerOf[g] \in Accounts /\ g < gameCount
          /\ g \in Nat
      BY <1>1, <2>2, ProposeEffect DEF Tree
    <3>2. lastProposal[proposerOf[g]] # NoGame /\ g <= lastProposal[proposerOf[g]]
      BY <1>1, <2>2 DEF Progression
    <3> QED
      BY <1>2, <1>3, <3>1, <3>2
  <2> QED
    BY <2>1, <2>2, ProposeEffect
<1>6. ASSUME NEW g \in Created, proposerOf[g] = a
      PROVE  height[g] < height[t] + 1
  <2> DEFINE l == lastProposal[a]
  <2>1. l # NoGame /\ g <= l /\ l \in Created /\ proposerOf[l] = a
    BY <1>1, <1>2, <1>6 DEF Progression
  <2>2. height[l] < height[t] + 1
    BY <2>1 DEF Propose, Incremental
  <2>3. height[g] \in Nat /\ height[l] \in Nat /\ height[t] \in Nat /\ g \in Nat /\ l \in Nat
    BY <1>1, <2>1, CreatedAreGames DEF TypeOK, TournamentTypeOK
  <2>4. height[g] <= height[l]
    <3>1. CASE g = l
      BY <2>3, <3>1
    <3>2. CASE g < l
      BY <1>1, <1>6, <2>1, <2>3, <3>2 DEF Progression
    <3> QED
      BY <2>1, <2>3, <3>1, <3>2
  <2> QED
    BY <2>2, <2>3, <2>4
<1>7. ASSUME NEW g \in Created', NEW h \in Created', proposerOf'[g] = proposerOf'[h], g < h
      PROVE  height'[g] < height'[h]
  <2>1. CASE g \in Created /\ h \in Created
    BY <1>1, <1>7, <2>1, ProposeEffect DEF Progression
  <2>2. CASE g \in Created /\ h = gameCount
    BY <1>6, <1>7, <2>2, ProposeEffect
  <2>3. g \in Created
    BY <1>2, <1>7, ProposeEffect
  <2> QED
    BY <2>1, <2>2, <2>3, ProposeEffect
<1> QED
  BY <1>4, <1>5, <1>7 DEF Progression

\* Pruning progress survives: the new child comes after all that was processed.
LEMMA ProposeProgress ==
  ASSUME IInv, NEW a \in Proposers, NEW t \in Games, NEW s \in Sigs, NEW d \in Games,
         NEW deposit \in Deposits, Propose(a, t, s, d, deposit), NEW r \in Created'
  PROVE  Resumable(Tournament(r))'
<1> DEFINE S == Tournament(r)'
<1>1. TypeOK /\ Tree
  BY DEF IInv
<1>2. CASE r = gameCount
  <2>1. r \in Games /\ r \notin Created /\ r # t
    BY <1>2, ProposeEffect
  <2>2. children'[r] = <<>> /\ r \notin resolved
    BY <1>1, <2>1, ProposeEffect DEF Tree
  <2>3. contenderIndex'[r] = 0 /\ opponentIndex'[r] = 0 /\ contenderDuplicates'[r] = {}
    BY <2>1, <2>2, ProposeEffect DEF IInv, Unstarted, pruneVars
  <2>4. S.n = 0 /\ S.ci = 0 /\ S.oi = 0 /\ S.dups = {}
    BY <2>2, <2>3, NextTournament DEF ChildCount
  <2> HIDE DEF S
  <2>5. Resumable(S)
    BY <2>4 DEF Resumable
  <2> QED
    BY <2>5 DEF S
<1>3. CASE r \in Created
  <2> DEFINE T == Tournament(r)
  <2>1. r \in Games /\ Resumable(T)
    BY <1>1, <1>3, CreatedAreGames DEF IInv, PruneProgress
  <2>2. /\ S.n \in Nat /\ T.n \in Nat /\ S.n >= T.n /\ S.ci = T.ci /\ S.oi = T.oi
        /\ S.dups = T.dups /\ 0..(T.n - 1) = Positions(r)
    BY <1>1, <2>1, TournamentFacts, NextTournament, ProposeChildren, ProposeEffect
    DEF pruneVars
  <2>3. ASSUME NEW i \in Positions(r)
        PROVE  S.sig[i] = T.sig[i] /\ S.out[i] = T.out[i]
    <3>1. i \in Positions(r)' /\ Child(r, i)' = Child(r, i)
      BY <2>1, ProposeChildren
    <3>2. Child(r, i) \in Created
      BY <1>1, <2>1, ChildFacts
    <3>3. S.sig[i] = sig'[Child(r, i)'] /\ S.out[i] = IsChildEliminated(Child(r, i))'
      BY <3>1, NextTournament
    <3>4. T.sig[i] = sig[Child(r, i)] /\ T.out[i] = IsChildEliminated(Child(r, i))
      BY <1>1, <2>1, TournamentFacts
    <3>5. IsChildEliminated(Child(r, i))' = IsChildEliminated(Child(r, i))
      BY <3>1, <3>2, ProposeEffect DEF IsChildEliminated
    <3> QED
      BY <3>1, <3>2, <3>3, <3>4, <3>5, ProposeEffect
  <2>4. T.dups # {} => ~T.out[T.ci] /\ T.ci \in Positions(r)
    BY <2>1, <2>2 DEF Resumable
  <2> HIDE DEF S, T
  <2>5. Resumable(S)
    BY <2>1, <2>2, <2>3, <2>4, ResumableKept
  <2> QED
    BY <2>5 DEF S
<1> QED
  BY <1>2, <1>3, ProposeEffect

LEMMA ProposeIInv ==
  ASSUME IInv, NEW a \in Proposers, NEW t \in Games, NEW s \in Sigs, NEW d \in Games,
         NEW deposit \in Deposits, Propose(a, t, s, d, deposit)
  PROVE  IInv'
<1>1. TypeOK /\ Tree /\ SoundProofs /\ Unstarted /\ HonestNeverEliminated
      /\ ResolvedFormOneChain
  BY DEF IInv
<1>2. SoundProofs' /\ Unstarted'
  BY <1>1, ProposeEffect DEF SoundProofs, Unstarted, pruneVars, proofVars
<1>3. resolved \subseteq Created
  BY <1>1 DEF Tree, TypeOK, TournamentTypeOK
<1>4. ResolvedFormOneChain'
  <2>1. \A g \in resolved : ContenderResolved(g) => ContenderResolved(g)'
    <3> SUFFICES ASSUME NEW g \in resolved, ContenderResolved(g)
                 PROVE  ContenderResolved(g)'
      OBVIOUS
    <3>1. g \in Games /\ contenderIndex'[g] = contenderIndex[g] /\ resolved' = resolved
          /\ contenderIndex[g] \in Nat
      BY <1>1, ProposeEffect DEF TypeOK, TournamentTypeOK, pruneVars
    <3>2. contenderIndex[g] \in Positions(g) /\ ChildCount(g) \in Nat
      BY <3>1, ProposeChildren DEF ContenderResolved, Positions
    <3>3. PICK i \in Positions(g) : i = contenderIndex[g]
      BY <3>2
    <3>4. Child(g, i)' = Child(g, i)
      BY <3>1, ProposeChildren
    <3>5. ChildCount(g)' \in {ChildCount(g), ChildCount(g) + 1}
      BY <3>1, <3>2, ProposeChildren
    <3>6. Child(g, i) \in resolved /\ i < ChildCount(g)
      BY <3>3 DEF ContenderResolved
    <3>7. children'[g][i + 1] \in resolved' /\ i < ChildCount(g)'
      BY <3>1, <3>2, <3>3, <3>4, <3>5, <3>6 DEF Child
    <3> QED
      BY <3>1, <3>3, <3>7 DEF ContenderResolved, Child
  <2> QED
    BY <1>1, <1>3, <2>1, ProposeEffect DEF ResolvedFormOneChain
<1>5. HonestNeverEliminated'
  <2> SUFFICES ASSUME NEW b \in Accounts, eliminationRound[b] # 0
               PROVE  LET g == eliminationRound[b] IN
                        proposerOf'[g] = b /\ sig'[g] # ValidSig /\ parent'[g] \in resolved
    BY ProposeEffect DEF HonestNeverEliminated
  <2> DEFINE g == eliminationRound[b]
  <2>1. proposerOf[g] = b /\ sig[g] # ValidSig /\ parent[g] \in resolved
    BY <1>1 DEF HonestNeverEliminated
  <2>2. g \in Created
    BY <1>1, <2>1, TreasuryAssumption DEF Tree, TypeOK, TreasuryTypeOK
  <2> QED
    BY <2>1, <2>2, ProposeEffect
<1>6. PruneProgress'
  BY ProposeProgress DEF PruneProgress
<1> QED
  BY <1>2, <1>4, <1>5, <1>6, ProposeType, ProposeTree, ProposeProgression DEF IInv

-----------------------------------------------------------------------------
(***************************************************************************)
(* The theorems.                                                           *)
(***************************************************************************)

\* Every step of the protocol, whoever takes it, keeps IInv.
LEMMA NextIInv ==
  IInv /\ [Next]_vars => IInv'
<1> SUFFICES ASSUME IInv, [Next]_vars PROVE IInv'
  OBVIOUS
<1>1. ASSUME NEW a \in Proposers, NEW t \in Games, NEW s \in Sigs, NEW d \in Games,
             NEW v \in Deposits, Propose(a, t, s, d, v)
      PROVE  IInv'
  BY <1>1, ProposeIInv
<1>2. ASSUME NEW t \in Games, NEW q \in Provers, NEW i \in Positions(t), Prove(t, i, q)
      PROVE  IInv'
  BY <1>2, ProveIInv
<1>3. ASSUME NEW t \in Games, NEW k \in 0..MaxSteps, PruneChildren(t, k)
      PROVE  IInv'
  <2>1. k \in Nat
    BY ProtocolAssumption
  <2> QED
    BY <1>3, <2>1, PruneChildrenIInv
<1>4. ASSUME NEW g \in Games, Resolve(g)
      PROVE  IInv'
  BY <1>4, ResolveIInv
<1>5. CASE ResolveTreasury
  BY <1>5, ResolveTreasuryIInv
<1>6. CASE TreasuryCall
  BY <1>6, TreasuryCallIInv
<1>7. CASE Tick \/ UNCHANGED vars
  BY <1>7, TickIInv
<1> QED
  BY <1>1, <1>2, <1>3, <1>4, <1>5, <1>6, <1>7 DEF Next

\* The inductive invariant holds in every reachable state.
THEOREM Invariance ==
  Spec => []IInv
BY InitIInv, NextIInv, PTL DEF Spec

\* Every variable keeps the range the contracts' storage types give it.
THEOREM TypeCorrectness ==
  Spec => []TypeOK
<1>1. IInv => TypeOK
  BY DEF IInv
<1> QED
  BY <1>1, Invariance, PTL

\* The games resolve() made final are one chain, whatever proposals, proofs and
\* partial prunings happened around them.
THEOREM OneFinalChain ==
  Spec => []ResolvedFormOneChain
<1>1. IInv => ResolvedFormOneChain
  BY DEF IInv
<1> QED
  BY <1>1, Invariance, PTL

\* No sequence of transactions gets a proposer of correct proposals eliminated, as
\* long as the verifier accepts no proof of a false statement.
THEOREM HonestProposersSafe ==
  Spec => []HonestNeverEliminated
<1>1. IInv => HonestNeverEliminated
  BY DEF IInv
<1> QED
  BY <1>1, Invariance, PTL

\* pruneChildren always finds the progress its comments promise it.
THEOREM ProgressAlwaysResumable ==
  Spec => []PruneProgress
<1>1. IInv => PruneProgress
  BY DEF IInv
<1> QED
  BY <1>1, Invariance, PTL

\* eliminate() never reverts under pruneChildren: the proposer of a child in play was
\* not eliminated for a later game, since that would need a higher resolved game.
THEOREM EliminateNeverReverts ==
  Spec => []EliminateNeverBlocks
<1>1. IInv => EliminateNeverBlocks
  <2> SUFFICES ASSUME IInv, NEW t \in resolved, ~ContenderResolved(t),
                      NEW i \in Positions(t), NEW j \in Positions(t)
               PROVE  /\ ~IsChildEliminated(Child(t, i)) =>
                           eliminationRound[proposerOf[Child(t, i)]] = 0
                      /\ i # j => proposerOf[Child(t, i)] # proposerOf[Child(t, j)]
    BY DEF EliminateNeverBlocks
  <2>1. /\ TypeOK /\ Tree /\ Progression /\ HonestNeverEliminated
        /\ t \in Games /\ t = lastResolved /\ height[t] \in Nat
    BY LiveIsLast DEF IInv, TypeOK, TournamentTypeOK
  <2> DEFINE c == Child(t, i)
             a == proposerOf[c]
             e == eliminationRound[a]
  <2>2. c \in Created /\ c \in Nat /\ a \in Accounts /\ height[c] = height[t] + 1
    BY <2>1, ChildFacts, CreatedAreGames
  <2>3. ASSUME ~IsChildEliminated(c), e # 0 PROVE FALSE
    <3>1. e \in Games /\ e \in Nat /\ proposerOf[e] = a /\ parent[e] \in resolved
      BY <2>1, <2>2, <2>3, CreatedAreGames DEF HonestNeverEliminated, TypeOK, TreasuryTypeOK
    <3>2. e \in Created /\ e # Root /\ a # NoAccount
      BY <2>1, <2>2, <2>3, <3>1, TreasuryAssumption DEF Tree, Root
    <3>3. c < e
      BY <2>2, <2>3, <3>1, <3>2 DEF IsChildEliminated
    <3>4. height[c] < height[e]
      BY <2>1, <2>2, <3>1, <3>2, <3>3 DEF Progression
    <3>5. height[e] = height[parent[e]] + 1 /\ height[parent[e]] \in Nat
      BY <2>1, <3>2, CreatedAreGames DEF Tree, TypeOK, TournamentTypeOK
    <3>6. height[parent[e]] <= height[t]
      BY <2>1, <3>1 DEF IInv, ResolvedFormOneChain
    <3> QED
      BY <2>1, <2>2, <3>4, <3>5, <3>6
  <2>4. ASSUME i # j, proposerOf[Child(t, i)] = proposerOf[Child(t, j)] PROVE FALSE
    <3>1. Child(t, i) = Child(t, j)
      BY <2>1, <2>4, ChildFacts, OneGamePerHeight
    <3> QED
      BY <2>1, <2>4, <3>1, ChildInjective
  <2> QED
    BY <2>3, <2>4
<1> QED
  BY <1>1, Invariance, PTL

-----------------------------------------------------------------------------
(***************************************************************************)
(* Decisions stay: once resolve() made a child final, its tournament does  *)
(* not change any more.  An action property, from IInv.                    *)
(***************************************************************************)

\* One tournament of FinalityStep.
Closed(t) ==
  /\ children'[t] = children[t]
  /\ contenderIndex'[t] = contenderIndex[t]
  /\ contenderDuplicates'[t] = contenderDuplicates[t]
  /\ validChildSignature'[t] = validChildSignature[t]
  /\ proofStatus'[t] = proofStatus[t]
  /\ \A a \in Accounts : eliminationRound[a] = 0 /\ eliminationRound'[a] # 0 =>
       parent[eliminationRound'[a]] # t
  /\ Child(t, contenderIndex[t]) \in resolved'

\* Transactions that touch neither tournaments nor eliminations.
LEMMA QuietClosed ==
  ASSUME NEW t \in Created, ContenderResolved(t), TreasuryCall \/ Tick \/ ResolveTreasury
  PROVE  Closed(t)
<1>1. /\ UNCHANGED <<children, pruneVars, proofVars>>
      /\ resolved \subseteq resolved' /\ eliminationRound' = eliminationRound
  BY DEF TreasuryCall, ClaimProposerBond, ClaimEliminationBonds, PayReturns,
       SetParticipationBond, AssignVanguard, Tick, ResolveTreasury, treasuryVars, tournamentVars
<1>2. Child(t, contenderIndex[t]) \in resolved
  BY DEF ContenderResolved
<1> QED
  BY <1>1, <1>2 DEF Closed, pruneVars, proofVars

\* Proofs are taken in undecided tournaments only.
LEMMA ProveClosed ==
  ASSUME IInv, NEW t \in Created, ContenderResolved(t),
         NEW r \in Games, NEW q \in Provers, NEW i \in Positions(r), Prove(r, i, q)
  PROVE  Closed(t)
<1>1. r # t /\ t \in Games
  BY CreatedAreGames DEF IInv, Prove, ProveValidity, ProveOutputFault, ProveTrailFault, Provable
<1>2. UNCHANGED <<treasuryVars, gameVars, resolved, children, pruneVars>>
  BY DEF Prove, ProveValidity, ProveOutputFault, ProveTrailFault
<1>3. proofStatus'[t] = proofStatus[t] /\ validChildSignature'[t] = validChildSignature[t]
  BY <1>1 DEF Prove, ProveValidity, ProveOutputFault, ProveTrailFault, UpdateProofStatus,
       IInv, TypeOK, TournamentTypeOK
<1>4. Child(t, contenderIndex[t]) \in resolved
  BY DEF ContenderResolved
<1> QED
  BY <1>2, <1>3, <1>4 DEF Closed, treasuryVars, pruneVars

\* So are proposals.
LEMMA ProposeClosed ==
  ASSUME IInv, NEW t \in Created, ContenderResolved(t),
         NEW a \in Proposers, NEW r \in Games, NEW s \in Sigs, NEW d \in Games,
         NEW deposit \in Deposits, Propose(a, r, s, d, deposit)
  PROVE  Closed(t)
<1>1. r # t /\ t \in Games
  BY CreatedAreGames DEF IInv, Propose, Initialize
<1>2. /\ children'[t] = children[t]
      /\ UNCHANGED <<resolved, eliminationRound, pruneVars, proofVars>>
  BY <1>1, ProposeEffect
<1>3. Child(t, contenderIndex[t]) \in resolved
  BY DEF ContenderResolved
<1> QED
  BY <1>2, <1>3 DEF Closed, pruneVars, proofVars

\* pruneChildren finds the contender resolved and returns early; the eliminations it
\* makes elsewhere are of children of the live tournament.
LEMMA PruneClosed ==
  ASSUME IInv, NEW t \in Created, ContenderResolved(t),
         NEW r \in Games, NEW k \in Nat, NEW o, PruneStep(r, k, o),
         resolved \subseteq resolved'
  PROVE  Closed(t)
<1>1. TypeOK /\ Tree /\ t \in Games
  BY CreatedAreGames DEF IInv
<1>2. UNCHANGED <<children, proofVars>>
  BY DEF PruneStep
<1>3. r = t => o.ci = contenderIndex[t] /\ o.dups = contenderDuplicates[t]
  <2>1. r = t => Tournament(r).settled
    BY <1>1, TournamentFacts
  <2> QED
    BY <1>1, <2>1, TournamentFacts DEF PruneStep, Outcomes
<1>4. /\ contenderIndex'[t] = contenderIndex[t]
      /\ contenderDuplicates'[t] = contenderDuplicates[t]
  BY <1>1, <1>3 DEF PruneStep, TypeOK, TournamentTypeOK
<1>5. ASSUME NEW a \in Accounts, eliminationRound[a] = 0, eliminationRound'[a] # 0
      PROVE  parent[eliminationRound'[a]] # t
  <2>1. PICK i \in o.elim : eliminationRound'[a] = Child(r, i)
    BY <1>5, PruneRounds
  <2>2. i \in Positions(r)
    BY PruneEliminates
  <2>3. parent[Child(r, i)] = r
    BY <1>1, <2>2, ChildFacts
  <2>4. r # t
    <3>1. Tournament(r).settled => o.elim = {}
      BY DEF PruneStep, Outcomes
    <3> QED
      BY <1>1, <2>1, <3>1, TournamentFacts
  <2> QED
    BY <2>1, <2>3, <2>4
<1>6. Child(t, contenderIndex[t]) \in resolved
  BY DEF ContenderResolved
<1> QED
  BY <1>2, <1>4, <1>5, <1>6 DEF Closed, proofVars

\* resolve() prunes the parent of its game, and adds that game to the final ones.
LEMMA ResolvePrunes ==
  ASSUME IInv, NEW g \in Games, Resolve(g)
  PROVE  \E k \in Nat, o \in Outcomes(Tournament(parent[g]), ResolveSteps(parent[g])) :
           /\ k = ResolveSteps(parent[g]) /\ k >= 2 * ChildCount(parent[g])
           /\ parent[g] \in Games
           /\ PruneStep(parent[g], k, o)
           /\ o.ret # NoChild /\ g = Child(parent[g], o.ret)
<1>1. TypeOK /\ Tree /\ parent[g] \in Games /\ g \in Nat
  BY CreatedAreGames DEF IInv, TypeOK, TournamentTypeOK
<1>2. PICK t \in Games : t = parent[g]
  BY <1>1
<1>3. ChildCount(t) \in Nat
  BY <1>1, TournamentFacts
<1>4. PICK k \in Nat : k = ResolveSteps(t) /\ k >= 2 * ChildCount(t)
  BY <1>3 DEF ResolveSteps
<1>5. Prune(t, k, g)
  BY <1>2, <1>4 DEF Resolve
<1>6. UNCHANGED <<gameVars, children, proofVars, proposerOf, eliminationsPaid, paidBonds,
                  participationBond, lastProposal, vanguard, vanguardAdvantage, isLocked, now>>
  BY DEF Resolve
<1>7. PICK o \in Outcomes(Tournament(t), k) :
        /\ PruneStep(t, k, o)
        /\ g = IF o.ret = NoChild THEN NoGame ELSE Child(t, o.ret)
  BY <1>5, <1>6 DEF Prune, PruneStep
<1>8. o.ret # NoChild /\ g = Child(t, o.ret)
  BY <1>1, <1>7 DEF NoGame
<1> QED
  BY <1>2, <1>4, <1>7, <1>8

\* The step fact behind DecisionIsFinal.
LEMMA NextIsFinal ==
  ASSUME IInv, Next
  PROVE  FinalityStep
<1> SUFFICES ASSUME NEW t \in Created, ContenderResolved(t) PROVE Closed(t)
  BY DEF FinalityStep, Closed
<1>1. ASSUME NEW a \in Proposers, NEW r \in Games, NEW s \in Sigs, NEW d \in Games,
             NEW v \in Deposits, Propose(a, r, s, d, v)
      PROVE  Closed(t)
  BY <1>1, ProposeClosed
<1>2. ASSUME NEW r \in Games, NEW q \in Provers, NEW i \in Positions(r), Prove(r, i, q)
      PROVE  Closed(t)
  BY <1>2, ProveClosed
<1>3. ASSUME NEW r \in Games, NEW k \in 0..MaxSteps, PruneChildren(r, k)
      PROVE  Closed(t)
  <2>1. k \in Nat /\ resolved' = resolved
    BY <1>3, ProtocolAssumption DEF PruneChildren
  <2>2. PICK o : PruneStep(r, k, o)
    BY <1>3 DEF PruneChildren, Prune, PruneStep
  <2> QED
    BY <2>1, <2>2, PruneClosed
<1>4. ASSUME NEW g \in Games, Resolve(g)
      PROVE  Closed(t)
  <2>1. PICK k, o : k \in Nat /\ PruneStep(parent[g], k, o) /\ parent[g] \in Games
    BY <1>4, ResolvePrunes
  <2>2. resolved \subseteq resolved'
    BY <1>4 DEF Resolve
  <2> QED
    BY <2>1, <2>2, PruneClosed
<1>5. CASE TreasuryCall \/ Tick \/ ResolveTreasury
  BY <1>5, QuietClosed
<1> QED
  BY <1>1, <1>2, <1>3, <1>4, <1>5 DEF Next

\* "Ensure survivor decision finality after resolution" (KailuaTournament): no
\* transaction of anyone changes a tournament once a child of it is final.
THEOREM DecisionsStay ==
  Spec => DecisionIsFinal
<1>1. ASSUME IInv, [Next]_vars PROVE [FinalityStep]_vars
  BY <1>1, NextIsFinal
<1> QED
  BY <1>1, Invariance, PTL DEF Spec, DecisionIsFinal

-----------------------------------------------------------------------------
(***************************************************************************)
(* The sole survivor.  FinalInv is inductive: a resolution makes its game  *)
(* the sole survivor, and since decisions stay it remains that.            *)
(***************************************************************************)
FinalInv == IInv /\ Clocks /\ ResolvedIsSoleSurvivor

\* One game of ResolvedIsSoleSurvivor.
SoleSurvivor(g) ==
  LET t == parent[g] IN
    /\ IsViableSignature(t, sig[g]) /\ ~IsChildEliminated(g)
    /\ \A i \in Positions(t) : LET c == Child(t, i) IN
         \/ IsChildEliminated(c)
         \/ sig[c] = sig[g]
         \/ c > g /\ createdAt[c] - createdAt[g] >= MaxClock

\* Block timestamps do not go back, and new games get the current one.
LEMMA ClocksKept ==
  ASSUME IInv, Clocks, [Next]_vars
  PROVE  Clocks'
<1>1. TypeOK /\ now \in Nat /\ Created \subseteq Games /\ Games \subseteq Nat
      /\ createdAt \in [Games -> Nat]
  BY CreatedAreGames DEF IInv, TypeOK, TournamentTypeOK
<1>2. ASSUME NEW a \in Proposers, NEW t \in Games, NEW s \in Sigs, NEW d \in Games,
             NEW v \in Deposits, Propose(a, t, s, d, v)
      PROVE  Clocks'
  <2>1. /\ gameCount \in Games /\ Created' = Created \cup {gameCount}
        /\ \A h \in Created : h < gameCount
    BY <1>2, ProposeEffect
  <2>2. createdAt' = [createdAt EXCEPT ![gameCount] = now] /\ now' = now
    BY <1>2 DEF Propose, Initialize
  <2>3. createdAt'[gameCount] = now /\ \A h \in Created : createdAt'[h] = createdAt[h]
    BY <1>1, <2>1, <2>2
  <2>4. \A g \in Created' : createdAt'[g] <= now'
    BY <1>1, <2>1, <2>2, <2>3 DEF Clocks
  <2>5. ASSUME NEW g \in Created', NEW h \in Created', g < h
        PROVE  createdAt'[g] <= createdAt'[h]
    <3>1. g \in Created
      BY <1>1, <2>1, <2>5
    <3>2. CASE h = gameCount
      BY <2>3, <3>1, <3>2 DEF Clocks
    <3>3. CASE h \in Created
      BY <2>3, <2>5, <3>1, <3>3 DEF Clocks
    <3> QED
      BY <2>1, <3>2, <3>3
  <2> QED
    BY <2>4, <2>5 DEF Clocks
<1>3. CASE Tick
  <2>1. createdAt' = createdAt /\ Created' = Created /\ now' = now + 1
    BY <1>3 DEF Tick, tournamentVars, gameVars, Created
  <2>2. \A g \in Created : createdAt[g] <= now + 1
    BY <1>1 DEF Clocks
  <2> QED
    BY <2>1, <2>2 DEF Clocks
<1>4. ASSUME UNCHANGED <<gameVars, now>> PROVE Clocks'
  BY <1>4 DEF Clocks, gameVars, Created
<1>5. ASSUME NEW t \in Games, NEW q \in Provers, NEW i \in Positions(t), Prove(t, i, q)
      PROVE  UNCHANGED <<gameVars, now>>
  BY <1>5 DEF Prove, ProveValidity, ProveOutputFault, ProveTrailFault
<1>6. ASSUME NEW t \in Games, NEW k \in 0..MaxSteps, PruneChildren(t, k)
      PROVE  UNCHANGED <<gameVars, now>>
  BY <1>6 DEF PruneChildren
<1>7. ASSUME NEW g \in Games, Resolve(g) PROVE UNCHANGED <<gameVars, now>>
  BY <1>7 DEF Resolve
<1>8. ASSUME ResolveTreasury \/ TreasuryCall \/ UNCHANGED vars
      PROVE  UNCHANGED <<gameVars, now>>
  BY <1>8 DEF ResolveTreasury, TreasuryCall, tournamentVars, vars
<1> QED
  BY <1>2, <1>3, <1>4, <1>5, <1>6, <1>7, <1>8 DEF Next

\* A final game is the contender of its tournament, which is decided.
LEMMA FinalIsContender ==
  ASSUME IInv, NEW g \in resolved, g # Root
  PROVE  /\ parent[g] \in Created /\ parent[g] \in Games /\ g \in Created
         /\ ContenderResolved(parent[g])
         /\ height[g] <= height[lastResolved] /\ height[g] \in Nat
<1>1. TypeOK /\ Tree /\ ResolvedFormOneChain /\ g \in Games
  BY DEF IInv, TypeOK, TournamentTypeOK
<1>2. g \in Created /\ parent[g] \in Created /\ parent[g] \in Games
      /\ height[g] = height[parent[g]] + 1
  BY <1>1, CreatedAreGames DEF Tree
<1>3. parent[g] \in resolved /\ height[g] <= height[lastResolved]
  BY <1>1 DEF ResolvedFormOneChain
<1>4. height[g] \in Nat /\ height[parent[g]] \in Nat
  BY <1>1, <1>2 DEF TypeOK, TournamentTypeOK
<1>5. parent[g] # lastResolved
  BY <1>2, <1>3, <1>4
<1>6. ContenderResolved(parent[g])
  BY <1>1, <1>3, <1>5 DEF ResolvedFormOneChain
<1> QED
  BY <1>2, <1>3, <1>4, <1>6

\* Elimination rounds are never taken back, and a final game's proposer is not
\* eliminated as of it: whoever is eliminated now is so for a higher game.
LEMMA OutKept ==
  ASSUME IInv, Next
  PROVE  /\ \A g \in Created : IsChildEliminated(g) => IsChildEliminated(g)'
         /\ \A g \in resolved \ {Root} : ~IsChildEliminated(g) => ~IsChildEliminated(g)'
<1>1. TypeOK /\ Tree /\ Progression /\ resolved \subseteq Games
  BY DEF IInv, TypeOK, TournamentTypeOK
<1>2. ASSUME NEW t \in Games, NEW k \in Nat, NEW o, PruneStep(t, k, o),
             NEW g \in resolved, g # Root, ~IsChildEliminated(g), IsChildEliminated(g)'
      PROVE  FALSE
  <2>1. g \in Created /\ g \in Nat /\ height[g] <= height[lastResolved] /\ height[g] \in Nat
    BY <1>1, <1>2, FinalIsContender, CreatedAreGames
  <2>2. PICK i \in o.elim : /\ Child(t, i) <= g
                            /\ proposerOf[Child(t, i)] = proposerOf[g]
    BY <1>2, <2>1, PruneOut
  <2>3. i \in Positions(t) /\ t = lastResolved
    BY <1>2, PruneEliminates
  <2> DEFINE c == Child(t, i)
  <2>4. c \in Created /\ c \in Nat /\ height[c] = height[t] + 1 /\ height[t] \in Nat
    BY <1>1, <2>3, ChildFacts, CreatedAreGames DEF TypeOK, TournamentTypeOK
  <2>5. CASE c = g
    BY <2>1, <2>3, <2>4, <2>5
  <2>6. CASE c < g
    <3>1. height[c] < height[g]
      BY <1>1, <2>1, <2>2, <2>4, <2>6 DEF Progression
    <3> QED
      BY <2>1, <2>3, <2>4, <3>1
  <2> QED
    BY <2>1, <2>2, <2>4, <2>5, <2>6
<1>3. ASSUME NEW t \in Games, NEW k \in 0..MaxSteps, PruneChildren(t, k)
      PROVE  \E n \in Nat : \E o : PruneStep(t, n, o)
  <2>1. k \in Nat
    BY ProtocolAssumption
  <2> QED
    BY <1>3, <2>1 DEF PruneChildren, Prune, PruneStep
<1>4. ASSUME NEW g \in Games, Resolve(g)
      PROVE  \E t \in Games, n \in Nat : \E o : PruneStep(t, n, o)
  BY <1>4, ResolvePrunes
<1>5. ASSUME NEW a \in Proposers, NEW t \in Games, NEW s \in Sigs, NEW d \in Games,
             NEW v \in Deposits, Propose(a, t, s, d, v), NEW g \in Created
      PROVE  IsChildEliminated(g)' = IsChildEliminated(g)
  BY <1>5, ProposeEffect DEF IsChildEliminated
<1>6. ASSUME NEW t \in Games, NEW q \in Provers, NEW i \in Positions(t), Prove(t, i, q), NEW g
      PROVE  IsChildEliminated(g)' = IsChildEliminated(g)
  BY <1>6 DEF Prove, treasuryVars, IsChildEliminated
<1>7. ASSUME TreasuryCall \/ Tick \/ ResolveTreasury, NEW g
      PROVE  IsChildEliminated(g)' = IsChildEliminated(g)
  BY <1>7 DEF TreasuryCall, ClaimProposerBond, ClaimEliminationBonds, PayReturns,
       SetParticipationBond, AssignVanguard, Tick, ResolveTreasury, treasuryVars, IsChildEliminated
<1>8. resolved \subseteq Created
  BY <1>1 DEF Tree
<1>9. ASSUME NEW t \in Games, NEW k \in Nat, NEW o, PruneStep(t, k, o)
      PROVE  /\ \A g \in Created : IsChildEliminated(g) => IsChildEliminated(g)'
             /\ \A g \in resolved \ {Root} : ~IsChildEliminated(g) => ~IsChildEliminated(g)'
  BY <1>2, <1>9, PruneOut
<1> QED
  BY <1>3, <1>4, <1>5, <1>6, <1>7, <1>8, <1>9 DEF Next

\* A game's parent, signature and creation time are written once.
LEMMA GamesKept ==
  ASSUME IInv, Next, NEW g \in Created
  PROVE  /\ parent'[g] = parent[g] /\ sig'[g] = sig[g] /\ createdAt'[g] = createdAt[g]
         /\ proposerOf'[g] = proposerOf[g]
<1>1. ASSUME NEW a \in Proposers, NEW t \in Games, NEW s \in Sigs, NEW d \in Games,
             NEW v \in Deposits, Propose(a, t, s, d, v)
      PROVE  /\ parent'[g] = parent[g] /\ sig'[g] = sig[g] /\ createdAt'[g] = createdAt[g]
             /\ proposerOf'[g] = proposerOf[g]
  <2>1. /\ parent'[g] = parent[g] /\ sig'[g] = sig[g] /\ proposerOf'[g] = proposerOf[g]
        /\ g # gameCount
    BY <1>1, ProposeEffect
  <2>2. createdAt' = [createdAt EXCEPT ![gameCount] = now]
    BY <1>1 DEF Propose, Initialize
  <2>3. createdAt \in [Games -> Nat] /\ g \in Games
    BY CreatedAreGames DEF IInv, TypeOK, TournamentTypeOK
  <2> QED
    BY <2>1, <2>2, <2>3
<1>2. ASSUME NEW t \in Games, NEW q \in Provers, NEW i \in Positions(t), Prove(t, i, q)
      PROVE  UNCHANGED <<gameVars, proposerOf>>
  BY <1>2 DEF Prove, ProveValidity, ProveOutputFault, ProveTrailFault, treasuryVars
<1>3. ASSUME NEW t \in Games, NEW k \in 0..MaxSteps, PruneChildren(t, k)
      PROVE  UNCHANGED <<gameVars, proposerOf>>
  BY <1>3 DEF PruneChildren
<1>4. ASSUME NEW h \in Games, Resolve(h) PROVE UNCHANGED <<gameVars, proposerOf>>
  BY <1>4 DEF Resolve
<1>5. ASSUME ResolveTreasury \/ TreasuryCall \/ Tick
      PROVE  UNCHANGED <<gameVars, proposerOf>>
  BY <1>5 DEF ResolveTreasury, TreasuryCall, ClaimProposerBond, ClaimEliminationBonds,
       PayReturns, SetParticipationBond, AssignVanguard, Tick, tournamentVars, treasuryVars
<1> QED
  BY <1>1, <1>2, <1>3, <1>4, <1>5 DEF Next, gameVars

\* What is the sole survivor stays it.
LEMMA SurvivorKept ==
  ASSUME IInv, Next, NEW g \in resolved, g # Root, SoleSurvivor(g)
  PROVE  SoleSurvivor(g)'
<1>0. PICK t : t = parent[g]
  OBVIOUS
<1>1. TypeOK /\ Tree /\ t \in Created /\ t \in Games /\ g \in Created /\ ContenderResolved(t)
  BY <1>0, FinalIsContender DEF IInv
<1>2. /\ children'[t] = children[t] /\ validChildSignature'[t] = validChildSignature[t]
      /\ proofStatus'[t] = proofStatus[t]
  BY <1>1, NextIsFinal DEF FinalityStep
<1>3. /\ parent'[g] = t /\ sig'[g] = sig[g] /\ createdAt'[g] = createdAt[g]
  BY <1>0, <1>1, GamesKept
<1>4. Positions(t)' = Positions(t) /\ \A i : Child(t, i)' = Child(t, i)
  BY <1>2 DEF Positions, ChildCount, Child
<1>5. IsViableSignature(t, sig[g])' /\ ~IsChildEliminated(g)'
  <2>1. IsViableSignature(t, sig[g]) /\ ~IsChildEliminated(g)
    BY <1>0 DEF SoleSurvivor
  <2>2. ~IsChildEliminated(g)'
    BY <2>1, OutKept
  <2>3. validChildSignature'[t] # NoSig => sig'[g] = validChildSignature'[t]
    BY <1>2, <1>3, <2>1 DEF IsViableSignature
  <2>4. validChildSignature'[t] = NoSig => proofStatus'[t][sig'[g]] # "FAULT"
    BY <1>2, <1>3, <2>1 DEF IsViableSignature
  <2> QED
    BY <2>2, <2>3, <2>4, <1>3 DEF IsViableSignature
<1>6. ASSUME NEW i \in Positions(t)
      PROVE  \/ IsChildEliminated(Child(t, i))'
             \/ sig'[Child(t, i)] = sig'[g]
             \/ Child(t, i) > g /\ createdAt'[Child(t, i)] - createdAt'[g] >= MaxClock
  <2> DEFINE c == Child(t, i)
  <2>1. c \in Created
    BY <1>1, ChildFacts
  <2>2. /\ sig'[c] = sig[c] /\ createdAt'[c] = createdAt[c] /\ proposerOf'[c] = proposerOf[c]
    BY <2>1, GamesKept
  <2>3. \/ IsChildEliminated(c) \/ sig[c] = sig[g]
        \/ c > g /\ createdAt[c] - createdAt[g] >= MaxClock
    BY <1>0 DEF SoleSurvivor
  <2>4. IsChildEliminated(c) => IsChildEliminated(Child(t, i))'
    <3>1. PICK x \in Created : x = c
      BY <2>1
    <3>2. IsChildEliminated(x) => IsChildEliminated(x)'
      BY OutKept
    <3> QED
      BY <1>4, <3>1, <3>2 DEF IsChildEliminated
  <2> QED
    BY <1>3, <2>2, <2>3, <2>4
<1> QED
  BY <1>3, <1>4, <1>5, <1>6 DEF SoleSurvivor

\* What resolve() makes final is the sole survivor.
LEMMA ResolveMakesSurvivor ==
  ASSUME IInv, Clocks, NEW g \in Games, Resolve(g)
  PROVE  SoleSurvivor(g)'
<1>1. PICK t \in Games : t = parent[g]
  BY DEF IInv, TypeOK, TournamentTypeOK
<1> DEFINE T == Tournament(t)
<1>2. TypeOK /\ Tree /\ g \notin resolved /\ createdAt \in [Games -> Nat]
      /\ Created \subseteq Games
  BY CreatedAreGames DEF IInv, Resolve, TypeOK, TournamentTypeOK
<1>3. PICK k, o :
        /\ k \in Nat
        /\ k >= 2 * ChildCount(t) /\ PruneStep(t, k, o)
        /\ o.ret # NoChild /\ g = Child(t, o.ret)
  BY <1>1, ResolvePrunes
<1>0. o \in Outcomes(T, k)
  BY <1>3 DEF PruneStep
<1>4. /\ IsTournament(T) /\ T.n = ChildCount(t) /\ ChildCount(t) \in Nat
      /\ 0..(T.n - 1) = Positions(t) /\ T.settled = ContenderResolved(t)
      /\ \A i \in Positions(t) :
           /\ T.sig[i] = sig[Child(t, i)] /\ T.out[i] = IsChildEliminated(Child(t, i))
           /\ T.viable[i] = IsViableSignature(t, sig[Child(t, i)])
  BY <1>2, TournamentFacts
<1>5. \A i \in Positions(t) : T.created[i] = createdAt[Child(t, i)]
  BY DEF Tournament
<1>6. Resumable(T)
  <2>1. t \in Created
    BY <1>2, <1>3 DEF PruneStep, Tree
  <2> QED
    BY <2>1 DEF IInv, PruneProgress
<1>7. ~T.settled
  <2> SUFFICES ASSUME ContenderResolved(t) PROVE FALSE
    BY <1>4
  <2>1. T.settled /\ T.ci = contenderIndex[t]
    BY <1>2, TournamentFacts
  <2>2. o.ret = contenderIndex[t]
    BY <1>0, <1>3, <2>1 DEF Outcomes
  <2> QED
    BY <1>2, <1>3, <2>2 DEF ContenderResolved
<1>8. \A i, j \in 0..(T.n - 1) : i < j => T.created[i] <= T.created[j]
  <2> SUFFICES ASSUME NEW i \in Positions(t), NEW j \in Positions(t), i < j
               PROVE  createdAt[Child(t, i)] <= createdAt[Child(t, j)]
    BY <1>4, <1>5
  <2>1. Child(t, i) < Child(t, j)
    BY <1>2 DEF Tree
  <2>2. Child(t, i) \in Created /\ Child(t, j) \in Created
    BY <1>2, ChildFacts
  <2> QED
    BY <2>1, <2>2 DEF Clocks
<1>9. o.ret \in 0..(T.n - 1) /\ Survives(T, o.ret)
  BY <1>0, <1>3, <1>4, <1>6, <1>7, ResolveNamesContender
<1>10. /\ o.ret \notin o.elim
       /\ \A i \in 0..(T.n - 1) :
            \/ T.out[i] \/ i \in o.elim
            \/ T.sig[i] = T.sig[o.ret]
            \/ i > o.ret /\ Late(T, o.ret, i)
  BY <1>0, <1>3, <1>4, <1>6, <1>7, <1>8, ResolveLeavesSoleSurvivor
<1>11. /\ UNCHANGED <<parent, sig, createdAt, children, validChildSignature, proofStatus>>
       /\ Positions(t)' = Positions(t) /\ \A i : Child(t, i)' = Child(t, i)
  BY <1>3 DEF PruneStep, gameVars, proofVars, Positions, ChildCount, Child
<1>12. \A i \in Positions(t) : IsChildEliminated(Child(t, i))' <=>
                                 IsChildEliminated(Child(t, i)) \/ i \in o.elim
  BY <1>3, PruneOut
<1> HIDE DEF T
<1>13. PICK r \in Positions(t) : r = o.ret /\ g = Child(t, r)
  BY <1>3, <1>4, <1>9
<1>14. IsViableSignature(t, sig[g]) /\ ~IsChildEliminated(Child(t, r))
  BY <1>4, <1>9, <1>13 DEF Survives
<1>15. ~IsChildEliminated(g)'
  <2>1. ~IsChildEliminated(Child(t, r))'
    BY <1>10, <1>12, <1>13, <1>14
  <2> QED
    BY <1>11, <1>13, <2>1 DEF IsChildEliminated
<1>16. IsViableSignature(t, sig[g])'
  BY <1>11, <1>14 DEF IsViableSignature
<1>17. ASSUME NEW i \in Positions(t)
       PROVE  \/ IsChildEliminated(Child(t, i))'
              \/ sig[Child(t, i)] = sig[g]
              \/ Child(t, i) > g /\ createdAt[Child(t, i)] - createdAt[g] >= MaxClock
  <2>1. CASE T.out[i] \/ i \in o.elim
    BY <1>4, <1>12, <2>1
  <2>2. CASE T.sig[i] = T.sig[r]
    BY <1>4, <1>13, <2>2
  <2>3. CASE i > r /\ Late(T, r, i)
    <3>1. Child(t, r) < Child(t, i)
      BY <1>2, <2>3 DEF Tree
    <3>2. Child(t, i) \in Nat /\ Child(t, r) \in Nat
      BY <1>2, ChildFacts, CreatedAreGames
    <3>3. createdAt[Child(t, i)] - createdAt[g] >= MaxClock
      BY <1>5, <1>13, <2>3 DEF Late
    <3> QED
      BY <1>13, <3>1, <3>2, <3>3
  <2> QED
    BY <1>4, <1>10, <1>13, <2>1, <2>2, <2>3
<1> QED
  BY <1>1, <1>11, <1>15, <1>16, <1>17 DEF SoleSurvivor

LEMMA FinalInvKept ==
  FinalInv /\ [Next]_vars => FinalInv'
<1> SUFFICES ASSUME FinalInv, [Next]_vars PROVE FinalInv'
  OBVIOUS
<1>1. IInv /\ Clocks /\ ResolvedIsSoleSurvivor
  BY DEF FinalInv
<1>2. IInv' /\ Clocks'
  BY <1>1, NextIInv, ClocksKept
<1>3. ResolvedIsSoleSurvivor'
  <2>1. CASE UNCHANGED vars
    BY <1>1, <2>1 DEF ResolvedIsSoleSurvivor, vars, treasuryVars, tournamentVars, gameVars,
         proofVars, IsViableSignature, IsChildEliminated, Positions, ChildCount, Child
  <2>2. CASE Next
    <3>1. \A g \in resolved \ {Root} : SoleSurvivor(g)'
      BY <1>1, <2>2, SurvivorKept DEF ResolvedIsSoleSurvivor, SoleSurvivor
    <3>2. \A g \in resolved' \ {Root} : g \in resolved \/ (g \in Games /\ Resolve(g))
      <4>1. ASSUME NEW h \in Games, Resolve(h) PROVE resolved' = resolved \cup {h}
        BY <4>1 DEF Resolve
      <4>2. CASE ResolveTreasury
        BY <4>2 DEF ResolveTreasury
      <4>3. ASSUME NEW a \in Proposers, NEW t \in Games, NEW s \in Sigs, NEW d \in Games,
                   NEW v \in Deposits, Propose(a, t, s, d, v)
            PROVE  resolved' = resolved
        BY <4>3 DEF Propose, Initialize
      <4>4. ASSUME NEW t \in Games, NEW q \in Provers, NEW i \in Positions(t), Prove(t, i, q)
            PROVE  resolved' = resolved
        BY <4>4 DEF Prove, ProveValidity, ProveOutputFault, ProveTrailFault
      <4>5. ASSUME NEW t \in Games, NEW k \in 0..MaxSteps, PruneChildren(t, k)
            PROVE  resolved' = resolved
        BY <4>5 DEF PruneChildren
      <4>6. ASSUME TreasuryCall \/ Tick PROVE resolved' = resolved
        BY <4>6 DEF TreasuryCall, Tick, tournamentVars
      <4> QED
        BY <2>2, <4>1, <4>2, <4>3, <4>4, <4>5, <4>6 DEF Next
    <3>3. \A g \in resolved' \ {Root} : SoleSurvivor(g)'
      BY <1>1, <3>1, <3>2, ResolveMakesSurvivor
    <3> QED
      BY <3>3 DEF ResolvedIsSoleSurvivor, SoleSurvivor
  <2> QED
    BY <2>1, <2>2
<1> QED
  BY <1>2, <1>3 DEF FinalInv

\* A proposal becomes and stays final only as the sole survivor of its tournament:
\* resolve() never settles on a child while a rival with another signature, proposed
\* within its challenge period, is neither eliminated nor proven wrong.
THEOREM SoleSurvivorsOnly ==
  Spec => []ResolvedIsSoleSurvivor
<1>1. Init => FinalInv
  <2> SUFFICES ASSUME Init PROVE FinalInv
    OBVIOUS
  <2>1. IInv /\ resolved = {} /\ gameCount = 1
    BY InitIInv DEF Init, TournamentInit
  <2>2. Created = {Root} /\ Root \in Games
    BY <2>1, CreatedAreGames DEF Created, Root, IInv
  <2>3. createdAt[Root] = 1 /\ now = 1
    BY <2>2 DEF Init, TournamentInit, GenesisTime
  <2>4. Clocks
    BY <2>2, <2>3 DEF Clocks
  <2> QED
    BY <2>1, <2>4 DEF FinalInv, ResolvedIsSoleSurvivor
<1>2. FinalInv => ResolvedIsSoleSurvivor
  BY DEF FinalInv
<1> QED
  BY <1>1, <1>2, FinalInvKept, PTL DEF Spec
=============================================================================
