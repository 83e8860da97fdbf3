----------------------------- MODULE AgentProofs -----------------------------
(***************************************************************************)
(* The agents act on what is true: whatever the chain does between two     *)
(* reads, the synchronization agent blames only faulty proposals and       *)
(* follows only sound ones, and the proposer's bond is safe.  With an      *)
(* op-node that is ahead of the proposals the agent follows the very games *)
(* that the chain resolves, the RPC server names no others, the proposer   *)
(* makes no proposal twice, and the validator forgets no fault and finds   *)
(* the data for its proofs.                                                *)
(***************************************************************************)
EXTENDS ProposerSafety, Rpc, ValidatorSafety, FiniteSetTheorems, WellFoundedInduction, TLAPS

(***************************************************************************)
(* Sound games.                                                            *)
(***************************************************************************)

\* A correct game on a sound one is sound.
LEMMA SoundExtends ==
  ASSUME NEW i \in Indices, games[i].good, Sound(games[i].parent)
  PROVE  Sound(i)
<1>1. PICK S \in SUBSET Indices :
        games[i].parent \in S /\ \A k \in S : games[k].good /\ games[k].parent \in S
  BY DEF Sound
<1>2. S \cup {i} \in SUBSET Indices
  OBVIOUS
<1>3. \A k \in S \cup {i} : games[k].good /\ games[k].parent \in S \cup {i}
  BY <1>1
<1> QED
  BY <1>2, <1>3 DEF Sound

LEMMA SoundRoot ==
  ASSUME LedgerInv
  PROVE  Root \in Indices /\ Sound(Root)
<1>1. Root \in Indices
  BY DEF LedgerInv, Root
<1>2. {Root} \in SUBSET Indices /\ \A k \in {Root} : games[k].good /\ games[k].parent \in {Root}
  BY <1>1 DEF LedgerInv
<1> QED
  BY <1>1, <1>2 DEF Sound

\* All that a sound game builds on is correct.
LEMMA SoundAncestry ==
  ASSUME NEW i, Sound(i)
  PROVE  \A j \in Ancestry(i) : games[j].good
BY DEF Sound, Ancestry

\* Games are only added.
GamesKept == Indices \subseteq Indices' /\ \A i \in Indices : games'[i] = games[i]

LEMMA SoundKept ==
  ASSUME GamesKept, NEW i, Sound(i)
  PROVE  Sound(i)'
<1>1. PICK S \in SUBSET Indices :
        i \in S /\ \A k \in S : games[k].good /\ games[k].parent \in S
  BY DEF Sound
<1>2. S \in SUBSET Indices' /\ \A k \in S : games'[k].good /\ games'[k].parent \in S
  BY <1>1 DEF GamesKept
<1> QED
  BY <1>1, <1>2 DEF Sound

LEMMA FaultsKept ==
  ASSUME GamesKept, NEW r, Faults(r)
  PROVE  Faults(r)'
BY DEF GamesKept, Faults

-----------------------------------------------------------------------------
(***************************************************************************)
(* The ledger.                                                             *)
(***************************************************************************)

LEMMA LedgerCount ==
  ASSUME LedgerInv
  PROVE  /\ GameCount \in 1..MaxGames /\ Indices = 0..(GameCount - 1)
         /\ Root \in Indices /\ Indices \subseteq Nat /\ MaxGames \in Nat
<1>1. PICK n \in 1..MaxGames : Indices = 0..(n - 1)
  BY DEF LedgerInv
<1>2. MaxGames \in Nat /\ n \in Nat /\ n > 0
  BY <1>1, LedgerAssumption
<1>3. Cardinality(0..(n - 1)) = IF 0 > n - 1 THEN 0 ELSE (n - 1) - 0 + 1
  <2>1. 0 \in Int /\ n - 1 \in Int
    BY <1>2
  <2> QED
    BY ONLY <2>1, FS_Interval, Zenon
<1>4. GameCount = n
  BY <1>1, <1>2, <1>3 DEF GameCount
<1> QED
  BY <1>1, <1>2, <1>4 DEF Root

\* A new game is appended.
LEMMA AddGameKeeps ==
  ASSUME LedgerInv, NEW g, AddGame(g)
  PROVE  /\ GamesKept
         /\ Indices' = 0..GameCount /\ GameCount \in Indices' /\ GameCount \notin Indices
         /\ Indices' = Indices \cup {GameCount} /\ games'[GameCount] = g
         /\ GameCount + 1 \in 1..MaxGames
<1>1. PICK n \in 1..MaxGames : n = GameCount /\ Indices = 0..(n - 1)
  BY LedgerCount
<1>2. n \in Nat /\ n < MaxGames /\ MaxGames \in Nat /\ n > 0
  BY <1>1, LedgerAssumption DEF AddGame
<1>3. games' = [i \in 0..n |-> IF i = n THEN g ELSE games[i]]
  BY <1>1 DEF AddGame
<1>4. Indices' = 0..n
  BY <1>3 DEF Indices
<1>5. games'[n] = g /\ \A i \in Indices : games'[i] = games[i]
  BY <1>1, <1>2, <1>3
<1>6. 0..n = 0..(n - 1) \cup {n} /\ n \notin 0..(n - 1)
  BY <1>2
<1> QED
  BY <1>1, <1>2, <1>4, <1>5, <1>6 DEF GamesKept

LEMMA DecidedKept ==
  ASSUME GamesKept, resolved \subseteq resolved', NEW t, Decided(t)
  PROVE  Decided(t)'
BY DEF GamesKept, Decided, Children

\* A game on an existing one keeps the ledger in shape.
LEMMA AppendLedger ==
  ASSUME LedgerInv, NEW g, AddGame(g), UNCHANGED <<resolved, round>>,
         g.parent \in Indices, g.height \in Nat,
         g.ours => g.height > games[g.parent].height
  PROVE  LedgerInv' /\ GamesKept
<1>1. PICK n : n = GameCount
  OBVIOUS
<1>2. /\ GamesKept /\ Indices' = 0..n /\ n \notin Indices /\ Indices' = Indices \cup {n}
      /\ games'[n] = g /\ n + 1 \in 1..MaxGames /\ n \in Nat
  BY <1>1, AddGameKeeps, LedgerCount
<1>3. Root \in Indices /\ games'[Root] = games[Root]
  BY <1>2, LedgerCount DEF GamesKept
<1>4. \E m \in 1..MaxGames : Indices' = 0..(m - 1)
  BY <1>2
<1>5. \A i \in Indices' : games'[i].parent \in Indices' /\ games'[i].height \in Nat
  BY <1>2 DEF LedgerInv, GamesKept
<1>6. ASSUME NEW i \in Indices' \ {Root}, games'[i].ours
      PROVE  games'[i].height > games'[games'[i].parent].height
  <2>1. CASE i \in Indices
    BY <1>2, <1>6, <2>1 DEF LedgerInv, GamesKept
  <2>2. CASE i = n
    BY <1>2, <1>6, <2>2 DEF GamesKept
  <2> QED
    BY <1>2, <2>1, <2>2
<1>7. \A i \in resolved' : Sound(i)'
  BY <1>2, SoundKept DEF LedgerInv
<1>8. resolved' # {} => \E m \in resolved' : \A j \in resolved' :
        games'[j].height <= games'[m].height /\ (j = m \/ Decided(j)')
  <2> SUFFICES ASSUME resolved # {}
               PROVE  \E m \in resolved : \A j \in resolved :
                        games'[j].height <= games'[m].height /\ (j = m \/ Decided(j)')
    OBVIOUS
  <2>1. PICK m \in resolved : \A j \in resolved :
          games[j].height <= games[m].height /\ (j = m \/ Decided(j))
    BY DEF LedgerInv
  <2>2. \A j \in resolved : games'[j] = games[j]
    <3>1. \A j \in resolved : j \in Indices
      BY DEF LedgerInv, Sound
    <3> QED
      BY <1>2, <3>1 DEF GamesKept
  <2> QED
    BY <1>2, <2>1, <2>2, DecidedKept
<1>9. Faults(round)'
  <2>1. PICK r : r = round /\ r = round'
    OBVIOUS
  <2>2. Faults(r)'
    BY <1>2, <2>1, FaultsKept DEF LedgerInv
  <2> QED
    BY <2>1, <2>2 DEF Faults
<1> QED
  BY <1>2, <1>3, <1>4, <1>5, <1>6, <1>7, <1>8, <1>9 DEF LedgerInv

LEMMA SubmitLedger ==
  ASSUME LedgerInv, NEW p \in Proposers, NEW t \in Indices, NEW ok \in BOOLEAN, Submit(p, t, ok)
  PROVE  /\ LedgerInv' /\ GamesKept /\ Indices' = Indices \cup {GameCount}
         /\ games'[GameCount].parent = t /\ games'[GameCount].good = ok
         /\ games'[GameCount].proposer = p /\ UNCHANGED round
<1>1. PICK claim : AddGame(GameOf(t, p, ok, claim, games[t].height + 1))
  BY DEF Submit
<1>2. PICK g : g = GameOf(t, p, ok, claim, games[t].height + 1)
  OBVIOUS
<1>3. games[t].height \in Nat
  BY DEF LedgerInv
<1>4. /\ g.parent = t /\ g.height = games[t].height + 1 /\ g.good = ok /\ g.proposer = p
      /\ g.height \in Nat /\ g.height > games[t].height
  BY <1>2, <1>3 DEF GameOf
<1>5. AddGame(g) /\ UNCHANGED <<resolved, round>>
  BY <1>1, <1>2 DEF Submit
<1> QED
  BY <1>4, <1>5, AppendLedger, AddGameKeeps

LEMMA ForeignLedger ==
  ASSUME LedgerInv, SubmitForeign
  PROVE  LedgerInv' /\ GamesKept
<1>1. PICK same \in BOOLEAN : AddGame([GameOf(Root, NoProposer, FALSE, FALSE, 0)
                                       EXCEPT !.ours = FALSE, !.kailua = same])
  BY DEF SubmitForeign
<1>2. PICK g : g = [GameOf(Root, NoProposer, FALSE, FALSE, 0)
                     EXCEPT !.ours = FALSE, !.kailua = same]
  OBVIOUS
<1>3. g.parent = Root /\ g.height = 0 /\ g.ours = FALSE
  BY <1>2 DEF GameOf
<1>4. AddGame(g) /\ UNCHANGED <<resolved, round>>
  BY <1>1, <1>2 DEF SubmitForeign
<1> QED
  BY <1>3, <1>4, AppendLedger, LedgerCount

\* Only the proposers of faulty games are eliminated, at these games.
LEMMA EliminateFaults ==
  ASSUME LedgerInv, NEW E, E \subseteq {c \in Indices : ~games[c].good}, Eliminate(E)
  PROVE  /\ Faults(round')
         /\ \A p \in Proposers : round'[p] # round[p] => \E c \in E : games[c].proposer = p
<1>1. ASSUME NEW p \in Proposers
      PROVE  \/ round'[p] = round[p]
             \/ round'[p] \in E /\ games[round'[p]].proposer = p
  BY DEF Eliminate
<1>2. E \subseteq Nat /\ round' = [p \in Proposers |-> round'[p]]
  BY LedgerCount DEF Eliminate
<1>3. \A p \in Proposers : round'[p] \in Nat
  BY <1>1, <1>2 DEF LedgerInv, Faults
<1> QED
  BY <1>1, <1>2, <1>3 DEF LedgerInv, Faults

LEMMA PruneLedger ==
  ASSUME LedgerInv, NEW t \in Indices, PruneSome(t)
  PROVE  LedgerInv' /\ GamesKept /\ UNCHANGED games
         /\ \A p \in Proposers : round'[p] # round[p] =>
              \E c \in Indices : games[c].proposer = p /\ ~games[c].good
<1>1. PICK E : E \subseteq Faulty(t) /\ Eliminate(E)
  BY DEF PruneSome
<1>2. E \subseteq {c \in Indices : ~games[c].good}
  BY <1>1 DEF Faulty, Children
<1>3. /\ Faults(round')
      /\ \A p \in Proposers : round'[p] # round[p] => \E c \in E : games[c].proposer = p
  BY <1>1, <1>2, EliminateFaults
<1>4. UNCHANGED <<games, resolved>>
  BY DEF PruneSome
<1>5. Faults(round)'
  BY <1>3, <1>4 DEF Faults, Indices
<1> QED
  BY <1>2, <1>3, <1>4, <1>5, SMTT(30) DEF LedgerInv, GamesKept, Indices, Sound, Decided, Children

LEMMA ResolveLedger ==
  ASSUME LedgerInv, NEW w \in Indices, ResolveGame(w)
  PROVE  LedgerInv' /\ GamesKept /\ UNCHANGED games
         /\ \A p \in Proposers : round'[p] # round[p] =>
              \E c \in Indices : games[c].proposer = p /\ ~games[c].good
<1>1. PICK t : t = games[w].parent
  OBVIOUS
<1>2. /\ w # Root /\ games[w].ours /\ t \in resolved /\ ~Decided(t) /\ games[w].good
      /\ Eliminate(Beaten(w)) /\ resolved' = resolved \cup {w} /\ games' = games
  BY <1>1 DEF ResolveGame, CanResolve, Survivor
<1>3. Beaten(w) \subseteq {c \in Indices : ~games[c].good}
  BY DEF Beaten, Faulty, Children
<1>4. /\ Faults(round')
      /\ \A p \in Proposers : round'[p] # round[p] =>
           \E c \in Beaten(w) : games[c].proposer = p
  BY <1>2, <1>3, EliminateFaults
<1>5. Faults(round)' /\ GamesKept /\ Indices' = Indices
  BY <1>2, <1>4 DEF Faults, Indices, GamesKept
<1>6. \A i \in resolved' : Sound(i)'
  <2>1. \A i \in resolved : Sound(i)
    BY DEF LedgerInv
  <2>2. Sound(w)
    BY <1>1, <1>2, <2>1, SoundExtends
  <2> QED
    BY <1>2, <1>5, <2>1, <2>2, SoundKept
<1>7. \E m \in resolved' : \A j \in resolved' :
        games'[j].height <= games'[m].height /\ (j = m \/ Decided(j)')
  <2>1. PICK m \in resolved : \A j \in resolved :
          games[j].height <= games[m].height /\ (j = m \/ Decided(j))
    BY <1>2 DEF LedgerInv
  <2>2. m = t
    BY <1>2, <2>1
  <2>3. Decided(t)'
    <3>1. w \in Children(t)'
      BY <1>1, <1>2, <1>5 DEF Children
    <3> QED
      BY <1>2, <3>1 DEF Decided
  <2>4. games[w].height > games[t].height /\ games[w].height \in Nat /\ games[t].height \in Nat
    BY <1>1, <1>2 DEF LedgerInv
  <2>5. \A j \in resolved : games[j].height \in Nat
    BY DEF LedgerInv, Sound
  <2>6. \A j \in resolved : games'[j].height <= games'[w].height /\ Decided(j)'
    BY <1>2, <1>5, <2>1, <2>2, <2>3, <2>4, <2>5, DecidedKept
  <2> QED
    BY <1>2, <2>4, <2>6
<1> QED
  BY <1>2, <1>3, <1>4, <1>5, <1>6, <1>7 DEF LedgerInv

LEMMA RootLedger ==
  ASSUME LedgerInv, ResolveRoot
  PROVE  LedgerInv' /\ GamesKept
<1>1. resolved' = {Root} /\ UNCHANGED <<games, round>>
  BY DEF ResolveRoot
<1>2. GamesKept /\ Sound(Root)' /\ Indices' = Indices
  BY <1>1, SoundRoot, SoundKept DEF GamesKept, Indices
<1>3. games[Root].height \in Nat
  BY LedgerCount DEF LedgerInv
<1>4. Faults(round)'
  BY <1>1, <1>2 DEF LedgerInv, Faults
<1> QED
  BY <1>1, <1>2, <1>3, <1>4, SMTT(30) DEF LedgerInv

LEMMA QuietLedger ==
  ASSUME LedgerInv, UNCHANGED <<games, resolved, round>>
  PROVE  LedgerInv' /\ GamesKept
BY DEF LedgerInv, GamesKept, Indices, Sound, Decided, Children, Faults

-----------------------------------------------------------------------------
(***************************************************************************)
(* The queue of delayed games.                                             *)
(***************************************************************************)

\* Induction over the natural numbers, with the induction predicate as a set: the initial
\* segments below a number outside of it would be an infinite descent.
LEMMA Induction ==
  ASSUME NEW G, 0 \in G, \A n \in Nat : n \in G => n + 1 \in G
  PROVE  \A n \in Nat : n \in G
<1> SUFFICES ASSUME NEW N \in Nat, N \notin G PROVE FALSE
  OBVIOUS
<1> DEFINE S == 0..N
           Bad == {0..n : n \in {m \in 0..N : m \notin G}}
<1>1. IsFiniteSet(S)
  BY FS_Interval
<1>2. IsWellFoundedOn(StrictSubsetOrdering(S), SUBSET S)
  <2>1. FiniteSubsetsOf(S) = SUBSET S
    BY <1>1, FS_FiniteSubsetsOfFinite
  <2>2. IsWellFoundedOn(StrictSubsetOrdering(S), FiniteSubsetsOf(S))
    BY FS_StrictSubsetOrderingWellFounded
  <2> QED
    BY <2>1, <2>2
<1>3. PICK X \in Bad : \A Y \in Bad : <<Y, X>> \notin StrictSubsetOrdering(S)
  <2>1. Bad \subseteq SUBSET S /\ Bad # {}
    OBVIOUS
  <2> HIDE DEF Bad, S
  <2> QED
    BY <1>2, <2>1, WFMin
<1>4. PICK n \in 0..N : n \notin G /\ X = 0..n
  OBVIOUS
<1>5. n \in Nat /\ n # 0 /\ n - 1 \in Nat /\ n - 1 \in 0..N
  BY <1>4
<1>6. n - 1 \notin G
  <2>1. PICK m \in Nat : m = n - 1
    BY <1>5
  <2>2. m + 1 = n
    BY <1>5, <2>1
  <2> QED
    BY <1>4, <2>1, <2>2
<1>7. 0..(n - 1) \in Bad
  BY <1>5, <1>6
<1>8. <<0..(n - 1), X>> \in StrictSubsetOrdering(S)
  <2>1. 0..(n - 1) \subseteq S /\ 0..n \subseteq S /\ 0..(n - 1) \subseteq 0..n
    BY <1>5
  <2>2. n \in 0..n /\ n \notin 0..(n - 1)
    BY <1>5
  <2> QED
    BY <1>4, <2>1, <2>2 DEF StrictSubsetOrdering
<1> QED
  BY <1>3, <1>7, <1>8

\* f[m] is what is kept of the first m entries of q, up to m = n.
IsKept(f, q, s, n) ==
  f = [m \in 0..n |-> IF m = 0 THEN <<>>
                      ELSE IF q[m] >= s THEN Append(f[m - 1], q[m]) ELSE f[m - 1]]

LEMMA KeptExists ==
  ASSUME NEW q, NEW s, NEW N \in Nat
  PROVE  \E f : IsKept(f, q, s, N)
<1> DEFINE G == {n \in Nat : \E f : IsKept(f, q, s, n)}
<1>1. 0 \in G
  <2>1. PICK f : f = [m \in 0..0 |-> <<>>]
    OBVIOUS
  <2>2. IsKept(f, q, s, 0)
    BY <2>1 DEF IsKept
  <2> QED
    BY <2>2
<1>2. ASSUME NEW n \in Nat, n \in G PROVE n + 1 \in G
  <2>1. PICK f : IsKept(f, q, s, n)
    BY <1>2
  <2>2. PICK x : x = IF q[n + 1] >= s THEN Append(f[n], q[n + 1]) ELSE f[n]
    OBVIOUS
  <2>3. PICK g : g = [m \in 0..(n + 1) |-> IF m = n + 1 THEN x ELSE f[m]]
    OBVIOUS
  <2>4. ASSUME NEW m \in 0..(n + 1)
        PROVE  g[m] = IF m = 0 THEN <<>>
                      ELSE IF q[m] >= s THEN Append(g[m - 1], q[m]) ELSE g[m - 1]
    <3>1. CASE m = n + 1
      <4>1. g[m] = x /\ g[m - 1] = f[n] /\ m # 0
        BY <2>3, <3>1
      <4> QED
        BY <2>2, <3>1, <4>1
    <3>2. CASE m # n + 1
      <4>1. m \in 0..n /\ g[m] = f[m]
        BY <2>3, <3>2
      <4>2. m # 0 => g[m - 1] = f[m - 1]
        BY <2>3, <4>1
      <4>3. f[m] = IF m = 0 THEN <<>>
                   ELSE IF q[m] >= s THEN Append(f[m - 1], q[m]) ELSE f[m - 1]
        BY <2>1, <4>1 DEF IsKept
      <4> QED
        BY <4>1, <4>2, <4>3
    <3> QED
      BY <3>1, <3>2
  <2>5. IsKept(g, q, s, n + 1)
    BY <2>3, <2>4 DEF IsKept
  <2> QED
    BY <2>5
<1> HIDE DEF G
<1>3. \A n \in Nat : n \in G
  BY <1>1, <1>2, Induction
<1> QED
  BY <1>3 DEF G

\* prune_data only removes indices from the queue.
LEMMA RetainedType ==
  ASSUME NEW A, NEW q \in Seq(A), NEW s
  PROVE  Retained(q, s) \in Seq(A)
<1>0. PICK N \in Nat : N = Len(q)
  OBVIOUS
<1>1. PICK f : f = CHOOSE g : IsKept(g, q, s, N)
  OBVIOUS
<1>2. IsKept(f, q, s, N)
  BY <1>0, <1>1, KeptExists
<1>3. Retained(q, s) = f[N]
  BY <1>0, <1>1 DEF Retained, IsKept
<1> DEFINE G == {n \in Nat : n <= N => f[n] \in Seq(A)}
<1>4. 0 \in G
  BY <1>2 DEF IsKept
<1>5. ASSUME NEW n \in Nat, n \in G PROVE n + 1 \in G
  <2> SUFFICES ASSUME n + 1 <= N PROVE f[n + 1] \in Seq(A)
    OBVIOUS
  <2>1. f[n] \in Seq(A) /\ q[n + 1] \in A /\ n + 1 \in 0..N /\ n + 1 # 0 /\ (n + 1) - 1 = n
    BY <1>0, <1>5
  <2>2. f[n + 1] = IF q[n + 1] >= s THEN Append(f[n], q[n + 1]) ELSE f[n]
    BY <1>2, <2>1 DEF IsKept
  <2> QED
    BY <2>1, <2>2
<1> HIDE DEF G
<1>6. N \in G
  BY <1>4, <1>5, Induction
<1> QED
  BY <1>3, <1>6 DEF G

-----------------------------------------------------------------------------
(***************************************************************************)
(* The agent.                                                              *)
(***************************************************************************)

LEMMA InitiallySound ==
  ASSUME SyncInit
  PROVE  LedgerInv /\ AgentInv
<1>1. /\ Indices = {Root} /\ games[Root].good /\ games[Root].parent = Root
      /\ games[Root].height = 0 /\ resolved = {} /\ round = [p \in Proposers |-> 0]
  BY DEF SyncInit, LedgerInit, GameOf, Indices
<1>2. \E n \in 1..MaxGames : Indices = 0..(n - 1)
  <2>1. 1 \in 1..MaxGames /\ {Root} = 0..(1 - 1)
    BY LedgerAssumption DEF Root
  <2> QED
    BY <1>1, <2>1
<1>3. LedgerInv
  BY <1>1, <1>2 DEF LedgerInv, Faults
<1>4. Queues /\ CacheIsSound /\ pc = "off" /\ Faults(eliminations)
  BY DEF SyncInit, AgentInit, Queues, CacheIsSound, Faults, Root
<1> QED
  BY <1>3, <1>4 DEF AgentInv

\* The agent's knowledge stays true as games are added.
LEMMA AgentWaits ==
  ASSUME AgentInv, GamesKept, UNCHANGED agentVars
  PROVE  AgentInv'
<1> USE DEF agentVars, cursorVars, localVars
<1>1. Queues'
  <2>1. delayed \in Seq(Indices') /\ queued \in Seq(Indices')
    BY DEF AgentInv, Queues, GamesKept
  <2> QED
    BY <2>1 DEF AgentInv, Queues, GamesKept
<1>2. CacheIsSound'
  <2>1. \A j \in DOMAIN proposals : proposals[j].correct => Sound(j)'
    BY SoundKept DEF AgentInv, CacheIsSound
  <2> QED
    BY <2>1 DEF AgentInv, CacheIsSound, GamesKept
<1>3. pc' # "off" => Sound(tip)'
  <2>1. PICK t : t = tip /\ t = tip'
    OBVIOUS
  <2>2. pc # "off" => Sound(t)'
    BY <2>1, SoundKept DEF AgentInv
  <2> QED
    BY <2>1, <2>2 DEF Sound
<1>4. Faults(eliminations)'
  <2>1. PICK r : r = eliminations /\ r = eliminations'
    OBVIOUS
  <2>2. Faults(r)'
    BY <2>1, FaultsKept DEF AgentInv
  <2> QED
    BY <2>1, <2>2 DEF Faults
<1> QED
  BY <1>1, <1>2, <1>3, <1>4 DEF AgentInv

\* While the ledger stands still only the agent's own variables matter.
LEMMA AgentMoves ==
  ASSUME UNCHANGED ledgerVars,
         delayed' \in Seq(Indices), queued' \in Seq(Indices), next' \in Nat, count' \in Nat,
         0..(count' - 1) \subseteq Indices,
         DOMAIN proposals' \subseteq Indices,
         \A j \in DOMAIN proposals' :
           /\ proposals'[j] \in ProposalRecords
           /\ proposals'[j].canonical => proposals'[j].correct
           /\ proposals'[j].correct => Sound(j),
         pc' # "off" => Sound(tip'),
         Faults(eliminations')
  PROVE  AgentInv'
BY DEF AgentInv, Queues, CacheIsSound, ProposalRecords, Sound, Faults, Indices, ledgerVars

LEMMA StartSound ==
  ASSUME LedgerInv, AgentInv, Start
  PROVE  AgentInv'
<1>1. Anchor \in resolved
  BY DEF LedgerInv, Anchor, Start
<1>2. Sound(Anchor) /\ Anchor \in Nat
  <2>1. PICK a : a = Anchor
    OBVIOUS
  <2>2. Sound(a) /\ a \in Indices
    BY <1>1, <2>1 DEF LedgerInv, Sound
  <2> QED
    BY <2>1, <2>2, LedgerCount
<1>3. Faults(eliminations')
  BY DEF Start, Faults
<1>4. /\ UNCHANGED ledgerVars /\ tip' = Anchor /\ next' = Anchor /\ delayed' = <<>>
      /\ queued' = queued /\ count' = count /\ DOMAIN proposals' = {}
  BY DEF Start, localVars
<1>5. delayed' \in Seq(Indices) /\ queued' \in Seq(Indices) /\ next' \in Nat /\ count' \in Nat
      /\ 0..(count' - 1) \subseteq Indices
  BY <1>2, <1>4 DEF AgentInv, Queues
<1>6. Sound(tip')
  BY <1>2, <1>4
<1> QED
  BY <1>3, <1>4, <1>5, <1>6, AgentMoves

\* The steps that touch neither cache nor tip nor eliminations.
LEMMA BookkeepingSound ==
  ASSUME LedgerInv, AgentInv,
         SyncOutputs \/ CountGames \/ LoadFails \/ LoadDone \/ SyncReturns \/ Crash
  PROVE  AgentInv'
<1>1. UNCHANGED <<ledgerVars, tip, proposals, eliminations>> /\ (pc' # "off" => pc # "off")
  BY DEF SyncOutputs, CountGames, LoadFails, LoadDone, SyncReturns, Crash, EndLoad, cursorVars
<1>2. AfterPop \in Seq(Indices)
  BY DEF AgentInv, Queues, AfterPop
<1>3. delayed' \in Seq(Indices) /\ queued' \in Seq(Indices)
  <2>0. delayed \in Seq(Indices) /\ queued \in Seq(Indices) /\ <<>> \in Seq(Indices)
    BY DEF AgentInv, Queues
  <2>1. CASE SyncOutputs \/ CountGames \/ SyncReturns \/ Crash
    <3>1. delayed' = delayed /\ (queued' = queued \/ queued' = <<>>)
      BY <2>1 DEF SyncOutputs, CountGames, SyncReturns, Crash, cursorVars
    <3> QED
      BY <2>0, <3>1
  <2>2. CASE LoadFails \/ LoadDone
    <3>1. /\ delayed' = queued \o AfterPop \/ delayed' = queued \o delayed
          /\ queued' = <<>>
      BY <2>2 DEF LoadFails, LoadDone, EndLoad
    <3>2. queued \o AfterPop \in Seq(Indices) /\ queued \o delayed \in Seq(Indices)
      BY <1>2, <2>0
    <3> QED
      BY <2>0, <3>1, <3>2
  <2> QED
    BY <2>1, <2>2
<1>4. next' = next
  BY DEF SyncOutputs, CountGames, LoadFails, LoadDone, SyncReturns, Crash, EndLoad, cursorVars
<1>5. count' \in Nat /\ 0..(count' - 1) \subseteq Indices
  <2>1. CASE CountGames
    BY <2>1, LedgerCount DEF CountGames
  <2>2. CASE SyncReturns \/ Crash
    <3>1. count' = 0
      BY <2>2 DEF SyncReturns, Crash
    <3> QED
      BY <3>1
  <2>3. CASE SyncOutputs \/ LoadFails \/ LoadDone
    BY <2>3 DEF SyncOutputs, LoadFails, LoadDone, AgentInv, Queues
  <2> QED
    BY <2>1, <2>2, <2>3
<1>6. Faults(eliminations') /\ (pc' # "off" => Sound(tip'))
  BY <1>1 DEF AgentInv
<1>7. /\ DOMAIN proposals' \subseteq Indices /\ next' \in Nat
      /\ \A j \in DOMAIN proposals' :
           /\ proposals'[j] \in ProposalRecords
           /\ proposals'[j].canonical => proposals'[j].correct
           /\ proposals'[j].correct => Sound(j)
  BY <1>1, <1>4 DEF AgentInv, CacheIsSound, Queues
<1>8. UNCHANGED ledgerVars
  BY <1>1
<1> QED
  BY <1>3, <1>5, <1>6, <1>7, <1>8, AgentMoves

LEMMA FollowSound ==
  ASSUME LedgerInv, AgentInv, FollowResolution
  PROVE  AgentInv'
<1>1. PICK s : s = Successor
  OBVIOUS
<1>2. /\ s \in DOMAIN proposals
      /\ proposals' = [j \in Kept(s) |-> IF j = s THEN [proposals[s] EXCEPT !.resolved = TRUE]
                                         ELSE proposals[j]]
      /\ delayed' = Retained(delayed, s)
      /\ UNCHANGED <<ledgerVars, pc, tip, next, eliminations, localVars>>
  BY <1>1 DEF FollowResolution, CanFollow
<1>3. delayed' \in Seq(Indices)
  BY <1>2, RetainedType DEF AgentInv, Queues
<1>4. /\ queued' \in Seq(Indices) /\ next' \in Nat /\ count' \in Nat
      /\ 0..(count' - 1) \subseteq Indices /\ UNCHANGED ledgerVars
  BY <1>2 DEF AgentInv, Queues, localVars
<1>5. DOMAIN proposals' = Kept(s) /\ Kept(s) \subseteq DOMAIN proposals
  BY <1>2 DEF Kept
<1>6. ASSUME NEW j \in DOMAIN proposals'
      PROVE  /\ proposals'[j] \in ProposalRecords
             /\ proposals'[j].canonical = proposals[j].canonical
             /\ proposals'[j].correct = proposals[j].correct
  <2>1. j \in DOMAIN proposals /\ proposals[j] \in ProposalRecords
    BY <1>5 DEF AgentInv, CacheIsSound
  <2>2. proposals'[j] = IF j = s THEN [proposals[j] EXCEPT !.resolved = TRUE] ELSE proposals[j]
    BY <1>2, <1>5
  <2> QED
    BY <2>1, <2>2 DEF ProposalRecords
<1>7. DOMAIN proposals' \subseteq Indices
  BY <1>5 DEF AgentInv, CacheIsSound
<1>8. \A j \in DOMAIN proposals' :
           /\ proposals'[j] \in ProposalRecords
           /\ proposals'[j].canonical => proposals'[j].correct
           /\ proposals'[j].correct => Sound(j)
  BY <1>5, <1>6 DEF AgentInv, CacheIsSound
<1>9. Faults(eliminations') /\ (pc' # "off" => Sound(tip'))
  BY <1>2 DEF AgentInv
<1> QED
  BY <1>3, <1>4, <1>7, <1>8, <1>9, AgentMoves

-----------------------------------------------------------------------------
(***************************************************************************)
(* One iteration of the loop over new games.                               *)
(***************************************************************************)

LEMMA NextIsGame ==
  ASSUME LedgerInv, AgentInv, HasNext
  PROVE  NextIndex \in Indices /\ NextIndex \in Nat /\ AfterPop \in Seq(Indices)
<1>1. NextIndex \in Indices
  <2>1. CASE delayed # <<>>
    BY <2>1 DEF AgentInv, Queues, NextIndex
  <2>2. CASE delayed = <<>>
    <3>1. next \in Nat /\ count \in Nat /\ next < count /\ 0..(count - 1) \subseteq Indices
      BY <2>2 DEF AgentInv, Queues, HasNext
    <3>2. next \in 0..(count - 1)
      BY <3>1
    <3> QED
      BY <2>2, <3>1, <3>2 DEF NextIndex
  <2> QED
    BY <2>1, <2>2
<1>2. AfterPop \in Seq(Indices)
  BY DEF AgentInv, Queues, AfterPop
<1> QED
  BY <1>1, <1>2, LedgerCount

\* The treasury's answer names a faulty game.
LEMMA FetchedFaults ==
  ASSUME LedgerInv, AgentInv, NEW i
  PROVE  Faults(Fetched(i))
<1>1. Faults(round) /\ Faults(eliminations)
  BY DEF LedgerInv, AgentInv
<1>2. \A p \in Proposers : Fetched(i)[p] = round[p] \/ Fetched(i)[p] = eliminations[p]
  BY DEF Fetched
<1>3. Fetched(i) \in [Proposers -> Nat]
  BY <1>1 DEF Fetched, Faults
<1> QED
  BY <1>1, <1>2, <1>3 DEF Faults

LEMMA CorrectIsSound ==
  ASSUME LedgerInv, AgentInv, NEW i \in Indices, IsCorrect(i)
  PROVE  Sound(i)
<1>1. CASE i = Root
  BY <1>1, SoundRoot
<1>2. CASE i \in resolved
  BY <1>2 DEF LedgerInv
<1>3. CASE games[i].parent \in DOMAIN proposals /\ proposals[games[i].parent].correct
  <2>1. Sound(games[i].parent)
    BY <1>3 DEF AgentInv, CacheIsSound
  <2> QED
    BY <2>1, SoundExtends DEF IsCorrect
<1> QED
  BY <1>1, <1>2, <1>3 DEF IsCorrect

\* A correct claim that is found incorrect has an incorrect parent, which has no
\* tournament to participate in.
LEMMA BlamedIsFaulty ==
  ASSUME AgentInv, NEW elims, NEW i \in Indices, i # Root, Participates(elims, i), ~IsCorrect(i)
  PROVE  ~games[i].good
<1>1. CASE i \in resolved
  BY <1>1 DEF IsCorrect
<1>2. CASE games[i].parent \in DOMAIN proposals /\ proposals[games[i].parent].canonical
  BY <1>2 DEF IsCorrect, AgentInv, CacheIsSound
<1> QED
  BY <1>1, <1>2 DEF Participates

\* What a cache must be for the agent to rely on it.
GoodCache(c) ==
  /\ DOMAIN c \subseteq Indices
  /\ \A j \in DOMAIN c :
       /\ c[j] \in ProposalRecords
       /\ c[j].canonical => c[j].correct
       /\ c[j].correct => Sound(j)

LEMMA ChildCache ==
  ASSUME AgentInv, NEW i \in Nat
  PROVE  GoodCache(WithChild(i)) /\ DOMAIN WithChild(i) = DOMAIN proposals
<1>1. GoodCache(proposals)
  BY DEF AgentInv, CacheIsSound, GoodCache
<1>2. PICK t : t = games[i].parent
  OBVIOUS
<1>3. CASE WithChild(i) = proposals
  BY <1>1, <1>3
<1>4. CASE WithChild(i) # proposals
  <2>1. WithChild(i) = [proposals EXCEPT ![t].children = @ \cup {i}] /\ t \in DOMAIN proposals
    BY <1>2, <1>4 DEF WithChild
  <2>2. DOMAIN WithChild(i) = DOMAIN proposals
    BY <2>1
  <2>3. ASSUME NEW j \in DOMAIN proposals
        PROVE  /\ WithChild(i)[j] \in ProposalRecords
               /\ WithChild(i)[j].canonical = proposals[j].canonical
               /\ WithChild(i)[j].correct = proposals[j].correct
    <3>1. proposals[j] \in ProposalRecords
      BY <1>1 DEF GoodCache
    <3>2. WithChild(i)[j] = IF j = t
                            THEN [proposals[j] EXCEPT !.children = proposals[j].children \cup {i}]
                            ELSE proposals[j]
      BY <2>1
    <3> QED
      BY <3>1, <3>2 DEF ProposalRecords
  <2> QED
    BY <1>1, <2>2, <2>3 DEF GoodCache
<1> QED
  BY <1>3, <1>4

LEMMA ProposalCache ==
  ASSUME LedgerInv, AgentInv, NEW elims, NEW i \in Indices
  PROVE  GoodCache(WithProposal(elims, i))
<1>0. i \in Nat
  BY LedgerCount
<1>1. PICK w : w = WithChild(i)
  OBVIOUS
<1>2. GoodCache(w) /\ DOMAIN w = DOMAIN proposals
  BY <1>0, <1>1, ChildCache
<1>3. PICK t : t = games[i].parent
  OBVIOUS
<1>4. PICK linked : linked = IF IsCanonical(elims, i) /\ t \in DOMAIN proposals
                             THEN [w EXCEPT ![t].successor = i] ELSE w
  OBVIOUS
<1>5. ASSUME NEW j \in DOMAIN proposals
      PROVE  /\ linked[j] \in ProposalRecords
             /\ linked[j].canonical = w[j].canonical /\ linked[j].correct = w[j].correct
  <2>1. w[j] \in ProposalRecords
    BY <1>2 DEF GoodCache
  <2>2. linked[j] = w[j] \/ linked[j] = [w[j] EXCEPT !.successor = i]
    BY <1>2, <1>4
  <2> QED
    BY <1>0, <2>1, <2>2 DEF ProposalRecords
<1>6. PICK c : c = WithProposal(elims, i)
  OBVIOUS
<1>7. c = [j \in DOMAIN proposals \cup {i} |-> IF j = i THEN Loaded(elims, i) ELSE linked[j]]
  BY <1>1, <1>3, <1>4, <1>6 DEF WithProposal
<1>8. DOMAIN c = DOMAIN proposals \cup {i}
  BY <1>7
<1>9. c[i] = Loaded(elims, i) /\ \A j \in DOMAIN proposals : j # i => c[j] = linked[j]
  BY <1>7
<1>10. /\ Loaded(elims, i) \in ProposalRecords
       /\ Loaded(elims, i).canonical => Loaded(elims, i).correct
       /\ Loaded(elims, i).correct => IsCorrect(i)
  <2>1. IsCorrect(i) \in BOOLEAN /\ IsCanonical(elims, i) \in BOOLEAN
    BY DEF IsCorrect, IsCanonical
  <2> QED
    BY <2>1 DEF Loaded, ProposalRecords, IsCanonical, None
<1>11. Loaded(elims, i).correct => Sound(i)
  BY <1>10, CorrectIsSound
<1>12. GoodCache(c)
  BY <1>2, <1>5, <1>8, <1>9, <1>10, <1>11 DEF GoodCache
<1> QED
  BY <1>6, <1>12

\* AgentMoves, for the steps that keep game_count and the ledger.
LEMMA LoadMoves ==
  ASSUME AgentInv, UNCHANGED <<ledgerVars, count>>,
         delayed' \in Seq(Indices), queued' \in Seq(Indices), next' \in Nat,
         GoodCache(proposals'), Sound(tip'), Faults(eliminations')
  PROVE  AgentInv'
<1>1. count' \in Nat /\ 0..(count' - 1) \subseteq Indices /\ UNCHANGED ledgerVars
  BY DEF AgentInv, Queues
<1>2. /\ DOMAIN proposals' \subseteq Indices
      /\ \A j \in DOMAIN proposals' :
           /\ proposals'[j] \in ProposalRecords
           /\ proposals'[j].canonical => proposals'[j].correct
           /\ proposals'[j].correct => Sound(j)
  BY DEF GoodCache
<1> QED
  BY <1>1, <1>2, AgentMoves

LEMMA SkipSound ==
  ASSUME LedgerInv, AgentInv, pc = "load", HasNext, UNCHANGED <<ledgerVars, count>>,
         NEW i, i = NextIndex,
         \/ SkipForeign(i)
         \/ SkipDangling(i)
         \/ Delay(i)
         \/ SkipIrrelevant(i)
         \/ FailAssess(i)
  PROVE  AgentInv'
<1>1. i \in Indices /\ i \in Nat /\ AfterPop \in Seq(Indices)
  BY NextIsGame
<1>2. delayed \in Seq(Indices) /\ queued \in Seq(Indices) /\ next \in Nat
  BY DEF AgentInv, Queues
<1>3. tip' = tip /\ Sound(tip)
  BY DEF SkipForeign, SkipDangling, Delay, SkipIrrelevant, FailAssess, AgentInv
<1>4. next' \in Nat
  BY <1>2 DEF SkipForeign, SkipDangling, Delay, SkipIrrelevant, FailAssess, Advance, EndLoad
<1>5. /\ queued \o AfterPop \in Seq(Indices) /\ Append(queued, i) \in Seq(Indices)
      /\ <<>> \in Seq(Indices)
  BY <1>1, <1>2
<1>6. /\ \/ delayed' = AfterPop
         \/ delayed' = queued \o AfterPop
      /\ \/ queued' = queued
         \/ queued' = <<>>
         \/ queued' = Append(queued, i)
  BY DEF SkipForeign, SkipDangling, Delay, SkipIrrelevant, FailAssess, EndLoad
<1>7. delayed' \in Seq(Indices) /\ queued' \in Seq(Indices)
  BY <1>1, <1>2, <1>5, <1>6
<1>8. proposals' = proposals \/ proposals' = WithChild(i)
  BY DEF SkipForeign, SkipDangling, Delay, SkipIrrelevant, FailAssess
<1>9. GoodCache(proposals')
  <2>1. GoodCache(proposals)
    BY DEF AgentInv, CacheIsSound, GoodCache
  <2>2. GoodCache(WithChild(i))
    BY <1>1, ChildCache
  <2> QED
    BY <1>8, <2>1, <2>2
<1>10. eliminations' = eliminations \/ eliminations' = Fetched(i)
  BY DEF SkipForeign, SkipDangling, Delay, SkipIrrelevant, FailAssess
<1>11. Faults(eliminations')
  BY <1>10, FetchedFaults DEF AgentInv
<1>12. Sound(tip')
  BY <1>3
<1> QED
  BY <1>4, <1>7, <1>9, <1>11, <1>12, LoadMoves

LEMMA StoreSound ==
  ASSUME LedgerInv, AgentInv, pc = "load", HasNext, UNCHANGED <<ledgerVars, count>>,
         NEW i, i = NextIndex, Store(i)
  PROVE  AgentInv'
<1>1. i \in Indices /\ i \in Nat /\ AfterPop \in Seq(Indices)
  BY NextIsGame
<1>2. PICK elims : elims = IF i = Root THEN eliminations ELSE Fetched(i)
  OBVIOUS
<1>3. PICK p : p = Loaded(elims, i)
  OBVIOUS
<1>4. /\ Participates(elims, i) /\ proposals' = WithProposal(elims, i)
      /\ delayed' = AfterPop /\ Advance(i)
      /\ tip' = tip \/ (tip' = i /\ p.canonical)
      /\ queued' = queued \/ queued' = <<>>
      /\ \/ eliminations' = elims
         \/ /\ eliminations' = [elims EXCEPT ![games[i].proposer] = i]
            /\ i # Root /\ Blamed(p)
  BY <1>2, <1>3 DEF Store
<1>5. Faults(elims)
  BY <1>2, FetchedFaults DEF AgentInv
<1>6. Faults(eliminations')
  <2>1. CASE eliminations' = elims
    BY <1>5, <2>1
  <2>2. CASE eliminations' = [elims EXCEPT ![games[i].proposer] = i] /\ i # Root /\ Blamed(p)
    <3>1. ~IsCorrect(i)
      BY <1>3, <2>2 DEF Blamed, Loaded
    <3>2. ~games[i].good
      BY <1>1, <1>4, <2>2, <3>1, BlamedIsFaulty
    <3>3. eliminations' \in [Proposers -> Nat]
      BY <1>1, <1>5, <2>2 DEF Faults
    <3>4. \A q \in Proposers : \/ eliminations'[q] = elims[q]
                               \/ eliminations'[q] = i /\ games[i].proposer = q
      BY <1>5, <2>2 DEF Faults
    <3> QED
      BY <1>1, <1>5, <3>2, <3>3, <3>4 DEF Faults
  <2> QED
    BY <1>4, <2>1, <2>2
<1>7. Sound(tip')
  <2>1. Sound(tip)
    BY DEF AgentInv
  <2>2. p.canonical => Sound(i)
    BY <1>1, <1>3, CorrectIsSound DEF Loaded, IsCanonical
  <2> QED
    BY <1>4, <2>1, <2>2
<1>8. GoodCache(proposals')
  BY <1>1, <1>4, ProposalCache
<1>9. next' \in Nat
  BY <1>4 DEF Advance, AgentInv, Queues
<1>10. delayed' \in Seq(Indices) /\ queued' \in Seq(Indices)
  <2>1. queued \in Seq(Indices) /\ <<>> \in Seq(Indices)
    BY DEF AgentInv, Queues
  <2> QED
    BY <1>1, <1>4, <2>1
<1> QED
  BY <1>6, <1>7, <1>8, <1>9, <1>10, LoadMoves

LEMMA LoadSound ==
  ASSUME LedgerInv, AgentInv, LoadNext
  PROVE  AgentInv'
<1>1. PICK i : i = NextIndex
  OBVIOUS
<1>2. \/ SkipForeign(i)
      \/ SkipDangling(i)
      \/ Delay(i)
      \/ SkipIrrelevant(i)
      \/ FailAssess(i)
      \/ Store(i)
  BY <1>1 DEF LoadNext
<1>3. pc = "load" /\ HasNext /\ UNCHANGED <<ledgerVars, count>>
  BY DEF LoadNext
<1> QED
  BY <1>1, <1>2, <1>3, SkipSound, StoreSound

LEMMA AgentStepSound ==
  ASSUME LedgerInv, AgentInv, AgentStep \/ Crash
  PROVE  LedgerInv' /\ AgentInv'
<1>1. UNCHANGED ledgerVars
  BY DEF AgentStep, Start, SyncOutputs, CountGames, LoadNext, LoadFails, LoadDone,
         FollowResolution, SyncReturns, Crash
<1>2. LedgerInv'
  BY <1>1, QuietLedger DEF ledgerVars
<1> QED
  BY <1>2, StartSound, BookkeepingSound, FollowSound, LoadSound DEF AgentStep

-----------------------------------------------------------------------------
LEMMA EnvironmentSound ==
  ASSUME LedgerInv, AgentInv, LedgerNext \/ UNCHANGED ledgerVars, UNCHANGED agentVars
  PROVE  LedgerInv' /\ AgentInv'
<1>1. LedgerInv' /\ GamesKept
  <2>1. CASE UNCHANGED <<games, resolved, round>>
    BY <2>1, QuietLedger
  <2>2. CASE LedgerNext /\ ~UNCHANGED <<games, resolved, round>>
    <3>1. CASE \E p \in Proposers, t \in Indices, ok \in BOOLEAN : Submit(p, t, ok)
      BY <3>1, SubmitLedger
    <3>2. CASE SubmitForeign
      BY <3>2, ForeignLedger
    <3>3. CASE \E t \in Indices : PruneSome(t)
      BY <3>3, PruneLedger
    <3>4. CASE ResolveRoot
      BY <3>4, RootLedger
    <3>5. CASE \E w \in Indices : ResolveGame(w)
      BY <3>5, ResolveLedger
    <3>6. CASE LedgerTick
      BY <2>2, <3>6 DEF LedgerTick
    <3> QED
      BY <2>2, <3>1, <3>2, <3>3, <3>4, <3>5, <3>6 DEF LedgerNext
  <2> QED
    BY <2>1, <2>2 DEF ledgerVars
<1> QED
  BY <1>1, AgentWaits

LEMMA InvariantIsFair ==
  ASSUME AgentInv
  PROVE  BlamesOnlyFaulty
BY DEF AgentInv, Faults, BlamesOnlyFaulty

\* The agent blames a proposer only for a faulty proposal of its own, whatever its
\* op-node lags behind, whichever loads fail and whenever it restarts.
THEOREM BlameIsFair == SyncSpec => []BlamesOnlyFaulty
<1>1. SyncInit => LedgerInv /\ AgentInv
  BY InitiallySound
<1>2. LedgerInv /\ AgentInv /\ [SyncNext]_syncVars => (LedgerInv /\ AgentInv)'
  <2> SUFFICES ASSUME LedgerInv, AgentInv, [SyncNext]_syncVars
               PROVE  LedgerInv' /\ AgentInv'
    OBVIOUS
  <2>1. CASE AgentStep \/ Crash
    BY <2>1, AgentStepSound
  <2>2. CASE Environment
    BY <2>2, EnvironmentSound DEF Environment, DeriveL2
  <2>3. CASE UNCHANGED syncVars
    BY <2>3, EnvironmentSound DEF syncVars
  <2> QED
    BY <2>1, <2>2, <2>3 DEF SyncNext
<1>3. AgentInv => BlamesOnlyFaulty
  BY InvariantIsFair
<1> QED
  BY <1>1, <1>2, <1>3, PTL DEF SyncSpec

-----------------------------------------------------------------------------
(***************************************************************************)
(* The proposer.                                                           *)
(***************************************************************************)

LEMMA HarmlessKept ==
  ASSUME GamesKept, NEW x, Harmless(x)
  PROVE  Harmless(x)'
BY SoundKept DEF Harmless, GamesKept

\* The proposer's account as the ledger moves on.
LEMMA AccountKept ==
  ASSUME LedgerInv, GamesKept, OwnInv,
         \A i \in Indices' \ Indices : games'[i].proposer = Me => Sound(i)',
         round'[Me] # round[Me] => \E c \in Indices : games[c].proposer = Me /\ ~games[c].good
  PROVE  (\A i \in Mine' : Sound(i)') /\ round'[Me] = 0
<1>1. ASSUME NEW i \in Mine' PROVE Sound(i)'
  <2>1. CASE i \in Indices
    <3>1. i \in Mine
      BY <1>1, <2>1 DEF Mine, GamesKept
    <3> QED
      BY <3>1, SoundKept DEF OwnInv
  <2>2. CASE i \notin Indices
    BY <1>1, <2>2 DEF Mine
  <2> QED
    BY <2>1, <2>2
<1>2. \A c \in Indices : games[c].proposer = Me => games[c].good
  BY DEF OwnInv, Mine, Sound
<1> QED
  BY <1>1, <1>2 DEF OwnInv

\* The transactions of the proposer are harmless: the ones it had, and the new one.
LEMMA OwnMoves ==
  ASSUME OwnInv, GamesKept, (\A i \in Mine' : Sound(i)') /\ round'[Me] = 0,
         turn' # "sync" => pc' # "off",
         \A x \in sent' : Harmless(x),
         turn' \in Sending \cup Waiting => Harmless(awaited')
  PROVE  OwnInv'
<1>1. PICK a : a = awaited'
  OBVIOUS
<1>2. turn' \in Sending \cup Waiting => Harmless(a)'
  BY <1>1, HarmlessKept
<1>3. (turn \in Sending \cup Waiting => Harmless(awaited))'
  BY <1>1, <1>2 DEF Harmless, Sending, Waiting
<1>4. \A x \in sent' : Harmless(x)'
  BY HarmlessKept
<1> QED
  BY <1>3, <1>4 DEF OwnInv

\* The steps of the proposer that leave the ledger alone.
LEMMA OwnStepSafe ==
  ASSUME LedgerInv, AgentInv, OwnInv,
         \/ Act
         \/ GiveUp
         \/ Restart
         \/ UNCHANGED proposeVars
         \/ DeriveL2 /\ UNCHANGED proposerVars
  PROVE  LedgerInv' /\ AgentInv' /\ OwnInv'
<1>1. UNCHANGED ledgerVars
  <2>1. AgentStep => UNCHANGED ledgerVars
    BY DEF AgentStep, Start, SyncOutputs, CountGames, LoadNext, LoadFails, LoadDone,
           FollowResolution, SyncReturns
  <2> QED
    BY <2>1 DEF Act, GiveUp, Restart, Sync, TryResolve, TryPropose, TipMissing, Broadcast,
                LoseReceipt, Crash, DeriveL2, syncVars, proposeVars
<1>2. LedgerInv' /\ GamesKept
  BY <1>1, QuietLedger DEF ledgerVars
<1>3. AgentInv'
  <2>1. CASE Sync \/ Restart
    BY <2>1, AgentStepSound DEF Sync, Restart
  <2>2. CASE TipMissing
    <3>1. UNCHANGED <<delayed, queued, next, count, proposals, eliminations>> /\ pc' = "off"
      BY <2>2 DEF TipMissing, cursorVars, localVars
    <3>2. /\ delayed' \in Seq(Indices) /\ queued' \in Seq(Indices) /\ next' \in Nat
          /\ count' \in Nat /\ 0..(count' - 1) \subseteq Indices
          /\ DOMAIN proposals' \subseteq Indices
          /\ \A j \in DOMAIN proposals' :
               /\ proposals'[j] \in ProposalRecords
               /\ proposals'[j].canonical => proposals'[j].correct
               /\ proposals'[j].correct => Sound(j)
          /\ Faults(eliminations')
      BY <3>1 DEF AgentInv, Queues, CacheIsSound
    <3> QED
      BY <1>1, <3>1, <3>2, AgentMoves
  <2>3. CASE UNCHANGED agentVars
    BY <1>2, <2>3, AgentWaits
  <2> QED
    BY <2>1, <2>2, <2>3 DEF Act, GiveUp, TryResolve, TryPropose, Broadcast, LoseReceipt,
                            DeriveL2, syncVars, proposeVars
<1>4. (\A i \in Mine' : Sound(i)') /\ round'[Me] = 0
  BY <1>1, <1>2, SoundKept DEF OwnInv, Mine, ledgerVars, Indices
<1>5. turn' # "sync" => pc' # "off"
  <2>1. CASE Sync \/ Restart \/ TipMissing
    BY <2>1 DEF Sync, Restart, TipMissing
  <2>2. CASE turn # "sync" /\ pc' = pc
    BY <2>2 DEF OwnInv
  <2>3. CASE turn' = turn /\ pc' = pc
    BY <2>3 DEF OwnInv
  <2> QED
    BY <2>1, <2>2, <2>3 DEF Act, GiveUp, TryResolve, TryPropose, Broadcast, LoseReceipt,
         DeriveL2, syncVars, proposeVars, proposerVars, agentVars, Sending, Waiting
<1>6. \A x \in sent' : Harmless(x)
  <2>1. CASE sent' = sent
    BY <2>1 DEF OwnInv
  <2>2. CASE turn \in Sending /\ sent' = sent \cup {awaited}
    BY <2>2 DEF OwnInv
  <2> QED
    BY <2>1, <2>2 DEF Act, GiveUp, Restart, Sync, TryResolve, TryPropose, TipMissing, Broadcast,
                      LoseReceipt, AfterTx, proposeVars, proposerVars
<1>7. ASSUME turn' \in Sending \cup Waiting PROVE Harmless(awaited')
  <2>1. CASE TryResolve
    <3>1. \E g \in Indices : awaited' = ResolveTx(g)
      BY <1>7, <2>1 DEF TryResolve, Sending, Waiting
    <3> QED
      BY <3>1 DEF Harmless, ResolveTx
  <2>2. CASE TryPropose
    <3>1. awaited' = ProposeTx(tip, Cardinality(Dupes(tip))) /\ turn = "propose"
      BY <1>7, <2>2 DEF TryPropose, Sending, Waiting
    <3>2. Sound(tip)
      BY <3>1 DEF OwnInv, AgentInv
    <3> QED
      BY <3>1, <3>2 DEF Harmless, ProposeTx
  <2>3. CASE turn \in Sending \cup Waiting /\ awaited' = awaited
    BY <2>3 DEF OwnInv
  <2> QED
    BY <1>7, <2>1, <2>2, <2>3 DEF Act, GiveUp, Restart, Sync, TipMissing, Broadcast,
         LoseReceipt, AfterTx, proposeVars, proposerVars, Sending, Waiting
<1> QED
  BY <1>2, <1>3, <1>4, <1>5, <1>6, <1>7, OwnMoves

\* Others move the ledger; none of them proposes in the proposer's name.
LEMMA WorldSafe ==
  ASSUME LedgerInv, AgentInv, OwnInv, World
  PROVE  LedgerInv' /\ AgentInv' /\ OwnInv'
<1>1. UNCHANGED agentVars /\ UNCHANGED proposerVars
  BY DEF World
<1>2. /\ LedgerInv' /\ GamesKept
      /\ \A i \in Indices' \ Indices : games'[i].proposer = Me => Sound(i)'
      /\ round'[Me] # round[Me] => \E c \in Indices : games[c].proposer = Me /\ ~games[c].good
  <2>1. CASE \E p \in Rivals, t \in Indices, ok \in BOOLEAN : Submit(p, t, ok)
    <3>1. PICK p \in Proposers, t \in Indices, ok \in BOOLEAN : p # Me /\ Submit(p, t, ok)
      BY <2>1 DEF Rivals
    <3>2. PICK n : n = GameCount
      OBVIOUS
    <3>3. /\ LedgerInv' /\ GamesKept /\ Indices' = Indices \cup {n}
          /\ games'[n].proposer = p /\ UNCHANGED round
      BY <3>1, <3>2, SubmitLedger
    <3> QED
      BY <3>1, <3>3
  <2>2. CASE \E t \in Indices : PruneSome(t)
    <3>1. /\ LedgerInv' /\ GamesKept /\ UNCHANGED games
          /\ \A p \in Proposers : round'[p] # round[p] =>
               \E c \in Indices : games[c].proposer = p /\ ~games[c].good
      BY <2>2, PruneLedger
    <3> QED
      BY <3>1, ProposerAssumption DEF Indices
  <2>3. CASE ResolveRoot
    <3>1. LedgerInv' /\ GamesKept /\ UNCHANGED <<games, round>>
      BY <2>3, RootLedger DEF ResolveRoot
    <3> QED
      BY <3>1 DEF Indices
  <2>4. CASE \E w \in Indices : ResolveGame(w)
    <3>1. /\ LedgerInv' /\ GamesKept /\ UNCHANGED games
          /\ \A p \in Proposers : round'[p] # round[p] =>
               \E c \in Indices : games[c].proposer = p /\ ~games[c].good
      BY <2>4, ResolveLedger
    <3> QED
      BY <3>1, ProposerAssumption DEF Indices
  <2>5. CASE LedgerTick
    <3>1. LedgerInv' /\ GamesKept /\ UNCHANGED <<games, round>>
      BY <2>5, QuietLedger DEF LedgerTick
    <3> QED
      BY <3>1 DEF Indices
  <2> QED
    BY <2>1, <2>2, <2>3, <2>4, <2>5 DEF World
<1>3. (\A i \in Mine' : Sound(i)') /\ round'[Me] = 0
  BY <1>2, AccountKept
<1>4. /\ turn' # "sync" => pc' # "off"
      /\ \A x \in sent' : Harmless(x)
      /\ turn' \in Sending \cup Waiting => Harmless(awaited')
  BY <1>1 DEF OwnInv, proposerVars, agentVars
<1>5. OwnInv'
  BY <1>2, <1>3, <1>4, OwnMoves
<1> QED
  BY <1>1, <1>2, <1>5, AgentWaits

\* A transaction is mined long after it was decided on, or after its successor.
LEMMA MinedSafe ==
  ASSUME LedgerInv, AgentInv, OwnInv, NEW x \in sent, Mined(x)
  PROVE  LedgerInv' /\ AgentInv' /\ OwnInv'
<1>1. Executes(x) /\ sent' = {} /\ UNCHANGED agentVars /\ Harmless(x)
  BY DEF Mined, OwnInv
<1>2. /\ LedgerInv' /\ GamesKept
      /\ \A i \in Indices' \ Indices : games'[i].proposer = Me => Sound(i)'
      /\ round'[Me] # round[Me] => \E c \in Indices : games[c].proposer = Me /\ ~games[c].good
  <2>1. CASE ~Succeeds(x)
    <3>1. UNCHANGED <<games, resolved, round>>
      BY <1>1, <2>1 DEF Executes, ledgerVars
    <3>2. LedgerInv' /\ GamesKept
      BY <3>1, QuietLedger
    <3> QED
      BY <3>1, <3>2 DEF Indices
  <2>2. CASE Succeeds(x) /\ x.call = "resolve"
    <3>1. ResolveGame(x.game) /\ x.game \in Indices
      BY <1>1, <2>2 DEF Executes, Harmless
    <3>2. /\ LedgerInv' /\ GamesKept /\ UNCHANGED games
          /\ \A p \in Proposers : round'[p] # round[p] =>
               \E c \in Indices : games[c].proposer = p /\ ~games[c].good
      BY <3>1, ResolveLedger
    <3> QED
      BY <3>2, ProposerAssumption DEF Indices
  <2>3. CASE Succeeds(x) /\ x.call # "resolve"
    <3>1. PICK t : t = x.game
      OBVIOUS
    <3>2. Submit(Me, t, TRUE) /\ Sound(t) /\ t \in Indices
      BY <1>1, <2>3, <3>1 DEF Executes, Harmless, Sound
    <3>3. PICK n : n = GameCount
      OBVIOUS
    <3>4. /\ LedgerInv' /\ GamesKept /\ Indices' = Indices \cup {n}
          /\ games'[n].parent = t /\ games'[n].good = TRUE /\ UNCHANGED round
      BY <3>2, <3>3, SubmitLedger, ProposerAssumption
    <3>5. Sound(t)'
      BY <3>2, <3>4, SoundKept
    <3>6. Sound(n)'
      <4>1. PICK S \in SUBSET Indices' :
              t \in S /\ \A k \in S : games'[k].good /\ games'[k].parent \in S
        BY <3>5 DEF Sound
      <4>2. S \cup {n} \in SUBSET Indices'
        BY <3>4
      <4>3. \A k \in S \cup {n} : games'[k].good /\ games'[k].parent \in S \cup {n}
        BY <3>4, <4>1
      <4> QED
        BY <4>2, <4>3 DEF Sound
    <3> QED
      BY <3>4, <3>6
  <2> QED
    BY <2>1, <2>2, <2>3
<1>3. (\A i \in Mine' : Sound(i)') /\ round'[Me] = 0
  BY <1>2, AccountKept
<1>4. turn' # "sync" => pc' # "off"
  BY <1>1 DEF Mined, AfterTx, OwnInv, agentVars, Waiting
<1>5. turn' \in Sending \cup Waiting => Harmless(awaited')
  <2>1. turn' \in Sending \cup Waiting => turn' = turn /\ awaited' = awaited
    BY DEF Mined, AfterTx, Sending, Waiting
  <2> QED
    BY <2>1 DEF OwnInv
<1>6. OwnInv'
  BY <1>1, <1>2, <1>3, <1>4, <1>5, OwnMoves
<1> QED
  BY <1>1, <1>2, <1>6, AgentWaits

LEMMA ProposerInvariant == ProposerSpec => [](LedgerInv /\ AgentInv /\ OwnInv)
<1>1. ProposerInit => LedgerInv /\ AgentInv /\ OwnInv
  <2> SUFFICES ASSUME ProposerInit PROVE LedgerInv /\ AgentInv /\ OwnInv
    OBVIOUS
  <2>1. LedgerInv /\ AgentInv
    BY InitiallySound DEF ProposerInit
  <2>2. Mine = {} /\ round[Me] = 0
    <3>1. games[Root].proposer = NoProposer /\ Indices = {Root} /\ Me # NoProposer
      BY LedgerAssumption, ProposerAssumption DEF ProposerInit, SyncInit, LedgerInit, GameOf,
                                                  Indices
    <3>2. round = [p \in Proposers |-> 0] /\ Me \in Proposers
      BY ProposerAssumption DEF ProposerInit, SyncInit, LedgerInit
    <3> QED
      BY <3>1, <3>2 DEF Mine
  <2>3. turn = "sync" /\ sent = {}
    BY DEF ProposerInit
  <2> QED
    BY <2>1, <2>2, <2>3 DEF OwnInv, Sending, Waiting
<1>2. LedgerInv /\ AgentInv /\ OwnInv /\ [ProposerNext]_proposeVars
        => (LedgerInv /\ AgentInv /\ OwnInv)'
  BY OwnStepSafe, WorldSafe, MinedSafe DEF ProposerNext
<1> QED
  BY <1>1, <1>2, PTL DEF ProposerSpec

\* The bond of a proposer that only runs the agent is never lost: whatever its op-node
\* lags behind, whichever transactions come late, twice or after its death.
THEOREM BondStaysSafe == ProposerSpec => []BondIsSafe
<1>1. OwnInv => BondIsSafe
  BY SoundAncestry DEF OwnInv, BondIsSafe
<1> QED
  BY <1>1, ProposerInvariant, PTL

\* Running the proposer's loop around the agent does not make it blame anybody else.
THEOREM ProposerBlamesFairly == ProposerSpec => []BlamesOnlyFaulty
<1>1. AgentInv => BlamesOnlyFaulty
  BY InvariantIsFair
<1> QED
  BY <1>1, ProposerInvariant, PTL

-----------------------------------------------------------------------------
(***************************************************************************)
(* The chain of resolved games, and the order of a proposer's games.       *)
(***************************************************************************)

LEMMA LedgerTypes ==
  ASSUME LedgerInv, Climbing, ChainResolved
  PROVE  /\ Root = 0 /\ Root \in Indices /\ Indices \subseteq Nat /\ resolved \subseteq Indices
         /\ \A i \in Indices : Height(i) \in Nat /\ Parent(i) \in Indices /\ games[i].at \in Int
         /\ \A w \in resolved : games[w].good
         /\ \A p \in Proposers : round[p] \in Nat
         /\ \A p \in Proposers : round[p] # 0 => /\ round[p] \in Indices \ {Root} /\ games[round[p]].proposer = p
                                               /\ ~games[round[p]].good
         /\ Timeout \in Nat
<1>1. Root = 0 /\ Root \in Indices /\ Indices \subseteq Nat
  BY LedgerCount DEF Root
<1>2. \A w \in resolved : games[w].good
  BY DEF LedgerInv, Sound
<1> QED
  BY <1>1, <1>2, LedgerAssumption DEF LedgerInv, Faults, Climbing, ChainResolved, Height, Parent

\* A game of a proposer, and its place in the tree.
LEMMA ChildFacts ==
  ASSUME LedgerInv, Climbing, ChainResolved, NEW t, NEW c \in Children(t)
  PROVE  /\ c \in Indices \ {Root} /\ games[c].ours /\ Parent(c) = t /\ t \in Indices /\ t < c
         /\ games[t].ours /\ Height(c) = Height(t) + 1 /\ games[c].proposer \in Proposers
BY LedgerTypes DEF Children, Climbing, Parent

LEMMA SameHeight ==
  ASSUME LedgerInv, Climbing, ChainResolved, NEW v \in resolved, NEW w \in resolved
  PROVE  /\ Height(v) = Height(w) => v = w
         /\ Height(v) < Height(w) => v < w
BY LedgerTypes DEF ChainResolved

\* The tournament that is open is that of the highest resolved game.
LEMMA OpenIsLast ==
  ASSUME LedgerInv, Climbing, ChainResolved, NEW t \in resolved, ~Decided(t), NEW v \in resolved
  PROVE  Height(v) <= Height(t) /\ v <= t
<1>1. SUFFICES ASSUME Height(v) > Height(t) PROVE FALSE
  BY LedgerTypes, SameHeight
<1>2. Height(v) \in Nat /\ Height(t) \in Nat /\ Height(t) + 1 \in 0..Height(v)
  BY <1>1, LedgerTypes
<1>3. PICK x \in resolved : Height(x) = Height(t) + 1
  BY <1>2 DEF ChainResolved
<1>4. x # Root /\ x \in Indices
  BY <1>2, <1>3, LedgerTypes DEF Climbing
<1>5. games[x].ours /\ Parent(x) \in resolved /\ Height(x) = Height(Parent(x)) + 1
  BY <1>3, <1>4 DEF ChainResolved, Climbing
<1>6. Parent(x) = t
  BY <1>2, <1>3, <1>5, SameHeight, LedgerTypes
<1> QED
  BY <1>3, <1>4, <1>5, <1>6 DEF Decided, Children, Parent

\* A resolved game on a resolved one decides its tournament.
LEMMA HigherDecides ==
  ASSUME LedgerInv, Climbing, ChainResolved, NEW t \in resolved, NEW v \in resolved,
         Height(t) < Height(v)
  PROVE  Decided(t)
BY OpenIsLast, LedgerTypes

\* Two games of one proposer differ in height.
LEMMA OneGamePerHeight ==
  ASSUME LedgerInv, Climbing, ChainResolved, NEW c \in Indices \ {Root}, NEW d \in Indices \ {Root},
         games[c].ours, games[d].ours, games[c].proposer = games[d].proposer
  PROVE  /\ Height(c) = Height(d) => c = d
         /\ Height(c) < Height(d) => c < d
BY LedgerTypes DEF Climbing

\* Whoever is not out in an open tournament was never eliminated.
LEMMA FaultyIsFresh ==
  ASSUME LedgerInv, Climbing, ChainResolved, NEW t \in resolved, ~Decided(t), NEW c \in Faulty(t)
  PROVE  /\ c \in Children(t) /\ ~games[c].good /\ round[games[c].proposer] = 0
         /\ \A v \in resolved \ {Root} : games[v].proposer = games[c].proposer => v < c
<1>1. c \in Children(t) /\ ~games[c].good /\ ~Out(c)
  BY DEF Faulty
<1>2. PICK r : r = round[games[c].proposer]
  OBVIOUS
<1>3. /\ c \in Indices \ {Root} /\ games[c].ours /\ Height(c) = Height(t) + 1
      /\ games[c].proposer \in Proposers
  BY <1>1, ChildFacts
<1>4. r = 0
  <2> SUFFICES ASSUME r # 0 PROVE FALSE
    OBVIOUS
  <2>1. /\ r \in Indices \ {Root} /\ games[r].proposer = games[c].proposer
        /\ games[r].ours /\ Parent(r) \in resolved /\ r \in Nat
    BY <1>2, <1>3, LedgerTypes DEF ChainResolved
  <2>2. Height(r) = Height(Parent(r)) + 1 /\ Height(Parent(r)) <= Height(t)
    BY <2>1, OpenIsLast DEF Climbing
  <2>3. Height(r) <= Height(c)
    <3>1. /\ Parent(r) \in Indices /\ t \in Indices
          /\ Height(Parent(r)) \in Nat /\ Height(t) \in Nat /\ Height(r) \in Nat /\ Height(c) \in Nat
      BY <1>3, <2>1, LedgerTypes
    <3> QED
      BY <1>3, <2>2, <3>1
  <2>4. r <= c
    BY <1>3, <2>1, <2>3, OneGamePerHeight, LedgerTypes
  <2> QED
    BY <1>1, <1>2, <2>4 DEF Out
<1>5. ASSUME NEW v \in resolved \ {Root}, games[v].proposer = games[c].proposer
      PROVE  v < c
  <2>1. Height(v) <= Height(t) /\ games[v].ours /\ v \in Indices \ {Root}
    BY <1>5, OpenIsLast, LedgerTypes DEF ChainResolved
  <2> QED
    BY <1>3, <1>5, <2>1, OneGamePerHeight, LedgerTypes
<1> QED
  BY <1>1, <1>2, <1>4, <1>5

\* Pruning an open tournament eliminates at a game of it, and only once.
LEMMA EliminateEffect ==
  ASSUME LedgerInv, Climbing, ChainResolved, NEW t \in resolved, ~Decided(t),
         NEW E \in SUBSET Faulty(t), Eliminate(E), UNCHANGED games
  PROVE  /\ \A p \in Proposers : \/ round'[p] = round[p]
                                \/ /\ round[p] = 0 /\ round'[p] \in E
                                   /\ games[round'[p]].proposer = p
         /\ \A c \in E : round'[games[c].proposer] = c
         /\ \A i \in Indices \ {Root} : games[i].ours /\ Out(i) => Out(i)'
         /\ \A c \in E : Out(c)'
         /\ \A v \in resolved \ {Root} : ~Out(v)'
<1>1. \A c \in E : /\ c \in Children(t) /\ c \in Indices \ {Root} /\ c \in Nat /\ games[c].ours
                   /\ Height(c) = Height(t) + 1 /\ games[c].proposer \in Proposers
                   /\ round[games[c].proposer] = 0
                   /\ \A v \in resolved \ {Root} : games[v].proposer = games[c].proposer => v < c
  BY FaultyIsFresh, ChildFacts, LedgerTypes
<1>2. ASSUME NEW c \in E PROVE round'[games[c].proposer] = c
  <2>1. PICK p \in Proposers : p = games[c].proposer
    BY <1>1
  <2>2. round'[p] = CHOOSE d \in E : games[d].proposer = p
    BY <2>1 DEF Eliminate
  <2>3. PICK d \in E : d = round'[p] /\ games[d].proposer = p
    BY <2>1, <2>2
  <2>4. d = c
    BY <1>1, <2>1, <2>3, OneGamePerHeight
  <2> QED
    BY <2>1, <2>3, <2>4
<1>3. ASSUME NEW p \in Proposers
      PROVE  \/ round'[p] = round[p]
             \/ round[p] = 0 /\ round'[p] \in E /\ games[round'[p]].proposer = p
  <2>1. CASE \E c \in E : games[c].proposer = p
    BY <1>1, <1>2, <2>1
  <2>2. CASE ~\E c \in E : games[c].proposer = p
    BY <2>2 DEF Eliminate
  <2> QED
    BY <2>1, <2>2
<1>4. \A i \in Indices \ {Root} : games[i].ours /\ Out(i) => Out(i)'
  BY <1>3 DEF Out, Climbing
<1>5. \A c \in E : Out(c)'
  BY <1>1, <1>2, LedgerTypes DEF Out
<1>6. ASSUME NEW v \in resolved \ {Root} PROVE ~Out(v)'
  <2>1. ~Out(v) /\ games[v].proposer \in Proposers /\ v \in Nat
    BY LedgerTypes DEF ChainResolved, WonBy, Climbing
  <2>2. PICK p \in Proposers : p = games[v].proposer
    BY <2>1
  <2>3. CASE round'[p] = round[p]
    BY <2>1, <2>2, <2>3 DEF Out
  <2>4. CASE round'[p] \in E /\ games[round'[p]].proposer = p
    <3>1. v < round'[p] /\ round'[p] \in Nat
      BY <1>1, <2>2, <2>4
    <3> QED
      BY <2>1, <2>2, <3>1 DEF Out
  <2> QED
    BY <1>3, <2>2, <2>3, <2>4
<1> QED
  BY <1>2, <1>3, <1>4, <1>5, <1>6

\* A new game of a proposer leaves the decided tournaments alone.
LEMMA SubmitChain ==
  ASSUME LedgerInv, Climbing, ChainResolved,
         NEW p \in Proposers, NEW t \in Indices, NEW ok \in BOOLEAN, Submit(p, t, ok)
  PROVE  Climbing' /\ ChainResolved'
<1>1. PICK n : n = GameCount
  OBVIOUS
<1>2. /\ GamesKept /\ Indices' = Indices \cup {n} /\ n \notin Indices /\ n \in Nat
      /\ \A i \in Indices : i < n
      /\ games'[n].parent = t /\ games'[n].proposer = p /\ games'[n].ours
      /\ games'[n].height = games[t].height + 1 /\ games'[n].at = now
  <2>1. PICK claim : AddGame(GameOf(t, p, ok, claim, games[t].height + 1))
    BY DEF Submit
  <2>2. PICK g : g = GameOf(t, p, ok, claim, games[t].height + 1)
    OBVIOUS
  <2>3. /\ g.parent = t /\ g.height = games[t].height + 1 /\ g.proposer = p /\ g.at = now
        /\ g.ours
    BY <2>2 DEF GameOf
  <2>4. AddGame(g)
    BY <2>1, <2>2
  <2>5. \A i \in 0..(n - 1) : i < n
    BY <1>1, LedgerCount
  <2> QED
    BY <1>1, <2>3, <2>4, <2>5, AddGameKeeps, LedgerCount
<1>3. UNCHANGED <<resolved, round, now>> /\ CanSubmit(p, t)
  BY DEF Submit
<1>4. Root \in Indices /\ games'[Root] = games[Root] /\ n # Root
  BY <1>2, LedgerTypes DEF GamesKept
<1>5. Climbing'
  <2>1. games'[Root].ours /\ Height(Root)' = 0 /\ now' \in Int
    BY <1>3, <1>4 DEF Climbing, Height
  <2>2. \A i \in Indices' : games'[i].at \in Int
    BY <1>2 DEF Climbing, GamesKept
  <2>3. ASSUME NEW i \in Indices' \ {Root}, games'[i].ours
        PROVE  /\ Parent(i)' < i /\ games'[Parent(i)'].ours /\ Height(i)' = Height(Parent(i))' + 1
               /\ games'[i].proposer \in Proposers
    <3>1. CASE i \in Indices
      BY <1>2, <2>3, <3>1, LedgerTypes DEF Climbing, GamesKept, Height, Parent
    <3>2. CASE i = n
      BY <1>2, <1>3, <3>2 DEF GamesKept, Height, Parent, CanSubmit
    <3> QED
      BY <1>2, <3>1, <3>2
  <2>4. ASSUME NEW i \in Indices' \ {Root}, NEW j \in Indices' \ {Root}, games'[i].ours,
               games'[j].ours, games'[i].proposer = games'[j].proposer, i < j
        PROVE  Height(i)' < Height(j)'
    <3>1. CASE j \in Indices
      <4>1. i \in Indices
        BY <1>2, <2>4, <3>1, LedgerTypes
      <4> QED
        BY <1>2, <2>4, <3>1, <4>1 DEF Climbing, GamesKept, Height
    <3>2. CASE j = n
      <4>1. i \in Indices
        BY <1>2, <2>4, <3>2
      <4>2. games[i].height <= games[t].height /\ games[i].height \in Nat /\ games[t].height \in Nat
        BY <1>2, <1>3, <2>4, <3>2, <4>1, LedgerTypes DEF CanSubmit, GamesKept, Height
      <4> QED
        BY <1>2, <3>2, <4>1, <4>2 DEF GamesKept, Height
    <3> QED
      BY <1>2, <3>1, <3>2
  <2> QED
    BY <2>1, <2>2, <2>3, <2>4 DEF Climbing
<1>6. ChainResolved'
  <2>1. \A i \in Indices : Height(i)' = Height(i) /\ Parent(i)' = Parent(i) /\ games'[i] = games[i]
    BY <1>2 DEF GamesKept, Height, Parent
  <2>2. resolved' = resolved /\ resolved' \subseteq Indices /\ resolved' \subseteq Indices'
    BY <1>2, <1>3 DEF ChainResolved
  <2>3. ASSUME NEW w \in resolved' \ {Root}
        PROVE  games'[w].ours /\ Parent(w)' \in resolved' /\ WonBy(w)'
    <3>1. games[w].ours /\ Parent(w) \in resolved /\ WonBy(w) /\ w \in Indices
      BY <1>3, <2>2, <2>3 DEF ChainResolved
    <3>2. Decided(Parent(w))
      BY <1>3, <2>3, <3>1 DEF Decided, Children, Parent
    <3>3. Children(Parent(w))' = Children(Parent(w))
      <4>1. Parent(w) # t
        BY <1>3, <3>2 DEF CanSubmit
      <4> QED
        BY <1>2, <2>1, <3>1, <4>1 DEF Children, Parent
    <3>4. \A c \in Indices : Out(c)' = Out(c)
      BY <1>3, <2>1 DEF Out
    <3>5. Children(Parent(w)) \subseteq Indices
      BY DEF Children
    <3> QED
      BY <1>3, <2>1, <3>1, <3>3, <3>4, <3>5 DEF WonBy
  <2>4. \A v, w \in resolved' : v < w => Height(v)' < Height(w)'
    BY <2>1, <2>2 DEF ChainResolved
  <2>5. \A w \in resolved' : \A h \in 0..Height(w)' : \E v \in resolved' : Height(v)' = h
    BY <2>1, <2>2 DEF ChainResolved
  <2>6. \A q \in Proposers : round'[q] # 0 => games'[round'[q]].ours /\ Parent(round[q])' \in resolved'
    BY <1>3, <2>1, LedgerTypes DEF ChainResolved
  <2> QED
    BY <2>2, <2>3, <2>4, <2>5, <2>6 DEF ChainResolved
<1> QED
  BY <1>5, <1>6

\* Neither does a game of another deployment.
LEMMA ForeignChain ==
  ASSUME LedgerInv, Climbing, ChainResolved, SubmitForeign
  PROVE  Climbing' /\ ChainResolved'
<1>1. PICK n : n = GameCount
  OBVIOUS
<1>2. /\ GamesKept /\ Indices' = Indices \cup {n} /\ n \notin Indices /\ n \in Nat
      /\ ~games'[n].ours /\ games'[n].at = now
  <2>1. PICK same \in BOOLEAN : AddGame([GameOf(Root, NoProposer, FALSE, FALSE, 0)
                                         EXCEPT !.ours = FALSE, !.kailua = same])
    BY DEF SubmitForeign
  <2>2. PICK g : g = [GameOf(Root, NoProposer, FALSE, FALSE, 0)
                       EXCEPT !.ours = FALSE, !.kailua = same]
    OBVIOUS
  <2>3. AddGame(g) /\ g.ours = FALSE /\ g.at = now
    BY <2>1, <2>2 DEF GameOf
  <2> QED
    BY <1>1, <2>3, AddGameKeeps, LedgerCount
<1>3. UNCHANGED <<resolved, round, now>>
  BY DEF SubmitForeign
<1>4. Root \in Indices /\ games'[Root] = games[Root] /\ n # Root
  BY <1>2, LedgerTypes DEF GamesKept
<1>5. \A i \in Indices : Height(i)' = Height(i) /\ Parent(i)' = Parent(i) /\ games'[i] = games[i]
  BY <1>2 DEF GamesKept, Height, Parent
<1>6. \A i \in Indices' : games'[i].ours => i \in Indices
  BY <1>2
<1>7. Climbing'
  <2>1. games'[Root].ours /\ Height(Root)' = 0 /\ now' \in Int
    BY <1>3, <1>4 DEF Climbing, Height
  <2>2. \A i \in Indices' : games'[i].at \in Int
    BY <1>2 DEF Climbing, GamesKept
  <2>3. \A i \in Indices' \ {Root} : games'[i].ours =>
          /\ Parent(i)' < i /\ games'[Parent(i)'].ours /\ Height(i)' = Height(Parent(i))' + 1
          /\ games'[i].proposer \in Proposers
    BY <1>5, <1>6, LedgerTypes DEF Climbing, Height, Parent
  <2>4. \A i, j \in Indices' \ {Root} :
          /\ games'[i].ours /\ games'[j].ours /\ games'[i].proposer = games'[j].proposer /\ i < j
          => Height(i)' < Height(j)'
    BY <1>5, <1>6 DEF Climbing
  <2> QED
    BY <2>1, <2>2, <2>3, <2>4 DEF Climbing, Height, Parent
<1>8. ChainResolved'
  <2>1. resolved' = resolved /\ resolved' \subseteq Indices /\ resolved' \subseteq Indices'
    BY <1>2, <1>3 DEF ChainResolved
  <2>2. ASSUME NEW w \in resolved' \ {Root}
        PROVE  games'[w].ours /\ Parent(w)' \in resolved' /\ WonBy(w)'
    <3>1. games[w].ours /\ Parent(w) \in resolved /\ WonBy(w) /\ w \in Indices
      BY <1>3, <2>1, <2>2 DEF ChainResolved
    <3>2. Children(Parent(w))' = Children(Parent(w))
      BY <1>2, <1>5, <1>6, <3>1 DEF Children, Parent
    <3>3. \A c \in Indices : Out(c)' = Out(c)
      BY <1>3, <1>5 DEF Out
    <3>4. Children(Parent(w)) \subseteq Indices
      BY DEF Children
    <3> QED
      BY <1>3, <1>5, <3>1, <3>2, <3>3, <3>4 DEF WonBy
  <2>3. \A v, w \in resolved' : v < w => Height(v)' < Height(w)'
    BY <1>5, <2>1 DEF ChainResolved
  <2>4. \A w \in resolved' : \A h \in 0..Height(w)' : \E v \in resolved' : Height(v)' = h
    BY <1>5, <2>1 DEF ChainResolved
  <2>5. \A q \in Proposers : round'[q] # 0 => games'[round'[q]].ours /\ Parent(round[q])' \in resolved'
    BY <1>3, <1>5, LedgerTypes DEF ChainResolved
  <2> QED
    BY <2>1, <2>2, <2>3, <2>4, <2>5 DEF ChainResolved
<1> QED
  BY <1>7, <1>8

LEMMA ClimbingKept ==
  ASSUME LedgerInv, Climbing, UNCHANGED games, now' \in Int
  PROVE  Climbing'
BY DEF Climbing, Indices, Height, Parent

\* Pruning an open tournament leaves the decided ones won.
LEMMA PruneChain ==
  ASSUME LedgerInv, Climbing, ChainResolved, NEW t \in Indices, PruneSome(t)
  PROVE  Climbing' /\ ChainResolved'
<1>1. t \in resolved /\ ~Decided(t) /\ UNCHANGED <<games, resolved, now>>
  BY DEF PruneSome
<1>2. PICK E \in SUBSET Faulty(t) : Eliminate(E)
  BY DEF PruneSome
<1>3. /\ \A p \in Proposers : \/ round'[p] = round[p]
                              \/ round'[p] \in E
      /\ \A i \in Indices \ {Root} : games[i].ours /\ Out(i) => Out(i)'
      /\ \A v \in resolved \ {Root} : ~Out(v)'
  BY <1>1, <1>2, EliminateEffect
<1>4. E \subseteq Children(t)
  BY <1>2 DEF Faulty
<1>5. Climbing'
  BY <1>1, ClimbingKept DEF Climbing
<1>6. \A i \in Indices : Height(i)' = Height(i) /\ Parent(i)' = Parent(i)
  BY <1>1 DEF Height, Parent
<1>7. \A w \in resolved \ {Root} : games'[w].ours /\ Parent(w)' \in resolved' /\ WonBy(w)'
  <2> SUFFICES ASSUME NEW w \in resolved \ {Root}
               PROVE  games'[w].ours /\ Parent(w)' \in resolved' /\ WonBy(w)'
    OBVIOUS
  <2>1. games[w].ours /\ Parent(w) \in resolved /\ WonBy(w) /\ w \in Indices
    BY DEF ChainResolved
  <2>2. Children(Parent(w))' = Children(Parent(w)) /\ Parent(w)' = Parent(w)
    BY <1>1, <1>6, <2>1 DEF Children, Parent, Indices
  <2>3. \A c \in Children(Parent(w)) : Out(c) => Out(c)'
    BY <1>3 DEF Children
  <2> QED
    BY <1>1, <1>3, <2>1, <2>2, <2>3 DEF WonBy
<1>8. \A q \in Proposers : round'[q] # 0 => games'[round'[q]].ours /\ Parent(round[q])' \in resolved'
  <2> SUFFICES ASSUME NEW q \in Proposers, round'[q] # 0
               PROVE  games'[round'[q]].ours /\ games'[round'[q]].parent \in resolved'
    BY DEF Parent
  <2>1. CASE round'[q] = round[q]
    BY <1>1, <2>1 DEF ChainResolved, Parent
  <2>2. CASE round'[q] \in E
    BY <1>1, <1>4, <2>2 DEF Children
  <2> QED
    BY <1>3, <2>1, <2>2
<1>9. ChainResolved'
  BY <1>1, <1>6, <1>7, <1>8 DEF ChainResolved, Indices
<1> QED
  BY <1>5, <1>9

\* A tournament decided.
LEMMA ResolveChain ==
  ASSUME LedgerInv, Climbing, ChainResolved, NEW w \in Indices, ResolveGame(w)
  PROVE  /\ Climbing' /\ ChainResolved' /\ Parent(w) \in resolved /\ ~Decided(Parent(w))
         /\ \A v \in resolved : v < w /\ Height(v) < Height(w)
         /\ w \in Children(Parent(w))
<1>1. PICK t : t = Parent(w)
  OBVIOUS
<1>2. /\ w # Root /\ games[w].ours /\ t \in resolved /\ ~Decided(t) /\ Survivor(w)
      /\ Eliminate(Beaten(w)) /\ resolved' = resolved \cup {w} /\ UNCHANGED <<games, now>>
  BY <1>1 DEF ResolveGame, CanResolve, Parent
<1>3. PICK E \in SUBSET Faulty(t) : E = Beaten(w) /\ Eliminate(E)
  BY <1>1, <1>2 DEF Beaten, Parent
<1>4. /\ \A p \in Proposers : \/ round'[p] = round[p]
                              \/ round'[p] \in E /\ games[round'[p]].proposer = p
      /\ \A i \in Indices \ {Root} : games[i].ours /\ Out(i) => Out(i)'
      /\ \A c \in E : Out(c)'
      /\ \A v \in resolved \ {Root} : ~Out(v)'
  BY <1>2, <1>3, EliminateEffect
<1>5. w \in Children(t) /\ Height(w) = Height(t) + 1 /\ t < w /\ t \in Indices /\ w \in Nat
  BY <1>1, <1>2, ChildFacts, LedgerTypes DEF Children, Parent
<1>6. \A v \in resolved : v < w /\ Height(v) < Height(w)
  BY <1>2, <1>5, OpenIsLast, LedgerTypes
<1>7. Climbing'
  BY <1>2, ClimbingKept DEF Climbing
<1>8. \A i \in Indices : Height(i)' = Height(i) /\ Parent(i)' = Parent(i)
  BY <1>2 DEF Height, Parent
<1>9. E \subseteq Children(t) /\ \A c \in E : ~games[c].good
  BY <1>3 DEF Faulty
<1>10. WonBy(w)'
  <2>1. ~Out(w)'
    <3>1. PICK p \in Proposers : p = games[w].proposer
      BY <1>5, ChildFacts
    <3>2. CASE round'[p] = round[p]
      BY <1>2, <3>1, <3>2 DEF Out, Survivor
    <3>3. CASE round'[p] \in E /\ games[round'[p]].proposer = p
      <4>1. PICK c \in E : c = round'[p] /\ games[c].proposer = p
        BY <3>3
      <4>2. c \in Indices \ {Root} /\ games[c].ours /\ Height(c) = Height(w)
        BY <1>5, <1>9, <4>1, ChildFacts
      <4>3. c = w
        BY <1>2, <3>1, <4>1, <4>2, OneGamePerHeight
      <4> QED
        BY <1>2, <1>9, <4>3 DEF Survivor
    <3> QED
      BY <1>4, <3>1, <3>2, <3>3
  <2>2. Children(Parent(w))' = Children(t)
    BY <1>1, <1>2, <1>8 DEF Children, Parent, Indices
  <2>3. ASSUME NEW c \in Children(t), games[c].good /\ c < w
        PROVE  Out(c)'
    <3>1. Out(c)
      BY <1>1, <1>2, <2>3 DEF Survivor, Parent
    <3> QED
      BY <1>4, <3>1, ChildFacts
  <2>4. ASSUME NEW c \in Children(t), ~games[c].good
        PROVE  Out(c)' \/ (c > w /\ games[c].at - games[w].at >= Timeout)
    <3>1. CASE Out(c)
      BY <1>4, <3>1, ChildFacts
    <3>2. CASE ~Out(c)
      <4>1. c \in Faulty(t)
        BY <2>4, <3>2 DEF Faulty
      <4>2. c \in Beaten(w) \/ ~(c < w \/ games[c].at - games[w].at < Timeout)
        BY <1>1, <4>1 DEF Beaten, Parent
      <4>3. c # w /\ c \in Indices /\ c \in Nat /\ Timeout \in Int
        BY <1>2, <2>4, ChildFacts, LedgerTypes DEF Survivor
      <4>4. games[c].at \in Int /\ games[w].at \in Int
        BY <4>3 DEF Climbing
      <4> QED
        BY <1>3, <1>4, <1>5, <4>2, <4>3, <4>4
    <3> QED
      BY <3>1, <3>2
  <2> QED
    BY <1>2, <2>1, <2>2, <2>3, <2>4 DEF WonBy
<1>11. \A v \in resolved' \ {Root} : games'[v].ours /\ Parent(v)' \in resolved' /\ WonBy(v)'
  <2> SUFFICES ASSUME NEW v \in resolved \ {Root}
               PROVE  games'[v].ours /\ Parent(v)' \in resolved' /\ WonBy(v)'
    BY <1>1, <1>2, <1>8, <1>10
  <2>1. games[v].ours /\ Parent(v) \in resolved /\ WonBy(v) /\ v \in Indices
    BY DEF ChainResolved
  <2>2. Children(Parent(v))' = Children(Parent(v)) /\ Parent(v)' = Parent(v)
    BY <1>2, <1>8, <2>1 DEF Children, Parent, Indices
  <2>3. \A c \in Children(Parent(v)) : Out(c) => Out(c)'
    BY <1>4 DEF Children
  <2> QED
    BY <1>2, <1>4, <2>1, <2>2, <2>3 DEF WonBy
<1>12. \A u, v \in resolved' : u < v => Height(u)' < Height(v)'
  BY <1>2, <1>6, <1>8, LedgerTypes DEF ChainResolved
<1>13. \A v \in resolved' : \A h \in 0..Height(v)' : \E x \in resolved' : Height(x)' = h
  <2>1. \A v \in resolved : \A h \in 0..Height(v) : \E x \in resolved : Height(x) = h
    BY DEF ChainResolved
  <2>2. \A h \in 0..Height(w) : h = Height(w) \/ h \in 0..Height(t)
    BY <1>5, LedgerTypes
  <2> QED
    BY <1>2, <1>8, <2>1, <2>2, LedgerTypes
<1>14. \A q \in Proposers : round'[q] # 0 => games'[round'[q]].ours /\ Parent(round[q])' \in resolved'
  <2> SUFFICES ASSUME NEW q \in Proposers, round'[q] # 0
               PROVE  games'[round'[q]].ours /\ games'[round'[q]].parent \in resolved'
    BY DEF Parent
  <2>1. CASE round'[q] = round[q]
    BY <1>2, <2>1 DEF ChainResolved, Parent
  <2>2. CASE round'[q] \in E
    BY <1>2, <1>9, <2>2 DEF Children
  <2> QED
    BY <1>4, <2>1, <2>2
<1>15. ChainResolved'
  <2>1. resolved' \subseteq Indices'
    BY <1>2 DEF ChainResolved, Indices
  <2> QED
    BY <1>11, <1>12, <1>13, <1>14, <2>1 DEF ChainResolved
<1> QED
  BY <1>1, <1>2, <1>5, <1>6, <1>7, <1>15

LEMMA RootChain ==
  ASSUME LedgerInv, Climbing, ChainResolved, ResolveRoot
  PROVE  Climbing' /\ ChainResolved' /\ resolved = {}
<1>1. Root \notin resolved /\ resolved' = {Root} /\ UNCHANGED <<games, round, now>>
  BY DEF ResolveRoot
<1>2. resolved = {}
  <2> SUFFICES ASSUME NEW w \in resolved PROVE FALSE
    OBVIOUS
  <2>1. PICK v \in resolved : Height(v) = 0
    BY LedgerTypes DEF ChainResolved
  <2>2. v # Root /\ v \in Indices /\ games[v].ours
    BY <1>1, <2>1 DEF ChainResolved
  <2> QED
    BY <2>1, <2>2, LedgerTypes DEF Climbing
<1>3. Climbing'
  BY <1>1, ClimbingKept DEF Climbing
<1>4. \A q \in Proposers : round[q] = 0
  BY <1>2 DEF ChainResolved
<1>5. Root \in Indices' /\ Height(Root)' = 0
  BY <1>1, LedgerTypes DEF Height, Climbing, Indices
<1>6. \A w \in resolved' : \A h \in 0..Height(w)' : \E v \in resolved' : Height(v)' = h
  BY <1>1, <1>5
<1>7. ChainResolved'
  <2>1. \A v, w \in resolved' : ~(v < w)
    BY <1>1 DEF Root
  <2> QED
    BY <1>1, <1>4, <1>5, <1>6, <2>1 DEF ChainResolved
<1> QED
  BY <1>2, <1>3, <1>7

LEMMA QuietChain ==
  ASSUME LedgerInv, Climbing, ChainResolved, UNCHANGED <<games, resolved, round>>, now' \in Int
  PROVE  Climbing' /\ ChainResolved'
<1>1. Climbing'
  BY ClimbingKept
<1>2. ChainResolved'
  BY DEF ChainResolved, Indices, Height, Parent, WonBy, Children, Out
<1> QED
  BY <1>1, <1>2

-----------------------------------------------------------------------------
(***************************************************************************)
(* The games that the agent follows, and the chain of resolved games.      *)
(***************************************************************************)

LEMMA FollowedFacts ==
  ASSUME LedgerInv, AgentInv, GuessInv
  PROVE  /\ next \in Nat
         /\ \A c \in Followed : /\ c \in DOMAIN proposals /\ c \in Indices /\ c \in Nat /\ c < next
                                /\ games[c].ours /\ games[c].good /\ Height(c) \in Nat
         /\ \A c \in Followed \ {Root} :
              /\ c \in Children(Parent(c)) /\ Parent(c) \in Indices /\ Parent(c) < c
              /\ Height(c) = Height(Parent(c)) + 1 /\ games[c].proposer \in Proposers
         /\ \A c, d \in Followed : /\ Height(c) = Height(d) => c = d
                                   /\ Height(c) < Height(d) => c < d
         /\ Followed # {} => tip \in Followed /\ lastResolved \in Followed \cap resolved
<1>1. next \in Nat /\ Followed \subseteq DOMAIN proposals /\ DOMAIN proposals \subseteq Indices
  BY DEF AgentInv, Queues, CacheIsSound, Followed
<1>2. \A c \in Followed : games[c].good
  BY DEF AgentInv, CacheIsSound, Followed, Sound
<1>3. \A c \in DOMAIN proposals : c < next /\ games[c].ours
  BY DEF GuessInv, NothingDelayed
<1>4. Climbing /\ ChainResolved
  BY DEF GuessInv
<1>5. \A c \in Followed : /\ c \in DOMAIN proposals /\ c \in Indices /\ c \in Nat /\ c < next
                          /\ games[c].ours /\ games[c].good /\ Height(c) \in Nat
  BY <1>1, <1>2, <1>3, <1>4, LedgerTypes
<1>6. \A c \in Followed \ {Root} : c \in Children(Parent(c))
  BY <1>5 DEF Children, Parent
<1>7. \A c \in Followed \ {Root} :
        /\ Parent(c) \in Indices /\ Parent(c) < c
        /\ Height(c) = Height(Parent(c)) + 1 /\ games[c].proposer \in Proposers
  BY <1>4, <1>6, ChildFacts
<1>8. \A c, d \in Followed : c < d => Height(c) < Height(d)
  BY DEF GuessInv, FollowedIsChain
<1>9. \A c, d \in Followed : /\ Height(c) = Height(d) => c = d
                             /\ Height(c) < Height(d) => c < d
  BY <1>5, <1>8
<1>10. Followed # {} => tip \in Followed /\ lastResolved \in Followed \cap resolved
  BY DEF GuessInv, NothingDelayed, Followed
<1> QED
  BY <1>1, <1>5, <1>6, <1>7, <1>9, <1>10

\* What the agent follows up to a resolved game is resolved.
LEMMA LowFollowed ==
  ASSUME LedgerInv, AgentInv, GuessInv, NEW c \in Followed, NEW v \in resolved
  PROVE  /\ Height(c) <= Height(v) => c \in resolved
         /\ Height(c) < Height(v) => Decided(c)
<1>1. Climbing /\ ChainResolved /\ FollowedIsRight
  BY DEF GuessInv
<1>2. Height(c) <= Height(v) => c \in resolved
  <2>1. Height(c) <= Height(v) => Height(c) \in 0..Height(v)
    BY <1>1, FollowedFacts, LedgerTypes
  <2>2. Height(c) <= Height(v) => \E x \in resolved : Height(x) = Height(c)
    BY <1>1, <2>1 DEF ChainResolved
  <2> QED
    BY <1>1, <2>2 DEF FollowedIsRight
<1> QED
  BY <1>1, <1>2, HigherDecides, FollowedFacts, LedgerTypes

\* The agent follows the last resolved game when it follows one as high.
LEMMA OpenFollowed ==
  ASSUME LedgerInv, AgentInv, GuessInv, NEW t \in resolved, ~Decided(t),
         NEW c \in Followed, Height(t) <= Height(c)
  PROVE  t \in Followed
<1>1. Climbing /\ ChainResolved /\ FollowedIsRight /\ FollowedIsChain
  BY DEF GuessInv
<1>2. lastResolved \in Followed \cap resolved
  BY FollowedFacts
<1>3. Height(lastResolved) <= Height(t)
  BY <1>1, <1>2, OpenIsLast
<1>4. Height(t) \in Height(lastResolved)..Height(c)
  BY <1>1, <1>2, <1>3, FollowedFacts, LedgerTypes
<1>5. PICK x \in Followed : Height(x) = Height(t)
  BY <1>1, <1>2, <1>4 DEF FollowedIsChain
<1> QED
  BY <1>1, <1>5 DEF FollowedIsRight

\* Two survivors of a tournament are one.
LEMMA OneSurvivor ==
  ASSUME LedgerInv, NEW t, NEW v \in Children(t), NEW w \in Children(t), Survivor(v), Survivor(w)
  PROVE  v = w
<1>1. v \in Nat /\ w \in Nat /\ games[v].parent = t /\ games[w].parent = t
  BY LedgerCount DEF Children
<1>2. ~(v < w) /\ ~(w < v)
  BY <1>1 DEF Survivor
<1> QED
  BY <1>1, <1>2

\* The blame that the chain has not seen is for a game of an open tournament.
LEMMA BlameIsHigh ==
  ASSUME LedgerInv, AgentInv, GuessInv, NEW t \in resolved, NEW c \in Children(t),
         EliminatedBefore(eliminations, c)
  PROVE  Out(c)
<1>1. PICK p \in Proposers : p = games[c].proposer
  BY ChildFacts DEF GuessInv
<1>2. PICK e : e = eliminations[p] /\ e # 0 /\ e < c
  BY <1>1 DEF EliminatedBefore
<1>3. CASE round[p] = e
  BY <1>1, <1>2, <1>3, ChildFacts, LedgerTypes DEF Out, GuessInv
<1>4. CASE Foreseen(p, e)
  <2>1. PICK u : u = Parent(e)
    OBVIOUS
  <2>2. u \in Followed /\ ~Decided(u) /\ e \in Children(u) /\ games[e].proposer = p
    BY <1>4, <2>1 DEF Foreseen
  <2>3. Climbing /\ ChainResolved
    BY DEF GuessInv
  <2>4. /\ e \in Indices \ {Root} /\ games[e].ours /\ Height(e) = Height(u) + 1
        /\ c \in Indices \ {Root} /\ games[c].ours /\ Height(c) = Height(t) + 1
    BY <2>2, <2>3, ChildFacts
  <2>5. Height(e) < Height(c)
    BY <1>1, <1>2, <2>2, <2>3, <2>4 DEF Climbing
  <2>6. Height(u) < Height(t)
    BY <2>2, <2>3, <2>4, <2>5, LedgerTypes, FollowedFacts
  <2> QED
    BY <2>2, <2>6, LowFollowed
<1> QED
  BY <1>2, <1>3, <1>4 DEF GuessInv, BlamesForeseen

\* The successor that the agent expects survives the open tournament.
LEMMA SuccessorSurvives ==
  ASSUME LedgerInv, AgentInv, GuessInv, NEW t \in Followed \cap resolved, ~Decided(t),
         NEW s, s = SuccessorOf(t), s # None
  PROVE  s \in Followed \ {Root} /\ s \in Children(t) /\ Survivor(s)
<1>1. s \in Followed \ {Root} /\ Parent(s) = t
  BY FollowedFacts DEF GuessInv, FollowedIsChain
<1>2. s \in Children(t) /\ games[s].good /\ s \in Nat /\ s < next /\ ~Out(s)
  BY <1>1, FollowedFacts DEF GuessInv, FollowedIsRight
<1>3. ASSUME NEW c \in Children(t), c < s, games[c].good PROVE Out(c)
  <2>1. c < next /\ c \in Nat
    <3>1. next \in Nat
      BY DEF AgentInv, Queues
    <3>2. c \in Indices
      BY DEF Children
    <3>3. c \in Nat
      BY <3>2, LedgerTypes DEF GuessInv
    <3> QED
      BY <1>2, <1>3, <3>1, <3>3
  <2>2. \/ c = SuccessorOf(t) \/ (SuccessorOf(t) # None /\ SuccessorOf(t) < c)
        \/ EliminatedBefore(eliminations, c)
    BY <1>3, <2>1 DEF GuessInv, ChildrenSeen
  <2>3. EliminatedBefore(eliminations, c)
    BY <1>2, <1>3, <2>1, <2>2
  <2> QED
    BY <1>3, <2>3, BlameIsHigh
<1> QED
  BY <1>1, <1>2, <1>3 DEF Survivor, Parent

\* What the chain resolves next is what the agent expects.
LEMMA ResolvesExpected ==
  ASSUME LedgerInv, AgentInv, GuessInv, NEW w \in Indices, CanResolve(w)
  PROVE  /\ \A c \in Followed : Height(c) = Height(w) => c = w
         /\ w < next /\ DOMAIN proposals # {} => w \in Followed
<1>1. PICK t : t = Parent(w)
  OBVIOUS
<1>2. Climbing /\ ChainResolved /\ FollowedIsRight /\ FollowedIsChain
  BY DEF GuessInv
<1>3. t \in resolved /\ ~Decided(t) /\ Survivor(w) /\ w \in Children(t)
  BY <1>1 DEF CanResolve, Children, Parent
<1>4. Height(w) = Height(t) + 1 /\ t < w /\ Height(t) \in Nat /\ t \in Nat /\ w \in Nat
  BY <1>2, <1>3, ChildFacts, LedgerTypes
<1>5. Followed # {} => lastResolved \in Followed \cap resolved /\ Height(lastResolved) <= Height(t)
                       /\ lastResolved <= t
  BY <1>2, <1>3, FollowedFacts, OpenIsLast
<1>6. ASSUME NEW c \in Followed, Height(c) = Height(w) PROVE c = w
  <2>1. t \in Followed
    BY <1>3, <1>4, <1>6, OpenFollowed
  <2>2. c # Root
    BY <1>2, <1>4, <1>6 DEF Climbing
  <2>3. t < c
    BY <1>4, <1>6, <2>1, FollowedFacts
  <2>4. Parent(c) \in Followed /\ Height(Parent(c)) = Height(t)
    <3>1. Parent(c) \in Followed
      BY <1>2, <2>1, <2>3 DEF FollowedIsChain
    <3>2. Height(c) = Height(Parent(c)) + 1 /\ Height(Parent(c)) \in Nat
      BY <2>2, <3>1, FollowedFacts
    <3> QED
      BY <1>4, <1>6, <3>1, <3>2
  <2>5. Parent(c) = t
    BY <2>1, <2>4, FollowedFacts
  <2>6. SuccessorOf(t) = c
    BY <1>2, <2>1, <2>2, <2>5, FollowedFacts DEF FollowedIsChain
  <2>7. c # None
    BY FollowedFacts DEF None
  <2> QED
    BY <1>3, <2>1, <2>6, <2>7, SuccessorSurvives, OneSurvivor
<1>7. ASSUME w < next, DOMAIN proposals # {} PROVE w \in Followed
  <2>1. lastResolved \in Followed /\ lastResolved \in DOMAIN proposals /\ lastResolved <= t
    BY <1>5, <1>7, FollowedFacts DEF GuessInv, NothingDelayed
  <2>2. t < next
    BY <1>4, <1>7, FollowedFacts
  <2>3. t \in Followed
    BY <1>2, <1>3, <2>1, <2>2 DEF FollowedIsRight
  <2>4. \/ w = SuccessorOf(t) \/ (SuccessorOf(t) # None /\ SuccessorOf(t) < w)
        \/ EliminatedBefore(eliminations, w)
    BY <1>3, <1>7, <2>3 DEF GuessInv, ChildrenSeen, Survivor
  <2>5. CASE SuccessorOf(t) # None
    BY <1>3, <2>3, <2>5, SuccessorSurvives, OneSurvivor
  <2>6. CASE SuccessorOf(t) = None
    <3>1. EliminatedBefore(eliminations, w)
      BY <1>4, <2>4, <2>6 DEF None
    <3> QED
      BY <1>3, <3>1, BlameIsHigh DEF Survivor
  <2> QED
    BY <2>5, <2>6
<1> QED
  BY <1>6, <1>7

\* What the chain prunes is what the agent expects.
LEMMA PrunesExpected ==
  ASSUME LedgerInv, AgentInv, GuessInv, NEW t \in resolved, ~Decided(t), NEW e \in Faulty(t),
         \A w \in Children(t) : Survivor(w) => e \in Beaten(w)
  PROVE  /\ \A c \in Followed \ {Root} : games[c].proposer = games[e].proposer => c < e
         /\ eliminations[games[e].proposer] \in {0, e}
<1>1. Climbing /\ ChainResolved /\ FollowedIsRight /\ FollowedIsChain
  BY DEF GuessInv
<1>2. /\ e \in Children(t) /\ ~games[e].good /\ e \in Indices \ {Root} /\ e \in Nat /\ games[e].ours
      /\ Height(e) = Height(t) + 1 /\ Height(t) \in Nat /\ round[games[e].proposer] = 0
      /\ games[e].proposer \in Proposers
  BY <1>1, FaultyIsFresh, ChildFacts, LedgerTypes
<1>3. PICK p \in Proposers : p = games[e].proposer
  BY <1>2
<1>4. ASSUME t \in Followed, e < next
      PROVE  eliminations[p] # 0 /\ eliminations[p] <= e
  <2>1. ~TooLate(t, e)
    <3> SUFFICES ASSUME TooLate(t, e) PROVE FALSE
      OBVIOUS
    <3>1. PICK s : s = SuccessorOf(t) /\ s # None /\ s < e /\ games[e].at - games[s].at >= Timeout
      BY DEF TooLate
    <3>2. s \in Children(t) /\ Survivor(s)
      BY <1>4, <3>1, SuccessorSurvives
    <3>3. e < s \/ games[e].at - games[s].at < Timeout
      BY <3>2 DEF Beaten
    <3>4. s \in Nat /\ games[e].at \in Int /\ games[s].at \in Int /\ Timeout \in Int
      <4>1. s \in Indices
        BY <1>1, <3>2, ChildFacts
      <4> QED
        BY <1>1, <1>2, <4>1, LedgerTypes
    <3> QED
      BY <1>2, <3>1, <3>3, <3>4
  <2> QED
    BY <1>2, <1>3, <1>4, <2>1 DEF GuessInv, ChildrenSeen
<1>5. ASSUME NEW c \in Followed \ {Root}, games[c].proposer = p PROVE c < e
  <2> SUFFICES ASSUME ~(c < e) PROVE FALSE
    OBVIOUS
  <2>1. c \in Nat /\ e < c
    BY <1>2, <1>5, FollowedFacts
  <2>2. Height(e) < Height(c)
    BY <1>1, <1>2, <1>3, <1>5, <2>1, FollowedFacts DEF Climbing
  <2>3. t \in Followed
    BY <1>2, <2>2, OpenFollowed, FollowedFacts
  <2>4. e < next
    BY <1>2, <2>1, FollowedFacts
  <2>5. EliminatedBefore(eliminations, c)
    <3>1. eliminations[p] \in Nat
      BY DEF AgentInv, Faults
    <3> QED
      BY <1>2, <1>4, <1>5, <2>1, <2>3, <2>4, <3>1 DEF EliminatedBefore
  <2> QED
    BY <1>1, <2>5 DEF FollowedIsRight
<1>6. eliminations[p] \in {0, e}
  <2> SUFFICES ASSUME eliminations[p] # 0, eliminations[p] # e PROVE FALSE
    OBVIOUS
  <2>1. PICK k : k = eliminations[p]
    OBVIOUS
  <2>2. Foreseen(p, k)
    BY <1>2, <1>3, <2>1 DEF GuessInv, BlamesForeseen
  <2>3. PICK u : u = Parent(k)
    OBVIOUS
  <2>4. u \in Followed /\ ~Decided(u) /\ k \in Children(u) /\ games[k].proposer = p /\ k < next
    BY <2>2, <2>3 DEF Foreseen
  <2>5. k \in Indices \ {Root} /\ k \in Nat /\ games[k].ours /\ Height(k) = Height(u) + 1 /\ Height(u) \in Nat
    BY <1>1, <2>4, ChildFacts, FollowedFacts, LedgerTypes
  <2>6. ~(Height(u) < Height(t))
    BY <2>4, LowFollowed
  <2>7. CASE Height(u) = Height(t)
    BY <1>1, <1>2, <1>3, <2>1, <2>4, <2>5, <2>7, OneGamePerHeight
  <2>8. CASE Height(t) < Height(u)
    <3>1. e < k
      BY <1>1, <1>2, <1>3, <2>4, <2>5, <2>8, OneGamePerHeight
    <3>2. t \in Followed
      BY <1>2, <2>4, <2>5, <2>8, OpenFollowed
    <3>3. e < next
      BY <1>2, <2>4, <2>5, <3>1, FollowedFacts
    <3> QED
      BY <1>2, <1>4, <2>1, <2>5, <3>1, <3>2, <3>3
  <2> QED
    BY <1>2, <2>5, <2>6, <2>7, <2>8
<1> QED
  BY <1>3, <1>5, <1>6

-----------------------------------------------------------------------------
(***************************************************************************)
(* The ledger moves on under the agent, as it expects.                     *)
(***************************************************************************)

LEMMA AncestryKept ==
  ASSUME LedgerInv, GamesKept, NEW i \in Indices, NEW j \in Ancestry(i)
  PROVE  j \in Ancestry(i)'
<1>1. j \in Indices' /\ j \in Indices
  BY DEF Ancestry, GamesKept
<1>2. ASSUME NEW S \in SUBSET Indices', i \in S, \A k \in S : games'[k].parent \in S
      PROVE  j \in S
  <2>1. PICK T \in SUBSET Indices : T = S \cap Indices
    OBVIOUS
  <2>2. \A k \in T : games[k].parent \in T
    BY <1>2, <2>1 DEF LedgerInv, GamesKept
  <2> QED
    BY <1>2, <2>1, <2>2 DEF Ancestry
<1> QED
  BY <1>1, <1>2 DEF Ancestry

\* The agent's part of the invariant depends on what the ledger does with rounds and
\* resolutions.
LEMMA LedgerGuess ==
  ASSUME LedgerInv, AgentInv, GuessInv, GamesKept, LedgerInv', UNCHANGED agentVars,
         Climbing', ChainResolved', resolved \subseteq resolved', safe <= safe',
         safe' \in Int,
         \A c \in Followed \ {Root} : ~Out(c)',
         \A c \in Followed, x \in resolved' : Height(x)' = Height(c) => x = c,
         \A w \in resolved' : w < next /\ DOMAIN proposals # {} => w \in Followed \/ w \in resolved,
         \A p \in Proposers, e \in Nat : e = eliminations[p] /\ e # 0 =>
           round'[p] = e \/ (Foreseen(p, e) /\ round'[p] = 0 /\ ~Decided(Parent(e))')
  PROVE  GuessInv'
<1>1. UNCHANGED <<pc, tip, next, delayed, queued, lastResolved, proposals, eliminations, safe0>>
  BY DEF agentVars, cursorVars, localVars
<1>2. /\ Followed' = Followed
      /\ \A t : SuccessorOf(t)' = SuccessorOf(t)
  BY <1>1 DEF Followed, SuccessorOf
<1>3. \A i \in Indices : Height(i)' = Height(i) /\ Parent(i)' = Parent(i) /\ games'[i] = games[i]
  BY DEF GamesKept, Height, Parent
<1>4. DOMAIN proposals \subseteq Indices /\ Followed \subseteq Indices /\ Followed \subseteq DOMAIN proposals
  BY DEF AgentInv, CacheIsSound, Followed
<1>5. NothingDelayed'
  <2>1. NothingDelayed
    BY DEF GuessInv
  <2>2. next <= GameCount'
    <3>1. GameCount \in Nat /\ GameCount' \in Nat /\ GameCount <= GameCount'
      <4>1. Indices = 0..(GameCount - 1) /\ GameCount \in Nat /\ GameCount > 0
        BY LedgerCount
      <4>2. Indices' = 0..(GameCount' - 1) /\ GameCount' \in Nat
        <5>1. PICK n \in 1..MaxGames : Indices' = 0..(n - 1)
          BY DEF LedgerInv
        <5>2. n \in Nat /\ n > 0
          BY <5>1, LedgerAssumption
        <5>3. Cardinality(0..(n - 1)) = IF 0 > n - 1 THEN 0 ELSE (n - 1) - 0 + 1
          <6>1. 0 \in Int /\ n - 1 \in Int
            BY <5>2
          <6> QED
            BY ONLY <6>1, FS_Interval, Zenon
        <5>4. GameCount' = n
          BY <5>1, <5>2, <5>3 DEF GameCount
        <5> QED
          BY <5>1, <5>2, <5>4
      <4>3. GameCount - 1 \in Indices'
        BY <4>1 DEF GamesKept
      <4>4. PICK m : m = GameCount
        OBVIOUS
      <4>5. PICK n : n = GameCount'
        OBVIOUS
      <4>6. m \in Nat /\ n \in Nat /\ m - 1 \in 0..(n - 1)
        BY <4>1, <4>2, <4>3, <4>4, <4>5
      <4>7. m <= n
        BY <4>6
      <4> QED
        BY <4>4, <4>5, <4>6, <4>7
    <3> QED
      BY <2>1, <3>1, FollowedFacts DEF NothingDelayed
  <2>3. \E s \in InitialSafe : s <= safe' /\ (pc' \in {"count", "load"} => s <= safe0')
    <3>1. PICK s \in InitialSafe : s <= safe /\ (pc \in {"count", "load"} => s <= safe0)
      BY <2>1 DEF NothingDelayed
    <3>2. s \in Int /\ safe \in Int
      BY <2>1, <3>1, SyncAssumption DEF NothingDelayed
    <3> QED
      BY <1>1, <3>1, <3>2
  <2> QED
    BY <1>1, <1>2, <1>3, <1>4, <2>1, <2>2, <2>3 DEF NothingDelayed
<1>6. FollowedIsChain'
  <2>1. FollowedIsChain
    BY DEF GuessInv
  <2>2. \A c \in Followed : c <= tip' /\ c \in Ancestry(tip)'
    <3> SUFFICES ASSUME NEW c \in Followed PROVE c <= tip' /\ c \in Ancestry(tip)'
      OBVIOUS
    <3>1. PICK u \in Indices : u = tip /\ u = tip'
      BY <1>1, <1>4, FollowedFacts
    <3>2. c \in Ancestry(u) /\ c <= tip
      BY <2>1, <3>1 DEF FollowedIsChain
    <3>3. c \in Ancestry(u)'
      BY <3>2, AncestryKept
    <3> QED
      BY <3>1, <3>2, <3>3 DEF Ancestry
  <2>3. \A c, d \in Followed : \A h \in Height(c)'..Height(d)' : \E x \in Followed : Height(x)' = h
    BY <1>3, <1>4, <2>1 DEF FollowedIsChain
  <2>4. \A c \in Followed : Height(c)' = Height(c) /\ Parent(c)' = Parent(c)
    BY <1>3, <1>4
  <2>5. \A c, d \in Followed' : c < d => Height(c)' < Height(d)' /\ Parent(d)' \in Followed'
    BY <1>2, <2>1, <2>4 DEF FollowedIsChain
  <2>6. \A t \in DOMAIN proposals' : SuccessorOf(t)' # None =>
          t \in Followed' /\ SuccessorOf(t)' \in Followed' \ {Root} /\ Parent(SuccessorOf(t))' = t
    BY <1>1, <1>2, <2>1, <2>4 DEF FollowedIsChain, Parent
  <2>7. \A c \in Followed' \ {Root} : Parent(c)' \in DOMAIN proposals' => SuccessorOf(Parent(c))' = c
    BY <1>1, <1>2, <2>1, <2>4 DEF FollowedIsChain, Parent, SuccessorOf
  <2> QED
    BY <1>2, <2>2, <2>3, <2>5, <2>6, <2>7 DEF FollowedIsChain
<1>7. FollowedIsRight'
  <2>1. FollowedIsRight
    BY DEF GuessInv
  <2>2. \A c \in Followed' \ {Root} : ~Out(c)' /\ ~EliminatedBefore(eliminations, c)'
    BY <1>1, <1>2, <1>3, <1>4, <2>1 DEF FollowedIsRight, EliminatedBefore
  <2>3. \A c \in Followed', x \in resolved' : Height(x)' = Height(c)' => x = c
    BY <1>2, <1>3, <1>4
  <2>4. \A w \in resolved' : w < next' /\ (\E t \in DOMAIN proposals' : t <= w) => w \in Followed'
    BY <1>1, <1>2, <2>1 DEF FollowedIsRight
  <2> QED
    BY <2>2, <2>3, <2>4 DEF FollowedIsRight
<1>8. ASSUME NEW t \in Indices, NEW c \in Children(t)', c < next
      PROVE  c \in Children(t) /\ games'[c] = games[c] /\ c \in Indices
  <2>1. next <= GameCount /\ next \in Nat /\ c \in Indices'
    BY <1>8, FollowedFacts DEF GuessInv, NothingDelayed, Children
  <2>2. c \in Nat
    BY <2>1 DEF LedgerInv
  <2>3. c \in Indices
    BY <1>8, <2>1, <2>2, LedgerCount
  <2> QED
    BY <1>3, <1>8, <2>3 DEF Children
<1>9. \A t \in Followed : \A c \in Indices : TooLate(t, c)' = TooLate(t, c)
  <2>1. \A t \in Followed : SuccessorOf(t) # None => games'[SuccessorOf(t)] = games[SuccessorOf(t)]
    BY <1>3, <1>4 DEF GuessInv, FollowedIsChain
  <2> QED
    BY <1>2, <1>3, <2>1 DEF TooLate
<1>10. ChildrenSeen'
  <2>1. ChildrenSeen
    BY DEF GuessInv
  <2> SUFFICES ASSUME NEW t \in Followed, NEW c \in Children(t)', c < next
               PROVE  IF games'[c].good
                      THEN \/ c = SuccessorOf(t)' \/ (SuccessorOf(t)' # None /\ SuccessorOf(t)' < c)
                           \/ EliminatedBefore(eliminations, c)'
                      ELSE \/ eliminations'[games'[c].proposer] # 0 /\ eliminations'[games'[c].proposer] <= c
                           \/ TooLate(t, c)'
    BY <1>1, <1>2 DEF ChildrenSeen
  <2>2. c \in Children(t) /\ games'[c] = games[c] /\ c \in Indices
    BY <1>4, <1>8
  <2> QED
    BY <1>1, <1>2, <1>9, <2>1, <2>2 DEF ChildrenSeen, EliminatedBefore
<1>11. BlamesForeseen'
  <2> SUFFICES ASSUME NEW p \in Proposers, NEW e, e = eliminations[p], e # 0, round'[p] # e
               PROVE  Foreseen(p, e)'
    BY <1>1 DEF BlamesForeseen
  <2>1. Foreseen(p, e) /\ round'[p] = 0 /\ ~Decided(Parent(e))'
    BY DEF AgentInv, Faults
  <2>2. e \in Indices /\ Parent(e)' = Parent(e) /\ games'[e] = games[e]
    BY <1>3, <2>1 DEF Foreseen, Children
  <2>3. Parent(e) \in Followed /\ e \in Children(Parent(e))
    BY <2>1 DEF Foreseen
  <2>4. e \in Children(Parent(e))'
    BY <1>3, <2>2, <2>3 DEF Children, GamesKept, Parent
  <2>5. ~TooLate(Parent(e), e)'
    <3>1. ~TooLate(Parent(e), e)
      BY <2>1 DEF Foreseen
    <3>2. PICK u : u = Parent(e)
      OBVIOUS
    <3>3. TooLate(u, e)' = TooLate(u, e)
      BY <1>9, <2>2, <2>3, <3>2
    <3> QED
      BY <2>2, <3>1, <3>2, <3>3 DEF TooLate, SuccessorOf
  <2> QED
    BY <1>1, <1>2, <2>1, <2>2, <2>3, <2>4, <2>5 DEF Foreseen
<1> QED
  BY <1>5, <1>6, <1>7, <1>10, <1>11 DEF GuessInv

\* The chain eliminates nobody that the agent follows, and whom the agent blames where
\* the agent blames it.
LEMMA EliminatesExpected ==
  ASSUME LedgerInv, AgentInv, GuessInv, NEW t \in resolved, ~Decided(t), NEW E \in SUBSET Faulty(t),
         \A w \in Children(t) : Survivor(w) => E \subseteq Beaten(w),
         Eliminate(E), UNCHANGED games
  PROVE  /\ \A c \in Followed \ {Root} : ~Out(c)'
         /\ \A p \in Proposers, e \in Nat : e = eliminations[p] /\ e # 0 =>
              round'[p] = e \/ (Foreseen(p, e) /\ round'[p] = 0)
<1>1. Climbing /\ ChainResolved
  BY DEF GuessInv
<1>2. \A p \in Proposers : \/ round'[p] = round[p]
                           \/ round[p] = 0 /\ round'[p] \in E /\ games[round'[p]].proposer = p
  BY <1>1, EliminateEffect
<1>3. \A e \in E : /\ \A c \in Followed \ {Root} : games[c].proposer = games[e].proposer => c < e
                   /\ eliminations[games[e].proposer] \in {0, e}
  BY PrunesExpected
<1>4. E \subseteq Nat
  BY LedgerCount DEF Faulty, Children
<1>5. ASSUME NEW c \in Followed \ {Root} PROVE ~Out(c)'
  <2>1. PICK p \in Proposers : p = games[c].proposer
    BY FollowedFacts
  <2>2. CASE round'[p] = round[p]
    BY <2>1, <2>2 DEF GuessInv, FollowedIsRight, Out
  <2>3. CASE round'[p] \in E /\ games[round'[p]].proposer = p
    <3>1. c < round'[p] /\ round'[p] \in Nat /\ c \in Nat
      BY <1>3, <1>4, <2>1, <2>3, FollowedFacts
    <3> QED
      BY <2>1, <3>1 DEF Out
  <2> QED
    BY <1>2, <2>1, <2>2, <2>3
<1>6. ASSUME NEW p \in Proposers, NEW e \in Nat, e = eliminations[p], e # 0
      PROVE  round'[p] = e \/ (Foreseen(p, e) /\ round'[p] = 0)
  <2>1. CASE round'[p] = round[p]
    <3>1. round[p] = e \/ Foreseen(p, e)
      BY <1>6 DEF GuessInv, BlamesForeseen
    <3> QED
      BY <2>1, <3>1 DEF Foreseen
  <2>2. CASE round'[p] \in E /\ games[round'[p]].proposer = p
    BY <1>3, <1>6, <2>2
  <2> QED
    BY <1>2, <2>1, <2>2
<1> QED
  BY <1>5, <1>6

LEMMA PruneGuess ==
  ASSUME LedgerInv, AgentInv, GuessInv, NEW t \in Indices, PruneSome(t), UNCHANGED <<agentVars, safe>>
  PROVE  GuessInv'
<1>1. t \in resolved /\ ~Decided(t) /\ UNCHANGED <<games, resolved, now>>
  BY DEF PruneSome
<1>2. PICK E \in SUBSET Faulty(t) : /\ \A w \in Children(t) : Survivor(w) => E \subseteq Beaten(w)
                                    /\ Eliminate(E)
  BY DEF PruneSome
<1>3. LedgerInv' /\ GamesKept /\ Climbing' /\ ChainResolved'
  BY PruneLedger, PruneChain DEF GuessInv
<1>4. /\ \A c \in Followed \ {Root} : ~Out(c)'
      /\ \A p \in Proposers, e \in Nat : e = eliminations[p] /\ e # 0 =>
           round'[p] = e \/ (Foreseen(p, e) /\ round'[p] = 0)
  BY <1>1, <1>2, EliminatesExpected
<1>5. \A e : Foreseen(games[e].proposer, e) => ~Decided(Parent(e))'
  BY <1>1 DEF Foreseen, Decided, Children, Indices, Parent
<1>6. \A p, e : Foreseen(p, e) => Foreseen(games[e].proposer, e)
  BY DEF Foreseen
<1>7. \A c \in Followed, x \in resolved' : Height(x)' = Height(c) => x = c
  BY <1>1 DEF GuessInv, FollowedIsRight, Height
<1>8. safe <= safe' /\ safe' \in Int
  BY DEF GuessInv, NothingDelayed
<1> QED
  BY <1>1, <1>3, <1>4, <1>5, <1>6, <1>7, <1>8, LedgerGuess

LEMMA ResolveGuess ==
  ASSUME LedgerInv, AgentInv, GuessInv, NEW w \in Indices, ResolveGame(w), UNCHANGED <<agentVars, safe>>
  PROVE  GuessInv'
<1>1. PICK t : t = Parent(w)
  OBVIOUS
<1>2. /\ CanResolve(w) /\ Survivor(w) /\ Eliminate(Beaten(w)) /\ resolved' = resolved \cup {w}
      /\ UNCHANGED <<games, now>>
  BY DEF ResolveGame, CanResolve
<1>3. /\ LedgerInv' /\ GamesKept /\ Climbing' /\ ChainResolved'
      /\ t \in resolved /\ ~Decided(t) /\ w \in Children(t)
  BY <1>1, ResolveLedger, ResolveChain DEF GuessInv
<1>4. PICK E \in SUBSET Faulty(t) : E = Beaten(w) /\ Eliminate(E)
  BY <1>1, <1>2 DEF Beaten, Parent
<1>5. \A v \in Children(t) : Survivor(v) => E \subseteq Beaten(v)
  BY <1>2, <1>3, <1>4, OneSurvivor
<1>6. /\ \A c \in Followed \ {Root} : ~Out(c)'
      /\ \A p \in Proposers, e \in Nat : e = eliminations[p] /\ e # 0 =>
           round'[p] = e \/ (Foreseen(p, e) /\ round'[p] = 0)
  BY <1>2, <1>3, <1>4, <1>5, EliminatesExpected
<1>7. /\ \A c \in Followed : Height(c) = Height(w) => c = w
      /\ w < next /\ DOMAIN proposals # {} => w \in Followed
  BY <1>2, ResolvesExpected
<1>8. ASSUME NEW p \in Proposers, NEW e, Foreseen(p, e), round'[p] = 0
      PROVE  ~Decided(Parent(e))'
  <2> SUFFICES ASSUME Decided(Parent(e))' PROVE FALSE
    OBVIOUS
  <2>1. /\ ~Decided(Parent(e)) /\ e \in Children(Parent(e)) /\ ~games[e].good /\ games[e].proposer = p
        /\ Parent(e) \in Followed /\ ~TooLate(Parent(e), e) /\ e < next
    BY <1>8 DEF Foreseen
  <2>2. Parent(e) = t
    BY <1>1, <1>2, <2>1 DEF Decided, Children, Indices, Parent
  <2>3. e \in Children(Parent(w))'
    BY <1>1, <1>2, <2>1, <2>2 DEF Children, Indices, Parent
  <2>4. WonBy(w)'
    BY <1>2 , <1>3 DEF ChainResolved, CanResolve
  <2>5. Out(e)' \/ (e > w /\ games[e].at - games[w].at >= Timeout)
    BY <1>2, <2>1, <2>3, <2>4 DEF WonBy
  <2>6. ~Out(e)'
    BY <1>2, <1>8, <2>1 DEF Out
  <2>7. w < e /\ games[e].at - games[w].at >= Timeout /\ w < next
    BY <1>3, <2>1, <2>5, <2>6, ChildFacts, LedgerTypes, FollowedFacts DEF GuessInv
  <2>8. w \in Followed /\ w # Root /\ w # None /\ t \in DOMAIN proposals
    BY <1>2, <1>7, <2>1, <2>2, <2>7, FollowedFacts DEF CanResolve, None
  <2>9. SuccessorOf(t) = w
    BY <1>1, <2>8 DEF GuessInv, FollowedIsChain
  <2> QED
    BY <2>1, <2>2, <2>7, <2>8, <2>9 DEF TooLate
<1>9. \A p \in Proposers, e \in Nat : e = eliminations[p] /\ e # 0 =>
        round'[p] = e \/ (Foreseen(p, e) /\ round'[p] = 0 /\ ~Decided(Parent(e))')
  BY <1>6, <1>8
<1>10. \A c \in Followed, x \in resolved' : Height(x)' = Height(c) => x = c
  BY <1>2, <1>7 DEF GuessInv, FollowedIsRight, Height
<1>11. safe <= safe' /\ safe' \in Int
  BY DEF GuessInv, NothingDelayed
<1>12. \A v \in resolved' : v < next /\ DOMAIN proposals # {} => v \in Followed \/ v \in resolved
  BY <1>2, <1>7
<1> QED
  BY <1>2, <1>3, <1>6, <1>9, <1>10, <1>11, <1>12, LedgerGuess

LEMMA UndecidedGuess ==
  ASSUME LedgerInv, AgentInv, GuessInv, LedgerInv', GamesKept, Climbing', ChainResolved',
         UNCHANGED <<agentVars, resolved, round>>, safe <= safe', safe' \in Int
  PROVE  GuessInv'
<1>1. \A i \in Indices : Height(i)' = Height(i) /\ Parent(i)' = Parent(i) /\ games'[i] = games[i]
  BY DEF GamesKept, Height, Parent
<1>2. resolved \subseteq Indices /\ Followed \subseteq Indices
  BY FollowedFacts DEF GuessInv, ChainResolved
<1>3. ASSUME NEW p \in Proposers, NEW e \in Nat, e = eliminations[p], e # 0
      PROVE  round'[p] = e \/ (Foreseen(p, e) /\ round'[p] = 0 /\ ~Decided(Parent(e))')
  <2>1. CASE round[p] = e
    BY <2>1
  <2>2. CASE Foreseen(p, e)
    <3>1. ~Decided(Parent(e)) /\ e \in Indices /\ round[p] = 0
      BY <2>2 DEF Foreseen, Children
    <3>2. Decided(Parent(e))' => Decided(Parent(e))
      BY <1>1, <1>2, <3>1 DEF Decided, Children, Parent
    <3> QED
      BY <2>2, <3>1, <3>2
  <2> QED
    BY <1>3, <2>1, <2>2 DEF GuessInv, BlamesForeseen
<1>4. \A c \in Followed \ {Root} : ~Out(c)'
  BY <1>1, <1>2 DEF Out, GuessInv, FollowedIsRight
<1>5. \A c \in Followed, x \in resolved' : Height(x)' = Height(c) => x = c
  BY <1>1, <1>2 DEF GuessInv, FollowedIsRight
<1> QED
  BY <1>3, <1>4, <1>5, LedgerGuess

LEMMA RootGuess ==
  ASSUME LedgerInv, AgentInv, GuessInv, ResolveRoot, UNCHANGED <<agentVars, safe>>
  PROVE  GuessInv'
<1>1. resolved = {} /\ Climbing' /\ ChainResolved' /\ LedgerInv' /\ GamesKept
  BY RootChain, RootLedger DEF GuessInv
<1>2. Followed = {} /\ DOMAIN proposals = {}
  BY <1>1 DEF GuessInv, NothingDelayed, Followed
<1>3. \A p \in Proposers, e \in Nat : e = eliminations[p] /\ e # 0 => round'[p] = e
  <2>1. \A p \in Proposers : \A e : ~Foreseen(p, e)
    BY <1>2 DEF Foreseen
  <2> QED
    BY <2>1 DEF GuessInv, BlamesForeseen, ResolveRoot
<1>4. safe <= safe' /\ safe' \in Int /\ resolved \subseteq resolved'
  BY <1>1 DEF GuessInv, NothingDelayed
<1> QED
  BY <1>1, <1>2, <1>3, <1>4, LedgerGuess

\* Whatever happens on the chain and at the op-node, the agent's guesses stay right.
LEMMA EnvironmentGuess ==
  ASSUME LedgerInv, AgentInv, GuessInv, UNCHANGED agentVars,
         \/ LedgerNext /\ UNCHANGED safe
         \/ UNCHANGED ledgerVars /\ UNCHANGED safe
         \/ UNCHANGED ledgerVars /\ safe' \in (safe + 1)..MaxSafe
  PROVE  GuessInv'
<1>1. safe \in Int /\ Climbing /\ ChainResolved /\ now \in Int
  BY DEF GuessInv, NothingDelayed, Climbing
<1>2. ASSUME NEW p \in Proposers, NEW t \in Indices, NEW ok \in BOOLEAN, Submit(p, t, ok), UNCHANGED safe
      PROVE  GuessInv'
  <2>1. LedgerInv' /\ GamesKept /\ Climbing' /\ ChainResolved' /\ UNCHANGED <<resolved, round>>
    BY <1>1, <1>2, SubmitLedger, SubmitChain DEF Submit
  <2> QED
    BY <1>1, <1>2, <2>1, UndecidedGuess
<1>3. ASSUME SubmitForeign, UNCHANGED safe PROVE GuessInv'
  <2>1. LedgerInv' /\ GamesKept /\ Climbing' /\ ChainResolved' /\ UNCHANGED <<resolved, round>>
    BY <1>1, <1>3, ForeignLedger, ForeignChain DEF SubmitForeign
  <2> QED
    BY <1>1, <1>3, <2>1, UndecidedGuess
<1>4. ASSUME UNCHANGED <<games, resolved, round>>, now' \in Int, safe' \in Int, safe <= safe' PROVE GuessInv'
  <2>1. LedgerInv' /\ GamesKept /\ Climbing' /\ ChainResolved'
    BY <1>1, <1>4, QuietLedger, QuietChain
  <2> QED
    BY <1>4, <2>1, UndecidedGuess
<1>5. CASE LedgerNext /\ UNCHANGED safe
  <2>1. CASE LedgerTick
    BY <1>1, <1>4, <1>5, <2>1 DEF LedgerTick
  <2> QED
    BY <1>2, <1>3, <1>5, <2>1, PruneGuess, ResolveGuess, RootGuess DEF LedgerNext
<1>6. CASE UNCHANGED ledgerVars /\ UNCHANGED safe
  BY <1>1, <1>4, <1>6 DEF ledgerVars
<1>7. CASE UNCHANGED ledgerVars /\ safe' \in (safe + 1)..MaxSafe
  <2>1. safe' \in Int /\ safe <= safe'
    BY <1>1, <1>7, SyncAssumption
  <2> QED
    BY <1>1, <1>4, <1>7, <2>1 DEF ledgerVars
<1> QED
  BY <1>5, <1>6, <1>7

-----------------------------------------------------------------------------
(***************************************************************************)
(* The agent moves on, and its guesses stay right.                         *)
(***************************************************************************)

\* The blames elims: the agent's own, and some that it has asked the treasury about.
BlamesKept(elims) ==
  \A p \in Proposers : \/ elims[p] = eliminations[p]
                       \/ eliminations[p] = 0 /\ elims[p] = round[p]

LEMMA FetchedKeeps ==
  ASSUME NEW i
  PROVE  BlamesKept(Fetched(i)) /\ BlamesKept(eliminations)
BY DEF BlamesKept, Fetched

\* What the agent follows is not blamed, and what it has blamed stays so.
LEMMA BlamesKeptFacts ==
  ASSUME LedgerInv, AgentInv, GuessInv, NEW elims, BlamesKept(elims)
  PROVE  /\ \A c \in Followed \ {Root} : ~EliminatedBefore(elims, c)
         /\ \A t : \A c \in Children(t) :
              EliminatedBefore(eliminations, c) => EliminatedBefore(elims, c)
         /\ \A t : \A c \in Children(t) : LET p == games[c].proposer IN
              eliminations[p] # 0 /\ eliminations[p] <= c => elims[p] # 0 /\ elims[p] <= c
         /\ \A p \in Proposers : \A e : e = elims[p] /\ e # 0 => round[p] = e \/ Foreseen(p, e)
<1>1. \A t : \A c \in Children(t) : games[c].proposer \in Proposers /\ c \in Nat
  BY ChildFacts, LedgerTypes DEF GuessInv
<1>2. ASSUME NEW c \in Followed \ {Root} PROVE ~EliminatedBefore(elims, c)
  <2>1. PICK p \in Proposers : p = games[c].proposer
    BY FollowedFacts
  <2>2. ~EliminatedBefore(eliminations, c) /\ ~Out(c) /\ c \in Nat /\ round[p] \in Nat
    BY <2>1, FollowedFacts, LedgerTypes DEF GuessInv, FollowedIsRight
  <2> QED
    BY <2>1, <2>2 DEF BlamesKept, EliminatedBefore, Out
<1>3. \A t : \A c \in Children(t) :
        EliminatedBefore(eliminations, c) => EliminatedBefore(elims, c)
  BY <1>1 DEF BlamesKept, EliminatedBefore
<1>4. \A t : \A c \in Children(t) : LET p == games[c].proposer IN
        eliminations[p] # 0 /\ eliminations[p] <= c => elims[p] # 0 /\ elims[p] <= c
  BY <1>1 DEF BlamesKept
<1>5. \A p \in Proposers : \A e : e = elims[p] /\ e # 0 => round[p] = e \/ Foreseen(p, e)
  BY DEF BlamesKept, GuessInv, BlamesForeseen
<1> QED
  BY <1>2, <1>3, <1>4, <1>5

\* A child of a game that the agent follows is dealt with.
Dealt(elims, t, c) ==
  IF games[c].good
  THEN \/ c = SuccessorOf(t) \/ (SuccessorOf(t) # None /\ SuccessorOf(t) < c)
       \/ EliminatedBefore(elims, c)
  ELSE \/ elims[games[c].proposer] # 0 /\ elims[games[c].proposer] <= c
       \/ TooLate(t, c)

LEMMA SameLedger ==
  ASSUME UNCHANGED ledgerVars
  PROVE  /\ Indices' = Indices /\ resolved' = resolved /\ GameCount' = GameCount
         /\ \A p \in Proposers : round'[p] = round[p]
         /\ \A i : games'[i] = games[i] /\ Height(i)' = Height(i) /\ Parent(i)' = Parent(i)
                   /\ Children(i)' = Children(i) /\ Out(i)' = Out(i)
                   /\ Ancestry(i)' = Ancestry(i) /\ Decided(i)' = Decided(i)
<1> USE DEF ledgerVars
<1>1. Indices' = Indices /\ resolved' = resolved /\ GameCount' = GameCount
  BY DEF Indices, GameCount
<1>2. \A i : Children(i)' = Children(i) /\ Ancestry(i)' = Ancestry(i)
  BY <1>1 DEF Children, Ancestry
<1>3. \A i : Decided(i)' = Decided(i)
  BY <1>1, <1>2 DEF Decided
<1>4. \A i : games'[i] = games[i] /\ Height(i)' = Height(i) /\ Parent(i)' = Parent(i) /\ Out(i)' = Out(i)
  BY DEF Height, Parent, Out
<1> QED
  BY <1>1, <1>2, <1>3, <1>4

\* The tip and what is followed stay; the next game may have been skipped.
LEMMA SkipGuess ==
  ASSUME LedgerInv, AgentInv, GuessInv,
         UNCHANGED <<ledgerVars, safe, tip, lastResolved>>, BlamesKept(eliminations'),
         DOMAIN proposals' = DOMAIN proposals,
         \A j \in DOMAIN proposals : /\ proposals'[j].canonical = proposals[j].canonical
                                     /\ proposals'[j].successor = proposals[j].successor,
         delayed' = <<>>, queued' = <<>>, pc' # "off" => pc # "off", safe0' \in Int,
         pc' \in {"count", "load"} => (safe0' = safe0 /\ pc \in {"count", "load"}) \/ safe0' = safe,
         \/ next' = next
         \/ /\ next' = next + 1 /\ next \in Indices \ resolved /\ DOMAIN proposals # {}
            /\ \A t \in Followed : next \in Children(t) => Dealt(eliminations', t, next)
  PROVE  GuessInv'
<1>1. Climbing' /\ ChainResolved'
  BY QuietChain DEF ledgerVars, GuessInv, Climbing
<1>2. Followed' = Followed /\ \A t \in DOMAIN proposals : SuccessorOf(t)' = SuccessorOf(t)
  BY DEF Followed, SuccessorOf
<1>3. next \in Nat /\ next <= GameCount /\ next' \in Nat /\ next <= next' /\ next' <= GameCount
  BY FollowedFacts, LedgerCount DEF GuessInv, NothingDelayed
<1>4. Followed \subseteq DOMAIN proposals
  BY DEF Followed
<1>5. NothingDelayed'
  <2>1. NothingDelayed
    BY DEF GuessInv
  <2>2. \E s \in InitialSafe : s <= safe' /\ (pc' \in {"count", "load"} => s <= safe0')
    BY <2>1 DEF NothingDelayed
  <2>3. \A j \in DOMAIN proposals' : j < next' /\ games'[j].ours
    <3>1. DOMAIN proposals \subseteq Nat
      BY LedgerCount DEF AgentInv, CacheIsSound
    <3> QED
      BY <1>3, <2>1, <3>1, SameLedger DEF NothingDelayed
  <2> QED
    BY <1>2, <1>3, <2>1, <2>2, <2>3, SameLedger DEF NothingDelayed
<1>6. FollowedIsChain'
  BY <1>2, <1>4, SameLedger DEF GuessInv, FollowedIsChain
<1>7. FollowedIsRight'
  <2>1. \A c \in Followed \ {Root} : ~Out(c)' /\ ~EliminatedBefore(eliminations, c)'
    BY BlamesKeptFacts, SameLedger DEF GuessInv, FollowedIsRight, EliminatedBefore
  <2>2. \A w \in resolved : w < next' => w < next
    BY <1>3, LedgerTypes DEF GuessInv
  <2> QED
    BY <1>2, <2>1, <2>2, SameLedger DEF GuessInv, FollowedIsRight
<1>8. \A t \in Followed : \A c : TooLate(t, c)' = TooLate(t, c)
  BY <1>2, <1>4, SameLedger DEF TooLate
<1>9. \A t \in Followed : \A c \in Children(t) : c < next' => Dealt(eliminations', t, c)
  <2> SUFFICES ASSUME NEW t \in Followed, NEW c \in Children(t), c < next'
               PROVE  Dealt(eliminations', t, c)
    OBVIOUS
  <2>1. (c = next /\ next' = next + 1) \/ c < next
    BY <1>3, ChildFacts, LedgerTypes DEF GuessInv
  <2>2. CASE c < next
    <3>1. Dealt(eliminations, t, c)
      BY <2>2 DEF GuessInv, ChildrenSeen, Dealt
    <3> QED
      BY <3>1, BlamesKeptFacts DEF Dealt
  <2> QED
    BY <1>3, <2>1, <2>2
<1>10. ChildrenSeen'
  BY <1>2, <1>4, <1>8, <1>9, SameLedger DEF ChildrenSeen, Dealt, EliminatedBefore
<1>11. BlamesForeseen'
  <2> SUFFICES ASSUME NEW p \in Proposers, NEW e, e = eliminations'[p], e # 0, round[p] # e
               PROVE  Foreseen(p, e)'
    BY SameLedger DEF BlamesForeseen
  <2>1. Foreseen(p, e)
    BY BlamesKeptFacts
  <2>2. e \in Nat /\ Parent(e) \in Followed
    BY <2>1, LedgerCount DEF Foreseen, Children
  <2>3. e < next'
    BY <1>3, <2>1, <2>2 DEF Foreseen
  <2>4. PICK u : u = Parent(e) /\ u = Parent(e)'
    BY SameLedger
  <2>5. TooLate(u, e)' = TooLate(u, e)
    BY <1>8, <2>2, <2>4
  <2>6. TooLate(Parent(e), e)' = TooLate(u, e)'
    BY <2>4 DEF TooLate, SuccessorOf
  <2>7. Decided(Parent(e))' = Decided(u)' /\ Children(Parent(e))' = Children(u)'
    BY <2>4 DEF Decided, Children
  <2> QED
    BY <1>2, <2>1, <2>3, <2>4, <2>5, <2>6, <2>7, SameLedger DEF Foreseen
<1> QED
  BY <1>1, <1>5, <1>6, <1>7, <1>10, <1>11 DEF GuessInv

LEMMA StartGuess ==
  ASSUME LedgerInv, AgentInv, GuessInv, Start
  PROVE  GuessInv'
<1>1. /\ UNCHANGED <<ledgerVars, safe, safe0, queued>> /\ pc' = "idle" /\ tip' = Anchor /\ next' = Anchor
      /\ lastResolved' = Anchor /\ delayed' = <<>> /\ DOMAIN proposals' = {}
      /\ eliminations' = [p \in Proposers |-> 0] /\ resolved # {}
  BY DEF Start, localVars
<1>2. Anchor \in resolved
  BY <1>1 DEF LedgerInv, Anchor
<1>3. Anchor \in Indices /\ Anchor <= GameCount
  <2>1. Anchor \in Indices
    BY <1>2 DEF GuessInv, ChainResolved
  <2>2. PICK a : a = Anchor
    OBVIOUS
  <2>3. a <= GameCount
    BY <2>1, <2>2, LedgerCount
  <2> QED
    BY <2>1, <2>2, <2>3
<1>4. Climbing' /\ ChainResolved'
  BY <1>1, QuietChain DEF ledgerVars, GuessInv, Climbing
<1>5. Followed' = {}
  BY <1>1 DEF Followed
<1>6. NothingDelayed'
  <2>1. NothingDelayed
    BY DEF GuessInv
  <2>2. \A j \in DOMAIN proposals' : FALSE
    BY <1>1
  <2> QED
    BY <1>1, <1>2, <1>3, <1>5, <2>1, <2>2, SameLedger DEF NothingDelayed
<1>7. FollowedIsChain' /\ FollowedIsRight' /\ ChildrenSeen'
  BY <1>1, <1>5 DEF FollowedIsChain, FollowedIsRight, ChildrenSeen
<1>8. BlamesForeseen'
  BY <1>1 DEF BlamesForeseen
<1> QED
  BY <1>4, <1>6, <1>7, <1>8 DEF GuessInv

LEMMA BookkeepingGuess ==
  ASSUME LedgerInv, AgentInv, GuessInv,
         SyncOutputs \/ CountGames \/ LoadFails \/ LoadDone \/ SyncReturns \/ Crash
  PROVE  GuessInv'
<1>1. delayed = <<>> /\ queued = <<>> /\ AfterPop = <<>>
  BY DEF GuessInv, NothingDelayed, AfterPop
<1>2. UNCHANGED <<ledgerVars, safe, tip, next, lastResolved, proposals, eliminations>>
  BY DEF SyncOutputs, CountGames, LoadFails, LoadDone, SyncReturns, Crash, EndLoad, cursorVars
<1>3. delayed' = <<>> /\ queued' = <<>>
  BY <1>1 DEF SyncOutputs, CountGames, LoadFails, LoadDone, SyncReturns, Crash, EndLoad, cursorVars
<1>4. pc' # "off" => pc # "off"
  BY DEF SyncOutputs, CountGames, LoadFails, LoadDone, SyncReturns, Crash, EndLoad
<1>5. pc' \in {"count", "load"} => (safe0' = safe0 /\ pc \in {"count", "load"}) \/ safe0' = safe
  BY DEF SyncOutputs, CountGames, LoadFails, LoadDone, SyncReturns, Crash, EndLoad
<1>6. BlamesKept(eliminations')
  BY <1>2 DEF BlamesKept
<1>7. safe0' \in Int
  BY DEF SyncOutputs, CountGames, LoadFails, LoadDone, SyncReturns, Crash, GuessInv, NothingDelayed
<1> QED
  BY <1>2, <1>3, <1>4, <1>5, <1>6, <1>7, SkipGuess

\* The child's entry in its parent's record is all that WithChild changes.
LEMMA WithChildFacts ==
  ASSUME NEW i, CacheIsSound
  PROVE  /\ DOMAIN WithChild(i) = DOMAIN proposals
         /\ \A j \in DOMAIN proposals :
              /\ WithChild(i)[j].canonical = proposals[j].canonical
              /\ WithChild(i)[j].successor = proposals[j].successor
<1>1. PICK t : t = games[i].parent
  OBVIOUS
<1>2. CASE WithChild(i) = proposals
  BY <1>2
<1>3. CASE WithChild(i) # proposals
  <2>1. t \in DOMAIN proposals /\ proposals[t] \in ProposalRecords
    BY <1>1, <1>3 DEF WithChild, CacheIsSound
  <2>2. PICK r : r = [proposals[t] EXCEPT !.children = @ \cup {i}]
    OBVIOUS
  <2>3. WithChild(i) = [proposals EXCEPT ![t] = r]
    BY <1>1, <1>3, <2>2 DEF WithChild
  <2>4. r.canonical = proposals[t].canonical /\ r.successor = proposals[t].successor
    BY <2>1, <2>2 DEF ProposalRecords
  <2> QED
    BY <2>1, <2>3, <2>4
<1> QED
  BY <1>2, <1>3

\* With nothing delayed the agent loads the game at the cursor.
LEMMA LoadsNext ==
  ASSUME LedgerInv, AgentInv, GuessInv, HasNext, NEW i, i = NextIndex
  PROVE  /\ i = next /\ i \in Indices /\ i \in Nat /\ AfterPop = <<>> /\ queued = <<>>
         /\ pc = "load" /\ DOMAIN proposals = {} => i \in resolved
<1>1. delayed = <<>> /\ queued = <<>>
  BY DEF GuessInv, NothingDelayed
<1>2. i = next /\ AfterPop = <<>>
  BY <1>1 DEF NextIndex, AfterPop
<1>3. i \in Indices /\ i \in Nat
  BY NextIsGame
<1>4. pc = "load" /\ DOMAIN proposals = {} => i \in resolved
  BY <1>2 DEF GuessInv, NothingDelayed
<1> QED
  BY <1>1, <1>2, <1>3, <1>4

\* The parent of the game at the cursor is followed when the game is resolved.
LEMMA ResolvedNext ==
  ASSUME LedgerInv, AgentInv, GuessInv, next \in resolved, DOMAIN proposals # {}
  PROVE  next # Root /\ Parent(next) \in Followed
<1>1. Climbing /\ ChainResolved /\ FollowedIsRight
  BY DEF GuessInv
<1>2. lastResolved \in Followed \cap resolved
  BY DEF GuessInv, NothingDelayed
<1>3. lastResolved < next /\ lastResolved \in Nat /\ lastResolved \in DOMAIN proposals /\ next \in Nat
  BY <1>2, FollowedFacts
<1>4. next # Root /\ next \in Indices
  BY <1>1, <1>3 DEF Root, ChainResolved
<1>5. Parent(next) \in resolved /\ games[next].ours
  BY <1>1, <1>4 DEF ChainResolved
<1>6. Parent(next) < next /\ Height(next) = Height(Parent(next)) + 1
  BY <1>1, <1>4, <1>5 DEF Climbing
<1>7. Height(lastResolved) < Height(next)
  BY <1>1, <1>2, <1>3 DEF ChainResolved
<1>8. lastResolved <= Parent(next)
  <2>1. Height(lastResolved) <= Height(Parent(next))
    BY <1>1, <1>2, <1>5, <1>6, <1>7, LedgerTypes
  <2> QED
    BY <1>1, <1>2, <1>3, <1>5, <2>1, SameHeight, LedgerTypes
<1> QED
  BY <1>1, <1>3, <1>4, <1>5, <1>6, <1>8 DEF FollowedIsRight

\* With an op-node that is ahead a game is not queued.
LEMMA NeverQueued ==
  ASSUME LedgerInv, AgentInv, GuessInv, OpNodeAhead, pc = "load", NEW i \in Indices
  PROVE  Block(i) < safe0
<1>1. PICK s \in InitialSafe : s <= safe0
  BY DEF GuessInv, NothingDelayed
<1>2. Block(i) < s
  BY DEF OpNodeAhead
<1>3. Block(i) \in Int /\ s \in Int /\ safe0 \in Int
  <2>1. games[i].height \in Nat
    BY DEF LedgerInv
  <2> QED
    BY <2>1, SyncAssumption DEF Block, GuessInv, NothingDelayed
<1> QED
  BY <1>1, <1>2, <1>3

\* A game that is skipped, delayed or not assessed.
LEMMA SkipsGuess ==
  ASSUME LedgerInv, AgentInv, GuessInv, OpNodeAhead, pc = "load", HasNext,
         UNCHANGED <<ledgerVars, safe, safe0>>, NEW i, i = NextIndex,
         \/ SkipForeign(i)
         \/ SkipDangling(i)
         \/ Delay(i)
         \/ SkipIrrelevant(i)
         \/ FailAssess(i)
  PROVE  GuessInv'
<1>1. /\ i = next /\ i \in Indices /\ i \in Nat /\ AfterPop = <<>> /\ queued = <<>>
      /\ DOMAIN proposals = {} => i \in resolved
  BY LoadsNext
<1>2. Climbing /\ ChainResolved /\ CacheIsSound /\ safe0' \in Int
  BY DEF GuessInv, AgentInv, NothingDelayed
<1>3. BlamesKept(Fetched(i)) /\ BlamesKept(eliminations)
  BY FetchedKeeps
<1>4. \A t \in Followed : Parent(i) = t => t \in DOMAIN proposals
  BY DEF Followed
<1>5. \A t : i \in Children(t) => i # Root /\ Parent(i) = t
  BY DEF Children, Parent
<1>6. CASE SkipForeign(i)
  <2>1. ~games[i].ours /\ UNCHANGED <<pc, tip, lastResolved, proposals, eliminations, queued>>
        /\ delayed' = <<>> /\ next' = next + 1
    BY <1>1, <1>6 DEF SkipForeign, Advance
  <2>2. i \notin resolved
    BY <1>2, <2>1 DEF ChainResolved, Climbing
  <2>3. \A t : i \notin Children(t)
    BY <2>1 DEF Children
  <2> QED
    BY <1>1, <1>2, <1>3, <2>1, <2>2, <2>3, SkipGuess
<1>7. CASE SkipDangling(i)
  <2>1. /\ Dangling(i) /\ UNCHANGED <<pc, tip, lastResolved, proposals, eliminations, queued>>
        /\ delayed' = <<>> /\ next' = next + 1
    BY <1>1, <1>7 DEF SkipDangling, Advance
  <2>2. DOMAIN proposals # {} /\ Parent(i) \notin DOMAIN proposals
    BY <2>1 DEF Dangling, Parent
  <2>3. i \notin resolved
    BY <1>1, <1>4, <2>2, ResolvedNext
  <2>4. \A t \in Followed : i \notin Children(t)
    BY <1>4, <1>5, <2>2
  <2> QED
    BY <1>1, <1>2, <1>3, <2>1, <2>2, <2>3, <2>4, SkipGuess
<1>8. CASE Delay(i)
  <2>1. Block(i) < safe0
    BY <1>1, NeverQueued
  <2>2. /\ UNCHANGED <<tip, lastResolved, proposals, next>>
        /\ eliminations' = IF i = Root THEN eliminations ELSE Fetched(i)
        /\ EndLoad(queued, AfterPop)
    BY <1>8, <2>1 DEF Delay
  <2>3. delayed' = <<>> /\ queued' = <<>> /\ pc' = "resolve"
    BY <1>1, <2>2 DEF EndLoad
  <2> QED
    BY <1>1, <1>2, <1>3, <2>2, <2>3, SkipGuess
<1>9. CASE FailAssess(i)
  <2>1. /\ UNCHANGED <<tip, lastResolved, next>> /\ eliminations' = Fetched(i)
        /\ proposals' = WithChild(i) /\ EndLoad(queued, AfterPop)
    BY <1>9 DEF FailAssess
  <2>2. delayed' = <<>> /\ queued' = <<>> /\ pc' = "resolve"
    BY <1>1, <2>1 DEF EndLoad
  <2> QED
    BY <1>1, <1>2, <1>3, <2>1, <2>2, SkipGuess, WithChildFacts
<1>10. CASE SkipIrrelevant(i)
  <2>1. /\ UNCHANGED <<pc, tip, lastResolved, queued>> /\ eliminations' = Fetched(i)
        /\ proposals' = WithChild(i) /\ delayed' = <<>> /\ next' = next + 1
        /\ i # Root /\ ~Participates(Fetched(i), i)
    BY <1>1, <1>10 DEF SkipIrrelevant, Advance
  <2>2. i \notin resolved /\ DOMAIN proposals # {}
    BY <1>1, <2>1 DEF Participates
  <2>3. ASSUME NEW t \in Followed, i \in Children(t) PROVE Dealt(Fetched(i), t, i)
    <3>1. t = games[i].parent /\ t \in DOMAIN proposals /\ proposals[t].canonical
      BY <1>4, <1>5, <2>3 DEF Parent, Followed
    <3>2. EliminatedBefore(Fetched(i), i) \/ TimedOut(i)
      BY <2>1, <3>1 DEF Participates
    <3>3. PICK s : s = SuccessorOf(t)
      OBVIOUS
    <3>4. TimedOut(i) => s # None /\ games[i].at - games[s].at >= Timeout
      BY <3>1, <3>3 DEF TimedOut, SuccessorOf
    <3>5. s # None => s < i
      BY <1>1, <3>1, <3>3, FollowedFacts DEF GuessInv, FollowedIsChain
    <3>6. CASE TimedOut(i)
      BY <3>3, <3>4, <3>5, <3>6 DEF Dealt, TooLate
    <3>7. CASE EliminatedBefore(Fetched(i), i)
      <4>1. Fetched(i)[games[i].proposer] \in Nat
        BY <1>2, <2>3, FetchedFaults, ChildFacts DEF Faults
      <4> QED
        BY <1>1, <3>7, <4>1 DEF Dealt, EliminatedBefore
    <3> QED
      BY <3>2, <3>6, <3>7
  <2> QED
    BY <1>1, <1>2, <1>3, <2>1, <2>2, <2>3, SkipGuess, WithChildFacts
<1> QED
  BY <1>6, <1>7, <1>8, <1>9, <1>10

\* sync() follows a resolution and frees what is older.
LEMMA FollowGuess ==
  ASSUME LedgerInv, AgentInv, GuessInv, FollowResolution
  PROVE  GuessInv'
<1>1. PICK s : s = Successor
  OBVIOUS
<1>2. /\ s \in DOMAIN proposals /\ s \in resolved /\ lastResolved \in DOMAIN proposals
      /\ lastResolved' = s
      /\ proposals' = [j \in Kept(s) |-> IF j = s THEN [proposals[s] EXCEPT !.resolved = TRUE]
                                         ELSE proposals[j]]
      /\ delayed' = Retained(delayed, s)
      /\ UNCHANGED <<ledgerVars, safe, pc, tip, next, eliminations, safe0, queued>>
  BY <1>1 DEF FollowResolution, CanFollow, localVars
<1>3. Climbing /\ ChainResolved /\ NothingDelayed /\ FollowedIsChain /\ FollowedIsRight
  BY DEF GuessInv
<1>4. Climbing' /\ ChainResolved'
  BY <1>2, <1>3, QuietChain DEF ledgerVars, Climbing
<1>5. DOMAIN proposals \subseteq Nat /\ s # None
  BY <1>2, LedgerCount DEF AgentInv, CacheIsSound, None
<1>6. s \in Followed /\ s \in Nat
  BY <1>1, <1>2, <1>3, <1>5 DEF FollowedIsChain, SuccessorOf, Successor
<1>7. /\ DOMAIN proposals' = {k \in DOMAIN proposals : k >= s}
      /\ \A j \in DOMAIN proposals' : /\ proposals'[j].canonical = proposals[j].canonical
                                      /\ SuccessorOf(j)' = SuccessorOf(j)
  <2>1. proposals[s] \in ProposalRecords
    BY <1>2 DEF AgentInv, CacheIsSound
  <2>2. PICK r : r = [proposals[s] EXCEPT !.resolved = TRUE]
    OBVIOUS
  <2>3. r.canonical = proposals[s].canonical /\ r.successor = proposals[s].successor
    BY <2>1, <2>2 DEF ProposalRecords
  <2>4. proposals' = [j \in Kept(s) |-> IF j = s THEN r ELSE proposals[j]]
    BY <1>2, <2>2
  <2> QED
    BY <2>3, <2>4 DEF Kept, SuccessorOf
<1>8. Followed' = {c \in Followed : c >= s} /\ Followed' \subseteq DOMAIN proposals'
  BY <1>7 DEF Followed
<1>9. delayed' = <<>>
  <2>1. delayed = <<>> /\ delayed \in Seq({})
    BY <1>3 DEF NothingDelayed
  <2>2. Retained(delayed, s) \in Seq({})
    BY <2>1, RetainedType
  <2> QED
    BY <1>2, <2>2
<1>10. tip \in Followed' /\ s \in Followed'
  <2>1. tip \in Followed /\ s <= tip /\ tip \in Nat
    BY <1>3, <1>6, FollowedFacts DEF FollowedIsChain
  <2> QED
    BY <1>6, <1>8, <2>1
<1>11. NothingDelayed'
  <2>1. \A j \in DOMAIN proposals' : j < next' /\ games'[j].ours
    BY <1>2, <1>3, <1>7, SameLedger DEF NothingDelayed
  <2>2. DOMAIN proposals' # {} /\ tip' \in Followed' /\ lastResolved' \in Followed' \cap resolved'
    BY <1>2, <1>8, <1>10, SameLedger
  <2>3. next' <= GameCount'
    BY <1>2, <1>3, SameLedger DEF NothingDelayed
  <2> QED
    BY <1>2, <1>3, <1>9, <2>1, <2>2, <2>3 DEF NothingDelayed
<1>12. /\ Followed \subseteq Nat
       /\ \A c, d \in Followed : Height(c) <= Height(d) => c <= d
  BY FollowedFacts
<1>13. FollowedIsChain'
  <2>1. \A c \in Followed' : c <= tip' /\ c \in Ancestry(tip)'
    BY <1>2, <1>3, <1>8, SameLedger DEF FollowedIsChain, Ancestry
  <2>2. \A c, d \in Followed' : c < d => Height(c)' < Height(d)' /\ Parent(d)' \in Followed'
    <3> SUFFICES ASSUME NEW c \in Followed', NEW d \in Followed', c < d
                 PROVE  Height(c) < Height(d) /\ Parent(d) \in Followed'
      BY <1>2, SameLedger
    <3>1. /\ c \in Followed /\ d \in Followed /\ c >= s /\ Height(c) < Height(d)
          /\ Parent(d) \in Followed /\ c \in Nat
      BY <1>3, <1>8, FollowedFacts DEF FollowedIsChain
    <3>2. d # Root
      BY <3>1, FollowedFacts DEF Root
    <3>3. Height(d) = Height(Parent(d)) + 1 /\ Height(Parent(d)) \in Nat /\ Height(c) \in Nat
      BY <3>1, <3>2, FollowedFacts
    <3>4. c <= Parent(d) /\ Parent(d) \in Nat
      <4>1. PICK u \in Followed : u = Parent(d)
        BY <3>1
      <4>2. Height(c) <= Height(u)
        BY <3>1, <3>3, <4>1
      <4> QED
        BY <1>12, <3>1, <4>1, <4>2
    <3> QED
      BY <1>6, <1>8, <3>1, <3>4
  <2>3. \A c, d \in Followed' : \A h \in Height(c)'..Height(d)' : \E x \in Followed' : Height(x)' = h
    <3> SUFFICES ASSUME NEW c \in Followed', NEW d \in Followed', NEW h \in Height(c)..Height(d)
                 PROVE  \E x \in Followed' : Height(x) = h
      BY <1>2, SameLedger
    <3>1. c \in Followed /\ d \in Followed /\ c >= s
      BY <1>8
    <3>2. PICK x \in Followed : Height(x) = h
      BY <1>3, <3>1 DEF FollowedIsChain
    <3>3. c <= x /\ c \in Nat /\ x \in Nat
      BY <1>12, <3>1, <3>2, FollowedFacts
    <3>4. x \in Followed'
      BY <1>6, <1>8, <3>1, <3>3
    <3> QED
      BY <3>2, <3>4
  <2>4. \A t \in DOMAIN proposals' : SuccessorOf(t)' # None =>
          t \in Followed' /\ SuccessorOf(t)' \in Followed' \ {Root} /\ Parent(SuccessorOf(t))' = t
    <3> SUFFICES ASSUME NEW t \in DOMAIN proposals', NEW q, q = SuccessorOf(t), q # None
                 PROVE  t \in Followed' /\ q \in Followed' \ {Root} /\ Parent(q) = t
      BY <1>2, <1>7, SameLedger DEF Parent
    <3>1. t \in Followed /\ t >= s /\ q \in Followed \ {Root} /\ Parent(q) = t
      BY <1>3, <1>7 DEF FollowedIsChain
    <3>2. q \in Nat /\ t \in Nat /\ t < q
      BY <3>1, FollowedFacts
    <3>3. q >= s
      BY <1>6, <3>1, <3>2
    <3> QED
      BY <1>8, <3>1, <3>3
  <2>5. \A c \in Followed' \ {Root} : Parent(c)' \in DOMAIN proposals' => SuccessorOf(Parent(c))' = c
    <3> SUFFICES ASSUME NEW c \in Followed' \ {Root}, NEW q, q = Parent(c), q \in DOMAIN proposals'
                 PROVE  SuccessorOf(q) = c
      BY <1>2, <1>7, SameLedger DEF SuccessorOf
    <3> QED
      BY <1>3, <1>7, <1>8 DEF FollowedIsChain
  <2> QED
    BY <2>1, <2>2, <2>3, <2>4, <2>5 DEF FollowedIsChain
<1>14. FollowedIsRight'
  <2>1. \A c \in Followed' \ {Root} : ~Out(c)' /\ ~EliminatedBefore(eliminations, c)'
    BY <1>2, <1>3, <1>8, SameLedger DEF FollowedIsRight, EliminatedBefore
  <2>2. \A c \in Followed', x \in resolved' : Height(x)' = Height(c)' => x = c
    BY <1>2, <1>3, <1>8, SameLedger DEF FollowedIsRight
  <2>3. \A w \in resolved' : w < next' /\ (\E t \in DOMAIN proposals' : t <= w) => w \in Followed'
    <3> SUFFICES ASSUME NEW w \in resolved, w < next, NEW t \in DOMAIN proposals', t <= w
                 PROVE  w \in Followed'
      BY <1>2, SameLedger
    <3>1. t \in DOMAIN proposals /\ t >= s /\ t \in Nat
      BY <1>5, <1>7
    <3>2. w \in Followed /\ w \in Nat
      BY <1>3, <3>1, LedgerTypes DEF FollowedIsRight
    <3> QED
      BY <1>6, <1>8, <3>1, <3>2
  <2> QED
    BY <2>1, <2>2, <2>3 DEF FollowedIsRight
<1>15. \A t \in Followed' : \A c : TooLate(t, c)' = TooLate(t, c)
  BY <1>2, <1>7, <1>8, SameLedger DEF TooLate
<1>16. ChildrenSeen'
  BY <1>2, <1>7, <1>8, <1>15, SameLedger DEF GuessInv, ChildrenSeen, EliminatedBefore
<1>17. BlamesForeseen'
  <2> SUFFICES ASSUME NEW p \in Proposers, NEW e, e = eliminations[p], e # 0, round[p] # e
               PROVE  Foreseen(p, e)'
    BY <1>2, SameLedger DEF BlamesForeseen
  <2>1. Foreseen(p, e)
    BY DEF GuessInv, BlamesForeseen
  <2>2. PICK u : u = Parent(e) /\ u = Parent(e)'
    BY <1>2, SameLedger
  <2>3. u \in Followed /\ ~Decided(u)
    BY <2>1, <2>2 DEF Foreseen
  <2>4. u \in Followed'
    <3>1. ~(Height(u) < Height(s))
      BY <1>2, <2>3, LowFollowed
    <3>2. u >= s
      BY <1>6, <2>3, <3>1, FollowedFacts
    <3> QED
      BY <1>8, <2>3, <3>2
  <2>5. TooLate(u, e)' = TooLate(u, e)
    BY <1>15, <2>4
  <2>6. TooLate(Parent(e), e)' = TooLate(u, e)'
    BY <2>2 DEF TooLate, SuccessorOf
  <2>7. Decided(Parent(e))' = Decided(u)' /\ Children(Parent(e))' = Children(u)'
    BY <2>2 DEF Decided, Children
  <2> QED
    BY <1>2, <2>1, <2>2, <2>4, <2>5, <2>6, <2>7, SameLedger DEF Foreseen
<1> QED
  BY <1>4, <1>11, <1>13, <1>14, <1>16, <1>17 DEF GuessInv

LEMMA BlockOrder ==
  ASSUME LedgerInv, NEW i \in Indices, NEW j \in Indices
  PROVE  /\ Block(i) < Block(j) <=> Height(i) < Height(j)
         /\ Block(i) = Block(j) <=> Height(i) = Height(j)
         /\ Block(i) \in Nat
<1>1. PICK a \in Nat : a = games[i].height
  BY DEF LedgerInv
<1>2. PICK b \in Nat : b = games[j].height
  BY DEF LedgerInv
<1>3. PICK n \in Nat : n = Span /\ n >= 1
  BY SyncAssumption
<1>4. ASSUME NEW x \in Nat, NEW y \in Nat, x < y PROVE n * x < n * y
  <2>1. PICK k \in Nat : y = x + k /\ k >= 1
    BY <1>4
  <2>2. n * y = n * x + n * k
    BY <2>1
  <2>3. n * k >= 1
    BY <1>3, <2>1
  <2>4. n * x \in Nat /\ n * k \in Nat
    OBVIOUS
  <2> QED
    BY <2>2, <2>3, <2>4
<1>5. n * a \in Nat /\ n * b \in Nat
  OBVIOUS
<1>6. (n * a < n * b <=> a < b) /\ (n * a = n * b <=> a = b)
  BY <1>4, <1>5
<1> QED
  BY <1>1, <1>2, <1>3, <1>5, <1>6 DEF Block, Height

\* The cache with proposal i inserted.
Inserted(v, elims, i) ==
  /\ DOMAIN v = DOMAIN proposals \cup {i}
  /\ v[i].canonical = IsCanonical(elims, i) /\ v[i].successor = None
  /\ \A j \in DOMAIN proposals :
       /\ v[j].canonical = proposals[j].canonical
       /\ v[j].successor =
            IF IsCanonical(elims, i) /\ j = Parent(i) THEN i ELSE proposals[j].successor

LEMMA WithProposalFacts ==
  ASSUME CacheIsSound, NEW elims, NEW i, i \notin DOMAIN proposals
  PROVE  Inserted(WithProposal(elims, i), elims, i)
<1>1. PICK t : t = games[i].parent
  OBVIOUS
<1>2. PICK w : w = WithChild(i)
  OBVIOUS
<1>3. /\ DOMAIN w = DOMAIN proposals
      /\ \A j \in DOMAIN proposals : /\ w[j].canonical = proposals[j].canonical
                                     /\ w[j].successor = proposals[j].successor
  BY <1>2, WithChildFacts
<1>4. \A j \in DOMAIN proposals : DOMAIN w[j] = DOMAIN proposals[j]
  <2>1. \A j \in DOMAIN proposals : proposals[j] \in ProposalRecords
    BY DEF CacheIsSound
  <2>2. CASE w = proposals
    BY <2>2
  <2>3. CASE w # proposals
    <3>1. t \in DOMAIN proposals /\ w = [proposals EXCEPT ![t].children = @ \cup {i}]
      BY <1>1, <1>2, <2>3 DEF WithChild
    <3> QED
      BY <2>1, <3>1 DEF ProposalRecords
  <2> QED
    BY <2>2, <2>3
<1>5. PICK l : l = IF IsCanonical(elims, i) /\ t \in DOMAIN proposals
                   THEN [w EXCEPT ![t].successor = i] ELSE w
  OBVIOUS
<1>6. /\ DOMAIN l = DOMAIN proposals
      /\ \A j \in DOMAIN proposals :
           /\ l[j].canonical = proposals[j].canonical
           /\ l[j].successor = IF IsCanonical(elims, i) /\ j = t THEN i ELSE proposals[j].successor
  <2>1. CASE IsCanonical(elims, i) /\ t \in DOMAIN proposals
    <3>1. l = [w EXCEPT ![t] = [w[t] EXCEPT !.successor = i]]
      BY <1>5, <2>1
    <3>2. DOMAIN w[t] = {"correct", "canonical", "resolved", "children", "successor"}
      BY <1>4, <2>1 DEF CacheIsSound, ProposalRecords
    <3>3. PICK r : r = [w[t] EXCEPT !.successor = i]
      OBVIOUS
    <3>4. r.canonical = w[t].canonical /\ r.successor = i
      BY <3>2, <3>3
    <3> QED
      BY <1>3, <2>1, <3>1, <3>3, <3>4
  <2>2. CASE ~(IsCanonical(elims, i) /\ t \in DOMAIN proposals)
    BY <1>3, <1>5, <2>2
  <2> QED
    BY <2>1, <2>2
<1>7. WithProposal(elims, i) =
        [j \in DOMAIN proposals \cup {i} |-> IF j = i THEN Loaded(elims, i) ELSE l[j]]
  BY <1>1, <1>2, <1>5 DEF WithProposal
<1>8. Loaded(elims, i).canonical = IsCanonical(elims, i) /\ Loaded(elims, i).successor = None
  BY DEF Loaded
<1> QED
  BY <1>1, <1>6, <1>7, <1>8 DEF Parent, Inserted

\* What Store does when the game is the one at the cursor.
LEMMA StoreEffect ==
  ASSUME LedgerInv, AgentInv, GuessInv, HasNext, UNCHANGED <<ledgerVars, safe, safe0>>,
         NEW i, i = NextIndex, Store(i), NEW elims, elims = IF i = Root THEN eliminations ELSE Fetched(i)
  PROVE  /\ i = next /\ i \in Indices /\ i \in Nat /\ i \notin DOMAIN proposals
         /\ games[i].ours /\ ~Dangling(i) /\ Participates(elims, i) /\ BlamesKept(elims) /\ Faults(elims)
         /\ next' = i + 1 /\ delayed' = <<>> /\ queued' = <<>> /\ pc' = pc
         /\ DOMAIN proposals' = DOMAIN proposals \cup {i}
         /\ Followed' = IF IsCanonical(elims, i) THEN Followed \cup {i} ELSE Followed
         /\ SuccessorOf(i)' = None
         /\ \A j \in DOMAIN proposals : SuccessorOf(j)' =
              IF IsCanonical(elims, i) /\ j = Parent(i) THEN i ELSE SuccessorOf(j)
         /\ tip' = IF IsCanonical(elims, i) THEN i ELSE tip
         /\ lastResolved' = IF IsCanonical(elims, i) /\ i \in resolved THEN i ELSE lastResolved
         /\ eliminations' =
              IF i # Root /\ ~IsCanonical(elims, i) /\ ~IsCorrect(i) /\ elims[games[i].proposer] = 0
              THEN [elims EXCEPT ![games[i].proposer] = i] ELSE elims
<1>1. i = next /\ i \in Indices /\ i \in Nat /\ AfterPop = <<>> /\ queued = <<>>
  BY LoadsNext
<1>2. i \notin DOMAIN proposals
  BY <1>1 DEF GuessInv, NothingDelayed
<1>3. BlamesKept(elims) /\ Faults(elims)
  BY FetchedKeeps, FetchedFaults DEF AgentInv
<1>4. CacheIsSound
  BY DEF AgentInv
<1>5. PICK p : p = Loaded(elims, i)
  OBVIOUS
<1>6. /\ p.correct = IsCorrect(i) /\ p.canonical = IsCanonical(elims, i) /\ p.resolved = (i \in resolved)
  BY <1>5 DEF Loaded
<1>7. /\ games[i].ours /\ ~Dangling(i) /\ Participates(elims, i)
      /\ proposals' = WithProposal(elims, i) /\ delayed' = <<>> /\ next' = i + 1
  BY <1>1 DEF Store, Advance
<1>8. PICK w : w = WithProposal(elims, i)
  OBVIOUS
<1>9. Inserted(w, elims, i)
  BY <1>2, <1>4, <1>8, WithProposalFacts
<1>10. proposals' = w
  BY <1>7, <1>8
<1>11. DOMAIN proposals' = DOMAIN proposals \cup {i} /\ next \in DOMAIN proposals'
  BY <1>1, <1>9, <1>10 DEF Inserted
<1>12. /\ tip' = IF p.canonical THEN i ELSE tip
       /\ lastResolved' = IF p.canonical /\ p.resolved THEN i ELSE lastResolved
       /\ eliminations' = IF i # Root /\ Blamed(p) /\ elims[games[i].proposer] = 0
                          THEN [elims EXCEPT ![games[i].proposer] = i] ELSE elims
       /\ UNCHANGED <<pc, queued>>
  BY <1>5, <1>11 DEF Store
<1>13. Followed' = IF IsCanonical(elims, i) THEN Followed \cup {i} ELSE Followed
  BY <1>2, <1>9, <1>10 DEF Followed, Inserted
<1>14. /\ SuccessorOf(i)' = None
       /\ \A j \in DOMAIN proposals : SuccessorOf(j)' =
            IF IsCanonical(elims, i) /\ j = Parent(i) THEN i ELSE SuccessorOf(j)
  BY <1>2, <1>9, <1>10 DEF SuccessorOf, Inserted
<1> QED
  BY <1>1, <1>2, <1>3, <1>6, <1>7, <1>11, <1>12, <1>13, <1>14 DEF Blamed

\* The agent does not blame whoever has won.
LEMMA WinnerNotBlamed ==
  ASSUME LedgerInv, AgentInv, GuessInv, NEW elims, BlamesKept(elims), NEW i \in resolved
  PROVE  ~EliminatedBefore(elims, i)
<1> SUFFICES ASSUME EliminatedBefore(elims, i) PROVE FALSE
  OBVIOUS
<1>1. i # Root
  BY DEF EliminatedBefore
<1>2. /\ games[i].ours /\ Parent(i) \in resolved /\ ~Out(i) /\ i \in Children(Parent(i))
      /\ i \in Nat
  BY <1>1, LedgerTypes DEF GuessInv, ChainResolved, WonBy, Children, Parent
<1>3. ~EliminatedBefore(eliminations, i)
  BY <1>2, BlameIsHigh
<1>4. games[i].proposer \in Proposers
  BY <1>2, ChildFacts DEF GuessInv
<1>5. round[games[i].proposer] \in Nat
  BY <1>4, LedgerTypes DEF GuessInv
<1> QED
  BY <1>2, <1>3, <1>4, <1>5 DEF BlamesKept, EliminatedBefore, Out

\* The first game stored is the anchor.
LEMMA StoreFirst ==
  ASSUME LedgerInv, AgentInv, GuessInv, pc = "load", HasNext, UNCHANGED <<ledgerVars, safe, safe0>>,
         NEW i, i = NextIndex, Store(i), DOMAIN proposals = {}
  PROVE  GuessInv'
<1>1. PICK elims : elims = IF i = Root THEN eliminations ELSE Fetched(i)
  OBVIOUS
<1>2. /\ i = next /\ i \in Indices /\ i \in Nat /\ games[i].ours /\ BlamesKept(elims)
      /\ next' = i + 1 /\ delayed' = <<>> /\ queued' = <<>> /\ pc' = pc
      /\ DOMAIN proposals' = {i} /\ SuccessorOf(i)' = None
  BY <1>1, StoreEffect
<1>3. i \in resolved /\ Followed = {}
  BY LoadsNext DEF Followed
<1>4. Climbing /\ ChainResolved /\ NothingDelayed
  BY DEF GuessInv
<1>5. ~EliminatedBefore(elims, i) /\ games[i].good
  BY <1>2, <1>3, <1>4, WinnerNotBlamed, LedgerTypes
<1>6. IsCanonical(elims, i)
  <2>1. tip \notin DOMAIN proposals
    OBVIOUS
  <2> QED
    BY <1>3, <1>5, <2>1 DEF IsCanonical, IsCorrect
<1>7. Followed' = {i} /\ tip' = i /\ lastResolved' = i /\ eliminations' = elims
  BY <1>1, <1>3, <1>6, StoreEffect
<1>8. Climbing' /\ ChainResolved'
  BY <1>4, QuietChain DEF ledgerVars, Climbing
<1>9. NothingDelayed'
  <2>1. i + 1 <= GameCount
    BY <1>2, LedgerCount
  <2> QED
    BY <1>2, <1>3, <1>4, <1>7, <2>1, SameLedger DEF NothingDelayed
<1>10. i # Root => Parent(i) \in Nat /\ Parent(i) < i
  BY <1>2, <1>4, LedgerTypes DEF Climbing
<1>11. FollowedIsChain'
  <2>1. i \in Ancestry(i)
    BY <1>2 DEF Ancestry
  <2>2. i <= tip' /\ i \in Ancestry(tip)'
    BY <1>2, <1>7, <2>1, SameLedger DEF Ancestry
  <2>3. Height(i) \in Nat /\ \A h \in Height(i)..Height(i) : Height(i) = h
    BY <1>2, <1>4, LedgerTypes
  <2>4. i # Root => Parent(i) # i
    BY <1>2, <1>10
  <2>5. \A c, d \in Followed' : ~(c < d)
    BY <1>2, <1>7
  <2> QED
    BY <1>2, <1>7, <2>2, <2>3, <2>4, <2>5, SameLedger DEF FollowedIsChain
<1>12. FollowedIsRight'
  <2>1. i # Root => ~Out(i)
    BY <1>3, <1>4 DEF ChainResolved, WonBy
  <2>2. \A x \in resolved : Height(x) = Height(i) => x = i
    BY <1>3, <1>4, SameHeight
  <2>3. \A w \in resolved : w < i + 1 /\ i <= w => w = i
    <3>1. resolved \subseteq Nat
      BY <1>4, LedgerTypes
    <3> QED
      BY <1>2, <3>1
  <2>4. EliminatedBefore(eliminations, i)' = EliminatedBefore(elims, i)
    BY <1>7, SameLedger DEF EliminatedBefore
  <2> QED
    BY <1>2, <1>5, <1>7, <2>1, <2>2, <2>3, <2>4, SameLedger DEF FollowedIsRight
<1>13. ChildrenSeen'
  <2>1. \A c \in Children(i) : ~(c < i + 1)
    BY <1>2, <1>4, ChildFacts, LedgerTypes
  <2> QED
    BY <1>2, <1>7, <2>1, SameLedger DEF ChildrenSeen
<1>14. BlamesForeseen'
  <2>1. \A p, e : ~Foreseen(p, e)
    BY <1>3 DEF Foreseen
  <2>2. \A p \in Proposers : elims[p] # 0 => round[p] = elims[p]
    BY <1>2, <2>1, BlamesKeptFacts
  <2> QED
    BY <1>7, <2>2, SameLedger DEF BlamesForeseen
<1> QED
  BY <1>8, <1>9, <1>11, <1>12, <1>13, <1>14 DEF GuessInv

\* The parent of a game that is stored is followed.
LEMMA StoredOnFollowed ==
  ASSUME LedgerInv, AgentInv, GuessInv, NEW elims, NEW i, i = next, i \in Indices,
         DOMAIN proposals # {}, games[i].ours, Participates(elims, i)
  PROVE  /\ i # Root /\ Parent(i) \in Followed /\ i \in Children(Parent(i)) /\ Parent(i) < i
         /\ Height(i) = Height(Parent(i)) + 1 /\ games[i].proposer \in Proposers
         /\ i \notin resolved => ~EliminatedBefore(elims, i) /\ ~TimedOut(i)
<1>1. i # Root
  <2>1. PICK j \in DOMAIN proposals : j < next /\ j \in Nat
    BY LedgerCount DEF GuessInv, NothingDelayed, AgentInv, CacheIsSound
  <2> QED
    BY <2>1 DEF Root
<1>2. Parent(i) \in Followed
  <2>1. CASE i \in resolved
    BY <2>1, ResolvedNext
  <2>2. CASE i \notin resolved
    BY <1>1, <2>2 DEF Participates, Followed, Parent
  <2> QED
    BY <2>1, <2>2
<1>3. i \in Children(Parent(i))
  BY <1>1 DEF Children, Parent
<1> QED
  BY <1>1, <1>2, <1>3, ChildFacts DEF GuessInv, Participates

\* A canonical proposal is on the tip, and not to be eliminated.
LEMMA CanonicalOnTip ==
  ASSUME LedgerInv, AgentInv, GuessInv, NEW i, i = next, i \in Indices, NEW elims, elims = Fetched(i),
         DOMAIN proposals # {}, games[i].ours, Participates(elims, i), IsCanonical(elims, i)
  PROVE  /\ Parent(i) = tip /\ SuccessorOf(tip) = None /\ games[i].good
         /\ ~Out(i) /\ ~EliminatedBefore(elims, i)
         /\ \A x \in resolved : Height(x) = Height(i) => x = i
<1>1. /\ i # Root /\ Parent(i) \in Followed /\ i \in Children(Parent(i)) /\ Parent(i) < i
      /\ Height(i) = Height(Parent(i)) + 1 /\ games[i].proposer \in Proposers
  BY StoredOnFollowed
<1>2. Climbing /\ ChainResolved /\ FollowedIsChain /\ FollowedIsRight
  BY DEF GuessInv
<1>3. tip \in Followed /\ tip \in DOMAIN proposals /\ tip \in Indices /\ i \in Nat
        /\ lastResolved \in Followed \cap resolved /\ Height(tip) \in Nat
  BY <1>1, FollowedFacts
<1>4. games[i].good /\ ~EliminatedBefore(elims, i) /\ Height(tip) < Height(i)
  BY <1>3, BlockOrder DEF IsCanonical, IsCorrect
<1>5. Parent(i) = tip
  <2>1. PICK u \in Followed : u = Parent(i)
    BY <1>1
  <2>2. u <= tip /\ u \in Nat /\ tip \in Nat
    BY <1>2, <1>3, FollowedFacts DEF FollowedIsChain
  <2>3. ~(Height(u) < Height(tip))
    BY <1>1, <1>3, <1>4, <2>1, FollowedFacts
  <2>4. ~(u < tip)
    BY <1>2, <1>3, <2>3 DEF FollowedIsChain
  <2> QED
    BY <2>1, <2>2, <2>4
<1>6. SuccessorOf(tip) = None
  <2> SUFFICES ASSUME SuccessorOf(tip) # None PROVE FALSE
    OBVIOUS
  <2>1. PICK s \in Followed \ {Root} : Parent(s) = tip
    BY <1>2, <1>3 DEF FollowedIsChain
  <2>2. s <= tip /\ tip < s /\ s \in Nat /\ tip \in Nat
    BY <1>2, <1>3, <2>1, FollowedFacts DEF FollowedIsChain
  <2> QED
    BY <2>2
<1>7. ~Out(i)
  <2> SUFFICES ASSUME Out(i) PROVE FALSE
    OBVIOUS
  <2>1. PICK p \in Proposers : p = games[i].proposer
    BY <1>1
  <2>2. PICK r : r = round[p] /\ r # 0 /\ r <= i
    BY <2>1 DEF Out
  <2>3. r # i /\ r \in Nat
    BY <1>2, <1>4, <2>2, LedgerTypes
  <2>4. elims[p] = r
    <3>1. CASE eliminations[p] = 0
      BY <2>1, <2>2, <3>1 DEF Fetched
    <3>2. CASE eliminations[p] # 0
      <4>1. elims[p] = eliminations[p]
        BY <3>2 DEF Fetched
      <4>2. ~Foreseen(p, eliminations[p])
        BY <2>2 DEF Foreseen
      <4>3. round[p] = eliminations[p]
        BY <3>2, <4>2 DEF GuessInv, BlamesForeseen
      <4> QED
        BY <2>2, <4>1, <4>3
    <3> QED
      BY <3>1, <3>2
  <2> QED
    BY <1>1, <1>3, <1>4, <2>1, <2>2, <2>3, <2>4 DEF EliminatedBefore
<1>8. ASSUME NEW x \in resolved, Height(x) = Height(i) PROVE x = i
  <2>1. x \in Nat /\ x \in Indices /\ x # Root
    BY <1>1, <1>2, <1>3, <1>5, <1>8, LedgerTypes DEF Climbing
  <2>2. ~(x < i)
    <3> SUFFICES ASSUME x < i PROVE FALSE
      OBVIOUS
    <3>1. Height(lastResolved) <= Height(tip) /\ Height(lastResolved) \in Nat
      <4>1. lastResolved <= tip /\ lastResolved \in Nat /\ tip \in Nat
        BY <1>2, <1>3, FollowedFacts DEF FollowedIsChain
      <4>2. lastResolved = tip \/ lastResolved < tip
        BY <4>1
      <4>3. lastResolved < tip => Height(lastResolved) < Height(tip)
        BY <1>2, <1>3 DEF FollowedIsChain
      <4> QED
        BY <1>3, <4>2, <4>3, FollowedFacts
    <3>2. Height(lastResolved) < Height(x)
      BY <1>1, <1>3, <1>5, <1>8, <3>1
    <3>3. lastResolved < x /\ lastResolved \in DOMAIN proposals
      BY <1>2, <1>3, <3>2, SameHeight, FollowedFacts
    <3>4. x \in Followed
      BY <1>2, <1>3, <2>1, <3>3, FollowedFacts DEF FollowedIsRight
    <3>5. x <= tip /\ tip < x
      BY <1>2, <1>3, <1>4, <1>8, <3>4, FollowedFacts DEF FollowedIsChain
    <3> QED
      BY <1>3, <2>1, <3>5, FollowedFacts
  <2>3. ~(i < x)
    <3> SUFFICES ASSUME i < x PROVE FALSE
      OBVIOUS
    <3>1. games[x].ours /\ Parent(x) \in resolved /\ WonBy(x) /\ Height(x) = Height(Parent(x)) + 1
      BY <1>2, <2>1 DEF ChainResolved, Climbing
    <3>2. Height(Parent(x)) = Height(tip)
      BY <1>1, <1>2, <1>3, <1>5, <1>8, <3>1, LedgerTypes
    <3>3. Parent(x) = tip
      BY <1>2, <1>3, <3>1, <3>2 DEF FollowedIsRight
    <3> QED
      BY <1>1, <1>4, <1>5, <1>7, <3>1, <3>3 DEF WonBy
  <2> QED
    BY <1>3, <2>1, <2>2, <2>3
<1> QED
  BY <1>4, <1>5, <1>6, <1>7, <1>8

LEMMA AncestryExtends ==
  ASSUME NEW i \in Indices, NEW c \in Ancestry(Parent(i))
  PROVE  c \in Ancestry(i)
BY DEF Ancestry, Parent

\* A canonical proposal is the new tip.
LEMMA StoreCanonical ==
  ASSUME LedgerInv, AgentInv, GuessInv, HasNext, UNCHANGED <<ledgerVars, safe, safe0>>,
         NEW i, i = NextIndex, Store(i), DOMAIN proposals # {}, i # Root, IsCanonical(Fetched(i), i)
  PROVE  GuessInv'
<1>1. PICK elims : elims = Fetched(i)
  OBVIOUS
<1>2. /\ i = next /\ i \in Indices /\ i \in Nat /\ i \notin DOMAIN proposals /\ games[i].ours
      /\ Participates(elims, i) /\ BlamesKept(elims)
      /\ next' = i + 1 /\ delayed' = <<>> /\ queued' = <<>> /\ pc' = pc
      /\ DOMAIN proposals' = DOMAIN proposals \cup {i} /\ SuccessorOf(i)' = None
  BY <1>1, StoreEffect
<1>3. /\ Followed' = Followed \cup {i} /\ tip' = i /\ eliminations' = elims
      /\ lastResolved' = IF i \in resolved THEN i ELSE lastResolved
      /\ \A j \in DOMAIN proposals : SuccessorOf(j)' = IF j = Parent(i) THEN i ELSE SuccessorOf(j)
  BY <1>1, StoreEffect
<1>4. /\ Parent(i) = tip /\ SuccessorOf(tip) = None /\ games[i].good
      /\ ~Out(i) /\ ~EliminatedBefore(elims, i)
      /\ \A x \in resolved : Height(x) = Height(i) => x = i
  BY <1>1, <1>2, CanonicalOnTip
<1>5. /\ i # Root /\ tip \in Followed /\ i \in Children(tip) /\ tip < i
      /\ Height(i) = Height(tip) + 1 /\ games[i].proposer \in Proposers
  BY <1>2, <1>4, StoredOnFollowed
<1>6. Climbing /\ ChainResolved /\ NothingDelayed /\ FollowedIsChain /\ FollowedIsRight
  BY DEF GuessInv
<1>7. Followed \subseteq DOMAIN proposals /\ DOMAIN proposals \subseteq Nat
  BY LedgerCount DEF Followed, AgentInv, CacheIsSound
<1>8. \A c \in Followed : /\ c <= tip /\ c < i /\ Height(c) <= Height(tip) /\ Height(c) < Height(i)
                          /\ Height(c) \in Nat /\ c \in Nat
  <2> SUFFICES ASSUME NEW c \in Followed
               PROVE  /\ c <= tip /\ c < i /\ Height(c) <= Height(tip) /\ Height(c) < Height(i)
                      /\ Height(c) \in Nat /\ c \in Nat
    OBVIOUS
  <2>1. c <= tip /\ c \in Nat /\ tip \in Nat /\ Height(c) \in Nat /\ Height(tip) \in Nat
    BY <1>5, <1>6, FollowedFacts DEF FollowedIsChain
  <2>2. c = tip \/ Height(c) < Height(tip)
    BY <1>5, <1>6, <2>1 DEF FollowedIsChain
  <2> QED
    BY <1>2, <1>5, <2>1, <2>2
<1>9. Climbing' /\ ChainResolved'
  BY <1>6, QuietChain DEF ledgerVars, Climbing
<1>10. NothingDelayed'
  <2>1. i + 1 <= GameCount
    BY <1>2, LedgerCount
  <2>2. \A j \in DOMAIN proposals' : j < next' /\ games'[j].ours
    <3>1. \A j \in DOMAIN proposals : j < i + 1 /\ games[j].ours
      BY <1>2, <1>6, <1>7 DEF NothingDelayed
    <3> QED
      BY <1>2, <3>1, SameLedger
  <2>3. DOMAIN proposals' # {} /\ tip' \in Followed' /\ lastResolved' \in Followed' \cap resolved'
    BY <1>2, <1>3, <1>5, SameLedger, FollowedFacts
  <2>4. next' <= GameCount'
    BY <1>2, <2>1, SameLedger
  <2> QED
    BY <1>2, <1>6, <2>2, <2>3, <2>4 DEF NothingDelayed
<1>11. FollowedIsChain'
  <2>1. \A c \in Followed' : c <= tip' /\ c \in Ancestry(tip)'
    <3> SUFFICES ASSUME NEW c \in Followed \cup {i} PROVE c <= i /\ c \in Ancestry(i)
      BY <1>3, SameLedger DEF Ancestry
    <3>1. CASE c = i
      BY <1>2, <3>1 DEF Ancestry
    <3>2. CASE c \in Followed
      <4>1. c \in Ancestry(Parent(i))
        BY <1>4, <1>6, <3>2 DEF FollowedIsChain
      <4> QED
        BY <1>2, <1>8, <3>2, <4>1, AncestryExtends
    <3> QED
      BY <3>1, <3>2
  <2>2. \A c, d \in Followed' : c < d => Height(c)' < Height(d)' /\ Parent(d)' \in Followed'
    <3> SUFFICES ASSUME NEW c \in Followed \cup {i}, NEW d \in Followed \cup {i}, c < d
                 PROVE  Height(c) < Height(d) /\ Parent(d) \in Followed \cup {i}
      BY <1>3, SameLedger
    <3>1. c \in Followed
      BY <1>2, <1>8
    <3>2. CASE d = i
      BY <1>4, <1>5, <1>8, <3>1, <3>2
    <3>3. CASE d \in Followed
      BY <1>6, <3>1, <3>3 DEF FollowedIsChain
    <3> QED
      BY <3>2, <3>3
  <2>3. \A c, d \in Followed' : \A h \in Height(c)'..Height(d)' : \E x \in Followed' : Height(x)' = h
    <3> SUFFICES ASSUME NEW c \in Followed \cup {i}, NEW d \in Followed \cup {i},
                        NEW h \in Height(c)..Height(d)
                 PROVE  \E x \in Followed \cup {i} : Height(x) = h
      BY <1>3, SameLedger
    <3>1. CASE h = Height(i)
      BY <3>1
    <3>2. CASE h # Height(i)
      <4>1. Height(i) \in Nat /\ Height(tip) \in Nat
        BY <1>5, <1>8
      <4>2. h <= Height(tip)
        BY <1>5, <1>8, <3>2, <4>1
      <4>3. c \in Followed
        BY <1>5, <4>1, <4>2
      <4>4. h \in Height(c)..Height(tip)
        BY <1>8, <4>1, <4>2, <4>3
      <4> QED
        BY <1>5, <1>6, <4>3, <4>4 DEF FollowedIsChain
    <3> QED
      BY <3>1, <3>2
  <2>4. \A t \in DOMAIN proposals' : SuccessorOf(t)' # None =>
          t \in Followed' /\ SuccessorOf(t)' \in Followed' \ {Root} /\ Parent(SuccessorOf(t))' = t
    <3> SUFFICES ASSUME NEW t \in DOMAIN proposals', NEW q, q = SuccessorOf(t)', q # None
                 PROVE  t \in Followed' /\ q \in Followed' \ {Root} /\ Parent(q) = t
      BY SameLedger DEF Parent
    <3>1. t \in DOMAIN proposals
      BY <1>2
    <3>2. CASE t = tip
      BY <1>3, <1>4, <1>5, <3>1, <3>2
    <3>3. CASE t # tip
      BY <1>3, <1>4, <1>6, <3>1, <3>3 DEF FollowedIsChain
    <3> QED
      BY <3>2, <3>3
  <2>5. \A c \in Followed' \ {Root} : Parent(c)' \in DOMAIN proposals' => SuccessorOf(Parent(c))' = c
    <3> SUFFICES ASSUME NEW c \in Followed' \ {Root}, NEW q, q = Parent(c), q \in DOMAIN proposals'
                 PROVE  SuccessorOf(q)' = c
      BY SameLedger DEF SuccessorOf
    <3>1. CASE c = i
      BY <1>3, <1>4, <1>5, <1>7, <3>1
    <3>2. CASE c # i
      <4>1. c \in Followed \ {Root} /\ q < c /\ c <= tip /\ q \in Nat /\ c \in Nat /\ tip \in Nat
        BY <1>3, <1>5, <1>8, <3>2, FollowedFacts, LedgerTypes, <1>6
      <4>2. q # tip /\ q # i
        BY <1>2, <1>5, <4>1
      <4> QED
        BY <1>2, <1>3, <1>4, <1>6, <4>1, <4>2 DEF FollowedIsChain
    <3> QED
      BY <3>1, <3>2
  <2> QED
    BY <2>1, <2>2, <2>3, <2>4, <2>5 DEF FollowedIsChain
<1>12. FollowedIsRight'
  <2>1. \A c \in Followed' \ {Root} : ~Out(c)' /\ ~EliminatedBefore(eliminations, c)'
    <3>1. \A c \in Followed \ {Root} : ~Out(c) /\ ~EliminatedBefore(elims, c)
      BY <1>2, <1>6, BlamesKeptFacts DEF FollowedIsRight
    <3> QED
      BY <1>3, <1>4, <3>1, SameLedger DEF EliminatedBefore
  <2>2. \A c \in Followed', x \in resolved' : Height(x)' = Height(c)' => x = c
    BY <1>3, <1>4, <1>6, SameLedger DEF FollowedIsRight
  <2>3. \A w \in resolved' : w < next' /\ (\E t \in DOMAIN proposals' : t <= w) => w \in Followed'
    <3> SUFFICES ASSUME NEW w \in resolved, w < i + 1, NEW t \in DOMAIN proposals \cup {i}, t <= w
                 PROVE  w \in Followed \cup {i}
      BY <1>2, <1>3, SameLedger
    <3>1. w \in Nat
      BY <1>6, LedgerTypes
    <3>2. CASE w = i
      BY <3>2
    <3>3. CASE w # i
      <4>1. w < next /\ t # i
        BY <1>2, <3>1, <3>3
      <4> QED
        BY <1>6, <4>1 DEF FollowedIsRight
    <3> QED
      BY <3>2, <3>3
  <2> QED
    BY <2>1, <2>2, <2>3 DEF FollowedIsRight
<1>13. \A t \in Followed \ {tip} : \A c : TooLate(t, c)' = TooLate(t, c)
  BY <1>3, <1>4, <1>7, SameLedger DEF TooLate
<1>14. \A u : u = tip => SuccessorOf(u)' = i
  BY <1>3, <1>4, <1>5, <1>7
<1>15. ChildrenSeen'
  <2> SUFFICES ASSUME NEW t \in Followed', NEW c \in Children(t), c < next'
               PROVE  IF games[c].good
                      THEN \/ c = SuccessorOf(t)' \/ (SuccessorOf(t)' # None /\ SuccessorOf(t)' < c)
                           \/ EliminatedBefore(elims, c)
                      ELSE \/ elims[games[c].proposer] # 0 /\ elims[games[c].proposer] <= c
                           \/ TooLate(t, c)'
    BY <1>3, SameLedger DEF ChildrenSeen, EliminatedBefore
  <2>1. c \in Nat /\ t < c /\ c <= i /\ Parent(c) = t
    BY <1>2, <1>6, ChildFacts, LedgerTypes
  <2>2. t # i /\ t \in Followed
    BY <1>2, <1>3, <2>1
  <2>3. CASE c = i
    BY <1>4, <1>14, <2>1, <2>3
  <2>4. CASE c # i
    <3>1. c < next
      BY <1>2, <2>1, <2>4
    <3>2. Dealt(eliminations, t, c)
      BY <2>2, <3>1 DEF GuessInv, ChildrenSeen, Dealt
    <3>3. Dealt(elims, t, c)
      BY <1>2, <3>2, BlamesKeptFacts DEF Dealt
    <3>4. CASE t = tip
      <4>1. c # None
        BY <2>1 DEF None
      <4> QED
        BY <1>4, <3>3, <3>4, <4>1 DEF Dealt, TooLate
    <3>5. CASE t # tip
      BY <1>3, <1>4, <1>7, <1>13, <2>2, <3>3, <3>5 DEF Dealt
    <3> QED
      BY <3>4, <3>5
  <2> QED
    BY <2>3, <2>4
<1>16. BlamesForeseen'
  <2> SUFFICES ASSUME NEW p \in Proposers, NEW e, e = elims[p], e # 0, round[p] # e
               PROVE  Foreseen(p, e)'
    BY <1>3, SameLedger DEF BlamesForeseen
  <2>1. Foreseen(p, e)
    BY <1>2, BlamesKeptFacts
  <2>2. PICK u : u = Parent(e) /\ u = Parent(e)'
    BY SameLedger
  <2>3. u \in Followed /\ ~Decided(u) /\ e < next /\ e \in Nat /\ ~TooLate(u, e)
    BY <2>1, <2>2, LedgerCount DEF Foreseen, Children
  <2>4. ~TooLate(u, e)'
    <3>1. CASE u # tip
      BY <1>13, <2>3, <3>1
    <3>2. CASE u = tip
      <4>1. SuccessorOf(u)' = i /\ ~(i < e)
        BY <1>2, <1>14, <2>3, <3>2
      <4> QED
        BY <4>1 DEF TooLate
    <3> QED
      BY <3>1, <3>2
  <2>5. TooLate(Parent(e), e)' = TooLate(u, e)'
    BY <2>2 DEF TooLate, SuccessorOf
  <2>6. Decided(Parent(e))' = Decided(u)' /\ Children(Parent(e))' = Children(u)'
    BY <2>2 DEF Decided, Children
  <2>7. e < next' /\ u \in Followed'
    BY <1>2, <1>3, <2>3
  <2> QED
    BY <2>1, <2>2, <2>4, <2>5, <2>6, <2>7, SameLedger DEF Foreseen
<1> QED
  BY <1>9, <1>10, <1>11, <1>12, <1>15, <1>16 DEF GuessInv

\* A resolved game is canonical when it is loaded.
LEMMA ResolvedIsCanonical ==
  ASSUME LedgerInv, AgentInv, GuessInv, NEW elims, BlamesKept(elims), NEW i, i = next, i \in resolved,
         DOMAIN proposals # {}, Participates(elims, i)
  PROVE  IsCanonical(elims, i)
<1>1. Climbing /\ ChainResolved /\ FollowedIsChain /\ FollowedIsRight
  BY DEF GuessInv
<1>2. i \in Indices /\ games[i].ours /\ games[i].good
  BY <1>1, LedgerTypes DEF ChainResolved, Climbing
<1>3. ~EliminatedBefore(elims, i)
  BY WinnerNotBlamed
<1>4. PICK u \in Followed : u = Parent(i) /\ Height(i) = Height(u) + 1 /\ Height(u) \in Nat
  BY <1>2, StoredOnFollowed, FollowedFacts
<1>5. tip \in Followed /\ tip \in Indices /\ Height(tip) \in Nat
  BY <1>4, FollowedFacts
<1>6. Height(tip) < Height(i)
  <2> SUFFICES ASSUME ~(Height(tip) < Height(i)) PROVE FALSE
    OBVIOUS
  <2>1. Height(i) \in Height(u)..Height(tip)
    BY <1>4, <1>5
  <2>2. PICK x \in Followed : Height(x) = Height(i)
    BY <1>1, <1>5, <2>1 DEF FollowedIsChain
  <2>3. i \in Followed
    BY <1>1, <2>2 DEF FollowedIsRight
  <2>4. i < next /\ next \in Nat
    BY <2>3, FollowedFacts
  <2> QED
    BY <2>4
<1> QED
  BY <1>2, <1>3, <1>5, <1>6, BlockOrder DEF IsCanonical, IsCorrect

\* A faulty game that is not late is eliminated when its tournament is decided.
LEMMA NotLateIsOut ==
  ASSUME LedgerInv, AgentInv, GuessInv, NEW u \in Followed, NEW i \in Children(u), i = next,
         ~games[i].good, ~TimedOut(i), Decided(u)
  PROVE  Out(i)
<1>1. PICK w \in Children(u) : w \in resolved
  BY DEF Decided
<1>2. Climbing /\ ChainResolved /\ FollowedIsRight /\ FollowedIsChain
  BY DEF GuessInv
<1>3. w # Root /\ Parent(w) = u /\ u < w /\ w \in Nat /\ u \in Nat /\ i \in Nat
  BY <1>1, <1>2, ChildFacts, LedgerTypes
<1>4. Out(i) \/ (i > w /\ games[i].at - games[w].at >= Timeout)
  BY <1>1, <1>2, <1>3 DEF ChainResolved, WonBy
<1>5. ASSUME i > w, games[i].at - games[w].at >= Timeout PROVE FALSE
  <2>1. w < next /\ u <= w /\ u \in DOMAIN proposals
    BY <1>3, <1>5, FollowedFacts
  <2>2. w \in Followed \ {Root}
    BY <1>1, <1>2, <1>3, <2>1 DEF FollowedIsRight
  <2>3. SuccessorOf(u) = w
    BY <1>2, <1>3, <2>1, <2>2 DEF FollowedIsChain
  <2>4. w # None /\ games[i].parent = u
    BY <1>3 DEF None, Children
  <2> QED
    BY <1>5, <2>3, <2>4 DEF TimedOut, SuccessorOf
<1> QED
  BY <1>4, <1>5

\* A proposal that is not canonical leaves the tip; a faulty one is blamed.
LEMMA StoreOther ==
  ASSUME LedgerInv, AgentInv, GuessInv, HasNext, UNCHANGED <<ledgerVars, safe, safe0>>,
         NEW i, i = NextIndex, Store(i), DOMAIN proposals # {}, i # Root, ~IsCanonical(Fetched(i), i)
  PROVE  GuessInv'
<1>1. PICK elims : elims = Fetched(i)
  OBVIOUS
<1>2. /\ i = next /\ i \in Indices /\ i \in Nat /\ i \notin DOMAIN proposals /\ games[i].ours
      /\ Participates(elims, i) /\ BlamesKept(elims) /\ Faults(elims)
      /\ next' = i + 1 /\ delayed' = <<>> /\ queued' = <<>> /\ pc' = pc
      /\ DOMAIN proposals' = DOMAIN proposals \cup {i} /\ SuccessorOf(i)' = None
  BY <1>1, StoreEffect
<1>3. /\ Followed' = Followed /\ tip' = tip /\ lastResolved' = lastResolved
      /\ \A j \in DOMAIN proposals : SuccessorOf(j)' = SuccessorOf(j)
      /\ eliminations' = IF ~IsCorrect(i) /\ elims[games[i].proposer] = 0
                         THEN [elims EXCEPT ![games[i].proposer] = i] ELSE elims
  BY <1>1, StoreEffect
<1>4. Climbing /\ ChainResolved /\ NothingDelayed /\ FollowedIsChain /\ FollowedIsRight
  BY DEF GuessInv
<1>5. i \notin resolved
  BY <1>1, <1>2, ResolvedIsCanonical
<1>6. PICK u \in Followed : u = Parent(i)
  BY <1>2, StoredOnFollowed
<1>7. /\ i \in Children(u) /\ u < i /\ Height(i) = Height(u) + 1 /\ games[i].proposer \in Proposers
      /\ ~EliminatedBefore(elims, i) /\ ~TimedOut(i) /\ u \in DOMAIN proposals /\ Height(u) \in Nat
  BY <1>2, <1>5, <1>6, StoredOnFollowed, FollowedFacts
<1>8. PICK q \in Proposers : q = games[i].proposer
  BY <1>7
<1>9. IsCorrect(i) <=> games[i].good
  BY <1>6, <1>7 DEF IsCorrect, Parent, Followed, AgentInv, CacheIsSound
<1>10. Followed \subseteq DOMAIN proposals /\ DOMAIN proposals \subseteq Nat
  BY LedgerCount DEF Followed, AgentInv, CacheIsSound
<1>11. \A p \in Proposers : \/ eliminations'[p] = elims[p]
                            \/ /\ p = q /\ eliminations'[p] = i /\ elims[p] = 0 /\ ~games[i].good
                               /\ round[p] = 0 /\ eliminations[p] = 0
  <2>1. elims \in [Proposers -> Nat]
    BY <1>2 DEF Faults
  <2>2. elims[q] = 0 => round[q] = 0 /\ eliminations[q] = 0
    BY <1>1, <1>8 DEF Fetched
  <2> QED
    BY <1>3, <1>8, <1>9, <2>1, <2>2
<1>12. ~games[i].good => eliminations'[q] # 0 /\ eliminations'[q] <= i
  <2> SUFFICES ASSUME ~games[i].good PROVE eliminations'[q] # 0 /\ eliminations'[q] <= i
    OBVIOUS
  <2>1. elims \in [Proposers -> Nat]
    BY <1>2 DEF Faults
  <2>2. CASE elims[q] = 0
    <3>1. eliminations'[q] = i
      BY <1>3, <1>8, <1>9, <2>1, <2>2
    <3> QED
      BY <1>2, <3>1 DEF Root
  <2>3. CASE elims[q] # 0
    <3>1. eliminations'[q] = elims[q] /\ elims[q] \in Nat
      BY <1>3, <1>8, <2>1, <2>3
    <3>2. ~(elims[q] > i)
      <4> SUFFICES ASSUME elims[q] > i PROVE FALSE
        OBVIOUS
      <4>1. ~Foreseen(q, elims[q])
        BY <1>2, <3>1 DEF Foreseen
      <4>2. PICK k : k = elims[q] /\ k = round[q] /\ k # 0
        BY <1>2, <2>3, <4>1, BlamesKeptFacts
      <4>3. /\ k \in Indices \ {Root} /\ games[k].proposer = q /\ games[k].ours
            /\ Parent(k) \in resolved /\ Height(k) = Height(Parent(k)) + 1
        BY <1>4, <4>2, LedgerTypes DEF ChainResolved, Climbing
      <4>4. Height(i) < Height(k)
        BY <1>2, <1>4, <1>8, <4>2, <4>3 DEF Climbing
      <4>5. Height(u) < Height(Parent(k))
        BY <1>4, <1>7, <4>3, <4>4, LedgerTypes
      <4>6. Out(i)
        BY <1>2, <1>6, <1>7, <4>3, <4>5, LowFollowed, NotLateIsOut
      <4> QED
        BY <1>2, <1>8, <3>1, <4>2, <4>6 DEF Out
    <3> QED
      BY <1>2, <2>3, <3>1, <3>2
  <2> QED
    BY <2>2, <2>3
<1>13. games[i].good => SuccessorOf(u) # None /\ SuccessorOf(u) < i
  <2> SUFFICES ASSUME games[i].good PROVE SuccessorOf(u) # None /\ SuccessorOf(u) < i
    OBVIOUS
  <2>1. tip \in Followed /\ tip \in DOMAIN proposals /\ tip \in Indices /\ Height(tip) \in Nat
    BY FollowedFacts
  <2>2. ~(Height(tip) < Height(i))
    BY <1>1, <1>2, <1>7, <1>9, <2>1, BlockOrder DEF IsCanonical
  <2>3. Height(i) \in Height(u)..Height(tip)
    BY <1>7, <2>1, <2>2
  <2>4. PICK x \in Followed : Height(x) = Height(i)
    BY <1>4, <2>1, <2>3 DEF FollowedIsChain
  <2>5. u < x /\ x # Root /\ x \in Nat /\ x < i
    BY <1>2, <1>7, <2>4, FollowedFacts DEF Root
  <2>6. Parent(x) \in Followed /\ Height(x) = Height(Parent(x)) + 1
    BY <1>4, <2>4, <2>5, FollowedFacts DEF FollowedIsChain
  <2>7. Height(Parent(x)) = Height(u)
    BY <1>7, <2>4, <2>6, FollowedFacts
  <2>8. Parent(x) = u
    BY <2>6, <2>7, FollowedFacts
  <2>9. SuccessorOf(u) = x
    BY <1>4, <1>7, <2>4, <2>5, <2>8 DEF FollowedIsChain
  <2> QED
    BY <2>5, <2>9 DEF None
<1>14. Climbing' /\ ChainResolved'
  BY <1>4, QuietChain DEF ledgerVars, Climbing
<1>15. NothingDelayed'
  <2>1. i + 1 <= GameCount
    BY <1>2, LedgerCount
  <2>2. \A j \in DOMAIN proposals' : j < next' /\ games'[j].ours
    <3>1. \A j \in DOMAIN proposals : j < i + 1 /\ games[j].ours
      BY <1>2, <1>4, <1>10 DEF NothingDelayed
    <3> QED
      BY <1>2, <3>1, SameLedger
  <2>3. DOMAIN proposals' # {} /\ tip' \in Followed' /\ lastResolved' \in Followed' \cap resolved'
    BY <1>2, <1>3, SameLedger, FollowedFacts
  <2>4. next' <= GameCount'
    BY <1>2, <2>1, SameLedger
  <2> QED
    BY <1>2, <1>4, <2>2, <2>3, <2>4 DEF NothingDelayed
<1>16. FollowedIsChain'
  <2>1. \A t \in DOMAIN proposals' : SuccessorOf(t)' # None =>
          t \in Followed' /\ SuccessorOf(t)' \in Followed' \ {Root} /\ Parent(SuccessorOf(t))' = t
    <3> SUFFICES ASSUME NEW t \in DOMAIN proposals', NEW s, s = SuccessorOf(t)', s # None
                 PROVE  t \in Followed' /\ s \in Followed' \ {Root} /\ Parent(s) = t
      BY SameLedger DEF Parent
    <3>1. t \in DOMAIN proposals
      BY <1>2
    <3> QED
      BY <1>3, <1>4, <3>1 DEF FollowedIsChain
  <2>2. \A c \in Followed' \ {Root} : Parent(c)' \in DOMAIN proposals' => SuccessorOf(Parent(c))' = c
    <3> SUFFICES ASSUME NEW c \in Followed \ {Root}, NEW s, s = Parent(c), s \in DOMAIN proposals'
                 PROVE  SuccessorOf(s)' = c
      BY <1>3, SameLedger DEF SuccessorOf
    <3>1. s < c /\ c < next /\ c \in Nat /\ s \in Nat
      BY FollowedFacts, LedgerCount
    <3>2. s # i
      BY <1>2, <3>1
    <3> QED
      BY <1>2, <1>3, <1>4, <3>2 DEF FollowedIsChain
  <2>3. \A c \in Followed' : c <= tip' /\ c \in Ancestry(tip)'
    BY <1>3, <1>4, SameLedger DEF FollowedIsChain, Ancestry
  <2>4. /\ \A c, d \in Followed' : c < d => Height(c)' < Height(d)' /\ Parent(d)' \in Followed'
        /\ \A c, d \in Followed' : \A h \in Height(c)'..Height(d)' : \E x \in Followed' : Height(x)' = h
    BY <1>3, <1>4, SameLedger DEF FollowedIsChain
  <2> QED
    BY <2>1, <2>2, <2>3, <2>4 DEF FollowedIsChain
<1>17. FollowedIsRight'
  <2>1. \A c \in Followed' \ {Root} : ~Out(c)' /\ ~EliminatedBefore(eliminations, c)'
    <3> SUFFICES ASSUME NEW c \in Followed \ {Root} PROVE ~Out(c) /\ ~EliminatedBefore(eliminations', c)
      BY <1>3, SameLedger DEF EliminatedBefore
    <3>1. ~Out(c) /\ ~EliminatedBefore(elims, c) /\ c < next /\ c \in Nat /\ games[c].proposer \in Proposers
      BY <1>2, <1>4, BlamesKeptFacts, FollowedFacts DEF FollowedIsRight
    <3> QED
      BY <1>2, <1>11, <3>1 DEF EliminatedBefore
  <2>2. \A c \in Followed', x \in resolved' : Height(x)' = Height(c)' => x = c
    BY <1>3, <1>4, SameLedger DEF FollowedIsRight
  <2>3. \A w \in resolved' : w < next' /\ (\E t \in DOMAIN proposals' : t <= w) => w \in Followed'
    <3> SUFFICES ASSUME NEW w \in resolved, w < i + 1, NEW t \in DOMAIN proposals \cup {i}, t <= w
                 PROVE  w \in Followed
      BY <1>2, <1>3, SameLedger
    <3>1. w \in Nat /\ w # i
      BY <1>4, <1>5, LedgerTypes
    <3>2. w < next /\ t # i
      BY <1>2, <3>1
    <3> QED
      BY <1>4, <3>2 DEF FollowedIsRight
  <2> QED
    BY <2>1, <2>2, <2>3 DEF FollowedIsRight
<1>18. \A t \in Followed : \A c : TooLate(t, c)' = TooLate(t, c)
  BY <1>3, <1>10, SameLedger DEF TooLate
<1>19. ChildrenSeen'
  <2> SUFFICES ASSUME NEW t \in Followed, NEW c \in Children(t), c < next'
               PROVE  Dealt(eliminations', t, c)
    BY <1>3, <1>10, <1>18, SameLedger DEF ChildrenSeen, Dealt, EliminatedBefore
  <2>1. c \in Nat /\ c <= i /\ Parent(c) = t /\ games[c].proposer \in Proposers
    <3>1. c \in Indices /\ Parent(c) = t /\ games[c].proposer \in Proposers
      BY <1>4, ChildFacts
    <3>2. c \in Nat
      BY <3>1, LedgerCount
    <3> QED
      BY <1>2, <3>1, <3>2
  <2>2. CASE c = i
    BY <1>6, <1>8, <1>12, <1>13, <2>1, <2>2 DEF Dealt
  <2>3. CASE c # i
    <3>1. c < next
      BY <1>2, <2>1, <2>3
    <3>2. Dealt(eliminations, t, c)
      BY <3>1 DEF GuessInv, ChildrenSeen, Dealt
    <3>3. Dealt(elims, t, c)
      BY <1>2, <3>2, BlamesKeptFacts DEF Dealt
    <3> QED
      BY <1>11, <2>1, <3>3 DEF Dealt, EliminatedBefore
  <2> QED
    BY <2>2, <2>3
<1>20. BlamesForeseen'
  <2> SUFFICES ASSUME NEW p \in Proposers, NEW e, e = eliminations'[p], e # 0, round[p] # e
               PROVE  Foreseen(p, e)'
    BY SameLedger DEF BlamesForeseen
  <2>1. CASE e = elims[p]
    <3>1. Foreseen(p, e)
      BY <1>2, <2>1, BlamesKeptFacts
    <3>2. PICK t : t = Parent(e) /\ t = Parent(e)'
      BY SameLedger
    <3>3. t \in Followed /\ ~Decided(t) /\ e < next /\ e \in Nat /\ ~TooLate(t, e)
      BY <3>1, <3>2, LedgerCount DEF Foreseen, Children
    <3>4. ~TooLate(Parent(e), e)'
      BY <1>18, <3>2, <3>3 DEF TooLate, SuccessorOf
    <3>5. Decided(Parent(e))' = Decided(t)' /\ Children(Parent(e))' = Children(t)'
      BY <3>2 DEF Decided, Children
    <3>6. e < next' /\ t \in Followed'
      BY <1>2, <1>3, <3>3
    <3> QED
      BY <3>1, <3>2, <3>4, <3>5, <3>6, SameLedger DEF Foreseen
  <2>2. CASE /\ p = q /\ e = i /\ elims[p] = 0 /\ ~games[i].good /\ round[p] = 0
    <3>1. ~Out(i)
      BY <1>8, <2>2 DEF Out
    <3>2. ~Decided(u)
      BY <1>2, <1>7, <2>2, <3>1, NotLateIsOut
    <3>3. ~TooLate(u, i)
      BY <1>6, <1>7 DEF TooLate, TimedOut, SuccessorOf, Parent
    <3>4. u = Parent(i)'
      BY <1>6, SameLedger
    <3>5. ~TooLate(Parent(i), i)'
      BY <1>18, <3>3, <3>4 DEF TooLate, SuccessorOf
    <3>6. Decided(Parent(i))' = Decided(u)' /\ Children(Parent(i))' = Children(u)'
      BY <3>4 DEF Decided, Children
    <3>7. i < next'
      BY <1>2
    <3> QED
      BY <1>3, <1>7, <1>8, <2>2, <3>2, <3>4, <3>5, <3>6, <3>7, SameLedger DEF Foreseen
  <2> QED
    BY <1>11, <2>1, <2>2
<1> QED
  BY <1>14, <1>15, <1>16, <1>17, <1>19, <1>20 DEF GuessInv

LEMMA StoreGuess ==
  ASSUME LedgerInv, AgentInv, GuessInv, pc = "load", HasNext, UNCHANGED <<ledgerVars, safe, safe0>>,
         NEW i, i = NextIndex, Store(i)
  PROVE  GuessInv'
<1>1. CASE DOMAIN proposals = {}
  BY <1>1, StoreFirst
<1>2. CASE DOMAIN proposals # {}
  <2>1. i # Root
    <3>1. PICK j \in DOMAIN proposals : j < next /\ j \in Nat
      BY <1>2, LedgerCount DEF GuessInv, NothingDelayed, AgentInv, CacheIsSound
    <3>2. i = next
      BY LoadsNext
    <3> QED
      BY <3>1, <3>2 DEF Root
  <2> QED
    BY <1>2, <2>1, StoreCanonical, StoreOther
<1> QED
  BY <1>1, <1>2

LEMMA AgentGuess ==
  ASSUME LedgerInv, AgentInv, GuessInv, OpNodeAhead, AgentStep \/ Crash
  PROVE  GuessInv'
<1>1. CASE LoadNext
  <2>1. PICK i : i = NextIndex
    OBVIOUS
  <2>2. pc = "load" /\ HasNext /\ UNCHANGED <<ledgerVars, safe, safe0>>
    BY <1>1 DEF LoadNext
  <2>3. \/ SkipForeign(i)
        \/ SkipDangling(i)
        \/ Delay(i)
        \/ SkipIrrelevant(i)
        \/ FailAssess(i)
        \/ Store(i)
    BY <1>1, <2>1 DEF LoadNext
  <2> QED
    BY <2>1, <2>2, <2>3, SkipsGuess, StoreGuess
<1> QED
  BY <1>1, StartGuess, BookkeepingGuess, FollowGuess DEF AgentStep

LEMMA InitiallyRight ==
  ASSUME SyncInit
  PROVE  GuessInv
<1>1. /\ Indices = {Root} /\ games[Root].ours /\ games[Root].height = 0 /\ games[Root].at = 0
      /\ resolved = {} /\ now = 0 /\ \A p \in Proposers : round[p] = 0
  BY DEF SyncInit, LedgerInit, GameOf, Indices
<1>2. /\ pc = "off" /\ delayed = <<>> /\ queued = <<>> /\ next = 0 /\ DOMAIN proposals = {} /\ safe0 = 0
      /\ \A p \in Proposers : eliminations[p] = 0
  BY DEF SyncInit, AgentInit, Root
<1>3. Followed = {}
  BY <1>2 DEF Followed
<1>4. Climbing /\ ChainResolved
  BY <1>1 DEF Climbing, ChainResolved, Height
<1>5. NothingDelayed
  <2>1. safe \in InitialSafe /\ safe \in Int
    BY SyncAssumption DEF SyncInit
  <2>2. next <= GameCount
    <3>1. LedgerInv
      BY InitiallySound
    <3> QED
      BY <1>2, <3>1, LedgerCount
  <2> QED
    BY <1>2, <2>1, <2>2 DEF NothingDelayed
<1>6. FollowedIsChain /\ FollowedIsRight /\ ChildrenSeen /\ BlamesForeseen
  BY <1>1, <1>2, <1>3 DEF FollowedIsChain, FollowedIsRight, ChildrenSeen, BlamesForeseen
<1> QED
  BY <1>4, <1>5, <1>6 DEF GuessInv

\* One step of the agent, the chain or the op-node.
LEMMA SyncGuess ==
  ASSUME LedgerInv, AgentInv, GuessInv, OpNodeAhead, [SyncNext]_syncVars
  PROVE  LedgerInv' /\ AgentInv' /\ GuessInv'
<1>1. CASE AgentStep \/ Crash
  BY <1>1, AgentStepSound, AgentGuess
<1>2. CASE Environment
  <2>1. UNCHANGED agentVars
    BY <1>2 DEF Environment
  <2>2. \/ LedgerNext /\ UNCHANGED safe
        \/ UNCHANGED ledgerVars /\ safe' \in (safe + 1)..MaxSafe
    BY <1>2 DEF Environment, DeriveL2
  <2> QED
    BY <2>1, <2>2, EnvironmentSound, EnvironmentGuess
<1>3. CASE UNCHANGED syncVars
  <2>1. UNCHANGED <<ledgerVars, safe>> /\ UNCHANGED agentVars
    BY <1>3 DEF syncVars
  <2> QED
    BY <2>1, EnvironmentSound, EnvironmentGuess
<1> QED
  BY <1>1, <1>2, <1>3 DEF SyncNext

LEMMA SyncInvariant == SyncSpec /\ []OpNodeAhead => [](LedgerInv /\ AgentInv /\ GuessInv)
<1>1. SyncInit => LedgerInv /\ AgentInv /\ GuessInv
  BY InitiallySound, InitiallyRight
<1>2. LedgerInv /\ AgentInv /\ GuessInv /\ OpNodeAhead /\ [SyncNext]_syncVars
        => (LedgerInv /\ AgentInv /\ GuessInv)'
  BY SyncGuess
<1> QED
  BY <1>1, <1>2, PTL DEF SyncSpec

LEMMA GuessImplies ==
  ASSUME LedgerInv, AgentInv, GuessInv
  PROVE  SuccessorIsSurvivor /\ EliminationsAgreeWithTreasury /\ TipExtendsResolved
<1>1. SuccessorIsSurvivor
  <2> SUFFICES ASSUME NEW t \in DOMAIN proposals, NEW w \in Children(t) \cap resolved, Processed(w)
               PROVE  SuccessorOf(t) = w
    BY DEF SuccessorIsSurvivor, SuccessorOf
  <2>1. w < next /\ t < w /\ t \in Nat /\ w \in Nat /\ w # Root /\ Parent(w) = t
    BY ChildFacts, LedgerTypes DEF Processed, GuessInv
  <2>2. w \in Followed
    BY <2>1 DEF GuessInv, FollowedIsRight
  <2> QED
    BY <2>1, <2>2 DEF GuessInv, FollowedIsChain
<1>2. EliminationsAgreeWithTreasury
  BY DEF EliminationsAgreeWithTreasury, GuessInv, BlamesForeseen, Foreseen
<1>3. TipExtendsResolved
  <2>1. CASE DOMAIN proposals = {}
    <3>1. pc # "off" => tip = lastResolved /\ tip \in Indices
      BY <2>1 DEF GuessInv, NothingDelayed, ChainResolved
    <3> QED
      BY <2>1, <3>1 DEF TipExtendsResolved, Ancestry
  <2>2. CASE DOMAIN proposals # {}
    <3>1. tip \in Followed /\ lastResolved \in Followed
      BY <2>2 DEF GuessInv, NothingDelayed
    <3>2. {tip, lastResolved} \subseteq DOMAIN proposals /\ lastResolved \in Ancestry(tip)
      BY <3>1 DEF GuessInv, FollowedIsChain, Followed
    <3> QED
      BY <3>2 DEF TipExtendsResolved
  <2> QED
    BY <2>1, <2>2
<1> QED
  BY <1>1, <1>2, <1>3

\* The successor that sync() links to a proposal is the one that the chain resolves, as long
\* as the op-node is ahead of the proposals: determine_if_canonical, the elimination rounds it
\* reads and the ones it adds foresee what pruneChildren will do.
THEOREM SuccessorsSurvive == SyncSpec /\ []OpNodeAhead => []SuccessorIsSurvivor
BY SyncInvariant, GuessImplies, PTL

\* Agent and treasury never disagree on when a proposer was eliminated.
THEOREM EliminationsAgree == SyncSpec /\ []OpNodeAhead => []EliminationsAgreeWithTreasury
BY SyncInvariant, GuessImplies, PTL

\* The canonical tip extends the last resolved proposal, and both are cached between calls of
\* sync(): prune_data frees neither.
THEOREM TipExtends == SyncSpec /\ []OpNodeAhead => []TipExtendsResolved
BY SyncInvariant, GuessImplies, PTL

-----------------------------------------------------------------------------
(***************************************************************************)
(* The games that the RPC server has served.                               *)
(***************************************************************************)

LEMMA MinExists ==
  ASSUME NEW S \in SUBSET Nat, S # {}
  PROVE  Min(S) \in S /\ \A y \in S : Min(S) <= y
<1> DEFINE G == {n \in Nat : \A m \in 0..n : m \notin S}
<1>1. SUFFICES ASSUME ~\E x \in S : \A y \in S : x <= y PROVE FALSE
  BY DEF Min
<1>2. 0 \in G
  BY <1>1
<1>3. ASSUME NEW n \in Nat, n \in G PROVE n + 1 \in G
  <2>1. \A m \in 0..(n + 1) : m \in 0..n \/ m = n + 1
    OBVIOUS
  <2>2. \A y \in S : n + 1 <= y
    BY <1>3
  <2>3. n + 1 \notin S
    BY <1>1, <2>2
  <2> QED
    BY <1>3, <2>1, <2>3
<1>4. \A n \in Nat : n \in G
  <2> HIDE DEF G
  <2> QED
    BY <1>2, <1>3, Induction
<1>5. PICK x \in S : x \in Nat
  OBVIOUS
<1>6. x \in 0..x /\ \A m \in 0..x : m \notin S
  BY <1>4, <1>5
<1> QED
  BY <1>5, <1>6

\* What the agent frees is resolved.
LEMMA FollowedKept ==
  ASSUME LedgerInv, AgentInv, GuessInv, AgentStep, pc # "off"
  PROVE  Followed \subseteq Followed' \cup resolved'
<1>1. ASSUME FollowResolution PROVE Followed \subseteq Followed' \cup resolved'
  <2>1. PICK s : s = Successor
    OBVIOUS
  <2>2. /\ s \in DOMAIN proposals /\ s \in resolved /\ resolved' = resolved
        /\ proposals' = [j \in Kept(s) |-> IF j = s THEN [proposals[s] EXCEPT !.resolved = TRUE]
                                           ELSE proposals[j]]
    BY <1>1, <2>1 DEF FollowResolution, CanFollow, ledgerVars
  <2> SUFFICES ASSUME NEW c \in Followed, c \notin resolved PROVE c \in Followed'
    BY <2>2
  <2>3. s \in Nat /\ c \in Nat /\ c \in DOMAIN proposals /\ proposals[c].canonical
    BY <2>2, LedgerTypes, FollowedFacts DEF GuessInv, Followed
  <2>4. ~(Height(c) <= Height(s))
    BY <2>2, LowFollowed
  <2>5. s \in Followed
    <3>1. s # None /\ FollowedIsChain
      BY <2>3 DEF None, GuessInv
    <3> QED
      BY <1>1, <2>1, <3>1 DEF FollowedIsChain, SuccessorOf, Successor, FollowResolution, CanFollow
  <2>6. c >= s /\ c # s
    BY <2>3, <2>4, <2>5, FollowedFacts
  <2> QED
    BY <2>2, <2>3, <2>6 DEF Followed, Kept
<1>2. ASSUME LoadNext PROVE Followed \subseteq Followed'
  <2>1. PICK i : i = NextIndex
    OBVIOUS
  <2>2. HasNext /\ UNCHANGED <<ledgerVars, safe, safe0>>
    BY <1>2 DEF LoadNext
  <2>3. CASE proposals' = proposals
    BY <2>3 DEF Followed
  <2>4. CASE proposals' = WithChild(i)
    BY <2>4, WithChildFacts DEF Followed, AgentInv
  <2>5. CASE Store(i)
    <3>1. PICK elims : elims = IF i = Root THEN eliminations ELSE Fetched(i)
      OBVIOUS
    <3> QED
      BY <2>1, <2>2, <2>5, <3>1, StoreEffect
  <2> QED
    BY <1>2, <2>1, <2>3, <2>4, <2>5 DEF LoadNext, SkipForeign, SkipDangling, Delay, SkipIrrelevant, FailAssess
<1>3. ASSUME UNCHANGED proposals PROVE Followed' = Followed
  BY <1>3 DEF Followed
<1>4. CASE SyncOutputs \/ CountGames \/ LoadFails \/ LoadDone \/ SyncReturns
  BY <1>3, <1>4 DEF SyncOutputs, CountGames, LoadFails, LoadDone, SyncReturns
<1> QED
  BY <1>1, <1>2, <1>4 DEF AgentStep, Start

\* What sync() returns as canonical is followed, one game for each height.
LEMMA ExtendFacts ==
  ASSUME LedgerInv, AgentInv, GuessInv, ServedInv, NEW e, e = Extend(Tracked(Returned))
  PROVE  \A h \in DOMAIN e : \/ h \in DOMAIN served /\ e[h] = served[h]
                             \/ e[h] \in Followed /\ Block(e[h]) = h
<1> SUFFICES ASSUME NEW h \in DOMAIN e
             PROVE  \/ h \in DOMAIN served /\ e[h] = served[h]
                    \/ e[h] \in Followed /\ Block(e[h]) = h
  OBVIOUS
<1>1. PICK new : new = Tracked(Returned)
  OBVIOUS
<1>2. new \subseteq Followed
  BY <1>1 DEF Tracked, Returned, Followed
<1>3. e[h] = IF \E i \in new : Block(i) = h THEN Max({i \in new : Block(i) = h}) ELSE served[h]
  BY <1>1 DEF Extend
<1>4. CASE \E i \in new : Block(i) = h
  <2>1. PICK i \in new : Block(i) = h
    BY <1>4
  <2>2. \A j \in new : Block(j) = h => j = i
    BY <1>2, <2>1, BlockOrder, FollowedFacts
  <2>3. {j \in new : Block(j) = h} = {i} /\ i \in Nat
    BY <1>2, <2>1, <2>2, FollowedFacts
  <2>4. Max({i}) = i
    BY <2>3 DEF Max
  <2> QED
    BY <1>2, <1>3, <1>4, <2>1, <2>3, <2>4
<1>5. CASE ~\E i \in new : Block(i) = h
  BY <1>1, <1>3, <1>5 DEF Extend
<1> QED
  BY <1>4, <1>5

LEMMA ResolvedKept ==
  ASSUME LedgerInv, Climbing, ChainResolved, LedgerNext \/ UNCHANGED ledgerVars
  PROVE  GamesKept /\ resolved \subseteq resolved'
<1>1. CASE \E p \in Proposers, t \in Indices, ok \in BOOLEAN : Submit(p, t, ok)
  BY <1>1, SubmitLedger DEF Submit
<1>2. CASE SubmitForeign
  BY <1>2, ForeignLedger DEF SubmitForeign
<1>3. CASE \E t \in Indices : PruneSome(t)
  BY <1>3, PruneLedger DEF PruneSome
<1>4. CASE ResolveRoot
  BY <1>4, RootLedger, RootChain
<1>5. CASE \E w \in Indices : ResolveGame(w)
  BY <1>5, ResolveLedger DEF ResolveGame
<1>6. CASE UNCHANGED <<games, resolved, round>>
  BY <1>6, QuietLedger
<1> QED
  BY <1>1, <1>2, <1>3, <1>4, <1>5, <1>6 DEF LedgerNext, LedgerTick, ledgerVars

LEMMA ServedStays ==
  ASSUME LedgerInv, AgentInv, GuessInv, ServedInv, OpNodeAhead, [RpcNext]_rpcVars
  PROVE  LedgerInv' /\ AgentInv' /\ GuessInv' /\ ServedInv'
<1>1. [SyncNext]_syncVars
  BY DEF RpcNext, HandleSync, RpcCrash, SyncNext, rpcVars
<1>2. LedgerInv' /\ AgentInv' /\ GuessInv'
  BY <1>1, SyncGuess
<1>3. Climbing /\ ChainResolved
  BY DEF GuessInv
<1> SUFFICES ServedInv'
  BY <1>2
<1>4. ASSUME GamesKept, Followed \subseteq Followed' \cup resolved', resolved \subseteq resolved',
             NEW g, g \in Indices, games[g].ours, games[g].good, g \in Followed \cup resolved
      PROVE  /\ g \in Indices' /\ Block(g)' = Block(g) /\ games'[g].ours /\ games'[g].good
             /\ g \in Followed' \cup resolved'
  BY <1>4 DEF GamesKept, Block
<1>5. CASE HandleSync
  <2>1. AgentStep
    BY <1>5 DEF HandleSync
  <2>2. UNCHANGED ledgerVars
    BY <2>1 DEF AgentStep, Start, SyncOutputs, CountGames, LoadNext, LoadFails, LoadDone,
      FollowResolution, SyncReturns
  <2>3. GamesKept /\ resolved' = resolved
    BY <2>2, SameLedger DEF GamesKept
  <2>4. pc' = "off" => pc = "off" /\ served' = served
    BY <1>5, <2>1 DEF HandleSync, AgentStep, Start, SyncOutputs, CountGames, LoadFails, LoadDone,
      FollowResolution, SyncReturns, LoadNext, SkipForeign, SkipDangling, Delay, SkipIrrelevant,
      FailAssess, Store, EndLoad
  <2>5. CASE pc = "off"
    BY <1>5, <2>5 DEF HandleSync, ServedInv
  <2>6. CASE pc # "off"
    <3>1. Followed \subseteq Followed' \cup resolved'
      BY <2>1, <2>6, FollowedKept
    <3>2. \A h \in DOMAIN served' : \/ h \in DOMAIN served /\ served'[h] = served[h]
                                    \/ served'[h] \in Followed /\ Block(served'[h]) = h
      BY <1>5, ExtendFacts DEF HandleSync
    <3>3. \A h \in DOMAIN served' :
            /\ h \in Nat /\ served'[h] \in Indices /\ Block(served'[h]) = h
            /\ games[served'[h]].ours /\ games[served'[h]].good
            /\ served'[h] \in Followed \cup resolved
      BY <3>2, FollowedFacts, BlockOrder DEF ServedInv
    <3> QED
      BY <1>4, <2>3, <2>4, <2>6, <3>1, <3>3 DEF ServedInv
  <2> QED
    BY <2>5, <2>6
<1>6. CASE RpcCrash
  BY <1>6 DEF RpcCrash, ServedInv
<1>7. CASE UNCHANGED <<agentVars, served>> /\ (LedgerNext \/ UNCHANGED ledgerVars)
  <2>1. GamesKept /\ resolved \subseteq resolved'
    BY <1>3, <1>7, ResolvedKept
  <2>2. Followed' = Followed /\ pc' = pc
    BY <1>7 DEF agentVars, Followed
  <2> QED
    BY <1>4, <1>7, <2>1, <2>2 DEF ServedInv
<1> QED
  BY <1>2, <1>5, <1>6, <1>7 DEF RpcNext, rpcVars, syncVars, Environment, DeriveL2

LEMMA ServedImplies ==
  ASSUME LedgerInv, AgentInv, GuessInv, ServedInv
  PROVE  AnswersBecomeFinal
<1>1. SUFFICES ASSUME NEW number \in 0..MaxSafe, NEW g, g = GameAddressFor(number), g # None
               PROVE  /\ Block(g) >= number /\ games[g].good
                      /\ g # Root /\ Decided(games[g].parent) => g \in resolved
  BY DEF AnswersBecomeFinal
<1>2. PICK H : H = {h \in DOMAIN served : h >= number}
  OBVIOUS
<1>3. H # {} /\ H \subseteq Nat /\ g = served[Min(H)]
  BY <1>1, <1>2 DEF GameAddressFor, ServedInv
<1>4. PICK h \in H : h = Min(H)
  BY <1>3, MinExists
<1>5. /\ h >= number /\ g \in Indices /\ Block(g) = h /\ games[g].ours /\ games[g].good
      /\ g \in Followed \cup resolved
  BY <1>2, <1>3, <1>4 DEF ServedInv
<1>6. ASSUME g # Root, Decided(games[g].parent), g \in Followed PROVE g \in resolved
  <2>1. PICK w \in Children(Parent(g)) : w \in resolved
    BY <1>6 DEF Decided, Parent
  <2>2. Height(w) = Height(g)
    BY <1>6, <2>1, ChildFacts, FollowedFacts DEF GuessInv
  <2> QED
    BY <1>6, <2>1, <2>2 DEF GuessInv, FollowedIsRight
<1> QED
  BY <1>5, <1>6

\* A game that game_address_for_block_by_number names covers the block, is correct and never
\* loses its tournament, however long ago handle_sync cached it.
THEOREM AnswersStayRight == RpcSpec /\ []OpNodeAhead => []AnswersBecomeFinal
<1> DEFINE Inv == LedgerInv /\ AgentInv /\ GuessInv /\ ServedInv
<1>1. RpcInit => Inv
  <2> SUFFICES ASSUME RpcInit PROVE Inv
    OBVIOUS
  <2>1. SyncInit /\ DOMAIN served = {}
    BY DEF RpcInit
  <2>2. ServedInv
    BY <2>1 DEF ServedInv
  <2> QED
    BY <2>1, <2>2, InitiallySound, InitiallyRight
<1>2. Inv /\ OpNodeAhead /\ [RpcNext]_rpcVars => Inv'
  BY ServedStays
<1>3. Inv => AnswersBecomeFinal
  BY ServedImplies
<1> HIDE DEF Inv
<1> QED
  BY <1>1, <1>2, <1>3, PTL DEF RpcSpec

-----------------------------------------------------------------------------
(***************************************************************************)
(* The proposer's proposals, with an op-node that is ahead.                *)
(***************************************************************************)

\* The steps of the proposer are steps of the agent and of its environment, or the end of
\* its process.
LEMMA ProposerSyncs ==
  ASSUME OwnInv, [ProposerNext]_proposeVars
  PROVE  [SyncNext]_syncVars \/ TipMissing
<1>1. CASE World
  BY <1>1 DEF World, Rivals, LedgerNext, Environment, SyncNext
<1>2. ASSUME NEW x \in sent, Mined(x) PROVE [SyncNext]_syncVars
  <2>1. Harmless(x) /\ Executes(x) /\ UNCHANGED <<safe, agentVars>>
    BY <1>2 DEF OwnInv, Mined
  <2>2. PICK g : g = x.game
    OBVIOUS
  <2>3. g \in Indices
    BY <2>1, <2>2 DEF Harmless, Sound
  <2>4. LedgerNext \/ UNCHANGED ledgerVars
    BY <2>1, <2>2, <2>3, ProposerAssumption DEF Executes, LedgerNext
  <2> QED
    BY <2>1, <2>4 DEF Environment, SyncNext, syncVars
<1>3. CASE DeriveL2 /\ UNCHANGED proposerVars
  BY <1>3 DEF DeriveL2, Environment, SyncNext
<1>4. CASE Sync \/ Restart
  BY <1>4 DEF Sync, Restart, SyncNext
<1>5. CASE TryResolve \/ TryPropose \/ Broadcast \/ LoseReceipt \/ GiveUp \/ UNCHANGED proposeVars
  BY <1>5 DEF TryResolve, TryPropose, Broadcast, LoseReceipt, GiveUp, proposeVars
<1> QED
  BY <1>1, <1>2, <1>3, <1>4, <1>5 DEF ProposerNext, Act

LEMMA ProposerGuess ==
  ASSUME LedgerInv, AgentInv, GuessInv, OwnInv, OpNodeAhead, [ProposerNext]_proposeVars
  PROVE  LedgerInv' /\ AgentInv' /\ GuessInv' /\ OwnInv'
<1>1. LedgerInv' /\ AgentInv' /\ OwnInv'
  BY OwnStepSafe, WorldSafe, MinedSafe DEF ProposerNext
<1>2. CASE TipMissing
  <2>1. /\ UNCHANGED <<ledgerVars, safe, tip, lastResolved, next, proposals, eliminations,
                       delayed, queued, safe0>>
        /\ pc' = "off"
    BY <1>2 DEF TipMissing, cursorVars, localVars
  <2>2. delayed' = <<>> /\ queued' = <<>> /\ safe0' \in Int
    BY <2>1 DEF GuessInv, NothingDelayed
  <2>3. BlamesKept(eliminations')
    BY <2>1 DEF BlamesKept
  <2> QED
    BY <1>1, <2>1, <2>2, <2>3, SkipGuess
<1>3. CASE [SyncNext]_syncVars
  BY <1>1, <1>3, SyncGuess
<1> QED
  BY <1>1, <1>2, <1>3, ProposerSyncs

\* The games that exist stay the dupes that they are.
LEMMA DupesGrow ==
  ASSUME LedgerInv, LedgerInv', GamesKept, NEW t
  PROVE  /\ Dupes(t) \subseteq Dupes(t)' /\ Dupes(t)' \cap Indices \subseteq Dupes(t)
         /\ IsFiniteSet(Dupes(t)) /\ Cardinality(Dupes(t)) <= Cardinality(Dupes(t))'
         /\ Cardinality(Dupes(t)) \in Nat /\ Cardinality(Dupes(t))' \in Nat
         /\ Cardinality(Dupes(t))' = Cardinality(Dupes(t)) => Dupes(t)' = Dupes(t)
<1>1. Dupes(t) \subseteq Dupes(t)' /\ Dupes(t)' \cap Indices \subseteq Dupes(t)
  BY DEF Dupes, Children, GamesKept
<1>2. PICK n \in Nat : Indices' = 0..(n - 1)
  BY LedgerAssumption DEF LedgerInv
<1>3. IsFiniteSet(Indices')
  BY <1>2, FS_Interval
<1>4. IsFiniteSet(Dupes(t)')
  <2>1. Dupes(t)' \subseteq Indices'
    BY DEF Dupes, Children
  <2> QED
    BY <1>3, <2>1, FS_Subset
<1> HIDE DEF Dupes
<1>5. PICK A, B : A = Dupes(t) /\ B = Dupes(t)'
  OBVIOUS
<1>6. /\ IsFiniteSet(A) /\ Cardinality(A) <= Cardinality(B) /\ Cardinality(A) \in Nat
      /\ Cardinality(B) \in Nat /\ (Cardinality(B) = Cardinality(A) => B = A)
  BY <1>1, <1>4, <1>5, FS_Subset, FS_CardinalityType
<1> QED
  BY <1>1, <1>5, <1>6

LEMMA SpoiltKept ==
  ASSUME LedgerInv, GamesKept, NEW d \in Indices, Spoilt(d)
  PROVE  Spoilt(d)'
<1>1. PICK n \in Nat : Indices = 0..(n - 1)
  BY LedgerAssumption DEF LedgerInv
<1>2. \A b \in 1..(d - 1) : b \in Indices
  BY <1>1
<1> QED
  BY <1>2 DEF Spoilt, GamesKept

LEMMA FreshKept ==
  ASSUME LedgerInv, LedgerInv', GamesKept, NEW x, Fresh(x)
  PROVE  Fresh(x)'
<1>1. SUFFICES ASSUME x.call = "propose"
               PROVE  /\ x.game \in Indices' /\ x.dup \in 0..Cardinality(Dupes(x.game))'
                      /\ x.dup = Cardinality(Dupes(x.game))' =>
                           \A d \in Dupes(x.game)' : games'[d].good => Spoilt(d)'
  BY DEF Fresh
<1>2. PICK t : t = x.game
  OBVIOUS
<1>3. /\ t \in Indices /\ x.dup \in 0..Cardinality(Dupes(t))
      /\ x.dup = Cardinality(Dupes(t)) => \A d \in Dupes(t) : games[d].good => Spoilt(d)
  BY <1>1, <1>2 DEF Fresh
<1>4. t \in Indices' /\ x.dup \in 0..Cardinality(Dupes(t))'
  BY <1>3, DupesGrow DEF GamesKept
<1>5. ASSUME x.dup = Cardinality(Dupes(t))', NEW d \in Dupes(t)', games'[d].good PROVE Spoilt(d)'
  <2>1. x.dup = Cardinality(Dupes(t)) /\ d \in Dupes(t)
    BY <1>3, <1>5, DupesGrow
  <2>2. d \in Indices /\ games[d].good
    BY <1>5, <2>1 DEF Dupes, Children, GamesKept
  <2> QED
    BY <1>3, <2>1, <2>2, SpoiltKept
<1> QED
  BY <1>2, <1>4, <1>5

\* The proposals that exist stay needed, for a new one is the last of its tournament.
LEMMA NeededKept ==
  ASSUME LedgerInv, LedgerInv', GamesKept, NeededInv,
         \A i \in Indices' \ Indices :
           /\ games'[i].good => games'[i].claim
           /\ games'[i].proposer = Me => \A d \in Indices' \ {Root} :
                /\ games'[d].ours /\ games'[d].parent = games'[i].parent /\ d < i /\ games'[d].good
                => d \in Indices /\ Spoilt(d)
  PROVE  /\ \A i \in Indices' : games'[i].good => games'[i].claim
         /\ OwnProposalIsNeeded'
<1>1. PICK n \in Nat : Indices = 0..(n - 1)
  BY LedgerAssumption DEF LedgerInv
<1>2. PICK m \in Nat : Indices' = 0..(m - 1) /\ n <= m
  <2>1. PICK k \in 1..MaxGames : Indices' = 0..(k - 1)
    BY DEF LedgerInv
  <2>2. k \in Nat /\ k >= 1
    BY <2>1, LedgerAssumption
  <2>3. n <= k
    <3>1. CASE n = 0
      BY <2>2, <3>1
    <3>2. CASE n # 0
      <4>1. n - 1 \in 0..(k - 1)
        BY <1>1, <2>1, <3>2 DEF GamesKept
      <4> QED
        BY <2>2, <4>1
    <3> QED
      BY <3>1, <3>2
  <2> QED
    BY <2>1, <2>2, <2>3
<1>3. \A i \in Indices' : games'[i].good => games'[i].claim
  BY DEF NeededInv, GamesKept
<1>4. ASSUME NEW i \in Mine', NEW d \in Indices' \ {Root}, games'[d].ours,
             games'[d].parent = games'[i].parent, d < i, games'[d].good
      PROVE  Spoilt(d)'
  <2>1. i \in Indices' /\ games'[i].proposer = Me
    BY <1>4 DEF Mine
  <2>2. CASE i \in Indices
    <3>1. i \in Mine /\ games'[i] = games[i] /\ d \in Indices /\ games'[d] = games[d]
      BY <1>1, <1>2, <1>4, <2>1, <2>2 DEF Mine, GamesKept
    <3>2. d \in Children(games[i].parent) /\ games[d].good
      BY <1>4, <3>1 DEF Children
    <3>3. Spoilt(d)
      BY <1>4, <3>1, <3>2 DEF NeededInv, OwnProposalIsNeeded, Spoilt
    <3> QED
      BY <3>1, <3>3, SpoiltKept
  <2>3. CASE i \notin Indices
    <3>1. d \in Indices /\ Spoilt(d)
      BY <1>4, <2>1, <2>3
    <3> QED
      BY <3>1, SpoiltKept
  <2> QED
    BY <2>2, <2>3
<1> QED
  BY <1>3, <1>4 DEF OwnProposalIsNeeded, Spoilt, Children

\* The proposer's account and transactions as it, the others and time move on.
LEMMA NeededMoves ==
  ASSUME LedgerInv, LedgerInv', GamesKept, NeededInv,
         \A i \in Indices' \ Indices :
           /\ games'[i].good => games'[i].claim
           /\ games'[i].proposer = Me => \A d \in Indices' \ {Root} :
                /\ games'[d].ours /\ games'[d].parent = games'[i].parent /\ d < i /\ games'[d].good
                => d \in Indices /\ Spoilt(d),
         \A x \in sent' : Fresh(x),
         turn' \in Sending \cup Waiting => Fresh(awaited')
  PROVE  NeededInv'
<1>1. PICK a : a = awaited'
  OBVIOUS
<1>2. turn' \in Sending \cup Waiting => Fresh(a)'
  BY <1>1, FreshKept
<1>3. (turn \in Sending \cup Waiting => Fresh(awaited))'
  BY <1>1, <1>2 DEF Fresh, Sending, Waiting
<1>4. \A x \in sent' : Fresh(x)'
  BY FreshKept
<1>5. (\A i \in Indices' : games'[i].good => games'[i].claim) /\ OwnProposalIsNeeded'
  BY NeededKept
<1> QED
  BY <1>3, <1>4, <1>5 DEF NeededInv

\* When the agent has seen all dupes on its tip the correct ones are spoilt.
LEMMA ProposeIsFresh ==
  ASSUME LedgerInv, AgentInv, GuessInv, tip \in DOMAIN proposals, IsOpen(tip),
         NEW x, x = ProposeTx(tip, Cardinality(Dupes(tip)))
  PROVE  Fresh(x)
<1>1. tip \in Followed /\ tip \in Indices /\ tip \in Nat
  <2>1. tip \in Followed
    BY DEF GuessInv, NothingDelayed
  <2> QED
    BY <2>1, FollowedFacts
<1>2. SuccessorOf(tip) = None
  <2>1. SUFFICES ASSUME SuccessorOf(tip) # None PROVE FALSE
    OBVIOUS
  <2>2. PICK s : s = SuccessorOf(tip) /\ s \in Followed \ {Root} /\ Parent(s) = tip
    BY <1>1, <2>1 DEF GuessInv, FollowedIsChain
  <2>3. s \in Nat /\ tip < s /\ s <= tip
    BY <2>2, FollowedFacts DEF GuessInv, FollowedIsChain
  <2> QED
    BY <1>1, <2>3
<1>3. ASSUME NEW d \in Dupes(tip), games[d].good PROVE Spoilt(d)
  <2>1. d \in Children(tip) /\ d < next /\ d \in Indices /\ d \in Nat
    BY LedgerCount DEF Dupes, IsOpen, Children
  <2>2. EliminatedBefore(eliminations, d)
    <3>1. d # None
      BY <2>1 DEF None
    <3> QED
      BY <1>1, <1>2, <1>3, <2>1, <3>1 DEF GuessInv, ChildrenSeen
  <2>3. games[d].proposer \in Proposers
    BY <2>1, ChildFacts DEF GuessInv
  <2>4. PICK e : e = eliminations[games[d].proposer] /\ e # 0 /\ e < d
    BY <2>2 DEF EliminatedBefore
  <2>5. e \in Nat /\ games[e].proposer = games[d].proposer /\ ~games[e].good
    BY <2>3, <2>4 DEF AgentInv, Faults
  <2> QED
    BY <2>1, <2>4, <2>5 DEF Spoilt
<1>4. Cardinality(Dupes(tip)) \in Nat
  <2>1. PICK n \in Nat : Indices = 0..(n - 1)
    BY LedgerAssumption DEF LedgerInv
  <2>2. IsFiniteSet(Indices) /\ Dupes(tip) \subseteq Indices
    BY <2>1, FS_Interval DEF Dupes, Children
  <2> QED
    BY <2>2, FS_Subset, FS_CardinalityType
<1>5. x.call = "propose" /\ x.game = tip /\ x.dup = Cardinality(Dupes(tip))
  BY DEF ProposeTx
<1>6. x.dup \in 0..Cardinality(Dupes(tip))
  BY <1>4, <1>5
<1> QED
  BY <1>1, <1>3, <1>5, <1>6 DEF Fresh

LEMMA NeededStays ==
  ASSUME LedgerInv, AgentInv, GuessInv, OwnInv, NeededInv, LedgerInv', [ProposerNext]_proposeVars
  PROVE  NeededInv'
<1>1. ASSUME UNCHANGED ledgerVars PROVE GamesKept /\ Indices' \ Indices = {}
  BY <1>1 DEF GamesKept, ledgerVars, Indices
<1>2. ASSUME NEW p \in Proposers, NEW t \in Indices, NEW ok \in BOOLEAN, Submit(p, t, ok)
      PROVE  /\ GamesKept
             /\ \A i \in Indices' \ Indices :
                  /\ games'[i].good => games'[i].claim
                  /\ games'[i].proposer = p /\ games'[i].parent = t
                  /\ \A d \in Indices' : d < i => d \in Indices
  <2>1. PICK n : n = GameCount
    OBVIOUS
  <2>2. /\ GamesKept /\ Indices' = Indices \cup {n}
        /\ games'[n].parent = t /\ games'[n].proposer = p
    BY <1>2, <2>1, SubmitLedger
  <2>3. PICK claim \in IF ok THEN {TRUE} ELSE FaultyClaims :
          AddGame(GameOf(t, p, ok, claim, games[t].height + 1))
    BY <1>2 DEF Submit
  <2>4. games'[n] = GameOf(t, p, ok, claim, games[t].height + 1)
    BY <2>1, <2>3, AddGameKeeps
  <2>5. games'[n].good => games'[n].claim
    BY <2>3, <2>4 DEF GameOf
  <2>6. n \in Nat
    BY <2>1, LedgerCount, LedgerAssumption
  <2>7. \A d \in Indices' : d < n => d \in Indices
    BY <2>2, <2>6
  <2> QED
    BY <2>2, <2>5, <2>7
<1>3. CASE World
  <2>1. \A x \in sent' : Fresh(x)
    BY <1>3 DEF World, proposerVars, NeededInv
  <2>2. turn' \in Sending \cup Waiting => Fresh(awaited')
    BY <1>3 DEF World, proposerVars, NeededInv
  <2>3. /\ GamesKept
        /\ \A i \in Indices' \ Indices :
             (games'[i].good => games'[i].claim) /\ games'[i].proposer # Me
    <3>1. CASE \E p \in Rivals, t \in Indices, ok \in BOOLEAN : Submit(p, t, ok)
      BY <1>2, <3>1 DEF Rivals
    <3>2. CASE UNCHANGED games
      BY <3>2 DEF GamesKept, Indices
    <3> QED
      BY <1>3, <3>1, <3>2 DEF World, PruneSome, ResolveRoot, ResolveGame, LedgerTick
  <2> QED
    BY <2>1, <2>2, <2>3, NeededMoves
<1>4. ASSUME NEW x \in sent, Mined(x) PROVE NeededInv'
  <2>1. Harmless(x) /\ Fresh(x) /\ Executes(x) /\ sent' = {}
    BY <1>4 DEF OwnInv, NeededInv, Mined
  <2>2. turn' \in Sending \cup Waiting => Fresh(awaited')
    <3>1. turn' \in Sending \cup Waiting => turn' = turn /\ awaited' = awaited
      BY <1>4 DEF Mined, AfterTx, Sending, Waiting
    <3> QED
      BY <3>1 DEF NeededInv
  <2>3. PICK t : t = x.game
    OBVIOUS
  <2>4. t \in Indices
    BY <2>1, <2>3 DEF Harmless, Sound
  <2>5. CASE UNCHANGED games
    <3>1. GamesKept /\ Indices' \ Indices = {}
      BY <2>5 DEF GamesKept, Indices
    <3> QED
      BY <2>1, <2>2, <3>1, NeededMoves
  <2>6. CASE Succeeds(x) /\ x.call # "resolve" /\ Submit(Me, t, TRUE)
    <3>1. x.call = "propose" /\ Cardinality(Dupes(t)) = x.dup
      BY <2>1, <2>3, <2>6 DEF Harmless, Succeeds
    <3>2. \A d \in Dupes(t) : games[d].good => Spoilt(d)
      BY <2>1, <2>3, <3>1 DEF Fresh
    <3>3. /\ GamesKept
          /\ \A i \in Indices' \ Indices :
               /\ games'[i].good => games'[i].claim
               /\ games'[i].parent = t
               /\ \A d \in Indices' : d < i => d \in Indices
      BY <1>2, <2>4, <2>6, ProposerAssumption
    <3>4. ASSUME NEW i \in Indices' \ Indices, NEW d \in Indices' \ {Root}, games'[d].ours,
                 games'[d].parent = games'[i].parent, d < i, games'[d].good
          PROVE  d \in Indices /\ Spoilt(d)
      <4>1. games'[d].parent = t
        BY <3>3, <3>4
      <4>2. d \in Indices /\ games'[d] = games[d]
        BY <3>3, <3>4, <4>1 DEF GamesKept
      <4>3. d \in Dupes(t) /\ games[d].good
        BY <3>4, <4>1, <4>2 DEF Dupes, Children, NeededInv
      <4> QED
        BY <3>2, <4>2, <4>3
    <3> QED
      BY <2>1, <2>2, <3>3, <3>4, NeededMoves
  <2> QED
    BY <2>1, <2>3, <2>5, <2>6 DEF Executes, ledgerVars, ResolveGame
<1>5. CASE Act \/ GiveUp \/ Restart \/ UNCHANGED proposeVars \/ (DeriveL2 /\ UNCHANGED proposerVars)
  <2>1. UNCHANGED ledgerVars
    <3>1. AgentStep => UNCHANGED ledgerVars
      BY DEF AgentStep, Start, SyncOutputs, CountGames, LoadNext, LoadFails, LoadDone,
             FollowResolution, SyncReturns
    <3> QED
      BY <1>5, <3>1 DEF Act, GiveUp, Restart, Sync, TryResolve, TryPropose, TipMissing, Broadcast,
                  LoseReceipt, Crash, DeriveL2, syncVars, proposeVars
  <2>2. \A x \in sent' : Fresh(x)
    <3>1. CASE sent' = sent
      BY <3>1 DEF NeededInv
    <3>2. CASE turn \in Sending /\ sent' = sent \cup {awaited}
      BY <3>2 DEF NeededInv
    <3> QED
      BY <1>5, <3>1, <3>2 DEF Act, GiveUp, Restart, Sync, TryResolve, TryPropose, TipMissing,
                        Broadcast, LoseReceipt, AfterTx, proposeVars, proposerVars
  <2>3. ASSUME turn' \in Sending \cup Waiting PROVE Fresh(awaited')
    <3>1. CASE TryResolve
      <4>1. \E g \in Indices : awaited' = ResolveTx(g)
        BY <2>3, <3>1 DEF TryResolve, Sending, Waiting
      <4>2. awaited'.call = "resolve"
        BY <4>1 DEF ResolveTx
      <4> QED
        BY <4>2 DEF Fresh
    <3>2. CASE TryPropose
      <4>1. /\ awaited' = ProposeTx(tip, Cardinality(Dupes(tip)))
            /\ tip \in DOMAIN proposals /\ IsOpen(tip)
        BY <2>3, <3>2 DEF TryPropose, Sending, Waiting, Candidate
      <4> QED
        BY <4>1, ProposeIsFresh
    <3>3. CASE turn \in Sending \cup Waiting /\ awaited' = awaited
      BY <3>3 DEF NeededInv
    <3> QED
      BY <1>5, <2>3, <3>1, <3>2, <3>3 DEF Act, GiveUp, Restart, Sync, TipMissing, Broadcast,
           LoseReceipt, AfterTx, proposeVars, proposerVars, Sending, Waiting
  <2> QED
    BY <1>1, <2>1, <2>2, <2>3, NeededMoves
<1> QED
  BY <1>3, <1>4, <1>5 DEF ProposerNext

LEMMA ProposerIsRight ==
  ProposerSpec /\ []OpNodeAhead => [](LedgerInv /\ AgentInv /\ GuessInv /\ OwnInv /\ NeededInv)
<1> DEFINE Inv == LedgerInv /\ AgentInv /\ GuessInv /\ OwnInv /\ NeededInv
<1>1. ProposerInit => GuessInv /\ NeededInv
  <2> SUFFICES ASSUME ProposerInit PROVE GuessInv /\ NeededInv
    OBVIOUS
  <2>1. GuessInv
    BY InitiallyRight DEF ProposerInit
  <2>2. Indices = {Root} /\ games[Root].good /\ games[Root].claim
    BY DEF ProposerInit, SyncInit, LedgerInit, GameOf, Indices
  <2>3. turn = "sync" /\ sent = {}
    BY DEF ProposerInit
  <2>4. OwnProposalIsNeeded
    BY <2>2 DEF OwnProposalIsNeeded, Mine, Children
  <2> QED
    BY <2>1, <2>2, <2>3, <2>4 DEF NeededInv, Sending, Waiting
<1>2. Inv /\ OpNodeAhead /\ [ProposerNext]_proposeVars => Inv'
  BY ProposerGuess, NeededStays
<1>3. ProposerInit /\ LedgerInv /\ AgentInv /\ OwnInv => Inv
  BY <1>1
<1> HIDE DEF Inv
<1>4. ProposerSpec /\ []OpNodeAhead => []Inv
  BY <1>2, <1>3, ProposerInvariant, PTL DEF ProposerSpec
<1> QED
  BY <1>4, PTL DEF Inv

\* The proposer never pays for a proposal that somebody in good standing already made, however
\* many of its transactions are mined late or not at all: the duplication counter it sends is
\* void once another proposal of the claim is on chain.
THEOREM ProposalsAreNeeded == ProposerSpec /\ []OpNodeAhead => []OwnProposalIsNeeded
<1>1. NeededInv => OwnProposalIsNeeded
  BY DEF NeededInv
<1> QED
  BY <1>1, ProposerIsRight, PTL

\* The guesses of the agent stay right inside of the proposer's loop.
THEOREM ProposerGuessesRight ==
  ProposerSpec /\ []OpNodeAhead =>
    [](SuccessorIsSurvivor /\ EliminationsAgreeWithTreasury /\ TipExtendsResolved)
<1>1. LedgerInv /\ AgentInv /\ GuessInv
        => SuccessorIsSurvivor /\ EliminationsAgreeWithTreasury /\ TipExtendsResolved
  BY GuessImplies
<1> QED
  BY <1>1, ProposerIsRight, PTL

-----------------------------------------------------------------------------
(***************************************************************************)
(* The validator's bag of requests and proofs.                             *)
(***************************************************************************)
LEMMA BagAdd ==
  ASSUME NEW B, IsABag(B), NEW S
  PROVE  IsABag(B (+) SetToBag(S)) /\ BagToSet(B (+) SetToBag(S)) = BagToSet(B) \cup S
BY DEF IsABag, BagToSet, SetToBag, (+)

LEMMA BagRemove ==
  ASSUME NEW B, IsABag(B), NEW x
  PROVE  /\ IsABag(B (-) SetToBag({x}))
         /\ BagToSet(B (-) SetToBag({x})) \subseteq BagToSet(B)
         /\ BagToSet(B) \subseteq BagToSet(B (-) SetToBag({x})) \cup {x}
BY DEF IsABag, BagToSet, SetToBag, (-)

LEMMA DropFacts ==
  ASSUME IsABag(work), NEW x, Drop(x)
  PROVE  /\ IsABag(work') /\ BagToSet(work') \subseteq BagToSet(work)
         /\ BagToSet(work) \subseteq BagToSet(work') \cup {x}
BY BagRemove DEF Drop

LEMMA MoveFacts ==
  ASSUME IsABag(work), NEW x, NEW y, Move(x, y)
  PROVE  /\ IsABag(work') /\ BagToSet(work') \subseteq BagToSet(work) \cup {y}
         /\ BagToSet(work) \subseteq BagToSet(work') \cup {x} /\ y \in BagToSet(work')
<1>1. PICK B : B = work (-) SetToBag({x})
  OBVIOUS
<1>2. /\ IsABag(B) /\ BagToSet(B) \subseteq BagToSet(work)
      /\ BagToSet(work) \subseteq BagToSet(B) \cup {x}
  BY <1>1, BagRemove
<1>3. IsABag(work') /\ BagToSet(work') = BagToSet(B) \cup {y}
  BY <1>1, <1>2, BagAdd DEF Move
<1> QED
  BY <1>2, <1>3

-----------------------------------------------------------------------------
\* The steps of the validator are steps of the agent and of its environment.
LEMMA ValidatorSyncs ==
  ASSUME [ValidatorNext]_validateVars
  PROVE  [SyncNext]_syncVars
<1>1. CASE ValidatorSync \/ ValidatorRestart
  BY <1>1 DEF ValidatorSync, ValidatorRestart, SyncNext
<1>2. CASE ValidatorWorld
  <2>1. LedgerNext /\ UNCHANGED <<safe, agentVars>>
    BY <1>2 DEF ValidatorWorld, Propose, Prune, Resolve, LedgerNext
  <2> QED
    BY <2>1 DEF Environment, SyncNext
<1>3. CASE Process \/ UNCHANGED validateVars \/ \E i \in Indices : RivalProof(i)
  BY <1>3 DEF Process, RivalProof, validateVars
<1>4. CASE \E x \in BagToSet(work) : Handle(x) \/ Prove(x) \/ SpawnFails(x)
  BY <1>4 DEF Handle, Prove, SpawnFails
<1> QED
  BY <1>1, <1>2, <1>3, <1>4 DEF ValidatorNext, ValidatorAct

-----------------------------------------------------------------------------
(***************************************************************************)
(* What the agent has cached, as the ledger moves on.                      *)
(***************************************************************************)
LEMMA OrderKept ==
  ASSUME LedgerInv, InOrder, LedgerNext \/ UNCHANGED ledgerVars
  PROVE  InOrder'
<1>1. ASSUME NEW g, AddGame(g), g.at = now, now' = now
      PROVE  InOrder'
  <2>1. PICK n \in Nat : n = GameCount /\ Indices = 0..(n - 1)
    BY LedgerCount
  <2>2. /\ \A i \in Indices : games'[i] = games[i]
        /\ Indices' = Indices \cup {n} /\ games'[n] = g
    BY <1>1, <2>1, AddGameKeeps DEF GamesKept
  <2>3. \A i \in Indices' : (i \in Indices /\ i < n) \/ i = n
    BY <2>1, <2>2
  <2>4. \A i \in Indices' : games'[i].at \in 0..now /\ (i = n => games'[i].at = now)
    BY <1>1, <2>1, <2>2 DEF InOrder
  <2>5. ASSUME NEW i \in Indices', NEW j \in Indices', i <= j
        PROVE  games'[i].at <= games'[j].at
    <3>1. CASE j = n
      BY <2>4, <3>1 DEF InOrder
    <3>2. CASE j # n
      <4>1. i \in Indices /\ j \in Indices
        BY <2>1, <2>3, <2>5, <3>2
      <4> QED
        BY <2>2, <2>5, <4>1 DEF InOrder
    <3> QED
      BY <3>1, <3>2
  <2> QED
    BY <1>1, <2>4, <2>5 DEF InOrder
<1>2. CASE UNCHANGED games /\ (now' = now \/ now' = now + 1)
  <2>1. Indices' = Indices
    BY <1>2 DEF Indices
  <2> QED
    BY <1>2, <2>1 DEF InOrder
<1>3. ASSUME NEW p \in Proposers, NEW s \in Indices, NEW ok \in BOOLEAN, Submit(p, s, ok)
      PROVE  InOrder'
  BY <1>1, <1>3 DEF Submit, GameOf
<1>4. CASE SubmitForeign
  BY <1>1, <1>4 DEF SubmitForeign, GameOf
<1>5. CASE ResolveRoot \/ (\E s \in Indices : PruneSome(s)) \/ (\E w \in Indices : ResolveGame(w))
  BY <1>2, <1>5 DEF ResolveRoot, PruneSome, ResolveGame
<1>6. CASE LedgerTick \/ UNCHANGED ledgerVars
  BY <1>2, <1>6 DEF LedgerTick, ledgerVars
<1> QED
  BY <1>3, <1>4, <1>5, <1>6 DEF LedgerNext

\* A game that exists keeps the children that the agent has seen.
LEMMA SeenKept ==
  ASSUME LedgerInv, AgentInv, GuessInv, LedgerInv', GamesKept, NEW j \in Indices
  PROVE  /\ Children(j) \subseteq Children(j)'
         /\ {c \in Children(j)' : c < next} \subseteq Children(j)
         /\ Parent(j)' = Parent(j) /\ Height(j)' = Height(j) /\ Block(j)' = Block(j)
<1>1. next <= GameCount
  BY DEF GuessInv, NothingDelayed
<1>2. Indices = 0..(GameCount - 1) /\ GameCount \in Nat
  BY LedgerCount
<1>3. \A c \in Indices' : c < next /\ c \in Nat => c \in Indices
  <2>1. PICK n \in Nat : n = GameCount
    BY <1>2
  <2>2. next \in Nat
    BY DEF AgentInv, Queues
  <2> QED
    BY <1>1, <1>2, <2>1, <2>2
<1>4. Indices' \subseteq Nat
  BY DEF LedgerInv
<1> QED
  BY <1>3, <1>4 DEF GamesKept, Children, Parent, Height, Block

LEMMA CacheWaits ==
  ASSUME LedgerInv, AgentInv, GuessInv, LedgerInv', CacheInv,
         LedgerNext \/ UNCHANGED ledgerVars, UNCHANGED agentVars
  PROVE  CacheInv'
<1>1. GamesKept /\ resolved \subseteq resolved'
  BY ResolvedKept DEF GuessInv
<1>2. UNCHANGED <<pc, next, lastOutput, outputs, proposals, eliminations, heads>>
  BY DEF agentVars, cursorVars
<1>3. DOMAIN proposals \subseteq Indices
  BY DEF AgentInv, CacheIsSound
<1>4. InOrder'
  BY OrderKept DEF CacheInv
<1>5. Followed' = Followed
  BY <1>2 DEF Followed
<1>6. ASSUME NEW j \in DOMAIN proposals
      PROVE  Cached(j)'
  <2>1. j \in Indices /\ games'[j] = games[j]
    BY <1>1, <1>3 DEF GamesKept
  <2>2. /\ Children(j) \subseteq Children(j)' /\ {c \in Children(j)' : c < next} \subseteq Children(j)
        /\ Parent(j)' = Parent(j)
    BY <1>1, <2>1, SeenKept
  <2>3. Decided(j) => Decided(j)'
    BY <1>1, DecidedKept
  <2>4. Cached(j)
    BY DEF CacheInv
  <2> QED
    BY <1>1, <1>2, <1>5, <2>1, <2>2, <2>3, <2>4 DEF Cached
<1>7. ASSUME NEW lo, OutputsFrom(lo)
      PROVE  OutputsFrom(lo)'
  <2>1. \A j \in Indices : Block(j)' = Block(j)
    BY <1>1 DEF GamesKept, Block
  <2>2. pc # "off" /\ DOMAIN proposals = {} => next \in Indices
    BY DEF GuessInv, NothingDelayed, ChainResolved
  <2>3. \A c \in Followed : c \in Indices
    BY <1>3 DEF Followed
  <2> QED
    BY <1>2, <1>3, <1>5, <1>7, <2>1, <2>2, <2>3 DEF OutputsFrom
<1> QED
  BY <1>2, <1>4, <1>6, <1>7 DEF CacheInv

-----------------------------------------------------------------------------
(***************************************************************************)
(* What the agent has cached, as the agent moves on.                       *)
(***************************************************************************)

\* While the ledger stands still, a game's record stays right.
LEMMA CachedKept ==
  ASSUME LedgerInv, AgentInv, GuessInv, CacheInv, UNCHANGED ledgerVars,
         NEW j \in DOMAIN proposals \cap DOMAIN proposals',
         games[j].at \in heads',
         proposals'[j].correct = proposals[j].correct,
         proposals'[j].resolved => proposals[j].resolved \/ j \in resolved,
         Parent(j) \in DOMAIN proposals' => Parent(j) \in DOMAIN proposals,
         Parent(j) \in Followed /\ Parent(j) \in DOMAIN proposals' => Parent(j) \in Followed',
         \A p \in Proposers : eliminations[p] # 0 => eliminations'[p] = eliminations[p],
         proposals[j].children \subseteq proposals'[j].children,
         proposals'[j].children \subseteq Children(j),
         \A c \in Children(j) : c < next' /\ ~(c < next) /\ ~Decided(j) => c \in proposals'[j].children
  PROVE  Cached(j)'
<1>1. /\ games' = games /\ resolved' = resolved /\ Parent(j)' = Parent(j)
      /\ Children(j)' = Children(j) /\ Decided(j)' = Decided(j)
  BY SameLedger DEF ledgerVars
<1>2. Cached(j)
  BY DEF CacheInv
<1>3. ~games[j].good => eliminations'[games[j].proposer] >= j
  <2> SUFFICES ASSUME ~games[j].good
               PROVE  eliminations'[games[j].proposer] >= j
    OBVIOUS
  <2>1. j \in Indices /\ j # Root /\ games[j].ours
    BY DEF AgentInv, CacheIsSound, LedgerInv, GuessInv, NothingDelayed
  <2>2. games[j].proposer \in Proposers /\ j \in Nat
    BY <2>1, LedgerTypes DEF GuessInv, Climbing
  <2>3. eliminations[games[j].proposer] >= j
    BY <1>2 DEF Cached
  <2>4. eliminations[games[j].proposer] # 0
    BY <2>1, <2>2, <2>3 DEF Root
  <2> QED
    BY <2>2, <2>3, <2>4
<1> QED
  BY <1>1, <1>2, <1>3 DEF Cached

\* The outputs stay cached while nothing is stored.
LEMMA OutputsStay ==
  ASSUME CacheInv, UNCHANGED <<games, outputs, lastOutput>>,
         DOMAIN proposals' = DOMAIN proposals, Followed' \subseteq Followed,
         pc' # "off" /\ DOMAIN proposals = {} => pc # "off" /\ next' = next
  PROVE  lastOutput' \in Nat /\ \E lo \in 0..lastOutput' : OutputsFrom(lo)'
<1>1. PICK lo \in 0..lastOutput : OutputsFrom(lo)
  BY DEF CacheInv
<1>2. \A j : Block(j)' = Block(j)
  BY DEF Block
<1>3. OutputsFrom(lo)'
  BY <1>1, <1>2 DEF OutputsFrom
<1> QED
  BY <1>1, <1>3 DEF CacheInv

LEMMA BookkeepingCache ==
  ASSUME LedgerInv, AgentInv, GuessInv, CacheInv,
         CountGames \/ LoadFails \/ LoadDone \/ SyncReturns \/ Crash
  PROVE  CacheInv'
<1>1. /\ UNCHANGED <<ledgerVars, next, lastOutput, outputs, proposals, eliminations, heads>>
      /\ pc' # "off" => pc # "off"
  BY DEF CountGames, LoadFails, LoadDone, SyncReturns, Crash, EndLoad, cursorVars
<1>2. Followed' = Followed /\ games' = games
  BY <1>1 DEF Followed, ledgerVars
<1>3. ASSUME NEW j \in DOMAIN proposals
      PROVE  Cached(j)'
  <2>1. Cached(j)
    BY DEF CacheInv
  <2> QED
    BY <1>1, <1>2, <2>1, CachedKept DEF Cached
<1>4. InOrder'
  BY <1>1, OrderKept DEF CacheInv
<1>5. lastOutput' \in Nat /\ \E lo \in 0..lastOutput' : OutputsFrom(lo)'
  BY <1>1, <1>2, OutputsStay
<1> QED
  BY <1>1, <1>3, <1>4, <1>5 DEF CacheInv

\* sync() fetches the outputs that follow the last one.
LEMMA FetchCache ==
  ASSUME LedgerInv, AgentInv, GuessInv, CacheInv, SyncOutputs
  PROVE  CacheInv'
<1>1. /\ UNCHANGED <<ledgerVars, next, proposals, eliminations, heads>>
      /\ pc = "idle" /\ pc' = "count"
  BY DEF SyncOutputs
<1>2. Followed' = Followed /\ games' = games
  BY <1>1 DEF Followed, ledgerVars
<1>3. ASSUME NEW j \in DOMAIN proposals
      PROVE  Cached(j)'
  <2>1. Cached(j)
    BY DEF CacheInv
  <2> QED
    BY <1>1, <1>2, <2>1, CachedKept DEF Cached
<1>4. InOrder'
  BY <1>1, OrderKept DEF CacheInv
<1>5. lastOutput' \in Nat /\ \E lo \in 0..lastOutput' : OutputsFrom(lo)'
  <2>1. PICK lo \in 0..lastOutput : OutputsFrom(lo)
    BY DEF CacheInv
  <2>2. CASE UNCHANGED <<outputs, lastOutput>>
    BY <1>1, <1>2, <2>2, OutputsStay
  <2>3. CASE ~UNCHANGED <<outputs, lastOutput>>
    <3>1. PICK T : T = TargetOutput
      OBVIOUS
    <3>2. safe \in Int /\ lastOutput \in Nat /\ Span \in Nat
      BY SyncAssumption DEF GuessInv, NothingDelayed, CacheInv
    <3>3. T \in {safe, lastOutput + Span}
      <4>1. \E x \in {safe, lastOutput + Span} : \A y \in {safe, lastOutput + Span} : x <= y
        BY <3>2
      <4> QED
        BY <3>1, <4>1 DEF TargetOutput, Min
    <3>4. /\ lastOutput + 1 < T /\ lastOutput' = T /\ outputs' = outputs \cup lastOutput..T
      BY <2>3, <3>1 DEF SyncOutputs
    <3>5. T \in Nat /\ lo \in 0..T
      BY <2>1, <3>2, <3>3, <3>4
    <3>6. outputs' = lo..T /\ outputs' # {}
      <4>1. CASE outputs = {}
        <5>1. lo = lastOutput
          BY <2>1, <4>1 DEF OutputsFrom
        <5>2. lo \in lo..T
          BY <3>5
        <5> QED
          BY <3>4, <4>1, <5>1, <5>2
      <4>2. CASE outputs # {}
        <5>1. outputs = lo..lastOutput
          BY <2>1, <4>2 DEF OutputsFrom
        <5>2. lo..T = lo..lastOutput \cup lastOutput..T
          BY <2>1, <3>2, <3>4, <3>5
        <5> QED
          BY <3>4, <4>2, <5>1, <5>2
      <4> QED
        BY <4>1, <4>2
    <3>7. \A j \in Indices : Block(j)' = Block(j) /\ Block(j) \in Nat
      BY <1>2, BlockOrder DEF Block
    <3>8. DOMAIN proposals \subseteq Indices /\ Followed \subseteq Indices
      BY DEF AgentInv, CacheIsSound, Followed
    <3>9. \A j \in DOMAIN proposals \ {Root} : Block(j)' <= lastOutput'
      BY <2>1, <3>2, <3>4, <3>5, <3>7, <3>8 DEF OutputsFrom
    <3>10. DOMAIN proposals = {} => lo <= Block(next)'
      <4>1. \A j : Block(j)' = Block(j)
        BY <1>2 DEF Block
      <4> QED
        BY <1>1, <2>1, <4>1 DEF OutputsFrom, Block
    <3>11. OutputsFrom(lo)'
      BY <1>1, <1>2, <2>1, <3>4, <3>6, <3>7, <3>8, <3>9, <3>10 DEF OutputsFrom
    <3> QED
      BY <3>4, <3>5, <3>11
  <2> QED
    BY <2>2, <2>3
<1> QED
  BY <1>1, <1>3, <1>4, <1>5 DEF CacheInv

LEMMA StartCache ==
  ASSUME LedgerInv, AgentInv, GuessInv, CacheInv, Start
  PROVE  CacheInv'
<1>1. /\ UNCHANGED ledgerVars /\ next' = Anchor /\ resolved # {}
      /\ lastOutput' = IF Anchor = Root THEN Block(Anchor) ELSE Block(Anchor) - Span
      /\ outputs' = {} /\ heads' = {} /\ DOMAIN proposals' = {}
  BY DEF Start
<1>2. InOrder'
  BY <1>1, OrderKept DEF CacheInv
<1>3. PICK a : a = Anchor
  OBVIOUS
<1>4. a \in resolved
  BY <1>1, <1>3 DEF LedgerInv, Anchor
<1>5. a \in Indices /\ Height(a) \in Nat /\ (a # Root => Height(a) >= 1)
  <2>1. a \in Indices /\ Height(a) \in Nat
    BY <1>4, LedgerTypes DEF GuessInv
  <2>2. a # Root => games[a].ours
    BY <1>4 DEF GuessInv, ChainResolved
  <2>3. a # Root => Height(a) = Height(Parent(a)) + 1 /\ Height(Parent(a)) \in Nat
    BY <2>1, <2>2, LedgerTypes DEF GuessInv, Climbing
  <2> QED
    BY <2>1, <2>3
<1>6. Block(a) \in Nat /\ (a # Root => Block(a) - Span \in Nat) /\ Span \in Nat
  <2>1. PICK h \in Nat : h = Height(a)
    BY <1>5
  <2>2. Block(a) = Span * h /\ Span \in Nat
    BY <2>1, SyncAssumption DEF Block, Height
  <2>3. CASE h = 0
    BY <1>5, <2>1, <2>2, <2>3
  <2>4. CASE h # 0
    <3>1. PICK k \in Nat : h = k + 1
      <4>1. h - 1 \in Nat /\ h = (h - 1) + 1
        BY <2>4
      <4> QED
        BY <4>1
    <3>2. Span * h = Span * k + Span /\ Span * k \in Nat
      BY <2>2, <3>1
    <3> QED
      BY <2>2, <3>2
  <2> QED
    BY <2>3, <2>4
<1>7. PICK lo : lo = lastOutput' /\ lo \in Nat /\ lo <= Block(a) /\ lo \in 0..lo
  BY <1>1, <1>3, <1>6
<1>8. OutputsFrom(lo)'
  <2>1. Followed' = {} /\ Block(next)' = Block(a)
    BY <1>1, <1>3 DEF Followed, Block, ledgerVars
  <2> QED
    BY <1>1, <1>7, <2>1 DEF OutputsFrom
<1> QED
  BY <1>1, <1>2, <1>7, <1>8 DEF CacheInv

\* What WithChild changes of the cache.
LEMMA WithChildChanges ==
  ASSUME NEW i, CacheIsSound, NEW j \in DOMAIN proposals
  PROVE  /\ WithChild(i)[j].correct = proposals[j].correct
         /\ WithChild(i)[j].resolved = proposals[j].resolved
         /\ WithChild(i)[j].children =
              IF i # Root /\ i \notin resolved /\ j = Parent(i)
              THEN proposals[j].children \cup {i} ELSE proposals[j].children
<1>1. proposals[j] \in ProposalRecords
  BY DEF CacheIsSound
<1> QED
  BY <1>1 DEF WithChild, ProposalRecords, Parent

\* A game that is skipped, delayed or not assessed: only the cursor, the eliminations, the
\* L1 heads and the children of its parent change.
LEMMA SkipEffect ==
  ASSUME LedgerInv, AgentInv, GuessInv, OpNodeAhead, pc = "load", HasNext,
         UNCHANGED <<ledgerVars, safe, safe0>>, NEW i, i = NextIndex,
         \/ SkipForeign(i)
         \/ SkipDangling(i)
         \/ Delay(i)
         \/ SkipIrrelevant(i)
         \/ FailAssess(i)
  PROVE  /\ i = next /\ i \in Indices /\ i \in Nat
         /\ pc' \in {"load", "resolve"} /\ UNCHANGED <<tip, lastResolved>>
         /\ heads' \in {heads, WithHead(i)} /\ BlamesKept(eliminations')
         /\ proposals' = proposals \/ (proposals' = WithChild(i) /\ games[i].ours)
         /\ next' = next \/ (next' = next + 1 /\ DOMAIN proposals # {})
         /\ next' = next \/ proposals' = WithChild(i) \/ ~games[i].ours
              \/ Parent(i) \notin DOMAIN proposals
<1>1. /\ i = next /\ i \in Indices /\ i \in Nat /\ AfterPop = <<>> /\ queued = <<>>
      /\ DOMAIN proposals = {} => i \in resolved
  BY LoadsNext
<1>2. i \in resolved => games[i].ours
  BY DEF GuessInv, ChainResolved, Climbing
<1>3. BlamesKept(Fetched(i)) /\ BlamesKept(eliminations)
  BY FetchedKeeps
<1>4. CASE SkipForeign(i)
  BY <1>1, <1>2, <1>3, <1>4 DEF SkipForeign, Advance, BlamesKept, WithHead
<1>5. CASE SkipDangling(i)
  BY <1>1, <1>3, <1>5 DEF SkipDangling, Advance, BlamesKept, Dangling, Parent
<1>6. CASE Delay(i)
  <2>1. Block(i) < safe0
    BY <1>1, NeverQueued
  <2>2. eliminations' \in {eliminations, Fetched(i)}
    BY <1>6 DEF Delay
  <2>3. BlamesKept(eliminations')
    BY <1>3, <2>2 DEF BlamesKept
  <2> QED
    BY <1>1, <1>6, <2>1, <2>3 DEF Delay, EndLoad
<1>7. CASE SkipIrrelevant(i)
  <2>1. i \notin resolved
    BY <1>7 DEF SkipIrrelevant, Participates
  <2> QED
    BY <1>1, <1>3, <1>7, <2>1 DEF SkipIrrelevant, Advance, BlamesKept
<1>8. CASE FailAssess(i)
  BY <1>1, <1>3, <1>8 DEF FailAssess, EndLoad, BlamesKept
<1> QED
  BY <1>4, <1>5, <1>6, <1>7, <1>8

LEMMA SkipCache ==
  ASSUME LedgerInv, AgentInv, GuessInv, CacheInv, OpNodeAhead, pc = "load", HasNext,
         UNCHANGED <<ledgerVars, safe, safe0, outputs, lastOutput>>, NEW i, i = NextIndex,
         \/ SkipForeign(i)
         \/ SkipDangling(i)
         \/ Delay(i)
         \/ SkipIrrelevant(i)
         \/ FailAssess(i)
  PROVE  CacheInv'
<1>1. /\ i = next /\ i \in Indices /\ i \in Nat
      /\ pc' \in {"load", "resolve"} /\ UNCHANGED <<tip, lastResolved>>
      /\ heads' \in {heads, WithHead(i)} /\ BlamesKept(eliminations')
      /\ proposals' = proposals \/ (proposals' = WithChild(i) /\ games[i].ours)
      /\ next' = next \/ (next' = next + 1 /\ DOMAIN proposals # {})
      /\ next' = next \/ proposals' = WithChild(i) \/ ~games[i].ours
           \/ Parent(i) \notin DOMAIN proposals
  BY SkipEffect
<1>2. CacheIsSound
  BY DEF AgentInv
<1>3. /\ DOMAIN proposals' = DOMAIN proposals
      /\ \A j \in DOMAIN proposals : /\ proposals'[j].canonical = proposals[j].canonical
                                     /\ proposals'[j].correct = proposals[j].correct
                                     /\ proposals'[j].resolved = proposals[j].resolved
                                     /\ proposals[j].children \subseteq proposals'[j].children
                                     /\ proposals'[j].children = proposals[j].children
                                        \/ (/\ proposals'[j].children = proposals[j].children \cup {i}
                                            /\ i # Root /\ j = Parent(i) /\ games[i].ours)
                                     /\ proposals' = WithChild(i) /\ i # Root /\ i \notin resolved
                                          /\ j = Parent(i) => i \in proposals'[j].children
  <2>1. PICK w : w = WithChild(i)
    OBVIOUS
  <2>2. DOMAIN w = DOMAIN proposals /\ \A j \in DOMAIN proposals :
             /\ w[j].canonical = proposals[j].canonical /\ w[j].correct = proposals[j].correct
             /\ w[j].resolved = proposals[j].resolved
             /\ w[j].children = IF i # Root /\ i \notin resolved /\ j = Parent(i)
                                THEN proposals[j].children \cup {i} ELSE proposals[j].children
    BY <1>2, <2>1, WithChildFacts, WithChildChanges
  <2>3. CASE proposals' = w /\ games[i].ours
    BY <2>2, <2>3
  <2>4. CASE proposals' = proposals
    <3>1. proposals' = w => \A j \in DOMAIN proposals : i # Root /\ i \notin resolved /\ j = Parent(i)
                                                       => i \in proposals'[j].children
      BY <2>2
    <3> QED
      BY <2>1, <2>4, <3>1
  <2> QED
    BY <1>1, <2>1, <2>3, <2>4
<1>4. Followed' = Followed
  BY <1>3 DEF Followed
<1>5. heads \subseteq heads' /\ heads' \subseteq Nat
  <2>1. games[i].at \in Nat
    BY <1>1 DEF CacheInv, InOrder
  <2> QED
    BY <1>1, <2>1 DEF CacheInv, WithHead
<1>6. ASSUME NEW j \in DOMAIN proposals
      PROVE  Cached(j)'
  <2>1. Cached(j)
    BY DEF CacheInv
  <2>2. games[j].at \in heads'
    BY <1>5, <2>1 DEF Cached
  <2>3. proposals'[j].children \subseteq Children(j)
    <3>1. ASSUME games[i].ours, i # Root, j = Parent(i)
          PROVE  i \in Children(j)
      BY <1>1, <3>1 DEF Children, Parent
    <3>2. proposals[j].children \subseteq Children(j)
      BY <2>1 DEF Cached
    <3> QED
      BY <1>3, <3>1, <3>2
  <2>4. ASSUME NEW c \in Children(j), c < next', ~(c < next), ~Decided(j)
        PROVE  c \in proposals'[j].children
    <3>1. c \in Indices \ {Root} /\ c \in Nat /\ games[c].ours /\ Parent(c) = j
      BY LedgerTypes DEF GuessInv, Children, Parent
    <3>2. c = i /\ next' # next
      BY <1>1, <2>4, <3>1
    <3>3. proposals' = WithChild(i)
      BY <1>1, <3>1, <3>2
    <3>4. i \notin resolved
      BY <2>4, <3>2 DEF Decided
    <3> QED
      BY <1>3, <3>1, <3>2, <3>3, <3>4
  <2>5. \A p \in Proposers : eliminations[p] # 0 => eliminations'[p] = eliminations[p]
    BY <1>1 DEF BlamesKept
  <2> QED
    BY <1>3, <1>4, <2>2, <2>3, <2>4, <2>5, CachedKept
<1>7. InOrder'
  BY OrderKept DEF CacheInv
<1>8. lastOutput' \in Nat /\ \E lo \in 0..lastOutput' : OutputsFrom(lo)'
  BY <1>1, <1>3, <1>4, OutputsStay DEF ledgerVars
<1> QED
  BY <1>3, <1>5, <1>6, <1>7, <1>8 DEF CacheInv

LEMMA WithProposalChanges ==
  ASSUME CacheIsSound, NEW elims, NEW i, i \notin DOMAIN proposals, NEW w, w = WithProposal(elims, i)
  PROVE  /\ w[i].correct = IsCorrect(i) /\ w[i].resolved = (i \in resolved) /\ w[i].children = {}
         /\ \A j \in DOMAIN proposals :
              /\ w[j].correct = proposals[j].correct /\ w[j].resolved = proposals[j].resolved
              /\ w[j].children = IF i # Root /\ i \notin resolved /\ j = Parent(i)
                                 THEN proposals[j].children \cup {i} ELSE proposals[j].children
<1>1. PICK c : c = WithChild(i)
  OBVIOUS
<1>2. /\ DOMAIN c = DOMAIN proposals
      /\ \A j \in DOMAIN proposals :
           /\ c[j].correct = proposals[j].correct /\ c[j].resolved = proposals[j].resolved
           /\ c[j].children = IF i # Root /\ i \notin resolved /\ j = Parent(i)
                              THEN proposals[j].children \cup {i} ELSE proposals[j].children
  BY <1>1, WithChildFacts, WithChildChanges
<1>3. \A j \in DOMAIN proposals : c[j] \in ProposalRecords \/ c[j] = [c[j] EXCEPT !.children = @]
  <2>1. \A j \in DOMAIN proposals : proposals[j] \in ProposalRecords
    BY DEF CacheIsSound
  <2> QED
    BY <1>1, <2>1 DEF WithChild, ProposalRecords
<1>4. PICK l : l = IF IsCanonical(elims, i) /\ games[i].parent \in DOMAIN proposals
                  THEN [c EXCEPT ![games[i].parent].successor = i] ELSE c
  OBVIOUS
<1>5. DOMAIN l = DOMAIN c /\ \A j \in DOMAIN proposals :
        /\ l[j].correct = c[j].correct /\ l[j].resolved = c[j].resolved /\ l[j].children = c[j].children
  <2>1. \A j \in DOMAIN proposals : l[j] = c[j] \/ l[j] = [c[j] EXCEPT !.successor = i]
    BY <1>2, <1>4
  <2>2. \A j \in DOMAIN proposals : proposals[j] \in ProposalRecords
    BY DEF CacheIsSound
  <2>3. ASSUME NEW j \in DOMAIN proposals
        PROVE  l[j].correct = c[j].correct /\ l[j].resolved = c[j].resolved /\ l[j].children = c[j].children
    <3>1. c[j] = proposals[j] \/ c[j] = [proposals[j] EXCEPT !.children = @ \cup {i}]
      BY <1>1 DEF WithChild
    <3> QED
      BY <2>1, <2>2, <3>1 DEF ProposalRecords
  <2> QED
    BY <1>4, <2>3
<1>6. w = [j \in DOMAIN proposals \cup {i} |-> IF j = i THEN Loaded(elims, i) ELSE l[j]]
  BY <1>1, <1>4 DEF WithProposal
<1>7. w[i] = Loaded(elims, i) /\ \A j \in DOMAIN proposals : w[j] = l[j]
  BY <1>6
<1>8. w[i].correct = IsCorrect(i) /\ w[i].resolved = (i \in resolved) /\ w[i].children = {}
  BY <1>7 DEF Loaded
<1>9. ASSUME NEW j \in DOMAIN proposals
      PROVE  /\ w[j].correct = proposals[j].correct /\ w[j].resolved = proposals[j].resolved
             /\ w[j].children = IF i # Root /\ i \notin resolved /\ j = Parent(i)
                                THEN proposals[j].children \cup {i} ELSE proposals[j].children
  <2>1. w[j] = l[j]
    BY <1>7
  <2>2. l[j].correct = c[j].correct /\ l[j].resolved = c[j].resolved /\ l[j].children = c[j].children
    BY <1>5
  <2> QED
    BY <1>2, <2>1, <2>2
<1> QED
  BY <1>8, <1>9

LEMMA StoreCache ==
  ASSUME LedgerInv, AgentInv, GuessInv, CacheInv, pc = "load", HasNext,
         UNCHANGED <<ledgerVars, safe, safe0>>, UNCHANGED <<outputs, lastOutput>>,
         NEW i, i = NextIndex, Store(i)
  PROVE  CacheInv'
<1>1. PICK elims : elims = IF i = Root THEN eliminations ELSE Fetched(i)
  OBVIOUS
<1>2. /\ i = next /\ i \in Indices /\ i \in Nat /\ i \notin DOMAIN proposals
      /\ games[i].ours /\ ~Dangling(i) /\ Participates(elims, i) /\ BlamesKept(elims) /\ Faults(elims)
      /\ next' = i + 1 /\ pc' = pc /\ DOMAIN proposals' = DOMAIN proposals \cup {i}
  BY <1>1, StoreEffect
<1>13. /\ Followed' = IF IsCanonical(elims, i) THEN Followed \cup {i} ELSE Followed
       /\ eliminations' =
            IF i # Root /\ ~IsCanonical(elims, i) /\ ~IsCorrect(i) /\ elims[games[i].proposer] = 0
            THEN [elims EXCEPT ![games[i].proposer] = i] ELSE elims
  <2>1. Followed' = IF IsCanonical(elims, i) THEN Followed \cup {i} ELSE Followed
    BY <1>1, StoreEffect
  <2>2. eliminations' =
          IF i # Root /\ ~IsCanonical(elims, i) /\ ~IsCorrect(i) /\ elims[games[i].proposer] = 0
          THEN [elims EXCEPT ![games[i].proposer] = i] ELSE elims
    <3>1. CASE i # Root /\ ~IsCanonical(elims, i) /\ ~IsCorrect(i) /\ elims[games[i].proposer] = 0
      BY <1>1, <3>1, StoreEffect
    <3>2. CASE ~(i # Root /\ ~IsCanonical(elims, i) /\ ~IsCorrect(i) /\ elims[games[i].proposer] = 0)
      BY <1>1, <3>2, StoreEffect
    <3> QED
      BY <3>1, <3>2
  <2> QED
    BY <2>1, <2>2
<1>3. heads' = heads \cup {games[i].at} /\ proposals' = WithProposal(elims, i) /\ OutputsCached(i)
  BY <1>1 DEF Store, WithHead
<1>4. CacheIsSound
  BY DEF AgentInv
<1>5. /\ proposals'[i].correct = IsCorrect(i) /\ proposals'[i].resolved = (i \in resolved)
      /\ proposals'[i].children = {}
      /\ \A j \in DOMAIN proposals :
           /\ proposals'[j].correct = proposals[j].correct
           /\ proposals'[j].resolved = proposals[j].resolved
           /\ proposals'[j].children = IF i # Root /\ i \notin resolved /\ j = Parent(i)
                                       THEN proposals[j].children \cup {i} ELSE proposals[j].children
  <2>1. PICK w : w = WithProposal(elims, i)
    OBVIOUS
  <2>2. /\ w[i].correct = IsCorrect(i) /\ w[i].resolved = (i \in resolved) /\ w[i].children = {}
        /\ \A j \in DOMAIN proposals :
             /\ w[j].correct = proposals[j].correct /\ w[j].resolved = proposals[j].resolved
             /\ w[j].children = IF i # Root /\ i \notin resolved /\ j = Parent(i)
                                THEN proposals[j].children \cup {i} ELSE proposals[j].children
    BY <1>2, <1>4, <2>1, WithProposalChanges
  <2>3. proposals' = w
    BY <1>3, <2>1
  <2> QED
    BY <2>2, <2>3
<1>6. heads' \subseteq Nat
  <2>1. games[i].at \in Nat
    BY <1>2 DEF CacheInv, InOrder
  <2> QED
    BY <1>3, <2>1 DEF CacheInv
<1>7. i # Root => /\ games[i].proposer \in Proposers /\ Parent(i) < i /\ Parent(i) \in Indices
                  /\ i \in Children(Parent(i))
  BY <1>2, LedgerTypes DEF GuessInv, Climbing, Children, Parent
<1>8. \A p \in Proposers : eliminations[p] # 0 => eliminations'[p] = eliminations[p]
  <2>1. elims \in [Proposers -> Nat]
    BY <1>2 DEF Faults
  <2> QED
    BY <1>2, <1>13, <2>1 DEF BlamesKept
<1>9. ASSUME NEW j \in DOMAIN proposals
      PROVE  Cached(j)'
  <2>1. Cached(j)
    BY DEF CacheInv
  <2>2. j < i /\ games[j].ours /\ j \in Indices /\ j \in Nat
    <3>1. j < next /\ games[j].ours
      BY DEF GuessInv, NothingDelayed
    <3>2. j \in Indices /\ Indices \subseteq Nat
      BY <1>4, LedgerCount DEF CacheIsSound
    <3> QED
      BY <1>2, <3>1, <3>2
  <2>3. Parent(j) # i
    <3>1. CASE j = Root
      BY <2>2, <3>1 DEF LedgerInv, Parent, Root
    <3>2. CASE j # Root
      <4>1. Parent(j) < j
        BY <2>2, <3>2 DEF GuessInv, Climbing
      <4> QED
        BY <1>2, <2>2, <4>1
    <3> QED
      BY <3>1, <3>2
  <2>4. games[j].at \in heads'
    BY <1>3, <2>1 DEF Cached
  <2>5. proposals'[j].children \subseteq Children(j) /\ proposals[j].children \subseteq proposals'[j].children
    <3>1. proposals[j].children \subseteq Children(j)
      BY <2>1 DEF Cached
    <3>2. CASE i # Root /\ i \notin resolved /\ j = Parent(i)
      <4>1. proposals'[j].children = proposals[j].children \cup {i} /\ i \in Children(j)
        BY <1>5, <1>7, <3>2
      <4> QED
        BY <3>1, <4>1
    <3>3. CASE ~(i # Root /\ i \notin resolved /\ j = Parent(i))
      <4>1. proposals'[j].children = proposals[j].children
        BY <1>5, <3>3
      <4> QED
        BY <3>1, <4>1
    <3> QED
      BY <3>2, <3>3
  <2>6. ASSUME NEW c \in Children(j), c < next', ~(c < next), ~Decided(j)
        PROVE  c \in proposals'[j].children
    <3>1. c \in Indices \ {Root} /\ c \in Nat /\ Parent(c) = j
      BY LedgerTypes DEF GuessInv, Children, Parent
    <3>2. c = i
      BY <1>2, <2>6, <3>1
    <3>3. i \notin resolved
      BY <2>6, <3>2 DEF Decided
    <3> QED
      BY <1>5, <3>1, <3>2, <3>3
  <2> QED
    BY <1>2, <1>13, <1>5, <1>8, <2>3, <2>4, <2>5, <2>6, CachedKept
<1>10. Cached(i)'
  <2>1. /\ games' = games /\ resolved' = resolved /\ Parent(i)' = Parent(i) /\ Children(i)' = Children(i)
    BY SameLedger DEF ledgerVars
  <2>2. IsCorrect(i) <=> games[i].good
    <3>1. games[i].good => i = Root \/ i \in resolved
                          \/ (games[i].parent \in DOMAIN proposals /\ proposals[games[i].parent].canonical)
      BY <1>2 DEF Participates
    <3>2. games[i].parent \in DOMAIN proposals /\ proposals[games[i].parent].canonical
            => proposals[games[i].parent].correct
      BY <1>4 DEF CacheIsSound
    <3>3. IsCorrect(i) => games[i].good
      BY DEF IsCorrect
    <3>4. games[i].good => IsCorrect(i)
      BY <3>1, <3>2 DEF IsCorrect
    <3> QED
      BY <3>3, <3>4
  <2>3. i # Root /\ Parent(i) \in DOMAIN proposals' => Parent(i) \in Followed'
    <3> SUFFICES ASSUME i # Root, Parent(i) \in DOMAIN proposals'
                 PROVE  Parent(i) \in Followed
      BY <1>13
    <3>1. Parent(i) \in DOMAIN proposals
      BY <1>2, <1>7
    <3> QED
      BY <1>2, <3>1, StoredOnFollowed
  <2>4. ~games[i].good => eliminations'[games[i].proposer] >= i
    <3> SUFFICES ASSUME ~games[i].good
                 PROVE  eliminations'[games[i].proposer] >= i
      OBVIOUS
    <3>1. i # Root /\ i \notin resolved
      BY LedgerTypes DEF GuessInv, LedgerInv
    <3>2. ~IsCorrect(i) /\ ~IsCanonical(elims, i)
      BY DEF IsCorrect, IsCanonical
    <3>3. elims \in [Proposers -> Nat] /\ games[i].proposer \in Proposers
      BY <1>2, <1>7, <3>1 DEF Faults
    <3>4. ~EliminatedBefore(elims, i)
      BY <1>2, <3>1 DEF Participates
    <3>5. CASE elims[games[i].proposer] = 0
      BY <1>2, <1>13, <3>1, <3>2, <3>3, <3>5
    <3>6. CASE elims[games[i].proposer] # 0
      <4>1. elims[games[i].proposer] >= i
        BY <1>2, <3>1, <3>3, <3>4, <3>6 DEF EliminatedBefore
      <4> QED
        BY <1>13, <3>6, <4>1
    <3> QED
      BY <3>5, <3>6
  <2>5. \A c \in Children(i) : ~(c < next')
    <3>1. \A c \in Children(i) : i < c /\ c \in Nat
      BY ChildFacts, LedgerTypes DEF GuessInv
    <3> QED
      BY <1>2, <3>1
  <2> QED
    BY <1>3, <1>5, <2>1, <2>2, <2>3, <2>4, <2>5 DEF Cached
<1>11. InOrder'
  BY OrderKept DEF CacheInv
<1>12. lastOutput' \in Nat /\ \E lo \in 0..lastOutput' : OutputsFrom(lo)'
  <2>1. PICK lo \in 0..lastOutput : OutputsFrom(lo)
    BY DEF CacheInv
  <2>2. \A j : Block(j)' = Block(j)
    BY DEF Block, ledgerVars
  <2>3. lastOutput \in Nat /\ lo \in Nat
    BY <2>1 DEF CacheInv
  <2>4. lo <= Block(i)
    <3>1. CASE DOMAIN proposals = {}
      BY <1>2, <2>1, <3>1 DEF OutputsFrom
    <3>2. CASE DOMAIN proposals # {}
      <4>1. Parent(i) \in Followed /\ Height(i) = Height(Parent(i)) + 1 /\ Parent(i) \in Indices
        BY <1>2, <3>2, StoredOnFollowed, FollowedFacts
      <4>2. Height(Parent(i)) < Height(i)
        BY <4>1, LedgerTypes DEF GuessInv
      <4>3. Block(Parent(i)) < Block(i) /\ Block(i) \in Nat /\ Block(Parent(i)) \in Nat
        BY <1>2, <4>1, <4>2, BlockOrder
      <4>4. lo <= Block(Parent(i))
        BY <2>1, <4>1 DEF OutputsFrom
      <4> QED
        BY <2>3, <4>3, <4>4
    <3> QED
      BY <3>1, <3>2
  <2>5. i # Root => outputs # {} /\ Block(i) <= lastOutput
    <3> SUFFICES ASSUME i # Root
                 PROVE  outputs # {} /\ Block(i) <= lastOutput
      OBVIOUS
    <3>1. Block(i) \in Nat /\ Span \in Nat \ {0}
      BY <1>2, BlockOrder, SyncAssumption
    <3>2. Block(i) \in (Block(i) - Span + 1)..Block(i)
      BY <3>1
    <3>3. Block(i) \in outputs
      BY <1>3, <3>2 DEF OutputsCached
    <3>4. outputs = lo..lastOutput
      BY <2>1, <3>3 DEF OutputsFrom
    <3> QED
      BY <2>3, <3>3, <3>4
  <2>6. OutputsFrom(lo)'
    BY <1>2, <1>13, <2>1, <2>2, <2>4, <2>5 DEF OutputsFrom
  <2> QED
    BY <2>1, <2>3, <2>6
<1> QED
  BY <1>2, <1>6, <1>9, <1>10, <1>11, <1>12 DEF CacheInv

\* What FollowResolution frees: the games before the successor, and their L1 heads.
LEMMA FollowEffect ==
  ASSUME LedgerInv, AgentInv, GuessInv, CacheInv, FollowResolution, NEW s, s = Successor
  PROVE  /\ s \in Followed \ {Root} /\ s \in resolved /\ s \in Nat /\ s \in Indices
         /\ DOMAIN proposals' = {k \in DOMAIN proposals : k >= s}
         /\ \A j \in DOMAIN proposals' :
              /\ proposals'[j].canonical = proposals[j].canonical
              /\ proposals'[j].correct = proposals[j].correct
              /\ proposals'[j].children = proposals[j].children
              /\ proposals'[j].successor = proposals[j].successor
              /\ proposals'[j].resolved => proposals[j].resolved \/ j \in resolved
         /\ Followed' = {c \in Followed : c >= s} /\ lastResolved' = s
         /\ heads' = {h \in heads : h >= games[s].at} /\ outputs' = outputs \ Freed(s)
         /\ UNCHANGED <<ledgerVars, safe, pc, tip, next, lastOutput, eliminations, first, reported>>
<1>1. /\ s \in DOMAIN proposals /\ s \in resolved /\ lastResolved \in DOMAIN proposals
      /\ lastResolved' = s
      /\ proposals' = [j \in Kept(s) |-> IF j = s THEN [proposals[s] EXCEPT !.resolved = TRUE]
                                         ELSE proposals[j]]
      /\ outputs' = outputs \ Freed(s)
      /\ heads' = IF games[s].at \in heads THEN {h \in heads : h >= games[s].at} ELSE heads
      /\ UNCHANGED <<ledgerVars, safe, pc, tip, next, lastOutput, eliminations, first, reported>>
  BY DEF FollowResolution, CanFollow, localVars
<1>2. FollowedIsChain
  BY DEF GuessInv
<1>3. DOMAIN proposals \subseteq Nat /\ DOMAIN proposals \subseteq Indices /\ s # None
  BY <1>1, LedgerCount DEF AgentInv, CacheIsSound, None
<1>4. s \in Followed \ {Root}
  BY <1>1, <1>2, <1>3 DEF FollowedIsChain, SuccessorOf, Successor
<1>5. proposals[s] \in ProposalRecords
  BY <1>1 DEF AgentInv, CacheIsSound
<1>6. PICK r : r = [proposals[s] EXCEPT !.resolved = TRUE]
  OBVIOUS
<1>7. /\ r.canonical = proposals[s].canonical /\ r.successor = proposals[s].successor
      /\ r.correct = proposals[s].correct /\ r.children = proposals[s].children
  BY <1>5, <1>6 DEF ProposalRecords
<1>8. proposals' = [j \in Kept(s) |-> IF j = s THEN r ELSE proposals[j]]
  BY <1>1, <1>6
<1>9. /\ DOMAIN proposals' = {k \in DOMAIN proposals : k >= s}
      /\ \A j \in DOMAIN proposals' : proposals'[j] = IF j = s THEN r ELSE proposals[j]
  BY <1>8 DEF Kept
<1>10. \A j \in DOMAIN proposals' :
              /\ proposals'[j].canonical = proposals[j].canonical
              /\ proposals'[j].correct = proposals[j].correct
              /\ proposals'[j].children = proposals[j].children
              /\ proposals'[j].successor = proposals[j].successor
              /\ proposals'[j].resolved => proposals[j].resolved \/ j \in resolved
  BY <1>1, <1>7, <1>9
<1>11. Followed' = {c \in Followed : c >= s}
  BY <1>9, <1>10 DEF Followed
<1>12. games[s].at \in heads
  BY <1>1 DEF CacheInv, Cached
<1> QED
  BY <1>1, <1>3, <1>4, <1>9, <1>10, <1>11, <1>12

\* prune_data frees the outputs of the blocks below the last resolved proposal's parent.
LEMMA FreedFacts ==
  ASSUME NEW s, NEW b \in Nat, b = Block(s), NEW l \in Nat, NEW lo \in 0..l, b <= l, lo <= b,
         outputs = lo..l
  PROVE  \E lo2 \in 0..b : outputs \ Freed(s) = lo2..l
<1>1. PICK e : e = IF b > Span THEN b - Span ELSE 0
  OBVIOUS
<1>2. e \in 0..b
  BY <1>1, SyncAssumption
<1>3. Freed(s) = {x \in 0..(e - 1) : x..(e - 1) \subseteq lo..l}
  BY <1>1 DEF Freed
<1>4. \A x \in 0..(e - 1) : x..(e - 1) \subseteq lo..l <=> lo <= x
  <2> SUFFICES ASSUME NEW x \in 0..(e - 1)
               PROVE  x..(e - 1) \subseteq lo..l <=> lo <= x
    OBVIOUS
  <2>1. x \in x..(e - 1)
    BY <1>2
  <2>2. x..(e - 1) \subseteq lo..l => lo <= x
    BY <2>1
  <2>3. lo <= x => x..(e - 1) \subseteq lo..l
    BY <1>2
  <2> QED
    BY <2>2, <2>3
<1>5. outputs \ Freed(s) = {y \in lo..l : ~(y < e)}
  BY <1>2, <1>3, <1>4
<1>6. CASE lo < e
  BY <1>2, <1>5, <1>6
<1>7. CASE ~(lo < e)
  BY <1>2, <1>5, <1>7
<1> QED
  BY <1>6, <1>7

LEMMA FollowCache ==
  ASSUME LedgerInv, AgentInv, GuessInv, CacheInv, FollowResolution
  PROVE  CacheInv'
<1>1. PICK s : s = Successor
  OBVIOUS
<1>2. /\ s \in Followed \ {Root} /\ s \in resolved /\ s \in Nat /\ s \in Indices
      /\ DOMAIN proposals' = {k \in DOMAIN proposals : k >= s}
      /\ \A j \in DOMAIN proposals' :
           /\ proposals'[j].correct = proposals[j].correct
           /\ proposals'[j].children = proposals[j].children
           /\ proposals'[j].resolved => proposals[j].resolved \/ j \in resolved
      /\ Followed' = {c \in Followed : c >= s}
      /\ heads' = {h \in heads : h >= games[s].at} /\ outputs' = outputs \ Freed(s)
      /\ UNCHANGED <<ledgerVars, pc, next, lastOutput, eliminations>>
  BY <1>1, FollowEffect
<1>3. DOMAIN proposals \subseteq Nat /\ DOMAIN proposals \subseteq Indices /\ s \in DOMAIN proposals
  BY <1>2, LedgerCount DEF AgentInv, CacheIsSound, Followed
<1>4. ASSUME NEW j \in DOMAIN proposals'
      PROVE  Cached(j)'
  <2>1. j \in DOMAIN proposals /\ j \in Indices /\ s <= j
    BY <1>2, <1>3
  <2>2. Cached(j)
    BY <2>1 DEF CacheInv
  <2>3. games[j].at \in heads'
    <3>1. games[s].at <= games[j].at /\ games[s].at \in Nat /\ games[j].at \in Nat
      <4>1. InOrder /\ s \in Indices /\ j \in Indices /\ s <= j
        BY <1>2, <2>1 DEF CacheInv
      <4> QED
        BY <4>1 DEF InOrder
    <3> QED
      BY <1>2, <2>2, <3>1 DEF Cached
  <2>4. Parent(j) \in Followed /\ Parent(j) \in DOMAIN proposals' => Parent(j) \in Followed'
    BY <1>2
  <2>5. proposals'[j].children \subseteq Children(j)
    BY <1>2, <2>2 DEF Cached
  <2> QED
    BY <1>2, <2>1, <2>3, <2>4, <2>5, CachedKept
<1>5. InOrder'
  BY <1>2, OrderKept DEF CacheInv
<1>6. heads' \subseteq Nat
  BY <1>2 DEF CacheInv
<1>7. PICK lo \in 0..lastOutput : OutputsFrom(lo)
  BY DEF CacheInv
<1>8. Block(s) \in Nat /\ lo <= Block(s) /\ Block(s) <= lastOutput /\ outputs = lo..lastOutput
  BY <1>2, <1>3, <1>7, BlockOrder DEF OutputsFrom
<1>9. lastOutput \in Nat
  BY DEF CacheInv
<1>10. PICK lo2 \in 0..Block(s) : outputs' = lo2..lastOutput
  BY <1>2, <1>7, <1>8, <1>9, FreedFacts
<1>11. OutputsFrom(lo2)'
  <2>1. \A j : Block(j)' = Block(j)
    BY <1>2 DEF Block, ledgerVars
  <2>2. outputs' # {}
    <3>1. Block(s) \in lo2..lastOutput
      BY <1>8, <1>9, <1>10
    <3> QED
      BY <1>10, <3>1
  <2>3. ASSUME NEW c \in Followed'
        PROVE  lo2 <= Block(c)
    <3>1. c \in Followed /\ c \in Nat /\ c \in Indices /\ (c = s \/ s < c)
      BY <1>2, <2>3, FollowedFacts
    <3>2. c = s \/ Height(s) < Height(c)
      BY <1>2, <3>1 DEF GuessInv, FollowedIsChain
    <3>3. Block(c) \in Nat /\ Block(s) <= Block(c)
      BY <1>2, <1>8, <3>1, <3>2, BlockOrder
    <3> QED
      BY <1>8, <1>10, <3>3
  <2>4. \A j \in DOMAIN proposals' \ {Root} : Block(j) <= lastOutput
    BY <1>2, <1>7 DEF OutputsFrom
  <2>5. DOMAIN proposals' # {}
    BY <1>2, <1>3
  <2> QED
    BY <1>2, <1>10, <2>1, <2>2, <2>3, <2>4, <2>5 DEF OutputsFrom
<1>12. lo2 \in 0..lastOutput'
  BY <1>2, <1>8, <1>9, <1>10
<1> QED
  BY <1>2, <1>4, <1>5, <1>6, <1>9, <1>11, <1>12 DEF CacheInv

\* What the agent has cached stays right in every step.
LEMMA SyncCache ==
  ASSUME LedgerInv, AgentInv, GuessInv, CacheInv, OpNodeAhead, [SyncNext]_syncVars
  PROVE  CacheInv'
<1>1. LedgerInv'
  BY SyncGuess
<1>2. CASE LoadNext
  <2>1. PICK i : i = NextIndex
    OBVIOUS
  <2>2. /\ pc = "load" /\ HasNext /\ UNCHANGED <<ledgerVars, safe, safe0>>
        /\ UNCHANGED <<outputs, lastOutput>> /\ UNCHANGED <<ledgerVars, safe, safe0, outputs, lastOutput>>
    BY <1>2 DEF LoadNext
  <2>3. \/ SkipForeign(i)
        \/ SkipDangling(i)
        \/ Delay(i)
        \/ SkipIrrelevant(i)
        \/ FailAssess(i)
        \/ Store(i)
    BY <1>2, <2>1 DEF LoadNext
  <2> QED
    BY <2>1, <2>2, <2>3, SkipCache, StoreCache
<1>3. CASE AgentStep \/ Crash
  BY <1>2, <1>3, StartCache, FetchCache, BookkeepingCache, FollowCache DEF AgentStep
<1>4. CASE Environment \/ UNCHANGED syncVars
  <2>1. (LedgerNext \/ UNCHANGED ledgerVars) /\ UNCHANGED agentVars
    BY <1>4 DEF Environment, DeriveL2, syncVars
  <2> QED
    BY <1>1, <2>1, CacheWaits
<1> QED
  BY <1>3, <1>4 DEF SyncNext

-----------------------------------------------------------------------------
(***************************************************************************)
(* What the invariant is for.                                              *)
(***************************************************************************)
LEMMA DataAtHand ==
  ASSUME LedgerInv, AgentInv, GuessInv, ValidatorInv
  PROVE  WorkFindsItsData
<1> SUFFICES ASSUME NEW x \in BagToSet(work), NEW i, i = x.game, ~IsMissing(i), ~Decided(Parent(i))
             PROVE  /\ Block(Parent(i))..Block(i) \subseteq outputs
                    /\ games[i].at \in heads
                    /\ x.kind \in {"fault", "valid"} /\ x.at # "buffer" => x.head \in heads
                    /\ i \in proposals[Parent(i)].children
                    /\ {d \in proposals[Parent(i)].children : d < i} =
                         {d \in Children(Parent(i)) : d < i}
  BY DEF WorkFindsItsData
<1>1. CacheInv /\ ItemInv(x)
  BY DEF ValidatorInv, WorkInv
<1>2. /\ i \in DOMAIN proposals /\ Parent(i) \in DOMAIN proposals /\ i # Root /\ games[i].ours
      /\ i \in Indices /\ i \in Nat /\ i < next
  <2>1. i \in DOMAIN proposals /\ Parent(i) \in DOMAIN proposals /\ i # Root /\ games[i].ours
    BY <1>1 DEF IsMissing, ItemInv
  <2> QED
    BY <2>1, LedgerCount DEF AgentInv, CacheIsSound, GuessInv, NothingDelayed
<1>3. Cached(i) /\ Cached(Parent(i)) /\ Parent(i) \in Followed /\ i \in Children(Parent(i))
  BY <1>1, <1>2 DEF CacheInv, Cached, Children, Parent
<1>4. Block(Parent(i))..Block(i) \subseteq outputs
  <2>1. PICK lo \in 0..lastOutput : OutputsFrom(lo)
    BY <1>1 DEF CacheInv
  <2>2. outputs = lo..lastOutput /\ lo <= Block(Parent(i)) /\ Block(i) <= lastOutput
    BY <1>2, <1>3, <2>1 DEF OutputsFrom
  <2>3. Block(i) \in Nat /\ Block(Parent(i)) \in Nat /\ lastOutput \in Nat
    BY <1>1, <1>2, <1>3, BlockOrder, FollowedFacts DEF CacheInv
  <2> QED
    BY <2>1, <2>2, <2>3
<1>5. games[i].at \in heads
  BY <1>3 DEF Cached
<1>6. x.kind \in {"fault", "valid"} /\ x.at # "buffer" => x.head \in heads
  BY <1>1, <1>2 DEF ItemInv
<1>7. PICK known : known = proposals[Parent(i)].children
  OBVIOUS
<1>8. known \subseteq Children(Parent(i)) /\ {c \in Children(Parent(i)) : c < next} \subseteq known
  BY <1>3, <1>7 DEF Cached
<1>9. \A d \in Children(Parent(i)) : d < i => d < next
  <2>1. \A d \in Children(Parent(i)) : d \in Nat
    BY LedgerCount DEF Children
  <2>2. next \in Nat
    BY DEF AgentInv, Queues
  <2> QED
    BY <1>2, <2>1, <2>2
<1>10. i \in known /\ {d \in known : d < i} = {d \in Children(Parent(i)) : d < i}
  BY <1>2, <1>3, <1>8, <1>9
<1> QED
  BY <1>4, <1>5, <1>6, <1>7, <1>10

LEMMA FaultsRemembered ==
  ASSUME LedgerInv, AgentInv, GuessInv, ValidatorInv
  PROVE  NoFaultForgotten
<1> SUFFICES ASSUME workers = Provers, phase = "work", NEW i \in Indices, OpenFault(i), Answerable(i)
             PROVE  \E x \in BagToSet(work) : Answers(x, i)
  BY DEF NoFaultForgotten
<1>1. LoopInv
  BY DEF ValidatorInv
<1>2. pc = "idle" /\ loaded = {}
  BY <1>1 DEF LoopInv
<1>3. Handled = reported /\ DOMAIN proposals \subseteq Handled
  BY <1>1, <1>2 DEF LoopInv, Handled
<1>4. FaultInv
  BY <1>2 DEF ValidatorInv
<1>5. Unsettled(i) /\ i \in Handled
  BY <1>3 DEF OpenFault, Unsettled, Refuted
<1>6. ~Awaited(i)
  BY <1>3 DEF Awaited, Answerable, SuccessorOf
<1> QED
  BY <1>4, <1>5, <1>6 DEF FaultInv

-----------------------------------------------------------------------------
(***************************************************************************)
(* sync() inside of the validator's loop.                                  *)
(***************************************************************************)

\* One step of sync(): at most the game at the cursor is stored, and what is freed is older
\* than what is kept.
SyncEffect ==
  /\ UNCHANGED ledgerVars /\ pc' # "off" /\ next' \in {next, next + 1}
  /\ \A j \in DOMAIN proposals' : j \in DOMAIN proposals \/ (j = next /\ next' = next + 1)
  /\ \A j \in DOMAIN proposals' \cap DOMAIN proposals :
       /\ proposals'[j].canonical = proposals[j].canonical
       /\ \/ SuccessorOf(j)' = SuccessorOf(j)
          \/ SuccessorOf(j)' = next /\ next \in DOMAIN proposals'
  /\ \A j \in DOMAIN proposals \ DOMAIN proposals' : \A k \in DOMAIN proposals' : j < k
  /\ \A j \in DOMAIN proposals' : \A h \in heads : h >= games[j].at => h \in heads'

LEMMA SkipSyncs ==
  ASSUME LedgerInv, AgentInv, GuessInv, OpNodeAhead, pc = "load", HasNext,
         UNCHANGED <<ledgerVars, safe, safe0>>, NEW i, i = NextIndex,
         \/ SkipForeign(i)
         \/ SkipDangling(i)
         \/ Delay(i)
         \/ SkipIrrelevant(i)
         \/ FailAssess(i)
  PROVE  SyncEffect /\ pc' \in {"load", "resolve"}
<1>1. /\ pc' \in {"load", "resolve"} /\ heads' \in {heads, WithHead(i)}
      /\ proposals' = proposals \/ (proposals' = WithChild(i) /\ games[i].ours)
      /\ next' = next \/ (next' = next + 1 /\ DOMAIN proposals # {})
  BY SkipEffect
<1>2. heads \subseteq heads'
  BY <1>1 DEF WithHead
<1>3. /\ DOMAIN proposals' = DOMAIN proposals
      /\ \A j \in DOMAIN proposals : /\ proposals'[j].canonical = proposals[j].canonical
                                     /\ proposals'[j].successor = proposals[j].successor
  BY <1>1, WithChildFacts DEF AgentInv
<1> QED
  BY <1>1, <1>2, <1>3 DEF SyncEffect, SuccessorOf

LEMMA StoreSyncs ==
  ASSUME LedgerInv, AgentInv, GuessInv, pc = "load", HasNext,
         UNCHANGED <<ledgerVars, safe, safe0>>, NEW i, i = NextIndex, Store(i)
  PROVE  SyncEffect /\ pc' = pc
<1>1. PICK elims : elims = IF i = Root THEN eliminations ELSE Fetched(i)
  OBVIOUS
<1>2. /\ i = next /\ i \in Indices /\ i \in Nat /\ i \notin DOMAIN proposals
      /\ next' = i + 1 /\ pc' = pc /\ DOMAIN proposals' = DOMAIN proposals \cup {i}
  BY <1>1, StoreEffect
<1>3. /\ Followed' = IF IsCanonical(elims, i) THEN Followed \cup {i} ELSE Followed
      /\ \A j \in DOMAIN proposals : SuccessorOf(j)' =
           IF IsCanonical(elims, i) /\ j = Parent(i) THEN i ELSE SuccessorOf(j)
  BY <1>1, StoreEffect
<1>4. heads \subseteq heads' /\ proposals' = WithProposal(elims, i)
  BY <1>1 DEF Store, WithHead
<1>5. \A j \in DOMAIN proposals : proposals'[j].canonical = proposals[j].canonical
  <2>1. Inserted(proposals', elims, i)
    BY <1>2, <1>4, WithProposalFacts DEF AgentInv
  <2> QED
    BY <2>1 DEF Inserted
<1> QED
  BY <1>2, <1>3, <1>4, <1>5 DEF SyncEffect

LEMMA FollowSyncs ==
  ASSUME LedgerInv, AgentInv, GuessInv, CacheInv, FollowResolution
  PROVE  SyncEffect
<1>1. PICK s : s = Successor
  OBVIOUS
<1>2. /\ s \in resolved /\ s \in Nat /\ s \in Indices
      /\ DOMAIN proposals' = {k \in DOMAIN proposals : k >= s}
      /\ \A j \in DOMAIN proposals' : /\ proposals'[j].canonical = proposals[j].canonical
                                      /\ proposals'[j].successor = proposals[j].successor
      /\ heads' = {h \in heads : h >= games[s].at}
      /\ UNCHANGED <<ledgerVars, pc, next>>
  BY <1>1, FollowEffect
<1>3. pc = "resolve" /\ DOMAIN proposals \subseteq Nat /\ DOMAIN proposals \subseteq Indices
  BY LedgerCount DEF FollowResolution, AgentInv, CacheIsSound
<1>4. \A j \in DOMAIN proposals \ DOMAIN proposals' : \A k \in DOMAIN proposals' : j < k
  BY <1>2, <1>3
<1>5. ASSUME NEW j \in DOMAIN proposals', NEW h \in heads, h >= games[j].at
      PROVE  h \in heads'
  <2>1. s \in Indices /\ j \in Indices /\ s <= j /\ InOrder /\ h \in Nat
    BY <1>2, <1>3 DEF CacheInv
  <2>2. games[s].at <= games[j].at /\ games[s].at \in Nat /\ games[j].at \in Nat
    BY <2>1 DEF InOrder
  <2> QED
    BY <1>2, <1>5, <2>1, <2>2
<1> QED
  BY <1>2, <1>3, <1>4, <1>5 DEF SyncEffect, SuccessorOf

\* Every step of sync() but the start of the agent.
LEMMA AgentSyncs ==
  ASSUME LedgerInv, AgentInv, GuessInv, CacheInv, OpNodeAhead, AgentStep, pc # "off"
  PROVE  SyncEffect
<1>1. CASE LoadNext
  <2>1. PICK i : i = NextIndex
    OBVIOUS
  <2>2. pc = "load" /\ HasNext /\ UNCHANGED <<ledgerVars, safe, safe0>>
    BY <1>1 DEF LoadNext
  <2>3. \/ SkipForeign(i)
        \/ SkipDangling(i)
        \/ Delay(i)
        \/ SkipIrrelevant(i)
        \/ FailAssess(i)
        \/ Store(i)
    BY <1>1, <2>1 DEF LoadNext
  <2> QED
    BY <2>1, <2>2, <2>3, SkipSyncs, StoreSyncs
<1>2. CASE SyncOutputs \/ CountGames \/ LoadFails \/ LoadDone \/ SyncReturns
  <2>1. UNCHANGED <<ledgerVars, next, proposals, heads>> /\ pc' # "off"
    BY <1>2 DEF SyncOutputs, CountGames, LoadFails, LoadDone, SyncReturns, EndLoad, cursorVars
  <2> QED
    BY <2>1 DEF SyncEffect, SuccessorOf
<1>3. CASE FollowResolution
  BY <1>3, FollowSyncs
<1>4. ~Start
  BY DEF Start
<1> QED
  BY <1>1, <1>2, <1>3, <1>4 DEF AgentStep

LEMMA LoopSyncs ==
  ASSUME LedgerInv, AgentInv, GuessInv, CacheInv, LoopInv, OpNodeAhead, ValidatorSync
  PROVE  /\ LoopInv' /\ work' = work
         /\ pc = "off" => work = EmptyBag
         /\ pc # "off" => Handled' = reported /\ Handled = reported /\ reported \subseteq reported'
<1>1. /\ loaded = {} /\ AgentStep /\ loaded' = reported' \ reported
      /\ UNCHANGED <<config, work, workers>>
      /\ pc' # "idle" \/ pc = "off" => phase' = "sync"
      /\ pc' = "idle" /\ pc # "off" => phase' = AfterSync(loaded')
  BY DEF ValidatorSync, LoopInv
<1>2. Handled = reported
  BY <1>1 DEF Handled
<1>3. next \in Nat /\ next' \in Nat
  <2>1. AgentInv'
    BY <1>1, AgentStepSound
  <2> QED
    BY <2>1 DEF AgentInv, Queues
<1>4. CASE pc = "off"
  <2>1. pc' = "idle" /\ reported' = {} /\ DOMAIN proposals' = {}
    BY <1>1, <1>4 DEF AgentStep, Start, SyncOutputs, CountGames, LoadNext, LoadFails, LoadDone,
                      FollowResolution, SyncReturns
  <2>2. loaded' = {} /\ phase' = "sync"
    BY <1>1, <1>4, <2>1
  <2> QED
    BY <1>1, <1>4, <2>1, <2>2 DEF LoopInv, Handled
<1>5. CASE pc # "off"
  <2>1. SyncEffect /\ ~Start
    BY <1>1, <1>5, AgentSyncs DEF Start
  <2>2. ASSUME reported' = reported, pc' \in {"count", "load", "resolve"},
               pc' = "count" => pc = "idle" /\ DOMAIN proposals' = DOMAIN proposals,
               pc = "count" => pc' = "load" /\ first' = next /\ next' = next
                               /\ DOMAIN proposals' = DOMAIN proposals,
               pc' \in {"load", "resolve"} =>
                 pc = "count" \/ (pc \in {"load", "resolve"} /\ first' = first)
        PROVE  LoopInv' /\ Handled' = reported /\ reported \subseteq reported'
    <3>1. loaded' = {} /\ phase' = "sync" /\ Handled' = reported
      BY <1>1, <2>2 DEF Handled
    <3>2. reported \subseteq 0..(next - 1) /\ next <= next'
      BY <1>3, <1>5, <2>1 DEF LoopInv, SyncEffect
    <3>3. reported' \subseteq 0..(next' - 1)
      BY <1>3, <2>2, <3>2
    <3>4. pc' = "count" => DOMAIN proposals' \subseteq reported'
      BY <2>2 DEF LoopInv
    <3>5. ASSUME pc' \in {"load", "resolve"}
          PROVE  /\ first' \in 0..next' /\ reported' \subseteq 0..(first' - 1)
                 /\ DOMAIN proposals' \subseteq reported' \cup first'..(next' - 1)
      <4>1. CASE pc = "count"
        BY <1>3, <2>2, <3>2, <4>1 DEF LoopInv
      <4>2. CASE pc \in {"load", "resolve"}
        <5>1. /\ first \in 0..next /\ reported \subseteq 0..(first - 1) /\ first' = first
              /\ DOMAIN proposals \subseteq reported \cup first..(next - 1)
          BY <2>2, <4>2, <3>5 DEF LoopInv
        <5>2. \A j \in DOMAIN proposals' : j \in DOMAIN proposals \/ (j = next /\ next' = next + 1)
          BY <2>1 DEF SyncEffect
        <5> QED
          BY <1>3, <2>2, <3>2, <5>1, <5>2
      <4> QED
        BY <2>2, <3>5, <4>1, <4>2
    <3> QED
      BY <1>1, <1>5, <2>2, <3>1, <3>3, <3>4, <3>5 DEF LoopInv
  <2>3. CASE SyncOutputs \/ CountGames \/ LoadFails \/ LoadDone \/ FollowResolution
    <3>1. reported' = reported
      BY <2>3 DEF SyncOutputs, CountGames, LoadFails, LoadDone, FollowResolution
    <3>2. CASE SyncOutputs
      BY <1>1, <1>2, <1>5, <2>2, <3>1, <3>2 DEF SyncOutputs
    <3>3. CASE CountGames
      BY <1>1, <1>2, <1>5, <2>2, <3>1, <3>3 DEF CountGames, cursorVars
    <3>4. CASE LoadFails \/ LoadDone \/ FollowResolution
      BY <1>1, <1>2, <1>5, <2>2, <3>1, <3>4 DEF LoadFails, LoadDone, FollowResolution, EndLoad, localVars
    <3> QED
      BY <1>1, <1>2, <2>3, <3>2, <3>3, <3>4
  <2>4. CASE LoadNext
    <3>1. PICK i : i = NextIndex
      OBVIOUS
    <3>2. /\ pc = "load" /\ HasNext /\ UNCHANGED <<ledgerVars, safe, safe0>>
          /\ first' = first /\ reported' = reported
      BY <2>4 DEF LoadNext
    <3>3. \/ SkipForeign(i)
          \/ SkipDangling(i)
          \/ Delay(i)
          \/ SkipIrrelevant(i)
          \/ FailAssess(i)
          \/ Store(i)
      BY <2>4, <3>1 DEF LoadNext
    <3>4. pc' \in {"load", "resolve"}
      BY <3>1, <3>2, <3>3, SkipSyncs, StoreSyncs
    <3> QED
      BY <1>1, <1>2, <2>2, <3>2, <3>4
  <2>5. CASE SyncReturns
    <3>1. pc = "resolve" /\ pc' = "idle" /\ reported' = reported \cup Returned
          /\ next' = next /\ proposals' = proposals
      BY <2>5 DEF SyncReturns, cursorVars
    <3>2. /\ first \in 0..next /\ reported \subseteq 0..(first - 1)
          /\ DOMAIN proposals \subseteq reported \cup first..(next - 1)
      BY <3>1 DEF LoopInv
    <3>3. Returned = first..(next - 1) \cap DOMAIN proposals
      <4>1. CASE DOMAIN proposals = {}
        BY <4>1 DEF Returned
      <4>2. CASE DOMAIN proposals # {}
        <5>1. lastResolved \in Followed
          BY <4>2 DEF GuessInv, NothingDelayed
        <5>2. lastResolved \in DOMAIN proposals
          BY <5>1 DEF Followed
        <5>3. Successor # None => Successor \in Followed
          BY <5>2 DEF GuessInv, FollowedIsChain, Successor, SuccessorOf
        <5> QED
          BY <5>2, <5>3 DEF Returned, Followed
      <4> QED
        BY <4>1, <4>2
    <3>4. loaded' = Returned /\ Handled' = reported
      BY <1>1, <1>3, <3>1, <3>2, <3>3 DEF Handled
    <3>5. phase' = AfterSync(loaded')
      BY <1>1, <1>5, <3>1
    <3>6. DOMAIN proposals' \subseteq reported' /\ reported' \subseteq 0..(next' - 1)
      <4>1. DOMAIN proposals \subseteq reported \cup Returned
        BY <3>2, <3>3
      <4>2. reported \subseteq 0..(next - 1)
        BY <1>3, <3>2
      <4>3. Returned \subseteq 0..(next - 1)
        BY <1>3, <3>2, <3>3
      <4> QED
        BY <3>1, <4>1, <4>2, <4>3
    <3>7. \A i \in Handled', j \in loaded' : i < j
      BY <1>3, <3>2, <3>3, <3>4
    <3>8. loaded' \subseteq reported'
      BY <3>1, <3>4
    <3>9. phase' \in {"sync", "process", "work"} /\ (phase' = "process" <=> loaded' # {})
      BY <3>5 DEF AfterSync
    <3> QED
      BY <1>1, <1>2, <1>5, <3>1, <3>4, <3>6, <3>7, <3>8, <3>9 DEF LoopInv
  <2> QED
    BY <1>1, <1>2, <1>5, <2>1, <2>3, <2>4, <2>5 DEF AgentStep
<1> QED
  BY <1>4, <1>5

-----------------------------------------------------------------------------
\* The processed proposals are games.
LEMMA HandledAreGames ==
  ASSUME LedgerInv, AgentInv, GuessInv, LoopInv, pc # "off"
  PROVE  /\ next \in Nat /\ reported \subseteq 0..(next - 1)
         /\ reported \subseteq Indices /\ reported \subseteq Nat
<1>1. PICK n \in Nat : n = GameCount /\ Indices = 0..(n - 1)
  BY LedgerCount
<1>2. next \in Nat /\ next <= n
  BY <1>1 DEF AgentInv, Queues, GuessInv, NothingDelayed
<1>3. reported \subseteq 0..(next - 1)
  BY DEF LoopInv
<1> QED
  BY <1>1, <1>2, <1>3

\* The parent of a game is older.
LEMMA ParentFacts ==
  ASSUME LedgerInv, AgentInv, GuessInv, NEW i \in Indices \ {Root}, games[i].ours
  PROVE  /\ Parent(i) \in Indices /\ Parent(i) \in Nat /\ i \in Nat /\ Parent(i) < i
         /\ i \in Children(Parent(i)) /\ games[i].proposer \in Proposers
         /\ Height(i) = Height(Parent(i)) + 1 /\ Height(i) \in Nat
BY LedgerTypes DEF GuessInv, Climbing, Children, Parent

\* A step of sync() keeps the requests and proofs right.
LEMMA SyncWork ==
  ASSUME LedgerInv, AgentInv, GuessInv, CacheInv, LoopInv, WorkInv, OpNodeAhead, ValidatorSync
  PROVE  WorkInv'
<1>1. /\ UNCHANGED <<config, work, usedHead>> /\ AgentStep
  BY DEF ValidatorSync
<1>2. UNCHANGED ledgerVars
  BY <1>1 DEF AgentStep, Start, SyncOutputs, CountGames, LoadNext, LoadFails, LoadDone,
              FollowResolution, SyncReturns
<1>3. /\ games' = games /\ Indices' = Indices /\ \A i : Parent(i)' = Parent(i)
  BY <1>2, SameLedger DEF ledgerVars
<1>4. CASE pc = "off"
  <2>1. BagToSet(work') = {}
    BY <1>4, LoopSyncs DEF BagToSet, EmptyBag, SetToBag
  <2> QED
    BY <1>1, <1>3, <2>1 DEF WorkInv
<1>5. CASE pc # "off"
  <2>1. SyncEffect
    BY <1>1, <1>5, AgentSyncs
  <2>2. /\ next \in Nat /\ reported \subseteq 0..(next - 1) /\ reported \subseteq Indices
    BY <1>5, HandledAreGames
  <2>3. reported \subseteq reported'
    BY <1>5, LoopSyncs
  <2>4. ASSUME NEW x \in BagToSet(work)
        PROVE  ItemInv(x)'
    <3>1. ItemInv(x)
      BY DEF WorkInv
    <3>2. PICK g : g = x.game
      OBVIOUS
    <3>3. g \in reported \ {Root} /\ games[g].ours /\ g \in Indices
      BY <1>1, <1>2, <1>5, <2>2, <3>1, <3>2 DEF ItemInv
    <3>4. g \in Nat /\ g < next /\ Parent(g) \in Nat /\ Parent(g) < g
      BY <2>2, <3>3, ParentFacts
    <3>5. g \in DOMAIN proposals' => g \in DOMAIN proposals
      BY <2>1, <2>2, <3>4 DEF SyncEffect
    <3>6. Parent(g) \in DOMAIN proposals' => g \in DOMAIN proposals'
      <4>1. SUFFICES ASSUME Parent(g) \in DOMAIN proposals'
                     PROVE  g \in DOMAIN proposals'
        OBVIOUS
      <4>2. Parent(g) \in DOMAIN proposals
        BY <2>1, <2>2, <3>4, <4>1 DEF SyncEffect
      <4>3. g \in DOMAIN proposals
        BY <3>1, <3>2, <4>2 DEF ItemInv
      <4>4. g \notin DOMAIN proposals' => g < Parent(g)
        BY <2>1, <4>1, <4>3 DEF SyncEffect
      <4> QED
        BY <3>4, <4>4
    <3>7. g \in DOMAIN proposals' => proposals'[g].canonical = proposals[g].canonical
      BY <2>1, <3>5 DEF SyncEffect
    <3>8. g \in DOMAIN proposals' => \A h \in heads : h >= games[g].at => h \in heads'
      BY <2>1 DEF SyncEffect
    <3> QED
      BY <1>1, <1>3, <2>3, <3>1, <3>2, <3>5, <3>6, <3>7, <3>8 DEF ItemInv
  <2> QED
    BY <1>1, <1>3, <2>4 DEF WorkInv
<1> QED
  BY <1>4, <1>5

\* A step of sync() forgets nothing.
LEMMA SyncFaults ==
  ASSUME LedgerInv, AgentInv, GuessInv, CacheInv, LoopInv, OpNodeAhead, ValidatorSync,
         pc # "off", ForwardInv, FaultInv
  PROVE  ForwardInv' /\ FaultInv'
<1>1. /\ UNCHANGED <<config, work, validProven, faultProven>> /\ AgentStep
  BY DEF ValidatorSync, chainVars
<1>2. SyncEffect
  BY <1>1, AgentSyncs
<1>3. UNCHANGED ledgerVars
  BY <1>2 DEF SyncEffect
<1>4. /\ games' = games /\ \A i : /\ Parent(i)' = Parent(i) /\ Height(i)' = Height(i)
                                  /\ Decided(i)' = Decided(i)
  BY <1>3, SameLedger DEF ledgerVars
<1>5. /\ next \in Nat /\ reported \subseteq 0..(next - 1) /\ reported \subseteq Indices
  BY HandledAreGames
<1>6. Handled' = reported /\ Handled = reported
  BY LoopSyncs
<1>7. DOMAIN proposals \subseteq Indices /\ DOMAIN proposals \subseteq Nat
      /\ \A j \in DOMAIN proposals : games[j].ours
  BY LedgerCount DEF AgentInv, CacheIsSound, GuessInv, NothingDelayed
<1>8. ASSUME NEW i \in reported, i \in DOMAIN proposals' \ {Root}
      PROVE  /\ i \in DOMAIN proposals \ {Root} /\ i \in Indices /\ games[i].ours
             /\ Parent(i) \in DOMAIN proposals' => Parent(i) \in DOMAIN proposals
  <2>1. i < next /\ i \in Nat /\ i \in DOMAIN proposals
    BY <1>2, <1>5, <1>8 DEF SyncEffect
  <2>2. i \in Indices \ {Root} /\ games[i].ours
    BY <1>7, <1>8, <2>1
  <2>3. Parent(i) \in Nat /\ Parent(i) < next
    BY <1>5, <2>1, <2>2, ParentFacts
  <2> QED
    BY <1>2, <1>5, <1>8, <2>1, <2>2, <2>3 DEF SyncEffect
<1>9. ForwardInv'
  <2> SUFFICES ASSUME NEW s \in Handled', s \in (Followed \ {Root})', Forwards(s)',
                      (Parent(s) \in DOMAIN proposals)', ~Decided(Parent(s))',
                      (Parent(s) \notin validProven)'
               PROVE  \E x \in BagToSet(work)' : x.game = s
    BY DEF ForwardInv
  <2>1. s \in reported /\ s \in DOMAIN proposals' \ {Root} /\ proposals'[s].canonical
    BY <1>6 DEF Followed
  <2>2. s \in DOMAIN proposals /\ Parent(s) \in DOMAIN proposals
    BY <1>4, <1>8, <2>1
  <2>3. s \in Followed \ {Root}
    BY <1>2, <2>1, <2>2 DEF SyncEffect, Followed
  <2>4. Forwards(s) /\ ~Decided(Parent(s)) /\ Parent(s) \notin validProven
    BY <1>1, <1>4 DEF Forwards
  <2> QED
    BY <1>1, <1>6, <2>1, <2>2, <2>3, <2>4 DEF ForwardInv
<1>10. FaultInv'
  <2> SUFFICES ASSUME NEW i \in Handled', Unsettled(i)'
               PROVE  Awaited(i)' \/ \E x \in BagToSet(work)' : Answers(x, i)'
    BY DEF FaultInv
  <2>1. i \in reported /\ i \in DOMAIN proposals' \ {Root} /\ Parent(i) \in DOMAIN proposals'
    BY <1>4, <1>6 DEF Unsettled
  <2>2. i \in DOMAIN proposals /\ Parent(i) \in DOMAIN proposals
    BY <1>8, <2>1
  <2>3. Unsettled(i)
    BY <1>1, <1>4, <2>2 DEF Unsettled, IsProven
  <2>4. CASE \E x \in BagToSet(work) : Answers(x, i)
    BY <1>1, <1>4, <2>4 DEF Answers, SameSignature
  <2>5. CASE Awaited(i)
    <3>1. PICK t, s : t = Parent(i) /\ s = SuccessorOf(t)
      OBVIOUS
    <3>2. PICK s1 : s1 = SuccessorOf(t)'
      OBVIOUS
    <3>3. s1 = s \/ (s1 = next /\ next \in DOMAIN proposals')
      BY <1>2, <2>1, <2>2, <3>1, <3>2 DEF SyncEffect
    <3>4. Forwards(i)' = Forwards(i) /\ Parent(i)' = t
      BY <1>1, <1>4, <3>1 DEF Forwards
    <3>5. \/ config.single /\ s = None
          \/ (config.single \/ Forwards(i)) /\ s \in DOMAIN proposals \ reported
      BY <1>6, <2>5, <3>1 DEF Awaited
    <3>6. next \notin reported
      BY <1>5
    <3>7. s \in DOMAIN proposals => s \in DOMAIN proposals'
      <4>1. SUFFICES ASSUME s \in DOMAIN proposals
                     PROVE  s \in DOMAIN proposals'
        OBVIOUS
      <4>2. s # None
        BY <1>7, <4>1 DEF None
      <4>3. s \in Followed \ {Root} /\ Parent(s) = t
        BY <2>2, <3>1, <4>2 DEF GuessInv, FollowedIsChain
      <4>4. t < s /\ t \in Nat /\ s \in Nat
        BY <4>3, ParentFacts, <1>7 DEF Followed
      <4>5. s \notin DOMAIN proposals' => s < t
        BY <1>2, <2>1, <3>1, <4>1 DEF SyncEffect
      <4> QED
        BY <4>4, <4>5
    <3>8. \/ config.single /\ s1 = None
          \/ (config.single \/ Forwards(i)) /\ s1 \in DOMAIN proposals' \ reported
      BY <3>3, <3>5, <3>6, <3>7
    <3>9. Awaited(i)'
      BY <1>1, <1>6, <3>2, <3>4, <3>8 DEF Awaited
    <3> QED
      BY <3>9
  <2> QED
    BY <1>6, <2>1, <2>3, <2>4, <2>5 DEF FaultInv
<1> QED
  BY <1>9, <1>10

-----------------------------------------------------------------------------
(***************************************************************************)
(* process_proposals                                                       *)
(***************************************************************************)

\* The oldest of the proposals that sync() returned.
LEMMA ProcessFacts ==
  ASSUME LedgerInv, AgentInv, GuessInv, LoopInv, Process, NEW i, i = Min(loaded)
  PROVE  /\ pc = "idle" /\ i \in loaded /\ i \in reported /\ i \in Indices /\ i \in Nat
         /\ \A j \in loaded : i <= j
         /\ loaded' = loaded \ {i} /\ Handled' = Handled \cup {i} /\ i \notin Handled
         /\ \A k \in Handled : k < i
         /\ \A c \in DOMAIN proposals : c \in Nat /\ c \in Indices /\ (c < i => c \in Handled)
         /\ DOMAIN proposals \subseteq reported
         /\ UNCHANGED <<syncVars, config, usedHead, workers, chainVars>>
<1>1. pc = "idle" /\ loaded # {} /\ loaded \subseteq reported /\ DOMAIN proposals \subseteq reported
  BY DEF Process, LoopInv
<1>2. reported \subseteq Indices /\ reported \subseteq Nat
  BY <1>1, HandledAreGames
<1>3. i \in loaded /\ \A j \in loaded : i <= j
  <2>1. loaded \in SUBSET Nat
    BY <1>1, <1>2
  <2> QED
    BY <1>1, <2>1, MinExists
<1>4. loaded' = loaded \ {i} /\ UNCHANGED <<syncVars, config, usedHead, workers, chainVars>>
  BY DEF Process
<1>5. reported' = reported
  BY <1>4 DEF syncVars, agentVars
<1>6. Handled' = Handled \cup {i} /\ i \notin Handled
  BY <1>1, <1>3, <1>4, <1>5 DEF Handled
<1>7. \A k \in Handled : k < i
  BY <1>3 DEF LoopInv
<1>8. ASSUME NEW c \in DOMAIN proposals
      PROVE  c \in Nat /\ c \in Indices /\ (c < i => c \in Handled)
  <2>1. c \in reported /\ c \in Nat /\ c \in Indices /\ i \in Nat
    BY <1>1, <1>2, <1>3
  <2>2. c \in loaded => i <= c
    BY <1>3
  <2> QED
    BY <2>1, <2>2 DEF Handled
<1> QED
  BY <1>1, <1>2, <1>3, <1>4, <1>6, <1>7, <1>8

\* What a proposal that is not settled gives rise to is a request about a cached proposal.
LEMMA AnswerFacts ==
  ASSUME LedgerInv, AgentInv, GuessInv, CacheInv, LoopInv, pc = "idle", NEW i, NEW x \in Answer(i)
  PROVE  ItemInv(x)
<1>1. ~IsSettled(i)
  BY DEF Answer
<1>2. i \in DOMAIN proposals \ {Root} /\ Parent(i) \in DOMAIN proposals
  BY <1>1 DEF IsSettled
<1>3. /\ DOMAIN proposals \subseteq reported /\ DOMAIN proposals \subseteq Nat
      /\ \A j \in DOMAIN proposals : games[j].ours
  BY LedgerCount DEF LoopInv, AgentInv, CacheIsSound, GuessInv, NothingDelayed
<1>4. ASSUME NEW g \in Followed \ {Root}, x = Request("valid", g)
      PROVE  ItemInv(x)
  <2>1. g \in DOMAIN proposals /\ proposals[g].canonical /\ games[g].good /\ g \in Nat
    BY <1>4, FollowedFacts DEF Followed
  <2>2. x \in Items /\ x.game = g /\ x.kind = "valid" /\ x.at = "buffer"
    BY <1>4, <2>1 DEF Items, Request
  <2> QED
    BY <1>3, <1>4, <2>1, <2>2 DEF ItemInv
<1>5. CASE x = Request("valid", i) /\ proposals[i].canonical
  BY <1>2, <1>4, <1>5 DEF Followed
<1>6. ASSUME NEW s, s = proposals[Parent(i)].successor, s # None, x = Request("valid", s)
      PROVE  ItemInv(x)
  <2>1. s \in Followed \ {Root}
    BY <1>2, <1>6 DEF GuessInv, FollowedIsChain, SuccessorOf
  <2> QED
    BY <1>4, <1>6, <2>1
<1>7. CASE ~config.single /\ ~proposals[i].correct /\ x = Request(FaultKind(i), i)
  <2>1. ~games[i].good
    BY <1>2, <1>7 DEF CacheInv, Cached
  <2>2. ~proposals[i].canonical
    BY <1>2, <1>7 DEF AgentInv, CacheIsSound
  <2>3. FaultKind(i) \in {"fault", "trail"}
    BY DEF FaultKind
  <2>4. /\ x \in Items /\ x.game = i /\ x.kind \in {"fault", "trail"} /\ x.at = "buffer"
    BY <1>2, <1>3, <1>7, <2>3 DEF Items, Request
  <2> QED
    BY <1>2, <1>3, <1>7, <2>1, <2>2, <2>4 DEF ItemInv
<1> QED
  BY <1>1, <1>5, <1>6, <1>7 DEF Answer, AnswerSingleOutput, AnswerFault

LEMMA ProcessWork ==
  ASSUME LedgerInv, AgentInv, GuessInv, CacheInv, LoopInv, WorkInv, Process
  PROVE  /\ LoopInv' /\ WorkInv'
         /\ BagToSet(work)' = BagToSet(work) \cup Answer(Min(loaded))
<1>1. PICK i : i = Min(loaded)
  OBVIOUS
<1>2. /\ pc = "idle" /\ i \in loaded /\ i \in reported /\ i \in Nat
      /\ loaded' = loaded \ {i} /\ Handled' = Handled \cup {i}
      /\ \A j \in loaded : i <= j
      /\ UNCHANGED <<syncVars, config, usedHead, workers, chainVars>>
  BY <1>1, ProcessFacts
<1>3. /\ games' = games /\ Indices' = Indices /\ \A j : Parent(j)' = Parent(j)
      /\ UNCHANGED <<pc, next, first, reported, proposals, heads>>
  BY <1>2, SameLedger DEF syncVars, agentVars, cursorVars, localVars, ledgerVars
<1>4. phase' = AfterSync(loaded')
  BY DEF Process
<1>5. phase' \in {"process", "work"} /\ (phase' = "process" <=> loaded' # {})
  BY <1>4 DEF AfterSync
<1>6. \A k \in Handled', j \in loaded' : k < j
  <2>1. \A j \in loaded' : j \in loaded /\ i < j
    <3>1. loaded \subseteq Nat
      BY <1>2, HandledAreGames DEF LoopInv
    <3> QED
      BY <1>2, <3>1
  <2> QED
    BY <1>2, <2>1 DEF LoopInv
<1>7. LoopInv'
  BY <1>2, <1>3, <1>5, <1>6 DEF LoopInv
<1>8. /\ IsABag(work') /\ BagToSet(work') = BagToSet(work) \cup Answer(i)
  BY <1>1, BagAdd DEF Process, WorkInv
<1>9. ASSUME NEW x \in BagToSet(work')
      PROVE  ItemInv(x)'
  <2>1. ItemInv(x)
    BY <1>2, <1>8, AnswerFacts DEF WorkInv
  <2> QED
    BY <1>2, <1>3, <2>1 DEF ItemInv
<1> QED
  BY <1>1, <1>2, <1>3, <1>7, <1>8, <1>9 DEF WorkInv

\* A proposal of an open tournament is not settled.
LEMMA OpenIsUnsettled ==
  ASSUME LedgerInv, AgentInv, GuessInv, CacheInv, NEW i \in DOMAIN proposals \ {Root},
         Parent(i) \in DOMAIN proposals, ~Decided(Parent(i)), Parent(i) \notin validProven
  PROVE  /\ ~IsSettled(i) /\ i \in Indices /\ games[i].ours /\ i \in Children(Parent(i))
         /\ Height(i) = Height(Parent(i)) + 1
<1>1. i \in Indices /\ games[i].ours
  BY DEF AgentInv, CacheIsSound, GuessInv, NothingDelayed
<1>2. i \in Children(Parent(i)) /\ Height(i) = Height(Parent(i)) + 1
  BY <1>1, ParentFacts
<1>3. i \notin resolved
  BY <1>2 DEF Decided
<1>4. ~proposals[i].resolved
  BY <1>3 DEF CacheInv, Cached
<1> QED
  BY <1>1, <1>2, <1>4 DEF IsSettled

LEMMA ProcessForward ==
  ASSUME LedgerInv, AgentInv, GuessInv, CacheInv, LoopInv, WorkInv, Process, ForwardInv
  PROVE  ForwardInv'
<1>1. PICK i : i = Min(loaded)
  OBVIOUS
<1>2. /\ Handled' = Handled \cup {i} /\ UNCHANGED <<syncVars, config, usedHead, workers, chainVars>>
  BY <1>1, ProcessFacts
<1>3. /\ \A j : Parent(j)' = Parent(j) /\ Decided(j)' = Decided(j) /\ Height(j)' = Height(j)
      /\ UNCHANGED <<proposals, validProven>> /\ Followed' = Followed
  BY <1>2, SameLedger DEF syncVars, agentVars, ledgerVars, chainVars, Followed
<1>4. BagToSet(work)' = BagToSet(work) \cup Answer(i)
  BY <1>1, ProcessWork
<1> SUFFICES ASSUME NEW s \in Handled', s \in (Followed \ {Root})', Forwards(s)',
                    (Parent(s) \in DOMAIN proposals)', ~Decided(Parent(s))',
                    (Parent(s) \notin validProven)'
             PROVE  \E x \in BagToSet(work)' : x.game = s
  BY DEF ForwardInv
<1>5. /\ s \in Followed \ {Root} /\ Forwards(s) /\ Parent(s) \in DOMAIN proposals
      /\ ~Decided(Parent(s)) /\ Parent(s) \notin validProven
  BY <1>2, <1>3 DEF Forwards
<1>6. CASE s \in Handled
  BY <1>4, <1>5, <1>6 DEF ForwardInv
<1>7. CASE s = i
  <2>1. ~IsSettled(i) /\ proposals[i].canonical
    BY <1>5, <1>7, OpenIsUnsettled DEF Followed
  <2>2. Answer(i) = {Request("valid", i)}
    BY <1>5, <1>7, <2>1 DEF Answer, Forwards, Height
  <2>3. Request("valid", i) \in BagToSet(work)' /\ Request("valid", i).game = i
    BY <1>4, <2>2 DEF Request
  <2> QED
    BY <1>7, <2>3
<1> QED
  BY <1>2, <1>6, <1>7

\* The processed faults before i, in its tournament.
LEMMA PredecessorFacts ==
  ASSUME LedgerInv, AgentInv, GuessInv, CacheInv, NEW i \in DOMAIN proposals \ {Root},
         Parent(i) \in DOMAIN proposals, ~Decided(Parent(i)), Parent(i) \notin validProven
  PROVE  /\ \A c \in Predecessors(i) : c \in DOMAIN proposals \ {Root} /\ Parent(c) = Parent(i) /\ c < i
         /\ \A k \in DOMAIN proposals \ {Root} :
              Parent(k) = Parent(i) /\ k < i /\ ~games[k].good => k \in Predecessors(i)
<1>1. PICK t : t = Parent(i)
  OBVIOUS
<1>2. Cached(t)
  BY <1>1 DEF CacheInv
<1>3. ASSUME NEW c \in Predecessors(i)
      PROVE  c \in DOMAIN proposals \ {Root} /\ Parent(c) = t /\ c < i
  BY <1>1, <1>2, <1>3 DEF Predecessors, Cached, Children, Parent
<1>4. ASSUME NEW k \in DOMAIN proposals \ {Root}, Parent(k) = t, k < i, ~games[k].good
      PROVE  k \in Predecessors(i)
  <2>1. k \in Indices /\ games[k].ours /\ k < next /\ k \in Nat
    BY LedgerCount DEF AgentInv, CacheIsSound, GuessInv, NothingDelayed
  <2>2. k \in Children(t) /\ games[k].proposer \in Proposers
    BY <1>4, <2>1, ParentFacts
  <2>3. k \in proposals[t].children
    BY <1>1, <1>2, <2>1, <2>2 DEF Cached
  <2>4. eliminations[games[k].proposer] >= k
    BY <1>4 DEF CacheInv, Cached
  <2>5. eliminations[games[k].proposer] \in Nat
    BY <2>2 DEF AgentInv, Faults
  <2>6. ~EliminatedBefore(eliminations, k)
    BY <2>1, <2>4, <2>5 DEF EliminatedBefore
  <2> QED
    BY <1>1, <1>4, <2>3, <2>6 DEF Predecessors
<1> QED
  BY <1>1, <1>3, <1>4

\* A request for the correct proposal answers every fault of its tournament.
LEMMA SuccessorFacts ==
  ASSUME LedgerInv, AgentInv, GuessInv, NEW t \in DOMAIN proposals, NEW s, s = SuccessorOf(t), s # None
  PROVE  /\ s \in Followed \ {Root} /\ s \in DOMAIN proposals /\ Parent(s) = t /\ games[s].good
         /\ proposals[s].canonical
<1>1. s \in Followed \ {Root} /\ Parent(s) = t
  BY DEF GuessInv, FollowedIsChain
<1> QED
  BY <1>1, FollowedFacts DEF Followed

\* A proposal that was waited for gives rise to a request.
LEMMA AwaitedIsAnswered ==
  ASSUME LedgerInv, AgentInv, GuessInv, CacheInv, NEW k, Unsettled(k), NEW i, i = SuccessorOf(Parent(k)),
         i \in DOMAIN proposals, k < i, config.single \/ Forwards(k)
  PROVE  \E x \in Answer(i) : Answers(x, k)
<1>1. PICK t : t = Parent(k)
  OBVIOUS
<1>2. /\ k \in DOMAIN proposals \ {Root} /\ ~games[k].good /\ t \in DOMAIN proposals
      /\ ~Decided(t) /\ t \notin validProven
  BY <1>1 DEF Unsettled
<1>3. i # None
  <2>1. DOMAIN proposals \subseteq Nat
    BY LedgerCount DEF AgentInv, CacheIsSound
  <2> QED
    BY <2>1 DEF None
<1>4. i \in DOMAIN proposals \ {Root} /\ Parent(i) = t /\ games[i].good /\ proposals[i].canonical
  BY <1>1, <1>2, <1>3, SuccessorFacts
<1>5. ~IsSettled(i) /\ Height(i) = Height(t) + 1
  BY <1>2, <1>4, OpenIsUnsettled
<1>6. Height(k) = Height(t) + 1
  BY <1>1, <1>2, OpenIsUnsettled
<1>7. Answer(i) = {Request("valid", i)}
  <2>1. CASE Forwards(k)
    <3>1. games[i].height \in config.forward
      BY <1>5, <1>6, <2>1 DEF Forwards, Height
    <3> QED
      BY <1>4, <1>5, <3>1 DEF Answer
  <2>2. CASE ~Forwards(k)
    <3>1. ~(games[i].height \in config.forward) /\ config.single
      BY <1>5, <1>6, <2>2 DEF Forwards, Height
    <3>2. ~proposals[k].correct
      BY <1>2 DEF CacheInv, Cached
    <3>3. k \in Predecessors(i)
      BY <1>1, <1>2, <1>4, PredecessorFacts
    <3>4. IsPriorFault(i)
      BY <3>2, <3>3 DEF IsPriorFault
    <3>5. proposals[Parent(i)].successor = i
      BY <1>1, <1>4 DEF SuccessorOf
    <3> QED
      BY <1>3, <1>5, <3>1, <3>4, <3>5 DEF Answer, AnswerSingleOutput
  <2> QED
    BY <2>1, <2>2
<1>8. Answers(Request("valid", i), k)
  BY <1>1, <1>4 DEF Answers, Request
<1> QED
  BY <1>7, <1>8

\* A proposal that is being processed is answered, or its tournament's correct proposal is
\* still to come.
LEMMA NewFaultAnswered ==
  ASSUME LedgerInv, AgentInv, GuessInv, CacheInv, LoopInv, WorkInv, ForwardInv, FaultInv,
         NEW i, Unsettled(i), i \notin Handled, pc = "idle",
         \A c \in DOMAIN proposals : c < i => c \in Handled
  PROVE  \/ \E x \in BagToSet(work) \cup Answer(i) : Answers(x, i)
         \/ config.single /\ SuccessorOf(Parent(i)) = None
         \/ /\ config.single \/ Forwards(i)
            /\ SuccessorOf(Parent(i)) \in DOMAIN proposals \ (Handled \cup {i})
<1>1. PICK t, s : t = Parent(i) /\ s = SuccessorOf(t)
  OBVIOUS
<1>2. /\ i \in DOMAIN proposals \ {Root} /\ ~games[i].good /\ t \in DOMAIN proposals
      /\ ~Decided(t) /\ t \notin validProven /\ (IsProven(i) => config.single)
  BY <1>1 DEF Unsettled
<1>3. ~IsSettled(i) /\ Height(i) = Height(t) + 1
  BY <1>1, <1>2, OpenIsUnsettled
<1>4. ~proposals[i].correct /\ ~proposals[i].canonical
  BY <1>2 DEF CacheInv, Cached, AgentInv, CacheIsSound
<1>5. s # None => /\ s \in DOMAIN proposals \ {Root} /\ s \in Followed /\ Parent(s) = t
                  /\ games[s].good /\ s # i
  BY <1>1, <1>2, SuccessorFacts
<1>6. ASSUME NEW c \in Predecessors(i)
      PROVE  /\ c \in DOMAIN proposals \ {Root} /\ Parent(c) = t /\ c \in Handled
             /\ Height(c) = Height(i)
  <2>1. c \in DOMAIN proposals \ {Root} /\ Parent(c) = t /\ c < i
    BY <1>1, <1>2, PredecessorFacts
  <2>2. Height(c) = Height(t) + 1
    BY <1>2, <2>1, OpenIsUnsettled
  <2> QED
    BY <1>3, <2>1, <2>2
<1>7. CASE Forwards(i) /\ s # None
  <2>1. CASE s \in Handled
    <3>1. Height(s) = Height(t) + 1
      BY <1>2, <1>5, <1>7, OpenIsUnsettled
    <3>2. Forwards(s)
      BY <1>3, <1>7, <3>1 DEF Forwards
    <3>3. PICK x \in BagToSet(work) : x.game = s
      BY <1>2, <1>5, <1>7, <2>1, <3>2 DEF ForwardInv
    <3>4. Answers(x, i)
      BY <1>1, <1>5, <1>7, <3>3 DEF Answers
    <3> QED
      BY <3>3, <3>4
  <2>2. CASE s \notin Handled
    BY <1>1, <1>5, <1>7, <2>2
  <2> QED
    BY <2>1, <2>2
<1>8. CASE config.single /\ s = None
  BY <1>1, <1>8
<1>9. CASE config.single /\ s # None /\ ~Forwards(i)
  <2>1. CASE ~IsPriorFault(i)
    <3>1. Answer(i) = {Request("valid", s)}
      BY <1>1, <1>3, <1>4, <1>5, <1>9, <2>1 DEF Answer, AnswerSingleOutput, Forwards, Height, SuccessorOf
    <3>2. Answers(Request("valid", s), i)
      BY <1>1, <1>5, <1>9 DEF Answers, Request
    <3> QED
      BY <3>1, <3>2
  <2>2. CASE IsPriorFault(i)
    <3>1. PICK c \in Predecessors(i) : ~proposals[c].correct
      BY <2>2 DEF IsPriorFault
    <3>2. c \in DOMAIN proposals \ {Root} /\ Parent(c) = t /\ c \in Handled
      BY <1>6
    <3>3. ~games[c].good
      BY <3>1, <3>2 DEF CacheInv, Cached
    <3>4. Unsettled(c)
      BY <1>2, <1>9, <3>2, <3>3 DEF Unsettled
    <3>5. CASE Awaited(c)
      <4>1. s \in DOMAIN proposals \ Handled
        BY <1>1, <1>9, <3>2, <3>5 DEF Awaited
      <4> QED
        BY <1>1, <1>5, <1>9, <4>1
    <3>6. ASSUME NEW x \in BagToSet(work), Answers(x, c)
          PROVE  Answers(x, i)
      <4>1. games[x.game].good
        BY <1>9 DEF WorkInv, ItemInv
      <4> QED
        BY <1>1, <3>2, <3>6, <4>1 DEF Answers
    <3> QED
      BY <3>2, <3>4, <3>5, <3>6 DEF FaultInv
  <2> QED
    BY <2>1, <2>2
<1>10. CASE ~config.single /\ ~(Forwards(i) /\ s # None)
  <2>1. Answer(i) = AnswerFault(i)
    BY <1>1, <1>3, <1>4, <1>10 DEF Answer, Forwards, Height, SuccessorOf
  <2>2. CASE IsRepeatSignature(i)
    <3>1. PICK c \in Predecessors(i) : SameSignature(c, i)
      BY <2>2 DEF IsRepeatSignature
    <3>2. c \in DOMAIN proposals \ {Root} /\ Parent(c) = t /\ c \in Handled /\ Height(c) = Height(i)
      BY <1>6
    <3>3. ~games[c].good /\ games[c].claim = games[i].claim
      BY <1>2, <3>1 DEF SameSignature
    <3>4. ~IsProven(c)
      BY <1>1, <1>2, <1>10, <3>2, <3>3 DEF IsProven
    <3>5. Unsettled(c)
      BY <1>2, <3>2, <3>3, <3>4 DEF Unsettled
    <3>6. ~Awaited(c)
      <4>1. DOMAIN proposals \subseteq Nat
        BY LedgerCount DEF AgentInv, CacheIsSound
      <4>2. Forwards(c) <=> Forwards(i)
        BY <3>2 DEF Forwards
      <4> QED
        BY <1>1, <1>10, <3>2, <4>1, <4>2 DEF Awaited, None
    <3>7. PICK x \in BagToSet(work) : Answers(x, c)
      BY <3>2, <3>5, <3>6 DEF FaultInv
    <3>8. Answers(x, i)
      BY <1>1, <3>1, <3>2, <3>7 DEF Answers, SameSignature
    <3> QED
      BY <3>7, <3>8
  <2>3. CASE ~IsRepeatSignature(i)
    <3>1. ~IsProven(i)
      BY <1>2, <1>10
    <3>2. Answer(i) = {Request(FaultKind(i), i)}
      BY <1>4, <2>1, <2>3, <3>1 DEF AnswerFault
    <3>3. Answers(Request(FaultKind(i), i), i)
      BY DEF Answers, SameSignature, Request
    <3> QED
      BY <3>2, <3>3
  <2> QED
    BY <2>2, <2>3
<1>11. CASE config.single /\ s # None /\ Forwards(i)
  BY <1>7, <1>11
<1> QED
  BY <1>7, <1>8, <1>9, <1>10

LEMMA ProcessFaults ==
  ASSUME LedgerInv, AgentInv, GuessInv, CacheInv, LoopInv, WorkInv, Process, ForwardInv, FaultInv
  PROVE  FaultInv'
<1>1. PICK i : i = Min(loaded)
  OBVIOUS
<1>2. /\ Handled' = Handled \cup {i} /\ i \notin Handled /\ pc = "idle"
      /\ \A k \in Handled : k < i
      /\ \A c \in DOMAIN proposals : c \in Nat /\ (c < i => c \in Handled)
      /\ UNCHANGED <<syncVars, config, usedHead, workers, chainVars>>
  BY <1>1, ProcessFacts
<1>3. /\ \A j : Parent(j)' = Parent(j) /\ Decided(j)' = Decided(j) /\ Height(j)' = Height(j)
      /\ UNCHANGED <<games, proposals, validProven, faultProven>>
      /\ \A j : SuccessorOf(j)' = SuccessorOf(j)
  BY <1>2, SameLedger DEF syncVars, agentVars, ledgerVars, chainVars, SuccessorOf
<1>4. BagToSet(work)' = BagToSet(work) \cup Answer(i)
  BY <1>1, ProcessWork
<1> SUFFICES ASSUME NEW k \in Handled', Unsettled(k)'
             PROVE  Awaited(k)' \/ \E x \in BagToSet(work)' : Answers(x, k)'
  BY DEF FaultInv
<1>5. Unsettled(k)
  BY <1>2, <1>3 DEF Unsettled, IsProven
<1>6. SUFFICES \/ \E x \in BagToSet(work) \cup Answer(i) : Answers(x, k)
               \/ config.single /\ SuccessorOf(Parent(k)) = None
               \/ /\ config.single \/ Forwards(k)
                  /\ SuccessorOf(Parent(k)) \in DOMAIN proposals \ (Handled \cup {i})
  <2>1. ASSUME NEW x
        PROVE  Answers(x, k)' <=> Answers(x, k)
    BY <1>3 DEF Answers, SameSignature
  <2>2. Awaited(k)' <=> \/ config.single /\ SuccessorOf(Parent(k)) = None
                        \/ /\ config.single \/ Forwards(k)
                           /\ SuccessorOf(Parent(k)) \in DOMAIN proposals \ (Handled \cup {i})
    BY <1>2, <1>3 DEF Awaited, Forwards
  <2> QED
    BY <1>4, <1>6, <2>1, <2>2
<1>7. CASE k \in Handled
  <2>1. CASE \E x \in BagToSet(work) : Answers(x, k)
    BY <2>1
  <2>2. CASE Awaited(k)
    <3>1. CASE SuccessorOf(Parent(k)) = i /\ i \in DOMAIN proposals /\ (config.single \/ Forwards(k))
      BY <1>2, <1>5, <1>7, <3>1, AwaitedIsAnswered
    <3>2. CASE ~(SuccessorOf(Parent(k)) = i /\ i \in DOMAIN proposals /\ (config.single \/ Forwards(k)))
      BY <2>2, <3>2 DEF Awaited
    <3> QED
      BY <3>1, <3>2
  <2> QED
    BY <1>5, <1>7, <2>1, <2>2 DEF FaultInv
<1>8. CASE k = i
  BY <1>2, <1>5, <1>8, NewFaultAnswered
<1> QED
  BY <1>2, <1>7, <1>8

-----------------------------------------------------------------------------
(***************************************************************************)
(* The requests and proofs under way.                                      *)
(***************************************************************************)

\* A proof about the game has nothing left to show.
Moot(g) ==
  \/ Parent(g) \notin DOMAIN proposals \/ Decided(Parent(g))
  \/ Parent(g) \in validProven \/ IsProven(g)

\* Each item stays, moves on or becomes moot, and proofs on chain stay there.
WorkMoves ==
  /\ faultProven \subseteq faultProven' /\ validProven \subseteq validProven'
  /\ IsABag(work') /\ \A y \in BagToSet(work') : ItemInv(y)
  /\ \A y \in BagToSet(work) : Moot(y.game)' \/ \E z \in BagToSet(work') : z.game = y.game

\* The variables that the handling of items leaves alone.
AgentStays == UNCHANGED <<syncVars, config, phase, loaded>>

LEMMA SameAgent ==
  ASSUME AgentStays
  PROVE  /\ UNCHANGED <<games, proposals, heads, reported, pc, next, first>>
         /\ Indices' = Indices /\ Handled' = Handled /\ Followed' = Followed
         /\ \A j : /\ Parent(j)' = Parent(j) /\ Decided(j)' = Decided(j) /\ Height(j)' = Height(j)
                   /\ SuccessorOf(j)' = SuccessorOf(j)
BY SameLedger DEF AgentStays, syncVars, agentVars, cursorVars, localVars, ledgerVars, Followed,
                  SuccessorOf, Handled

\* A proof that the contract has accepted stays.
LEMMA ProofsStay ==
  ASSUME AgentStays, faultProven \subseteq faultProven', validProven \subseteq validProven', NEW g
  PROVE  /\ IsProven(g) => IsProven(g)'
         /\ Moot(g) => Moot(g)'
<1>1. IsProven(g) => IsProven(g)'
  BY SameAgent DEF IsProven
<1> QED
  BY <1>1, SameAgent DEF Moot

LEMMA MovedItems ==
  ASSUME WorkInv, AgentStays, WorkMoves
  PROVE  \A y \in BagToSet(work') : ItemInv(y)'
BY SameAgent DEF WorkMoves, ItemInv, AgentStays

LEMMA MovedWork ==
  ASSUME LedgerInv, AgentInv, GuessInv, WorkInv, AgentStays, WorkMoves, ForwardInv, FaultInv
  PROVE  ForwardInv' /\ FaultInv'
<1>1. /\ faultProven \subseteq faultProven' /\ validProven \subseteq validProven'
      /\ \A y \in BagToSet(work) : Moot(y.game)' \/ \E z \in BagToSet(work') : z.game = y.game
  BY DEF WorkMoves
<1>2. config' = config
  BY DEF AgentStays
<1>3. ForwardInv'
  <2> SUFFICES ASSUME NEW s \in Handled', s \in (Followed \ {Root})', Forwards(s)',
                      (Parent(s) \in DOMAIN proposals)', ~Decided(Parent(s))',
                      (Parent(s) \notin validProven)'
               PROVE  \E x \in BagToSet(work)' : x.game = s
    BY DEF ForwardInv
  <2>1. /\ s \in Handled /\ s \in Followed \ {Root} /\ Forwards(s)
        /\ Parent(s) \in DOMAIN proposals /\ ~Decided(Parent(s)) /\ Parent(s) \notin validProven'
    BY <1>2, SameAgent DEF Forwards
  <2>2. PICK x \in BagToSet(work) : x.game = s
    BY <1>1, <2>1 DEF ForwardInv
  <2>3. games[s].good
    BY <2>1, FollowedFacts
  <2>4. ~Moot(s)'
    BY <2>1, <2>3, SameAgent DEF Moot, IsProven
  <2> QED
    BY <1>1, <2>2, <2>4
<1>4. FaultInv'
  <2> SUFFICES ASSUME NEW i \in Handled', Unsettled(i)'
               PROVE  Awaited(i)' \/ \E x \in BagToSet(work)' : Answers(x, i)'
    BY DEF FaultInv
  <2>1. /\ i \in DOMAIN proposals \ {Root} /\ ~games[i].good /\ Parent(i) \in DOMAIN proposals
        /\ ~Decided(Parent(i)) /\ Parent(i) \notin validProven' /\ (IsProven(i)' => config.single)
    BY <1>2, SameAgent DEF Unsettled
  <2>2. Unsettled(i)
    BY <1>1, <2>1, ProofsStay DEF Unsettled
  <2>3. Awaited(i)' <=> Awaited(i)
    BY <1>2, SameAgent DEF Awaited, Forwards
  <2>4. ASSUME NEW x \in BagToSet(work), Answers(x, i)
        PROVE  \E z \in BagToSet(work') : Answers(z, i)'
    <3>1. Parent(x.game) = Parent(i) /\ (SameSignature(x.game, i) \/ games[x.game].good)
      BY <2>4 DEF Answers
    <3>2. config.single => games[x.game].good
      BY DEF WorkInv, ItemInv
    <3>3. ~Moot(x.game)'
      <4>1. SUFFICES ASSUME IsProven(x.game)'
                     PROVE  FALSE
        BY <2>1, <3>1, SameAgent DEF Moot
      <4>2. ~games[x.game].good
        BY <2>1, <3>1, <4>1, SameAgent DEF IsProven
      <4>3. games[x.game].claim = games[i].claim /\ ~config.single
        BY <3>1, <3>2, <4>2 DEF SameSignature
      <4>4. IsProven(i)'
        BY <2>1, <3>1, <4>1, <4>2, <4>3, SameAgent DEF IsProven
      <4> QED
        BY <2>1, <4>3, <4>4
    <3>4. PICK z \in BagToSet(work') : z.game = x.game
      BY <1>1, <3>3
    <3>5. Answers(z, i)'
      BY <3>1, <3>4, SameAgent DEF Answers, SameSignature
    <3> QED
      BY <3>5
  <2>5. i \in Handled
    BY SameAgent
  <2> QED
    BY <2>2, <2>3, <2>4, <2>5 DEF FaultInv
<1> QED
  BY <1>3, <1>4

\* An item that is dropped, or moved on.
LEMMA DropMoves ==
  ASSUME WorkInv, AgentStays, NEW x \in BagToSet(work), Drop(x), Moot(x.game)',
         faultProven \subseteq faultProven', validProven \subseteq validProven'
  PROVE  WorkMoves
<1>1. /\ IsABag(work') /\ BagToSet(work') \subseteq BagToSet(work)
      /\ BagToSet(work) \subseteq BagToSet(work') \cup {x}
  BY DropFacts DEF WorkInv
<1> QED
  BY <1>1 DEF WorkMoves, WorkInv

LEMMA StepMoves ==
  ASSUME WorkInv, AgentStays, NEW x \in BagToSet(work), NEW y, Move(x, y), y.game = x.game, ItemInv(y),
         UNCHANGED chainVars
  PROVE  WorkMoves
<1>1. /\ IsABag(work') /\ BagToSet(work') \subseteq BagToSet(work) \cup {y}
      /\ BagToSet(work) \subseteq BagToSet(work') \cup {x} /\ y \in BagToSet(work')
  BY MoveFacts DEF WorkInv
<1> QED
  BY <1>1 DEF WorkMoves, WorkInv, chainVars

LEMMA StayMoves ==
  ASSUME WorkInv, AgentStays, UNCHANGED work,
         faultProven \subseteq faultProven', validProven \subseteq validProven'
  PROVE  WorkMoves
BY DEF WorkMoves, WorkInv

\* A missing item's tournament is gone.
LEMMA MissingIsMoot ==
  ASSUME WorkInv, NEW x \in BagToSet(work), IsMissing(x.game)
  PROVE  Moot(x.game)
BY DEF WorkInv, ItemInv, IsMissing, Moot

LEMMA RecordFacts ==
  ASSUME NEW kind, NEW i, Record(kind, i)
  PROVE  faultProven \subseteq faultProven' /\ validProven \subseteq validProven'
BY DEF Record

LEMMA TransactMoves ==
  ASSUME WorkInv, AgentStays, NEW x \in BagToSet(work), x.kind # "none", Transact(x)
  PROVE  WorkMoves
<1>1. CASE Accepts(x.game) /\ Record(x.kind, x.game) /\ Drop(x)
  <2>1. Moot(x.game)'
    <3>1. CASE x.kind = "valid"
      BY <1>1, <3>1, SameAgent DEF Record, Moot
    <3>2. CASE x.kind # "valid"
      <4>1. ~games[x.game].good
        BY <3>2 DEF WorkInv, ItemInv
      <4> QED
        BY <1>1, <3>2, <4>1, SameAgent DEF Record, Moot, IsProven
    <3> QED
      BY <3>1, <3>2
  <2> QED
    BY <1>1, <2>1, RecordFacts, DropMoves
<1>2. CASE UNCHANGED work /\ (Record(x.kind, x.game) \/ UNCHANGED chainVars)
  BY <1>2, RecordFacts, StayMoves DEF chainVars
<1>3. CASE ~Accepts(x.game) /\ Drop(x) /\ UNCHANGED chainVars
  <2>1. Moot(x.game)
    BY <1>3 DEF Accepts, Moot
  <2> QED
    BY <1>3, <2>1, ProofsStay, DropMoves DEF chainVars
<1> QED
  BY <1>1, <1>2, <1>3 DEF Transact

\* The L1 heads to prove from.
LEMMA HeadFacts ==
  ASSUME CacheInv, WorkInv, NEW i \in DOMAIN proposals, NEW h \in NextHeads(i), i \in Indices
  PROVE  h \in heads /\ h \in Nat /\ h >= games[i].at
<1>1. games[i].at \in heads /\ heads \subseteq Nat
  BY DEF CacheInv, Cached
<1>2. CASE i \notin DOMAIN usedHead
  <2>1. h = games[i].at
    BY <1>2 DEF NextHeads
  <2>2. games[i].at \in Nat
    BY <1>1
  <2> QED
    BY <1>1, <2>1, <2>2
<1>3. CASE i \in DOMAIN usedHead
  <2>1. PICK later : later = {k \in heads : k > usedHead[i]}
    OBVIOUS
  <2>2. later # {} /\ h = Min(later)
    BY <1>3, <2>1 DEF NextHeads
  <2>3. h \in later
    BY <1>1, <2>1, <2>2, MinExists
  <2>4. usedHead[i] \in Nat /\ usedHead[i] >= games[i].at
    BY <1>3 DEF WorkInv
  <2>5. h \in heads /\ h > usedHead[i]
    BY <2>1, <2>3
  <2>6. h \in Nat /\ games[i].at \in Nat
    BY <1>1, <2>5
  <2> QED
    BY <2>4, <2>5, <2>6
<1> QED
  BY <1>2, <1>3

\* Facts of an item.
LEMMA ItemFacts ==
  ASSUME NEW x, ItemInv(x)
  PROVE  /\ x.game \in Nat
         /\ x.at = "buffer" /\ x.kind # "trail" => x.kind \in {"fault", "valid"}
         /\ x.at = "prover" => x.kind \in {"fault", "valid"} /\ x.head \in Nat
BY DEF ItemInv, Items

\* The head that a request uses up.
LEMMA DispatchMoves ==
  ASSUME LedgerInv, AgentInv, GuessInv, CacheInv, WorkInv, AgentStays,
         NEW x \in BagToSet(work), Dispatch(x)
  PROVE  /\ WorkMoves
         /\ \A i \in DOMAIN usedHead' :
              i \in Indices /\ usedHead'[i] \in Nat /\ usedHead'[i] >= games[i].at
<1>1. ItemInv(x)
  BY DEF WorkInv
<1>2. PICK g : g = x.game
  OBVIOUS
<1>3. /\ g \in DOMAIN proposals /\ g \in Indices /\ x.at = "buffer" /\ x.kind \in {"fault", "valid"}
      /\ UNCHANGED chainVars /\ g \in Nat
  <2>1. g \in DOMAIN proposals /\ x.at = "buffer" /\ x.kind # "trail" /\ UNCHANGED chainVars
    BY <1>2 DEF Dispatch, IsMissing
  <2> QED
    BY <1>1, <1>2, <2>1, ItemFacts DEF AgentInv, CacheIsSound
<1>4. CASE IsProven(g) /\ Drop(x) /\ UNCHANGED usedHead
  <2>1. Moot(g)'
    BY <1>3, <1>4, ProofsStay DEF Moot, chainVars
  <2>2. WorkMoves
    BY <1>2, <1>3, <1>4, <2>1, DropMoves DEF chainVars
  <2> QED
    BY <1>4, <2>2 DEF WorkInv
<1>5. ASSUME NEW h \in NextHeads(g), UseHead(g, h),
             Move(x, Task(x.kind, g, h)) \/ UNCHANGED work
      PROVE  /\ WorkMoves
             /\ \A i \in DOMAIN usedHead' :
                  i \in Indices /\ usedHead'[i] \in Nat /\ usedHead'[i] >= games[i].at
  <2>1. h \in heads /\ h \in Nat /\ h >= games[g].at
    BY <1>3, <1>5, HeadFacts
  <2>2. ASSUME NEW y, y = Task(x.kind, g, h)
        PROVE  ItemInv(y) /\ y.game = g
    <3>1. /\ y \in Items /\ y.game = g /\ y.kind = x.kind /\ y.at = "prover" /\ y.head = h
      BY <1>3, <2>1, <2>2 DEF Task, Items
    <3> QED
      BY <1>1, <1>2, <1>3, <2>1, <3>1 DEF ItemInv
  <2>3. WorkMoves
    <3>1. CASE Move(x, Task(x.kind, g, h))
      BY <1>2, <1>3, <2>2, <3>1, StepMoves
    <3>2. CASE UNCHANGED work
      BY <1>3, <3>2, StayMoves DEF chainVars
    <3> QED
      BY <1>5, <3>1, <3>2
  <2>4. ASSUME NEW i \in DOMAIN usedHead'
        PROVE  i \in Indices /\ usedHead'[i] \in Nat /\ usedHead'[i] >= games[i].at
    <3>1. CASE i = g
      BY <1>3, <1>5, <2>1, <2>4, <3>1 DEF UseHead
    <3>2. CASE i # g
      <4>1. i \in DOMAIN usedHead /\ usedHead'[i] = usedHead[i]
        BY <1>5, <2>4, <3>2 DEF UseHead
      <4> QED
        BY <4>1 DEF WorkInv
    <3> QED
      BY <3>1, <3>2
  <2> QED
    BY <2>3, <2>4
<1> QED
  BY <1>2, <1>4, <1>5 DEF Dispatch

LEMMA HandleMoves ==
  ASSUME LedgerInv, AgentInv, GuessInv, CacheInv, WorkInv, AgentStays,
         NEW x \in BagToSet(work), DropFreed(x) \/ Dispatch(x) \/ PublishReceipt(x) \/ PublishTrail(x)
  PROVE  /\ WorkMoves
         /\ \A i \in DOMAIN usedHead' :
              i \in Indices /\ usedHead'[i] \in Nat /\ usedHead'[i] >= games[i].at
<1>1. ItemInv(x)
  BY DEF WorkInv
<1>2. ASSUME UNCHANGED usedHead
      PROVE  \A i \in DOMAIN usedHead' :
               i \in Indices /\ usedHead'[i] \in Nat /\ usedHead'[i] >= games[i].at
  BY <1>2 DEF WorkInv
<1>3. ASSUME Drop(x), Moot(x.game), UNCHANGED chainVars
      PROVE  WorkMoves
  BY <1>3, ProofsStay, DropMoves DEF chainVars
<1>4. CASE DropFreed(x)
  <2>1. WorkMoves
    BY <1>3, <1>4, MissingIsMoot DEF DropFreed
  <2> QED
    BY <1>2, <1>4, <2>1 DEF DropFreed
<1>5. CASE Dispatch(x)
  BY <1>5, DispatchMoves
<1>6. CASE PublishReceipt(x)
  <2>0. SUFFICES WorkMoves
    BY <1>2, <1>6 DEF PublishReceipt
  <2>1. CASE Parent(x.game) \in validProven /\ Drop(x) /\ UNCHANGED chainVars
    BY <1>3, <2>1 DEF Moot
  <2>2. CASE Move(x, RequestAgain(x.game)) /\ UNCHANGED chainVars
    <3>1. PICK g, y : g = x.game /\ y = RequestAgain(g)
      OBVIOUS
    <3>2. g \in DOMAIN proposals
      BY <1>6, <3>1 DEF PublishReceipt, IsMissing
    <3>3. (proposals[g].canonical <=> games[g].good) /\ (config.single => games[g].good)
      BY <1>1, <3>1, <3>2 DEF ItemInv
    <3>4. /\ y.at = "buffer" /\ y.game = g /\ y \in Items /\ y.kind # "none"
          /\ y.kind = "valid" <=> games[g].good
      <4>1. CASE games[g].good
        <5>1. y = Request("valid", g)
          BY <3>1, <3>3, <4>1 DEF RequestAgain
        <5> QED
          BY <1>1, <3>1, <4>1, <5>1, ItemFacts DEF Request, Items
      <4>2. CASE ~games[g].good
        <5>1. y = Request("fault", g)
          BY <3>1, <3>3, <4>2 DEF RequestAgain
        <5> QED
          BY <1>1, <3>1, <4>2, <5>1, ItemFacts DEF Request, Items
      <4> QED
        BY <4>1, <4>2
    <3>5. ItemInv(y)
      BY <1>1, <3>1, <3>4 DEF ItemInv
    <3> QED
      BY <2>2, <3>1, <3>4, <3>5, StepMoves
  <2>3. CASE IsProven(x.game) /\ Drop(x) /\ UNCHANGED chainVars
    BY <1>3, <2>3 DEF Moot
  <2>4. CASE x.kind # "none" /\ Transact(x)
    BY <2>4, TransactMoves
  <2> QED
    BY <1>6, <2>1, <2>2, <2>3, <2>4 DEF PublishReceipt
<1>7. CASE PublishTrail(x)
  <2>0. SUFFICES WorkMoves
    BY <1>2, <1>7 DEF PublishTrail
  <2>1. CASE IsMissing(x.game) /\ Drop(x) /\ UNCHANGED chainVars
    BY <1>3, <2>1, MissingIsMoot
  <2>2. CASE IsProven(x.game) /\ Drop(x) /\ UNCHANGED chainVars
    BY <1>3, <2>2 DEF Moot
  <2>3. CASE x.kind = "trail" /\ Transact(x)
    BY <2>3, TransactMoves
  <2> QED
    BY <1>7, <2>1, <2>2, <2>3 DEF PublishTrail
<1> QED
  BY <1>4, <1>5, <1>6, <1>7

LEMMA ProveMoves ==
  ASSUME WorkInv, AgentStays, NEW x \in BagToSet(work), Prove(x)
  PROVE  WorkMoves
<1>1. ItemInv(x) /\ UNCHANGED chainVars /\ x.at = "prover"
  BY DEF WorkInv, Prove
<1>2. x.game \in Nat /\ x.kind \in {"fault", "valid"} /\ x.head \in Nat
  BY <1>1, ItemFacts
<1>3. PICK y : Move(x, y) /\ (y = Proof(x.kind, x.game, x.head) \/ y = NoProof(x.game))
  BY DEF Prove
<1>4. CASE y = Proof(x.kind, x.game, x.head)
  <2>1. y \in Items /\ y.game = x.game /\ y.kind = x.kind /\ y.head = x.head /\ y.at = "computed"
    BY <1>2, <1>4 DEF Proof, Items
  <2>2. ItemInv(y)
    BY <1>1, <1>2, <2>1 DEF ItemInv
  <2> QED
    BY <1>1, <1>3, <2>1, <2>2, StepMoves
<1>5. CASE y = NoProof(x.game)
  <2>1. y \in Items /\ y.game = x.game /\ y.kind = "none" /\ y.at = "computed"
    BY <1>2, <1>5 DEF NoProof, Items
  <2>2. ItemInv(y)
    BY <1>1, <2>1 DEF ItemInv
  <2> QED
    BY <1>1, <1>3, <2>1, <2>2, StepMoves
<1> QED
  BY <1>3, <1>4, <1>5

\* Handling of items and proofs of others, between two calls of sync().
LEMMA ItemsMove ==
  ASSUME LedgerInv, AgentInv, GuessInv, LoopInv, WorkInv, AgentStays, WorkMoves,
         pc = "off" => work' = EmptyBag,
         workers' \in 0..Provers,
         \A i \in DOMAIN usedHead' :
           i \in Indices /\ usedHead'[i] \in Nat /\ usedHead'[i] >= games[i].at
  PROVE  /\ LoopInv' /\ WorkInv'
         /\ ForwardInv /\ FaultInv => ForwardInv' /\ FaultInv'
<1>1. LoopInv'
  BY SameAgent DEF LoopInv, AgentStays
<1>2. WorkInv'
  BY SameAgent, MovedItems DEF WorkInv, WorkMoves
<1> QED
  BY <1>1, <1>2, MovedWork

\* The ledger moves on.
LEMMA WorldWork ==
  ASSUME LedgerInv, AgentInv, GuessInv, LoopInv, WorkInv, ValidatorWorld
  PROVE  /\ LoopInv' /\ WorkInv'
         /\ pc # "off" /\ ForwardInv /\ FaultInv => ForwardInv' /\ FaultInv'
<1>1. /\ LedgerNext /\ UNCHANGED <<pc, next, first, reported, proposals, heads>>
      /\ UNCHANGED <<config, phase, loaded, work, usedHead, workers, validProven, faultProven>>
  BY DEF ValidatorWorld, Propose, Prune, Resolve, LedgerNext, agentVars, cursorVars, localVars,
         validatorVars, pipeVars, chainVars
<1>2. GamesKept /\ resolved \subseteq resolved'
  BY <1>1, ResolvedKept DEF GuessInv
<1>3. LoopInv'
  BY <1>1 DEF LoopInv, Handled
<1>4. ASSUME NEW g \in Indices
      PROVE  /\ games'[g] = games[g] /\ Parent(g)' = Parent(g) /\ Height(g)' = Height(g)
             /\ g \in Indices'
  BY <1>2 DEF GamesKept, Parent, Height
<1>5. pc # "off" => reported \subseteq Indices
  BY HandledAreGames
<1>6. ASSUME NEW x \in BagToSet(work)
      PROVE  x.game \in Indices /\ ItemInv(x)'
  <2>1. pc # "off"
    <3>1. BagToSet(EmptyBag) = {}
      BY DEF BagToSet, EmptyBag, SetToBag
    <3> QED
      BY <3>1 DEF LoopInv
  <2>2. ItemInv(x)
    BY DEF WorkInv
  <2>3. x.game \in Indices
    BY <1>5, <2>1, <2>2 DEF ItemInv
  <2> QED
    BY <1>1, <1>4, <2>2, <2>3 DEF ItemInv
<1>7. WorkInv'
  <2>1. \A i \in DOMAIN usedHead' :
          (i \in Indices /\ usedHead[i] \in Nat /\ usedHead[i] >= games[i].at)'
    BY <1>1, <1>4 DEF WorkInv
  <2> QED
    BY <1>1, <1>6, <2>1 DEF WorkInv
<1>8. DOMAIN proposals \subseteq Indices /\ Followed' = Followed /\ Handled' = Handled
  BY <1>1 DEF AgentInv, CacheIsSound, Followed, Handled
<1>9. ASSUME pc # "off", ForwardInv, FaultInv
      PROVE  ForwardInv' /\ FaultInv'
  <2>1. ASSUME NEW s \in Handled', s \in (Followed \ {Root})', Forwards(s)',
               (Parent(s) \in DOMAIN proposals)', ~Decided(Parent(s))',
               (Parent(s) \notin validProven)'
        PROVE  \E x \in BagToSet(work)' : x.game = s
    <3>1. s \in Indices /\ s \in Handled /\ s \in Followed \ {Root}
      BY <1>8, <2>1 DEF Followed
    <3>2. PICK t : t = Parent(s) /\ Parent(s)' = t
      BY <1>4, <3>1
    <3>3. Forwards(s) /\ t \in DOMAIN proposals /\ t \notin validProven
      BY <1>1, <1>4, <2>1, <3>1, <3>2 DEF Forwards
    <3>4. ~Decided(t)
      <4>1. ~Decided(t)'
        BY <2>1, <3>2
      <4> QED
        BY <1>2, <4>1, DecidedKept
    <3> QED
      BY <1>1, <1>9, <3>1, <3>2, <3>3, <3>4 DEF ForwardInv
  <2>2. ASSUME NEW i \in Handled', Unsettled(i)'
        PROVE  Awaited(i)' \/ \E x \in BagToSet(work)' : Answers(x, i)'
    <3>1. i \in DOMAIN proposals \ {Root} /\ i \in Indices /\ i \in Handled
      BY <1>1, <1>8, <2>2 DEF Unsettled
    <3>2. PICK t : t = Parent(i) /\ Parent(i)' = t
      BY <1>4, <3>1
    <3>3. games'[i] = games[i] /\ Height(i)' = Height(i)
      BY <1>4, <3>1
    <3>4. ~Decided(t)
      <4>1. ~Decided(t)'
        BY <2>2, <3>2 DEF Unsettled
      <4> QED
        BY <1>2, <4>1, DecidedKept
    <3>5. Unsettled(i)
      BY <1>1, <2>2, <3>1, <3>2, <3>3, <3>4 DEF Unsettled, IsProven
    <3>6. CASE Awaited(i)
      BY <1>1, <1>8, <3>2, <3>3, <3>6 DEF Awaited, Forwards, SuccessorOf
    <3>7. ASSUME NEW x \in BagToSet(work), Answers(x, i)
          PROVE  Answers(x, i)'
      <4>1. x.game \in Indices
        BY <1>6
      <4>2. games'[x.game] = games[x.game] /\ Parent(x.game)' = Parent(x.game)
        BY <1>4, <4>1
      <4> QED
        BY <3>2, <3>3, <3>7, <4>2 DEF Answers, SameSignature
    <3> QED
      BY <1>1, <1>9, <3>1, <3>5, <3>6, <3>7 DEF FaultInv
  <2> QED
    BY <2>1, <2>2 DEF ForwardInv, FaultInv
<1> QED
  BY <1>3, <1>7, <1>9

-----------------------------------------------------------------------------
LEMMA InitiallyValid ==
  ASSUME ValidatorInit
  PROVE  ValidatorInv
<1>1. /\ pc = "off" /\ DOMAIN proposals = {} /\ outputs = {} /\ heads = {} /\ lastOutput = 0
      /\ reported = {} /\ now = 0 /\ Indices = {Root} /\ games[Root].at = 0
      /\ config \in Configs /\ phase = "sync" /\ loaded = {} /\ work = EmptyBag
      /\ DOMAIN usedHead = {} /\ workers = Provers
  BY DEF ValidatorInit, SyncInit, AgentInit, LedgerInit, GameOf, Indices
<1>2. InOrder
  BY <1>1 DEF InOrder
<1>3. OutputsFrom(0) /\ 0 \in 0..0
  BY <1>1 DEF OutputsFrom, Followed
<1>4. CacheInv
  BY <1>1, <1>2, <1>3 DEF CacheInv
<1>5. LoopInv
  BY <1>1, ValidatorAssumption DEF LoopInv, Handled
<1>6. IsABag(EmptyBag) /\ BagToSet(EmptyBag) = {}
  BY DEF IsABag, BagToSet, EmptyBag, SetToBag
<1>7. WorkInv
  BY <1>1, <1>6 DEF WorkInv
<1> QED
  BY <1>1, <1>4, <1>5, <1>7 DEF ValidatorInv

\* The validator's invariant is inductive.
LEMMA ValidatorKeeps ==
  ASSUME LedgerInv, AgentInv, GuessInv, ValidatorInv, OpNodeAhead, [ValidatorNext]_validateVars
  PROVE  ValidatorInv'
<1>1. CacheInv'
  BY ValidatorSyncs, SyncCache DEF ValidatorInv
<1>2. CacheInv /\ LoopInv /\ WorkInv
  BY DEF ValidatorInv
<1>3. /\ workers \in 0..Provers /\ Provers \in Nat
      /\ \A i \in DOMAIN usedHead : i \in Indices /\ usedHead[i] \in Nat /\ usedHead[i] >= games[i].at
  BY <1>2, ValidatorAssumption DEF LoopInv, WorkInv
<1>4. IsABag(EmptyBag) /\ BagToSet(EmptyBag) = {}
  BY DEF IsABag, BagToSet, EmptyBag, SetToBag
<1>5. \A x \in BagToSet(work) : pc # "off"
  BY <1>2, <1>4 DEF LoopInv
<1>6. SUFFICES /\ LoopInv' /\ WorkInv'
               /\ workers' = Provers /\ pc' # "off" => ForwardInv' /\ FaultInv'
  BY <1>1 DEF ValidatorInv
<1>7. CASE ValidatorSync
  <2>1. LoopInv' /\ WorkInv' /\ workers' = workers
    BY <1>2, <1>7, LoopSyncs, SyncWork DEF ValidatorSync
  <2>2. CASE pc = "off"
    <3>1. Handled' = {}
      <4>1. reported' = {}
        BY <1>7, <2>2 DEF ValidatorSync, AgentStep, Start, SyncOutputs, CountGames, LoadNext,
                          LoadFails, LoadDone, FollowResolution, SyncReturns
      <4> QED
        BY <4>1 DEF Handled
    <3> QED
      BY <2>1, <3>1 DEF ForwardInv, FaultInv
  <2>3. CASE pc # "off"
    BY <1>2, <1>7, <2>1, <2>3, SyncFaults DEF ValidatorInv
  <2> QED
    BY <2>2, <2>3
<1>8. CASE Process
  <2>1. UNCHANGED <<pc, workers>>
    BY <1>8 DEF Process, syncVars, agentVars
  <2> QED
    BY <1>2, <1>8, <2>1, ProcessWork, ProcessForward, ProcessFaults DEF ValidatorInv
<1>9. CASE ValidatorRestart
  <2>1. /\ pc' = "off" /\ phase' = "sync" /\ loaded' = {} /\ work' = EmptyBag
        /\ DOMAIN usedHead' = {} /\ workers' = Provers /\ config' = config
    BY <1>9 DEF ValidatorRestart, Crash
  <2>2. LoopInv'
    BY <1>2, <1>3, <2>1 DEF LoopInv, Handled
  <2>3. WorkInv'
    BY <1>4, <2>1 DEF WorkInv
  <2> QED
    BY <2>1, <2>2, <2>3
<1>10. CASE ValidatorWorld
  <2>1. UNCHANGED <<pc, workers>>
    BY <1>10 DEF ValidatorWorld, agentVars, validatorVars, pipeVars
  <2> QED
    BY <1>2, <1>10, <2>1, WorldWork DEF ValidatorInv
<1>11. ASSUME AgentStays, WorkMoves, pc = "off" => work' = EmptyBag, workers' = workers,
              \A i \in DOMAIN usedHead' :
                i \in Indices /\ usedHead'[i] \in Nat /\ usedHead'[i] >= games[i].at
       PROVE  /\ LoopInv' /\ WorkInv'
              /\ workers' = Provers /\ pc' # "off" => ForwardInv' /\ FaultInv'
  BY <1>2, <1>3, <1>11, ItemsMove, SameAgent DEF ValidatorInv
<1>12. ASSUME NEW x \in BagToSet(work), Handle(x)
       PROVE  /\ LoopInv' /\ WorkInv'
              /\ workers' = Provers /\ pc' # "off" => ForwardInv' /\ FaultInv'
  <2>1. AgentStays /\ workers' = workers
    BY <1>12 DEF Handle, AgentStays
  <2>2. /\ WorkMoves
        /\ \A i \in DOMAIN usedHead' :
             i \in Indices /\ usedHead'[i] \in Nat /\ usedHead'[i] >= games[i].at
    BY <1>2, <1>12, <2>1, HandleMoves DEF Handle
  <2> QED
    BY <1>5, <1>11, <2>1, <2>2
<1>13. ASSUME NEW x \in BagToSet(work), Prove(x)
       PROVE  /\ LoopInv' /\ WorkInv'
              /\ workers' = Provers /\ pc' # "off" => ForwardInv' /\ FaultInv'
  <2>1. AgentStays /\ workers' = workers /\ usedHead' = usedHead
    BY <1>13 DEF Prove, AgentStays
  <2>2. WorkMoves
    BY <1>2, <1>13, <2>1, ProveMoves
  <2> QED
    BY <1>3, <1>5, <1>11, <2>1, <2>2
<1>14. ASSUME NEW x \in BagToSet(work), SpawnFails(x)
       PROVE  /\ LoopInv' /\ WorkInv' /\ workers' # Provers
  <2>1. /\ AgentStays /\ workers' = workers - 1 /\ workers > 0 /\ usedHead' = usedHead /\ Drop(x)
    BY <1>14 DEF SpawnFails, AgentStays
  <2>2. workers' \in 0..Provers /\ workers' # Provers
    BY <1>3, <2>1
  <2>3. IsABag(work') /\ BagToSet(work') \subseteq BagToSet(work)
    BY <1>2, <2>1, DropFacts DEF WorkInv
  <2>4. \A y \in BagToSet(work') : ItemInv(y)'
    BY <1>2, <2>1, <2>3, SameAgent DEF WorkInv, ItemInv, AgentStays
  <2>5. WorkInv'
    BY <1>3, <2>1, <2>3, <2>4, SameAgent DEF WorkInv
  <2>6. LoopInv'
    BY <1>2, <1>5, <2>1, <2>2, SameAgent DEF LoopInv, AgentStays
  <2> QED
    BY <2>2, <2>5, <2>6
<1>15. CASE UNCHANGED validateVars \/ \E i \in Indices : RivalProof(i)
  <2>1. AgentStays /\ UNCHANGED <<work, workers, usedHead>>
    BY <1>15 DEF RivalProof, validateVars, validatorVars, pipeVars, AgentStays
  <2>2. faultProven \subseteq faultProven' /\ validProven \subseteq validProven'
    BY <1>15, RecordFacts DEF RivalProof, validateVars, validatorVars, chainVars
  <2>3. WorkMoves
    BY <1>2, <2>1, <2>2, StayMoves
  <2>4. pc = "off" => work' = EmptyBag
    BY <1>2, <2>1 DEF LoopInv
  <2> QED
    BY <1>3, <1>11, <2>1, <2>3, <2>4
<1> QED
  BY <1>7, <1>8, <1>9, <1>10, <1>12, <1>13, <1>14, <1>15 DEF ValidatorNext, ValidatorAct

LEMMA ValidatorInvariant ==
  ValidatorSpec /\ []OpNodeAhead => [](LedgerInv /\ AgentInv /\ GuessInv /\ ValidatorInv)
<1>1. ValidatorInit => LedgerInv /\ AgentInv /\ GuessInv /\ ValidatorInv
  BY InitiallySound, InitiallyRight, InitiallyValid DEF ValidatorInit
<1>2. LedgerInv /\ AgentInv /\ GuessInv /\ ValidatorInv /\ OpNodeAhead /\ [ValidatorNext]_validateVars
        => (LedgerInv /\ AgentInv /\ GuessInv /\ ValidatorInv)'
  BY ValidatorSyncs, SyncGuess, ValidatorKeeps
<1> QED
  BY <1>1, <1>2, PTL DEF ValidatorSpec

\* While no prover is lost, there is a request or a proof under way against every faulty
\* proposal that the validator knows of, for every number of games, proposers and provers:
\* through every skipped duplicate, failed request or transaction, refused L1 head, freed
\* proposal and restart, when the op-node is ahead of the proposals.
THEOREM FaultsAreRemembered == ValidatorSpec /\ []OpNodeAhead => []NoFaultForgotten
<1>1. LedgerInv /\ AgentInv /\ GuessInv /\ ValidatorInv => NoFaultForgotten
  BY FaultsRemembered
<1> QED
  BY <1>1, ValidatorInvariant, PTL

\* The outputs, L1 heads and positions among the children that requests and proofs look up
\* are at hand until their tournament is decided, when the op-node is ahead of the proposals.
THEOREM WorkHasItsData == ValidatorSpec /\ []OpNodeAhead => []WorkFindsItsData
<1>1. LedgerInv /\ AgentInv /\ GuessInv /\ ValidatorInv => WorkFindsItsData
  BY DataAtHand
<1> QED
  BY <1>1, ValidatorInvariant, PTL
=============================================================================
